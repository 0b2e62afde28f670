--------------------------- MODULE Finance_proofs ---------------------------
(***************************************************************************)
(* Proofs about Finance, for any number of users, rows and requests: its   *)
(* inductive invariant, and that every request takes effect as one step of *)
(* FinanceAtomic.                                                          *)
(***************************************************************************)
EXTENDS Finance, TLAPS

(***************************************************************************)
(* The inductive invariant: what holds of each request x by itself and of  *)
(* the tables, what holds of two requests, and what holds of the tables.   *)
(***************************************************************************)

Single(S) == \A z, y \in S : z = y

\* What a request writes to a transaction: its account and, or not, a category.
Refers(x, t) == {x.acc[t], x.cat[t]} \ {None}

\* The statements of each endpoint, and the ids it is given.
Form(x) ==
    /\ x.op = "create" => x.pc \in {"accounts", "categories", "write", "references"}
    /\ x.op = "update" => x.pc \in {"accounts", "categories", "write", "rows", "references"}
    /\ x.op \in {"deleteTransaction", "bulkDeleteTransactions"} => x.pc \in {"write", "rows"}
    /\ x.op = "createResource" => x.pc \in {"claim", "commit"}
    /\ x.op = "rename" => x.pc \in {"write", "resources", "claim", "commit"}
    /\ x.op \in {"deleteResource", "bulkDeleteResources"} =>
         /\ x.pc \in {"write", "resources", "cascade"}
         /\ x.ids \in (SUBSET Account) \cup (SUBSET Category)
    /\ x.op \in {"create", "update"} => \A t \in x.ids : x.acc[t] \in Account
    /\ x.op \in {"create", "update", "deleteTransaction", "bulkDeleteTransactions"} =>
         x.ids \subseteq TransactionId
    /\ x.op \in {"createResource", "rename"} =>
         x.ids \subseteq Resource /\ x.ids # {} /\ x.name \in Name
    /\ x.op = "createResource" => \A y \in x.ids : Owner[y] = x.user
    /\ x.op \in {"update", "deleteTransaction", "createResource", "rename"} => Single(x.ids)

\* Which rows it has locked, and which it still has to visit, at each statement.
Agenda(x) ==
    /\ x.pc \notin {"rows", "references", "resources", "cascade"} => x.todo = {}
    /\ x.pc \in {"accounts", "categories", "write"} => x.locked = {}
    /\ x.pc # "references" => x.shared = {}
    /\ x.pc = "rows" =>
         /\ x.locked \subseteq x.ids
         /\ \A p \in x.todo : /\ p[1] \in x.ids /\ p[1] \notin x.locked
                              /\ p[2] \in Account /\ Owner[p[2]] = x.user
         /\ \A p, q \in x.todo : p[1] = q[1] => p = q
    /\ x.pc = "references" =>
         /\ x.locked = IF x.op = "update" THEN x.ids ELSE {}
         /\ \A p \in x.todo : p[1] \in x.ids /\ p[2] \in Refers(x, p[1])
    /\ x.pc = "resources" =>
         /\ x.locked \subseteq x.ids
         /\ \A p \in x.todo : /\ p[1] \in x.ids /\ p[1] \notin x.locked
                              /\ p[1] = p[2] /\ Owner[p[2]] = x.user
    /\ x.pc \in {"claim", "commit"} => x.locked = IF x.op = "rename" THEN x.ids ELSE {}
    /\ x.pc = "cascade" =>
         /\ x.locked \cap Resource \subseteq x.ids
         /\ \A p \in x.todo : p[2] \in x.locked
    /\ \A y \in x.locked \cap Resource : Owner[y] = x.user

\* A generated id has no row before its request has committed.
Fresh(x) ==
    /\ x.op = "create" => \A t \in x.ids : account[t] = None
    /\ x.op = "createResource" => \A y \in x.ids : name[y] = None

\* What it has locked is still what it was when it was locked.
Held(x) ==
    /\ \A y \in (x.locked \cap Resource) \cup x.shared : Exists(y)
    /\ x.pc \in {"rows", "references"} =>
         \A t \in x.locked : account[t] \in Account /\ Owner[account[t]] = x.user
    /\ x.pc = "cascade" =>
         \A t \in x.locked \cap TransactionId : \E y \in x.locked \cap Resource : RefersTo(t, y)

\* References that the handler's checks have found did exist and belong to the
\* user; those the snapshot of the write did not show are deleted by now.
LookedUp(x) ==
    /\ x.pc = "categories" => \A t \in x.ids : Owner[x.acc[t]] = x.user /\ name[x.acc[t]] # None
    /\ x.op \in {"create", "update"} /\ x.pc \in {"write", "rows", "references"} =>
         \A t \in x.ids : \A y \in Refers(x, t) : Owner[y] = x.user /\ name[y] # None
    /\ x.op = "update" /\ x.pc = "rows" =>
         \A t \in x.ids : \A y \in Refers(x, t) \ x.seen : name[y] = Gone

\* A reference about to be written is still to be checked, is held, or is
\* the one that the locked row has already.
Referred(x) ==
    x.pc = "references" =>
      \A t \in x.ids : \A y \in Refers(x, t) :
         <<t, y>> \in x.todo \/ y \in x.shared \/ (x.op = "update" /\ RefersTo(t, y))

\* A transaction that refers to a row being deleted is locked by the cascade, or
\* on its list.
Cascading(x) ==
    x.pc = "cascade" =>
      \A t \in TransactionId, y \in x.locked \cap Resource :
         RefersTo(t, y) => t \in x.locked \/ <<t, y>> \in x.todo

\* A name found free stays free until its request takes it.
Claimed(x) ==
    x.pc = "commit" =>
      \A z \in x.ids, y \in Resource : SameList(z, y) /\ y # z => name[y] # x.name

Own(x) ==
    /\ Form(x) /\ Agenda(x) /\ Fresh(x) /\ Held(x)
    /\ LookedUp(x) /\ Referred(x) /\ Cascading(x) /\ Claimed(x)

\* Two requests: what x has written y has not locked in any mode, an id is
\* generated once, and they do not take the same name.
Apart(x, y) ==
    /\ \A z \in x.locked : z \notin y.locked /\ z \notin y.shared
    /\ x.op \in {"create", "createResource"} /\ y.op = x.op => \A z \in x.ids : z \notin y.ids
    /\ x.pc = "commit" /\ y.pc = "commit" =>
         \A w \in x.ids, z \in y.ids : SameList(w, z) => x.name # y.name

\* A transaction without an account has no category either.
Rooted == \A t \in TransactionId : account[t] \notin Account => category[t] = None

Inv ==
    /\ TypeOK
    /\ \A r \in Req : Own(request[r])
    /\ \A r, q \in Req : r # q => Apart(request[r], request[q])
    /\ SoundReferences /\ NamesUnique /\ Rooted

-----------------------------------------------------------------------------
(* Slots.                                                                  *)

\* The assumptions on the constants, in the form the proofs use.
LEMMA Constants ==
  /\ Account \subseteq Resource /\ Category \subseteq Resource
  /\ \A x \in Resource : Owner[x] \in User /\ x # None /\ x # Gone /\ x \notin TransactionId
  /\ \A t \in TransactionId : t # None /\ t # Gone
  /\ \A n \in Name : n # None /\ n # Gone
  /\ \A u \in User : u # None
  /\ \A a \in Account : a \notin Category
  /\ None # Gone
  BY FinanceAssumption DEF Resource

\* A step of request r changes slot r and no other.
LEMMA Slot ==
  ASSUME TypeOK, NEW r \in Req, NEW x, request' = [request EXCEPT ![r] = x]
  PROVE  /\ request'[r] = x
         /\ \A q \in Req \ {r} : request'[q] = request[q]
         /\ x \in Request => request' \in [Req -> Request]
  BY DEF TypeOK

\* The fields of a request in a reachable slot.
LEMMA Fields ==
  ASSUME TypeOK, NEW r \in Req
  PROVE  /\ request[r] \in Request
         /\ request[r].op \in AllOps \cup {"none"} /\ request[r].pc \in Pc
         /\ request[r].user \in User \cup {None}
         /\ request[r].ids \subseteq TransactionId \cup Resource
         /\ request[r].acc \in [TransactionId -> Account \cup {None}]
         /\ request[r].cat \in [TransactionId -> Category \cup {None}]
         /\ request[r].name \in Name \cup {None}
         /\ request[r].seen \subseteq Resource
         /\ request[r].todo \subseteq (TransactionId \cup Resource) \X Resource
         /\ request[r].locked \subseteq TransactionId \cup Resource
         /\ request[r].shared \subseteq Resource
         /\ request[r].op = "none" <=> request[r] = NoRequest
         /\ request[r].op # "none" => request[r].pc # "idle" /\ request[r].user \in User
  <1>1. request[r] \in Request
    BY DEF TypeOK
  <1>2. QED
    BY <1>1 DEF TypeOK, Request

\* An idle slot holds nothing.
LEMMA NoRequestFields ==
  /\ NoRequest \in Request
  /\ NoRequest.op = "none" /\ NoRequest.pc = "idle" /\ NoRequest.ids = {}
  /\ NoRequest.todo = {} /\ NoRequest.locked = {} /\ NoRequest.shared = {}
  BY DEF NoRequest, Request, Pc

\* An idle slot meets every condition of the invariant.
LEMMA NoRequestOwn == Own(NoRequest) /\ \A x : Apart(NoRequest, x) /\ Apart(x, NoRequest)
  BY NoRequestFields
     DEF Own, Form, Agenda, Fresh, Held, LookedUp, Referred, Cascading, Claimed, Apart

\* What holds of a request holds as long as the tables do not change.
LEMMA OwnKept ==
  ASSUME UNCHANGED db, NEW q \in Req, NEW x, request'[q] = x, Own(x)
  PROVE  Own(request[q])'
  <1>1. name' = name /\ account' = account /\ category' = category
    BY DEF db
  <1>2. (Form(request[q]) /\ Agenda(request[q]))'
    BY DEF Own, Form, Agenda, Refers, Single
  <1>3. (Fresh(request[q]) /\ Held(request[q]))'
    BY <1>1 DEF Own, Fresh, Held, Exists, RefersTo
  <1>4. (LookedUp(request[q]) /\ Claimed(request[q]))'
    BY <1>1 DEF Own, LookedUp, Refers, Claimed, SameList
  <1>5. (Referred(request[q]) /\ Cascading(request[q]))'
    BY <1>1 DEF Own, Refers, Referred, Cascading, RefersTo
  <1>6. QED
    BY <1>2, <1>3, <1>4, <1>5 DEF Own

\* What holds of the tables holds as long as they do not change.
LEMMA TablesKept ==
  ASSUME UNCHANGED db
  PROVE  /\ SoundReferences => SoundReferences'
         /\ NamesUnique => NamesUnique'
         /\ Rooted => Rooted'
  BY DEF db, SoundReferences, NamesUnique, Rooted, Exists, SameList

\* Two requests in the new state, one of them x.
LEMMA ApartKept ==
  ASSUME Inv, NEW r \in Req, NEW x,
         request'[r] = x, \A q \in Req \ {r} : request'[q] = request[q],
         \A q \in Req \ {r} : Apart(x, request[q]) /\ Apart(request[q], x)
  PROVE  (\A p, q \in Req : p # q => Apart(request[p], request[q]))'
  <1> SUFFICES ASSUME NEW p \in Req, NEW q \in Req, p # q
               PROVE  Apart(request'[p], request'[q])
    BY DEF Apart, SameList
  <1>1. CASE p = r
    BY <1>1
  <1>2. CASE q = r
    BY <1>2
  <1>3. CASE p # r /\ q # r
    BY <1>3 DEF Inv
  <1>4. QED
    BY <1>1, <1>2, <1>3

\* A request goes on: it is enough to know it in its new form.
LEMMA ContinueKeeps ==
  ASSUME Inv, NEW r \in Req, NEW x \in Request,
         x.op # "none", x.pc # "idle", x.user \in User,
         Continue(r, x), UNCHANGED db, Own(x),
         \A q \in Req \ {r} : Apart(x, request[q]) /\ Apart(request[q], x)
  PROVE  Inv'
  <1>1. /\ request'[r] = x
        /\ \A q \in Req \ {r} : request'[q] = request[q]
        /\ request' \in [Req -> Request]
    BY Slot DEF Inv, Continue
  <1>2. TypeOK'
    <2>1. answer' \in [req : Req \cup {None}, status : Status]
      BY DEF Continue, NoAnswer, Status
    <2>2. x # NoRequest
      BY NoRequestFields
    <2>3. QED
      BY <1>1, <2>1, <2>2 DEF Inv, TypeOK, db
  <1>3. ASSUME NEW q \in Req PROVE Own(request[q])'
    BY <1>1, OwnKept DEF Inv
  <1>4. (\A p, q \in Req : p # q => Apart(request[p], request[q]))'
    BY <1>1, ApartKept
  <1>5. QED
    BY <1>2, <1>3, <1>4, TablesKept DEF Inv

\* A request ends: it is enough to know the tables and the other requests.
LEMMA FinishKeeps ==
  ASSUME Inv, NEW r \in Req, NEW status \in Status, Finish(r, status),
         name' \in [Resource -> Name \cup {None, Gone}],
         account' \in [TransactionId -> Account \cup {None, Gone}],
         category' \in [TransactionId -> Category \cup {None}],
         \A q \in Req \ {r} : Own(request[q])',
         SoundReferences', NamesUnique', Rooted'
  PROVE  Inv'
  <1>1. /\ request'[r] = NoRequest
        /\ \A q \in Req \ {r} : request'[q] = request[q]
        /\ request' \in [Req -> Request]
    BY Slot, NoRequestFields DEF Inv, Finish
  <1>2. TypeOK'
    BY <1>1, NoRequestFields DEF Inv, TypeOK, Finish
  <1>3. Own(request[r])'
    BY <1>1, NoRequestFields
       DEF Own, Form, Agenda, Fresh, Held, LookedUp, Referred, Cascading, Claimed
  <1>4. (\A p, q \in Req : p # q => Apart(request[p], request[q]))'
    BY <1>1, ApartKept, NoRequestOwn
  <1>5. QED
    BY <1>2, <1>3, <1>4 DEF Inv

\* A rollback keeps the invariant.
LEMMA RejectKeeps ==
  ASSUME Inv, NEW r \in Req, NEW status \in Status, Reject(r, status)
  PROVE  Inv'
  <1>1. UNCHANGED db /\ Finish(r, status)
    BY DEF Reject
  <1>2. \A q \in Req \ {r} : request'[q] = request[q]
    BY <1>1, Slot DEF Inv, Finish
  <1>3. \A q \in Req \ {r} : Own(request[q])'
    BY <1>1, <1>2, OwnKept DEF Inv
  <1>4. QED
    BY <1>1, <1>3, TablesKept, FinishKeeps DEF Inv, TypeOK, db

-----------------------------------------------------------------------------
(* Arrivals.                                                               *)

\* A new request has locked nothing; it is enough to know its form, and that an
\* id it has generated is no other request's.
LEMMA BeginKeeps ==
  ASSUME Inv, NEW r \in Req, NEW op \in AllOps, NEW u \in User, NEW x \in Request,
         Begin(r, op, u, x), x.todo = {}, x.locked = {}, x.shared = {},
         \/ x.pc = "accounts" /\ op \in {"create", "update"}
         \/ x.pc = "write" /\ op \notin {"create", "update", "createResource"}
         \/ x.pc = "claim" /\ op = "createResource",
         \A y \in Request :
            /\ y.op = op /\ y.user = u /\ y.pc = x.pc
            /\ y.ids = x.ids /\ y.acc = x.acc /\ y.name = x.name
            => Form(y) /\ Fresh(y),
         op \in {"create", "createResource"} =>
           \A z \in x.ids, q \in Req \ {r} : z \notin request[q].ids
  PROVE  Inv'
  <1> DEFINE y == [x EXCEPT !.op = op, !.user = u]
  <1>1. /\ y \in Request
        /\ y.op = op /\ y.user = u /\ y.pc = x.pc
        /\ y.ids = x.ids /\ y.acc = x.acc /\ y.name = x.name
        /\ y.todo = {} /\ y.locked = {} /\ y.shared = {}
    BY DEF Request
  <1>2. Continue(r, y) /\ UNCHANGED db
    BY DEF Begin
  <1> HIDE DEF y
  <1>3. op # "none"
    BY DEF AllOps
  <1>4. Agenda(y)
    BY <1>1 DEF Agenda
  <1>5. Held(y) /\ LookedUp(y) /\ Referred(y) /\ Cascading(y) /\ Claimed(y)
    BY <1>1 DEF Held, LookedUp, Referred, Cascading, Claimed
  <1>6. Form(y) /\ Fresh(y)
    BY <1>1
  <1>7. \A q \in Req \ {r} : Apart(y, request[q]) /\ Apart(request[q], y)
    BY <1>1 DEF Apart
  <1>8. QED
    BY <1>1, <1>2, <1>3, <1>4, <1>5, <1>6, <1>7, ContinueKeeps DEF Own

\* A new request of any endpoint keeps the invariant.
LEMMA ArrivalKeeps == ASSUME Inv, NEW r \in Req, Arrival(r) PROVE Inv'
  <1> USE NoRequestFields
  <1>a. {"create", "update", "deleteTransaction", "bulkDeleteTransactions", "createResource",
         "rename", "deleteResource", "bulkDeleteResources"} = AllOps
    BY DEF AllOps
  <1>b. {"accounts", "write", "claim"} \subseteq Pc
    BY DEF Pc
  <1>1. ASSUME NEW u \in User, BeginCreate(r, u) PROVE Inv'
    <2>1. PICK ids \in SUBSET UnusedTransactions :
            \E a \in [ids -> Account], c \in [ids -> Category \cup {None}] :
              /\ Begin(r, "create", u,
                   [NoRequest EXCEPT !.pc = "accounts", !.ids = ids,
                      !.acc = [t \in TransactionId |-> IF t \in ids THEN a[t] ELSE None],
                      !.cat = [t \in TransactionId |-> IF t \in ids THEN c[t] ELSE None]])
      BY <1>1 DEF BeginCreate
    <2>2. PICK a \in [ids -> Account], c \in [ids -> Category \cup {None}] :
              /\ Begin(r, "create", u,
                   [NoRequest EXCEPT !.pc = "accounts", !.ids = ids,
                      !.acc = [t \in TransactionId |-> IF t \in ids THEN a[t] ELSE None],
                      !.cat = [t \in TransactionId |-> IF t \in ids THEN c[t] ELSE None]])
      BY <2>1
    <2> DEFINE acc == [t \in TransactionId |-> IF t \in ids THEN a[t] ELSE None]
               cat == [t \in TransactionId |-> IF t \in ids THEN c[t] ELSE None]
               x == [NoRequest EXCEPT !.pc = "accounts", !.ids = ids, !.acc = acc, !.cat = cat]
    <2>3. /\ acc \in [TransactionId -> Account \cup {None}]
          /\ cat \in [TransactionId -> Category \cup {None}]
          /\ ids \subseteq TransactionId
          /\ \A t \in ids : acc[t] \in Account /\ account[t] = None
          /\ \A t \in ids, q \in Req : t \notin request[q].ids
      BY <2>1, <2>2 DEF UnusedTransactions
    <2> HIDE DEF acc, cat
    <2>4. /\ x \in Request /\ x.pc = "accounts" /\ x.ids = ids /\ x.acc = acc
          /\ x.todo = {} /\ x.locked = {} /\ x.shared = {}
      BY <1>b, <2>3 DEF Request
    <2>5. Begin(r, "create", u, x)
      BY <2>2 DEF acc, cat
    <2> HIDE DEF x
    <2>6. \A y \in Request : y.op = "create" /\ y.pc = x.pc /\ y.ids = x.ids /\ y.acc = x.acc
                             => Form(y) /\ Fresh(y)
      BY <2>3, <2>4 DEF Form, Fresh
    <2>7. QED
      BY <1>a, <2>3, <2>4, <2>5, <2>6, BeginKeeps
  <1>2. ASSUME NEW u \in User, BeginUpdate(r, u) PROVE Inv'
    <2>1. PICK t \in TransactionId, a \in Account, c \in Category \cup {None} :
            Begin(r, "update", u,
              [NoRequest EXCEPT !.pc = "accounts", !.ids = {t}, !.acc[t] = a, !.cat[t] = c])
      BY <1>2 DEF BeginUpdate
    <2> DEFINE x == [NoRequest EXCEPT !.pc = "accounts", !.ids = {t}, !.acc[t] = a, !.cat[t] = c]
    <2>2. /\ x \in Request /\ x.pc = "accounts" /\ x.ids = {t} /\ x.acc[t] = a
          /\ x.todo = {} /\ x.locked = {} /\ x.shared = {}
      BY <1>b, <2>1 DEF Request
    <2>3. Begin(r, "update", u, x)
      BY <2>1
    <2> HIDE DEF x
    <2>4. \A y \in Request : y.op = "update" /\ y.pc = x.pc /\ y.ids = x.ids /\ y.acc = x.acc
                             => Form(y) /\ Fresh(y)
      BY <2>1, <2>2 DEF Form, Fresh, Single
    <2>5. QED
      BY <1>a, <2>2, <2>3, <2>4, BeginKeeps
  <1>3. ASSUME NEW u \in User, BeginDelete(r, u) \/ BeginBulkDelete(r, u) PROVE Inv'
    <2>1. PICK op \in {"deleteTransaction", "bulkDeleteTransactions"},
               ids \in SUBSET TransactionId :
            /\ Begin(r, op, u, [NoRequest EXCEPT !.pc = "write", !.ids = ids])
            /\ op = "deleteTransaction" => Single(ids)
      BY <1>3 DEF BeginDelete, BeginBulkDelete, Single
    <2> DEFINE x == [NoRequest EXCEPT !.pc = "write", !.ids = ids]
    <2>2. /\ x \in Request /\ x.pc = "write" /\ x.ids = ids
          /\ x.todo = {} /\ x.locked = {} /\ x.shared = {}
      BY <1>b, <2>1 DEF Request
    <2>3. Begin(r, op, u, x)
      BY <2>1
    <2> HIDE DEF x
    <2>4. \A y \in Request : y.op = op /\ y.pc = x.pc /\ y.ids = x.ids => Form(y) /\ Fresh(y)
      BY <2>1, <2>2 DEF Form, Fresh
    <2>5. QED
      BY <1>a, <2>1, <2>2, <2>3, <2>4, BeginKeeps
  <1>4. ASSUME NEW u \in User, BeginCreateResource(r, u) PROVE Inv'
    <2>1. PICK z \in UnusedResources, n \in Name :
            /\ Owner[z] = u
            /\ Begin(r, "createResource", u,
                 [NoRequest EXCEPT !.pc = "claim", !.ids = {z}, !.name = n])
      BY <1>4 DEF BeginCreateResource
    <2> DEFINE x == [NoRequest EXCEPT !.pc = "claim", !.ids = {z}, !.name = n]
    <2>2. z \in Resource /\ name[z] = None /\ \A q \in Req : z \notin request[q].ids
      BY <2>1 DEF UnusedResources
    <2>3. /\ x \in Request /\ x.pc = "claim" /\ x.ids = {z} /\ x.name = n
          /\ x.todo = {} /\ x.locked = {} /\ x.shared = {}
      BY <1>b, <2>1, <2>2 DEF Request
    <2>4. Begin(r, "createResource", u, x)
      BY <2>1
    <2> HIDE DEF x
    <2>5. \A y \in Request : y.op = "createResource" /\ y.user = u /\ y.pc = x.pc /\ y.ids = x.ids
                             /\ y.name = x.name => Form(y) /\ Fresh(y)
      BY <2>1, <2>2, <2>3 DEF Form, Fresh, Single
    <2>6. QED
      BY <1>a, <2>2, <2>3, <2>4, <2>5, BeginKeeps
  <1>5. ASSUME NEW u \in User, BeginRename(r, u) PROVE Inv'
    <2>1. PICK z \in Resource, n \in Name :
            Begin(r, "rename", u, [NoRequest EXCEPT !.pc = "write", !.ids = {z}, !.name = n])
      BY <1>5 DEF BeginRename
    <2> DEFINE x == [NoRequest EXCEPT !.pc = "write", !.ids = {z}, !.name = n]
    <2>2. /\ x \in Request /\ x.pc = "write" /\ x.ids = {z} /\ x.name = n
          /\ x.todo = {} /\ x.locked = {} /\ x.shared = {}
      BY <1>b, <2>1 DEF Request
    <2>3. Begin(r, "rename", u, x)
      BY <2>1
    <2> HIDE DEF x
    <2>4. \A y \in Request : y.op = "rename" /\ y.pc = x.pc /\ y.ids = x.ids /\ y.name = x.name
                             => Form(y) /\ Fresh(y)
      BY <2>1, <2>2 DEF Form, Fresh, Single
    <2>5. QED
      BY <1>a, <2>2, <2>3, <2>4, BeginKeeps
  <1>6. ASSUME NEW u \in User, BeginDeleteResource(r, u) \/ BeginBulkDeleteResources(r, u)
        PROVE  Inv'
    <2>1. PICK op \in {"deleteResource", "bulkDeleteResources"},
               ids \in (SUBSET Account) \cup (SUBSET Category) :
            Begin(r, op, u, [NoRequest EXCEPT !.pc = "write", !.ids = ids])
      <3>1. CASE BeginDeleteResource(r, u)
        <4>1. PICK z \in Resource :
                Begin(r, "deleteResource", u, [NoRequest EXCEPT !.pc = "write", !.ids = {z}])
          BY <3>1 DEF BeginDeleteResource
        <4>2. {z} \subseteq Account \/ {z} \subseteq Category
          BY <4>1 DEF Resource
        <4>3. {z} \in (SUBSET Account) \cup (SUBSET Category)
          BY <4>2
        <4>4. QED
          BY <4>1, <4>3
      <3>2. CASE BeginBulkDeleteResources(r, u)
        BY <3>2 DEF BeginBulkDeleteResources
      <3>3. QED
        BY <1>6, <3>1, <3>2
    <2> DEFINE x == [NoRequest EXCEPT !.pc = "write", !.ids = ids]
    <2>a. ids \subseteq TransactionId \cup Resource
      BY <2>1 DEF Resource
    <2>2. /\ x \in Request /\ x.pc = "write" /\ x.ids = ids
          /\ x.todo = {} /\ x.locked = {} /\ x.shared = {}
      BY <1>b, <2>a DEF Request
    <2>3. Begin(r, op, u, x)
      BY <2>1
    <2> HIDE DEF x
    <2>4. \A y \in Request : y.op = op /\ y.pc = x.pc /\ y.ids = x.ids => Form(y) /\ Fresh(y)
      BY <2>1, <2>2 DEF Form, Fresh
    <2>5. QED
      BY <1>a, <2>1, <2>2, <2>3, <2>4, BeginKeeps
  <1>7. QED
    BY <1>1, <1>2, <1>3, <1>4, <1>5, <1>6 DEF Arrival

-----------------------------------------------------------------------------
(* Statements that leave the tables alone.                                 *)

\* y is request r after such a statement: it may have locked more rows, which
\* nobody else had.
LEMMA StepKeeps ==
  ASSUME Inv, NEW r \in Req, NEW y \in Request, request[r].op # "none",
         Continue(r, y), UNCHANGED db, y.pc # "idle",
         y.op = request[r].op, y.user = request[r].user, y.ids = request[r].ids,
         y.name = request[r].name,
         \A q \in Req \ {r} :
            /\ \A z \in y.locked \ request[r].locked :
                  z \notin request[q].locked /\ z \notin request[q].shared
            /\ \A z \in y.shared \ request[r].shared : z \notin request[q].locked
            /\ y.pc = "commit" /\ request[q].pc = "commit" =>
                  \A w \in y.ids, z \in request[q].ids : SameList(w, z) => y.name # request[q].name,
         Form(y), Agenda(y), Held(y), LookedUp(y), Referred(y), Cascading(y), Claimed(y)
  PROVE  Inv'
  <1>1. request[r].user \in User
    BY Fields DEF Inv
  <1>2. Fresh(y)
    BY DEF Inv, Own, Fresh
  <1>3. ASSUME NEW q \in Req \ {r} PROVE Apart(y, request[q]) /\ Apart(request[q], y)
    <2>1. Apart(request[r], request[q]) /\ Apart(request[q], request[r])
      BY DEF Inv
    <2>2. \A w, z : SameList(w, z) => SameList(z, w)
      BY DEF SameList
    <2>3. QED
      BY <2>1, <2>2 DEF Apart
  <1>4. QED
    BY <1>1, <1>2, <1>3, ContinueKeeps DEF Own

\* The endpoints that have a statement.
LEMMA Endpoint ==
  ASSUME Inv, NEW r \in Req
  PROVE  /\ request[r].pc # "idle" => request[r].op # "none"
         /\ request[r].pc \in {"accounts", "categories", "references"} =>
              request[r].op \in {"create", "update"}
         /\ request[r].pc = "rows" =>
              request[r].op \in {"update", "deleteTransaction", "bulkDeleteTransactions"}
         /\ request[r].pc = "resources" =>
              request[r].op \in {"rename", "deleteResource", "bulkDeleteResources"}
         /\ request[r].pc = "cascade" =>
              request[r].op \in {"deleteResource", "bulkDeleteResources"}
         /\ request[r].pc \in {"claim", "commit"} => request[r].op \in {"createResource", "rename"}
  <1>1. request[r].op \in AllOps \cup {"none"} /\ Form(request[r])
    BY Fields DEF Inv, Own
  <1>2. request[r].op = "none" => request[r].pc = "idle"
    BY Fields, NoRequestFields DEF Inv
  <1>3. QED
    BY <1>1, <1>2 DEF Form, AllOps

\* The look-ups of accounts and categories: what they find exists and is the user's.
LEMMA CheckKeeps ==
  ASSUME Inv, NEW r \in Req, CheckAccounts(r) \/ CheckCategories(r)
  PROVE  Inv'
  <1> USE Fields DEF Inv
  <1> DEFINE x == request[r]
  <1>a. Own(x) /\ x \in Request /\ Status = Status \cup {"404 account", "404 category"}
    BY DEF Own, Status
  <1>b. CASE Reject(r, "404 account") \/ Reject(r, "404 category")
    BY <1>a, <1>b, RejectKeeps
  <1>1. CASE /\ x.pc = "accounts" /\ Accounts(r) \subseteq Visible(x.user)
             /\ Continue(r, [x EXCEPT !.pc = "categories"]) /\ UNCHANGED db
    <2> DEFINE y == [x EXCEPT !.pc = "categories"]
    <2>1. /\ y \in Request /\ y.pc = "categories"
          /\ y.op = x.op /\ y.user = x.user /\ y.ids = x.ids /\ y.acc = x.acc /\ y.name = x.name
          /\ y.todo = x.todo /\ y.locked = x.locked /\ y.shared = x.shared
      BY <1>a DEF Request, Pc
    <2>2. x.op \in {"create", "update"}
      BY <1>1, Endpoint
    <2>3. \A t \in x.ids : Owner[x.acc[t]] = x.user /\ name[x.acc[t]] # None
      BY <1>1, Constants DEF Accounts, Visible, Exists
    <2>4. Continue(r, y)
      BY <1>1
    <2> HIDE DEF x, y
    <2>5. Form(y) /\ Agenda(y) /\ Held(y)
      BY <1>1, <1>a, <2>1, <2>2 DEF Own, Form, Agenda, Held
    <2>6. LookedUp(y) /\ Referred(y) /\ Cascading(y) /\ Claimed(y)
      BY <2>1, <2>3 DEF LookedUp, Referred, Cascading, Claimed
    <2>7. QED
      BY <1>1, <2>1, <2>2, <2>4, <2>5, <2>6, StepKeeps DEF x
  <1>2. CASE /\ x.pc = "categories" /\ Categories(r) \subseteq Visible(x.user)
             /\ Continue(r, [x EXCEPT !.pc = "write"]) /\ UNCHANGED db
    <2> DEFINE y == [x EXCEPT !.pc = "write"]
    <2>1. /\ y \in Request /\ y.pc = "write"
          /\ y.op = x.op /\ y.user = x.user /\ y.ids = x.ids /\ y.name = x.name
          /\ y.acc = x.acc /\ y.cat = x.cat
          /\ y.todo = x.todo /\ y.locked = x.locked /\ y.shared = x.shared
      BY <1>a DEF Request, Pc
    <2>2. x.op \in {"create", "update"}
      BY <1>2, Endpoint
    <2>3. \A t \in x.ids : \A z \in Refers(x, t) : Owner[z] = x.user /\ name[z] # None
      <3>1. \A t \in x.ids : Owner[x.acc[t]] = x.user /\ name[x.acc[t]] # None
        BY <1>2, <1>a DEF Own, LookedUp
      <3>2. \A t \in x.ids : x.cat[t] # None => Owner[x.cat[t]] = x.user /\ name[x.cat[t]] # None
        BY <1>2, Constants DEF Categories, Visible, Exists
      <3>3. QED
        BY <3>1, <3>2 DEF Refers
    <2>4. Continue(r, y)
      BY <1>2
    <2> HIDE DEF x, y
    <2>5. Form(y) /\ Agenda(y) /\ Held(y)
      BY <1>2, <1>a, <2>1, <2>2 DEF Own, Form, Agenda, Held
    <2>6. LookedUp(y) /\ Referred(y) /\ Cascading(y) /\ Claimed(y)
      BY <2>1, <2>2, <2>3 DEF LookedUp, Refers, Referred, Cascading, Claimed
    <2>7. QED
      BY <1>2, <2>1, <2>2, <2>4, <2>5, <2>6, StepKeeps DEF x
  <1>3. QED
    BY <1>b, <1>1, <1>2 DEF CheckAccounts, CheckCategories

\* The INSERT: every reference it writes is on the list of those to be checked.
LEMMA InsertKeeps == ASSUME Inv, NEW r \in Req, InsertTransactions(r) PROVE Inv'
  <1> DEFINE x == request[r]
  <1>a. Own(x) /\ x \in Request /\ x.op = "create" /\ x.pc = "write" /\ "500 policy" \in Status
    BY Fields DEF Inv, InsertTransactions, At, Status
  <1>1. CASE Reject(r, "500 policy")
    BY <1>a, <1>1, RejectKeeps
  <1>2. CASE References(r) \subseteq Visible(x.user) /\ ~ Reject(r, "500 policy")
    <2> DEFINE todo == {<<t, x.acc[t]>> : t \in x.ids} \cup
                         {<<t, x.cat[t]>> : t \in {s \in x.ids : x.cat[s] # None}}
               y == [x EXCEPT !.pc = "references", !.todo = todo]
    <2>1. Continue(r, y) /\ UNCHANGED db
      BY <1>2 DEF InsertTransactions
    <2>2. /\ x.ids \subseteq TransactionId
          /\ \A t \in x.ids : x.acc[t] \in Account /\ x.cat[t] \in Category \cup {None}
      BY <1>a, Fields DEF Inv, Own, Form
    <2>3. /\ todo \subseteq (TransactionId \cup Resource) \X Resource
          /\ \A p \in todo : p[1] \in x.ids /\ p[2] \in Refers(x, p[1])
          /\ \A t \in x.ids : \A z \in Refers(x, t) : <<t, z>> \in todo
      BY <2>2, Constants DEF Refers
    <2> HIDE DEF todo
    <2>4. /\ y \in Request /\ y.pc = "references" /\ y.todo = todo
          /\ y.op = x.op /\ y.user = x.user /\ y.ids = x.ids /\ y.name = x.name
          /\ y.acc = x.acc /\ y.cat = x.cat
          /\ y.locked = x.locked /\ y.shared = x.shared
      BY <1>a, <2>3 DEF Request, Pc
    <2> HIDE DEF x, y
    <2>5. Form(y)
      BY <1>a, <2>4 DEF Own, Form
    <2>6. Agenda(y) /\ Held(y)
      BY <1>a, <2>3, <2>4 DEF Own, Agenda, Held, Refers
    <2>7. LookedUp(y) /\ Referred(y) /\ Cascading(y) /\ Claimed(y)
      BY <1>a, <2>3, <2>4 DEF Own, LookedUp, Refers, Referred, Cascading, Claimed
    <2>8. QED
      BY <1>a, <2>1, <2>4, <2>5, <2>6, <2>7, StepKeeps DEF x
  <1>3. QED
    BY <1>1, <1>2 DEF InsertTransactions

\* The UPDATE or DELETE of transactions finds its rows through the user's accounts.
LEMMA FindTransactionsKeeps == ASSUME Inv, NEW r \in Req, FindTransactions(r) PROVE Inv'
  <1> DEFINE x == request[r]
             todo == {<<t, account[t]>> : t \in x.ids \cap Owned(x.user)}
             seen == References(r) \cap Visible(x.user)
             y == [x EXCEPT !.pc = "rows", !.todo = todo, !.seen = seen]
  <1>1. /\ Own(x) /\ x \in Request /\ x.pc = "write"
        /\ x.op \in {"update", "deleteTransaction", "bulkDeleteTransactions"}
        /\ Continue(r, y) /\ UNCHANGED db
    BY Fields DEF Inv, FindTransactions, At
  <1>2. x.ids \subseteq TransactionId
    BY <1>1 DEF Own, Form
  <1>3. \A t \in x.ids \cap Owned(x.user) : account[t] \in Account /\ Owner[account[t]] = x.user
    <2>1. \A t \in TransactionId : account[t] \in Account \cup {None, Gone}
      BY DEF Inv, TypeOK
    <2>2. QED
      BY <2>1, Constants DEF Owned, Visible
  <1>4. /\ todo \subseteq (TransactionId \cup Resource) \X Resource
        /\ \A p \in todo : p[1] \in x.ids /\ p[2] \in Account /\ Owner[p[2]] = x.user
        /\ \A p, q \in todo : p[1] = q[1] => p = q
    BY <1>2, <1>3, Constants
  <1>5. /\ seen \subseteq Resource
        /\ \A t \in x.ids : \A z \in Refers(x, t) : z \in seen \/ z \notin Visible(x.user)
    BY DEF References, Accounts, Categories, Refers, Visible
  <1> HIDE DEF todo, seen
  <1>6. /\ y \in Request /\ y.pc = "rows" /\ y.todo = todo /\ y.seen = seen
        /\ y.op = x.op /\ y.user = x.user /\ y.ids = x.ids /\ y.name = x.name
        /\ y.acc = x.acc /\ y.cat = x.cat
        /\ y.locked = x.locked /\ y.shared = x.shared
    BY <1>1, <1>4, <1>5 DEF Request, Pc
  <1>7. x.op = "update" => \A t \in x.ids : x.acc[t] \in Account /\ x.cat[t] \in Category \cup {None}
    BY <1>1, <1>2, Fields DEF Inv, Own, Form
  <1>8. x.op = "update" => \A t \in x.ids : \A z \in Refers(x, t) :
            Owner[z] = x.user /\ name[z] # None /\ (z \notin seen => name[z] = Gone)
    <2>1. \A z \in Resource : name[z] \in Name \cup {None, Gone}
      BY DEF Inv, TypeOK
    <2>2. QED
      BY <1>1, <1>5, <1>7, <2>1, Constants DEF Own, LookedUp, Refers, Visible, Exists
  <1> HIDE DEF x, y
  <1>9. Form(y) /\ Agenda(y) /\ Held(y)
    BY <1>1, <1>4, <1>6 DEF Own, Form, Agenda, Held
  <1>10. LookedUp(y) /\ Referred(y) /\ Cascading(y) /\ Claimed(y)
    BY <1>1, <1>6, <1>8 DEF LookedUp, Refers, Referred, Cascading, Claimed
  <1>11. QED
    BY <1>1, <1>6, <1>9, <1>10, StepKeeps DEF x

\* A transaction is locked only if it still refers to what it was found through.
LEMMA VisitTransactionKeeps ==
  ASSUME Inv, NEW r \in Req, NEW t \in TransactionId, NEW a \in Resource, VisitTransaction(r, t, a)
  PROVE  Inv'
  <1> DEFINE x == request[r]
             todo == x.todo \ {<<t, a>>}
             locked == IF RefersTo(t, a) THEN x.locked \cup {t} ELSE x.locked
             y == [x EXCEPT !.todo = todo, !.locked = locked]
  <1>1. /\ Own(x) /\ x \in Request /\ x.pc \in {"rows", "cascade"} /\ <<t, a>> \in x.todo
        /\ Continue(r, y) /\ UNCHANGED db
        /\ \A q \in Req \ {r} : t \notin request[q].locked
    BY Fields DEF Inv, VisitTransaction, Writers
  <1>2. /\ todo \subseteq x.todo /\ <<t, a>> \notin todo
        /\ \A p \in x.todo : p = <<t, a>> \/ p \in todo
        /\ x.locked \subseteq locked /\ locked \subseteq x.locked \cup {t}
        /\ RefersTo(t, a) <=> t \in locked \ x.locked \/ (RefersTo(t, a) /\ t \in x.locked)
        /\ \A z \in Resource : z \in locked <=> z \in x.locked
        /\ \A q \in Req : t \notin request[q].shared
    BY Constants, Fields DEF Inv
  <1>3. t \in locked => t \in x.locked \/ RefersTo(t, a)
    OBVIOUS
  <1>4. RefersTo(t, a) => t \in locked
    OBVIOUS
  <1>5. todo \subseteq (TransactionId \cup Resource) \X Resource /\ locked \subseteq TransactionId \cup Resource
    BY Fields DEF Inv
  <1> HIDE DEF todo, locked
  <1>6. /\ y \in Request /\ y.pc = x.pc /\ y.todo = todo /\ y.seen = x.seen
        /\ y.op = x.op /\ y.user = x.user /\ y.ids = x.ids /\ y.name = x.name
        /\ y.acc = x.acc /\ y.cat = x.cat
        /\ y.locked = locked /\ y.shared = x.shared
    BY <1>1, <1>5 DEF Request
  <1>7. x.op \in {"update", "deleteTransaction", "bulkDeleteTransactions", "deleteResource",
                  "bulkDeleteResources"}
    BY <1>1, Endpoint
  <1> HIDE DEF x, y
  <1>8. Form(y)
    BY <1>1, <1>6 DEF Own, Form
  <1>9. Agenda(y)
    <2>1. CASE x.pc = "rows"
      <3>1. \A p \in todo : p[1] # t
        BY <1>1, <1>2, <2>1 DEF Own, Agenda
      <3>2. QED
        BY <1>1, <1>2, <1>6, <2>1, <3>1 DEF Own, Agenda
    <2>2. CASE x.pc = "cascade"
      BY <1>1, <1>2, <1>6, <2>2, Constants DEF Own, Agenda
    <2>3. QED
      BY <1>1, <2>1, <2>2
  <1>10. Held(y)
    <2>1. \A z \in (locked \cap Resource) \cup x.shared : Exists(z)
      BY <1>1, <1>2 DEF Own, Held
    <2>2. CASE x.pc = "rows"
      <3>1. RefersTo(t, a) => account[t] \in Account /\ Owner[account[t]] = x.user
        <4>1. a \in Account /\ Owner[a] = x.user
          BY <1>1, <2>2 DEF Own, Agenda
        <4>2. category[t] \in Category \cup {None}
          BY DEF Inv, TypeOK
        <4>3. QED
          BY <4>1, <4>2, Constants DEF RefersTo
      <3>2. QED
        BY <1>1, <1>2, <1>3, <1>6, <2>1, <2>2, <3>1 DEF Own, Held
    <2>3. CASE x.pc = "cascade"
      <3>1. a \in locked
        BY <1>1, <1>2, <2>3 DEF Own, Agenda
      <3>2. ASSUME NEW s \in locked \cap TransactionId
            PROVE  \E z \in locked \cap Resource : RefersTo(s, z)
        <4>1. CASE s \in x.locked
          <5>1. PICK z \in x.locked \cap Resource : RefersTo(s, z)
            BY <1>1, <2>3, <4>1 DEF Own, Held
          <5>2. QED
            BY <1>2, <5>1
        <4>2. CASE s \notin x.locked
          <5>1. s = t /\ RefersTo(t, a)
            BY <1>2, <1>3, <4>2
          <5>2. QED
            BY <3>1, <5>1
        <4>3. QED
          BY <4>1, <4>2
      <3>3. QED
        BY <1>6, <2>1, <2>3, <3>2 DEF Held
    <2>4. QED
      BY <1>1, <2>2, <2>3
  <1>11. LookedUp(y) /\ Referred(y) /\ Claimed(y)
    BY <1>1, <1>6 DEF Own, LookedUp, Refers, Referred, Claimed
  <1>12. Cascading(y)
    BY <1>1, <1>2, <1>4, <1>6 DEF Own, Cascading
  <1>13. QED
    BY <1>1, <1>2, <1>6, <1>7, <1>8, <1>9, <1>10, <1>11, <1>12, StepKeeps DEF x

\* The UPDATE: a reference it writes is on the list, or the row has it already.
LEMMA WriteUpdateKeeps == ASSUME Inv, NEW r \in Req, WriteUpdate(r) PROVE Inv'
  <1> DEFINE x == request[r]
             todo == {p \in x.ids \X References(r) : ~ RefersTo(p[1], p[2])}
             y == [x EXCEPT !.pc = "references", !.seen = {}, !.todo = todo]
  <1>a. /\ Own(x) /\ x \in Request /\ x.op = "update" /\ x.pc = "rows" /\ x.todo = {}
        /\ "500 policy" \in Status /\ "404 transaction" \in Status
    BY Fields DEF Inv, WriteUpdate, At, Status
  <1>1. CASE Reject(r, "500 policy") \/ Reject(r, "404 transaction")
    BY <1>a, <1>1, RejectKeeps
  <1>2. CASE x.locked # {} /\ Continue(r, y) /\ UNCHANGED db
    <2>1. x.ids \subseteq TransactionId /\ x.locked = x.ids
      BY <1>a, <1>2 DEF Own, Form, Agenda, Single
    <2>2. \A t \in x.ids : x.acc[t] \in Account /\ x.cat[t] \in Category \cup {None}
      BY <1>a, <2>1, Fields DEF Inv, Own, Form
    <2>3. References(r) \subseteq Resource
      BY <2>2, Constants DEF References, Accounts, Categories
    <2>4. /\ todo \subseteq (TransactionId \cup Resource) \X Resource
          /\ \A t \in x.ids : \A z \in Refers(x, t) : <<t, z>> \in todo \/ RefersTo(t, z)
      BY <2>1, <2>2, <2>3 DEF Refers, References, Accounts, Categories
    <2>5. \A p \in todo : p[1] \in x.ids /\ p[2] \in Refers(x, p[1])
      <3>1. \A p \in todo : p[1] \in x.ids /\ p[2] \in References(r)
        OBVIOUS
      <3>2. \A t \in x.ids : References(r) \subseteq Refers(x, t)
        BY <1>a, <2>2, Constants DEF Own, Form, Single, Refers, References, Accounts, Categories
      <3>3. QED
        BY <3>1, <3>2
    <2> HIDE DEF todo
    <2>6. /\ y \in Request /\ y.pc = "references" /\ y.todo = todo
          /\ y.op = x.op /\ y.user = x.user /\ y.ids = x.ids /\ y.name = x.name
          /\ y.acc = x.acc /\ y.cat = x.cat
          /\ y.locked = x.locked /\ y.shared = x.shared
      BY <1>a, <2>4 DEF Request, Pc
    <2>7. Continue(r, y) /\ UNCHANGED db
      BY <1>2 DEF todo
    <2> HIDE DEF x, y
    <2>8. Form(y)
      BY <1>a, <2>6 DEF Own, Form
    <2>9. Agenda(y) /\ Held(y)
      BY <1>a, <2>1, <2>5, <2>6 DEF Own, Agenda, Held, Refers
    <2>10. LookedUp(y) /\ Referred(y) /\ Cascading(y) /\ Claimed(y)
      BY <1>a, <2>4, <2>6 DEF Own, LookedUp, Refers, Referred, Cascading, Claimed
    <2>11. QED
      BY <1>a, <2>6, <2>7, <2>8, <2>9, <2>10, StepKeeps DEF x
  <1>3. QED
    BY <1>1, <1>2 DEF WriteUpdate

\* A reference found to exist is held from then on.
LEMMA CheckReferenceKeeps ==
  ASSUME Inv, NEW r \in Req, NEW t \in TransactionId, NEW a \in Resource, CheckReference(r, t, a)
  PROVE  Inv'
  <1> DEFINE x == request[r]
             todo == x.todo \ {<<t, a>>}
             y == [x EXCEPT !.todo = todo, !.shared = x.shared \cup {a}]
  <1>a. /\ Own(x) /\ x \in Request /\ x.pc = "references" /\ x.op \in {"create", "update"}
        /\ {"404 account", "404 category"} \subseteq Status
    BY Fields, Endpoint DEF Inv, CheckReference, Status
  <1>1. CASE Reject(r, IF a \in Account THEN "404 account" ELSE "404 category")
    BY <1>a, <1>1, RejectKeeps
  <1>2. CASE Exists(a) /\ Continue(r, y) /\ UNCHANGED db
    <2>1. /\ \A q \in Req \ {r} : a \notin request[q].locked
          /\ todo \subseteq (TransactionId \cup Resource) \X Resource /\ todo \subseteq x.todo
          /\ \A p \in x.todo : p \in todo \/ p = <<t, a>>
      BY Fields DEF Inv, CheckReference, Writers
    <2> HIDE DEF todo
    <2>2. /\ y \in Request /\ y.pc = "references" /\ y.todo = todo
          /\ y.op = x.op /\ y.user = x.user /\ y.ids = x.ids /\ y.name = x.name
          /\ y.acc = x.acc /\ y.cat = x.cat
          /\ y.locked = x.locked /\ y.shared = x.shared \cup {a}
      BY <1>a, <2>1 DEF Request
    <2> HIDE DEF x, y
    <2>3. Form(y)
      BY <1>a, <2>2 DEF Own, Form
    <2>4. Agenda(y) /\ Held(y)
      BY <1>a, <1>2, <2>1, <2>2 DEF Own, Agenda, Held, Refers
    <2>5. LookedUp(y) /\ Cascading(y) /\ Claimed(y)
      BY <1>a, <2>2 DEF Own, LookedUp, Refers, Cascading, Claimed
    <2>6. Referred(y)
      BY <1>a, <2>1, <2>2 DEF Own, Referred, Refers
    <2>7. QED
      BY <1>a, <1>2, <2>1, <2>2, <2>3, <2>4, <2>5, <2>6, StepKeeps DEF x
  <1>3. QED
    BY <1>1, <1>2 DEF CheckReference

\* The UPDATE or DELETE of accounts or categories finds the user's.
LEMMA FindResourcesKeeps == ASSUME Inv, NEW r \in Req, FindResources(r) PROVE Inv'
  <1> DEFINE x == request[r]
             todo == {<<z, z>> : z \in x.ids \cap Visible(x.user)}
             y == [x EXCEPT !.pc = "resources", !.todo = todo]
  <1>1. /\ Own(x) /\ x \in Request /\ x.pc = "write"
        /\ x.op \in {"rename", "deleteResource", "bulkDeleteResources"}
        /\ Continue(r, y) /\ UNCHANGED db
    BY Fields DEF Inv, FindResources, At
  <1>2. /\ todo \subseteq (TransactionId \cup Resource) \X Resource
        /\ \A p \in todo : p[1] \in x.ids /\ p[1] = p[2] /\ Owner[p[2]] = x.user
    BY DEF Visible
  <1> HIDE DEF todo
  <1>3. /\ y \in Request /\ y.pc = "resources" /\ y.todo = todo
        /\ y.op = x.op /\ y.user = x.user /\ y.ids = x.ids /\ y.name = x.name
        /\ y.locked = x.locked /\ y.shared = x.shared
    BY <1>1, <1>2 DEF Request, Pc
  <1> HIDE DEF x, y
  <1>4. Form(y) /\ Agenda(y) /\ Held(y)
    BY <1>1, <1>2, <1>3 DEF Own, Form, Agenda, Held
  <1>5. LookedUp(y) /\ Referred(y) /\ Cascading(y) /\ Claimed(y)
    BY <1>1, <1>3 DEF LookedUp, Referred, Cascading, Claimed
  <1>6. QED
    BY <1>1, <1>3, <1>4, <1>5, StepKeeps DEF x

\* An account or category is locked only if it still exists and nobody holds it.
LEMMA VisitResourceKeeps ==
  ASSUME Inv, NEW r \in Req, NEW a \in Resource, VisitResource(r, a)
  PROVE  Inv'
  <1> DEFINE x == request[r]
             todo == x.todo \ {<<a, a>>}
             locked == IF Exists(a) THEN x.locked \cup {a} ELSE x.locked
             y == [x EXCEPT !.todo = todo, !.locked = locked]
  <1>1. /\ Own(x) /\ x \in Request /\ x.pc = "resources" /\ <<a, a>> \in x.todo
        /\ x.op \in {"rename", "deleteResource", "bulkDeleteResources"}
        /\ Continue(r, y) /\ UNCHANGED db
        /\ \A q \in Req \ {r} : a \notin request[q].locked /\ a \notin request[q].shared
    BY Fields, Endpoint DEF Inv, VisitResource, Holders, Writers
  <1>2. /\ todo \subseteq x.todo /\ <<a, a>> \notin todo
        /\ x.locked \subseteq locked /\ locked \subseteq x.locked \cup {a}
        /\ a \in locked \ x.locked => Exists(a)
    OBVIOUS
  <1>3. todo \subseteq (TransactionId \cup Resource) \X Resource /\ locked \subseteq TransactionId \cup Resource
    BY Fields DEF Inv
  <1>4. a \in x.ids /\ Owner[a] = x.user /\ \A p \in todo : p[1] # a
    <2>1. \A p \in x.todo : p[1] \in x.ids /\ p[1] = p[2] /\ Owner[p[2]] = x.user /\ p = <<p[1], p[2]>>
      BY <1>1, Fields DEF Inv, Own, Agenda
    <2>2. QED
      BY <1>1, <1>2, <2>1
  <1> HIDE DEF todo, locked
  <1>5. /\ y \in Request /\ y.pc = x.pc /\ y.todo = todo
        /\ y.op = x.op /\ y.user = x.user /\ y.ids = x.ids /\ y.name = x.name
        /\ y.locked = locked /\ y.shared = x.shared
    BY <1>1, <1>3 DEF Request
  <1> HIDE DEF x, y
  <1>6. Form(y) /\ Agenda(y)
    BY <1>1, <1>2, <1>4, <1>5 DEF Own, Form, Agenda
  <1>7. Held(y)
    BY <1>1, <1>2, <1>5 DEF Own, Held
  <1>8. LookedUp(y) /\ Referred(y) /\ Cascading(y) /\ Claimed(y)
    BY <1>1, <1>5 DEF LookedUp, Referred, Cascading, Claimed
  <1>9. QED
    BY <1>1, <1>2, <1>5, <1>6, <1>7, <1>8, StepKeeps DEF x

\* The cascade's list has every transaction that refers to a row being deleted.
LEMMA CascadeKeeps == ASSUME Inv, NEW r \in Req, Cascade(r) PROVE Inv'
  <1> DEFINE x == request[r]
  <1>a. /\ Own(x) /\ x \in Request /\ x.pc = "resources" /\ x.todo = {}
        /\ "404 resource" \in Status
    BY Fields DEF Inv, Cascade, Status
  <1>b. x.locked \cap TransactionId = {}
    <2>1. x.ids \subseteq Resource
      BY <1>a, Endpoint, Constants DEF Own, Form
    <2>2. QED
      BY <1>a, <2>1, Constants DEF Own, Agenda
  <1>1. CASE Reject(r, "404 resource")
    BY <1>a, <1>1, RejectKeeps
  <1>2. CASE /\ x.op = "rename" /\ x.locked # {}
             /\ Continue(r, [x EXCEPT !.pc = "claim"]) /\ UNCHANGED db
    <2> DEFINE y == [x EXCEPT !.pc = "claim"]
    <2>1. /\ y \in Request /\ y.pc = "claim" /\ y.todo = x.todo
          /\ y.op = x.op /\ y.user = x.user /\ y.ids = x.ids /\ y.name = x.name
          /\ y.locked = x.locked /\ y.shared = x.shared
      BY <1>a DEF Request, Pc
    <2>2. Continue(r, y)
      BY <1>2
    <2>3. x.locked = x.ids
      BY <1>a, <1>2 DEF Own, Form, Agenda, Single
    <2> HIDE DEF x, y
    <2>4. Form(y) /\ Agenda(y) /\ Held(y)
      BY <1>a, <1>2, <2>1, <2>3 DEF Own, Form, Agenda, Held
    <2>5. LookedUp(y) /\ Referred(y) /\ Cascading(y) /\ Claimed(y)
      BY <1>2, <2>1 DEF LookedUp, Referred, Cascading, Claimed
    <2>6. QED
      BY <1>2, <2>1, <2>2, <2>4, <2>5, StepKeeps DEF x
  <1>3. CASE /\ x.op \in {"deleteResource", "bulkDeleteResources"}
             /\ Continue(r, [x EXCEPT !.pc = "cascade",
                  !.todo = {p \in TransactionId \X x.locked : RefersTo(p[1], p[2])}])
             /\ UNCHANGED db
    <2> DEFINE todo == {p \in TransactionId \X x.locked : RefersTo(p[1], p[2])}
               y == [x EXCEPT !.pc = "cascade", !.todo = todo]
    <2>1. x.locked \subseteq Resource
      BY <1>b, Fields DEF Inv
    <2>2. /\ todo \subseteq (TransactionId \cup Resource) \X Resource
          /\ \A p \in todo : p[2] \in x.locked
          /\ \A t \in TransactionId, z \in x.locked : RefersTo(t, z) => <<t, z>> \in todo
      BY <2>1
    <2>3. Continue(r, y)
      BY <1>3
    <2> HIDE DEF todo
    <2>4. /\ y \in Request /\ y.pc = "cascade" /\ y.todo = todo
          /\ y.op = x.op /\ y.user = x.user /\ y.ids = x.ids /\ y.name = x.name
          /\ y.locked = x.locked /\ y.shared = x.shared
      BY <1>a, <2>2 DEF Request, Pc
    <2> HIDE DEF x, y
    <2>5. Form(y) /\ Agenda(y) /\ Held(y)
      BY <1>a, <1>b, <1>3, <2>1, <2>2, <2>4 DEF Own, Form, Agenda, Held
    <2>6. LookedUp(y) /\ Referred(y) /\ Cascading(y) /\ Claimed(y)
      BY <1>3, <2>1, <2>2, <2>4 DEF LookedUp, Referred, Cascading, Claimed
    <2>7. QED
      BY <1>3, <2>3, <2>4, <2>5, <2>6, StepKeeps DEF x
  <1>4. QED
    BY <1>1, <1>2, <1>3 DEF Cascade

\* A name is claimed when no row has it and no other request is about to take it.
LEMMA ClaimNameKeeps ==
  ASSUME Inv, NEW r \in Req, NEW a \in Resource, ClaimName(r, a)
  PROVE  Inv'
  <1> DEFINE x == request[r]
             y == [x EXCEPT !.pc = "commit"]
  <1>a. /\ Own(x) /\ x \in Request /\ x.pc = "claim" /\ x.op \in {"createResource", "rename"}
        /\ a \in x.ids /\ "409" \in Status
    BY Fields, Endpoint DEF Inv, ClaimName, Status
  <1>1. CASE Reject(r, "409")
    BY <1>a, <1>1, RejectKeeps
  <1>2. CASE /\ ~ \E z \in Resource \ {a} : SameList(a, z) /\ name[z] = x.name
             /\ Continue(r, y) /\ UNCHANGED db
    <2>1. /\ y \in Request /\ y.pc = "commit" /\ y.todo = x.todo
          /\ y.op = x.op /\ y.user = x.user /\ y.ids = x.ids /\ y.name = x.name
          /\ y.locked = x.locked /\ y.shared = x.shared
      BY <1>a DEF Request, Pc
    <2>2. x.ids = {a}
      BY <1>a DEF Own, Form, Single
    <2>3. ASSUME NEW q \in Req \ {r}, request[q].pc = "commit", NEW z \in request[q].ids,
                 SameList(a, z)
          PROVE  x.name # request[q].name
      <3>1. z \in Resource
        BY <2>3, Endpoint DEF Inv, Own, Form
      <3>2. QED
        BY <2>3, <3>1 DEF ClaimName, NameRivals
    <2> HIDE DEF x, y
    <2>4. Form(y) /\ Agenda(y) /\ Held(y)
      BY <1>a, <2>1 DEF Own, Form, Agenda, Held
    <2>5. LookedUp(y) /\ Referred(y) /\ Cascading(y) /\ Claimed(y)
      BY <1>a, <1>2, <2>1, <2>2 DEF LookedUp, Referred, Cascading, Claimed
    <2>6. QED
      BY <1>a, <1>2, <2>1, <2>2, <2>3, <2>4, <2>5, StepKeeps DEF x
  <1>3. QED
    BY <1>1, <1>2 DEF ClaimName

-----------------------------------------------------------------------------
(* Statements that commit: each is a step of FinanceAtomic.                *)

\* What holds of the tables alone holds whatever the atomic requests do.
LEMMA AtomicKeeps ==
  ASSUME name \in [Resource -> Name \cup {None, Gone}],
         account \in [TransactionId -> Account \cup {None, Gone}],
         category \in [TransactionId -> Category \cup {None}],
         SoundReferences, NamesUnique, Rooted, Atomic!Next
  PROVE  /\ name' \in [Resource -> Name \cup {None, Gone}]
         /\ account' \in [TransactionId -> Account \cup {None, Gone}]
         /\ category' \in [TransactionId -> Category \cup {None}]
         /\ SoundReferences' /\ NamesUnique' /\ Rooted'
  <1> USE DEF Atomic!Resource, Resource
  <1>1. ASSUME NEW u \in User, NEW ids \in SUBSET TransactionId, Atomic!Write(u, ids)
        PROVE  /\ name' = name
               /\ account' \in [TransactionId -> Account \cup {None, Gone}]
               /\ category' \in [TransactionId -> Category \cup {None}]
               /\ SoundReferences' /\ NamesUnique' /\ Rooted'
    <2>1. /\ name' = name
          /\ account' \in [TransactionId -> Account \cup {None, Gone}]
          /\ category' \in [TransactionId -> Category \cup {None}]
          /\ \A t \in TransactionId \ ids : account'[t] = account[t] /\ category'[t] = category[t]
      BY <1>1 DEF Atomic!Write
    <2>2. \A t \in ids :
             /\ account'[t] \in Account /\ Exists(account'[t]) /\ Owner[account'[t]] = u
             /\ category'[t] # None => Exists(category'[t]) /\ Owner[category'[t]] = u
      <3>1. \A z \in Atomic!Visible(u) : z \in Resource /\ Exists(z) /\ Owner[z] = u
        BY DEF Atomic!Visible, Exists
      <3>2. \A t \in ids : account'[t] \in Atomic!Visible(u) /\ category'[t] \in Atomic!Visible(u) \cup {None}
        BY <1>1 DEF Atomic!Write
      <3>3. QED
        BY <2>1, <3>1, <3>2, Constants
    <2>3. SoundReferences'
      BY <2>1, <2>2 DEF SoundReferences, Exists
    <2>4. NamesUnique' /\ Rooted'
      BY <2>1, <2>2 DEF NamesUnique, Rooted, Exists, SameList
    <2>5. QED
      BY <2>1, <2>3, <2>4
  <1>2. ASSUME NEW u \in User, NEW ids \in SUBSET TransactionId, Atomic!Delete(u, ids)
        PROVE  /\ name' = name
               /\ account' \in [TransactionId -> Account \cup {None, Gone}]
               /\ category' \in [TransactionId -> Category \cup {None}]
               /\ SoundReferences' /\ NamesUnique' /\ Rooted'
    <2>1. /\ name' = name
          /\ account' = [t \in TransactionId |-> IF t \in ids THEN Gone ELSE account[t]]
          /\ category' = [t \in TransactionId |-> IF t \in ids THEN None ELSE category[t]]
      BY <1>2 DEF Atomic!Delete
    <2>2. Gone \notin Account
      BY Constants
    <2>3. SoundReferences'
      BY <2>1, <2>2 DEF SoundReferences, Exists
    <2>4. NamesUnique' /\ Rooted'
      BY <2>1 DEF NamesUnique, Rooted, Exists, SameList
    <2>5. QED
      BY <2>1, <2>3, <2>4
  <1>3. ASSUME NEW u \in User, NEW xs \in (SUBSET Account) \cup (SUBSET Category),
               Atomic!DeleteResources(u, xs)
        PROVE  /\ name' \in [Resource -> Name \cup {None, Gone}]
               /\ account' \in [TransactionId -> Account \cup {None, Gone}]
               /\ category' \in [TransactionId -> Category \cup {None}]
               /\ SoundReferences' /\ NamesUnique' /\ Rooted'
    <2>1. /\ name' = [x \in Resource |-> IF x \in xs THEN Gone ELSE name[x]]
          /\ account' = [t \in TransactionId |-> IF account[t] \in xs THEN Gone ELSE account[t]]
          /\ category' = [t \in TransactionId |->
                            IF account[t] \in xs \/ category[t] \in xs THEN None ELSE category[t]]
      BY <1>3 DEF Atomic!DeleteResources
    <2>2. Gone \notin Account /\ Gone \notin Name
      BY Constants
    <2>3. SoundReferences'
      <3> SUFFICES ASSUME NEW t \in TransactionId, account'[t] \in Account
                   PROVE  /\ name'[account'[t]] \in Name
                          /\ category'[t] # None =>
                               name'[category'[t]] \in Name /\ Owner[category'[t]] = Owner[account'[t]]
        BY DEF SoundReferences, Exists
      <3>1. account'[t] = account[t] /\ account[t] \notin xs
        BY <2>1, <2>2
      <3>2. category'[t] # None => category'[t] = category[t] /\ category[t] \notin xs /\ category[t] \in Category
        BY <2>1
      <3>3. QED
        BY <2>1, <3>1, <3>2 DEF SoundReferences, Exists
    <2>4. NamesUnique'
      BY <2>1, <2>2 DEF NamesUnique, Exists, SameList
    <2>5. Rooted'
      BY <2>1 DEF Rooted
    <2>6. QED
      BY <2>1, <2>3, <2>4, <2>5
  <1>4. ASSUME NEW u \in User, NEW x \in Resource, NEW n \in Name, Atomic!SetName(u, x, n)
        PROVE  /\ name' \in [Resource -> Name \cup {None, Gone}]
               /\ account' = account /\ category' = category
               /\ SoundReferences' /\ NamesUnique' /\ Rooted'
    <2>1. /\ name' = [name EXCEPT ![x] = n] /\ account' = account /\ category' = category
          /\ \A y \in Resource \ {x} : SameList(x, y) => name[y] # n
      BY <1>4 DEF Atomic!SetName, SameList
    <2>2. SoundReferences'
      BY <2>1 DEF SoundReferences, Exists
    <2>3. NamesUnique'
      BY <2>1 DEF NamesUnique, Exists, SameList
    <2>4. Rooted'
      BY <2>1 DEF Rooted
    <2>5. QED
      BY <2>1, <2>2, <2>3, <2>4
  <1>5. QED
    BY <1>1, <1>2, <1>3, <1>4 DEF Atomic!Next, Atomic!Create, Atomic!Update

\* The rows a commit writes are the ones its request has locked or generated, and
\* the references it writes that were not there already are held.
WritesItsRows(r) ==
    /\ \A t \in TransactionId :
         \/ account'[t] = account[t] /\ category'[t] = category[t]
         \/ t \in request[r].locked
         \/ request[r].op = "create" /\ t \in request[r].ids
    /\ \A t \in TransactionId, y \in Resource :
         RefersTo(t, y)' => RefersTo(t, y) \/ y \in request[r].shared
    /\ \A y \in Resource :
         \/ name'[y] = name[y]
         \/ y \in request[r].locked /\ name'[y] = Gone
         \/ y \in request[r].ids /\ request[r].pc = "commit" /\ name'[y] = request[r].name

\* A commit disturbs no other request: what those have locked, hold, or are about to
\* create or to take is not among the rows it writes.
LEMMA OthersKept ==
  ASSUME Inv, NEW r \in Req, NEW q \in Req, q # r, request'[q] = request[q],
         request[r].pc \in {"rows", "references", "cascade", "commit"}, WritesItsRows(r)
  PROVE  Own(request[q])'
  <1> DEFINE x == request[q]
             z == request[r]
  <1>1. Own(x) /\ Own(z) /\ Apart(x, z) /\ Apart(z, x)
    BY DEF Inv
  <1>a. x.locked \subseteq TransactionId \cup Resource /\ z.locked \subseteq TransactionId \cup Resource
    BY Fields DEF Inv
  <1>2. z.pc = "commit" => z.ids \subseteq Resource /\ z.locked \subseteq z.ids /\ z.name \in Name
    BY <1>1, Endpoint DEF Own, Form, Agenda
  <1>3. z.op = "create" => \A t \in z.ids : account[t] = None /\ t \in TransactionId
    BY <1>1 DEF Own, Form, Fresh
  <1>4. \A t \in z.locked \cap TransactionId : account[t] # None
    <2>1. CASE z.pc \in {"rows", "references"}
      BY <1>1, <2>1, Constants DEF Own, Held
    <2>2. CASE z.pc = "cascade"
      BY <1>1, <2>2, Constants DEF Own, Held, RefersTo, Inv, Rooted
    <2>3. CASE z.pc = "commit"
      BY <1>2, <2>3, Constants
    <2>4. QED
      BY <2>1, <2>2, <2>3
  <1>5. \A t \in TransactionId :
          t \notin z.locked /\ (z.op = "create" => t \notin z.ids)
          => account'[t] = account[t] /\ category'[t] = category[t]
    BY DEF WritesItsRows
  <1>6. \A y \in Resource :
          /\ Exists(y) /\ y \notin z.locked => name'[y] \in Name
          /\ name[y] # None => name'[y] # None
          /\ name[y] = Gone => name'[y] = Gone
          /\ name[y] = None /\ ~ (z.op = "createResource" /\ y \in z.ids) => name'[y] = None
    <2>1. \A y \in z.locked \cap Resource : Exists(y)
      BY <1>1 DEF Own, Held
    <2>2. z.pc = "commit" =>
            \A y \in z.ids : (z.op = "createResource" /\ name[y] = None) \/ y \in z.locked
      BY <1>1, Endpoint DEF Own, Agenda, Fresh
    <2>3. QED
      BY <1>2, <2>1, <2>2, Constants DEF WritesItsRows, Exists
  <1>7. \A t \in x.locked \cap TransactionId :
          account[t] # None => account'[t] = account[t] /\ category'[t] = category[t]
    BY <1>1, <1>3, <1>5 DEF Apart
  <1> HIDE DEF x, z
  <1>8. (Form(request[q]) /\ Agenda(request[q]))'
    BY <1>1 DEF Own, Form, Agenda, Refers, Single, x
  <1>9. Fresh(request[q])'
    <2>1. x.op = "create" => \A t \in x.ids : account'[t] = None
      <3>1. x.op = "create" => \A t \in x.ids : t \in TransactionId /\ account[t] = None
        BY <1>1 DEF Own, Form, Fresh
      <3>2. QED
        BY <1>1, <1>4, <1>5, <3>1 DEF Apart
    <2>2. x.op = "createResource" => \A y \in x.ids : name'[y] = None
      <3>1. x.op = "createResource" => \A y \in x.ids : y \in Resource /\ name[y] = None
        BY <1>1 DEF Own, Form, Fresh
      <3>2. QED
        BY <1>1, <1>6, <3>1 DEF Apart
    <2>3. QED
      BY <2>1, <2>2 DEF Fresh, x
  <1>10. Held(request[q])'
    <2>1. \A y \in (x.locked \cap Resource) \cup x.shared : name'[y] \in Name
      <3>1. x.shared \subseteq Resource
        BY Fields DEF Inv, x
      <3>2. QED
        BY <1>1, <1>6, <3>1 DEF Own, Held, Apart
    <2>2. x.pc \in {"rows", "references"} =>
            \A t \in x.locked : account'[t] \in Account /\ Owner[account'[t]] = x.user
      <3>1. x.pc \in {"rows", "references"} => x.locked \subseteq TransactionId
        <4>1. x.pc \in {"rows", "references"} => x.ids \subseteq TransactionId
          BY <1>1, Endpoint DEF Own, Form, x
        <4>2. x.pc \in {"rows", "references"} => x.locked \subseteq x.ids
          BY <1>1 DEF Own, Agenda
        <4>3. QED
          BY <4>1, <4>2
      <3>2. QED
        BY <1>1, <1>7, <3>1, Constants DEF Own, Held
    <2>3. x.pc = "cascade" =>
            \A t \in x.locked \cap TransactionId : \E y \in x.locked \cap Resource :
               y \in {account'[t], category'[t]}
      <3> SUFFICES ASSUME x.pc = "cascade", NEW t \in x.locked \cap TransactionId
                   PROVE  \E y \in x.locked \cap Resource : y \in {account'[t], category'[t]}
        OBVIOUS
      <3>1. PICK y \in x.locked \cap Resource : RefersTo(t, y)
        BY <1>1 DEF Own, Held
      <3>2. account[t] # None
        BY <3>1, Constants DEF RefersTo, Inv, Rooted
      <3>3. QED
        BY <1>7, <3>1, <3>2 DEF RefersTo
    <2>4. QED
      BY <2>1, <2>2, <2>3 DEF Held, Exists, RefersTo, x
  <1>11. LookedUp(request[q])'
    <2>1. /\ x.pc = "categories" => \A t \in x.ids : x.acc[t] \in Resource
          /\ x.op \in {"create", "update"} => \A t \in x.ids : Refers(x, t) \subseteq Resource
      BY <1>1, Fields, Endpoint, Constants DEF Inv, Own, Form, Refers, x
    <2>2. QED
      BY <1>1, <1>6, <2>1 DEF Own, LookedUp, Refers, x
  <1>12. Referred(request[q])'
    <2>1. x.pc = "references" /\ x.op = "update" =>
            \A t \in x.ids : account'[t] = account[t] /\ category'[t] = category[t]
      <3>1. x.pc = "references" /\ x.op = "update" =>
              \A t \in x.ids : t \in x.locked /\ t \in TransactionId /\ account[t] # None
        BY <1>1, Constants DEF Own, Form, Agenda, Held
      <3>2. QED
        BY <1>7, <3>1
    <2>2. QED
      BY <1>1, <2>1 DEF Own, Referred, Refers, RefersTo, x
  <1>13. Cascading(request[q])'
    <2>1. \A t \in TransactionId, y \in x.locked \cap Resource : RefersTo(t, y)' => RefersTo(t, y)
      BY <1>1 DEF WritesItsRows, Apart, z
    <2>2. QED
      BY <1>1, <2>1 DEF Own, Cascading, RefersTo, x
  <1>14. Claimed(request[q])'
    <2>1. x.pc = "commit" => \A w \in x.ids, y \in Resource : SameList(w, y) /\ y # w => name'[y] # x.name
      <3>1. x.pc = "commit" => x.name \in Name
        BY <1>1, Endpoint DEF Own, Form, x
      <3>2. \A y \in Resource : \/ name'[y] = name[y]
                                \/ name'[y] = Gone
                                \/ y \in z.ids /\ z.pc = "commit" /\ name'[y] = z.name
        BY DEF WritesItsRows, z
      <3>3. QED
        BY <1>1, <3>1, <3>2, Constants DEF Own, Claimed, Apart
    <2>2. QED
      BY <2>1 DEF Claimed, SameList, x
  <1>15. QED
    BY <1>8, <1>9, <1>10, <1>11, <1>12, <1>13, <1>14 DEF Own

\* A commit that is an atomic step on its own rows keeps the invariant.
LEMMA CommitKeeps ==
  ASSUME Inv, NEW r \in Req, Acknowledge(r), Atomic!Next,
         request[r].pc \in {"rows", "references", "cascade", "commit"}, WritesItsRows(r)
  PROVE  Inv'
  <1>1. PICK status \in Status : Finish(r, status)
    BY DEF Acknowledge, Status
  <1>2. \A q \in Req \ {r} : request'[q] = request[q]
    BY <1>1, Slot DEF Inv, Finish
  <1>3. \A q \in Req \ {r} : Own(request[q])'
    BY <1>2, OthersKept
  <1>4. QED
    BY <1>1, <1>3, AtomicKeeps, FinishKeeps DEF Inv, TypeOK

\* A create or update of transactions commits as Create or Update.
LEMMA CommitTransactionsAtomic ==
  ASSUME Inv, NEW r \in Req, CommitTransactions(r)
  PROVE  Atomic!Next /\ WritesItsRows(r)
  <1> USE DEF Atomic!Resource, Resource
  <1> DEFINE x == request[r]
  <1>1. /\ Own(x) /\ x.pc = "references" /\ x.todo = {} /\ x.op \in {"create", "update"}
        /\ x.user \in User
        /\ account' = [t \in TransactionId |-> IF t \in x.ids THEN x.acc[t] ELSE account[t]]
        /\ category' = [t \in TransactionId |-> IF t \in x.ids THEN x.cat[t] ELSE category[t]]
        /\ UNCHANGED name
    BY Fields, Endpoint DEF Inv, CommitTransactions
  <1>2. x.ids \subseteq TransactionId /\ \A t \in x.ids : x.acc[t] \in Account /\ x.cat[t] \in Category \cup {None}
    BY <1>1, Fields DEF Inv, Own, Form
  <1>3. \A t \in x.ids : \A y \in Refers(x, t) :
           y \in Resource /\ Owner[y] = x.user /\ (y \in x.shared \/ (x.op = "update" /\ RefersTo(t, y)))
    BY <1>1, <1>2 DEF Own, LookedUp, Referred, Refers
  <1>4. x.op = "update" => x.locked = x.ids /\ \A t \in x.ids :
           account[t] \in Account /\ Owner[account[t]] = x.user
    BY <1>1 DEF Own, Agenda, Held
  <1>5. \A t \in x.ids : \A y \in Refers(x, t) : Exists(y)
    <2> SUFFICES ASSUME NEW t \in x.ids, NEW y \in Refers(x, t) PROVE Exists(y)
      OBVIOUS
    <2>1. CASE y \in x.shared
      BY <1>1, <2>1 DEF Own, Held
    <2>2. CASE x.op = "update" /\ RefersTo(t, y)
      BY <1>2, <1>3, <1>4, <2>2, Constants DEF RefersTo, Inv, SoundReferences
    <2>3. QED
      BY <1>3, <2>1, <2>2
  <1> HIDE DEF x
  <1>6. Atomic!Write(x.user, x.ids)
    <2>1. account' \in [TransactionId -> Account \cup {None, Gone}]
          /\ category' \in [TransactionId -> Category \cup {None}]
      BY <1>1, <1>2 DEF Inv, TypeOK
    <2>2. \A t \in x.ids : x.acc[t] \in Atomic!Visible(x.user) /\ x.cat[t] \in Atomic!Visible(x.user) \cup {None}
      BY <1>2, <1>3, <1>5, Constants DEF Refers, Atomic!Visible, Exists
    <2>3. QED
      BY <1>1, <1>2, <2>1, <2>2 DEF Atomic!Write
  <1>7. Atomic!Next
    <2>1. CASE x.op = "create"
      <3>1. Atomic!Create(x.user, x.ids)
        BY <1>1, <1>6, <2>1 DEF Own, Fresh, Atomic!Create
      <3>2. QED
        BY <1>1, <1>2, <3>1 DEF Atomic!Next
    <2>2. CASE x.op = "update" /\ x.ids # {}
      <3>1. PICK t \in TransactionId : x.ids = {t}
        BY <1>1, <1>2, <2>2 DEF Own, Form, Single
      <3>2. Atomic!Update(x.user, t)
        BY <1>4, <1>6, <2>2, <3>1 DEF Atomic!Update, Atomic!Owned, Atomic!Visible, Inv, SoundReferences, Exists
      <3>3. QED
        BY <1>1, <3>1, <3>2 DEF Atomic!Next
    <2>3. CASE x.ids = {}
      <3>1. Atomic!Create(x.user, x.ids)
        BY <1>6, <2>3 DEF Atomic!Create
      <3>2. QED
        BY <1>1, <1>2, <3>1 DEF Atomic!Next
    <2>4. QED
      BY <1>1, <2>1, <2>2, <2>3
  <1>8. WritesItsRows(r)
    <2>1. \A t \in TransactionId \ x.ids : account'[t] = account[t] /\ category'[t] = category[t]
      BY <1>1
    <2>2. \A t \in x.ids : t \in x.locked \/ x.op = "create"
      BY <1>1, <1>4
    <2>3. ASSUME NEW t \in TransactionId, NEW y \in Resource, y \in {account'[t], category'[t]}
          PROVE  RefersTo(t, y) \/ y \in x.shared
      <3>1. CASE t \in x.ids
        <4>1. y \in Refers(x, t)
          BY <1>1, <2>3, <3>1, Constants DEF Refers
        <4>2. QED
          BY <1>3, <3>1, <4>1
      <3>2. CASE t \notin x.ids
        BY <2>1, <2>3, <3>2 DEF RefersTo
      <3>3. QED
        BY <3>1, <3>2
    <2>4. QED
      BY <1>1, <2>1, <2>2, <2>3 DEF WritesItsRows, RefersTo, x
  <1>9. QED
    BY <1>7, <1>8

\* A delete of transactions commits as Delete.
LEMMA CommitDeleteAtomic ==
  ASSUME Inv, NEW r \in Req, CommitDelete(r), ~ Reject(r, "404 transaction")
  PROVE  Atomic!Next /\ WritesItsRows(r)
  <1> USE DEF Atomic!Resource, Resource
  <1> DEFINE x == request[r]
  <1>1. /\ Own(x) /\ x.pc = "rows" /\ x.op \in {"deleteTransaction", "bulkDeleteTransactions"}
        /\ x.user \in User
        /\ account' = [t \in TransactionId |-> IF t \in x.locked THEN Gone ELSE account[t]]
        /\ category' = [t \in TransactionId |-> IF t \in x.locked THEN None ELSE category[t]]
        /\ UNCHANGED name
    BY Fields, Endpoint DEF Inv, CommitDelete, At
  <1>2. x.locked \subseteq TransactionId
    BY <1>1 DEF Own, Form, Agenda
  <1>3. x.locked \subseteq Atomic!Owned(x.user)
    BY <1>1, <1>2 DEF Own, Held, Atomic!Owned, Atomic!Visible, Inv, SoundReferences, Exists
  <1>4. Atomic!Delete(x.user, x.locked)
    BY <1>1, <1>3 DEF Atomic!Delete
  <1>5. Atomic!Next
    BY <1>1, <1>2, <1>4 DEF Atomic!Next
  <1>6. WritesItsRows(r)
    BY <1>1, Constants DEF WritesItsRows, RefersTo
  <1>7. QED
    BY <1>5, <1>6

\* A delete of accounts or categories, with its cascades, commits as DeleteResources.
LEMMA CommitDeleteResourcesAtomic ==
  ASSUME Inv, NEW r \in Req, CommitDeleteResources(r)
  PROVE  Atomic!Next /\ WritesItsRows(r)
  <1> USE DEF Atomic!Resource, Resource
  <1> DEFINE x == request[r]
             xs == x.locked \cap Resource
  <1>1. /\ Own(x) /\ x.pc = "cascade" /\ x.todo = {} /\ x.op \in {"deleteResource", "bulkDeleteResources"}
        /\ x.user \in User
        /\ name' = [y \in Resource |-> IF y \in x.locked THEN Gone ELSE name[y]]
        /\ account' = [t \in TransactionId |->
                         IF t \in x.locked /\ account[t] \in x.locked THEN Gone ELSE account[t]]
        /\ category' = [t \in TransactionId |-> IF t \in x.locked THEN None ELSE category[t]]
    BY Fields, Endpoint DEF Inv, CommitDeleteResources
  <1>2. \A t \in TransactionId :
          /\ account[t] \in x.locked <=> account[t] \in xs
          /\ t \in x.locked <=> account[t] \in xs \/ category[t] \in xs
    <2>1. \A t \in TransactionId : account[t] \in Resource \cup {None, Gone} /\ category[t] \in Resource \cup {None}
      BY DEF Inv, TypeOK
    <2>2. x.locked \subseteq TransactionId \cup Resource
      BY Fields DEF Inv
    <2>3. \A t \in TransactionId : account[t] \in x.locked <=> account[t] \in xs
      BY <2>1, <2>2, Constants
    <2>4. \A t \in TransactionId : \A y \in xs : RefersTo(t, y) => t \in x.locked
      BY <1>1 DEF Own, Cascading
    <2>5. \A t \in TransactionId : t \in x.locked => \E y \in xs : RefersTo(t, y)
      BY <1>1 DEF Own, Held
    <2>6. QED
      BY <2>3, <2>4, <2>5 DEF RefersTo
  <1>3. xs \subseteq Atomic!Visible(x.user)
    BY <1>1 DEF Own, Held, Agenda, Atomic!Visible, Exists
  <1>4. xs \in (SUBSET Account) \cup (SUBSET Category)
    <2>1. xs \subseteq x.ids /\ x.ids \in (SUBSET Account) \cup (SUBSET Category)
      BY <1>1 DEF Own, Form, Agenda
    <2>2. QED
      BY <2>1
  <1>5. \A y \in Resource : y \in x.locked <=> y \in xs
    OBVIOUS
  <1> HIDE DEF x, xs
  <1>6. Atomic!DeleteResources(x.user, xs)
    <2>1. name' = [y \in Resource |-> IF y \in xs THEN Gone ELSE name[y]]
      BY <1>1, <1>5
    <2>2. account' = [t \in TransactionId |-> IF account[t] \in xs THEN Gone ELSE account[t]]
      BY <1>1, <1>2
    <2>3. category' = [t \in TransactionId |->
                         IF account[t] \in xs \/ category[t] \in xs THEN None ELSE category[t]]
      BY <1>1, <1>2
    <2>4. QED
      BY <1>3, <2>1, <2>2, <2>3 DEF Atomic!DeleteResources
  <1>7. Atomic!Next
    BY <1>1, <1>4, <1>6 DEF Atomic!Next
  <1>8. WritesItsRows(r)
    BY <1>1, Constants DEF WritesItsRows, RefersTo, x
  <1>9. QED
    BY <1>7, <1>8

\* A creation or rename of an account or category commits as SetName.
LEMMA CommitNameAtomic ==
  ASSUME Inv, NEW r \in Req, CommitName(r)
  PROVE  Atomic!Next /\ WritesItsRows(r)
  <1> USE DEF Atomic!Resource, Resource
  <1> DEFINE x == request[r]
  <1>1. /\ Own(x) /\ x.pc = "commit" /\ x.op \in {"createResource", "rename"} /\ x.user \in User
        /\ name' = [y \in Resource |-> IF y \in x.ids THEN x.name ELSE name[y]]
        /\ UNCHANGED <<account, category>>
    BY Fields, Endpoint DEF Inv, CommitName
  <1>2. PICK a \in Resource : x.ids = {a}
    BY <1>1 DEF Own, Form, Single
  <1>3. Owner[a] = x.user /\ x.name \in Name
    BY <1>1, <1>2 DEF Own, Form, Agenda
  <1>4. name[a] # Gone
    BY <1>1, <1>2, Constants DEF Own, Agenda, Fresh, Held, Exists
  <1>5. \A y \in Resource \ {a} : SameList(a, y) => name[y] # x.name
    BY <1>1, <1>2 DEF Own, Claimed
  <1> HIDE DEF x
  <1>6. Atomic!SetName(x.user, a, x.name)
    <2>1. name' = [name EXCEPT ![a] = x.name]
      BY <1>1, <1>2 DEF Inv, TypeOK
    <2>2. QED
      BY <1>1, <1>3, <1>4, <1>5, <2>1 DEF Atomic!SetName, SameList
  <1>7. Atomic!Next
    BY <1>1, <1>3, <1>6 DEF Atomic!Next
  <1>8. WritesItsRows(r)
    BY <1>1 DEF WritesItsRows, RefersTo, x
  <1>9. QED
    BY <1>7, <1>8

-----------------------------------------------------------------------------
(* The theorems.                                                           *)

\* Every step of a request keeps the invariant and is a step of FinanceAtomic,
\* or leaves the tables alone.
LEMMA StepAtomic ==
  ASSUME Inv, [Next]_vars
  PROVE  Inv' /\ (Atomic!Next \/ UNCHANGED db)
  <1>1. CASE UNCHANGED vars
    <2>1. UNCHANGED db /\ request' = request /\ answer' = answer
      BY <1>1 DEF vars, db
    <2>2. ASSUME NEW q \in Req PROVE Own(request[q])'
      BY <2>1, OwnKept DEF Inv
    <2>3. (\A p, q \in Req : p # q => Apart(request[p], request[q]))'
      BY <2>1 DEF Inv, Apart, SameList
    <2>4. TypeOK'
      BY <2>1 DEF Inv, TypeOK, db
    <2>5. QED
      BY <2>1, <2>2, <2>3, <2>4, TablesKept DEF Inv
  <1>2. ASSUME NEW r \in Req, Arrival(r) PROVE Inv' /\ UNCHANGED db
    <2>1. UNCHANGED db
      BY <1>2 DEF Arrival, BeginCreate, BeginUpdate, BeginDelete, BeginBulkDelete,
                  BeginCreateResource, BeginRename, BeginDeleteResource,
                  BeginBulkDeleteResources, Begin
    <2>2. QED
      BY <1>2, <2>1, ArrivalKeeps
  <1>3. ASSUME NEW r \in Req, Fail(r) \/ DeadlockAbort(r) PROVE Inv' /\ UNCHANGED db
    <2>1. Reject(r, "500") /\ "500" \in Status
      BY <1>3 DEF Fail, DeadlockAbort, Status
    <2>2. QED
      BY <2>1, RejectKeeps DEF Reject
  <1>4. ASSUME NEW r \in Req, Statement(r) PROVE Inv' /\ (Atomic!Next \/ UNCHANGED db)
    <2>1. CASE CheckAccounts(r) \/ CheckCategories(r)
      BY <2>1, CheckKeeps DEF CheckAccounts, CheckCategories, Reject
    <2>2. CASE InsertTransactions(r)
      BY <2>2, InsertKeeps DEF InsertTransactions, Reject
    <2>3. CASE FindTransactions(r)
      BY <2>3, FindTransactionsKeeps DEF FindTransactions
    <2>4. ASSUME NEW t \in TransactionId, NEW a \in Resource, VisitTransaction(r, t, a)
          PROVE  Inv' /\ UNCHANGED db
      BY <2>4, VisitTransactionKeeps DEF VisitTransaction
    <2>5. ASSUME NEW t \in TransactionId, NEW a \in Resource, CheckReference(r, t, a)
          PROVE  Inv' /\ UNCHANGED db
      BY <2>5, CheckReferenceKeeps DEF CheckReference, Reject
    <2>6. CASE WriteUpdate(r)
      BY <2>6, WriteUpdateKeeps DEF WriteUpdate, Reject
    <2>7. CASE CommitTransactions(r)
      BY <2>7, CommitTransactionsAtomic, CommitKeeps DEF CommitTransactions
    <2>8. CASE CommitDelete(r)
      <3>1. CASE Reject(r, "404 transaction")
        BY <3>1, RejectKeeps DEF Reject, Status
      <3>2. CASE ~ Reject(r, "404 transaction")
        BY <2>8, <3>2, CommitDeleteAtomic, CommitKeeps DEF CommitDelete, At
      <3>3. QED
        BY <3>1, <3>2
    <2>9. CASE FindResources(r)
      BY <2>9, FindResourcesKeeps DEF FindResources
    <2>10. ASSUME NEW a \in Resource, VisitResource(r, a) \/ ClaimName(r, a)
           PROVE  Inv' /\ UNCHANGED db
      BY <2>10, VisitResourceKeeps, ClaimNameKeeps DEF VisitResource, ClaimName, Reject
    <2>11. CASE Cascade(r)
      BY <2>11, CascadeKeeps DEF Cascade, Reject
    <2>12. CASE CommitDeleteResources(r)
      BY <2>12, CommitDeleteResourcesAtomic, CommitKeeps DEF CommitDeleteResources
    <2>13. CASE CommitName(r)
      BY <2>13, CommitNameAtomic, CommitKeeps DEF CommitName
    <2>14. QED
      BY <1>4, <2>1, <2>2, <2>3, <2>4, <2>5, <2>6, <2>7, <2>8, <2>9, <2>10, <2>11, <2>12, <2>13
         DEF Statement
  <1>5. QED
    BY <1>1, <1>2, <1>3, <1>4 DEF Next

\* The invariant holds at the start.
LEMMA InitInv == Init => Inv
  <1> SUFFICES ASSUME Init PROVE Inv
    OBVIOUS
  <1>1. \A r \in Req : request[r] = NoRequest
    BY DEF Init
  <1>2. TypeOK
    BY InitialAssumption, <1>1, NoRequestFields DEF Init, TypeOK, NoAnswer, Status
  <1>3. \A r \in Req : Own(request[r])
    BY <1>1, NoRequestOwn
  <1>4. \A r, q \in Req : r # q => Apart(request[r], request[q])
    BY <1>1, NoRequestOwn
  <1>5. SoundReferences /\ Rooted
    BY InitialAssumption, Constants DEF Init, SoundReferences, Rooted, Exists, Resource
  <1>6. NamesUnique
    BY InitialAssumption, Constants DEF Init, NamesUnique, Exists, SameList
  <1>7. QED
    BY <1>2, <1>3, <1>4, <1>5, <1>6 DEF Inv

\* The invariant above holds in every reachable state.
THEOREM Invariance == Spec => []Inv
  <1>1. Inv /\ [Next]_vars => Inv'
    BY StepAtomic
  <1>2. QED
    BY InitInv, <1>1, PTL DEF Spec

\* Type correctness of the request slots and tables.
THEOREM TypeCorrect == Spec => []TypeOK
  <1>1. Inv => TypeOK
    BY DEF Inv
  <1>2. QED
    BY Invariance, <1>1, PTL

\* No transaction hangs off a deleted account, or has a deleted category or one of
\* another user, however writes and cascading deletes overlap.
THEOREM ReferencesStaySound == Spec => []SoundReferences
  <1>1. Inv => SoundReferences
    BY DEF Inv
  <1>2. QED
    BY Invariance, <1>1, PTL

\* A user's accounts, and its categories, have different names, however creations,
\* renames and deletions overlap.
THEOREM NamesStayUnique == Spec => []NamesUnique
  <1>1. Inv => NamesUnique
    BY DEF Inv
  <1>2. QED
    BY Invariance, <1>1, PTL

\* Every request takes effect as one atomic step of its user: Finance implements
\* FinanceAtomic.
THEOREM RequestsAreAtomic == Spec => AtomicTables
  <1>1. Init => Atomic!Init
    BY DEF Init, Atomic!Init
  <1>2. Inv /\ [Next]_vars => [Atomic!Next]_(Atomic!vars)
    BY StepAtomic DEF db, Atomic!vars
  <1>3. QED
    BY <1>1, <1>2, Invariance, PTL DEF Spec, AtomicTables, Atomic!Spec

-----------------------------------------------------------------------------
(* Row level security as a backstop.                                       *)

\* Only the two writes of transactions answer that a policy rejected them.
LEMMA PolicyRejections ==
  ASSUME Inv, Next, NEW r \in Req, Answers(r, "500 policy")
  PROVE  \/ At(r, {"create"}, "write") /\ ~ (References(r) \subseteq Visible(request[r].user))
         \/ At(r, {"update"}, "rows") /\ ~ (References(r) \subseteq request[r].seen)
  <1> DEFINE Claim == \/ At(r, {"create"}, "write") /\ ~ (References(r) \subseteq Visible(request[r].user))
                      \/ At(r, {"update"}, "rows") /\ ~ (References(r) \subseteq request[r].seen)
  <1>1. answer' = [req |-> r, status |-> "500 policy"]
    BY DEF Answers
  <1>2. answer' # NoAnswer
    BY <1>1 DEF NoAnswer
  <1>3. \A q \in Req : \A x : ~ Continue(q, x)
    BY <1>2 DEF Continue
  <1>4. \A q \in Req :
          /\ Finish(q, "500 policy") => q = r
          /\ ~ Finish(q, "200") /\ ~ Finish(q, "500") /\ ~ Finish(q, "409")
          /\ ~ Finish(q, "404 account") /\ ~ Finish(q, "404 category")
          /\ ~ Finish(q, "404 transaction") /\ ~ Finish(q, "404 resource")
    BY <1>1 DEF Finish
  <1>5. \A q \in Req : ~ Acknowledge(q)
    BY <1>4 DEF Acknowledge
  <1>6. PICK q \in Req : Arrival(q) \/ Statement(q) \/ Fail(q) \/ DeadlockAbort(q)
    BY DEF Next
  <1>7. ~ Arrival(q)
    BY <1>3, <1>6 DEF Arrival, BeginCreate, BeginUpdate, BeginDelete, BeginBulkDelete,
                BeginCreateResource, BeginRename, BeginDeleteResource,
                BeginBulkDeleteResources, Begin
  <1>8. ~ Fail(q) /\ ~ DeadlockAbort(q)
    BY <1>4, <1>6 DEF Fail, DeadlockAbort, Reject
  <1>9. InsertTransactions(q) => Claim
    BY <1>3, <1>4, <1>6 DEF InsertTransactions, Reject
  <1>10. WriteUpdate(q) => Claim
    BY <1>3, <1>4, <1>6 DEF WriteUpdate, Reject
  <1>11. ~ CheckAccounts(q) /\ ~ CheckCategories(q) /\ ~ FindTransactions(q)
    BY <1>3, <1>4, <1>6 DEF CheckAccounts, CheckCategories, FindTransactions, Reject
  <1>12. \A t, a : ~ VisitTransaction(q, t, a) /\ ~ CheckReference(q, t, a)
    <2>1. \A t, a : ~ VisitTransaction(q, t, a)
      BY <1>3, <1>6 DEF VisitTransaction
    <2>2. ~ Reject(q, "404 account") /\ ~ Reject(q, "404 category")
      BY <1>4, <1>6 DEF Reject
    <2>3. \A t, a : ~ CheckReference(q, t, a)
      BY <1>3, <1>6, <2>2 DEF CheckReference
    <2>4. QED
      BY <2>1, <2>3
  <1>13. ~ CommitTransactions(q) /\ ~ CommitDelete(q) /\ ~ CommitDeleteResources(q) /\ ~ CommitName(q)
    BY <1>4, <1>5, <1>6 DEF CommitTransactions, CommitDelete, CommitDeleteResources, CommitName, Reject
  <1>14. ~ FindResources(q) /\ ~ Cascade(q) /\ \A a : ~ VisitResource(q, a) /\ ~ ClaimName(q, a)
    BY <1>3, <1>4, <1>6 DEF FindResources, Cascade, VisitResource, ClaimName, Reject
  <1>15. QED
    BY <1>6, <1>7, <1>8, <1>9, <1>10, <1>11, <1>12, <1>13, <1>14 DEF Statement

\* When the policy rejects a write, a reference that the handler had found is gone.
LEMMA RejectedReferenceGone ==
  ASSUME Inv, Next, NEW r \in Req, Answers(r, "500 policy")
  PROVE  \E x \in References(r) : name[x] = Gone
  <1> DEFINE x == request[r]
  <1>1. Own(x) /\ x.op \in {"create", "update"} /\ x.pc \in {"write", "rows"}
    BY PolicyRejections DEF Inv, At
  <1>2. \A y \in References(r) : \E t \in x.ids : y \in Refers(x, t)
    <2>1. x.ids \subseteq TransactionId
      BY <1>1 DEF Own, Form
    <2>2. \A t \in x.ids : x.acc[t] # None
      BY <1>1, Constants DEF Own, Form
    <2>3. QED
      BY <2>2 DEF References, Accounts, Categories, Refers
  <1>3. \A y \in References(r) : y \in Resource /\ Owner[y] = x.user /\ name[y] # None
    <2>1. \A t \in x.ids : Refers(x, t) \subseteq Resource
      <3>1. \A t \in x.ids : t \in TransactionId /\ x.acc[t] \in Account
        BY <1>1 DEF Own, Form
      <3>2. \A t \in x.ids : x.cat[t] \in Category \cup {None}
        BY <3>1, Fields DEF Inv
      <3>3. QED
        BY <3>1, <3>2, Constants DEF Refers
    <2>2. QED
      BY <1>1, <1>2, <2>1 DEF Own, LookedUp
  <1>4. CASE At(r, {"create"}, "write") /\ ~ (References(r) \subseteq Visible(x.user))
    <2>1. PICK y \in References(r) : y \notin Visible(x.user)
      BY <1>4
    <2>2. name[y] \in Name \cup {None, Gone} /\ ~ Exists(y)
      BY <1>3, <2>1 DEF Inv, TypeOK, Visible
    <2>3. QED
      BY <1>3, <2>1, <2>2 DEF Exists
  <1>5. CASE At(r, {"update"}, "rows") /\ ~ (References(r) \subseteq x.seen)
    BY <1>1, <1>2, <1>5 DEF Own, LookedUp, At
  <1>6. QED
    BY <1>4, <1>5, PolicyRejections

\* Row level security never is the one to notice a reference to somebody else's row.
THEOREM PolicyIsBackstop == Spec => BackstopOnlyRaces
  <1>1. Inv /\ [Next]_vars =>
          [\A r \in Req : Answers(r, "500 policy") => \E x \in References(r) : name[x] = Gone]_vars
    BY RejectedReferenceGone
  <1>2. QED
    BY <1>1, Invariance, PTL DEF Spec, BackstopOnlyRaces

-----------------------------------------------------------------------------
(* Deadlocks.                                                              *)

Deletes == {"bulkDeleteTransactions", "deleteResource", "bulkDeleteResources"}

\* Which requests hold what.
LEMMA Holding ==
  ASSUME Inv, NEW q \in Req
  PROVE  /\ \A y \in Resource : y \in request[q].locked => request[q].op \in {"rename"} \cup Deletes
         /\ \A y : y \in request[q].shared => request[q].pc = "references"
         /\ request[q].op \in {"update", "deleteTransaction", "rename"}
              /\ request[q].pc \in {"rows", "resources"} /\ request[q].todo # {}
            => request[q].locked = {}
  <1> DEFINE x == request[q]
  <1>1. Own(x) /\ x.op \in AllOps \cup {"none"}
    BY Fields DEF Inv
  <1>2. x.op = "none" => x.locked = {}
    BY Fields, NoRequestFields DEF Inv
  <1>3. x.op \in {"create", "createResource"} => x.locked = {}
    BY <1>1 DEF Own, Form, Agenda
  <1>4. x.op \in {"update", "deleteTransaction", "bulkDeleteTransactions"} => x.locked \subseteq TransactionId
    BY <1>1 DEF Own, Form, Agenda
  <1>5. \A y \in Resource : y \in x.locked => x.op \in {"rename"} \cup Deletes
    BY <1>1, <1>2, <1>3, <1>4, Constants DEF AllOps, Deletes
  <1>6. \A y : y \in x.shared => x.pc = "references"
    BY <1>1 DEF Own, Agenda
  <1>7. x.op \in {"update", "deleteTransaction", "rename"} /\ x.pc \in {"rows", "resources"} /\ x.todo # {}
        => x.locked = {}
    BY <1>1 DEF Own, Form, Agenda, Single
  <1>8. QED
    BY <1>5, <1>6, <1>7

\* Whom a request waits for that does not delete several rows.
LEMMA Waiting ==
  ASSUME Inv, NEW p \in Req, NEW q \in WaitsFor(p), request[p].op \notin Deletes
  PROVE  /\ q \in Req \ {p}
         /\ \/ /\ request[p].pc = "claim"
               /\ request[q].pc = "commit" \/ \E y \in Resource : y \in request[q].locked
            \/ /\ request[p].pc = "references"
               /\ \E y \in Resource : y \in request[q].locked
            \/ /\ request[p].pc = "resources" /\ request[p].op = "rename" /\ request[p].locked = {}
               /\ \E y \in Resource : y \in request[q].locked \/ y \in request[q].shared
            \/ /\ request[p].pc = "rows" /\ request[p].locked = {}
               /\ request[q].locked # {}
  <1> DEFINE x == request[p]
  <1>1. Own(x) /\ x.todo \subseteq (TransactionId \cup Resource) \X Resource /\ x.pc \in Pc
    BY Fields DEF Inv
  <1>2. CASE x.pc = "claim"
    <2>1. PICK y \in x.ids : q \in NameRivals(p, y, x.name)
      BY <1>2 DEF WaitsFor
    <2>2. QED
      BY <1>2, <2>1 DEF NameRivals
  <1>3. CASE x.pc = "references"
    <2>1. PICK e \in x.todo : q \in Writers(p, e[2])
      BY <1>3 DEF WaitsFor
    <2>2. e[2] \in Resource
      BY <1>1, <2>1
    <2>3. QED
      BY <1>3, <2>1, <2>2 DEF Writers
  <1>4. CASE x.pc = "resources"
    <2>1. PICK e \in x.todo : q \in Holders(p, e[1])
      BY <1>4 DEF WaitsFor
    <2>2. e[1] \in Resource
      BY <1>1, <1>4, <2>1 DEF Own, Agenda
    <2>3. x.op = "rename" /\ x.locked = {}
      BY <1>4, <2>1, Endpoint, Holding DEF Deletes
    <2>4. QED
      BY <1>4, <2>1, <2>2, <2>3 DEF Holders, Writers
  <1>5. CASE x.pc \notin {"claim", "references", "resources"}
    <2>1. PICK e \in x.todo : q \in Writers(p, e[1])
      BY <1>5 DEF WaitsFor
    <2>2. x.pc \in {"rows", "cascade"}
      BY <1>1, <1>5, <2>1 DEF Own, Agenda
    <2>3. x.pc = "rows" /\ x.op \in {"update", "deleteTransaction"}
      BY <2>2, Endpoint DEF Deletes
    <2>4. x.locked = {}
      BY <2>1, <2>3, Holding
    <2>5. QED
      BY <2>1, <2>3, <2>4 DEF Writers
  <1>6. QED
    BY <1>2, <1>3, <1>4, <1>5

\* The invariant rules out every other waiting circle.
LEMMA CircleNeedsDelete == Inv => DeadlocksNeedDeletes
  <1> SUFFICES ASSUME Inv, NEW S \in SUBSET Req, S # {}, \A r \in S : WaitsFor(r) \cap S # {},
                      \A r \in S : request[r].op \notin Deletes,
                      \A r, q \in S : request[r].op = "rename" /\ request[q].op = "rename" => r = q
               PROVE  FALSE
    BY DEF DeadlocksNeedDeletes, Deletes
  <1>1. \A q \in S : request[q].pc # "commit"
    <2> SUFFICES ASSUME NEW q \in S, request[q].pc = "commit" PROVE FALSE
      OBVIOUS
    <2>1. PICK w \in S : w \in WaitsFor(q)
      OBVIOUS
    <2>2. QED
      BY <2>1, Waiting
  <1>2. \A q \in S : \A y \in Resource : y \in request[q].locked => request[q].op = "rename"
    BY Holding
  <1>3. \A p \in S : request[p].op # "rename"
    <2> SUFFICES ASSUME NEW p \in S, request[p].op = "rename" PROVE FALSE
      OBVIOUS
    <2>1. PICK q \in S : q \in WaitsFor(p)
      OBVIOUS
    <2>2. q # p /\ request[q].op # "rename"
      BY <2>1, Waiting
    <2>3. request[p].locked = {} /\ request[q].pc = "references"
      BY <1>1, <1>2, <2>1, <2>2, Waiting, Holding, Endpoint
    <2>4. PICK w \in S : w \in WaitsFor(q)
      OBVIOUS
    <2>5. \E y \in Resource : y \in request[w].locked
      BY <2>3, <2>4, Waiting
    <2>6. w = p
      BY <1>2, <2>5
    <2>7. QED
      BY <2>3, <2>5, <2>6
  <1>4. \A p \in S : request[p].pc = "rows" /\ request[p].locked = {}
    <2> SUFFICES ASSUME NEW p \in S PROVE request[p].pc = "rows" /\ request[p].locked = {}
      OBVIOUS
    <2>1. PICK q \in S : q \in WaitsFor(p)
      OBVIOUS
    <2>2. QED
      BY <1>1, <1>2, <1>3, <2>1, Waiting
  <1>5. PICK p \in S : TRUE
    OBVIOUS
  <1>6. PICK q \in S : q \in WaitsFor(p)
    OBVIOUS
  <1>7. QED
    BY <1>4, <1>6, Waiting

\* Requests that wait for each other in a circle include a delete of several rows or
\* two renames.
THEOREM OnlyDeletesDeadlock == Spec => []DeadlocksNeedDeletes
  BY Invariance, CircleNeedsDelete, PTL

=============================================================================
