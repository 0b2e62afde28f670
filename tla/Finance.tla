------------------------------ MODULE Finance ------------------------------
(***************************************************************************)
(* The owned resources of the API: accounts, categories and transactions   *)
(* (backend/internal/http/{accounts,categories,transactions,               *)
(* transactions_bulk}.go), written by concurrent request goroutines, each  *)
(* in one PostgreSQL transaction bound to its user (db.WithUserTx).        *)
(*                                                                         *)
(* READ COMMITTED, as in AuthSessions: a statement sees what was committed *)
(* when it started; an UPDATE or DELETE waits for a row another            *)
(* transaction has written and then looks at it again; nothing written is  *)
(* seen by others before COMMIT.  On top of that come                      *)
(*   - row level security: a user sees, and may refer to, what it owns;    *)
(*   - foreign keys: the row referred to is locked FOR KEY SHARE, after    *)
(*     waiting for a transaction that is deleting or renaming it;          *)
(*   - ON DELETE CASCADE (account) and ON DELETE SET NULL (category).      *)
(* Amounts, payees, dates and notes are abstracted from: a transaction is  *)
(* its account and its category.  Requests refused before a transaction is *)
(* begun (validation, the rate limiter) and reads change nothing and are   *)
(* not actions.                                                            *)
(***************************************************************************)
EXTENDS Naturals, FiniteSets

CONSTANTS
    User, Account, Category, TransactionId, Name,
    Owner,      \* the user each account or category belongs to
    Req,        \* request slots: goroutines serving a request
    InitialName, InitialAccount, InitialCategory,  \* the tables at the start
    Ops,        \* which endpoints receive requests (a bound)
    MaxBatch,   \* rows per bulk request (a bound)
    None,
    Gone        \* of a deleted row; its id is never used again

Resource == Account \cup Category

AllOps == {"create", "update", "deleteTransaction", "bulkDeleteTransactions",
           "createResource", "rename", "deleteResource", "bulkDeleteResources"}

ASSUME FinanceAssumption ==
    /\ Account \cap Category = {}
    /\ TransactionId \cap Resource = {}
    /\ Owner \in [Resource -> User]
    /\ Ops \subseteq AllOps
    /\ MaxBatch \in Nat
    /\ {None, Gone} \cap (User \cup Resource \cup TransactionId \cup Name) = {}
    /\ None # Gone

ASSUME InitialAssumption ==
    /\ InitialName \in [Resource -> Name \cup {None}]
    /\ InitialAccount \in [TransactionId -> Account \cup {None}]
    /\ InitialCategory \in [TransactionId -> Category \cup {None}]
    /\ \A x, y \in Resource :
          (/\ InitialName[x] # None
           /\ InitialName[x] = InitialName[y]
           /\ Owner[x] = Owner[y]
           /\ x \in Account <=> y \in Account) => x = y
    /\ \A t \in TransactionId :
          LET a == InitialAccount[t]
              c == InitialCategory[t]
          IN  /\ a # None => InitialName[a] # None
              /\ c # None => /\ a # None
                             /\ InitialName[c] # None
                             /\ Owner[a] = Owner[c]

VARIABLES
    name,      \* accounts and categories: the name, None before, Gone after
    account,   \* transactions.account_id; None before, Gone after
    category,  \* transactions.category_id, None if NULL
    request,   \* the request each slot is serving
    answer     \* the answer given in the step just taken

db == <<name, account, category>>
vars == <<name, account, category, request, answer>>

-----------------------------------------------------------------------------
(* Requests.                                                               *)
(*   op, pc    the endpoint, and the statement it executes next            *)
(*   user      the authenticated user, bound for row level security        *)
(*   ids       the rows to be created, changed or deleted                  *)
(*   acc, cat  the account and category written to each of them            *)
(*   name      the name written (accounts and categories)                  *)
(*   seen      what the statement's snapshot showed of the references      *)
(*   todo      what the statement still has to visit: rows, with what they *)
(*             referred to in the snapshot, or references to be checked    *)
(*   locked    rows it has written or deleted, uncommitted                 *)
(*   shared    accounts and categories it holds FOR KEY SHARE              *)

Pc == {"idle", "accounts", "categories", "write", "rows", "references",
       "resources", "cascade", "claim", "commit"}

Status == {"none", "200", "404 account", "404 category", "404 transaction",
           "404 resource", "409", "500", "500 policy"}

Request ==
    [op : AllOps \cup {"none"}, pc : Pc, user : User \cup {None},
     ids : SUBSET (TransactionId \cup Resource),
     acc : [TransactionId -> Account \cup {None}],
     cat : [TransactionId -> Category \cup {None}],
     name : Name \cup {None},
     seen : SUBSET Resource,
     todo : SUBSET ((TransactionId \cup Resource) \X Resource),
     locked : SUBSET (TransactionId \cup Resource),
     shared : SUBSET Resource]

NoRequest ==
    [op |-> "none", pc |-> "idle", user |-> None, ids |-> {},
     acc |-> [t \in TransactionId |-> None], cat |-> [t \in TransactionId |-> None],
     name |-> None, seen |-> {}, todo |-> {}, locked |-> {}, shared |-> {}]

NoAnswer == [req |-> None, status |-> "none"]

TypeOK ==
    /\ name \in [Resource -> Name \cup {None, Gone}]
    /\ account \in [TransactionId -> Account \cup {None, Gone}]
    /\ category \in [TransactionId -> Category \cup {None}]
    /\ request \in [Req -> Request]
    /\ answer \in [req : Req \cup {None}, status : Status]
    /\ \A r \in Req :
         /\ request[r].op = "none" <=> request[r] = NoRequest
         /\ request[r].op # "none" => request[r].pc # "idle" /\ request[r].user \in User

Init ==
    /\ name = InitialName
    /\ account = InitialAccount
    /\ category = InitialCategory
    /\ request = [r \in Req |-> NoRequest]
    /\ answer = NoAnswer

Exists(x) == name[x] \in Name

\* What a user sees of the accounts and categories: the policies of migration
\* 00003, and the ownership predicate of every query.
Visible(u) == {x \in Resource : Exists(x) /\ Owner[x] = u}

\* The transactions a user sees: those on its accounts.
Owned(u) == {t \in TransactionId : account[t] \in Visible(u)}

\* What the rows written by r refer to.
Accounts(r) == {request[r].acc[t] : t \in request[r].ids}
Categories(r) == {request[r].cat[t] : t \in request[r].ids} \ {None}
References(r) == Accounts(r) \cup Categories(r)

\* Transaction t refers to x: to its account or to its category.
RefersTo(t, x) == x \in {account[t], category[t]}

\* Ids are generated (cuid2), never chosen by the client.
UnusedTransactions ==
    {t \in TransactionId : account[t] = None /\ \A r \in Req : t \notin request[r].ids}
UnusedResources ==
    {x \in Resource : name[x] = None /\ \A r \in Req : x \notin request[r].ids}

At(r, ops, pc) == request[r].op \in ops /\ request[r].pc = pc

\* r goes on to pc; x is its request with what else the statement changed.
Continue(r, x) == request' = [request EXCEPT ![r] = x] /\ answer' = NoAnswer

\* Faulty: the connection goes back to the pool with its transaction open.
FinishLocked(r, status) ==
    /\ request' = [request EXCEPT ![r] = [NoRequest EXCEPT !.locked = request[r].locked]]
    /\ answer' = [req |-> r, status |-> status]

\* COMMIT or rollback frees the locks; the handler answers.
Finish(r, status) ==
    /\ request' = [request EXCEPT ![r] = NoRequest]
    /\ answer' = [req |-> r, status |-> status]

\* Rolled back.
Reject(r, status) == Finish(r, status) /\ UNCHANGED db

\* Committed; the answer may be lost on its way (COMMIT reported as failed).
Acknowledge(r) == \E status \in {"200", "500"} : Finish(r, status)

Begin(r, op, u, x) ==
    /\ op \in Ops
    /\ request[r].op = "none"
    /\ Continue(r, [x EXCEPT !.op = op, !.user = u])
    /\ UNCHANGED db

-----------------------------------------------------------------------------
(* Row locks.                                                              *)

\* The other requests that have written row z.
Writers(r, z) == {q \in Req \ {r} : z \in request[q].locked}

\* The other requests that have locked row z in any mode.
Holders(r, z) == Writers(r, z) \cup {q \in Req \ {r} : z \in request[q].shared}

\* Names are unique per user, separately for accounts and for categories.
SameList(x, y) == Owner[x] = Owner[y] /\ (x \in Account <=> y \in Account)

\* The other requests whose outcome decides whether name n is free in x's list:
\* those about to take it, and those changing or deleting the row that has it.
NameRivals(r, x, n) ==
    {q \in Req \ {r} :
       \E y \in Resource :
          /\ SameList(x, y)
          /\ \/ y \in request[q].ids /\ request[q].name = n /\ request[q].pc = "commit"
             \/ y \in request[q].locked /\ name[y] = n}

-----------------------------------------------------------------------------
(* Faulty variants of statements below, the kind of mistake each property  *)
(* is there to catch.  No specification uses them.                         *)

\* only the accounts are looked up
CheckCategoriesNot(r) ==
    /\ request[r].pc = "categories"
    /\ Continue(r, [request[r] EXCEPT !.pc = "write"])
    /\ UNCHANGED db

\* the reference is read, not locked
CheckReferencePlain(r, t, x) ==
    /\ request[r].pc = "references"
    /\ <<t, x>> \in request[r].todo
    /\ Exists(x)
    /\ Continue(r, [request[r] EXCEPT !.todo = @ \ {<<t, x>>}])
    /\ UNCHANGED db

\* the reference is locked FOR UPDATE
CheckReferenceForUpdate(r, t, x) ==
    /\ request[r].pc = "references"
    /\ <<t, x>> \in request[r].todo
    /\ x \in Account \/ <<t, request[r].acc[t]>> \notin request[r].todo
    /\ Holders(r, x) = {}
    /\ Exists(x)
    /\ Continue(r, [request[r] EXCEPT !.todo = @ \ {<<t, x>>}, !.locked = @ \cup {x}])
    /\ UNCHANGED db

\* the row is written whether or not it is still there
WriteUpdateUpsert(r) ==
    /\ At(r, {"update"}, "rows")
    /\ request[r].todo = {}
    /\ References(r) \subseteq request[r].seen
    /\ Continue(r, [request[r] EXCEPT
         !.pc = "references",
         !.seen = {},
         !.todo = {p \in request[r].ids \X References(r) : ~ RefersTo(p[1], p[2])}])
    /\ UNCHANGED db

\* without a row the transaction is neither committed nor rolled back
CommitDeleteFound(r) ==
    /\ At(r, {"deleteTransaction", "bulkDeleteTransactions"}, "rows")
    /\ request[r].todo = {}
    /\ request[r].locked # {}
    /\ account' = [t \in TransactionId |->
                     IF t \in request[r].locked THEN Gone ELSE account[t]]
    /\ category' = [t \in TransactionId |->
                      IF t \in request[r].locked THEN None ELSE category[t]]
    /\ Acknowledge(r)
    /\ UNCHANGED name

\* the name is looked up, then written
ClaimNamePrecheck(r, x) ==
    /\ request[r].pc = "claim"
    /\ x \in request[r].ids
    /\ \/ /\ \E y \in Resource \ {x} : SameList(x, y) /\ name[y] = request[r].name
          /\ Reject(r, "409")
       \/ /\ ~ \E y \in Resource \ {x} : SameList(x, y) /\ name[y] = request[r].name
          /\ Continue(r, [request[r] EXCEPT !.pc = "commit"])
          /\ UNCHANGED db

-----------------------------------------------------------------------------
(* Creating and replacing transactions.                                    *)

\* POST /api/transactions and /bulk-create: one row or several.
BeginCreate(r, u) ==
    \E ids \in SUBSET UnusedTransactions :
      \E a \in [ids -> Account], c \in [ids -> Category \cup {None}] :
        /\ Cardinality(ids) \in 1 .. MaxBatch
        /\ Begin(r, "create", u,
             [NoRequest EXCEPT !.pc = "accounts", !.ids = ids,
                !.acc = [t \in TransactionId |-> IF t \in ids THEN a[t] ELSE None],
                !.cat = [t \in TransactionId |-> IF t \in ids THEN c[t] ELSE None]])

\* PATCH /api/transactions/{id}: a full replacement of one row.
BeginUpdate(r, u) ==
    \E t \in TransactionId, a \in Account, c \in Category \cup {None} :
        Begin(r, "update", u,
          [NoRequest EXCEPT !.pc = "accounts", !.ids = {t}, !.acc[t] = a, !.cat[t] = c])

\* validateTransactionReferences: plain SELECTs, the accounts first.
CheckAccounts(r) ==
    /\ request[r].pc = "accounts"
    /\ \/ /\ Accounts(r) \subseteq Visible(request[r].user)
          /\ Continue(r, [request[r] EXCEPT !.pc = "categories"])
          /\ UNCHANGED db
       \/ /\ ~ (Accounts(r) \subseteq Visible(request[r].user))
          /\ Reject(r, "404 account")

CheckCategories(r) ==
    /\ request[r].pc = "categories"
    /\ \/ /\ Categories(r) \subseteq Visible(request[r].user)
          /\ Continue(r, [request[r] EXCEPT !.pc = "write"])
          /\ UNCHANGED db
       \/ /\ ~ (Categories(r) \subseteq Visible(request[r].user))
          /\ Reject(r, "404 category")

\* The INSERT.  The policy's WITH CHECK looks the references up in the
\* statement's own snapshot; a row it rejects is SQLSTATE 42501, which the
\* handler does not map.
InsertTransactions(r) ==
    /\ At(r, {"create"}, "write")
    /\ \/ /\ References(r) \subseteq Visible(request[r].user)
          /\ Continue(r, [request[r] EXCEPT
               !.pc = "references",
               !.todo = {<<t, request[r].acc[t]>> : t \in request[r].ids} \cup
                        {<<t, request[r].cat[t]>> :
                           t \in {s \in request[r].ids : request[r].cat[s] # None}}])
          /\ UNCHANGED db
       \/ /\ ~ (References(r) \subseteq Visible(request[r].user))
          /\ Reject(r, "500 policy")

\* The UPDATE or DELETE of transactions begins: its snapshot decides which rows
\* it goes for, and through which account.
FindTransactions(r) ==
    /\ At(r, {"update", "deleteTransaction", "bulkDeleteTransactions"}, "write")
    /\ Continue(r, [request[r] EXCEPT
         !.pc = "rows",
         !.todo = {<<t, account[t]>> : t \in request[r].ids \cap Owned(request[r].user)},
         !.seen = References(r) \cap Visible(request[r].user)])
    /\ UNCHANGED db

\* It comes to a row, waits for whoever has it locked, and then looks again: a
\* row that is gone, or has moved to another account, no longer matches the
\* account the snapshot joined it with and is passed over.  The cascades of a
\* DELETE do the same with the rows that refer to what is deleted.
VisitTransaction(r, t, x) ==
    /\ request[r].pc \in {"rows", "cascade"}
    /\ <<t, x>> \in request[r].todo
    /\ Writers(r, t) = {}
    /\ Continue(r, [request[r] EXCEPT
         !.todo = @ \ {<<t, x>>},
         !.locked = IF RefersTo(t, x) THEN @ \cup {t} ELSE @])
    /\ UNCHANGED db

\* The UPDATE has its row, or none.  WITH CHECK still goes by the snapshot the
\* statement began with.  A reference is only checked if it changes.
WriteUpdate(r) ==
    /\ At(r, {"update"}, "rows")
    /\ request[r].todo = {}
    /\ \/ /\ request[r].locked = {}
          /\ Reject(r, "404 transaction")
       \/ /\ request[r].locked # {}
          /\ ~ (References(r) \subseteq request[r].seen)
          /\ Reject(r, "500 policy")
       \/ /\ request[r].locked # {}
          /\ References(r) \subseteq request[r].seen
          /\ Continue(r, [request[r] EXCEPT
               !.pc = "references",
               !.seen = {},
               !.todo = {p \in request[r].ids \X References(r) : ~ RefersTo(p[1], p[2])}])
          /\ UNCHANGED db

\* The foreign key triggers at the end of the statement: of a row the account
\* first.  FOR KEY SHARE waits for a transaction deleting or renaming the row;
\* one that is gone is SQLSTATE 23503, which the handler maps to a 404.
CheckReference(r, t, x) ==
    /\ request[r].pc = "references"
    /\ <<t, x>> \in request[r].todo
    /\ x \in Account \/ <<t, request[r].acc[t]>> \notin request[r].todo
    /\ Writers(r, x) = {}
    /\ \/ /\ Exists(x)
          /\ Continue(r, [request[r] EXCEPT !.todo = @ \ {<<t, x>>}, !.shared = @ \cup {x}])
          /\ UNCHANGED db
       \/ /\ ~ Exists(x)
          /\ Reject(r, IF x \in Account THEN "404 account" ELSE "404 category")

CommitTransactions(r) ==
    /\ request[r].pc = "references"
    /\ request[r].todo = {}
    /\ account' = [t \in TransactionId |->
                     IF t \in request[r].ids THEN request[r].acc[t] ELSE account[t]]
    /\ category' = [t \in TransactionId |->
                      IF t \in request[r].ids THEN request[r].cat[t] ELSE category[t]]
    /\ Acknowledge(r)
    /\ UNCHANGED name

-----------------------------------------------------------------------------
(* Deleting transactions.                                                  *)

\* DELETE /api/transactions/{id}
BeginDelete(r, u) ==
    \E t \in TransactionId :
        Begin(r, "deleteTransaction", u, [NoRequest EXCEPT !.pc = "write", !.ids = {t}])

\* POST /api/transactions/bulk-delete
BeginBulkDelete(r, u) ==
    \E ids \in SUBSET TransactionId :
        /\ Cardinality(ids) \in 1 .. MaxBatch
        /\ Begin(r, "bulkDeleteTransactions", u, [NoRequest EXCEPT !.pc = "write", !.ids = ids])

\* A single DELETE that found no row answers 404; the bulk one never does.
CommitDelete(r) ==
    /\ At(r, {"deleteTransaction", "bulkDeleteTransactions"}, "rows")
    /\ request[r].todo = {}
    /\ \/ /\ request[r].op = "deleteTransaction"
          /\ request[r].locked = {}
          /\ Reject(r, "404 transaction")
       \/ /\ request[r].op = "deleteTransaction" => request[r].locked # {}
          /\ account' = [t \in TransactionId |->
                           IF t \in request[r].locked THEN Gone ELSE account[t]]
          /\ category' = [t \in TransactionId |->
                            IF t \in request[r].locked THEN None ELSE category[t]]
          /\ Acknowledge(r)
          /\ UNCHANGED name

-----------------------------------------------------------------------------
(* Accounts and categories.                                                *)

\* POST /api/accounts, /api/categories
BeginCreateResource(r, u) ==
    \E x \in UnusedResources, n \in Name :
        /\ Owner[x] = u
        /\ Begin(r, "createResource", u, [NoRequest EXCEPT !.pc = "claim", !.ids = {x}, !.name = n])

\* PATCH /api/accounts/{id}, /api/categories/{id}
BeginRename(r, u) ==
    \E x \in Resource, n \in Name :
        Begin(r, "rename", u, [NoRequest EXCEPT !.pc = "write", !.ids = {x}, !.name = n])

\* DELETE /api/accounts/{id}, /api/categories/{id}
BeginDeleteResource(r, u) ==
    \E x \in Resource :
        Begin(r, "deleteResource", u, [NoRequest EXCEPT !.pc = "write", !.ids = {x}])

\* POST /api/accounts/bulk-delete, /api/categories/bulk-delete
BeginBulkDeleteResources(r, u) ==
    \E ids \in (SUBSET Account) \cup (SUBSET Category) :
        /\ Cardinality(ids) \in 1 .. MaxBatch
        /\ Begin(r, "bulkDeleteResources", u, [NoRequest EXCEPT !.pc = "write", !.ids = ids])

\* The UPDATE or DELETE of accounts or categories begins.
FindResources(r) ==
    /\ At(r, {"rename", "deleteResource", "bulkDeleteResources"}, "write")
    /\ Continue(r, [request[r] EXCEPT
         !.pc = "resources",
         !.todo = {<<x, x>> : x \in request[r].ids \cap Visible(request[r].user)}])
    /\ UNCHANGED db

\* The name is part of a unique index: writing it locks the row like a DELETE.
VisitResource(r, x) ==
    /\ request[r].pc = "resources"
    /\ <<x, x>> \in request[r].todo
    /\ Holders(r, x) = {}
    /\ Continue(r, [request[r] EXCEPT
         !.todo = @ \ {<<x, x>>},
         !.locked = IF Exists(x) THEN @ \cup {x} ELSE @])
    /\ UNCHANGED db

\* The rename has its row, or none; the delete has its rows, and its cascades
\* begin.  Rows referring to them cannot become more from here on.
Cascade(r) ==
    /\ request[r].pc = "resources"
    /\ request[r].todo = {}
    /\ \/ /\ request[r].op # "bulkDeleteResources"
          /\ request[r].locked = {}
          /\ Reject(r, "404 resource")
       \/ /\ request[r].op = "rename"
          /\ request[r].locked # {}
          /\ Continue(r, [request[r] EXCEPT !.pc = "claim"])
          /\ UNCHANGED db
       \/ /\ request[r].op \in {"deleteResource", "bulkDeleteResources"}
          /\ request[r].op = "deleteResource" => request[r].locked # {}
          /\ Continue(r, [request[r] EXCEPT
               !.pc = "cascade",
               !.todo = {p \in TransactionId \X request[r].locked : RefersTo(p[1], p[2])}])
          /\ UNCHANGED db

CommitDeleteResources(r) ==
    /\ request[r].pc = "cascade"
    /\ request[r].todo = {}
    /\ name' = [x \in Resource |-> IF x \in request[r].locked THEN Gone ELSE name[x]]
    /\ account' = [t \in TransactionId |->
                     IF t \in request[r].locked /\ account[t] \in request[r].locked
                     THEN Gone ELSE account[t]]
    /\ category' = [t \in TransactionId |->
                      IF t \in request[r].locked THEN None ELSE category[t]]
    /\ Acknowledge(r)

\* The unique index: an open transaction that may free or take the name is
\* waited for; a duplicate is SQLSTATE 23505.
ClaimName(r, x) ==
    /\ request[r].pc = "claim"
    /\ x \in request[r].ids
    /\ NameRivals(r, x, request[r].name) = {}
    /\ \/ /\ \E y \in Resource \ {x} : SameList(x, y) /\ name[y] = request[r].name
          /\ Reject(r, "409")
       \/ /\ ~ \E y \in Resource \ {x} : SameList(x, y) /\ name[y] = request[r].name
          /\ Continue(r, [request[r] EXCEPT !.pc = "commit"])
          /\ UNCHANGED db

CommitName(r) ==
    /\ request[r].pc = "commit"
    /\ name' = [x \in Resource |-> IF x \in request[r].ids THEN request[r].name ELSE name[x]]
    /\ Acknowledge(r)
    /\ UNCHANGED <<account, category>>

-----------------------------------------------------------------------------
(* Failure and waiting.                                                    *)

\* An error of any statement, a cancelled context, a panic or a crash: the
\* deferred Rollback of WithUserTx, or the database closing the connection.
Fail(r) == request[r].op # "none" /\ Reject(r, "500")

WaitsFor(r) ==
    CASE request[r].pc = "claim" ->
           UNION {NameRivals(r, x, request[r].name) : x \in request[r].ids}
      [] request[r].pc = "references" -> UNION {Writers(r, p[2]) : p \in request[r].todo}
      [] request[r].pc = "resources" -> UNION {Holders(r, p[1]) : p \in request[r].todo}
      [] OTHER -> UNION {Writers(r, p[1]) : p \in request[r].todo}

\* r is reached from itself along WaitsFor: every set that contains whom r waits
\* for, and with each of its members whom that one waits for, contains r.
InCircle(r) ==
    \A S \in SUBSET Req :
        WaitsFor(r) \subseteq S /\ (\A q \in S : WaitsFor(q) \subseteq S) => r \in S

\* PostgreSQL's deadlock detector aborts a member of a waiting circle.
DeadlockAbort(r) == InCircle(r) /\ Reject(r, "500")

-----------------------------------------------------------------------------

Arrival(r) ==
    \E u \in User :
        \/ BeginCreate(r, u) \/ BeginUpdate(r, u)
        \/ BeginDelete(r, u) \/ BeginBulkDelete(r, u)
        \/ BeginCreateResource(r, u) \/ BeginRename(r, u)
        \/ BeginDeleteResource(r, u) \/ BeginBulkDeleteResources(r, u)

Statement(r) ==
    \/ CheckAccounts(r) \/ CheckCategories(r)
    \/ InsertTransactions(r)
    \/ FindTransactions(r)
    \/ \E t \in TransactionId, x \in Resource : VisitTransaction(r, t, x) \/ CheckReference(r, t, x)
    \/ WriteUpdate(r)
    \/ CommitTransactions(r)
    \/ CommitDelete(r)
    \/ FindResources(r)
    \/ \E x \in Resource : VisitResource(r, x) \/ ClaimName(r, x)
    \/ Cascade(r)
    \/ CommitDeleteResources(r)
    \/ CommitName(r)

Next == \E r \in Req : Arrival(r) \/ Statement(r) \/ Fail(r) \/ DeadlockAbort(r)

Spec == Init /\ [][Next]_vars

\* As in AuthSessions: what can proceed does, and what is asked for concerns
\* the time after arrivals and errors have paused.
Fairness == \A r \in Req : WF_vars(Statement(r)) /\ WF_vars(DeadlockAbort(r))

Pause == <>[][\A r \in Req : ~Arrival(r) /\ ~Fail(r)]_vars

FairSpec == Spec /\ Fairness /\ Pause

-----------------------------------------------------------------------------
(* Properties.                                                             *)

\* Request r is answered with this status in the step.
Answers(r, status) ==
    /\ request[r].op # "none"
    /\ answer' = [req |-> r, status |-> status]

\* Every transaction hangs off an account that exists, and its category, if it
\* has one, exists and belongs to the owner of that account, whatever is deleted
\* while it is being written (migrations 00002 and 00004).
SoundReferences ==
    \A t \in TransactionId :
        account[t] \in Account =>
            /\ Exists(account[t])
            /\ category[t] # None => Exists(category[t]) /\ Owner[category[t]] = Owner[account[t]]

\* A user has no two accounts, and no two categories, of the same name, also
\* when creations, renames and deletions of that name overlap (unique index;
\* UpdateAccount: "do not reorder into an existence pre-check").
NamesUnique ==
    \A x, y \in Resource :
        Exists(x) /\ name[x] = name[y] /\ SameList(x, y) => x = y

\* Row level security is only the backstop: it never is the one to notice that a
\* reference belongs to somebody else.  When the policy rejects a write, a
\* referenced row has been deleted since the handler looked it up
\* (validateTransactionReferences: "RLS remains the backstop; these checks are
\* what produce the user-facing 404s").
BackstopOnlyRaces ==
    [][\A r \in Req : Answers(r, "500 policy") => \E x \in References(r) : name[x] = Gone]_vars

\* A reference that disappears between the check and the write is reported as
\* not found, never as an internal error (CreateTransaction, transactions.go:175:
\* "the race surfaces as 'account not found' rather than a generic 500").
ReferenceRacesAre404 ==
    [][\A r \in Req : ~ Answers(r, "500 policy")]_vars

\* "Transaction not found" is only answered while the user has no such
\* transaction (transactions.go:35: "either it does not exist or it hangs off an
\* account the caller does not own").
NotFoundMeansGone ==
    [][\A r \in Req :
          Answers(r, "404 transaction") => request[r].ids \cap Owned(request[r].user) = {}]_vars

\* Requests that wait for each other in a circle always include one that deletes
\* several rows (a bulk delete, or a delete that cascades) or two renames that
\* want each other's names: requests that write single transactions, and bulk
\* creations, never deadlock among themselves.
DeadlocksNeedDeletes ==
    \A S \in SUBSET Req :
        S # {} /\ (\A r \in S : WaitsFor(r) \cap S # {}) =>
            \/ \E r \in S : request[r].op \in {"bulkDeleteTransactions", "deleteResource",
                                               "bulkDeleteResources"}
            \/ \E r, q \in S : r # q /\ request[r].op = "rename" /\ request[q].op = "rename"

\* Every request takes effect as one atomic step of its user.
Atomic == INSTANCE FinanceAtomic
AtomicTables == Atomic!Spec

\* Every request is answered once others stop arriving.  Since none arrives
\* after the pause, that is to say that in the end none is open.
EveryRequestAnswered ==
    <>[](\A r \in Req : request[r].op = "none")

=============================================================================
