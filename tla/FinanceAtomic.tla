--------------------------- MODULE FinanceAtomic ---------------------------
(***************************************************************************)
(* What the owned-resource endpoints promise, with no concurrency in it:   *)
(* every request that changes anything is one atomic step of its user on   *)
(* the accounts, categories and transactions that user owns.  Finance      *)
(* implements it.                                                          *)
(***************************************************************************)
EXTENDS Naturals, FiniteSets

CONSTANTS User, Account, Category, TransactionId, Name, Owner,
          InitialName, InitialAccount, InitialCategory, None, Gone

VARIABLES name, account, category

vars == <<name, account, category>>

Resource == Account \cup Category

Init ==
    /\ name = InitialName
    /\ account = InitialAccount
    /\ category = InitialCategory

Visible(u) == {x \in Resource : name[x] \in Name /\ Owner[x] = u}

Owned(u) == {t \in TransactionId : account[t] \in Visible(u)}

\* The rows of ids get an account and, or not, a category of user u.
Write(u, ids) ==
    /\ account' \in [TransactionId -> Account \cup {None, Gone}]
    /\ category' \in [TransactionId -> Category \cup {None}]
    /\ \A t \in ids : /\ account'[t] \in Visible(u)
                      /\ category'[t] \in Visible(u) \cup {None}
    /\ \A t \in TransactionId \ ids :
         account'[t] = account[t] /\ category'[t] = category[t]
    /\ UNCHANGED name

Create(u, ids) == (\A t \in ids : account[t] = None) /\ Write(u, ids)

Update(u, t) == t \in Owned(u) /\ Write(u, {t})

Delete(u, ids) ==
    /\ ids \subseteq Owned(u)
    /\ account' = [t \in TransactionId |-> IF t \in ids THEN Gone ELSE account[t]]
    /\ category' = [t \in TransactionId |-> IF t \in ids THEN None ELSE category[t]]
    /\ UNCHANGED name

\* With an account go its transactions; those of a category lose it.
DeleteResources(u, xs) ==
    /\ xs \subseteq Visible(u)
    /\ name' = [x \in Resource |-> IF x \in xs THEN Gone ELSE name[x]]
    /\ account' = [t \in TransactionId |-> IF account[t] \in xs THEN Gone ELSE account[t]]
    /\ category' = [t \in TransactionId |->
                      IF account[t] \in xs \/ category[t] \in xs THEN None ELSE category[t]]

\* x, new or existing, is called n; nothing else of u's in its list is.
SetName(u, x, n) ==
    /\ Owner[x] = u
    /\ name[x] # Gone
    /\ \A y \in Resource \ {x} :
         Owner[y] = u /\ (x \in Account <=> y \in Account) => name[y] # n
    /\ name' = [name EXCEPT ![x] = n]
    /\ UNCHANGED <<account, category>>

Next ==
    \E u \in User :
      \/ \E ids \in SUBSET TransactionId : Create(u, ids) \/ Delete(u, ids)
      \/ \E t \in TransactionId : Update(u, t)
      \/ \E xs \in (SUBSET Account) \cup (SUBSET Category) : DeleteResources(u, xs)
      \/ \E x \in Resource, n \in Name : SetName(u, x, n)

Spec == Init /\ [][Next]_vars

=============================================================================
