----------------------------- MODULE QueryCache -----------------------------
(***************************************************************************)
(* The lists the dashboard caches (use-get-*.ts, use-get-summary.ts) and   *)
(* the changes its hooks make: each posts one request and, on success,     *)
(* invalidates lists by the prefix of their key.                           *)
(*                                                                         *)
(* The cache is TanStack Query's, as these hooks use it: a list is fetched *)
(* when a mounted page needs it and it is missing or stale; invalidating   *)
(* marks it stale and restarts its fetch, but only if a page shows it, and *)
(* never the fetch that brings its first data; a fetch that succeeds makes *)
(* it fresh, whatever it was asked for before.                             *)
(***************************************************************************)
EXTENDS Naturals, Nothing

CONSTANTS
    List,        \* of "accounts", "categories", "transactions", "summary"
    Change,      \* the hooks that are used, each at most once
    Path         \* the pages there are to go to

VARIABLES
    version,     \* server: how often what a list shows was changed
    cached,      \* the version each list is cached at, or None
    stale,       \* lists marked stale: invalidated, or older than staleTime
    fetching,    \* each list's fetch
    showing,     \* the page that is mounted
    change,      \* each hook's request
    excused      \* lists that went stale unnoticed, and why

cvars == <<version, cached, stale, fetching, showing, change, excused>>

-----------------------------------------------------------------------------
(* The hooks: which lists the request of each changes, by the API's        *)
(* statements and foreign keys, and which lists its success invalidates.   *)

Ledger == {"transactions", "summary"}

UseCreateAccount == [affects |-> {"accounts"}, invalidates |-> {"accounts"}]
\* ForgottenNames, a faulty variant: a rename that refreshes its own list.
ForgottenNames == [affects |-> {"accounts", "transactions"}, invalidates |-> {"accounts"}]
UseEditAccount ==
    [affects |-> {"accounts", "transactions"}, invalidates |-> {"accounts"} \cup Ledger]
UseDeleteAccount ==
    [affects |-> {"accounts"} \cup Ledger, invalidates |-> {"accounts"} \cup Ledger]
UseBulkDeleteAccounts ==
    [affects |-> {"accounts"} \cup Ledger, invalidates |-> {"accounts", "summary"}]

UseCreateCategory == [affects |-> {"categories"}, invalidates |-> {"categories"}]
UseEditCategory ==
    [affects |-> {"categories"} \cup Ledger, invalidates |-> {"categories"} \cup Ledger]
UseDeleteCategory ==
    [affects |-> {"categories"} \cup Ledger, invalidates |-> {"categories"} \cup Ledger]
UseBulkDeleteCategories ==
    [affects |-> {"categories"} \cup Ledger, invalidates |-> {"categories", "summary"}]

UseCreateTransaction == [affects |-> Ledger, invalidates |-> Ledger]
UseBulkCreateTransactions == [affects |-> Ledger, invalidates |-> Ledger]
UseEditTransaction == [affects |-> Ledger, invalidates |-> Ledger]
UseDeleteTransaction == [affects |-> Ledger, invalidates |-> Ledger]
UseBulkDeleteTransactions == [affects |-> Ledger, invalidates |-> Ledger]

Hook ==
    [useCreateAccount |-> UseCreateAccount, useEditAccount |-> UseEditAccount,
     useDeleteAccount |-> UseDeleteAccount, useBulkDeleteAccounts |-> UseBulkDeleteAccounts,
     useCreateCategory |-> UseCreateCategory, useEditCategory |-> UseEditCategory,
     useDeleteCategory |-> UseDeleteCategory,
     useBulkDeleteCategories |-> UseBulkDeleteCategories,
     useCreateTransaction |-> UseCreateTransaction,
     useBulkCreateTransactions |-> UseBulkCreateTransactions,
     useEditTransaction |-> UseEditTransaction, useDeleteTransaction |-> UseDeleteTransaction,
     useBulkDeleteTransactions |-> UseBulkDeleteTransactions]

Affects(c) == Hook[c].affects
Invalidates(c) == Hook[c].invalidates

ASSUME CacheAssumption == Change \subseteq DOMAIN Hook /\ None \notin Nat

-----------------------------------------------------------------------------
(* Queries.  The sheets, mounted on every page, use the two short lists.   *)

ShownOn(p) ==
    {"accounts", "categories"} \cup
        CASE p = "/" -> {"summary"} [] p = "/transactions" -> {"transactions"} [] OTHER -> {}

Observed(l) == l \in ShownOn(showing)

NoFetch == [at |-> "idle"]
FetchFailed == [at |-> "failed"]
FetchSent == [at |-> "sent"]
Fetched(v) == [at |-> "answered", version |-> v]
Fetching(l) == fetching[l].at \in {"sent", "answered"}

\* A list that a page starts to show is fetched if it has to be.
Needed(l) == (cached[l] = None \/ stale[l]) /\ ~Fetching(l)

GoTo(p) ==
    /\ showing # p
    /\ showing' = p
    /\ fetching' = [l \in List |->
           IF l \in ShownOn(p) \ ShownOn(showing) /\ Needed(l) THEN FetchSent ELSE fetching[l]]
    /\ UNCHANGED <<version, cached, stale, change, excused>>

\* The window gets the focus back.
Focus ==
    /\ fetching' = [l \in List |-> IF Observed(l) /\ Needed(l) THEN FetchSent ELSE fetching[l]]
    /\ UNCHANGED <<version, cached, stale, showing, change, excused>>

\* staleTime passes.
Age(l) ==
    /\ cached[l] # None
    /\ stale' = [stale EXCEPT ![l] = TRUE]
    /\ UNCHANGED <<version, cached, fetching, showing, change, excused>>

ServeFetch(l) ==
    /\ fetching[l].at = "sent"
    /\ fetching' = [fetching EXCEPT ![l] = Fetched(version[l])]
    /\ UNCHANGED <<version, cached, stale, showing, change, excused>>

DeliverFetch(l) ==
    /\ fetching[l].at = "answered"
    /\ cached' = [cached EXCEPT ![l] = fetching[l].version]
    /\ stale' = [stale EXCEPT ![l] = FALSE]
    /\ fetching' = [fetching EXCEPT ![l] = NoFetch]
    /\ excused' = {e \in excused : e[1] # l \/ fetching[l].version # version[l]}
    /\ UNCHANGED <<version, showing, change>>

\* Every retry of the fetch failed.
LoseFetch(l) ==
    /\ Fetching(l)
    /\ fetching' = [fetching EXCEPT ![l] = FetchFailed]
    /\ UNCHANGED <<version, cached, stale, showing, change, excused>>

-----------------------------------------------------------------------------
(* Changes.                                                                *)

Mutate(c) ==
    /\ change[c] = "idle"
    /\ change' = [change EXCEPT ![c] = "sent"]
    /\ UNCHANGED <<version, cached, stale, fetching, showing, excused>>

ServeChange(c) ==
    /\ change[c] = "sent"
    /\ version' = [l \in List |-> IF l \in Affects(c) THEN version[l] + 1 ELSE version[l]]
    /\ change' = [change EXCEPT ![c] = "answered"]
    /\ UNCHANGED <<cached, stale, fetching, showing, excused>>

\* Restarted: the fetches an invalidation of the lists L begins anew.
\* MarkOnly, a faulty variant: the shown lists are not fetched.
MarkOnly(L) == {}
Restarted(L) == {l \in L \cap List : Observed(l) /\ (Fetching(l) => cached[l] # None)}

\* Raced: a fetch that goes on although the list it brings was invalidated.
Raced(L) == {l \in L \cap List : Fetching(l)} \ Restarted(L)

\* onSuccess.
Succeed(c) ==
    LET L == Invalidates(c) IN
    /\ change[c] = "answered"
    /\ change' = [change EXCEPT ![c] = "done"]
    /\ stale' = [l \in List |-> stale[l] \/ (l \in L /\ cached[l] # None)]
    /\ fetching' = [l \in List |-> IF l \in Restarted(L) THEN FetchSent ELSE fetching[l]]
    /\ excused' = excused
          \cup {<<l, "raced">> : l \in Raced(L)}
          \cup IF c \in {"useBulkDeleteAccounts", "useBulkDeleteCategories"}
                 THEN ({"transactions"} \cap List) \X {"not invalidated"} ELSE {}
    /\ UNCHANGED <<version, cached, showing>>

\* onError: refused, or lost before or after it was served.
Fail(c) ==
    /\ change[c] \in {"sent", "answered"}
    /\ change' = [change EXCEPT ![c] = "failed"]
    /\ excused' = excused \cup
          {<<l, "lost">> : l \in {k \in List \cap Affects(c) : change[c] = "answered"}}
    /\ UNCHANGED <<version, cached, stale, fetching, showing>>

-----------------------------------------------------------------------------

\* A page was just loaded.
CacheInit ==
    /\ version = [l \in List |-> 0]
    /\ cached = [l \in List |-> None]
    /\ stale = [l \in List |-> FALSE]
    /\ showing \in Path
    /\ fetching = [l \in List |-> IF Observed(l) THEN FetchSent ELSE NoFetch]
    /\ change = [c \in Change |-> "idle"]
    /\ excused = {}

CacheNext ==
    \/ \E p \in Path : GoTo(p)
    \/ Focus
    \/ \E l \in List : Age(l) \/ ServeFetch(l) \/ DeliverFetch(l) \/ LoseFetch(l)
    \/ \E c \in Change : Mutate(c) \/ ServeChange(c) \/ Succeed(c) \/ Fail(c)

CacheSpec == CacheInit /\ [][CacheNext]_cvars

CacheFairSpec ==
    /\ CacheSpec
    /\ \A l \in List : WF_cvars(ServeFetch(l)) /\ WF_cvars(DeliverFetch(l))

-----------------------------------------------------------------------------
(* Properties.                                                             *)

Reasons == List \X {"raced", "lost", "not invalidated"}

\* The type of every variable.
CacheTypeOK ==
    /\ version \in [List -> Nat]
    /\ cached \in [List -> Nat \cup {None}]
    /\ stale \in [List -> BOOLEAN]
    /\ fetching \in
          [List -> {NoFetch, FetchFailed, FetchSent} \cup [at : {"answered"}, version : Nat]]
    /\ showing \in Path
    /\ change \in [Change -> {"idle", "sent", "answered", "done", "failed"}]
    /\ excused \subseteq Reasons

\* A list that passes for fresh shows what the server has, unless the answer
\* to a change is still to come, or one of three gaps left it so: the answer
\* of a change was lost after it was served; a fetch of the list was under
\* way and was not restarted; the bulk delete of accounts or of categories,
\* which takes transactions along and does not invalidate their list
\* (use-bulk-delete-accounts.ts:22).
StaleExplained ==
    \A l \in DOMAIN cached :
        cached[l] # None /\ ~stale[l] /\ cached[l] # version[l] =>
            \/ \E c \in DOMAIN change : change[c] = "answered" /\ l \in Affects(c)
            \/ \E e \in excused : e[1] = l

\* After a change that was reported as made, a page that shows a list the
\* change touched comes to show it as it is now, unless its fetch fails, one
\* of those gaps opens or the user leaves.
Touched(l) == Observed(l) /\ \E c \in Change : change[c] = "done" /\ l \in Affects(c)
CaughtUp(l) ==
    \/ cached[l] = version[l]
    \/ ~Observed(l) \/ fetching[l] = FetchFailed
    \/ \E e \in excused : e[1] = l
    \/ \E d \in Change : change[d] = "answered"
ListsCatchUp == \A l \in List : Touched(l) ~> CaughtUp(l)
=============================================================================
