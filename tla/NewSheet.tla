------------------------------ MODULE NewSheet ------------------------------
(***************************************************************************)
(* The sheet for a new transaction (new-transaction-sheet.tsx), from whose *)
(* account select a new account can be made without leaving it             *)
(* (components/select.tsx).  The category select is made alike, and the    *)
(* sheets for a new account or category are this one without the selects.  *)
(*                                                                         *)
(* The hooks belong to the sheet, which is always mounted; the form and    *)
(* its selects to one opening of it, and while a list that the selects     *)
(* need is loading for the first time, or again after that failed, the     *)
(* open sheet shows no form.  An answer may come to a form that is gone,   *)
(* while another one is shown.                                             *)
(***************************************************************************)
EXTENDS Naturals, Nothing

CONSTANTS
    MaxAccounts,   \* accounts made; account 0 is there at first
    MaxForms,      \* forms that are mounted
    MaxFiles       \* submissions

ASSUME NewAssumption ==
    /\ MaxAccounts \in Nat /\ MaxForms \in Nat /\ MaxFiles \in Nat
    /\ None \notin Nat
    /\ None \notin [no : Nat, account : Nat \cup {None}, created : Nat \cup {None},
                    asked : SUBSET Nat, typed : BOOLEAN]

VARIABLES
    accounts,   \* server: how many accounts were made
    deleted,    \* server: the accounts deleted, from another page or tab
    filed,      \* server: the account of each transaction stored, by submission
    opened,     \* useNewTransaction's isOpen
    entry,      \* the mounted form, or None
    lists,      \* the queries of the lists: "none" has no data and is not asked
                \* for, "loading" has none and is, "loaded" has some
    options,    \* the accounts the cached list has
    making,     \* the request of useCreateAccount
    filing,     \* the request of useCreateTransaction
    forms, files

ledger == <<accounts, deleted, filed>>
queried == <<lists, options>>
newvars == <<ledger, opened, entry, queried, making, filing, forms, files>>

-----------------------------------------------------------------------------

AccountId == 0..MaxAccounts
NotMaking == [at |-> "idle", by |-> 0, id |-> 0]
NotFiling == [at |-> "idle", account |-> 0]
Existing == (0..accounts) \ deleted

AnyList == {"accounts", "categories"}
IsLoading(ls) == \E l \in AnyList : ls[l] = "loading"

\* isPending, which disables the form and its selects.
\* FilingOnly, a faulty variant: it forgets the hook of the select.
FilingOnly == filing # NotFiling
IsPending == making # NotMaking \/ filing # NotFiling
NewEnabled == entry # None /\ ~IsPending

\* mergeCreatedSelectOption: the list may not have the new account yet.
\* ListOnly, a faulty variant: only what the list has is shown.
ListOnly(form) == options
MergedOptions(form) == options \cup ({form.created} \ {None})

-----------------------------------------------------------------------------
(* The sheet.                                                              *)

EmptyForm(n) == [no |-> n, account |-> None, created |-> None, asked |-> {}, typed |-> FALSE]

\* What the sheet shows after a step that opens or closes it or changes its
\* lists: no form while one is loading, the one that is there, or a new one.
Shown ==
    IF ~opened' \/ IsLoading(lists') THEN entry' = None /\ UNCHANGED forms
    ELSE IF entry # None THEN UNCHANGED <<entry, forms>>
    ELSE forms < MaxForms /\ forms' = forms + 1 /\ entry' = EmptyForm(forms + 1)

OpenSheet ==
    /\ ~opened /\ opened' = TRUE
    /\ UNCHANGED <<ledger, queried, making, filing, files>>
    /\ Shown

CloseSheet ==
    /\ opened /\ opened' = FALSE
    /\ UNCHANGED <<ledger, queried, making, filing, files>>
    /\ Shown

\* The payee, the amount, the notes.
Fill ==
    /\ NewEnabled
    /\ entry' = [entry EXCEPT !.typed = TRUE]
    /\ UNCHANGED <<ledger, opened, queried, making, filing, forms, files>>

\* asked: the accounts this form's user chose or had made.
Choose(a) ==
    /\ NewEnabled /\ a \in MergedOptions(entry)
    /\ entry' = [entry EXCEPT !.account = a, !.asked = @ \cup {a}, !.typed = TRUE]
    /\ UNCHANGED <<ledger, opened, queried, making, filing, forms, files>>

\* onCreateOption, up to its await.
OnCreateOption ==
    /\ NewEnabled
    /\ accounts < MaxAccounts
    /\ making' = [at |-> "sent", by |-> entry.no, id |-> 0]
    /\ entry' = [entry EXCEPT !.typed = TRUE]
    /\ UNCHANGED <<ledger, opened, queried, filing, forms, files>>

ServeAccount ==
    /\ making.at = "sent"
    /\ \/ /\ accounts' = accounts + 1
          /\ making' = [making EXCEPT !.at = "made", !.id = accounts + 1]
       \/ /\ making' = [making EXCEPT !.at = "refused"]
          /\ UNCHANGED accounts
    /\ UNCHANGED <<deleted, filed, opened, entry, queried, filing, forms, files>>

\* The promise belongs to the select, and the form, that awaited it.
\* AnyForm, a faulty variant: the answer goes to the form that is open.
AnyForm(form) == form # None
Awaiting(form) == form # None /\ form.no = making.by

DeliverAccount ==
    /\ making.at = "made"
    /\ making' = NotMaking
    /\ entry' = IF Awaiting(entry)
                THEN [entry EXCEPT !.account = making.id, !.created = making.id,
                          !.asked = IF making.by = entry.no THEN @ \cup {making.id} ELSE @]
                ELSE entry
    /\ UNCHANGED <<ledger, opened, queried, filing, forms, files>>

\* Refused or lost: mutateAsync rejects, and nothing is chosen.
FailAccount ==
    /\ making.at \in {"sent", "made", "refused"}
    /\ making' = NotMaking
    /\ UNCHANGED <<ledger, opened, entry, queried, filing, forms, files>>

\* An account is deleted, by another page or tab.
DeleteElsewhere(a) ==
    /\ a \in Existing
    /\ deleted' = deleted \cup {a}
    /\ UNCHANGED <<accounts, filed, opened, entry, queried, making, filing, forms, files>>

-----------------------------------------------------------------------------
(* useGetAccounts and useGetCategories.                                    *)

\* A list without data is asked for again, when the window is focused or since
\* an account was made.
FetchList(l) ==
    /\ lists[l] = "none"
    /\ lists' = [lists EXCEPT ![l] = "loading"]
    /\ UNCHANGED <<ledger, options, opened, making, filing, files>>
    /\ Shown

\* ListArrives: for the first time, or refreshed.
ListArrives(l) ==
    /\ lists[l] # "none"
    /\ lists' = [lists EXCEPT ![l] = "loaded"]
    /\ options' = IF l = "accounts" THEN Existing ELSE options
    /\ UNCHANGED <<ledger, opened, making, filing, files>>
    /\ Shown

\* Out of retries: the form is shown, with nothing to choose.
ListFails(l) ==
    /\ lists[l] = "loading"
    /\ lists' = [lists EXCEPT ![l] = "none"]
    /\ UNCHANGED <<ledger, options, opened, making, filing, files>>
    /\ Shown

-----------------------------------------------------------------------------
(* Submitting.                                                             *)

SubmitNew ==
    /\ NewEnabled /\ entry.account # None
    /\ files < MaxFiles /\ files' = files + 1
    /\ filing' = [at |-> "sent", account |-> entry.account]
    /\ entry' = [entry EXCEPT !.typed = FALSE]
    /\ UNCHANGED <<ledger, opened, queried, making, forms>>

ServeTransaction ==
    /\ filing.at = "sent"
    /\ \/ /\ filing.account \notin deleted
          /\ filed' = [filed EXCEPT ![files] = filing.account]
          /\ filing' = [filing EXCEPT !.at = "made"]
       \/ /\ filing' = [filing EXCEPT !.at = "refused"]
          /\ UNCHANGED filed
    /\ UNCHANGED <<accounts, deleted, opened, entry, queried, making, forms, files>>

\* onSuccess closes the sheet, whichever form is open.
DeliverTransaction ==
    /\ filing.at = "made"
    /\ filing' = NotFiling
    /\ opened' = FALSE
    /\ UNCHANGED <<ledger, queried, making, files>>
    /\ Shown

FailTransaction ==
    /\ filing.at \in {"sent", "made", "refused"}
    /\ filing' = NotFiling
    /\ UNCHANGED <<ledger, opened, entry, queried, making, forms, files>>

-----------------------------------------------------------------------------

NewInit ==
    /\ accounts = 0 /\ deleted = {} /\ filed = [f \in 1..MaxFiles |-> None]
    /\ opened = FALSE /\ entry = None
    /\ lists = [l \in AnyList |-> "loading"] /\ options = {}
    /\ making = NotMaking /\ filing = NotFiling
    /\ forms = 0 /\ files = 0

NewNext ==
    \/ OpenSheet \/ CloseSheet \/ Fill \/ \E a \in AccountId : Choose(a)
    \/ OnCreateOption \/ ServeAccount \/ DeliverAccount \/ FailAccount
    \/ \E a \in AccountId : DeleteElsewhere(a)
    \/ \E l \in AnyList : FetchList(l) \/ ListArrives(l) \/ ListFails(l)
    \/ SubmitNew \/ ServeTransaction \/ DeliverTransaction \/ FailTransaction

NewSpec == NewInit /\ [][NewNext]_newvars

-----------------------------------------------------------------------------
(* Properties.                                                             *)

\* The type of every variable.
NewTypeOK ==
    /\ accounts \in AccountId /\ deleted \subseteq AccountId /\ options \subseteq AccountId
    /\ lists \in [AnyList -> {"none", "loading", "loaded"}]
    /\ filed \in [1..MaxFiles -> AccountId \cup {None}]
    /\ opened \in BOOLEAN /\ (entry # None) = (opened /\ ~IsLoading(lists))
    /\ entry \in {None} \cup
           [no : 1..MaxForms, account : AccountId \cup {None}, created : AccountId \cup {None},
            asked : SUBSET AccountId, typed : BOOLEAN]
    /\ making \in [at : {"idle", "sent", "made", "refused"}, by : 0..MaxForms, id : AccountId]
    /\ filing \in [at : {"idle", "sent", "made", "refused"}, account : AccountId]
    /\ forms \in 0..MaxForms /\ files \in 0..MaxFiles

\* The select shows the account that would be submitted, also one just made
\* that the list does not have yet, unless it was deleted since, and it is one
\* that the user of this form chose or had made: an account made for a form
\* that is gone does not turn up in the next one (select.tsx:38).
ChoiceIsShown ==
    entry # None /\ entry.account # None =>
        /\ entry.account \in entry.asked
        /\ entry.account \in MergedOptions(entry) \cup deleted

\* A list that failed is being loaded again, which hides the form.
LoadsAgain == \E l \in AnyList : lists[l] = "none" /\ lists'[l] = "loading"

\* A form in which something was typed since it was submitted goes only
\* because its user closes the sheet, or because a list that could not be read
\* is read again (new-transaction-sheet.tsx:72), never by the success of an
\* earlier submission (57); and an account that is being made for it is not
\* overtaken by its submission.
NothingUnsavedIsLost ==
    [][/\ entry # None /\ entry.typed /\ entry' # entry /\ (entry' = None \/ entry'.no # entry.no) =>
             \/ opened /\ ~opened' /\ UNCHANGED <<making, filing>>
             \/ opened' /\ LoadsAgain
       /\ files' # files => making = NotMaking]_newvars
=============================================================================
