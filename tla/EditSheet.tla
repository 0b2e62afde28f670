----------------------------- MODULE EditSheet -----------------------------
(***************************************************************************)
(* An edit sheet: edit-account-sheet.tsx, edit-category-sheet.tsx or       *)
(* edit-transaction-sheet.tsx, with the store that holds the open row      *)
(* (use-open-*.ts), its detail query, its form, and its save and delete    *)
(* hooks.                                                                  *)
(*                                                                         *)
(* The form takes the values it starts from when it is mounted and no      *)
(* others.  The transaction sheet shows none while a list that its selects *)
(* need is loading for the first time, or again after that failed.  The    *)
(* sheet is not the only one to change a row: another tab may, and in this *)
(* one the deletion of its category or account changes a transaction, and  *)
(* invalidates the lists and not its detail (use-delete-category.ts:24).   *)
(*                                                                         *)
(* The hooks belong to the sheet, not to the row: one request at a time    *)
(* disables the form whichever row is open, and what a hook does on        *)
(* success uses the id of the row that is open by then.  Out of the        *)
(* network a request is not made until the browser is back on line.        *)
(***************************************************************************)
EXTENDS Naturals, Nothing

CONSTANTS
    Item,        \* the rows that can be opened
    Sheet,       \* which sheet: AccountSheet, CategorySheet or TransactionSheet
    MaxSaves,    \* requests of the hooks
    MaxChanges,  \* changes by other writers
    MaxOffline   \* losses of the connection

ASSUME EditAssumption ==
    /\ MaxSaves \in Nat /\ MaxChanges \in Nat /\ MaxOffline \in Nat
    /\ None \notin Item
    /\ None \notin [of : Item, from : Nat, typed : BOOLEAN, reread : BOOLEAN, unsure : BOOLEAN]

VARIABLES
    row,         \* server: the version of each row, 0 once deleted
    sheet,       \* the id in the store, or None when the sheet is closed
    detail,      \* the version of each row the cache holds, 0 if none
    outdated,    \* details marked stale
    reading,     \* each detail's fetch
    choices,     \* the lists of the selects, together: "none" if one without
                 \* data is not asked for, "loading" if one is, "loaded"
    editor,      \* the mounted form, or None
    saving,      \* the request of the hooks
    online, saves, changes, outages,
    unsure       \* rows whose detail went stale unnoticed

details == <<detail, outdated, reading, choices>>
editBounds == <<saves, changes, outages>>
evars == <<row, sheet, details, editor, saving, online, editBounds, unsure>>

-----------------------------------------------------------------------------
(* The three sheets.  allDetails: the key the save invalidates is a prefix *)
(* of the key of every detail, ['accounts'] of ['accounts', { id }]; the   *)
(* others name one row.  deletable: the form is given the id without which *)
(* it shows no delete button.  selects: it waits for the lists of them.    *)

AccountSheet == [allDetails |-> TRUE, deletable |-> TRUE, selects |-> FALSE]
CategorySheet == [allDetails |-> FALSE, deletable |-> TRUE, selects |-> FALSE]
TransactionSheet == [allDetails |-> FALSE, deletable |-> FALSE, selects |-> TRUE]

Kind == CASE Sheet = "account" -> AccountSheet
          [] Sheet = "category" -> CategorySheet
          [] Sheet = "transaction" -> TransactionSheet

-----------------------------------------------------------------------------
(* Reading.                                                                *)

NoRead == [at |-> "idle", version |-> 0]
DetailAsked == [at |-> IF online THEN "sent" ELSE "paused", version |-> 0]
Reading(rd, i) == rd[i].at \in {"sent", "answered"}

\* The form a sheet open at s shows, given the cache: none while the detail
\* or a list is loading, the one it already shows, or a new one with the values
\* of now.  reread: its detail could not be read or is being read again;
\* unsure: it went stale unnoticed, then or since.
Rendered(s, dt, od, rd, ch, un) ==
    IF s = None \/ (dt[s] = 0 /\ Reading(rd, s)) \/ ch = "loading" THEN None
    ELSE IF editor # None THEN [editor EXCEPT !.unsure = @ \/ editor.of \in un]
    ELSE [of |-> s, from |-> dt[s], typed |-> FALSE,
          reread |-> dt[s] = 0 \/ od[s], unsure |-> s \in un]

Render == editor' = Rendered(sheet', detail', outdated', reading', choices', unsure')

\* The menu of a row, or a cell of the list.
Open(i) ==
    /\ sheet = None
    /\ sheet' = i
    /\ reading' = [reading EXCEPT ![i] =
           IF ~Reading(reading, i) /\ (detail[i] = 0 \/ outdated[i]) THEN DetailAsked ELSE @]
    /\ UNCHANGED <<row, detail, outdated, choices, saving, online, editBounds, unsure>>
    /\ Render

CloseEdit ==
    /\ sheet # None
    /\ sheet' = None
    /\ UNCHANGED <<row, details, saving, online, editBounds, unsure>>
    /\ Render

\* staleTime passes.
Outdate(i) ==
    /\ detail[i] # 0 /\ ~outdated[i]
    /\ outdated' = [outdated EXCEPT ![i] = TRUE]
    /\ UNCHANGED <<row, sheet, detail, reading, choices, saving, online, editBounds, unsure, editor>>

\* The window is focused: the detail that is shown is read again if it is
\* stale, or never could be read; the open form keeps what it started from.
ReadAgain(i) ==
    /\ sheet = i
    /\ reading[i].at = "idle" /\ (detail[i] = 0 \/ outdated[i])
    /\ reading' = [reading EXCEPT ![i] = DetailAsked]
    /\ UNCHANGED <<row, sheet, detail, outdated, choices, saving, online, editBounds, unsure>>
    /\ Render

ServeRead(i) ==
    /\ reading[i].at = "sent"
    /\ reading' = [reading EXCEPT ![i] =
           IF row[i] = 0 THEN NoRead ELSE [at |-> "answered", version |-> row[i]]]
    /\ UNCHANGED <<row, sheet, detail, outdated, choices, saving, online, editBounds, unsure>>
    /\ Render

DeliverRead(i) ==
    /\ reading[i].at = "answered"
    /\ detail' = [detail EXCEPT ![i] = reading[i].version]
    /\ outdated' = [outdated EXCEPT ![i] = FALSE]
    /\ reading' = [reading EXCEPT ![i] = NoRead]
    /\ unsure' = IF reading[i].version = row[i] THEN unsure \ {i} ELSE unsure
    /\ UNCHANGED <<row, sheet, choices, saving, online, editBounds>>
    /\ Render

\* A detail that cannot be read ends the loading: the form is shown blank.
LoseRead(i) ==
    /\ Reading(reading, i)
    /\ reading' = [reading EXCEPT ![i] = NoRead]
    /\ UNCHANGED <<row, sheet, detail, outdated, choices, saving, online, editBounds, unsure>>
    /\ Render

\* The lists of the selects are asked for again once one failed (focus, or an
\* account or category was made), and come or fail.
FetchChoices ==
    /\ Kind.selects /\ choices = "none"
    /\ choices' = "loading"
    /\ UNCHANGED <<row, sheet, detail, outdated, reading, saving, online, editBounds, unsure>>
    /\ Render

ChoicesEnd ==
    /\ choices = "loading"
    /\ choices' \in {"none", "loaded"}
    /\ UNCHANGED <<row, sheet, detail, outdated, reading, saving, online, editBounds, unsure>>
    /\ Render

-----------------------------------------------------------------------------
(* Another writer: of an account or category, another tab; of a            *)
(* transaction, also a deletion of what it refers to.                      *)

OtherWrites(i) ==
    /\ row[i] # 0
    /\ changes < MaxChanges /\ changes' = changes + 1
    /\ row' \in {[row EXCEPT ![i] = v] : v \in {0, MaxSaves + 1 + changes'}}
    /\ unsure' = unsure \cup {i}
    /\ UNCHANGED <<sheet, details, saving, online, saves, outages>>
    /\ Render

-----------------------------------------------------------------------------
(* Saving and deleting.                                                    *)

NotSaving == [at |-> "idle", does |-> None, for |-> None, to |-> None, waited |-> FALSE]

\* FormEnabled, a faulty variant: `disabled` is not passed to the form.
FormEnabled == editor # None
Usable == editor # None /\ saving = NotSaving

Type ==
    /\ Usable
    /\ editor' = [editor EXCEPT !.typed = TRUE]
    /\ UNCHANGED <<row, sheet, details, saving, online, editBounds, unsure>>

Request(does) ==
    /\ saves < MaxSaves /\ saves' = saves + 1
    /\ saving' = [at |-> IF online THEN "sent" ELSE "paused", does |-> does,
                   for |-> sheet, to |-> sheet, waited |-> ~online]

SubmitEdit ==
    /\ Usable /\ saving = NotSaving
    /\ Request("edit")
    /\ editor' = [editor EXCEPT !.typed = FALSE]
    /\ UNCHANGED <<row, sheet, details, online, changes, outages, unsure>>

\* The delete button and its confirmation.
DeleteItem ==
    /\ Usable /\ saving = NotSaving
    /\ Kind.deletable
    /\ Request("delete")
    /\ editor' = [editor EXCEPT !.typed = FALSE]
    /\ UNCHANGED <<row, sheet, details, online, changes, outages, unsure>>

\* AddressedLate, a faulty variant: the id of the row open when it is served.
AddressedLate == sheet
Addressed == saving.to

ServeSave ==
    /\ saving.at = "sent" /\ Addressed # None
    /\ \/ /\ row[Addressed] # 0
          /\ row' = [row EXCEPT ![Addressed] =
                        IF saving.does = "delete" THEN 0 ELSE saves + 1]
          /\ saving' = [saving EXCEPT !.at = "made"]
       \/ /\ saving' = [saving EXCEPT !.at = "refused"]
          /\ UNCHANGED row
    /\ UNCHANGED <<sheet, details, editor, online, editBounds, unsure>>

\* The details a save invalidates: all, or that of the row open by now.
\* ListsOnly, a faulty variant: it invalidates the lists.
ListsOnly == {}
Invalidated == IF Kind.allDetails THEN Item ELSE Item \cap {sheet}

\* onSuccess of the hook, which fetches again what is shown, and then that of
\* the sheet, which closes it.  A first fetch is not begun anew.
DeliverSave ==
    /\ saving.at = "made"
    /\ saving' = NotSaving
    /\ outdated' = [i \in Item |-> outdated[i] \/ (i \in Invalidated /\ detail[i] # 0)]
    /\ reading' = [i \in Item |->
           IF i = sheet /\ i \in Invalidated /\ ~(detail[i] = 0 /\ Reading(reading, i))
             THEN DetailAsked ELSE reading[i]]
    /\ unsure' = unsure \cup
           {i \in Item : i = saving.to /\
                \/ ~Kind.allDetails /\ i # sheet
                \/ Reading(reading, i) /\ (i # sheet \/ detail[i] = 0)}
    /\ sheet' = None
    /\ UNCHANGED <<row, detail, choices, online, editBounds>>
    /\ Render

\* Refused, or lost: the sheet stays as it is.
FailSave ==
    /\ saving.at \in {"sent", "made", "refused"}
    /\ saving' = NotSaving
    /\ unsure' = IF saving.at = "made" THEN unsure \cup {saving.to} ELSE unsure
    /\ UNCHANGED <<row, sheet, details, online, editBounds>>
    /\ Render

-----------------------------------------------------------------------------
(* The connection.  What was paused is made then, with the id of then; the *)
(* save of a sheet that was closed meanwhile has no id, and fails.         *)

GoOffline ==
    /\ online /\ outages < MaxOffline
    /\ online' = FALSE /\ outages' = outages + 1
    /\ UNCHANGED <<row, sheet, details, editor, saving, saves, changes, unsure>>

GoOnline ==
    /\ ~online
    /\ online' = TRUE
    /\ reading' = [i \in Item |->
           IF reading[i].at = "paused" THEN [NoRead EXCEPT !.at = "sent"] ELSE reading[i]]
    /\ saving' = IF saving.at # "paused" THEN saving
                 ELSE IF sheet = None THEN NotSaving
                 ELSE [saving EXCEPT !.at = "sent", !.to = sheet]
    /\ UNCHANGED <<row, sheet, detail, outdated, choices, editBounds, unsure>>
    /\ Render

-----------------------------------------------------------------------------

EditInit ==
    /\ row = [i \in Item |-> 1]
    /\ sheet = None
    /\ detail = [i \in Item |-> 0]
    /\ outdated = [i \in Item |-> FALSE]
    /\ reading = [i \in Item |-> NoRead]
    /\ choices = IF Kind.selects THEN "loading" ELSE "loaded"
    /\ editor = None
    /\ saving = NotSaving
    /\ online = TRUE /\ saves = 0 /\ changes = 0 /\ outages = 0
    /\ unsure = {}

EditNext ==
    \/ \E i \in Item : Open(i) \/ Outdate(i) \/ ReadAgain(i) \/ OtherWrites(i)
    \/ \E i \in Item : ServeRead(i) \/ DeliverRead(i) \/ LoseRead(i)
    \/ FetchChoices \/ ChoicesEnd
    \/ CloseEdit \/ Type \/ SubmitEdit \/ DeleteItem
    \/ ServeSave \/ DeliverSave \/ FailSave
    \/ GoOffline \/ GoOnline

EditSpec == EditInit /\ [][EditNext]_evars

-----------------------------------------------------------------------------
(* Properties.                                                             *)

Version == 0..MaxSaves + 1 + MaxChanges

\* The type of every variable.
EditTypeOK ==
    /\ row \in [Item -> Version] /\ detail \in [Item -> Version]
    /\ sheet \in Item \cup {None}
    /\ outdated \in [Item -> BOOLEAN]
    /\ reading \in [Item -> [at : {"idle", "paused", "sent", "answered"}, version : Version]]
    /\ editor \in {None} \cup [of : Item, from : Version, typed : BOOLEAN, reread : BOOLEAN,
                                 unsure : BOOLEAN]
    /\ saving \in [at : {"idle", "paused", "sent", "made", "refused"},
                   does : {"edit", "delete", None},
                   for : Item \cup {None}, to : Item \cup {None}, waited : BOOLEAN]
    /\ online \in BOOLEAN
    /\ choices \in {"none", "loading", "loaded"}
    /\ saves \in 0..MaxSaves /\ changes \in 0..MaxChanges /\ outages \in 0..MaxOffline
    /\ unsure \subseteq Item

\* A form that starts from other values than the row's, which a save would
\* write back over them, does so for one of these reasons: the detail was
\* being read again or could not be read; a save of the row is under way; or
\* the row changed and its detail was not invalidated, because the answer of
\* the save was lost, or came while another row, or none, was open, or because
\* the change was another writer's.
StaleFormExplained ==
    editor # None /\ editor.from # row[editor.of] =>
        \/ editor.reread \/ editor.unsure
        \/ saving.at = "made" /\ saving.to = editor.of

\* A form in which the user has typed since it was submitted goes only because
\* the user closes it, or because what could not be read, its detail or a list
\* of its selects, is read again (edit-transaction-sheet.tsx:75): the success
\* of an earlier save, which closes whatever row is open, cannot meet one.
NothingTypedIsDiscarded ==
    [][editor # None /\ editor.typed /\ editor' = None =>
          \/ sheet' = None /\ UNCHANGED saving
          \/ sheet' = sheet /\ detail[sheet] = 0 /\ reading[sheet].at \in {"idle", "paused"}
          \/ sheet' = sheet /\ choices = "none" /\ choices' = "loading"]_evars

\* A save writes what was typed for a row to that row, unless it waited for the
\* connection and another row was open by then (use-edit-transaction.ts:19).
SaveLandsOnItsRow ==
    [][\A i \in Item : row'[i] # row[i] /\ saving' # saving =>
          saving.for = i \/ (saving.waited /\ saving.to = i)]_evars
=============================================================================
