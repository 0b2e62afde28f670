----------------------------- MODULE Dashboard -----------------------------
(***************************************************************************)
(* The dashboard's own components, which share no state: its cached lists, *)
(* the table, the sheets to edit and to add, the filters of the header,    *)
(* and the dates of the forms.  Each is a module with a specification of   *)
(* its own; here are the properties that speak of forms of two kinds.      *)
(***************************************************************************)
EXTENDS QueryCache, DataTable, EditSheet, NewSheet, DateFilter, TransactionDates

\* A form starts from the row as it is, and its selects show what it would
\* submit, or there is a known reason (edit-transaction-sheet.tsx,
\* select.tsx:38).
FormsShowTheTruth == StaleFormExplained /\ ChoiceIsShown

\* The success of an earlier request, which closes whatever sheet is open,
\* takes nothing with it that was typed since (edit-account-sheet.tsx:38,
\* new-transaction-sheet.tsx:57).
FormsKeepWhatIsTyped == NothingTypedIsDiscarded /\ NothingUnsavedIsLost

\* What was typed for a row, and the day that was meant, is what is written
\* (use-edit-transaction.ts:19, transaction-date.ts:8).
SavesAreMeant == SaveLandsOnItsRow /\ DayKept
=============================================================================
