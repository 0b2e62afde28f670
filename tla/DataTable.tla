----------------------------- MODULE DataTable -----------------------------
(***************************************************************************)
(* A list page and its table (components/data-table.tsx), with the two     *)
(* ways to delete: the button for the ticked rows and the menu of a row    *)
(* (actions.tsx), each behind a dialog (use-confirm.tsx).                  *)
(*                                                                         *)
(* The table keys its rows by their position in the list, so that ticks    *)
(* and open dialogs belong to positions; the list is refreshed under them  *)
(* when it changes.  Rows are numbered in the order of the list.           *)
(***************************************************************************)
EXTENDS Naturals, FiniteSets

CONSTANTS
    Row,         \* the rows there may be, a set of numbers
    FirstRows,   \* the rows at first
    Matching,    \* the rows that match the filter, when one is typed
    MaxOthers    \* changes from elsewhere: a sheet, another tab

ASSUME TableAssumption == FirstRows \subseteq Row /\ MaxOthers \in Nat

VARIABLES
    inTable,     \* server: the rows
    listed,      \* the rows the table shows
    ticked,      \* rowSelection: positions
    filtering,   \* whether a filter is typed
    dialog,      \* the open dialog: over nothing, the ticked rows, or a position
    deletion,    \* the requests of the button and of a row's menu
    meant,       \* the rows the user ticked, and the row whose menu was used
    moved,       \* whether a choice came to lie on another row
    others

tvars == <<inTable, listed, ticked, filtering, dialog, deletion, meant, moved, others>>

-----------------------------------------------------------------------------

Ways == {"button", "menu"}
Position == 1..Cardinality(Row)

\* The row at position i of the rows R.
At(R, i) == {r \in R : Cardinality({s \in R : s <= r}) = i}

Visible(R) == IF filtering THEN R \cap Matching ELSE R

\* getFilteredSelectedRowModel
FilteredSelected == Visible(UNION {At(listed, i) : i \in ticked})

NoDialog == [over |-> "nothing", at |-> 0]
NoDeletion == [at |-> "idle", ids |-> {}]

\* toggleSelected
Tick(i) ==
    /\ dialog = NoDialog
    /\ Visible(At(listed, i)) # {}
    /\ IF i \in ticked
         THEN /\ ticked' = ticked \ {i}
              /\ meant' = [meant EXCEPT !["button"] = @ \ At(listed, i)]
         ELSE /\ ticked' = ticked \cup {i}
              /\ meant' = [meant EXCEPT !["button"] = @ \cup At(listed, i)]
    /\ UNCHANGED <<inTable, listed, filtering, dialog, deletion, moved, others>>

Filter ==
    /\ dialog = NoDialog
    /\ filtering' = ~filtering
    /\ UNCHANGED <<inTable, listed, ticked, dialog, deletion, meant, moved, others>>

-----------------------------------------------------------------------------
(* useConfirm: a modal dialog that resolves the promise the caller awaits. *)

AskForTicked ==
    /\ dialog = NoDialog
    /\ FilteredSelected # {} /\ deletion["button"] = NoDeletion
    /\ dialog' = [over |-> "ticks", at |-> 0]
    /\ UNCHANGED <<inTable, listed, ticked, filtering, deletion, meant, moved, others>>

AskForRow(i) ==
    /\ dialog = NoDialog
    /\ Visible(At(listed, i)) # {} /\ deletion["menu"] = NoDeletion
    /\ dialog' = [over |-> "row", at |-> i]
    /\ meant' = [meant EXCEPT !["menu"] = At(listed, i)]
    /\ UNCHANGED <<inTable, listed, ticked, filtering, deletion, moved, others>>

Cancel ==
    /\ dialog # NoDialog
    /\ dialog' = NoDialog
    /\ meant' = [meant EXCEPT !["menu"] = {}]
    /\ moved' = (moved /\ ticked # {})
    /\ UNCHANGED <<inTable, listed, ticked, filtering, deletion, others>>

DeleteRows(way, ids) == deletion' = [deletion EXCEPT ![way] = [at |-> "sent", ids |-> ids]]

\* TicksKept, a faulty variant: the rows stay ticked once they are deleted.
TicksKept ==
    /\ DeleteRows("button", FilteredSelected)
    /\ UNCHANGED ticked
    /\ meant' = [meant EXCEPT !["button"] = {}]
    /\ moved' = FALSE

\* The rows are read when the dialog is confirmed.
DeleteTicked ==
    /\ DeleteRows("button", FilteredSelected)
    /\ ticked' = {}
    /\ meant' = [meant EXCEPT !["button"] = {}]
    /\ moved' = FALSE

\* The menu's hook is given the id its position has by then; if the position
\* is gone the dialog is gone with it.
DeleteRow ==
    /\ At(listed, dialog.at) # {}
    /\ DeleteRows("menu", At(listed, dialog.at))
    /\ meant' = [meant EXCEPT !["menu"] = {}]
    /\ moved' = (moved /\ ticked # {})
    /\ UNCHANGED ticked

Confirm ==
    /\ dialog # NoDialog
    /\ IF dialog.over = "ticks" THEN DeleteTicked ELSE DeleteRow
    /\ dialog' = NoDialog
    /\ UNCHANGED <<inTable, listed, filtering, others>>

-----------------------------------------------------------------------------
(* The server, and the list as the cache brings it (QueryCache).           *)

\* Rows of others and rows already gone are skipped (bulk) or a 404 (menu).
ServeDeletion(way) ==
    /\ deletion[way].at = "sent"
    /\ inTable' = inTable \ deletion[way].ids
    /\ deletion' = [deletion EXCEPT ![way].at = "answered"]
    /\ UNCHANGED <<listed, ticked, filtering, dialog, meant, moved, others>>

\* The request ends, with an answer or without.
SettleDeletion(way) ==
    /\ deletion[way].at # "idle"
    /\ deletion' = [deletion EXCEPT ![way] = NoDeletion]
    /\ UNCHANGED <<inTable, listed, ticked, filtering, dialog, meant, moved, others>>

\* The positions a choice rests on.
Held == ticked \cup (IF dialog.over = "row" THEN {dialog.at} ELSE {})

\* The dialog of a row's menu closes with the last row it can belong to.
Refresh ==
    /\ listed # inTable
    /\ listed' = inTable
    /\ moved' = (moved \/ \E i \in Held : At(listed, i) # At(inTable, i))
    /\ dialog' = IF dialog.over = "row" /\ At(inTable, dialog.at) = {} THEN NoDialog ELSE dialog
    /\ UNCHANGED <<inTable, ticked, filtering, deletion, meant, others>>

ChangeElsewhere(r) ==
    /\ others < MaxOthers /\ others' = others + 1
    /\ inTable' = IF r \in inTable THEN inTable \ {r} ELSE inTable \cup {r}
    /\ UNCHANGED <<listed, ticked, filtering, dialog, deletion, meant, moved>>

-----------------------------------------------------------------------------

TableInit ==
    /\ inTable = FirstRows /\ listed = FirstRows
    /\ ticked = {} /\ filtering = FALSE /\ dialog = NoDialog
    /\ deletion = [w \in Ways |-> NoDeletion]
    /\ meant = [w \in Ways |-> {}]
    /\ moved = FALSE /\ others = 0

TableNext ==
    \/ \E i \in Position : Tick(i) \/ AskForRow(i)
    \/ Filter \/ AskForTicked \/ Cancel \/ Confirm \/ Refresh
    \/ \E w \in Ways : ServeDeletion(w) \/ SettleDeletion(w)
    \/ \E r \in Row : ChangeElsewhere(r)

TableSpec == TableInit /\ [][TableNext]_tvars

-----------------------------------------------------------------------------
(* Properties.                                                             *)

\* The type of every variable.
TableTypeOK ==
    /\ inTable \subseteq Row /\ listed \subseteq Row
    /\ ticked \subseteq Position
    /\ dialog \in [over : {"nothing", "ticks", "row"}, at : Position \cup {0}]
    /\ filtering \in BOOLEAN /\ moved \in BOOLEAN
    /\ deletion \in [Ways -> [at : {"idle", "sent", "answered"}, ids : SUBSET Row]]
    /\ meant \in [Ways -> SUBSET Row]
    /\ others \in 0..MaxOthers

\* Only rows the user chose are deleted, and none on the strength of a tick
\* that was used before, unless the list moved under the choice: the rows are
\* looked up by position once the dialog is confirmed (data-table.tsx:97).
DeletedWereMeant ==
    [][\A w \in Ways :
          deletion[w].at = "idle" /\ deletion'[w].at = "sent" =>
              moved \/ deletion'[w].ids \subseteq meant[w]]_tvars
=============================================================================
