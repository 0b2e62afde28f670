-------------------------- MODULE Dashboard_proofs --------------------------
(***************************************************************************)
(* Proofs about the components of Dashboard, for any rows, hooks, months,  *)
(* zones and bounds: of each its inductive invariant, and what follows.    *)
(***************************************************************************)
EXTENDS Dashboard, TLAPS

-----------------------------------------------------------------------------
(* QueryCache.  What makes StaleExplained inductive is that the answer about *)
(* to be cached must have the same excuse as the cache it replaces.        *)

\* A list may be wrong for a reason: an answer to come, or a known gap.
Explained(l) ==
  \/ \E c \in Change : change[c] = "answered" /\ l \in Affects(c)
  \/ \E e \in excused : e[1] = l

\* The inductive invariant: what is about to be cached is explained as well.
CacheInv ==
  /\ CacheTypeOK
  /\ \A l \in List :
       /\ cached[l] # None /\ ~stale[l] /\ cached[l] # version[l] => Explained(l)
       /\ fetching[l].at = "answered" /\ fetching[l].version # version[l] => Explained(l)

\* Every hook invalidates what its request changes, but for the transactions
\* after the two bulk deletes that take some along.
LEMMA HooksInvalidate ==
  ASSUME NEW c \in Change, NEW l \in Affects(c), l \notin Invalidates(c)
  PROVE  l = "transactions" /\ c \in {"useBulkDeleteAccounts", "useBulkDeleteCategories"}
<1>1. c \in DOMAIN Hook
  BY CacheAssumption
<1> QED
  BY <1>1 DEF Hook, Affects, Invalidates, Ledger, UseCreateAccount, UseEditAccount,
     UseDeleteAccount, UseBulkDeleteAccounts, UseCreateCategory, UseEditCategory,
     UseDeleteCategory, UseBulkDeleteCategories, UseCreateTransaction,
     UseBulkCreateTransactions, UseEditTransaction, UseDeleteTransaction,
     UseBulkDeleteTransactions

\* The type of every variable is kept.
LEMMA CacheTyped ==
  ASSUME CacheTypeOK, CacheNext
  PROVE  CacheTypeOK'
<1> USE DEF CacheTypeOK, NoFetch, FetchFailed, FetchSent
<1>1. ASSUME NEW p \in Path, GoTo(p)
      PROVE  CacheTypeOK'
  BY <1>1 DEF GoTo
<1>2. CASE Focus
  BY <1>2 DEF Focus
<1>3. ASSUME NEW l \in List, Age(l) \/ LoseFetch(l)
      PROVE  CacheTypeOK'
  BY <1>3 DEF Age, LoseFetch
<1>4. ASSUME NEW l \in List, ServeFetch(l)
      PROVE  CacheTypeOK'
  <2>1. Fetched(version[l]) \in [at : {"answered"}, version : Nat]
    BY DEF Fetched
  <2> QED
    BY <1>4, <2>1 DEF ServeFetch
<1>5. ASSUME NEW l \in List, DeliverFetch(l)
      PROVE  CacheTypeOK'
  <2>1. fetching[l].version \in Nat
    BY <1>5 DEF DeliverFetch
  <2> QED
    BY <1>5, <2>1 DEF DeliverFetch
<1>6. ASSUME NEW c \in Change, Mutate(c)
      PROVE  CacheTypeOK'
  BY <1>6 DEF Mutate
<1>7. ASSUME NEW c \in Change, ServeChange(c)
      PROVE  CacheTypeOK'
  BY <1>7 DEF ServeChange
<1>8. ASSUME NEW c \in Change, Succeed(c)
      PROVE  CacheTypeOK'
  <2>1. \A l \in Raced(Invalidates(c)) : <<l, "raced">> \in Reasons
    BY DEF Raced, Reasons
  <2>2. ({"transactions"} \cap List) \X {"not invalidated"} \subseteq Reasons
    BY DEF Reasons
  <2>3. excused' \subseteq Reasons
    BY <1>8, <2>1, <2>2, Zenon DEF Succeed
  <2> QED
    BY <1>8, <2>3 DEF Succeed
<1>9. ASSUME NEW c \in Change, Fail(c)
      PROVE  CacheTypeOK'
  <2>1. \A l \in List : <<l, "lost">> \in Reasons
    BY DEF Reasons
  <2>2. excused' = excused \cup
          {<<l, "lost">> : l \in {k \in List \cap Affects(c) : change[c] = "answered"}}
    BY <1>9 DEF Fail
  <2>3. excused' \subseteq Reasons
    BY <2>1, <2>2
  <2> QED
    BY <1>9, <2>3 DEF Fail
<1> QED
  BY <1>1, <1>2, <1>3, <1>4, <1>5, <1>6, <1>7, <1>8, <1>9 DEF CacheNext

\* A step of the pages or of a fetch keeps the reasons of every list, but for
\* one that an up to date answer has just reached.
LEMMA FetchesExplained ==
  ASSUME CacheInv,
         \/ \E p \in Path : GoTo(p)
         \/ Focus
         \/ \E l \in List : Age(l) \/ ServeFetch(l) \/ LoseFetch(l)
  PROVE  \A l \in List :
           /\ cached'[l] # None /\ ~stale'[l] /\ cached'[l] # version'[l] => Explained(l)'
           /\ fetching'[l].at = "answered" /\ fetching'[l].version # version'[l] => Explained(l)'
<1> USE DEF CacheInv, CacheTypeOK, NoFetch, FetchFailed, FetchSent, Explained
<1>1. ASSUME NEW p \in Path, GoTo(p)
      PROVE  UNCHANGED <<version, cached, stale, change, excused>>
             /\ \A l \in List : fetching'[l] \in {fetching[l], FetchSent}
  BY <1>1 DEF GoTo
<1>2. CASE Focus
  BY <1>2 DEF Focus
<1>3. ASSUME NEW l \in List, Age(l) \/ LoseFetch(l)
      PROVE  UNCHANGED <<version, cached, change, excused>>
             /\ \A k \in List : /\ fetching'[k] \in {fetching[k], FetchFailed}
                                /\ stale'[k] \/ stale'[k] = stale[k]
  BY <1>3 DEF Age, LoseFetch
<1>4. ASSUME NEW l \in List, ServeFetch(l)
      PROVE  UNCHANGED <<version, cached, stale, change, excused>>
             /\ \A k \in List : fetching'[k] \in {fetching[k], Fetched(version[k])}
  BY <1>4 DEF ServeFetch
<1> QED
  BY <1>1, <1>2, <1>3, <1>4 DEF Focus, Fetched

\* So does an answer that arrives: an outdated one is as wrong as it was
\* when it was on its way.
LEMMA DeliveryExplained ==
  ASSUME CacheInv, NEW l \in List, DeliverFetch(l), NEW k \in List
  PROVE  /\ cached'[k] # None /\ ~stale'[k] /\ cached'[k] # version'[k] => Explained(k)'
         /\ fetching'[k].at = "answered" /\ fetching'[k].version # version'[k] => Explained(k)'
<1> USE DEF CacheInv, CacheTypeOK
<1>1. UNCHANGED <<version, change>>
  BY DEF DeliverFetch
<1>2. \A e \in excused : e[1] # l \/ fetching[l].version # version[l] => e \in excused'
  BY DEF DeliverFetch
<1>3. CASE k = l
  <2>1. cached'[l] = fetching[l].version /\ fetching'[l] = NoFetch /\ fetching[l].at = "answered"
    BY DEF DeliverFetch
  <2>2. fetching[l].version # version[l] => Explained(l) /\ excused \subseteq excused'
    BY <1>2, <2>1
  <2> QED
    BY <1>1, <1>3, <2>1, <2>2 DEF Explained, NoFetch
<1>4. CASE k # l
  <2>1. cached'[k] = cached[k] /\ stale'[k] = stale[k] /\ fetching'[k] = fetching[k]
    BY <1>4 DEF DeliverFetch
  <2>2. Explained(k) => Explained(k)'
    BY <1>1, <1>2, <1>4 DEF Explained
  <2> QED
    BY <1>1, <2>1, <2>2
<1> QED
  BY <1>3, <1>4

\* A request served explains what it made wrong; one that ends hands its lists
\* on to a reason that stays.
LEMMA ChangesExplained ==
  ASSUME CacheInv, NEW c \in Change,
         Mutate(c) \/ ServeChange(c) \/ Succeed(c) \/ Fail(c),
         NEW l \in List
  PROVE  /\ cached'[l] # None /\ ~stale'[l] /\ cached'[l] # version'[l] => Explained(l)'
         /\ fetching'[l].at = "answered" /\ fetching'[l].version # version'[l] => Explained(l)'
<1> USE DEF CacheInv, CacheTypeOK
<1>1. \A d \in Change \ {c} : change'[d] = change[d]
  BY DEF Mutate, ServeChange, Succeed, Fail
<1>2. excused \subseteq excused'
  BY DEF Mutate, ServeChange, Succeed, Fail
<1>3. Explained(l) => Explained(l)' \/ (change[c] = "answered" /\ l \in Affects(c))
  BY <1>1, <1>2 DEF Explained
<1>4. CASE Mutate(c)
  BY <1>3, <1>4 DEF Mutate
<1>5. CASE ServeChange(c)
  <2>1. change[c] = "sent" /\ change'[c] = "answered"
        /\ UNCHANGED <<cached, stale, fetching>>
    BY <1>5 DEF ServeChange
  <2>2. CASE l \in Affects(c)
    BY <2>1, <2>2 DEF Explained
  <2>3. CASE l \notin Affects(c)
    BY <1>3, <1>5, <2>1, <2>3 DEF ServeChange
  <2> QED
    BY <2>2, <2>3
<1>6. CASE Succeed(c)
  <2>1. UNCHANGED <<version, cached>> /\ change[c] = "answered"
    BY <1>6 DEF Succeed
  <2>2. stale'[l] = (stale[l] \/ (l \in Invalidates(c) /\ cached[l] # None))
    BY <1>6 DEF Succeed
  <2>3. fetching'[l] = IF l \in Restarted(Invalidates(c)) THEN FetchSent ELSE fetching[l]
    BY <1>6 DEF Succeed
  <2>4. l \in Affects(c) /\ l \notin Invalidates(c) => <<l, "not invalidated">> \in excused'
    <3>1. SUFFICES ASSUME l \in Affects(c), l \notin Invalidates(c)
                   PROVE  <<l, "not invalidated">> \in excused'
      OBVIOUS
    <3>2. l = "transactions" /\ c \in {"useBulkDeleteAccounts", "useBulkDeleteCategories"}
      BY <3>1, HooksInvalidate
    <3> QED
      BY <1>6, <3>2 DEF Succeed
  <2>5. l \in Raced(Invalidates(c)) => <<l, "raced">> \in excused'
    BY <1>6 DEF Succeed
  <2>6. (\E w : <<l, w>> \in excused') => Explained(l)'
    BY DEF Explained
  <2>7. fetching'[l].at = "answered" =>
          fetching'[l] = fetching[l]
          /\ (l \in Invalidates(c) => l \in Raced(Invalidates(c)))
    BY <2>3 DEF FetchSent, Raced, Fetching
  <2> QED
    BY <1>3, <2>1, <2>2, <2>4, <2>5, <2>6, <2>7
<1>7. CASE Fail(c)
  <2>1. UNCHANGED <<version, cached, stale, fetching>>
    BY <1>7 DEF Fail
  <2>2. change[c] = "answered" /\ l \in Affects(c) => <<l, "lost">> \in excused'
    BY <1>7 DEF Fail
  <2> QED
    BY <1>3, <2>1, <2>2 DEF Explained
<1> QED
  BY <1>4, <1>5, <1>6, <1>7

LEMMA CacheStart ==
  ASSUME CacheInit
  PROVE  CacheInv
<1>1. CacheTypeOK
  BY CacheAssumption DEF CacheInit, CacheTypeOK, NoFetch, FetchSent, FetchFailed, Reasons
<1> QED
  BY <1>1 DEF CacheInit, CacheInv, NoFetch, FetchSent

\* Every step keeps the invariant.
LEMMA CacheStep ==
  ASSUME CacheInv, [CacheNext]_cvars
  PROVE  CacheInv'
<1>1. CASE UNCHANGED cvars
  BY <1>1 DEF CacheInv, cvars, CacheTypeOK, Explained
<1>2. CASE CacheNext
  <2>1. CacheTypeOK'
    BY <1>2, CacheTyped DEF CacheInv
  <2> QED
    BY <1>2, <2>1, FetchesExplained, DeliveryExplained, ChangesExplained DEF CacheNext, CacheInv
<1> QED
  BY <1>1, <1>2

\* The type invariant of QueryCache.
THEOREM ListsTyped == CacheSpec => []CacheTypeOK
<1>1. CacheInv => CacheTypeOK
  BY DEF CacheInv
<1> QED
  BY <1>1, CacheStart, CacheStep, PTL DEF CacheSpec

\* What passes for fresh and is not has a known reason
\* (use-bulk-delete-accounts.ts:22).
THEOREM StaleListsExplained == CacheSpec => []StaleExplained
<1>1. CacheInv => StaleExplained
  <2>1. CacheTypeOK => DOMAIN cached = List /\ DOMAIN change = Change
    BY DEF CacheTypeOK
  <2> QED
    BY <2>1 DEF CacheInv, StaleExplained, Explained
<1> QED
  BY <1>1, CacheStart, CacheStep, PTL DEF CacheSpec

-----------------------------------------------------------------------------
(* DataTable.  A selection is by position and a deletion by row; the invariant *)
(* says which rows the selected positions hold.                            *)

\* Unless a choice came to lie on another row, each ticked position has a row
\* the user ticked, and the dialog of a menu is over the row it was opened for.
ChoicesLie ==
  ~moved =>
    /\ \A i \in ticked : At(listed, i) \subseteq meant["button"]
    /\ dialog.over = "row" => At(listed, dialog.at) \subseteq meant["menu"]

\* The inductive invariant.
TableInv ==
  /\ TableTypeOK
  /\ dialog.over = "nothing" => dialog = NoDialog
  /\ ChoicesLie

\* What DeletedWereMeant says of one step.
MeantStep ==
  \A w \in Ways :
    deletion[w].at = "idle" /\ deletion'[w].at = "sent" =>
      moved \/ deletion'[w].ids \subseteq meant[w]

\* The rows at a position are rows; no row is at two positions.
LEMMA Positions ==
  ASSUME NEW R, NEW i, NEW j
  PROVE  At(R, i) \subseteq R /\ (i # j => At(R, i) \cap At(R, j) = {})
  BY DEF At

\* What the button deletes are rows of the list, at ticked positions.
LEMMA SelectedTicked ==
  FilteredSelected \subseteq UNION {At(listed, i) : i \in ticked}
  BY DEF FilteredSelected, Visible

\* A tick is for the row it is at, and taken back from that row only.
LEMMA TickStep ==
  ASSUME TableInv, NEW i \in Position, Tick(i)
  PROVE  TableInv' /\ MeantStep
<1> USE DEF TableInv, TableTypeOK
<1>1. UNCHANGED <<inTable, listed, filtering, dialog, deletion, moved, others>>
  BY DEF Tick
<1>2. At(listed, i) \subseteq Row
  BY Positions
<1>3. CASE i \in ticked
  <2>1. ticked' = ticked \ {i} /\ meant' = [meant EXCEPT !["button"] = @ \ At(listed, i)]
    BY <1>3 DEF Tick
  <2>2. meant'["button"] = meant["button"] \ At(listed, i) /\ meant'["menu"] = meant["menu"]
    BY <2>1 DEF Ways
  <2>3. meant' \in [Ways -> SUBSET Row]
    BY <2>1
  <2>4. ChoicesLie'
    BY <1>1, <2>1, <2>2, Positions DEF ChoicesLie
  <2> QED
    BY <1>1, <2>1, <2>3, <2>4 DEF MeantStep
<1>4. CASE i \notin ticked
  <2>1. ticked' = ticked \cup {i} /\ meant' = [meant EXCEPT !["button"] = @ \cup At(listed, i)]
    BY <1>4 DEF Tick
  <2>2. meant'["button"] = meant["button"] \cup At(listed, i) /\ meant'["menu"] = meant["menu"]
    BY <2>1 DEF Ways
  <2>3. meant' \in [Ways -> SUBSET Row]
    BY <1>2, <2>1
  <2>4. ChoicesLie'
    BY <1>1, <2>1, <2>2 DEF ChoicesLie
  <2> QED
    BY <1>1, <2>1, <2>3, <2>4 DEF MeantStep
<1> QED
  BY <1>3, <1>4

\* The steps that neither choose nor delete.
LEMMA QuietTableStep ==
  ASSUME TableInv,
         \/ Filter \/ AskForTicked \/ Cancel
         \/ \E i \in Position : AskForRow(i)
         \/ \E r \in Row : ChangeElsewhere(r)
         \/ \E w \in Ways : ServeDeletion(w) \/ SettleDeletion(w)
  PROVE  TableInv' /\ MeantStep
<1> USE DEF TableInv, TableTypeOK
<1>1. CASE Filter \/ AskForTicked
  <2>1. /\ UNCHANGED <<inTable, listed, ticked, deletion, meant, moved, others>>
        /\ filtering' \in BOOLEAN
        /\ dialog' \in {dialog, [over |-> "ticks", at |-> 0]}
    BY <1>1 DEF Filter, AskForTicked
  <2>2. ChoicesLie'
    BY <2>1 DEF ChoicesLie
  <2> QED
    BY <2>1, <2>2 DEF MeantStep, NoDialog
<1>2. CASE Cancel
  BY <1>2 DEF Cancel, ChoicesLie, At, MeantStep, Ways, NoDialog
<1>3. ASSUME NEW i \in Position, AskForRow(i)
      PROVE  TableInv' /\ MeantStep
  <2>1. At(listed, i) \subseteq Row
    BY Positions
  <2>2. /\ dialog' = [over |-> "row", at |-> i]
        /\ meant' = [meant EXCEPT !["menu"] = At(listed, i)]
        /\ UNCHANGED <<inTable, listed, ticked, filtering, deletion, moved, others>>
    BY <1>3 DEF AskForRow
  <2>3. meant'["menu"] = At(listed, i) /\ meant'["button"] = meant["button"]
    BY <2>2 DEF Ways
  <2>4. ChoicesLie'
    BY <2>2, <2>3 DEF ChoicesLie
  <2> QED
    BY <2>1, <2>2, <2>4 DEF MeantStep
<1>4. ASSUME NEW r \in Row, ChangeElsewhere(r)
      PROVE  TableInv' /\ MeantStep
  BY <1>4, TableAssumption DEF ChangeElsewhere, ChoicesLie, At, MeantStep
<1>5. ASSUME NEW w \in Ways, ServeDeletion(w) \/ SettleDeletion(w)
      PROVE  TableInv' /\ MeantStep
  <2>1. /\ UNCHANGED <<listed, ticked, filtering, dialog, meant, moved, others>>
        /\ inTable' \subseteq inTable
    BY <1>5 DEF ServeDeletion, SettleDeletion
  <2>2. /\ deletion' \in [Ways -> [at : {"idle", "sent", "answered"}, ids : SUBSET Row]]
        /\ \A v \in Ways : deletion'[v].at = "sent" => deletion[v].at = "sent"
    BY <1>5 DEF ServeDeletion, SettleDeletion, NoDeletion
  <2> QED
    BY <2>1, <2>2 DEF ChoicesLie, At, MeantStep
<1> QED
  BY <1>1, <1>2, <1>3, <1>4, <1>5

\* A choice under which the list moves is no longer relied on.
LEMMA RefreshStep ==
  ASSUME TableInv, Refresh
  PROVE  TableInv' /\ MeantStep
<1> USE DEF TableInv, TableTypeOK
<1>1. /\ listed' = inTable
      /\ moved' = (moved \/ \E i \in Held : At(listed, i) # At(inTable, i))
      /\ dialog' \in {dialog, NoDialog}
      /\ UNCHANGED <<inTable, ticked, filtering, deletion, meant, others>>
  BY DEF Refresh
<1>2. ~moved' => ~moved /\ \A i \in Held : At(listed, i) = At(listed', i)
  BY <1>1
<1>3. /\ ticked \subseteq Held
      /\ dialog.over = "row" => dialog.at \in Held
  BY DEF Held
<1>4. ChoicesLie'
  <2>1. SUFFICES ASSUME ~moved'
                 PROVE  /\ \A i \in ticked' : At(listed', i) \subseteq meant'["button"]
                        /\ dialog'.over = "row" => At(listed', dialog'.at) \subseteq meant'["menu"]
    BY DEF ChoicesLie
  <2> QED
    BY <1>1, <1>2, <1>3, <2>1 DEF ChoicesLie, NoDialog
<1> QED
  BY <1>1, <1>4 DEF MeantStep, NoDialog

\* What is deleted is what the choice was for.
LEMMA ConfirmStep ==
  ASSUME TableInv, Confirm
  PROVE  TableInv' /\ MeantStep
<1> USE DEF TableInv, TableTypeOK
<1>1. dialog' = NoDialog /\ UNCHANGED <<inTable, listed, filtering, others>>
  BY DEF Confirm
<1>2. NoDialog.over = "nothing" /\ NoDialog \in [over : {"nothing", "ticks", "row"}, at : Position \cup {0}]
  BY DEF NoDialog
<1>3. CASE dialog.over = "ticks"
  <2>1. DeleteTicked
    BY <1>3 DEF Confirm
  <2>2. FilteredSelected \subseteq Row
    BY SelectedTicked, Positions
  <2>3. ~moved => FilteredSelected \subseteq meant["button"]
    BY SelectedTicked DEF ChoicesLie
  <2>4. /\ deletion' = [deletion EXCEPT !["button"] = [at |-> "sent", ids |-> FilteredSelected]]
        /\ ticked' = {} /\ moved' = FALSE /\ meant' = [meant EXCEPT !["button"] = {}]
    BY <2>1 DEF DeleteTicked, DeleteRows
  <2>5. MeantStep
    BY <2>3, <2>4 DEF MeantStep, Ways
  <2>6. ChoicesLie'
    BY <1>1, <1>2, <2>4 DEF ChoicesLie
  <2> QED
    BY <1>1, <1>2, <2>2, <2>4, <2>5, <2>6
<1>4. CASE dialog.over # "ticks"
  <2>1. DeleteRow
    BY <1>4 DEF Confirm
  <2>2. dialog.over = "row"
    BY <1>4 DEF Confirm, NoDialog
  <2>3. /\ deletion' = [deletion EXCEPT !["menu"] = [at |-> "sent", ids |-> At(listed, dialog.at)]]
        /\ meant' = [meant EXCEPT !["menu"] = {}]
        /\ moved' = (moved /\ ticked # {}) /\ UNCHANGED ticked
    BY <2>1 DEF DeleteRow, DeleteRows
  <2>4. At(listed, dialog.at) \subseteq Row
    BY Positions
  <2>5. ~moved => At(listed, dialog.at) \subseteq meant["menu"]
    BY <2>2 DEF ChoicesLie
  <2>6. MeantStep
    BY <2>3, <2>5 DEF MeantStep, Ways
  <2>7. ChoicesLie'
    BY <1>1, <1>2, <2>3 DEF ChoicesLie, Ways, At
  <2> QED
    BY <1>1, <1>2, <2>3, <2>4, <2>6, <2>7
<1> QED
  BY <1>3, <1>4

\* Each step keeps the invariant and deletes what was meant.
LEMMA TableStep ==
  ASSUME TableInv, [TableNext]_tvars
  PROVE  TableInv' /\ MeantStep
<1>1. CASE TableNext
  BY <1>1, TickStep, QuietTableStep, RefreshStep, ConfirmStep DEF TableNext
<1>2. CASE UNCHANGED tvars
  BY <1>2 DEF tvars, TableInv, TableTypeOK, ChoicesLie, At, MeantStep
<1> QED
  BY <1>1, <1>2

LEMMA TableStart ==
  ASSUME TableInit
  PROVE  TableInv
<1>1. NoDialog \in [over : {"nothing", "ticks", "row"}, at : Position \cup {0}]
  BY DEF NoDialog
<1>2. NoDeletion \in [at : {"idle", "sent", "answered"}, ids : SUBSET Row]
  BY DEF NoDeletion
<1>3. deletion \in [Ways -> [at : {"idle", "sent", "answered"}, ids : SUBSET Row]]
  BY <1>2 DEF TableInit
<1>4. meant \in [Ways -> SUBSET Row]
  BY DEF TableInit
<1>5. filtering \in BOOLEAN /\ moved \in BOOLEAN
  BY DEF TableInit
<1>6. others \in 0..MaxOthers
  BY TableAssumption DEF TableInit
<1>7. TableTypeOK
  BY <1>1, <1>3, <1>4, <1>5, <1>6, TableAssumption DEF TableInit, TableTypeOK
<1> QED
  BY <1>7 DEF TableInit, TableInv, ChoicesLie, NoDialog

\* The type invariant of DataTable.
THEOREM TableTyped == TableSpec => []TableTypeOK
<1>1. TableInv => TableTypeOK
  BY DEF TableInv
<1> QED
  BY <1>1, TableStart, TableStep, PTL DEF TableSpec

\* Only rows that were chosen are deleted, unless the list moved
\* (data-table.tsx:97).
THEOREM OnlyChosenRowsDeleted == TableSpec => DeletedWereMeant
<1>1. MeantStep => (\A w \in Ways : deletion[w].at = "idle" /\ deletion'[w].at = "sent" =>
                       moved \/ deletion'[w].ids \subseteq meant[w])
  BY DEF MeantStep
<1> QED
  BY <1>1, TableStart, TableStep, PTL DEF TableSpec, DeletedWereMeant

-----------------------------------------------------------------------------
(* EditSheet.  A form keeps the values it was mounted with, so the invariant *)
(* has to say why they may differ from the row's, then and since.          *)

EditForm == [of : Item, from : Version, typed : BOOLEAN, reread : BOOLEAN, unsure : BOOLEAN]
DetailFetch == [at : {"idle", "paused", "sent", "answered"}, version : Version]

\* A detail that differs from the row for a reason.
KnownStale(i) == (saving.at = "made" /\ saving.to = i) \/ i \in unsure

\* What the cache and the fetch of a detail may be.
DetailInv(i) ==
  /\ detail[i] # 0 /\ ~outdated[i] /\ detail[i] # row[i] => KnownStale(i)
  /\ reading[i].at = "answered" =>
       reading[i].version # 0 /\ (reading[i].version # row[i] => KnownStale(i))

\* A form is of the row that is open, with nothing it waits for being loaded;
\* if it started from other values than the row's there is a reason; and
\* nothing is typed into it while a request is under way.
FormInv ==
  editor # None =>
    /\ sheet # None /\ editor.of = sheet
    /\ ~(detail[sheet] = 0 /\ Reading(reading, sheet)) /\ choices # "loading"
    /\ editor.from # row[sheet] =>
         editor.reread \/ editor.unsure \/ (saving.at = "made" /\ saving.to = sheet)
    /\ saving # NotSaving => ~editor.typed

\* A request is for the row it was made for, or has waited.
SavingInv ==
  /\ saving.at = "paused" => saving.waited
  /\ saving.to = saving.for \/ saving.waited
  /\ saving.at = "made" => saving.to # None

\* The inductive invariant.
EditInv == EditTypeOK /\ (\A i \in Item : DetailInv(i)) /\ FormInv /\ SavingInv

\* What the two action properties say of one step.
TypedStep ==
  editor # None /\ editor.typed /\ editor' = None =>
    \/ sheet' = None /\ UNCHANGED saving
    \/ sheet' = sheet /\ detail[sheet] = 0 /\ reading[sheet].at \in {"idle", "paused"}
    \/ sheet' = sheet /\ choices = "none" /\ choices' = "loading"
LandsStep ==
  \A i \in Item : row'[i] # row[i] /\ saving' # saving =>
    saving.for = i \/ (saving.waited /\ saving.to = i)

\* A form is not the absence of one.
LEMMA FormIsThere == None \notin EditForm
<1>1. \A f \in EditForm : f \in [of : Item, from : Nat, typed : BOOLEAN, reread : BOOLEAN,
                                 unsure : BOOLEAN]
  BY EditAssumption DEF EditForm, Version
<1> QED
  BY <1>1, EditAssumption

\* What is shown after a step that renders the sheet anew.
LEMMA FormRendered ==
  ASSUME Render
  PROVE  \/ /\ editor' = None
            /\ \/ sheet' = None
               \/ detail'[sheet'] = 0 /\ Reading(reading', sheet')
               \/ choices' = "loading"
         \/ /\ sheet' # None /\ ~(detail'[sheet'] = 0 /\ Reading(reading', sheet'))
            /\ choices' # "loading"
            /\ \/ /\ editor # None
                  /\ editor' = [editor EXCEPT !.unsure = @ \/ editor.of \in unsure']
               \/ /\ editor = None
                  /\ editor' = [of |-> sheet', from |-> detail'[sheet'], typed |-> FALSE,
                                reread |-> detail'[sheet'] = 0 \/ outdated'[sheet'],
                                unsure |-> sheet' \in unsure']
  BY DEF Render, Rendered

\* Rendering keeps the form as it has to be, if the step left the row open and
\* as it was, or knows why not.
LEMMA FormKept ==
  ASSUME EditInv, Render,
         sheet' \in Item \cup {None},
         detail' \in [Item -> Version], outdated' \in [Item -> BOOLEAN],
         \A k \in Item : DetailInv(k)',
         editor # None /\ sheet' # None =>
            /\ sheet' = sheet
            /\ row'[sheet] # row[sheet] => sheet \in unsure'
            /\ saving.at = "made" /\ saving.to = sheet =>
                 (saving'.at = "made" /\ saving'.to = sheet) \/ sheet \in unsure'
            /\ saving' # NotSaving => ~editor.typed
  PROVE  FormInv' /\ editor' \in EditForm \cup {None}
<1> USE DEF EditInv, EditTypeOK
<1>1. CASE editor' = None
  BY <1>1 DEF FormInv
<1>2. CASE /\ editor # None /\ sheet' # None
           /\ ~(detail'[sheet'] = 0 /\ Reading(reading', sheet')) /\ choices' # "loading"
           /\ editor' = [editor EXCEPT !.unsure = @ \/ editor.of \in unsure']
  <2>1. editor \in EditForm
    BY <1>2 DEF EditForm
  <2>2. /\ editor' \in EditForm /\ editor'.of = editor.of /\ editor'.from = editor.from
        /\ editor'.typed = editor.typed /\ editor'.reread = editor.reread
        /\ editor'.unsure = (editor.unsure \/ editor.of \in unsure')
    BY <1>2, <2>1 DEF EditForm
  <2>3. editor.of = sheet /\ sheet' = sheet
    BY <1>2 DEF FormInv
  <2>4. editor.from # row'[sheet] =>
          \/ editor.reread \/ editor.unsure \/ sheet \in unsure'
          \/ saving'.at = "made" /\ saving'.to = sheet
    BY <1>2 DEF FormInv
  <2>5. (saving' # NotSaving => ~editor.typed)
    BY <1>2
  <2> QED
    BY <1>2, <2>2, <2>3, <2>4, <2>5 DEF FormInv
<1>3. CASE /\ editor = None /\ sheet' # None
           /\ ~(detail'[sheet'] = 0 /\ Reading(reading', sheet')) /\ choices' # "loading"
           /\ editor' = [of |-> sheet', from |-> detail'[sheet'], typed |-> FALSE,
                         reread |-> detail'[sheet'] = 0 \/ outdated'[sheet'],
                         unsure |-> sheet' \in unsure']
  <2>1. editor' \in EditForm
    BY <1>3 DEF EditForm
  <2>2. /\ editor'.of = sheet' /\ editor'.from = detail'[sheet'] /\ ~editor'.typed
        /\ editor'.reread <=> detail'[sheet'] = 0 \/ outdated'[sheet']
        /\ editor'.unsure <=> sheet' \in unsure'
    BY <1>3
  <2>3. PICK k \in Item : k = sheet' /\ DetailInv(k)'
    BY <1>3
  <2> QED
    BY <1>3, <2>1, <2>2, <2>3 DEF FormInv, DetailInv, KnownStale
<1> QED
  BY FormRendered, <1>1, <1>2, <1>3

\* A form that goes although the sheet stays open is one whose detail, or a
\* list of whose selects, could not be read.
LEMMA FormGone ==
  ASSUME EditInv, Render, sheet' = sheet,
         sheet # None /\ detail'[sheet] = 0 => detail[sheet] = 0,
         choices' = "loading" => choices \in {"none", "loading"}
  PROVE  TypedStep
<1> SUFFICES ASSUME editor # None, editor' = None
             PROVE  \/ detail[sheet] = 0 /\ reading[sheet].at \in {"idle", "paused"}
                    \/ choices = "none" /\ choices' = "loading"
  BY DEF TypedStep
<1>1. sheet \in Item /\ ~(detail[sheet] = 0 /\ Reading(reading, sheet)) /\ choices # "loading"
  BY DEF EditInv, EditTypeOK, FormInv
<1>2. reading[sheet].at \in {"idle", "paused", "sent", "answered"}
  BY <1>1 DEF EditInv, EditTypeOK
<1>3. CASE detail'[sheet'] = 0 /\ Reading(reading', sheet')
  BY <1>1, <1>2, <1>3, EditAssumption DEF Reading
<1>4. CASE choices' = "loading"
  BY <1>1, <1>4
<1>5. (detail'[sheet'] = 0 /\ Reading(reading', sheet')) \/ choices' = "loading"
  <2>1. editor \in EditForm
    BY DEF EditInv, EditTypeOK, EditForm
  <2>2. [editor EXCEPT !.unsure = @ \/ editor.of \in unsure'] \in EditForm
    BY <2>1 DEF EditForm
  <2> QED
    BY <1>1, <2>2, FormRendered, FormIsThere, EditAssumption
<1> QED
  BY <1>1, <1>3, <1>4, <1>5

\* Opening a row, when none is open, shows a new form or waits for its detail.
LEMMA OpenStep ==
  ASSUME EditInv, NEW i \in Item, Open(i)
  PROVE  EditInv' /\ TypedStep /\ LandsStep
<1> USE DEF EditInv
<1>1. /\ sheet = None /\ sheet' = i /\ Render
      /\ UNCHANGED <<row, detail, outdated, choices, saving, online, saves, changes, outages,
                     unsure>>
      /\ reading' = [reading EXCEPT ![i] =
           IF ~Reading(reading, i) /\ (detail[i] = 0 \/ outdated[i]) THEN DetailAsked ELSE @]
  BY DEF Open, editBounds
<1>2. editor = None
  BY <1>1 DEF FormInv
<1>3. DetailAsked \in DetailFetch /\ DetailAsked.at \in {"sent", "paused"}
  BY EditAssumption DEF DetailAsked, DetailFetch, Version, EditTypeOK
<1>4. reading' \in [Item -> DetailFetch]
  BY <1>1, <1>3 DEF EditTypeOK, DetailFetch
<1>5. \A k \in Item : DetailInv(k)'
  BY <1>1, <1>3 DEF DetailInv, KnownStale, EditTypeOK
<1>6. FormInv' /\ editor' \in EditForm \cup {None}
  BY <1>1, <1>2, <1>5, FormKept DEF EditTypeOK
<1> QED
  BY <1>1, <1>2, <1>4, <1>5, <1>6 DEF EditTypeOK, EditForm, DetailFetch, SavingInv, TypedStep, LandsStep

\* Closing the sheet takes the form with it.
LEMMA CloseStep ==
  ASSUME EditInv, CloseEdit
  PROVE  EditInv' /\ TypedStep /\ LandsStep
<1> USE DEF EditInv
<1>1. /\ sheet' = None /\ Render
      /\ UNCHANGED <<row, detail, outdated, reading, choices, saving, online, saves, changes,
                     outages, unsure>>
  BY DEF CloseEdit, details, editBounds
<1>2. \A k \in Item : DetailInv(k)'
  BY <1>1 DEF DetailInv, KnownStale
<1>3. FormInv' /\ editor' \in EditForm \cup {None}
  BY <1>1, <1>2, FormKept DEF EditTypeOK
<1> QED
  BY <1>1, <1>2, <1>3 DEF EditTypeOK, EditForm, SavingInv, TypedStep, LandsStep

\* A detail that grows stale does not touch the form that is shown.
LEMMA OutdateStep ==
  ASSUME EditInv, NEW i \in Item, Outdate(i)
  PROVE  EditInv' /\ TypedStep /\ LandsStep
<1> USE DEF EditInv
<1>1. /\ outdated' = [outdated EXCEPT ![i] = TRUE]
      /\ UNCHANGED <<row, sheet, detail, reading, choices, saving, online, saves, changes, outages,
                     unsure, editor>>
  BY DEF Outdate, editBounds
<1>2. outdated' \in [Item -> BOOLEAN]
  BY <1>1 DEF EditTypeOK
<1>3. \A k \in Item : DetailInv(k)'
  BY <1>1 DEF DetailInv, KnownStale, EditTypeOK
<1>4. FormInv'
  BY <1>1 DEF FormInv, Reading
<1> QED
  BY <1>1, <1>2, <1>3, <1>4 DEF EditTypeOK, SavingInv, TypedStep, LandsStep

\* A detail that is shown is read again; a form that waits for none goes only
\* if it had none.
LEMMA ReadAgainStep ==
  ASSUME EditInv, NEW i \in Item, ReadAgain(i)
  PROVE  EditInv' /\ TypedStep /\ LandsStep
<1> USE DEF EditInv
<1>1. /\ sheet = i /\ Render
      /\ reading' = [reading EXCEPT ![i] = DetailAsked]
      /\ UNCHANGED <<row, sheet, detail, outdated, choices, saving, online, saves, changes, outages,
                     unsure>>
  BY DEF ReadAgain, editBounds
<1>2. DetailAsked \in DetailFetch /\ DetailAsked.at \in {"sent", "paused"}
  BY EditAssumption DEF DetailAsked, DetailFetch, Version, EditTypeOK
<1>3. reading' \in [Item -> DetailFetch]
  BY <1>1, <1>2 DEF EditTypeOK, DetailFetch
<1>4. \A k \in Item : DetailInv(k)'
  BY <1>1, <1>2 DEF DetailInv, KnownStale, EditTypeOK
<1>5. FormInv' /\ editor' \in EditForm \cup {None}
  BY <1>1, <1>4, FormKept DEF EditTypeOK, FormInv
<1>6. TypedStep
  BY <1>1, FormGone DEF EditTypeOK
<1> QED
  BY <1>1, <1>3, <1>4, <1>5, <1>6 DEF EditTypeOK, EditForm, DetailFetch, SavingInv, LandsStep

\* The lists of the selects are asked for, and come or fail.
LEMMA ChoicesStep ==
  ASSUME EditInv, FetchChoices \/ ChoicesEnd
  PROVE  EditInv' /\ TypedStep /\ LandsStep
<1> USE DEF EditInv
<1>1. /\ Render
      /\ UNCHANGED <<row, sheet, detail, outdated, reading, saving, online, saves, changes, outages,
                     unsure>>
      /\ choices' \in {"none", "loading", "loaded"}
      /\ choices' = "loading" => choices = "none"
  BY DEF FetchChoices, ChoicesEnd, editBounds
<1>2. \A k \in Item : DetailInv(k)'
  BY <1>1 DEF DetailInv, KnownStale
<1>3. FormInv' /\ editor' \in EditForm \cup {None}
  BY <1>1, <1>2, FormKept DEF EditTypeOK, FormInv
<1>4. TypedStep
  BY <1>1, FormGone
<1> QED
  BY <1>1, <1>2, <1>3, <1>4 DEF EditTypeOK, EditForm, SavingInv, LandsStep

\* Another writer's change is marked, in the form too.
LEMMA OtherWritesStep ==
  ASSUME EditInv, NEW i \in Item, OtherWrites(i)
  PROVE  EditInv' /\ TypedStep /\ LandsStep
<1> USE DEF EditInv
<1>1. /\ Render
      /\ changes < MaxChanges /\ changes' = changes + 1
      /\ unsure' = unsure \cup {i}
      /\ UNCHANGED <<sheet, detail, outdated, reading, choices, saving, online, saves, outages>>
  BY DEF OtherWrites, details
<1>2. PICK v \in {0, MaxSaves + 1 + changes'} : row' = [row EXCEPT ![i] = v]
  BY DEF OtherWrites
<1>3. v \in Version /\ changes' \in 0..MaxChanges
  BY <1>1, <1>2, EditAssumption DEF Version, EditTypeOK
<1>4. row' \in [Item -> Version] /\ unsure' \subseteq Item
  BY <1>1, <1>2, <1>3 DEF EditTypeOK
<1>5. \A k \in Item : row'[k] # row[k] => k \in unsure'
  BY <1>1, <1>2 DEF EditTypeOK
<1>6. \A k \in Item : DetailInv(k)'
  BY <1>1, <1>5 DEF DetailInv, KnownStale
<1>7. FormInv' /\ editor' \in EditForm \cup {None}
  BY <1>1, <1>5, <1>6, FormKept DEF EditTypeOK, FormInv
<1>8. TypedStep
  BY <1>1, FormGone
<1> QED
  BY <1>1, <1>3, <1>4, <1>6, <1>7, <1>8 DEF EditTypeOK, EditForm, SavingInv, LandsStep

\* A read that is served, or is lost.
LEMMA ReadStep ==
  ASSUME EditInv, NEW i \in Item, ServeRead(i) \/ LoseRead(i)
  PROVE  EditInv' /\ TypedStep /\ LandsStep
<1> USE DEF EditInv
<1>1. /\ Render
      /\ UNCHANGED <<row, sheet, detail, outdated, choices, saving, online, saves, changes,
                     outages, unsure>>
  BY DEF ServeRead, LoseRead, editBounds
<1>2. /\ reading[i].at # "idle"
      /\ \/ reading' = [reading EXCEPT ![i] = NoRead]
         \/ row[i] # 0 /\ reading' = [reading EXCEPT ![i] = [at |-> "answered", version |-> row[i]]]
  BY DEF ServeRead, LoseRead, Reading
<1>3. NoRead \in DetailFetch /\ [at |-> "answered", version |-> row[i]] \in DetailFetch
  BY EditAssumption DEF NoRead, DetailFetch, Version, EditTypeOK
<1>4. reading' \in [Item -> DetailFetch]
  BY <1>2, <1>3 DEF EditTypeOK, DetailFetch
<1>5. \A k \in Item : DetailInv(k)'
  BY <1>1, <1>2 DEF DetailInv, KnownStale, EditTypeOK, NoRead
<1>6. FormInv' /\ editor' \in EditForm \cup {None}
  BY <1>1, <1>5, FormKept DEF EditTypeOK, FormInv
<1>7. TypedStep
  BY <1>1, FormGone
<1> QED
  BY <1>1, <1>4, <1>5, <1>6, <1>7 DEF EditTypeOK, EditForm, DetailFetch, SavingInv, LandsStep

\* A detail that was read replaces one that a form does not rely on.
LEMMA DeliverReadStep ==
  ASSUME EditInv, NEW i \in Item, DeliverRead(i)
  PROVE  EditInv' /\ TypedStep /\ LandsStep
<1> USE DEF EditInv
<1>1. /\ Render /\ reading[i].at = "answered"
      /\ detail' = [detail EXCEPT ![i] = reading[i].version]
      /\ outdated' = [outdated EXCEPT ![i] = FALSE]
      /\ reading' = [reading EXCEPT ![i] = NoRead]
      /\ unsure' = IF reading[i].version = row[i] THEN unsure \ {i} ELSE unsure
      /\ UNCHANGED <<row, sheet, choices, saving, online, saves, changes, outages>>
  BY DEF DeliverRead, editBounds
<1>2. reading[i].version \in Version /\ reading[i].version # 0
  BY <1>1 DEF EditTypeOK, DetailInv
<1>3. NoRead \in DetailFetch
  BY EditAssumption DEF NoRead, DetailFetch, Version
<1>4. reading' \in [Item -> DetailFetch]
  BY <1>1, <1>3 DEF EditTypeOK, DetailFetch
<1>5. detail' \in [Item -> Version] /\ outdated' \in [Item -> BOOLEAN] /\ unsure' \subseteq Item
  BY <1>1, <1>2 DEF EditTypeOK
<1>6. \A k \in Item : DetailInv(k)'
  BY <1>1 DEF DetailInv, KnownStale, EditTypeOK, NoRead
<1>7. FormInv' /\ editor' \in EditForm \cup {None}
  BY <1>1, <1>5, <1>6, FormKept DEF EditTypeOK, FormInv
<1>8. TypedStep
  BY <1>1, <1>2, FormGone DEF EditTypeOK
<1> QED
  BY <1>1, <1>4, <1>5, <1>6, <1>7, <1>8 DEF EditTypeOK, EditForm, DetailFetch, SavingInv, LandsStep

\* The user types while no request is under way.
LEMMA TypeStep ==
  ASSUME EditInv, Type
  PROVE  EditInv' /\ TypedStep /\ LandsStep
<1> USE DEF EditInv
<1>1. /\ editor # None /\ saving = NotSaving
      /\ editor' = [editor EXCEPT !.typed = TRUE]
      /\ UNCHANGED <<row, sheet, detail, outdated, reading, choices, saving, online, saves,
                     changes, outages, unsure>>
  BY DEF Type, Usable, details, editBounds
<1>2. editor \in EditForm
  BY <1>1 DEF EditTypeOK, EditForm
<1>3. editor' \in EditForm /\ editor' # None
  <2>1. editor' \in EditForm
    BY <1>1, <1>2 DEF EditForm
  <2> QED
    BY <2>1, FormIsThere
<1>4. FormInv'
  BY <1>1, <1>2 DEF FormInv, EditForm, Reading
<1> QED
  BY <1>1, <1>3, <1>4 DEF EditTypeOK, EditForm, SavingInv, TypedStep, LandsStep, DetailInv, KnownStale

\* A form that is submitted has nothing typed in it since.
LEMMA RequestStep ==
  ASSUME EditInv, SubmitEdit \/ DeleteItem
  PROVE  EditInv' /\ TypedStep /\ LandsStep
<1> USE DEF EditInv
<1>1. PICK does \in {"edit", "delete"} : Request(does)
  BY DEF SubmitEdit, DeleteItem
<1>2. /\ editor # None /\ saving = NotSaving
      /\ editor' = [editor EXCEPT !.typed = FALSE]
      /\ UNCHANGED <<row, sheet, detail, outdated, reading, choices, online, changes, outages,
                     unsure>>
  BY DEF SubmitEdit, DeleteItem, Usable, details
<1>3. /\ saves' \in 0..MaxSaves
      /\ saving' = [at |-> IF online THEN "sent" ELSE "paused", does |-> does,
                     for |-> sheet, to |-> sheet, waited |-> ~online]
  BY <1>1, EditAssumption DEF Request, EditTypeOK
<1>4. editor \in EditForm
  BY <1>2 DEF EditTypeOK, EditForm
<1>5. editor' \in EditForm /\ editor' # None /\ ~editor'.typed
  <2>1. editor' \in EditForm /\ ~editor'.typed
    BY <1>2, <1>4 DEF EditForm
  <2> QED
    BY <2>1, FormIsThere
<1>6. FormInv'
  BY <1>2, <1>4, <1>5 DEF FormInv, EditForm, Reading, NotSaving
<1>7. SavingInv' /\ saving'.at # "made"
  BY <1>3 DEF SavingInv, EditTypeOK
<1>8. \A k \in Item : DetailInv(k)'
  BY <1>2, <1>7 DEF DetailInv, KnownStale, NotSaving
<1> QED
  BY <1>2, <1>3, <1>5, <1>6, <1>7, <1>8 DEF EditTypeOK, EditForm, TypedStep, LandsStep

\* A save that is made leaves its own row's detail stale, and no other's.
LEMMA ServeSaveStep ==
  ASSUME EditInv, ServeSave
  PROVE  EditInv' /\ TypedStep /\ LandsStep
<1> USE DEF EditInv
<1>1. /\ saving.at = "sent" /\ saving.to # None
      /\ UNCHANGED <<sheet, detail, outdated, reading, choices, editor, online, saves, changes,
                     outages, unsure>>
  BY DEF ServeSave, Addressed, details, editBounds
<1>2. saving.to \in Item
  BY <1>1 DEF EditTypeOK
<1>3. \/ /\ row' = [row EXCEPT ![saving.to] = IF saving.does = "delete" THEN 0 ELSE saves + 1]
         /\ saving' = [saving EXCEPT !.at = "made"]
      \/ saving' = [saving EXCEPT !.at = "refused"] /\ UNCHANGED row
  BY DEF ServeSave, Addressed
<1>4. /\ saving'.to = saving.to /\ saving'.for = saving.for /\ saving'.waited = saving.waited
      /\ saving'.at \in {"made", "refused"}
      /\ \A i \in Item : row'[i] # row[i] => i = saving.to /\ saving'.at = "made"
  BY <1>2, <1>3 DEF EditTypeOK
<1>5. row' \in [Item -> Version]
  BY <1>2, <1>3, EditAssumption DEF EditTypeOK, Version
<1>6. saving' \in [at : {"idle", "paused", "sent", "made", "refused"},
                   does : {"edit", "delete", None},
                   for : Item \cup {None}, to : Item \cup {None}, waited : BOOLEAN]
  BY <1>3 DEF EditTypeOK
<1>7. \A k \in Item : DetailInv(k)'
  BY <1>1, <1>4 DEF DetailInv, KnownStale
<1>8. FormInv'
  <2>1. saving # NotSaving /\ (editor # None => sheet \in Item)
    BY <1>1 DEF NotSaving, FormInv, EditTypeOK
  <2>2. editor # None => ~(detail'[sheet'] = 0 /\ Reading(reading', sheet')) /\ choices' # "loading"
    BY <1>1 DEF FormInv, Reading
  <2> QED
    BY <1>1, <1>4, <2>1, <2>2 DEF FormInv
<1>9. SavingInv' /\ LandsStep
  BY <1>1, <1>4 DEF SavingInv, LandsStep
<1> QED
  BY <1>1, <1>5, <1>6, <1>7, <1>8, <1>9 DEF EditTypeOK, TypedStep

\* The success of a save closes the sheet, and what it leaves stale is marked,
\* fetched anew or known.
LEMMA DeliverSaveStep ==
  ASSUME EditInv, DeliverSave
  PROVE  EditInv' /\ TypedStep /\ LandsStep
<1> USE DEF EditInv
<1>1. /\ saving.at = "made" /\ saving' = NotSaving /\ sheet' = None /\ Render
      /\ outdated' = [i \in Item |-> outdated[i] \/ (i \in Invalidated /\ detail[i] # 0)]
      /\ reading' = [i \in Item |->
           IF i = sheet /\ i \in Invalidated /\ ~(detail[i] = 0 /\ Reading(reading, i))
             THEN DetailAsked ELSE reading[i]]
      /\ unsure' = unsure \cup
           {i \in Item : i = saving.to /\
                \/ ~Kind.allDetails /\ i # sheet
                \/ Reading(reading, i) /\ (i # sheet \/ detail[i] = 0)}
      /\ UNCHANGED <<row, detail, choices, online, saves, changes, outages>>
  BY DEF DeliverSave, editBounds
<1>2. DetailAsked \in DetailFetch /\ DetailAsked.at \in {"sent", "paused"}
  BY EditAssumption DEF DetailAsked, DetailFetch, Version, EditTypeOK
<1>3. reading' \in [Item -> DetailFetch]
  BY <1>1, <1>2 DEF EditTypeOK, DetailFetch
<1>4. outdated' \in [Item -> BOOLEAN] /\ unsure' \subseteq Item /\ unsure \subseteq unsure'
  BY <1>1 DEF EditTypeOK
<1>5. editor' = None
  BY <1>1, EditAssumption, FormRendered
<1>6. saving # NotSaving
  BY <1>1 DEF NotSaving
<1>7. TypedStep
  BY <1>6 DEF TypedStep, FormInv
<1>8. NotSaving.at = "idle" /\ NotSaving \in [at : {"idle", "paused", "sent", "made", "refused"},
                   does : {"edit", "delete", None},
                   for : Item \cup {None}, to : Item \cup {None}, waited : BOOLEAN]
  BY DEF NotSaving
<1>9. ASSUME NEW k \in Item
      PROVE  DetailInv(k)'
  <2>1. k = sheet => k \in Invalidated
    BY DEF Invalidated
  <2>2. k \notin Invalidated => ~Kind.allDetails /\ k # sheet
    BY DEF Invalidated
  <2>3. k = saving.to /\ k \notin Invalidated => k \in unsure'
    BY <1>1, <2>2
  <2>4. k = saving.to /\ reading'[k].at = "answered" => reading'[k] = reading[k] /\ k \in unsure'
    BY <1>1, <1>2, <2>1 DEF Reading
  <2>5. k # saving.to => (KnownStale(k) => k \in unsure')
    BY <1>4 DEF KnownStale
  <2>6. detail[k] # 0 /\ ~outdated'[k] => ~outdated[k] /\ k \notin Invalidated
    BY <1>1
  <2>7. reading'[k].at = "answered" => reading'[k] = reading[k]
    BY <1>1, <1>2
  <2>8. k \in unsure' => KnownStale(k)'
    BY DEF KnownStale
  <2> QED
    BY <1>1, <2>3, <2>4, <2>5, <2>6, <2>7, <2>8 DEF DetailInv
<1>10. FormInv' /\ SavingInv' /\ LandsStep
  BY <1>1, <1>5, <1>8 DEF FormInv, SavingInv, LandsStep, NotSaving
<1> QED
  BY <1>1, <1>3, <1>4, <1>5, <1>7, <1>8, <1>9, <1>10 DEF EditTypeOK, DetailFetch

\* A save that fails, or whose answer is lost, leaves the sheet as it is; what
\* the lost one wrote is known.
LEMMA FailSaveStep ==
  ASSUME EditInv, FailSave
  PROVE  EditInv' /\ TypedStep /\ LandsStep
<1> USE DEF EditInv
<1>1. /\ saving' = NotSaving /\ Render
      /\ unsure' = IF saving.at = "made" THEN unsure \cup {saving.to} ELSE unsure
      /\ UNCHANGED <<row, sheet, detail, outdated, reading, choices, online, saves, changes,
                     outages>>
  BY DEF FailSave, details, editBounds
<1>2. saving.at = "made" => saving.to \in Item
  BY DEF SavingInv, EditTypeOK
<1>3. unsure' \subseteq Item /\ (saving.at = "made" => saving.to \in unsure')
  BY <1>1, <1>2 DEF EditTypeOK
<1>4. NotSaving.at = "idle" /\ NotSaving \in [at : {"idle", "paused", "sent", "made", "refused"},
                   does : {"edit", "delete", None},
                   for : Item \cup {None}, to : Item \cup {None}, waited : BOOLEAN]
  BY DEF NotSaving
<1>5. \A k \in Item : DetailInv(k)'
  BY <1>1 DEF DetailInv, KnownStale
<1>6. FormInv' /\ editor' \in EditForm \cup {None}
  BY <1>1, <1>3, <1>5, FormKept DEF EditTypeOK, FormInv
<1>7. TypedStep
  BY <1>1, FormGone
<1>8. SavingInv'
  BY <1>1, <1>4 DEF SavingInv, NotSaving
<1> QED
  BY <1>1, <1>3, <1>4, <1>5, <1>6, <1>7, <1>8 DEF EditTypeOK, EditForm, LandsStep

\* Losing the connection changes nothing that is shown.
LEMMA OfflineStep ==
  ASSUME EditInv, GoOffline
  PROVE  EditInv' /\ TypedStep /\ LandsStep
<1> USE DEF EditInv
<1>1. /\ online' = FALSE /\ outages < MaxOffline /\ outages' = outages + 1
      /\ UNCHANGED <<row, sheet, detail, outdated, reading, choices, editor, saving, saves,
                     changes, unsure>>
  BY DEF GoOffline, details
<1>2. outages' \in 0..MaxOffline
  BY <1>1, EditAssumption DEF EditTypeOK
<1>3. EditTypeOK'
  <2>1. online' \in BOOLEAN
    BY <1>1
  <2> QED
    BY <1>1, <1>2, <2>1, ZenonT(30) DEF EditTypeOK
<1>4. (\A k \in Item : DetailInv(k)') /\ SavingInv'
  BY <1>1 DEF DetailInv, KnownStale, SavingInv
<1>5. FormInv'
  BY <1>1 DEF FormInv, Reading
<1> QED
  BY <1>1, <1>3, <1>4, <1>5 DEF TypedStep, LandsStep

\* Back on line, a paused fetch or save is sent; the save with the id of now.
LEMMA OnlineStep ==
  ASSUME EditInv, GoOnline
  PROVE  EditInv' /\ TypedStep /\ LandsStep
<1> USE DEF EditInv
<1>1. /\ online' = TRUE /\ Render
      /\ reading' = [i \in Item |->
           IF reading[i].at = "paused" THEN [NoRead EXCEPT !.at = "sent"] ELSE reading[i]]
      /\ saving' = IF saving.at # "paused" THEN saving
                   ELSE IF sheet = None THEN NotSaving
                   ELSE [saving EXCEPT !.at = "sent", !.to = sheet]
      /\ UNCHANGED <<row, sheet, detail, outdated, choices, saves, changes, outages, unsure>>
  BY DEF GoOnline, editBounds
<1>2. [NoRead EXCEPT !.at = "sent"] = [at |-> "sent", version |-> 0]
  BY DEF NoRead
<1>3. [at |-> "sent", version |-> 0] \in DetailFetch
  BY EditAssumption DEF DetailFetch, Version
<1>4. reading' \in [Item -> DetailFetch]
  BY <1>1, <1>2, <1>3 DEF EditTypeOK, DetailFetch
<1>5. NotSaving.at = "idle" /\ NotSaving \in [at : {"idle", "paused", "sent", "made", "refused"},
                   does : {"edit", "delete", None},
                   for : Item \cup {None}, to : Item \cup {None}, waited : BOOLEAN]
  BY DEF NotSaving
<1>6. saving' \in [at : {"idle", "paused", "sent", "made", "refused"},
                   does : {"edit", "delete", None},
                   for : Item \cup {None}, to : Item \cup {None}, waited : BOOLEAN]
  BY <1>1, <1>5 DEF EditTypeOK
<1>7. \/ saving' = saving
      \/ saving'.at \in {"idle", "sent"} /\ saving.at = "paused" /\ saving # NotSaving
  <2>1. saving.at = "paused" => saving # NotSaving
    BY <1>5
  <2>2. [saving EXCEPT !.at = "sent", !.to = sheet].at = "sent"
    BY DEF EditTypeOK
  <2>3. CASE saving.at # "paused"
    BY <1>1, <2>3
  <2>4. CASE saving.at = "paused" /\ sheet = None
    <3>1. saving' = NotSaving
      BY <1>1, <2>4
    <3> QED
      BY <1>5, <2>1, <2>4, <3>1
  <2>5. CASE saving.at = "paused" /\ sheet # None
    <3>1. saving' = [saving EXCEPT !.at = "sent", !.to = sheet]
      BY <1>1, <2>5
    <3> QED
      BY <2>1, <2>2, <2>5, <3>1
  <2> QED
    BY <2>3, <2>4, <2>5
<1>8. SavingInv'
  BY <1>1, <1>5 DEF SavingInv, EditTypeOK, NotSaving
<1>9. \A k \in Item : DetailInv(k)'
  BY <1>1, <1>2, <1>7 DEF DetailInv, KnownStale
<1>10. FormInv' /\ editor' \in EditForm \cup {None}
  BY <1>1, <1>7, <1>9, FormKept DEF EditTypeOK, FormInv
<1>11. TypedStep /\ LandsStep
  BY <1>1, FormGone DEF LandsStep
<1> QED
  BY <1>1, <1>4, <1>6, <1>8, <1>9, <1>10, <1>11 DEF EditTypeOK, EditForm, DetailFetch

\* Every step keeps the invariant and does what the two properties say.
LEMMA EditStep ==
  ASSUME EditInv, [EditNext]_evars
  PROVE  EditInv' /\ TypedStep /\ LandsStep
<1>1. CASE UNCHANGED evars
  BY <1>1 DEF evars, details, editBounds, EditInv, EditTypeOK, DetailInv, KnownStale, FormInv,
              SavingInv, TypedStep, LandsStep, Reading
<1>2. CASE EditNext
  BY <1>2, OpenStep, OutdateStep, ReadAgainStep, OtherWritesStep, ReadStep, ChoicesStep,
     DeliverReadStep, CloseStep, TypeStep, RequestStep, ServeSaveStep, DeliverSaveStep,
     FailSaveStep, OfflineStep, OnlineStep DEF EditNext
<1> QED
  BY <1>1, <1>2

\* The sheet starts closed, with nothing cached.
LEMMA EditStart ==
  ASSUME EditInit
  PROVE  EditInv
<1>1. NoRead \in DetailFetch /\ NoRead.at = "idle"
  BY EditAssumption DEF NoRead, DetailFetch, Version
<1>2. NotSaving \in [at : {"idle", "paused", "sent", "made", "refused"},
                   does : {"edit", "delete", None},
                   for : Item \cup {None}, to : Item \cup {None}, waited : BOOLEAN]
  BY DEF NotSaving
<1>3. EditTypeOK
  BY <1>1, <1>2, EditAssumption DEF EditInit, EditTypeOK, DetailFetch, Version
<1>4. \A k \in Item : DetailInv(k)
  BY <1>1 DEF EditInit, DetailInv
<1>5. FormInv /\ SavingInv
  BY DEF EditInit, FormInv, SavingInv, NotSaving
<1> QED
  BY <1>3, <1>4, <1>5 DEF EditInv

\* The type invariant of EditSheet.
THEOREM EditSheetTyped == EditSpec => []EditTypeOK
<1>1. EditInv => EditTypeOK
  BY DEF EditInv
<1> QED
  BY <1>1, EditStart, EditStep, PTL DEF EditSpec

\* A form that would write old values back has a known reason
\* (edit-transaction-sheet.tsx).
THEOREM StaleFormsExplained == EditSpec => []StaleFormExplained
<1>1. EditInv => StaleFormExplained
  BY DEF EditInv, EditTypeOK, FormInv, DetailInv, KnownStale, StaleFormExplained
<1> QED
  BY <1>1, EditStart, EditStep, PTL DEF EditSpec

\* What is typed into an edit form goes because the user closes it, or because
\* what could not be read is read again (edit-transaction-sheet.tsx:75).
THEOREM OnlyTheUserDiscards == EditSpec => NothingTypedIsDiscarded
<1>1. TypedStep => (editor # None /\ editor.typed /\ editor' = None =>
          \/ sheet' = None /\ UNCHANGED saving
          \/ sheet' = sheet /\ detail[sheet] = 0 /\ reading[sheet].at \in {"idle", "paused"}
          \/ sheet' = sheet /\ choices = "none" /\ choices' = "loading")
  BY DEF TypedStep
<1> QED
  BY <1>1, EditStart, EditStep, PTL DEF EditSpec, NothingTypedIsDiscarded

\* A save writes the row it was made for, unless it waited
\* (use-edit-transaction.ts:19).
THEOREM SavesLand == EditSpec => SaveLandsOnItsRow
<1>1. LandsStep => (\A i \in Item : row'[i] # row[i] /\ saving' # saving =>
          saving.for = i \/ (saving.waited /\ saving.to = i))
  BY DEF LandsStep
<1> QED
  BY <1>1, EditStart, EditStep, PTL DEF EditSpec, SaveLandsOnItsRow

-----------------------------------------------------------------------------
(* NewSheet.  What is awaited belongs to one form; the invariant says what is *)
(* chosen in it, and that nothing is typed while it is being submitted.    *)

Entry ==
  [no : 1..MaxForms, account : AccountId \cup {None}, created : AccountId \cup {None},
   asked : SUBSET AccountId, typed : BOOLEAN]
Making == [at : {"idle", "sent", "made", "refused"}, by : 0..MaxForms, id : AccountId]
Filing == [at : {"idle", "sent", "made", "refused"}, account : AccountId]

\* The inductive invariant: the list has no account that was not made, one more
\* can be made while one is asked for, and nothing is typed into a form while
\* a transaction is being created.
NewInv ==
  /\ NewTypeOK
  /\ ChoiceIsShown
  /\ options \subseteq 0..accounts
  /\ making.at = "sent" => accounts < MaxAccounts
  /\ entry # None /\ filing # NotFiling => ~entry.typed

\* What the action property says of one step.
UnsavedStep ==
  /\ entry # None /\ entry.typed /\ entry' # entry /\ (entry' = None \/ entry'.no # entry.no) =>
       \/ opened /\ ~opened' /\ UNCHANGED <<making, filing>>
       \/ opened' /\ LoadsAgain
  /\ files' # files => making = NotMaking

\* A form is not the absence of one, nor is an account.
LEMMA EntryIsThere ==
  /\ None \notin Entry /\ None \notin AccountId /\ 0 \in AccountId
  /\ AccountId \subseteq Nat
<1>1. AccountId \subseteq Nat /\ 0 \in AccountId
  BY NewAssumption DEF AccountId
<1>2. \A e \in Entry : e \in [no : Nat, account : Nat \cup {None}, created : Nat \cup {None},
                    asked : SUBSET Nat, typed : BOOLEAN]
  <2> SUFFICES ASSUME NEW e \in Entry
               PROVE  e \in [no : Nat, account : Nat \cup {None}, created : Nat \cup {None},
                             asked : SUBSET Nat, typed : BOOLEAN]
    OBVIOUS
  <2>1. /\ e = [no |-> e.no, account |-> e.account, created |-> e.created,
                asked |-> e.asked, typed |-> e.typed]
        /\ e.no \in 1..MaxForms /\ e.account \in AccountId \cup {None}
        /\ e.created \in AccountId \cup {None} /\ e.asked \subseteq AccountId
        /\ e.typed \in BOOLEAN
    BY DEF Entry
  <2>2. e.no \in Nat /\ e.asked \subseteq Nat
    BY <1>1, <2>1, NewAssumption
  <2> QED
    BY <1>1, <2>1, <2>2
<1> QED
  BY <1>1, <1>2, NewAssumption

\* What the sheet shows after a step that renders it anew: no form, the same
\* one, or an empty one; what a form shows of its choice goes only with the
\* account.
LEMMA EntryShown ==
  ASSUME NewInv, Shown, opened' \in BOOLEAN,
         options \subseteq options' \cup deleted', deleted \subseteq deleted',
         filing' = filing \/ filing' = NotFiling
  PROVE  /\ (entry' # None) = (opened' /\ ~IsLoading(lists'))
         /\ entry' \in Entry \cup {None} /\ forms' \in 0..MaxForms
         /\ ChoiceIsShown'
         /\ entry' # None /\ filing' # NotFiling => ~entry'.typed
         /\ entry # None => entry' = entry \/ (entry' = None /\ (~opened' \/ IsLoading(lists')))
<1> USE DEF NewInv
<1>1. CASE ~opened' \/ IsLoading(lists')
  BY <1>1 DEF Shown, NewTypeOK, ChoiceIsShown
<1>2. CASE opened' /\ ~IsLoading(lists') /\ entry # None
  <2>1. UNCHANGED <<entry, forms>>
    BY <1>2 DEF Shown
  <2>2. ChoiceIsShown'
    BY <2>1 DEF ChoiceIsShown, MergedOptions
  <2> QED
    BY <1>2, <2>1, <2>2 DEF NewTypeOK, Entry
<1>3. CASE opened' /\ ~IsLoading(lists') /\ entry = None
  <2>1. forms < MaxForms /\ forms' = forms + 1 /\ entry' = EmptyForm(forms + 1)
    BY <1>3 DEF Shown
  <2>2. EmptyForm(forms + 1) \in Entry /\ forms' \in 0..MaxForms
    BY <2>1, NewAssumption DEF Entry, EmptyForm, NewTypeOK
  <2>3. entry' # None /\ entry'.account = None /\ ~entry'.typed
    BY <2>1, <2>2, EntryIsThere DEF EmptyForm
  <2> QED
    BY <1>3, <2>1, <2>2, <2>3 DEF ChoiceIsShown
<1> QED
  BY <1>1, <1>2, <1>3

\* The sheet opens with an empty form, and closes.
LEMMA SheetStep ==
  ASSUME NewInv, OpenSheet \/ CloseSheet
  PROVE  NewInv' /\ UnsavedStep
<1> USE DEF NewInv
<1>1. /\ UNCHANGED <<accounts, deleted, filed, lists, options, making, filing, files>>
      /\ Shown /\ opened' \in BOOLEAN
  BY DEF OpenSheet, CloseSheet, ledger, queried
<1>2. entry # None => opened /\ ~IsLoading(lists)
  BY DEF NewTypeOK
<1>3. UnsavedStep
  BY <1>1, <1>2, EntryShown DEF UnsavedStep
<1> QED
  BY <1>1, <1>3, EntryShown DEF NewTypeOK, Entry

\* A list is asked for, arrives or fails.
LEMMA ListStep ==
  ASSUME NewInv, NEW l \in AnyList, FetchList(l) \/ ListArrives(l) \/ ListFails(l)
  PROVE  NewInv' /\ UnsavedStep
<1> USE DEF NewInv
<1>1. /\ UNCHANGED <<accounts, deleted, filed, opened, making, filing, files>>
      /\ Shown
  BY DEF FetchList, ListArrives, ListFails, ledger
<1>2. /\ options \subseteq options' \cup deleted'
      /\ options' \subseteq 0..accounts' /\ options' \subseteq AccountId
  <2>1. options' \in {options, Existing}
    BY DEF FetchList, ListArrives, ListFails
  <2>2. Existing \subseteq 0..accounts /\ 0..accounts \subseteq AccountId
    BY NewAssumption DEF Existing, NewTypeOK, AccountId
  <2> QED
    BY <1>1, <2>1, <2>2 DEF Existing
<1>3. lists' \in [AnyList -> {"none", "loading", "loaded"}]
  BY DEF FetchList, ListArrives, ListFails, NewTypeOK
<1>4. IsLoading(lists') => IsLoading(lists) \/ LoadsAgain
  BY DEF FetchList, ListArrives, ListFails, NewTypeOK, IsLoading, LoadsAgain
<1>5. entry # None => opened /\ ~IsLoading(lists)
  BY DEF NewTypeOK
<1>6. UnsavedStep
  BY <1>1, <1>2, <1>4, <1>5, EntryShown DEF UnsavedStep, NewTypeOK
<1> QED
  BY <1>1, <1>2, <1>3, <1>6, EntryShown DEF NewTypeOK, Entry

\* The user types, chooses an account or asks for a new one, in a form that no
\* request disables.
LEMMA EntryStep ==
  ASSUME NewInv, Fill \/ (\E a \in AccountId : Choose(a)) \/ OnCreateOption
  PROVE  NewInv' /\ UnsavedStep
<1> USE DEF NewInv
<1>1. /\ entry # None /\ making = NotMaking /\ filing = NotFiling /\ entry \in Entry
      /\ UNCHANGED <<accounts, deleted, filed, opened, lists, options, filing, forms, files>>
  <2>1. NewEnabled
    BY Zenon DEF Fill, Choose, OnCreateOption
  <2>2. UNCHANGED <<ledger, opened, queried, filing, forms, files>>
    BY Zenon DEF Fill, Choose, OnCreateOption
  <2>3. UNCHANGED <<accounts, deleted, filed, opened, lists, options, filing, forms, files>>
    BY <2>2 DEF ledger, queried
  <2> QED
    BY <2>1, <2>3 DEF NewEnabled, IsPending, NewTypeOK, Entry
<1>2. ASSUME NEW a \in AccountId, Choose(a)
      PROVE  NewInv' /\ UnsavedStep
  <2>1. /\ a \in MergedOptions(entry) /\ making' = making
        /\ entry' = [entry EXCEPT !.account = a, !.asked = @ \cup {a}, !.typed = TRUE]
    BY Zenon, <1>2 DEF Choose
  <2>2. /\ entry' \in Entry /\ entry'.created = entry.created /\ entry'.no = entry.no
        /\ entry'.account = a /\ a \in entry'.asked
    BY <1>1, <2>1 DEF Entry
  <2>3. entry' # None
    BY <2>2, EntryIsThere
  <2>4. ChoiceIsShown'
    BY <1>1, <2>1, <2>2 DEF ChoiceIsShown, MergedOptions
  <2> QED
    BY <1>1, <2>1, <2>2, <2>3, <2>4 DEF NewTypeOK, Entry, UnsavedStep
<1>3. CASE Fill \/ OnCreateOption
  <2>1. entry' = [entry EXCEPT !.typed = TRUE]
    BY <1>3 DEF Fill, OnCreateOption, ledger, queried
  <2>2. /\ entry' \in Entry /\ entry'.created = entry.created /\ entry'.no = entry.no
        /\ entry'.account = entry.account /\ entry'.asked = entry.asked
    BY <1>1, <2>1 DEF Entry
  <2>3. entry' # None
    BY <2>2, EntryIsThere
  <2>4. ChoiceIsShown'
    BY <1>1, <2>2 DEF ChoiceIsShown, MergedOptions
  <2>5. making' \in Making /\ (making'.at = "sent" => accounts < MaxAccounts)
    <3>1. CASE Fill
      BY <3>1 DEF Fill, Making, NewTypeOK, ledger, queried
    <3>2. CASE OnCreateOption
      BY <1>1, <3>2, EntryIsThere, NewAssumption DEF OnCreateOption, Making, Entry, ledger, queried
    <3> QED
      BY <1>3, <3>1, <3>2
  <2> QED
    BY <1>1, <2>1, <2>2, <2>3, <2>4, <2>5 DEF NewTypeOK, Entry, Making, UnsavedStep
<1> QED
  BY <1>2, <1>3

\* What the server does, and a failure, leave the form alone.
LEMMA AccountStep ==
  ASSUME NewInv, ServeAccount \/ FailAccount \/ (\E a \in AccountId : DeleteElsewhere(a))
  PROVE  NewInv' /\ UnsavedStep
<1> USE DEF NewInv
<1>1. UNCHANGED <<filed, opened, entry, lists, options, filing, forms, files>>
  BY DEF ServeAccount, FailAccount, DeleteElsewhere, ledger, queried
<1>2. making \in Making
  BY DEF NewTypeOK, Making
<1>3. /\ accounts' \in AccountId /\ making' \in Making
      /\ options' \subseteq 0..accounts'
      /\ deleted \subseteq deleted' /\ deleted' \subseteq AccountId
      /\ making'.at = "sent" => accounts' < MaxAccounts
  <2>1. CASE ServeAccount
    <3>1. making.at = "sent" /\ options' = options /\ deleted' = deleted
      BY <1>1, <2>1 DEF ServeAccount
    <3>2. CASE accounts' = accounts + 1 /\ making' = [making EXCEPT !.at = "made", !.id = accounts + 1]
      <4>1. accounts + 1 \in AccountId
        BY <3>1, NewAssumption DEF NewTypeOK, AccountId
      <4> QED
        <5>1. making' \in Making /\ making'.at = "made"
          BY <1>2, <3>2, <4>1 DEF Making
        <5>2. 0..accounts \subseteq 0..accounts'
          BY <3>2, NewAssumption DEF NewTypeOK, AccountId
        <5> QED
          BY <3>1, <3>2, <4>1, <5>1, <5>2 DEF NewTypeOK
    <3>3. CASE making' = [making EXCEPT !.at = "refused"] /\ UNCHANGED accounts
      BY <1>2, <3>1, <3>3 DEF Making, NewTypeOK
    <3> QED
      BY <2>1, <3>2, <3>3 DEF ServeAccount
  <2>2. CASE FailAccount
    BY <1>1, <2>2, EntryIsThere, NewAssumption DEF FailAccount, ledger, NotMaking, Making, NewTypeOK
  <2>3. CASE \E a \in AccountId : DeleteElsewhere(a)
    BY <1>1, <1>2, <2>3 DEF DeleteElsewhere, NewTypeOK
  <2> QED
    BY <2>1, <2>2, <2>3
<1>4. options' \subseteq AccountId
  BY <1>3, NewAssumption DEF AccountId
<1>5. ChoiceIsShown'
  BY <1>1, <1>3 DEF ChoiceIsShown, MergedOptions
<1> QED
  BY <1>1, <1>3, <1>4, <1>5 DEF NewTypeOK, Making, UnsavedStep

\* A new account is chosen in the form that asked for it, and in no other.
LEMMA DeliverAccountStep ==
  ASSUME NewInv, DeliverAccount
  PROVE  NewInv' /\ UnsavedStep
<1> USE DEF NewInv
<1>1. /\ making.at = "made" /\ making' = NotMaking
      /\ UNCHANGED <<accounts, deleted, filed, opened, lists, options, filing, forms, files>>
  BY DEF DeliverAccount, ledger, queried
<1>2. making.id \in AccountId /\ NotMaking \in Making /\ NotMaking.at = "idle"
  BY EntryIsThere, NewAssumption DEF NewTypeOK, NotMaking, Making
<1>3. CASE entry' = entry
  BY <1>1, <1>2, <1>3 DEF NewTypeOK, Making, ChoiceIsShown, MergedOptions, UnsavedStep
<1>4. CASE /\ entry # None
           /\ entry' = [entry EXCEPT !.account = making.id, !.created = making.id,
                          !.asked = @ \cup {making.id}]
  <2>1. entry \in Entry
    BY <1>4 DEF NewTypeOK, Entry
  <2>2. /\ entry' \in Entry /\ entry'.account = making.id /\ entry'.created = making.id
        /\ making.id \in entry'.asked /\ entry'.typed = entry.typed /\ entry'.no = entry.no
    BY <1>2, <1>4, <2>1 DEF Entry
  <2>3. entry' # None /\ making.id # None
    BY <1>2, <2>2, EntryIsThere
  <2>4. ChoiceIsShown'
    BY <2>2, <2>3 DEF ChoiceIsShown, MergedOptions
  <2> QED
    BY <1>1, <1>2, <1>4, <2>2, <2>3, <2>4 DEF NewTypeOK, Entry, Making, UnsavedStep
<1> QED
  BY <1>3, <1>4 DEF DeliverAccount, Awaiting

\* Submitting locks the form, in which nothing is typed until the answer.
LEMMA SubmitStep ==
  ASSUME NewInv, SubmitNew
  PROVE  NewInv' /\ UnsavedStep
<1> USE DEF NewInv
<1>1. /\ entry # None /\ making = NotMaking /\ entry.account # None
      /\ files < MaxFiles /\ files' = files + 1
      /\ filing' = [at |-> "sent", account |-> entry.account]
      /\ entry' = [entry EXCEPT !.typed = FALSE]
      /\ UNCHANGED <<accounts, deleted, filed, opened, lists, options, making, forms>>
  BY DEF SubmitNew, NewEnabled, IsPending, ledger, queried
<1>2. entry \in Entry
  BY <1>1 DEF NewTypeOK, Entry
<1>3. /\ entry' \in Entry /\ entry'.account = entry.account /\ entry'.created = entry.created
      /\ entry'.asked = entry.asked /\ ~entry'.typed /\ entry'.no = entry.no
  BY <1>1, <1>2 DEF Entry
<1>4. entry' # None
  BY <1>3, EntryIsThere
<1>5. filing' \in Filing /\ files' \in 0..MaxFiles
  BY <1>1, <1>2, NewAssumption DEF Entry, Filing, NewTypeOK
<1>6. ChoiceIsShown'
  BY <1>1, <1>3 DEF ChoiceIsShown, MergedOptions
<1> QED
  BY <1>1, <1>3, <1>4, <1>5, <1>6 DEF NewTypeOK, Entry, Filing, UnsavedStep

\* The transaction's request: its form has nothing typed in it that could be
\* lost when the sheet is closed.
LEMMA TransactionStep ==
  ASSUME NewInv, ServeTransaction \/ DeliverTransaction \/ FailTransaction
  PROVE  NewInv' /\ UnsavedStep
<1> USE DEF NewInv
<1>1. /\ UNCHANGED <<accounts, deleted, lists, options, making, files>> /\ filing.at # "idle"
  BY DEF ServeTransaction, DeliverTransaction, FailTransaction, ledger, queried
<1>2. filing \in Filing /\ NotFiling \in Filing /\ filing # NotFiling
  BY <1>1, EntryIsThere DEF NewTypeOK, Filing, NotFiling
<1>3. entry # None => ~entry.typed
  BY <1>2
<1>4. filing' \in Filing /\ filed' \in [1..MaxFiles -> AccountId \cup {None}]
  BY <1>2 DEF ServeTransaction, DeliverTransaction, FailTransaction, Filing, NewTypeOK, ledger
<1>5. CASE UNCHANGED <<opened, entry, forms>>
  BY <1>1, <1>3, <1>4, <1>5 DEF NewTypeOK, Filing, ChoiceIsShown, MergedOptions, UnsavedStep
<1>6. CASE DeliverTransaction
  <2>1. Shown /\ opened' = FALSE /\ filing' = NotFiling
    BY <1>6 DEF DeliverTransaction
  <2> QED
    BY <1>1, <1>3, <1>4, <2>1, EntryShown DEF NewTypeOK, Entry, Filing, UnsavedStep
<1> QED
  BY <1>5, <1>6 DEF ServeTransaction, FailTransaction

\* Every step keeps the invariant and does what the property says.
LEMMA NewStep ==
  ASSUME NewInv, [NewNext]_newvars
  PROVE  NewInv' /\ UnsavedStep
<1>1. CASE UNCHANGED newvars
  BY <1>1 DEF newvars, ledger, queried, NewInv, NewTypeOK, ChoiceIsShown, MergedOptions, UnsavedStep
<1>2. CASE NewNext
  BY <1>2, SheetStep, ListStep, EntryStep, AccountStep, DeliverAccountStep, SubmitStep, TransactionStep
     DEF NewNext
<1> QED
  BY <1>1, <1>2

\* The sheet starts closed, its lists on their way.
LEMMA NewStart ==
  ASSUME NewInit
  PROVE  NewInv
<1>1. NotMaking \in Making /\ NotFiling \in Filing /\ NotMaking.at = "idle"
  BY EntryIsThere, NewAssumption DEF Making, Filing, NotMaking, NotFiling
<1>2. NewTypeOK
  <2>1. /\ accounts \in AccountId /\ deleted \subseteq AccountId /\ options \subseteq AccountId
        /\ IsLoading(lists) /\ lists \in [AnyList -> {"none", "loading", "loaded"}]
        /\ filed \in [1..MaxFiles -> AccountId \cup {None}]
        /\ forms \in 0..MaxForms /\ files \in 0..MaxFiles
    BY EntryIsThere, NewAssumption DEF NewInit, IsLoading, AnyList
  <2> QED
    BY <1>1, <2>1 DEF NewInit, NewTypeOK, Making, Filing
<1> QED
  BY <1>1, <1>2 DEF NewInit, NewInv, ChoiceIsShown

\* The type invariant of NewSheet.
THEOREM NewSheetTyped == NewSpec => []NewTypeOK
<1>1. NewInv => NewTypeOK
  BY DEF NewInv
<1> QED
  BY <1>1, NewStart, NewStep, PTL DEF NewSpec

\* What would be submitted is shown, and the user's own choice
\* (select.tsx:38).
THEOREM TheChoiceIsShown == NewSpec => []ChoiceIsShown
<1>1. NewInv => ChoiceIsShown
  BY DEF NewInv
<1> QED
  BY <1>1, NewStart, NewStep, PTL DEF NewSpec

\* What is typed into a new form goes because the user closes it, or because a
\* list that failed is read again (new-transaction-sheet.tsx:57,72).
THEOREM NewFormsKept == NewSpec => NothingUnsavedIsLost
<1>1. UnsavedStep =>
       (/\ entry # None /\ entry.typed /\ entry' # entry /\ (entry' = None \/ entry'.no # entry.no) =>
             \/ opened /\ ~opened' /\ UNCHANGED <<making, filing>>
             \/ opened' /\ LoadsAgain
        /\ files' # files => making = NotMaking)
  BY DEF UnsavedStep
<1> QED
  BY <1>1, NewStart, NewStep, PTL DEF NewSpec, NothingUnsavedIsLost

-----------------------------------------------------------------------------
(* DateFilter.  Of the calendar only what CalendarAssumption says is used. *)

Months == 1..(Len(MonthStart) - 1)
InMonth(d, m) == MonthStart[m] <= d /\ d < MonthStart[m + 1]

\* The inductive invariant: as long as no filter was set over another's
\* navigation, where it is going is what the user chose.
FilterInv ==
  /\ FilterTypeOK
  /\ ~overtaken => picked = IF going = None THEN url ELSE going

\* What is assumed of the calendar, in parts.
LEMMA CalendarTyped ==
  /\ Len(MonthStart) \in Nat /\ DOMAIN MonthStart = 1..Len(MonthStart)
  /\ Len(MonthStart) % 12 = 1
  /\ \A m \in 1..Len(MonthStart) : MonthStart[m] \in Int
<1>1. MonthStart \in Seq(Int) /\ Len(MonthStart) % 12 = 1
  BY CalendarAssumption
<1> QED
  BY <1>1

\* The months of the calendar have between 28 and 31 days.
LEMMA MonthDays ==
  ASSUME NEW m \in Months
  PROVE  /\ m \in Int /\ 1 <= m /\ m < Len(MonthStart)
         /\ MonthStart[m] \in Int /\ MonthStart[m + 1] \in Int
         /\ MonthStart[m + 1] - MonthStart[m] \in 28..31
<1>1. m \in 1..(Len(MonthStart) - 1)
  BY DEF Months
<1>2. MonthStart[m + 1] - MonthStart[m] \in 28..31
  BY <1>1, CalendarAssumption
<1>3. m \in 1..Len(MonthStart) /\ m + 1 \in 1..Len(MonthStart)
  BY <1>1, CalendarTyped
<1> QED
  BY <1>1, <1>2, <1>3, CalendarTyped

\* The years have 365 or 366.
LEMMA YearDays ==
  ASSUME NEW j \in 1..(Len(MonthStart) - 12), j % 12 = 1
  PROVE  /\ MonthStart[j] \in Int /\ MonthStart[j + 12] \in Int
         /\ MonthStart[j + 12] - MonthStart[j] \in {365, 366}
<1>1. MonthStart[j + 12] - MonthStart[j] \in {365, 366}
  BY CalendarAssumption
<1>2. j \in 1..Len(MonthStart) /\ j + 12 \in 1..Len(MonthStart)
  BY CalendarTyped
<1> QED
  BY <1>1, <1>2, CalendarTyped

\* The month of a day it may be has a year before it.
LEMMA TodayHasAMonth ==
  ASSUME NEW now \in Today
  PROVE  /\ now \in Nat
         /\ \E m \in Months : InMonth(now, m) /\ m - 1 \in Months /\ m - 12 \in Months
<1>1. now \in Nat
  BY CalendarAssumption
<1>2. PICK m \in 13..(Len(MonthStart) - 1) : MonthStart[m] <= now /\ now < MonthStart[m + 1]
  BY CalendarAssumption
<1>3. m \in Months /\ m - 1 \in Months /\ m - 12 \in Months
  BY CalendarTyped DEF Months
<1> QED
  BY <1>1, <1>2, <1>3 DEF InMonth

\* A day is in one month.
LEMMA MonthOf ==
  ASSUME NEW d \in Int, NEW m \in Months, InMonth(d, m)
  PROVE  Month(d) = m
<1>1. MonthStart \in Seq(Int) /\ DOMAIN MonthStart = 1..Len(MonthStart)
  BY CalendarAssumption
<1>2. m \in DOMAIN MonthStart /\ m + 1 \in DOMAIN MonthStart
  BY <1>1 DEF Months
<1>3. ASSUME NEW k \in DOMAIN MonthStart, MonthStart[k] <= d, d < MonthStart[k + 1]
      PROVE  k = m
  <2>1. k \in 1..Len(MonthStart) /\ m \in 1..Len(MonthStart) /\ m + 1 \in 1..Len(MonthStart)
    BY <1>1, <1>2
  <2>2. /\ MonthStart[k] \in Int /\ MonthStart[m] \in Int /\ MonthStart[m + 1] \in Int
    BY <1>1, <2>1
  <2>3. k < m + 1
    <3>1. ~(m + 1 < k)
      BY <1>3, <2>1, <2>2, CalendarAssumption DEF InMonth
    <3>2. k # m + 1
      BY <1>3, <2>2 DEF InMonth
    <3> QED
      BY <3>1, <3>2, <2>1
  <2>4. ~(k < m)
    <3> SUFFICES ASSUME k < m PROVE FALSE
      OBVIOUS
    <3>1. k + 1 \in 1..Len(MonthStart) /\ MonthStart[k + 1] \in Int
      BY <1>1, <2>1
    <3>2. MonthStart[k + 1] <= MonthStart[m]
      BY <2>1, <2>2, <3>1, CalendarAssumption
    <3> QED
      BY <1>3, <2>2, <3>1, <3>2 DEF InMonth
  <2> QED
    BY <2>1, <2>3, <2>4
<1>4. \E k \in DOMAIN MonthStart : MonthStart[k] <= d /\ d < MonthStart[k + 1]
  BY <1>2 DEF InMonth
<1> QED
  BY <1>3, <1>4 DEF Month

\* A month begins and ends as the calendar says.
LEMMA MonthRange ==
  ASSUME NEW d \in Int, NEW m \in Months, InMonth(d, m)
  PROVE  /\ StartOfMonth(d) \in Int /\ EndOfMonth(d) \in Int
         /\ EndOfMonth(d) - StartOfMonth(d) \in 27..30
<1>1. StartOfMonth(d) = MonthStart[m] /\ EndOfMonth(d) = MonthStart[m + 1] - 1
  BY MonthOf DEF StartOfMonth, EndOfMonth
<1> QED
  BY <1>1, MonthDays

\* So does a year, which has 365 days or 366.
LEMMA YearRange ==
  ASSUME NEW d \in Int, NEW m \in Months, InMonth(d, m)
  PROVE  /\ StartOfYear(d) \in Int /\ EndOfYear(d) \in Int
         /\ EndOfYear(d) - StartOfYear(d) \in {364, 365}
<1> DEFINE j == m - ((m - 1) % 12)
<1>1. StartOfYear(d) = MonthStart[j] /\ EndOfYear(d) = MonthStart[j + 12] - 1
  BY MonthOf DEF StartOfYear, EndOfYear, January
<1>2. m \in Int /\ 1 <= m /\ m < Len(MonthStart)
  BY MonthDays
<1>3. j \in Int /\ 1 <= j /\ j <= m /\ j % 12 = 1
  BY <1>2
<1> HIDE DEF j
<1>4. j + 12 <= Len(MonthStart)
  BY <1>2, <1>3, CalendarTyped
<1>5. j \in 1..(Len(MonthStart) - 12)
  BY <1>3, <1>4, CalendarTyped
<1>6. /\ MonthStart[j] \in Int /\ MonthStart[j + 12] \in Int
      /\ MonthStart[j + 12] - MonthStart[j] \in {365, 366}
  BY <1>3, <1>5, YearDays
<1> QED
  BY <1>1, <1>6

\* n months before a day is in the month n before.
LEMMA MonthsBefore ==
  ASSUME NEW d \in Int, NEW m \in Months, InMonth(d, m), NEW n \in Nat, m - n \in Months
  PROVE  SubMonths(d, n) \in Int /\ InMonth(SubMonths(d, n), m - n)
<1>1. Month(d) = m
  BY MonthOf
<1> DEFINE k == m - n
<1>2. /\ MonthStart[m] \in Int /\ MonthStart[k] \in Int /\ MonthStart[k + 1] \in Int
      /\ MonthStart[k + 1] - MonthStart[k] \in 28..31
  BY MonthDays
<1>3. SubMonths(d, n) = IF MonthStart[k] + (d - MonthStart[m]) < MonthStart[k + 1]
                        THEN MonthStart[k] + (d - MonthStart[m]) ELSE MonthStart[k + 1] - 1
  BY <1>1 DEF SubMonths, StartOfMonth
<1> HIDE DEF k
<1>4. MonthStart[m] <= d
  BY DEF InMonth
<1>5. SubMonths(d, n) \in Int /\ InMonth(SubMonths(d, n), k)
  BY <1>2, <1>3, <1>4 DEF InMonth
<1> QED
  BY <1>5 DEF k

\* A week has seven days.
LEMMA WeekRange ==
  ASSUME NEW d \in Int
  PROVE  /\ StartOfWeek(d) \in Int /\ EndOfWeek(d) \in Int
         /\ EndOfWeek(d) - StartOfWeek(d) = 6
  BY DEF StartOfWeek, EndOfWeek

\* What each preset ranges over.
LEMMA PresetRanges ==
  ASSUME NEW now \in Today, NEW p \in AnyPreset
  PROVE  \E f, t \in Int :
            /\ PresetRange(p, now) = Span(f, t)
            /\ p # "allTime" => t - f \in 0..365
            /\ p = "allTime" => t - f >= 366
<1>1. now \in Int /\ now >= 0
  BY TodayHasAMonth
<1>2. PICK m \in Months : InMonth(now, m) /\ m - 1 \in Months /\ m - 12 \in Months
  BY TodayHasAMonth
<1>3. p = "today" => PresetRange(p, now) = Span(now, now)
  BY DEF PresetRange
<1>4. p = "yesterday" => PresetRange(p, now) = Span(now - 1, now - 1)
  BY DEF PresetRange
<1>5. p = "allTime" => PresetRange(p, now) = Span(-8401, now)
  BY DEF PresetRange
<1>6. CASE p = "thisWeek"
  <2>1. PresetRange(p, now) = Span(StartOfWeek(now), EndOfWeek(now))
    BY <1>6 DEF PresetRange
  <2> QED
    BY <1>1, <1>6, <2>1, WeekRange
<1>7. CASE p = "lastWeek"
  <2>1. PresetRange(p, now) = Span(StartOfWeek(now - 7), EndOfWeek(now - 7))
    BY <1>7 DEF PresetRange
  <2>2. now - 7 \in Int
    BY <1>1
  <2>3. /\ StartOfWeek(now - 7) \in Int /\ EndOfWeek(now - 7) \in Int
        /\ EndOfWeek(now - 7) - StartOfWeek(now - 7) \in 0..365
    BY <2>2, WeekRange
  <2> QED
    BY <1>7, <2>1, <2>3
<1>8. CASE p = "thisMonth"
  <2>1. PresetRange(p, now) = Span(StartOfMonth(now), EndOfMonth(now))
    BY <1>8 DEF PresetRange
  <2> QED
    BY <1>1, <1>2, <1>8, <2>1, MonthRange
<1>9. CASE p = "thisYear"
  <2>1. PresetRange(p, now) = Span(StartOfYear(now), EndOfYear(now))
    BY <1>9 DEF PresetRange
  <2> QED
    BY <1>1, <1>2, <1>9, <2>1, YearRange
<1>10. CASE p = "lastMonth"
  <2>1. PresetRange(p, now) = Span(StartOfMonth(SubMonths(now, 1)), EndOfMonth(SubMonths(now, 1)))
    BY <1>10 DEF PresetRange
  <2>2. SubMonths(now, 1) \in Int /\ InMonth(SubMonths(now, 1), m - 1)
    BY <1>1, <1>2, MonthsBefore
  <2> QED
    BY <1>2, <1>10, <2>1, <2>2, MonthRange
<1>11. CASE p = "lastYear"
  <2>1. PresetRange(p, now) = Span(StartOfYear(SubMonths(now, 12)), EndOfYear(SubMonths(now, 12)))
    BY <1>11 DEF PresetRange
  <2>2. SubMonths(now, 12) \in Int /\ InMonth(SubMonths(now, 12), m - 12)
    BY <1>1, <1>2, MonthsBefore
  <2> QED
    BY <1>2, <1>11, <2>1, <2>2, YearRange
<1>12. now - 1 \in Int /\ now - now \in 0..365 /\ (now - 1) - (now - 1) \in 0..365 /\ now - (-8401) >= 366
       /\ -8401 \in Int
  BY <1>1
<1> QED
  BY <1>1, <1>3, <1>4, <1>5, <1>6, <1>7, <1>8, <1>9, <1>10, <1>11, <1>12 DEF AnyPreset

\* Every preset but the last is a range the API takes.
LEMMA PresetsTaken ==
  ASSUME today \in Today
  PROVE  PresetsAccepted
<1> SUFFICES ASSUME NEW p \in AnyPreset
             PROVE  LET r == PresetRange(p, today) IN Accepted(r.from, r.to) <=> p # "allTime"
  BY DEF PresetsAccepted
<1>1. PICK f \in Int, t \in Int :
         /\ PresetRange(p, today) = Span(f, t)
         /\ p # "allTime" => t - f \in 0..365
         /\ p = "allTime" => t - f >= 366
  BY PresetRanges
<1>2. Span(f, t).from = f /\ Span(f, t).to = t
  BY DEF Span
<1>3. Malformed \notin {f, t} /\ f # None /\ t # None
  BY FilterAssumption
<1>4. /\ Asked(f, t).from = Midnight(f) /\ Asked(f, t).to = EndOfDay(t)
      /\ CalendarDay(Midnight(f)) = f /\ CalendarDay(EndOfDay(t)) = t
      /\ Midnight(f) <= EndOfDay(t) <=> f <= t
  BY <1>3 DEF Asked, Span, Midnight, EndOfDay, CalendarDay
<1>5. Accepted(f, t) <=> f <= t /\ t - f < 366
  BY <1>2, <1>3, <1>4 DEF Accepted, MaxDateRangeDays
<1> QED
  BY <1>1, <1>2, <1>5

\* The header names the days that are listed, but for the defaults' clock.
LEMMA LabelHolds ==
  ASSUME FilterTypeOK
  PROVE  LabelTruthful
<1>1. today \in Int /\ skew \in Int /\ past \in 0..1 /\ url.from \in Param /\ url.to \in Param
  BY CalendarAssumption, FilterAssumption DEF FilterTypeOK, Address
<1>2. SUFFICES ASSUME Malformed \notin {url.from, url.to}
               PROVE  /\ Listed(url.from, url.to).from - ParamState.from
                           = IF url.from = None THEN skew + past ELSE 0
                      /\ Listed(url.from, url.to).to - ParamState.to
                           = IF url.to = None THEN skew ELSE 0
  BY DEF LabelTruthful, Accepted
<1>3. /\ ParamState.from = IF url.from = None THEN today - 30 ELSE url.from
      /\ ParamState.to = IF url.to = None THEN today ELSE url.to
  BY <1>2 DEF ParamState, Or, Span
<1>4. PICK now : now = Midnight(today + skew) + past
  OBVIOUS
<1>5. CalendarDay(now) = today + skew /\ CalendarDay(now - 2 * 30 + 1) = today + skew - 30 + past
  BY <1>1, <1>4 DEF Midnight, CalendarDay
<1>6. /\ Listed(url.from, url.to).from
           = IF url.from = None THEN today + skew - 30 + past ELSE url.from
      /\ Listed(url.from, url.to).to = IF url.to = None THEN today + skew ELSE url.to
  <2>1. /\ Listed(url.from, url.to).from = CalendarDay(Asked(url.from, url.to).from + 1)
        /\ Listed(url.from, url.to).to = CalendarDay(Asked(url.from, url.to).to)
    BY DEF Listed, Span
  <2>2. /\ Asked(url.from, url.to).from = IF url.from = None THEN now - 2 * 30 ELSE Midnight(url.from)
        /\ Asked(url.from, url.to).to = IF url.to = None THEN now ELSE EndOfDay(url.to)
    <3>1. Asked(url.from, url.to) =
             Span(IF url.from = None THEN now - 2 * 30 ELSE Midnight(url.from),
                  IF url.to = None THEN now ELSE EndOfDay(url.to))
      BY <1>4 DEF Asked
    <3> QED BY <3>1 DEF Span
  <2>3. (url.from # None => url.from \in Int) /\ (url.to # None => url.to \in Int)
    BY <1>1, <1>2 DEF Param
  <2>4. url.from # None => CalendarDay(Midnight(url.from) + 1) = url.from
    BY <2>3 DEF Midnight, CalendarDay
  <2>5. url.to # None => CalendarDay(EndOfDay(url.to)) = url.to
    BY <2>3 DEF EndOfDay, CalendarDay
  <2>6. Listed(url.from, url.to).from
           = IF url.from = None THEN today + skew - 30 + past ELSE url.from
    <3>1. CASE url.from = None
      BY <1>5, <2>1, <2>2, <3>1
    <3>2. CASE url.from # None
      BY <2>1, <2>2, <2>4, <3>2
    <3> QED BY <3>1, <3>2
  <2>7. Listed(url.from, url.to).to = IF url.to = None THEN today + skew ELSE url.to
    <3>1. CASE url.to = None
      BY <1>5, <2>1, <2>2, <3>1
    <3>2. CASE url.to # None
      BY <2>1, <2>2, <2>5, <3>2
    <3> QED BY <3>1, <3>2
  <2> QED BY <2>6, <2>7
<1> QED
  BY <1>1, <1>2, <1>3, <1>6 DEF Param

\* A navigation to what the user chose.
LEMMA PushStep ==
  ASSUME FilterInv, NEW target \in Address, Push(target),
         picked' \in Address,
         going = None /\ ~overtaken => picked' = target
  PROVE  /\ going' \in Address /\ UNCHANGED clock /\ url' \in Address
         /\ overtaken' \in BOOLEAN /\ pushes' \in 0..MaxPushes
         /\ ~overtaken' => picked' = IF going' = None THEN url' ELSE going'
<1>1. /\ pushes < MaxPushes /\ pushes' = pushes + 1 /\ going' = target
      /\ overtaken' = (overtaken \/ going # None)
      /\ UNCHANGED <<clock, url>>
  BY DEF Push, clock
<1>2. going' # None
  BY <1>1, FilterAssumption DEF Address
<1>3. pushes' \in 0..MaxPushes
  BY <1>1, FilterAssumption DEF FilterInv, FilterTypeOK
<1> QED
  BY <1>1, <1>2, <1>3 DEF FilterInv, FilterTypeOK, clock

\* What the popover holds.
ChosenRange == [from : Int \cup {None}, to : Int \cup {None}]

\* The popover's own clicks leave the address and the choice alone.
LEMMA PopoverStep ==
  ASSUME FilterInv,
         OpenFilter \/ (\E p \in Preset : PickPreset(p)) \/ PickDay \/ ClosePopover
  PROVE  FilterInv'
<1>1. today \in Int
  BY CalendarAssumption DEF FilterInv, FilterTypeOK
<1>2. \A f, t \in Int \cup {None} : Span(f, t) \in ChosenRange /\ Span(f, t).from = f /\ Span(f, t).to = t
  BY DEF Span, ChosenRange
<1>3. UNCHANGED <<clock, url, going, pushes, picked, overtaken>>
  BY DEF OpenFilter, PickPreset, PickDay, ClosePopover, clock
<1>4. open' \in BOOLEAN
  BY DEF OpenFilter, PickPreset, PickDay, ClosePopover, FilterInv, FilterTypeOK
<1>5. date' \in ChosenRange
  <2>1. CASE OpenFilter
    <3>1. Or(url.from, today - 30) \in Int /\ Or(url.to, today) \in Int
      BY <1>1 DEF Or, FilterInv, FilterTypeOK, Address, Param
    <3> QED
      BY <1>2, <2>1, <3>1 DEF OpenFilter, ParamState
  <2>2. ASSUME NEW p \in Preset, PickPreset(p)
        PROVE  date' \in ChosenRange
    <3>1. p \in AnyPreset /\ today \in Today
      BY FilterAssumption DEF FilterInv, FilterTypeOK
    <3>2. PICK f \in Int, t \in Int : PresetRange(p, today) = Span(f, t)
      BY <3>1, PresetRanges
    <3> QED
      BY <1>2, <2>2, <3>2 DEF PickPreset
  <2>3. CASE PickDay
    <3>1. date.from \in Int \cup {None} /\ today - 1 \in Int
      BY <1>1 DEF FilterInv, FilterTypeOK
    <3> QED
      BY <1>1, <1>2, <2>3, <3>1 DEF PickDay
  <2>4. CASE ClosePopover
    BY <1>2, <2>4 DEF ClosePopover, NoRange
  <2> QED
    BY <2>1, <2>2, <2>3, <2>4
<1> QED
  BY <1>3, <1>4, <1>5 DEF FilterInv, FilterTypeOK, ChosenRange, clock

\* Setting the dates keeps the account that the page shows.
LEMMA DatesSetStep ==
  ASSUME FilterInv, Apply \/ Reset
  PROVE  FilterInv'
<1>1. PICK range \in ChosenRange :
         /\ Push(WithDates(range))
         /\ picked' = [picked EXCEPT !.from = range.from, !.to = range.to]
         /\ open' = FALSE /\ date' = NoRange
  <2>1. NoRange \in ChosenRange /\ NoRange.from = None /\ NoRange.to = None /\ date \in ChosenRange
    BY DEF NoRange, Span, ChosenRange, FilterInv, FilterTypeOK
  <2> QED
    BY <2>1 DEF Apply, Reset
<1>2. WithDates(range) \in Address
  BY DEF WithDates, Address, ChosenRange, Param, FilterInv, FilterTypeOK
<1>3. picked' \in Address
  BY <1>1 DEF Address, ChosenRange, Param, FilterInv, FilterTypeOK
<1>4. picked = url => picked' = WithDates(range)
  BY <1>1 DEF WithDates, Address, FilterInv, FilterTypeOK
<1>5. date' \in ChosenRange
  BY <1>1 DEF NoRange, Span, ChosenRange
<1> QED
  BY <1>1, <1>2, <1>3, <1>4, <1>5, PushStep DEF FilterInv, FilterTypeOK, ChosenRange, clock

\* Setting the account keeps the dates that the page shows.
LEMMA AccountSetStep ==
  ASSUME FilterInv, NEW a \in Account \cup {None}, PickAccount(a)
  PROVE  FilterInv'
<1>1. /\ Push(WithAccount(a)) /\ picked' = [picked EXCEPT !.account = a]
      /\ UNCHANGED <<open, date>>
  BY DEF PickAccount
<1>2. WithAccount(a) \in Address /\ picked' \in Address
  BY <1>1 DEF WithAccount, Address, FilterInv, FilterTypeOK
<1>3. picked = url => picked' = WithAccount(a)
  BY <1>1 DEF WithAccount
<1> QED
  BY <1>1, <1>2, <1>3, PushStep DEF FilterInv, FilterTypeOK, clock

\* Every step keeps the invariant.
LEMMA FilterStep ==
  ASSUME FilterInv, [FilterNext]_dvars
  PROVE  FilterInv'
<1>1. CASE UNCHANGED dvars
  BY <1>1 DEF dvars, clock, FilterInv, FilterTypeOK
<1>2. CASE Arrive
  BY <1>2 DEF Arrive, FilterInv, FilterTypeOK, clock
<1> QED
  BY <1>1, <1>2, PopoverStep, DatesSetStep, AccountSetStep DEF FilterNext

\* The page starts with no navigation and the popover closed.
LEMMA FilterStart ==
  ASSUME FilterInit
  PROVE  FilterInv
<1>1. url \in Address /\ picked = url
  <2>1. PICK f \in FirstFrom : url = [account |-> None, from |-> f, to |-> None]
    BY DEF FilterInit
  <2> QED
    BY <2>1, FilterAssumption DEF Address, Param, FilterInit
<1>2. date \in ChosenRange /\ pushes \in 0..MaxPushes
  BY FilterAssumption DEF FilterInit, NoRange, Span, ChosenRange
<1> QED
  BY <1>1, <1>2 DEF FilterInit, FilterInv, FilterTypeOK, ChosenRange

\* The type invariant of DateFilter.
THEOREM FiltersTyped == FilterSpec => []FilterTypeOK
<1>1. FilterInv => FilterTypeOK
  BY DEF FilterInv
<1> QED
  BY <1>1, FilterStart, FilterStep, PTL DEF FilterSpec

\* The presets are accepted, the header tells the truth, the filters compose
\* (date-filter.tsx:228).
THEOREM TheFiltersHold == FilterSpec => []FiltersHold
<1>1. FilterInv => FiltersHold
  <2>1. FilterInv => PresetsAccepted
    BY PresetsTaken DEF FilterInv, FilterTypeOK
  <2>2. FilterInv => LabelTruthful
    BY LabelHolds DEF FilterInv
  <2>3. FilterInv => FiltersCompose
    BY DEF FilterInv, FiltersCompose
  <2> QED
    BY <2>1, <2>2, <2>3 DEF FiltersHold
<1> QED
  BY <1>1, FilterStart, FilterStep, PTL DEF FilterSpec

-----------------------------------------------------------------------------
(* TransactionDates.  An instant and a day agree as long as the zone does. *)

\* The inductive invariant: the instant a form holds is one of the day that is
\* meant, as long as the browser's zone is the one the form was filled in.
DatesInv ==
  /\ DatesTypeOK
  /\ picker # None /\ ~away => LocalDay(picker) = intended

\* What the action property says of one step.
KeptStep == picker # None /\ picker' = None => storedDay' = intended \/ away

\* A day's midnight in UTC is of that day.
LEMMA ApiDay ==
  ASSUME NEW d \in Int
  PROVE  CalendarDateFromApi(ApiDate(d)) = d
  BY DEF CalendarDateFromApi, ApiDate, UTCDay, Length

\* An instant is of the day whose half hours it is among.
LEMMA DayOf ==
  ASSUME NEW d \in Int, NEW h \in 0..47
  PROVE  (48 * d + h) \div 48 = d
  OBVIOUS

\* A day's local midnight is of that day, or the first instant there is when
\* the clocks go forward over it.
LEMMA MidnightOfDay ==
  ASSUME DatesTypeOK, NEW d \in Int
  PROVE  LocalMidnight(d) \in Int /\ LocalDay(LocalMidnight(d)) = d
<1>1. zone \in Int /\ springs \in Int \cup {None} /\ None \notin Int
  BY DatesAssumption DEF DatesTypeOK
<1>2. (48 * d) \div 48 = d /\ (48 * d + 2) \div 48 = d
  BY DayOf
<1>3. CASE springs = None
  <2>1. LocalMidnight(d) = 48 * d - zone
    BY <1>1, <1>3 DEF LocalMidnight, Offset, Length, Hour
  <2>2. LocalDay(LocalMidnight(d)) = (48 * d - zone + zone) \div 48
    BY <2>1, <1>3 DEF LocalDay, Offset, Length
  <2> QED
    BY <1>1, <1>2, <2>1, <2>2
<1>4. CASE springs \in Int /\ springs < d
  <2>1. LocalMidnight(d) = 48 * d - zone - 2
    BY <1>1, <1>4 DEF LocalMidnight, Offset, Length, Hour
  <2>2. Offset(48 * d - zone - 2) = zone + 2
    BY <1>1, <1>4 DEF Offset, Length, Hour
  <2>3. (48 * d - zone - 2) + (zone + 2) = 48 * d
    BY <1>1
  <2> QED
    BY <1>1, <1>2, <2>1, <2>2, <2>3 DEF LocalDay, Length
<1>5. CASE springs \in Int /\ springs >= d
  <2>1. LocalMidnight(d) = 48 * d - zone
    BY <1>1, <1>5 DEF LocalMidnight, Offset, Length, Hour
  <2>2. Offset(48 * d - zone) \in {zone, zone + 2}
    BY <1>1, <1>5 DEF Offset, Length, Hour
  <2>3. (48 * d - zone) + zone = 48 * d /\ (48 * d - zone) + (zone + 2) = 48 * d + 2
    BY <1>1
  <2> QED
    BY <1>1, <1>2, <2>1, <2>2, <2>3 DEF LocalDay, Length
<1> QED
  BY <1>1, <1>3, <1>4, <1>5

\* Every step keeps the invariant and the day that is meant.
LEMMA DatesStep ==
  ASSUME DatesInv, [DatesNext]_datevars
  PROVE  DatesInv' /\ KeptStep
<1> USE DEF DatesInv
<1>1. CASE UNCHANGED datevars
  BY <1>1 DEF datevars, DatesTypeOK, LocalDay, Offset, KeptStep
<1>2. CASE OpenEditForm
  <2>1. /\ picker = None /\ picker' = LocalMidnight(storedDay) /\ intended' = storedDay /\ away' = FALSE
        /\ UNCHANGED <<zone, springs, storedDay, journeys>>
    BY <1>2, ApiDay DEF OpenEditForm, LocalDateFromApi, LocalDateFromCalendarDate, DatesTypeOK
  <2>2. picker' \in Int /\ LocalDay(picker') = storedDay
    BY <2>1, MidnightOfDay DEF DatesTypeOK
  <2> QED
    BY <2>1, <2>2 DEF DatesTypeOK, LocalDay, Offset, KeptStep
<1>3. CASE OpenNewForm
  <2>1. PICK d \in Day, time \in {0, Hour, Length - 1} :
          /\ picker' = LocalMidnight(d) + time
          /\ LocalDay(picker') = d /\ intended' = d
    BY <1>3 DEF OpenNewForm
  <2>2. picker' \in Int /\ intended' \in Int
    BY <2>1, MidnightOfDay, DatesAssumption DEF Hour, Length
  <2>3. /\ picker = None /\ away' = FALSE
        /\ UNCHANGED <<zone, springs, storedDay, journeys>>
    BY <1>3 DEF OpenNewForm
  <2> QED
    BY <2>1, <2>2, <2>3 DEF DatesTypeOK, LocalDay, Offset, KeptStep
<1>4. ASSUME NEW d \in Day, PickDate(d)
      PROVE  DatesInv' /\ KeptStep
  <2>1. /\ picker' = LocalMidnight(d) /\ intended' = d /\ away' = FALSE
        /\ UNCHANGED <<zone, springs, storedDay, journeys>>
    BY <1>4 DEF PickDate
  <2>2. picker' \in Int /\ LocalDay(picker') = d /\ d \in Int
    BY <2>1, MidnightOfDay, DatesAssumption
  <2> QED
    BY <2>1, <2>2, DatesAssumption DEF DatesTypeOK, LocalDay, Offset, KeptStep
<1>5. CASE SubmitForm
  <2>1. /\ picker # None /\ storedDay' = LocalDay(picker) /\ picker' = None /\ intended' = None
        /\ UNCHANGED <<zone, springs, away, journeys>>
    BY <1>5 DEF SubmitForm, ToTransactionInput, CalendarDateFromLocalDate
  <2>2. storedDay' \in Int
    BY <2>1, DatesAssumption DEF DatesTypeOK, LocalDay, Offset, Length, Hour
  <2> QED
    BY <2>1, <2>2 DEF DatesTypeOK, KeptStep
<1>6. ASSUME NEW z \in Zone, Travel(z)
      PROVE  DatesInv' /\ KeptStep
  <2>1. /\ journeys < MaxJourneys /\ journeys' = journeys + 1 /\ zone' = z
        /\ away' = (away \/ picker # None)
        /\ UNCHANGED <<springs, storedDay, picker, intended>>
    BY <1>6 DEF Travel
  <2>2. journeys' \in 0..MaxJourneys
    BY <2>1, DatesAssumption DEF DatesTypeOK
  <2> QED
    BY <2>1, <2>2 DEF DatesTypeOK, KeptStep
<1> QED
  BY <1>1, <1>2, <1>3, <1>4, <1>5, <1>6 DEF DatesNext

\* At first there is no form.
LEMMA DatesStart ==
  ASSUME DatesInit
  PROVE  DatesInv
<1>1. storedDay \in Int /\ journeys \in 0..MaxJourneys
  BY DatesAssumption DEF DatesInit
<1> QED
  BY <1>1 DEF DatesInit, DatesInv, DatesTypeOK

\* The type invariant of TransactionDates.
THEOREM DatesTyped == DatesSpec => []DatesTypeOK
<1>1. DatesInv => DatesTypeOK
  BY DEF DatesInv
<1> QED
  BY <1>1, DatesStart, DatesStep, PTL DEF DatesSpec

\* A transaction is filed under the day its user meant, in every zone
\* (transaction-date.ts:8).
THEOREM DaysKept == DatesSpec => DayKept
<1>1. KeptStep => (picker # None /\ picker' = None => storedDay' = intended \/ away)
  BY DEF KeptStep
<1> QED
  BY <1>1, DatesStart, DatesStep, PTL DEF DatesSpec, DayKept

-----------------------------------------------------------------------------
(* Forms of two kinds.                                                     *)

\* A form starts from the row as it is and shows what it would submit, or
\* there is a known reason (edit-transaction-sheet.tsx, select.tsx:38).
THEOREM FormsAreTrue == EditSpec /\ NewSpec => []FormsShowTheTruth
  BY StaleFormsExplained, TheChoiceIsShown, PTL DEF FormsShowTheTruth

\* The success of an earlier request takes nothing with it that was typed
\* since (edit-account-sheet.tsx:38, new-transaction-sheet.tsx:57).
THEOREM NothingTypedIsLost == EditSpec /\ NewSpec => FormsKeepWhatIsTyped
  BY OnlyTheUserDiscards, NewFormsKept DEF FormsKeepWhatIsTyped

\* What was typed for a row, and the day that was meant, is what is written
\* (use-edit-transaction.ts:19, transaction-date.ts:8).
THEOREM WhatIsMeantIsSaved == EditSpec /\ DatesSpec => SavesAreMeant
  BY SavesLand, DaysKept DEF SavesAreMeant
=============================================================================
