--------------------------- MODULE CsvImport_proofs ---------------------------
(***************************************************************************)
(* Proofs about CsvImport, for any files, chunk size and number of         *)
(* attempts: what an import stores, what it reports, and that a submission *)
(* in chunks is the upload in batches of BatchUpload.                      *)
(*                                                                         *)
(* The bounds of ImportSound are not inductive: they do not say which of   *)
(* the attempts under way has stored which rows.  The invariant counts     *)
(* exactly: a row is stored once for every attempt that has got beyond it, *)
(* the chunk that was accepted and not yet heard of included.              *)
(***************************************************************************)
EXTENDS CsvImport, FiniteSetTheorems, TLAPS

\* Where the chunk after the first s rows ends.
Upto(f, s) == IF s + ChunkSize <= Len(Rows[f]) THEN s + ChunkSize ELSE Len(Rows[f])

\* How far an attempt has come, and what it knows of the refused rows.
Good(x) ==
  /\ x \in AttemptRecords
  /\ x.at # "unused" => x.file \in File /\ x.submitted <= Len(Rows[x.file])
  /\ x.at \in {"unused", "choosing", "dismissed"} => x.submitted = 0 /\ ~x.accepted
  /\ x.at \in {"posting", "answered"} => x.submitted < Len(Rows[x.file])
  /\ x.at = "imported" => x.submitted = Len(Rows[x.file])
  /\ x.accepted => x.at \in {"answered", "failed"} /\ x.rejected = {}
  /\ x.at # "answered" => x.rejected = {}
  /\ x.at = "answered" =>
       \A k \in x.rejected : \E i \in Are("refused", x.file) : k = Index(i, x.submitted)
  /\ x.at # "failed" => x.named = {}
  /\ x.at = "failed" => x.named \subseteq Are("refused", x.file)

\* The attempts that have stored row i of file f.
Storing(f, i) == {a \in Attempt : attempt[a].file = f /\ i <= Reached(attempt[a])}

\* The inductive invariant.
Inv ==
  /\ ImportTypeOK
  /\ \A a \in Attempt : Good(attempt[a])
  /\ promise # 0 => attempt[promise].at = "choosing"
  /\ \A f \in File : \A i \in RowsOf(f) : stored[f][i] = Cardinality(Storing(f, i))

-----------------------------------------------------------------------------

\* A file has rows, numbered from 1.
LEMMA Files ==
  ASSUME NEW f \in File
  PROVE  /\ Len(Rows[f]) \in Nat /\ Len(Rows[f]) > 0 /\ RowsOf(f) = 1..Len(Rows[f]) /\ f # NoFile
         /\ RowsOf(f) \subseteq Nat
<1>1. Rows[f] \in Seq({"good", "malformed", "refused"}) /\ Rows[f] # <<>> /\ f # NoFile
  BY ImportAssumption DEF ImportConstants
<1> QED BY <1>1 DEF RowsOf

\* A chunk is an interval, not empty before the end of the file, and its
\* cardinality takes the count of submitted rows to its end.
LEMMA Chunks ==
  ASSUME NEW f \in File, NEW s \in Nat, s <= Len(Rows[f])
  PROVE  /\ Chunk(f, s) = s + 1..Upto(f, s)
         /\ Upto(f, s) \in Nat /\ s <= Upto(f, s) /\ Upto(f, s) <= Len(Rows[f])
         /\ s < Len(Rows[f]) => s < Upto(f, s)
         /\ Cardinality(Chunk(f, s)) = Upto(f, s) - s
<1>1. ChunkSize \in Nat /\ ChunkSize > 0
  BY ImportAssumption DEF ImportConstants
<1>2. /\ Upto(f, s) \in Nat /\ s <= Upto(f, s) /\ Upto(f, s) <= Len(Rows[f])
      /\ s < Len(Rows[f]) => s < Upto(f, s)
  BY <1>1, Files DEF Upto
<1>3. Chunk(f, s) = s + 1..Upto(f, s)
  BY <1>1, Files DEF Chunk, Upto
<1>4. Cardinality(s + 1..Upto(f, s)) = Upto(f, s) - s
  BY <1>2, FS_Interval
<1> QED BY <1>2, <1>3, <1>4

\* An attempt has stored the rows it counted and the chunk just accepted.
LEMMA ReachedIs ==
  ASSUME NEW x, Good(x)
  PROVE  /\ Reached(x) = (IF x.accepted THEN Upto(x.file, x.submitted) ELSE x.submitted)
         /\ Reached(x) \in Nat /\ x.submitted \in Nat /\ x.submitted <= Reached(x)
         /\ x.file \in File => Reached(x) <= Len(Rows[x.file])
         /\ ~Uploading(x) => Reached(x) = 0
<1>1. x.submitted \in Nat /\ x.accepted \in BOOLEAN
  BY DEF Good, AttemptRecords
<1>2. CASE x.accepted
  <2>1. x.file \in File /\ x.submitted <= Len(Rows[x.file]) /\ x.at \in {"answered", "failed"}
    BY <1>2 DEF Good
  <2>2. Reached(x) = Upto(x.file, x.submitted) /\ Upto(x.file, x.submitted) \in Nat
    BY <1>1, <1>2, <2>1, Chunks DEF Reached
  <2> QED BY <1>1, <1>2, <2>1, <2>2, Chunks DEF Uploading
<1>3. CASE ~x.accepted
  <2>1. Reached(x) = x.submitted
    BY <1>1, <1>3 DEF Reached
  <2>2. x.at = "unused" \/ x.submitted <= Len(Rows[x.file])
    BY DEF Good
  <2>3. x.file \in File => Reached(x) <= Len(Rows[x.file])
    BY <2>1, <2>2, Files DEF Good
  <2>4. ~Uploading(x) => Reached(x) = 0
    BY <2>1 DEF Good, Uploading
  <2> QED BY <1>1, <1>3, <2>1, <2>3, <2>4
<1> QED BY <1>1, <1>2, <1>3

\* There are finitely many attempts.
LEMMA Counts ==
  ASSUME NEW T, T \subseteq Attempt
  PROVE  /\ IsFiniteSet(T) /\ Cardinality(T) \in Nat
         /\ \A U \in SUBSET T : Cardinality(U) \in Nat /\ Cardinality(U) <= Cardinality(T)
         /\ \A a : a \notin T => Cardinality(T \cup {a}) = Cardinality(T) + 1
<1>1. IsFiniteSet(Attempt)
  BY FS_Interval, ImportAssumption DEF Attempt, ImportConstants
<1>2. IsFiniteSet(T)
  BY <1>1, FS_Subset
<1> QED BY <1>2, FS_Subset, FS_CardinalityType, FS_AddElement

\* One attempt changes.
LEMMA AttemptStep ==
  ASSUME Inv, NEW a \in Attempt, NEW x, attempt' = [attempt EXCEPT ![a] = x], Good(x)
  PROVE  /\ attempt'[a] = x /\ \A b \in Attempt \ {a} : attempt'[b] = attempt[b]
         /\ attempt' \in [Attempt -> AttemptRecords]
         /\ \A b \in Attempt : Good(attempt'[b])
<1>1. attempt \in [Attempt -> AttemptRecords] /\ x \in AttemptRecords
  BY DEF Inv, ImportTypeOK, Good
<1>2. /\ attempt'[a] = x /\ \A b \in Attempt \ {a} : attempt'[b] = attempt[b]
      /\ attempt' \in [Attempt -> AttemptRecords]
  BY <1>1
<1>3. ASSUME NEW b \in Attempt PROVE Good(attempt'[b])
  <2>1. CASE b = a
    BY <1>2, <2>1
  <2>2. CASE b # a
    BY <1>2, <2>2 DEF Inv
  <2> QED BY <2>1, <2>2
<1> QED BY <1>2, <1>3

\* The accounts stand when an attempt stores nothing.
LEMMA SameAccounts ==
  ASSUME Inv, NEW a \in Attempt, NEW x, attempt' = [attempt EXCEPT ![a] = x], Good(x),
         UNCHANGED stored, Reached(x) = Reached(attempt[a]),
         x.file = attempt[a].file \/ Reached(x) = 0
  PROVE  \A f \in File : \A i \in RowsOf(f) : stored'[f][i] = Cardinality(Storing(f, i)')
<1>1. attempt'[a] = x /\ \A b \in Attempt \ {a} : attempt'[b] = attempt[b]
  BY AttemptStep
<1>2. ASSUME NEW f \in File, NEW i \in RowsOf(f) PROVE Storing(f, i)' = Storing(f, i)
  <2>1. i \in Nat /\ i > 0
    BY Files
  <2>2. Storing(f, i)' = {b \in Attempt : attempt'[b].file = f /\ i <= Reached(attempt'[b])}
    BY DEF Storing
  <2>3. ASSUME NEW b \in Attempt
        PROVE  attempt'[b].file = f /\ i <= Reached(attempt'[b])
                 <=> attempt[b].file = f /\ i <= Reached(attempt[b])
    <3>1. CASE b = a
      BY <1>1, <2>1, <3>1
    <3>2. CASE b # a
      BY <1>1, <3>2
    <3> QED BY <3>1, <3>2
  <2> QED BY <2>2, <2>3 DEF Storing
<1> QED BY <1>2 DEF Inv

\* An attempt that comes no further takes no step of the batch upload.
LEMMA SameUploads ==
  ASSUME Inv, NEW a \in Attempt, NEW x, attempt' = [attempt EXCEPT ![a] = x], Good(x),
         UNCHANGED stored, Reached(x) = Reached(attempt[a]), FileOf(x) = FileOf(attempt[a]),
         Outcome(x) = Outcome(attempt[a])
  PROVE  UNCHANGED Batches!uvars
<1>1. attempt'[a] = x /\ \A b \in Attempt \ {a} : attempt'[b] = attempt[b]
  BY AttemptStep
<1>2. \A b \in Attempt : /\ Reached(attempt'[b]) = Reached(attempt[b])
                         /\ FileOf(attempt'[b]) = FileOf(attempt[b])
                         /\ Outcome(attempt'[b]) = Outcome(attempt[b])
  BY <1>1
<1> QED BY <1>2 DEF Batches!uvars

\* The fields of an attempt.
LEMMA RecordOf ==
  ASSUME Inv, NEW a \in Attempt
  PROVE  /\ Good(attempt[a]) /\ attempt[a] \in AttemptRecords
         /\ attempt[a].at \in {"unused", "choosing", "dismissed", "posting", "answered", "imported", "failed"}
         /\ attempt[a].file \in File \cup {NoFile} /\ attempt[a].submitted \in Nat
         /\ attempt[a].accepted \in BOOLEAN /\ attempt[a].rejected \subseteq Nat
         /\ attempt[a].named \subseteq Nat
<1>1. attempt[a] \in AttemptRecords /\ Good(attempt[a])
  BY DEF Inv, ImportTypeOK
<1> QED BY <1>1 DEF AttemptRecords

\* What a step is to the batch upload.
Step == Batches!Next \/ UNCHANGED Batches!uvars

\* Continue opens the dialog of an attempt, or lists the malformed rows.
LEMMA ContinueStep ==
  ASSUME Inv, Continue
  PROVE  Inv' /\ Step
<1>1. importData \in File
  BY DEF Continue, Inv, ImportTypeOK
<1> PICK a \in NextAttempt :
         IF Are("malformed", importData) # {}
           THEN /\ errors' = {LineOf(i) : i \in Are("malformed", importData)}
                /\ UNCHANGED <<promise, attempt>>
           ELSE /\ errors' = {}
                /\ promise' = a
                /\ attempt' = [attempt EXCEPT ![a].at = "choosing",
                                              ![a].file = importData]
  BY DEF Continue
<1>2. a \in Attempt /\ attempt[a].at = "unused" /\ a # 0 /\ a \in 0..MaxAttempts
  BY ImportAssumption DEF NextAttempt, Attempt, ImportConstants
<1>3. UNCHANGED <<variant, importData, progress, stored>>
  BY DEF Continue
<1>4. CASE UNCHANGED <<promise, attempt>> /\ errors' = {LineOf(i) : i \in Are("malformed", importData)}
  <2>1. errors' \subseteq Nat
    BY <1>1, <1>4, Files DEF Are, LineOf
  <2>2. ImportTypeOK'
    BY <1>3, <1>4, <2>1 DEF Inv, ImportTypeOK
  <2>3. \A f, i : Storing(f, i)' = Storing(f, i)
    BY <1>4 DEF Storing
  <2>4. Inv'
    BY <1>3, <1>4, <2>2, <2>3 DEF Inv
  <2> QED BY <1>3, <1>4, <2>4 DEF Step, Batches!uvars
<1>5. CASE errors' = {} /\ promise' = a /\
           attempt' = [attempt EXCEPT ![a].at = "choosing", ![a].file = importData]
  <2> PICK x : x = [attempt[a] EXCEPT !.at = "choosing", !.file = importData]
    OBVIOUS
  <2>1. /\ x.at = "choosing" /\ x.file = importData /\ x.submitted = attempt[a].submitted
        /\ x.accepted = attempt[a].accepted /\ x.rejected = attempt[a].rejected
        /\ x.named = attempt[a].named
    BY <1>2, RecordOf DEF AttemptRecords
  <2>2. x \in AttemptRecords
    BY <1>1, <1>2, RecordOf DEF AttemptRecords
  <2>3. /\ x.submitted = 0 /\ ~x.accepted /\ x.rejected = {} /\ x.named = {}
    BY <1>2, <2>1, RecordOf DEF Good
  <2>4. Good(x)
    BY <1>1, <2>1, <2>2, <2>3, Files DEF Good
  <2>5. attempt' = [attempt EXCEPT ![a] = x]
    BY <1>2, <1>5 DEF Inv, ImportTypeOK
  <2>6. Reached(x) = 0 /\ Reached(attempt[a]) = 0
    BY <1>2, <2>1, <2>4, ReachedIs, RecordOf DEF Uploading
  <2>7. /\ attempt'[a] = x /\ attempt' \in [Attempt -> AttemptRecords]
        /\ \A b \in Attempt : Good(attempt'[b])
    BY <1>2, <2>4, <2>5, AttemptStep
  <2>8. ImportTypeOK'
    BY <1>2, <1>3, <1>5, <2>7 DEF Inv, ImportTypeOK
  <2>9. Inv'
    BY <1>2, <1>3, <1>5, <2>1, <2>4, <2>5, <2>6, <2>7, <2>8, SameAccounts DEF Inv
  <2>10. FileOf(x) = FileOf(attempt[a]) /\ Outcome(x) = Outcome(attempt[a])
    BY <1>2, <2>1 DEF FileOf, Uploading, Outcome
  <2> QED BY <1>2, <1>3, <2>4, <2>5, <2>6, <2>9, <2>10, SameUploads DEF Step
<1> QED BY <1>4, <1>5

\* The screen changes and no attempt does.
LEMMA ScreenStep ==
  ASSUME Inv, UNCHANGED <<promise, attempt, stored>>,
         variant' \in {"LIST", "IMPORT"}, importData' \in File \cup {NoFile},
         variant' = "IMPORT" => importData' # NoFile,
         progress' \in 0..Required, errors' \subseteq Nat
  PROVE  Inv' /\ Step
<1>1. ImportTypeOK'
  BY DEF Inv, ImportTypeOK
<1>2. \A f, i : Storing(f, i)' = Storing(f, i)
  BY DEF Storing
<1>3. Inv'
  BY <1>1, <1>2 DEF Inv
<1> QED BY <1>3 DEF Step, Batches!uvars

\* The dialog is answered: the upload begins, or never does.
LEMMA ChosenStep ==
  ASSUME Inv, ConfirmAccount \/ DismissAccount
  PROVE  Inv' /\ Step
<1> PICK a : a = promise
  OBVIOUS
<1>1. a \in Attempt /\ attempt[a].at = "choosing" /\ promise' = 0 /\ UNCHANGED <<screen, stored>>
  BY ImportAssumption
  DEF ConfirmAccount, DismissAccount, DialogOpen, Inv, ImportTypeOK, Attempt, ImportConstants
<1>2. PICK at \in {"posting", "dismissed"} :
         /\ attempt' = [attempt EXCEPT ![a].at = at]
         /\ at = "posting" => ConfirmAccount
  BY DEF ConfirmAccount, DismissAccount
<1> PICK x : x = [attempt[a] EXCEPT !.at = at]
  OBVIOUS
<1>3. /\ x.at = at /\ x.file = attempt[a].file /\ x.submitted = attempt[a].submitted
      /\ x.accepted = attempt[a].accepted /\ x.rejected = attempt[a].rejected
      /\ x.named = attempt[a].named
  BY <1>1, RecordOf DEF AttemptRecords
<1>4. x \in AttemptRecords
  BY <1>1, <1>2, RecordOf DEF AttemptRecords
<1>5. /\ x.submitted = 0 /\ ~x.accepted /\ x.rejected = {} /\ x.named = {} /\ x.file \in File
  BY <1>1, <1>3, RecordOf DEF Good
<1>6. Good(x)
  BY <1>2, <1>3, <1>4, <1>5, Files DEF Good
<1>7. attempt' = [attempt EXCEPT ![a] = x]
  BY <1>1, <1>2 DEF Inv, ImportTypeOK
<1>8. Reached(x) = 0 /\ Reached(attempt[a]) = 0
  <2>1. Reached(x) = x.submitted
    BY <1>5, <1>6, ReachedIs
  <2> QED BY <1>1, <1>5, <2>1, ReachedIs, RecordOf DEF Uploading
<1>9. /\ attempt'[a] = x /\ \A b \in Attempt \ {a} : attempt'[b] = attempt[b]
      /\ attempt' \in [Attempt -> AttemptRecords]
      /\ \A b \in Attempt : Good(attempt'[b])
  BY <1>1, <1>6, <1>7, AttemptStep
<1>10. ImportTypeOK'
  BY <1>1, <1>9, ImportAssumption DEF Inv, ImportTypeOK, screen, ImportConstants
<1>11. Inv'
  BY <1>1, <1>3, <1>6, <1>7, <1>8, <1>9, <1>10, SameAccounts DEF Inv
<1>12. Step
  <2>1. CASE at = "dismissed"
    <3>1. FileOf(x) = FileOf(attempt[a]) /\ Outcome(x) = Outcome(attempt[a])
      BY <1>1, <1>3, <2>1 DEF FileOf, Uploading, Outcome
    <3> QED BY <1>1, <1>6, <1>7, <1>8, <3>1, SameUploads DEF Step
  <2>2. CASE at = "posting"
    <3> PICK f \in File : f = x.file
      BY <1>5
    <3>1. FileOf(x) = f /\ Outcome(x) = "running" /\ Outcome(attempt[a]) = "none"
      BY <1>1, <1>3, <2>2 DEF FileOf, Uploading, Outcome
    <3>2. \A b \in Attempt \ {a} : /\ Reached(attempt'[b]) = Reached(attempt[b])
                                   /\ FileOf(attempt'[b]) = FileOf(attempt[b])
                                   /\ Outcome(attempt'[b]) = Outcome(attempt[b])
      BY <1>9
    <3>3. [b \in Attempt |-> FileOf(attempt'[b])]
            = [[b \in Attempt |-> FileOf(attempt[b])] EXCEPT ![a] = f]
      BY <1>1, <1>9, <3>1, <3>2
    <3>4. [b \in Attempt |-> Outcome(attempt'[b])]
            = [[b \in Attempt |-> Outcome(attempt[b])] EXCEPT ![a] = "running"]
      BY <1>1, <1>9, <3>1, <3>2
    <3>5. [b \in Attempt |-> Reached(attempt'[b])] = [b \in Attempt |-> Reached(attempt[b])]
      BY <1>8, <1>9, <3>2
    <3>6. Batches!Begin(a, f)
      BY <1>1, <3>1, <3>3, <3>4, <3>5 DEF Batches!Begin
    <3> QED BY <1>1, <3>6 DEF Step, Batches!Next
  <2> QED BY <1>2, <2>1, <2>2
<1> QED BY <1>11, <1>12

\* The server stores the chunk in one step, or nothing of it.
LEMMA ServeStep ==
  ASSUME Inv, NEW a \in Attempt, ServeChunk(a)
  PROVE  Inv' /\ Step
<1> PICK f, s : f = attempt[a].file /\ s = attempt[a].submitted
  OBVIOUS
<1>1. /\ attempt[a].at = "posting" /\ UNCHANGED <<screen, promise>>
      /\ attempt[a] \in AttemptRecords
  BY RecordOf DEF ServeChunk
<1>a. promise # 0 => promise \in Attempt \ {a} /\ attempt[promise].at = "choosing"
  BY <1>1, ImportAssumption DEF Inv, ImportTypeOK, Attempt, ImportConstants
<1>2. /\ f \in File /\ s \in Nat /\ s < Len(Rows[f]) /\ ~attempt[a].accepted
      /\ attempt[a].rejected = {} /\ attempt[a].named = {}
  BY <1>1, RecordOf DEF Good
<1>3. /\ Chunk(f, s) = s + 1..Upto(f, s) /\ Upto(f, s) \in Nat /\ s < Upto(f, s)
      /\ Upto(f, s) <= Len(Rows[f])
  <2>1. s <= Len(Rows[f])
    BY <1>2, Files
  <2> QED BY <1>2, <2>1, Chunks
<1>4. CASE /\ Chunk(f, s) \cap Are("refused", f) = {}
           /\ stored' = [stored EXCEPT ![f] = [i \in RowsOf(f) |->
                            IF i \in Chunk(f, s) THEN @[i] + 1 ELSE @[i]]]
           /\ attempt' = [attempt EXCEPT ![a].at = "answered", ![a].accepted = TRUE]
  <2> PICK x : x = [attempt[a] EXCEPT !.at = "answered", !.accepted = TRUE]
    OBVIOUS
  <2>1. /\ x.at = "answered" /\ x.file = f /\ x.submitted = s /\ x.accepted /\ x.rejected = {}
        /\ x.named = {} /\ x.accepted = TRUE
    BY <1>1, <1>2 DEF AttemptRecords
  <2>2. x \in AttemptRecords
    BY <1>1 DEF AttemptRecords
  <2>3. Good(x)
    BY <1>2, <2>1, <2>2 DEF Good
  <2>4. attempt' = [attempt EXCEPT ![a] = x]
    BY <1>4 DEF Inv, ImportTypeOK
  <2>5. /\ attempt'[a] = x /\ \A b \in Attempt \ {a} : attempt'[b] = attempt[b]
        /\ attempt' \in [Attempt -> AttemptRecords]
        /\ \A b \in Attempt : Good(attempt'[b])
    BY <2>3, <2>4, AttemptStep
  <2>6. Reached(x) = Upto(f, s) /\ Reached(attempt[a]) = s
    BY <1>2, <2>1, <2>3, ReachedIs, RecordOf
  <2>7. /\ DOMAIN stored' = File
        /\ \A g \in File \ {f} : stored'[g] = stored[g]
        /\ \A i \in RowsOf(f) : stored'[f][i] = IF i \in Chunk(f, s) THEN stored[f][i] + 1 ELSE stored[f][i]
        /\ stored'[f] \in [RowsOf(f) -> Nat]
    BY <1>2, <1>4 DEF Inv, ImportTypeOK
  <2>8. ImportTypeOK'
    BY <1>1, <2>5, <2>7 DEF Inv, ImportTypeOK, screen
  <2>9. ASSUME NEW g \in File, NEW i \in RowsOf(g) PROVE stored'[g][i] = Cardinality(Storing(g, i)')
    <3>1. i \in Nat /\ i > 0 /\ stored[g][i] = Cardinality(Storing(g, i)) /\ Storing(g, i) \subseteq Attempt
      BY Files DEF Inv, Storing
    <3>2. CASE g = f /\ i \in Chunk(f, s)
      <4>1. i > s /\ i <= Upto(f, s)
        BY <1>2, <1>3, <3>1, <3>2
      <4>2. a \notin Storing(g, i)
        BY <1>2, <2>6, <3>1, <4>1 DEF Storing
      <4>3. Storing(g, i)' = Storing(g, i) \cup {a}
        <5>1. attempt'[a].file = g /\ i <= Reached(attempt'[a])
          BY <2>1, <2>5, <2>6, <3>2, <4>1
        <5>2. Storing(g, i)' = {b \in Attempt : attempt'[b].file = g /\ i <= Reached(attempt'[b])}
          BY DEF Storing
        <5> QED BY <2>5, <5>1, <5>2 DEF Storing
      <4> QED BY <2>7, <3>1, <3>2, <4>2, <4>3, Counts
    <3>3. CASE ~(g = f /\ i \in Chunk(f, s))
      <4>1. g = f => i <= s \/ i > Upto(f, s)
        BY <1>2, <1>3, <3>1, <3>3
      <4>2. x.file = g /\ i <= Reached(x) <=> attempt[a].file = g /\ i <= Reached(attempt[a])
        BY <1>2, <1>3, <2>1, <2>6, <3>1, <4>1
      <4>3. Storing(g, i)' = Storing(g, i)
        BY <2>5, <4>2 DEF Storing
      <4> QED BY <2>7, <3>1, <3>3, <4>3
    <3> QED BY <3>2, <3>3
  <2>10. Inv'
    <3>1. promise' # 0 => attempt'[promise'].at = "choosing"
      BY <1>1, <1>a, <2>5
    <3> QED BY <2>5, <2>8, <2>9, <3>1 DEF Inv
  <2>11. /\ FileOf(attempt[a]) = f /\ FileOf(x) = f /\ Outcome(x) = "running" /\ Outcome(attempt[a]) = "running"
    BY <1>1, <2>1 DEF FileOf, Uploading, Outcome
  <2>12. Batches!Min({s + ChunkSize, Len(Rows[f])}) = Upto(f, s)
    BY <1>2, Files, ImportAssumption DEF Batches!Min, Upto, ImportConstants
  <2>13. Batches!StoreBatch(a)
    <3>1. \A b \in Attempt \ {a} : /\ Reached(attempt'[b]) = Reached(attempt[b])
                                   /\ FileOf(attempt'[b]) = FileOf(attempt[b])
                                   /\ Outcome(attempt'[b]) = Outcome(attempt[b])
      BY <2>5
    <3>2. RowsOf(f) = 1..Len(Rows[f])
      BY <1>2, Files
    <3>3. [b \in Attempt |-> Reached(attempt'[b])]
            = [[b \in Attempt |-> Reached(attempt[b])] EXCEPT ![a] = Upto(f, s)]
      BY <2>5, <2>6, <3>1
    <3>4. [b \in Attempt |-> FileOf(attempt'[b])] = [b \in Attempt |-> FileOf(attempt[b])]
      BY <2>5, <2>11, <3>1
    <3>5. [b \in Attempt |-> Outcome(attempt'[b])] = [b \in Attempt |-> Outcome(attempt[b])]
      BY <2>5, <2>11, <3>1
    <3>6. stored' = [stored EXCEPT ![f] = [i \in 1..Len(Rows[f]) |->
                        IF i \in s + 1..Upto(f, s) THEN @[i] + 1 ELSE @[i]]]
      BY <1>3, <1>4, <3>2
    <3> QED BY <1>2, <2>6, <2>11, <2>12, <3>3, <3>4, <3>5, <3>6 DEF Batches!StoreBatch
  <2> QED BY <2>10, <2>13 DEF Step, Batches!Next
<1>5. CASE /\ attempt' = [attempt EXCEPT ![a].at = "answered",
                 ![a].rejected = {Index(i, s) : i \in Chunk(f, s) \cap Are("refused", f)}]
           /\ UNCHANGED stored
  <2> PICK bad : bad = {Index(i, s) : i \in Chunk(f, s) \cap Are("refused", f)}
    OBVIOUS
  <2> PICK x : x = [attempt[a] EXCEPT !.at = "answered", !.rejected = bad]
    OBVIOUS
  <2>1. /\ x.at = "answered" /\ x.file = f /\ x.submitted = s /\ ~x.accepted /\ x.rejected = bad
        /\ x.named = {}
    BY <1>1, <1>2 DEF AttemptRecords
  <2>2. bad \subseteq Nat
    BY <1>2, <1>3 DEF Index
  <2>3. x \in AttemptRecords
    BY <1>1, <2>2 DEF AttemptRecords
  <2>4. Good(x)
    BY <1>2, <2>1, <2>3 DEF Good
  <2>5. attempt' = [attempt EXCEPT ![a] = x]
    BY <1>5 DEF Inv, ImportTypeOK
  <2>6. /\ attempt'[a] = x /\ \A b \in Attempt \ {a} : attempt'[b] = attempt[b]
        /\ attempt' \in [Attempt -> AttemptRecords]
        /\ \A b \in Attempt : Good(attempt'[b])
    BY <2>4, <2>5, AttemptStep
  <2>7. Reached(x) = Reached(attempt[a])
    BY <1>2, <2>1 DEF Reached
  <2>8. ImportTypeOK'
    BY <1>1, <1>5, <2>6 DEF Inv, ImportTypeOK, screen
  <2>9. Inv'
    <3>1. promise' # 0 => attempt'[promise'].at = "choosing"
      BY <1>1, <1>a, <2>6
    <3>2. \A g \in File : \A i \in RowsOf(g) : stored'[g][i] = Cardinality(Storing(g, i)')
      BY <1>5, <2>1, <2>4, <2>5, <2>7, SameAccounts
    <3> QED BY <2>6, <2>8, <3>1, <3>2 DEF Inv
  <2>10. FileOf(x) = FileOf(attempt[a]) /\ Outcome(x) = Outcome(attempt[a])
    BY <1>1, <2>1 DEF FileOf, Uploading, Outcome
  <2> QED BY <1>5, <2>4, <2>5, <2>7, <2>9, <2>10, SameUploads DEF Step
<1> QED BY <1>4, <1>5 DEF ServeChunk

\* A failed attempt keeps what it stored and stores no more.
LEMMA FailStep ==
  ASSUME Inv, NEW a \in Attempt, NEW rows, ReportFailure(a, rows), UNCHANGED promise,
         attempt[a].at \in {"posting", "answered"}, rows \subseteq Are("refused", attempt[a].file)
  PROVE  Inv' /\ Step
<1> PICK f, s : f = attempt[a].file /\ s = attempt[a].submitted
  OBVIOUS
<1>1. UNCHANGED <<screen, stored, promise>> /\ attempt[a] \in AttemptRecords
  BY RecordOf DEF ReportFailure
<1>a. promise # 0 => promise \in Attempt \ {a} /\ attempt[promise].at = "choosing"
  BY ImportAssumption DEF Inv, ImportTypeOK, Attempt, ImportConstants
<1>2. f \in File /\ s \in Nat /\ s < Len(Rows[f])
  BY <1>1, RecordOf DEF Good
<1>3. s <= Len(Rows[f])
  BY <1>2, Files
<1> PICK x : x = Caught(a, rows)
  OBVIOUS
<1>4. /\ x.at = "failed" /\ x.file = f /\ x.submitted = s /\ x.accepted = attempt[a].accepted
      /\ x.rejected = {} /\ x.named = rows
  BY <1>1 DEF AttemptRecords, Caught
<1>5. rows \subseteq Nat
  BY <1>2, Files DEF Are
<1>6. x \in AttemptRecords
  BY <1>1, <1>5 DEF AttemptRecords, Caught
<1>7. Good(x)
  BY <1>2, <1>3, <1>4, <1>6 DEF Good
<1>8. attempt' = [attempt EXCEPT ![a] = x]
  BY DEF ReportFailure
<1>9. /\ attempt'[a] = x /\ \A b \in Attempt \ {a} : attempt'[b] = attempt[b]
      /\ attempt' \in [Attempt -> AttemptRecords]
      /\ \A b \in Attempt : Good(attempt'[b])
  BY <1>7, <1>8, AttemptStep
<1>10. Reached(x) = Reached(attempt[a])
  BY <1>4 DEF Reached
<1>11. ImportTypeOK'
  BY <1>1, <1>9 DEF Inv, ImportTypeOK, screen
<1>12. Inv'
  <2>1. promise' # 0 => attempt'[promise'].at = "choosing"
    BY <1>1, <1>a, <1>9
  <2>2. \A g \in File : \A i \in RowsOf(g) : stored'[g][i] = Cardinality(Storing(g, i)')
    BY <1>1, <1>4, <1>7, <1>8, <1>10, SameAccounts
  <2> QED BY <1>9, <1>11, <2>1, <2>2 DEF Inv
<1>13. /\ FileOf(attempt[a]) = f /\ FileOf(x) = f /\ Outcome(x) = "failed" /\ Outcome(attempt[a]) = "running"
  BY <1>4 DEF FileOf, Uploading, Outcome
<1>14. Batches!Fail(a)
  <2>1. \A b \in Attempt \ {a} : /\ Reached(attempt'[b]) = Reached(attempt[b])
                                 /\ FileOf(attempt'[b]) = FileOf(attempt[b])
                                 /\ Outcome(attempt'[b]) = Outcome(attempt[b])
    BY <1>9
  <2>2. [b \in Attempt |-> Reached(attempt'[b])] = [b \in Attempt |-> Reached(attempt[b])]
    BY <1>9, <1>10, <2>1
  <2>3. [b \in Attempt |-> FileOf(attempt'[b])] = [b \in Attempt |-> FileOf(attempt[b])]
    BY <1>9, <1>13, <2>1
  <2>4. [b \in Attempt |-> Outcome(attempt'[b])]
          = [[b \in Attempt |-> Outcome(attempt[b])] EXCEPT ![a] = "failed"]
    BY <1>9, <1>13, <2>1
  <2> QED BY <1>1, <1>13, <2>2, <2>3, <2>4 DEF Batches!Fail
<1> QED BY <1>12, <1>14 DEF Step, Batches!Next

\* So does one whose request or answer is lost.
LEMMA LoseStep ==
  ASSUME Inv, NEW a \in Attempt, LoseChunk(a)
  PROVE  Inv' /\ Step
  BY FailStep DEF LoseChunk

\* The page counts the chunk the server stored: the next one begins where it
\* ended, or the file is complete.
LEMMA DeliverStep ==
  ASSUME Inv, NEW a \in Attempt, DeliverChunk(a)
  PROVE  Inv' /\ Step
<1> PICK f, s, now : /\ f = attempt[a].file /\ s = attempt[a].submitted
                     /\ now = s + Cardinality(Chunk(f, s))
  OBVIOUS
<1>1. attempt[a].at = "answered" /\ UNCHANGED promise /\ attempt[a] \in AttemptRecords /\ Good(attempt[a])
  BY RecordOf DEF DeliverChunk
<1>2. f \in File /\ s \in Nat /\ s < Len(Rows[f])
  BY <1>1, RecordOf DEF Good
<1>3. CASE ~attempt[a].accepted
  <2> PICK rows : rows = {Named(k, s) : k \in attempt[a].rejected}
    OBVIOUS
  <2>1. ReportFailure(a, rows)
    BY <1>3 DEF DeliverChunk
  <2>2. rows \subseteq Are("refused", f)
    <3>1. ASSUME NEW k \in attempt[a].rejected PROVE Named(k, s) \in Are("refused", f)
      <4>1. PICK i \in Are("refused", f) : k = Index(i, s)
        BY <1>1 DEF Good
      <4>2. i \in Nat
        BY <1>2, Files DEF Are
      <4> QED BY <1>2, <4>1, <4>2 DEF Index, Named
    <3> QED BY <3>1
  <2> QED BY <1>1, <2>1, <2>2, FailStep
<1>4. CASE attempt[a].accepted
  <2>1. /\ now = Upto(f, s) /\ now \in Nat /\ s < now /\ now <= Len(Rows[f]) /\ Len(Rows[f]) \in Nat
    <3>1. s <= Len(Rows[f])
      BY <1>2, Files
    <3>2. /\ Cardinality(Chunk(f, s)) = Upto(f, s) - s /\ Upto(f, s) \in Nat
          /\ s < Upto(f, s) /\ Upto(f, s) <= Len(Rows[f])
      BY <1>2, <3>1, Chunks
    <3> QED BY <1>2, <3>2, Files
  <2> PICK at : at = IF now = Len(Rows[f]) THEN "imported" ELSE "posting"
    OBVIOUS
  <2> PICK x : x = [attempt[a] EXCEPT !.at = at, !.submitted = now, !.accepted = FALSE]
    OBVIOUS
  <2>2. /\ x.at = at /\ x.file = f /\ x.submitted = now /\ x.accepted = FALSE
        /\ x.rejected = attempt[a].rejected /\ x.named = attempt[a].named
    BY <1>1 DEF AttemptRecords
  <2>3. x \in AttemptRecords
    BY <1>1, <2>1 DEF AttemptRecords
  <2>4. x.rejected = {} /\ x.named = {}
    BY <1>1, <1>4, <2>2 DEF Good
  <2>5. Good(x)
    <3>1. CASE now = Len(Rows[f])
      BY <1>2, <2>1, <2>2, <2>3, <2>4, <3>1 DEF Good
    <3>2. CASE now # Len(Rows[f])
      BY <1>2, <2>1, <2>2, <2>3, <2>4, <3>2 DEF Good
    <3> QED BY <3>1, <3>2
  <2>6. /\ attempt' = [attempt EXCEPT ![a] = x] /\ UNCHANGED stored
        /\ IF now = Len(Rows[f]) THEN CloseImport ELSE UNCHANGED screen
    BY <1>4 DEF DeliverChunk
  <2>7. /\ attempt'[a] = x /\ \A b \in Attempt \ {a} : attempt'[b] = attempt[b]
        /\ attempt' \in [Attempt -> AttemptRecords]
        /\ \A b \in Attempt : Good(attempt'[b])
    BY <2>5, <2>6, AttemptStep
  <2>8. Reached(x) = now /\ Reached(attempt[a]) = now
    BY <1>4, <2>1, <2>2 DEF Reached
  <2>9. ImportTypeOK'
    <3>1. /\ variant' \in {"LIST", "IMPORT"} /\ importData' \in File \cup {NoFile}
          /\ variant' = "IMPORT" => importData' # NoFile
          /\ progress' \in 0..Required /\ errors' \subseteq Nat
      BY <2>6, ImportAssumption DEF CloseImport, screen, Inv, ImportTypeOK, ImportConstants
    <3> QED BY <1>1, <2>6, <2>7, <3>1 DEF Inv, ImportTypeOK
  <2>10. Inv'
    <3>1. promise # 0 => promise \in Attempt \ {a} /\ attempt[promise].at = "choosing"
      BY <1>1, ImportAssumption DEF Inv, ImportTypeOK, Attempt, ImportConstants
    <3>2. promise' # 0 => attempt'[promise'].at = "choosing"
      BY <1>1, <2>7, <3>1
    <3>3. \A g \in File : \A i \in RowsOf(g) : stored'[g][i] = Cardinality(Storing(g, i)')
      BY <2>2, <2>5, <2>6, <2>8, SameAccounts
    <3> QED BY <2>7, <2>9, <3>2, <3>3 DEF Inv
  <2>11. FileOf(attempt[a]) = f /\ FileOf(x) = f /\ Outcome(attempt[a]) = "running"
    BY <1>1, <2>2 DEF FileOf, Uploading, Outcome
  <2>12. CASE now # Len(Rows[f])
    <3>1. Outcome(x) = "running"
      BY <2>2, <2>12 DEF Outcome
    <3> QED BY <2>5, <2>6, <2>8, <2>10, <2>11, <3>1, SameUploads DEF Step
  <2>13. CASE now = Len(Rows[f])
    <3>1. Outcome(x) = "complete"
      BY <2>2, <2>13 DEF Outcome
    <3>2. \A b \in Attempt \ {a} : /\ Reached(attempt'[b]) = Reached(attempt[b])
                                   /\ FileOf(attempt'[b]) = FileOf(attempt[b])
                                   /\ Outcome(attempt'[b]) = Outcome(attempt[b])
      BY <2>7
    <3>3. [b \in Attempt |-> Reached(attempt'[b])] = [b \in Attempt |-> Reached(attempt[b])]
      BY <2>7, <2>8, <3>2
    <3>4. [b \in Attempt |-> FileOf(attempt'[b])] = [b \in Attempt |-> FileOf(attempt[b])]
      BY <2>7, <2>11, <3>2
    <3>5. [b \in Attempt |-> Outcome(attempt'[b])]
            = [[b \in Attempt |-> Outcome(attempt[b])] EXCEPT ![a] = "complete"]
      BY <2>7, <3>1, <3>2
    <3>6. Batches!Complete(a)
      BY <1>2, <2>6, <2>8, <2>11, <2>13, <3>3, <3>4, <3>5 DEF Batches!Complete
    <3> QED BY <2>10, <3>6 DEF Step, Batches!Next
  <2> QED BY <2>12, <2>13
<1> QED BY <1>3, <1>4

\* Every step preserves the invariant and is one of the batch upload, or none.
LEMMA ImportStep ==
  ASSUME Inv, [ImportNext]_import
  PROVE  Inv' /\ Step
<1>a. /\ variant \in {"LIST", "IMPORT"} /\ importData \in File \cup {NoFile}
      /\ variant = "IMPORT" => importData # NoFile
      /\ progress \in 0..Required /\ errors \subseteq Nat
      /\ Required \in Nat /\ NoFile \notin File
  BY ImportAssumption DEF Inv, ImportTypeOK, ImportConstants
<1>1. ASSUME NEW f \in File \cup Unreadable, Upload(f) PROVE Inv' /\ Step
  BY <1>a, <1>1, ScreenStep DEF Upload
<1>2. CASE MapColumn
  BY <1>a, <1>2, ScreenStep DEF MapColumn
<1>3. CASE Refilter
  BY <1>a, <1>3, ScreenStep DEF Refilter
<1>4. CASE CancelImport
  BY <1>a, <1>4, ScreenStep DEF CancelImport, CloseImport
<1>5. CASE UNCHANGED import
  BY <1>a, <1>5, ScreenStep DEF import, screen
<1> QED BY <1>1, <1>2, <1>3, <1>4, <1>5, ContinueStep, ChosenStep, ServeStep, DeliverStep, LoseStep DEF ImportNext

\* Nothing is stored at first.
LEMMA Starts == ImportInit => Inv
<1> SUFFICES ASSUME ImportInit PROVE Inv
  OBVIOUS
<1>1. Unused \in AttemptRecords /\ Good(Unused) /\ Reached(Unused) = 0
  BY DEF Unused, AttemptRecords, Good, Reached
<1>2. \A a \in Attempt : attempt[a] = Unused
  BY DEF ImportInit
<1>3. ImportTypeOK
  BY <1>1, ImportAssumption DEF ImportInit, ImportTypeOK, ImportConstants
<1>4. ASSUME NEW f \in File, NEW i \in RowsOf(f) PROVE stored[f][i] = Cardinality(Storing(f, i))
  <2>1. i \in Nat /\ i > 0
    BY Files
  <2>2. Storing(f, i) = {}
    BY <1>1, <1>2, <2>1 DEF Storing
  <2> QED BY <2>2, FS_EmptySet DEF ImportInit
<1> QED BY <1>1, <1>2, <1>3, <1>4 DEF Inv, ImportInit

\* The exact accounts hold however many attempts overlap, and whatever the
\* network loses.
THEOREM Invariance == ImportSpec => []Inv
<1>1. Inv /\ [ImportNext]_import => Inv'
  BY ImportStep
<1>2. ImportInit => Inv
  BY Starts
<1> QED BY <1>1, <1>2, PTL DEF ImportSpec

\* Every variable keeps its type.
THEOREM TypeCorrect == ImportSpec => []ImportTypeOK
<1>1. Inv => ImportTypeOK
  BY DEF Inv
<1> QED BY <1>1, Invariance, PTL

\* The exact accounts imply what the user relies on.
LEMMA Sound == ASSUME Inv PROVE ImportSound
<1>1. ASSUME NEW f \in File, NEW i \in RowsOf(f)
      PROVE  /\ Cardinality(Imported(f)) <= stored[f][i]
             /\ stored[f][i] <= Cardinality(Submitted(f))
  <2>1. i \in Nat /\ i > 0 /\ i <= Len(Rows[f]) /\ stored[f][i] = Cardinality(Storing(f, i))
    BY Files DEF Inv
  <2>2. Imported(f) \subseteq Storing(f, i)
    <3>1. ASSUME NEW a \in Imported(f) PROVE a \in Storing(f, i)
      <4>1. a \in Attempt /\ attempt[a].file = f /\ attempt[a].submitted = Len(Rows[f])
        BY <3>1, RecordOf DEF Imported, Good
      <4>2. Len(Rows[f]) <= Reached(attempt[a]) /\ Reached(attempt[a]) \in Nat
        BY <4>1, ReachedIs, RecordOf
      <4> QED BY <2>1, <4>1, <4>2, Files DEF Storing
    <3> QED BY <3>1
  <2>3. Storing(f, i) \subseteq Submitted(f)
    <3>1. ASSUME NEW a \in Storing(f, i) PROVE a \in Submitted(f)
      <4>1. a \in Attempt /\ attempt[a].file = f /\ Reached(attempt[a]) # 0
        BY <2>1 DEF Storing
      <4>2. Uploading(attempt[a])
        BY <4>1, ReachedIs, RecordOf
      <4> QED BY <4>1, <4>2, RecordOf DEF Uploading, Submitted
    <3> QED BY <3>1
  <2>4. Submitted(f) \subseteq Attempt
    BY DEF Submitted
  <2> QED BY <2>1, <2>2, <2>3, <2>4, Counts
<1>2. RowsAccounted
  BY <1>1 DEF RowsAccounted
<1>3. ASSUME NEW f \in File, NEW i \in RowsOf(f), NEW j \in RowsOf(f), i <= j
      PROVE  stored[f][i] >= stored[f][j]
  <2>1. i \in Nat /\ j \in Nat /\ Storing(f, i) \subseteq Attempt
    BY Files DEF Storing
  <2>2. \A a \in Attempt : Reached(attempt[a]) \in Nat
    BY ReachedIs, RecordOf
  <2>3. Storing(f, j) \subseteq Storing(f, i)
    BY <1>3, <2>1, <2>2 DEF Storing
  <2>4. stored[f][i] = Cardinality(Storing(f, i)) /\ stored[f][j] = Cardinality(Storing(f, j))
    BY DEF Inv
  <2> QED BY <2>1, <2>3, <2>4, Counts
<1>4. FailuresLeavePrefix
  BY <1>3 DEF FailuresLeavePrefix
<1>5. RowsNamedRightly
  BY RecordOf DEF RowsNamedRightly, Good
<1> QED BY <1>2, <1>4, <1>5 DEF ImportSound

\* Rows are stored once per success, failures leave a prefix, and the rows a
\* failure names are the refused ones.
THEOREM ImportsAreSound == ImportSpec => []ImportSound
<1>1. Inv => ImportSound
  BY Sound
<1> QED BY <1>1, Invariance, PTL

\* The page, the server and the network between them implement BatchUpload:
\* whole batches in order, completeness reported when all is stored.
THEOREM ImportsUploadBatches == ImportSpec => ImportIsBatchUpload
<1>1. ImportInit => Batches!Init
  <2> SUFFICES ASSUME ImportInit PROVE Batches!Init
    OBVIOUS
  <2>1. FileOf(Unused) = NoFile /\ Reached(Unused) = 0 /\ Outcome(Unused) = "none"
    BY DEF FileOf, Uploading, Reached, Outcome, Unused
  <2>2. \A a \in Attempt : attempt[a] = Unused
    BY DEF ImportInit
  <2>3. \A f \in File : RowsOf(f) = 1..Len(Rows[f])
    BY Files
  <2>4. stored = [f \in File |-> [i \in 1..Len(Rows[f]) |-> 0]]
    BY <2>3 DEF ImportInit
  <2> QED BY <2>1, <2>2, <2>4 DEF Batches!Init
<1>2. Inv /\ [ImportNext]_import => [Batches!Next]_(Batches!uvars)
  BY ImportStep DEF Step
<1>3. ImportSpec => []Inv
  BY Invariance
<1>4. ImportSpec => Batches!Spec
  BY <1>1, <1>2, <1>3, PTL DEF ImportSpec, Batches!Spec
<1> QED BY <1>4 DEF ImportIsBatchUpload

=============================================================================
