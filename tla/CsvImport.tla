----------------------------- MODULE CsvImport -----------------------------
(***************************************************************************)
(* The CSV import of the transactions page: a file is uploaded and its     *)
(* columns are mapped (import-card.tsx), an account is chosen in a dialog  *)
(* (use-select-account.tsx), and the rows are submitted in chunks, one     *)
(* request after another (page.tsx, onSubmitImport).                       *)
(*                                                                         *)
(* The page keeps its Continue button while a submission runs, so that     *)
(* several attempts can be under way; Cancel closes the screen and stops   *)
(* none of them.                                                           *)
(***************************************************************************)
EXTENDS Naturals, Sequences, FiniteSetsExt

CONSTANTS
    Rows,          \* the files there are, each a sequence of rows: "good",
                   \* "malformed" (fails the parser) or "refused" (the API's 400)
    Unreadable,    \* files prepareCSVImport turns away
    Required,      \* the fields that must be mapped: amount, date, payee
    ChunkSize,     \* MAX_BULK_CREATE_TRANSACTIONS
    MaxAttempts,   \* bound on submissions
    NoFile

File == DOMAIN Rows
Attempt == 1..MaxAttempts

ImportConstants ==
    /\ \A f \in File : Rows[f] \in Seq({"good", "malformed", "refused"}) /\ Rows[f] # <<>>
    /\ NoFile \notin File
    /\ Required \in Nat /\ ChunkSize \in Nat \ {0} /\ MaxAttempts \in Nat

ASSUME ImportAssumption == ImportConstants

VARIABLES
    variant,    \* "LIST" or "IMPORT"
    importData, \* the file on the import screen, or NoFile
    progress,   \* how many fields are mapped to a column
    errors,     \* the line numbers of importErrors
    promise,    \* the attempt that waits for an account, 0 if none
    attempt,    \* every call of onSubmitImport
    stored      \* the database: how often each row of a file is stored

screen == <<variant, importData, progress, errors>>
import == <<screen, promise, attempt, stored>>

-----------------------------------------------------------------------------
(* Pure helpers.                                                           *)

RowsOf(f) == DOMAIN Rows[f]
Are(kind, f) == {i \in RowsOf(f) : Rows[f][i] = kind}

\* The chunk after the first `submitted` rows, as positions in the file.
ChunkOverlaps(f, submitted) ==      \* a faulty variant: repeats its first row
    IF submitted = 0 THEN RowsOf(f) \cap 1..ChunkSize
                     ELSE RowsOf(f) \cap submitted..submitted + ChunkSize - 1
Chunk(f, submitted) == RowsOf(f) \cap submitted + 1..submitted + ChunkSize

\* The line parseImportedTransactionRows gives a row: the header is line 1.
LineOf(i) == i + 1

\* The API reports rows by their place in the chunk, from 0.
Index(i, submitted) == i - submitted - 1

\* formatBulkErrorSummary names them by their place among the file's rows.
NamedInChunk(index, rowOffset) == index + 1       \* a faulty variant
Named(index, rowOffset) == index + rowOffset + 1

-----------------------------------------------------------------------------
(* An attempt: choosing (its dialog), dismissed, posting (a chunk is sent),*)
(* answered (the server is done with the chunk), imported, failed.         *)

Unused == [at |-> "unused", file |-> NoFile, submitted |-> 0,
           accepted |-> FALSE, rejected |-> {}, named |-> {}]

NextAttempt == {a \in Attempt : attempt[a].at = "unused" /\
                                \A b \in 1..(a - 1) : attempt[b].at # "unused"}

DialogOpen == variant = "IMPORT" /\ promise # 0

-----------------------------------------------------------------------------
(* The screen.                                                             *)

\* onUpload.  The button is on the list only.
Upload(f) ==
    /\ variant = "LIST"
    /\ IF f \in Unreadable
         THEN importData' = NoFile /\ UNCHANGED variant
         ELSE importData' = f /\ variant' = "IMPORT"
    /\ progress' = 0 /\ errors' = {}
    /\ UNCHANGED <<promise, attempt, stored>>

\* onTableHeadSelectChange: a field taken by another column cannot be chosen,
\* so that a choice maps one more field, or one fewer.
MapColumn ==
    /\ variant = "IMPORT" /\ ~DialogOpen
    /\ \/ progress < Required /\ progress' = progress + 1
       \/ progress > 0 /\ progress' = progress - 1
    /\ UNCHANGED <<variant, importData, errors, promise, attempt, stored>>

\* A filter of the page's header changes the list's query: the skeleton
\* replaces the import screen for a while, and the mapping is lost.
Refilter ==
    /\ variant = "IMPORT" /\ ~DialogOpen
    /\ progress' = 0 /\ errors' = {}
    /\ UNCHANGED <<variant, importData, promise, attempt, stored>>

CloseImport ==
    /\ variant' = "LIST" /\ importData' = NoFile
    /\ progress' = 0 /\ errors' = {}

CancelImport ==
    /\ variant = "IMPORT" /\ ~DialogOpen
    /\ CloseImport
    /\ UNCHANGED <<promise, attempt, stored>>

\* handleContinue, and onSubmitImport up to its first await.
Continue ==
    /\ variant = "IMPORT" /\ ~DialogOpen
    /\ progress >= Required
    /\ \E a \in NextAttempt :
         IF Are("malformed", importData) # {}
           THEN /\ errors' = {LineOf(i) : i \in Are("malformed", importData)}
                /\ UNCHANGED <<promise, attempt>>
           ELSE /\ errors' = {}
                /\ promise' = a
                /\ attempt' = [attempt EXCEPT ![a].at = "choosing",
                                              ![a].file = importData]
    /\ UNCHANGED <<variant, importData, progress, stored>>

\* handleConfirm resolves the promise the state holds: if the screen was left
\* with the dialog open, that is the attempt of an earlier file.
ConfirmAccount ==
    /\ DialogOpen
    /\ attempt' = [attempt EXCEPT ![promise].at = "posting"]
    /\ promise' = 0
    /\ UNCHANGED <<screen, stored>>

DismissAccount ==
    /\ DialogOpen
    /\ attempt' = [attempt EXCEPT ![promise].at = "dismissed"]
    /\ promise' = 0
    /\ UNCHANGED <<screen, stored>>

-----------------------------------------------------------------------------
(* The submission.                                                         *)

\* The server stores a chunk whole or, if it refuses one of its rows, not at
\* all, and then says which; it may also turn the request away (429, 5xx).
ServeChunk(a) ==
    LET f == attempt[a].file
        chunk == Chunk(f, attempt[a].submitted)
        bad == chunk \cap Are("refused", f)
    IN
    /\ attempt[a].at = "posting"
    /\ \/ /\ bad = {}
          /\ stored' = [stored EXCEPT ![f] = [i \in RowsOf(f) |->
                            IF i \in chunk THEN @[i] + 1 ELSE @[i]]]
          /\ attempt' = [attempt EXCEPT ![a].at = "answered", ![a].accepted = TRUE]
       \/ /\ attempt' = [attempt EXCEPT ![a].at = "answered",
                 ![a].rejected = {Index(i, attempt[a].submitted) : i \in bad}]
          /\ UNCHANGED stored
    /\ UNCHANGED <<screen, promise>>

\* CatchAndGoOn, a faulty variant: the loop goes on after a failed chunk.
CatchAndGoOn(a, rows) ==
    LET next == attempt[a].submitted + ChunkSize IN
    IF next < Len(Rows[attempt[a].file])
      THEN [attempt[a] EXCEPT !.at = "posting", !.submitted = next, !.rejected = {}]
      ELSE [attempt[a] EXCEPT !.at = "failed", !.rejected = {}, !.named = rows]

\* The catch: the screen stays as it is, for another try.
Caught(a, rows) == [attempt[a] EXCEPT !.at = "failed", !.rejected = {}, !.named = rows]

\* A rejected mutateAsync: every failing row is named.
ReportFailure(a, rows) ==
    /\ attempt' = [attempt EXCEPT ![a] = Caught(a, rows)]
    /\ UNCHANGED <<screen, stored>>

DeliverChunk(a) ==
    LET f == attempt[a].file
        submitted == attempt[a].submitted
        now == submitted + Cardinality(Chunk(f, submitted))
    IN
    /\ attempt[a].at = "answered"
    /\ IF ~attempt[a].accepted
         THEN ReportFailure(a, {Named(k, submitted) : k \in attempt[a].rejected})
         ELSE /\ attempt' = [attempt EXCEPT ![a] = [@ EXCEPT
                     !.at = IF now = Len(Rows[f]) THEN "imported" ELSE "posting",
                     !.submitted = now, !.accepted = FALSE]]
              /\ IF now = Len(Rows[f]) THEN CloseImport ELSE UNCHANGED screen
              /\ UNCHANGED stored
    /\ UNCHANGED promise

\* The network loses the request, or the answer of one that was served.
LoseChunk(a) ==
    /\ attempt[a].at \in {"posting", "answered"}
    /\ ReportFailure(a, {})
    /\ UNCHANGED promise

-----------------------------------------------------------------------------

ImportInit ==
    /\ variant = "LIST" /\ importData = NoFile
    /\ progress = 0 /\ errors = {}
    /\ promise = 0
    /\ attempt = [a \in Attempt |-> Unused]
    /\ stored = [f \in File |-> [i \in RowsOf(f) |-> 0]]

ImportNext ==
    \/ \E f \in File \cup Unreadable : Upload(f)
    \/ MapColumn \/ Refilter \/ CancelImport \/ Continue
    \/ ConfirmAccount \/ DismissAccount
    \/ \E a \in Attempt : ServeChunk(a) \/ DeliverChunk(a) \/ LoseChunk(a)

ImportSpec == ImportInit /\ [][ImportNext]_import

\* A request is served or lost, and what it gave is delivered.
ImportFairness == \A a \in Attempt : WF_import(ServeChunk(a)) /\ WF_import(DeliverChunk(a))

ImportFairSpec == ImportSpec /\ ImportFairness

-----------------------------------------------------------------------------
(* Properties.                                                             *)

AttemptRecords ==
    [at : {"unused", "choosing", "dismissed", "posting", "answered", "imported", "failed"},
     file : File \cup {NoFile}, submitted : Nat, accepted : BOOLEAN,
     rejected : SUBSET Nat, named : SUBSET Nat]

\* The type of every variable.
ImportTypeOK ==
    /\ variant \in {"LIST", "IMPORT"}
    /\ importData \in File \cup {NoFile}
    /\ variant = "IMPORT" => importData # NoFile
    /\ progress \in 0..Required
    /\ errors \subseteq Nat
    /\ promise \in 0..MaxAttempts
    /\ attempt \in [Attempt -> AttemptRecords]
    /\ DOMAIN stored = File
    /\ \A f \in File : stored[f] \in [RowsOf(f) -> Nat]

Submitted(f) ==
    {a \in Attempt : attempt[a].file = f /\
                     attempt[a].at \in {"posting", "answered", "imported", "failed"}}
Imported(f) == {a \in Attempt : attempt[a].file = f /\ attempt[a].at = "imported"}

\* A row is stored once for every import of its file reported as a success,
\* and never more often than its file was submitted: duplicates come from
\* submitting again, never from the chunks (page.tsx:87).
RowsAccounted ==
    \A f \in File : \A i \in RowsOf(f) :
        /\ Cardinality(Imported(f)) <= stored[f][i]
        /\ stored[f][i] <= Cardinality(Submitted(f))

\* A failed import leaves the first rows of the file and none after them, so
\* that the rest can be imported by cutting off what is there.
FailuresLeavePrefix ==
    \A f \in File : \A i, j \in RowsOf(f) : i <= j => stored[f][i] >= stored[f][j]

\* The rows a failure names are the file's rows that the API refused, in
\* whichever chunk they were (page.tsx:81).
RowsNamedRightly ==
    \A a \in Attempt : attempt[a].named # {} =>
        attempt[a].named \subseteq Are("refused", attempt[a].file)

\* A submission ends, after its last chunk or the first that fails, with a
\* success or with an error that is shown, also if the user left the screen.
Submitting(a) == attempt[a].at \in {"posting", "answered"}
SubmissionsEnd ==
    \A a \in Attempt : Submitting(a) ~> attempt[a].at \in {"imported", "failed"}

\* What the user is told of an import, or finds after one, is right.
ImportSound == RowsAccounted /\ FailuresLeavePrefix /\ RowsNamedRightly

\* The submission implements the batch upload: what the server has stored
\* for an attempt runs ahead of what the page counts by the chunk in flight.
Uploading(x) == x.at \notin {"unused", "choosing", "dismissed"}
FileOf(x) == IF Uploading(x) THEN x.file ELSE NoFile
Reached(x) ==
    x.submitted + IF x.accepted THEN Cardinality(Chunk(x.file, x.submitted)) ELSE 0
Outcome(x) ==
    CASE x.at \in {"posting", "answered"} -> "running"
      [] x.at = "imported" -> "complete"
      [] x.at = "failed" -> "failed"
      [] OTHER -> "none"

Batches ==
    INSTANCE BatchUpload WITH
        Task <- Attempt,
        NoFile <- NoFile,
        Length <- [f \in File |-> Len(Rows[f])],
        Batch <- ChunkSize,
        fileOf <- [a \in Attempt |-> FileOf(attempt[a])],
        reached <- [a \in Attempt |-> Reached(attempt[a])],
        outcome <- [a \in Attempt |-> Outcome(attempt[a])],
        stored <- stored

ImportIsBatchUpload == Batches!Spec
=============================================================================
