---------------------------- MODULE BatchUpload ----------------------------
(***************************************************************************)
(* What the CSV import promises: an upload of a file stores the file's     *)
(* rows in order, whole batches at a time, each row once; it is reported   *)
(* as complete when all of them are stored, and otherwise it fails at a    *)
(* batch boundary and stores nothing more.                                 *)
(***************************************************************************)
EXTENDS Naturals, FiniteSetsExt

CONSTANTS
    File, Task, NoFile,
    Length,      \* the rows of each file
    Batch        \* rows stored at once

BatchUploadConstants ==
    /\ Length \in [File -> Nat \ {0}]
    /\ Batch \in Nat \ {0}

VARIABLES
    fileOf,      \* the file of each upload that has begun
    reached,     \* how many rows of its file an upload has stored
    outcome,     \* "none", "running", "complete", "failed"
    stored       \* how often each row of a file is stored

uvars == <<fileOf, reached, outcome, stored>>

Init ==
    /\ fileOf = [u \in Task |-> NoFile]
    /\ reached = [u \in Task |-> 0]
    /\ outcome = [u \in Task |-> "none"]
    /\ stored = [f \in File |-> [i \in 1..Length[f] |-> 0]]

Begin(u, f) ==
    /\ outcome[u] = "none"
    /\ fileOf' = [fileOf EXCEPT ![u] = f]
    /\ outcome' = [outcome EXCEPT ![u] = "running"]
    /\ UNCHANGED <<reached, stored>>

StoreBatch(u) ==
    LET f == fileOf[u]
        upTo == Min({reached[u] + Batch, Length[f]})
    IN
    /\ outcome[u] = "running" /\ reached[u] < Length[f]
    /\ reached' = [reached EXCEPT ![u] = upTo]
    /\ stored' = [stored EXCEPT ![f] = [i \in 1..Length[f] |->
                     IF i \in reached[u] + 1..upTo THEN @[i] + 1 ELSE @[i]]]
    /\ UNCHANGED <<fileOf, outcome>>

Complete(u) ==
    /\ outcome[u] = "running" /\ reached[u] = Length[fileOf[u]]
    /\ outcome' = [outcome EXCEPT ![u] = "complete"]
    /\ UNCHANGED <<fileOf, reached, stored>>

Fail(u) ==
    /\ outcome[u] = "running"
    /\ outcome' = [outcome EXCEPT ![u] = "failed"]
    /\ UNCHANGED <<fileOf, reached, stored>>

Next ==
    \E u \in Task :
        \/ \E f \in File : Begin(u, f)
        \/ StoreBatch(u) \/ Complete(u) \/ Fail(u)

Spec == Init /\ [][Next]_uvars
=============================================================================
