--------------------------- MODULE DevStack_proofs ---------------------------
(***************************************************************************)
(* Proofs of what `bun dev` leaves, whatever order signals and exits have. *)
(***************************************************************************)
EXTENDS DevStack, TLAPS

\* The inductive invariant.  A binary, and children, are there only from the
\* build on, and SIGINT and SIGTERM do not kill the script from there on; a
\* child that runs after stopChildren was started late.
StackInv ==
  /\ StackTypeOK
  /\ binary => stage \notin SettingUp \cup {"build", "killed"}
  /\ binary /\ stage = "finished" => stuck
  /\ stage \in SettingUp \cup {"build", "killed", "crashed"} => \A c \in Child : child[c] = "none"
  /\ stage = "waitForApi" => child["next"] = "none"
  /\ stopping => \A c \in Child : child[c] = "running" => c \in late
  /\ stage = "finished" => stopping

\* stopChildren tells what runs, the first time.
LEMMA ToldChildren ==
  ASSUME NEW ch \in [Child -> {"none", "running", "told", "gone", "seen"}], stopping \in BOOLEAN,
         stopping => \A c \in Child : ch[c] = "running" => c \in late
  PROVE  /\ Told(ch) \in [Child -> {"none", "running", "told", "gone", "seen"}]
         /\ \A c \in Child : Told(ch)[c] = "running" => c \in late
         /\ \A c \in Child : ch[c] = "none" => Told(ch)[c] = "none"
  BY DEF Told

\* What the end of main leaves.
LEMMA ConcludeStep ==
  ASSUME StackInv, NEW ch \in [Child -> {"none", "running", "told", "gone", "seen"}],
         stopping => \A c \in Child : ch[c] = "running" => c \in late,
         Conclude(ch), late' = late, signals' \in 0..MaxSignals
  PROVE  StackInv'
<1>1. /\ stage' = "finished" /\ stopping' = TRUE /\ child' = Told(ch)
      /\ (binary' = FALSE /\ stuck' = stuck) \/ (stuck' = TRUE /\ binary' = binary)
  BY DEF Conclude, StopChildren, Unlink
<1> QED
  BY <1>1, ToldChildren DEF StackInv, StackTypeOK, Handled, SettingUp

\* Every step keeps the invariant.
LEMMA StackStep ==
  ASSUME StackInv, [StackNext]_devvars
  PROVE  StackInv'
<1> USE DEF StackInv, StackTypeOK
<1>1. CASE UNCHANGED devvars
  BY <1>1 DEF devvars
<1>2. CASE SetUp
  <2>1. CASE stage' = Following(stage) /\ UNCHANGED <<stopping, child, binary, stuck>>
    BY <1>2, <2>1 DEF SetUp, Following, SettingUp, Handled
  <2> QED
    BY <1>2, <2>1, ConcludeStep DEF SetUp
<1>3. CASE Build
  <2>1. CASE /\ binary' = TRUE /\ Spawn("api") /\ stage' = "waitForApi"
             /\ UNCHANGED <<stopping, stuck>>
    BY <1>3, <2>1 DEF Build, Spawn, Child, SettingUp, Handled
  <2>2. CASE /\ binary' = TRUE /\ stage' = "crashed"
             /\ UNCHANGED <<child, late, stopping, stuck>>
    BY <1>3, <2>2 DEF Build, SettingUp, Dead
  <2> QED
    BY <1>3, <2>1, <2>2, ConcludeStep DEF Build
<1>4. CASE ApiHealthy
  <2>1. CASE Spawn("next") /\ stage' = "serving" /\ UNCHANGED <<stopping, binary, stuck>>
    BY <1>4, <2>1 DEF ApiHealthy, Spawn, Child, SettingUp, Handled
  <2> QED
    BY <1>4, <2>1, ConcludeStep DEF ApiHealthy
<1>5. CASE HealthGivenUp
  BY <1>5, ConcludeStep DEF HealthGivenUp
<1>6. ASSUME NEW c \in Child, Exit(c)
      PROVE  StackInv'
  BY <1>6 DEF Exit, Alive
<1>7. ASSUME NEW c \in Child, HearExit(c)
      PROVE  StackInv'
  <2> DEFINE heard == [child EXCEPT ![c] = "seen"]
  <2>1. /\ heard \in [Child -> {"none", "running", "told", "gone", "seen"}]
        /\ \A d \in Child : heard[d] = "running" => child[d] = "running"
        /\ child[c] = "gone" /\ late' = late /\ signals' = signals
    BY <1>7 DEF HearExit
  <2>2. CASE Conclude(heard)
    BY <2>1, <2>2, ConcludeStep
  <2>3. CASE child' = heard /\ UNCHANGED <<stage, stopping, binary, stuck>>
    BY <2>1, <2>3 DEF Child, SettingUp
  <2> QED
    BY <1>7, <2>2, <2>3 DEF HearExit
<1>8. CASE Signal
  <2>1. late' = late /\ signals' \in 0..MaxSignals
    BY <1>8, StackAssumption DEF Signal
  <2>2. CASE stage \notin Handled /\ stage' = "killed"
           /\ UNCHANGED <<stopping, child, binary, stuck>>
    BY <1>8, <2>1, <2>2 DEF Signal, Handled, SettingUp, Dead
  <2>3. CASE stage = "serving" /\ Conclude(child)
    BY <2>1, <2>3, ConcludeStep
  <2>4. CASE stage \in Handled /\ stage # "serving" /\ StopChildren(child)
           /\ UNCHANGED <<stage, binary, stuck>>
    BY <2>1, <2>4, ToldChildren DEF StopChildren, Handled, SettingUp, Child
  <2> QED
    BY <1>8, <2>2, <2>3, <2>4 DEF Signal, Handled
<1>9. CASE HangUp
  <2>1. /\ stage' = "hungUp" /\ binary' \in BOOLEAN /\ signals' \in 0..MaxSignals
        /\ UNCHANGED <<stopping, child, stuck, late>>
    BY <1>9, StackAssumption DEF HangUp
  <2> QED
    BY <2>1 DEF Dead, SettingUp
<1> QED
  BY <1>1, <1>2, <1>3, <1>4, <1>5, <1>6, <1>7, <1>8, <1>9 DEF StackNext

\* The script starts with no child and no binary.
LEMMA StackStart ==
  ASSUME StackInit
  PROVE  StackInv
<1>1. child \in [Child -> {"none", "running", "told", "gone", "seen"}] /\ \A c \in Child : child[c] = "none"
  BY DEF StackInit
<1>2. signals \in 0..MaxSignals
  BY StackAssumption DEF StackInit
<1> QED
  BY <1>1, <1>2 DEF StackInit, StackInv, StackTypeOK, SettingUp, Handled

\* The type invariant of DevStack.
THEOREM StackTyped == StackSpec => []StackTypeOK
<1>1. StackInv => StackTypeOK
  BY DEF StackInv
<1> QED
  BY <1>1, StackStart, StackStep, PTL DEF StackSpec

\* The script, unless SIGHUP ends it, leaves no process it did not start after
\* a signal, nor a binary it could remove and whose API it could start
\* (dev-local.ts:259, 323, 334).
THEOREM TheStackComesDown == StackSpec => []StackComesDown
<1>1. StackInv => StackComesDown
  BY DEF StackInv, StackComesDown, BinaryRemoved, NothingLeftRunning
<1> QED
  BY <1>1, StackStart, StackStep, PTL DEF StackSpec
=============================================================================
