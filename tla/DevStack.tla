------------------------------ MODULE DevStack ------------------------------
(***************************************************************************)
(* `bun dev` (scripts/dev-local.ts): the script that brings the local      *)
(* database up, migrates it, builds the API, starts it, waits for it to be *)
(* healthy, starts Next, and takes both down when one of them ends or the  *)
(* script is told to stop.                                                 *)
(*                                                                         *)
(* The children live on their own: they exit when they like, the script    *)
(* hears of it later, and a signal may come between any two of its steps.  *)
(* An API that cannot be started ends the script as an uncaught error, and *)
(* a signal it has no handler for at once: neither reaches its cleanup.    *)
(***************************************************************************)
EXTENDS Naturals

CONSTANT MaxSignals     \* signals sent to the script

ASSUME StackAssumption == MaxSignals \in Nat

VARIABLES
    stage,     \* where main is; or how the script ended before it settled:
               \* "killed" by SIGINT or SIGTERM, "hungUp" by SIGHUP, "crashed"
    stopping,  \* whether stopChildren has run
    child,     \* the API and Next: "gone" once exited, "seen" once heard of
    binary,    \* whether the API's binary is in the temporary directory
    stuck,     \* whether removing the binary failed
    late,      \* children that were started after stopChildren
    signals

devvars == <<stage, stopping, child, binary, stuck, late, signals>>

Child == {"api", "next"}
Alive == {"running", "told"}

-----------------------------------------------------------------------------
(* Setting up: commands that are run to their end, one after the other.    *)

Following(s) ==
    CASE s = "validateDatabaseTarget" -> "compose up"
      [] s = "compose up" -> "waitForPostgres"
      [] s = "waitForPostgres" -> "goose up"
      [] s = "goose up" -> "build"

SettingUp == {"validateDatabaseTarget", "compose up", "waitForPostgres", "goose up"}

\* The signal handlers are there from the build on.
\* HandledLate, a faulty variant: only once both children run.
HandledLate == {"serving", "finished"}
Handled == {"build", "waitForApi", "serving", "finished"}

\* The script's process is no more.
Dead == {"killed", "hungUp", "crashed"}

\* stopChildren, the first time: each child is sent a signal.
\* StopApiOnly, a faulty variant: Next is left to itself.
StopApiOnly(ch) ==
    IF ~stopping /\ ch["api"] = "running" THEN [ch EXCEPT !["api"] = "told"] ELSE ch
Told(ch) ==
    IF stopping THEN ch
    ELSE [c \in Child |-> IF ch[c] = "running" THEN "told" ELSE ch[c]]

StopChildren(ch) == stopping' = TRUE /\ child' = Told(ch)

\* unlinkSync, whose failure is swallowed: on Windows it fails while the API
\* still runs.
Unlink ==
    \/ binary' = FALSE /\ UNCHANGED stuck
    \/ binary /\ stuck' = TRUE /\ UNCHANGED binary

\* main has settled: its catch and its finally stop the children and remove
\* the binary, with nothing in between.
Conclude(ch) ==
    /\ stage' = "finished"
    /\ StopChildren(ch)
    /\ Unlink

SetUp ==
    /\ stage \in SettingUp
    /\ \/ /\ stage' = Following(stage)
          /\ UNCHANGED <<stopping, child, binary, stuck>>
       \/ Conclude(child)
    /\ UNCHANGED <<late, signals>>

\* spawnLogged, which listens to the exit and not to an error.
Spawn(c) ==
    /\ child' = [child EXCEPT ![c] = "running"]
    /\ late' = IF stopping THEN late \cup {c} ELSE late

\* The build, and the spawn of what it built.  A build that fails is caught; an
\* API that cannot be started emits an error before anything listens to it
\* (341), which ends the script past its catch and its finally.
Build ==
    /\ stage = "build"
    /\ \/ /\ binary' = TRUE
          /\ \/ Spawn("api") /\ stage' = "waitForApi"
             \/ stage' = "crashed" /\ UNCHANGED <<child, late>>
          /\ UNCHANGED <<stopping, stuck>>
       \/ Conclude(child) /\ UNCHANGED late
    /\ UNCHANGED signals

\* The health check is answered, by the API, even if it has exited since or
\* was told to, or by another server on its port.
\* If Next cannot be started, watchProcess, which is there at once, rejects.
ApiHealthy ==
    /\ stage = "waitForApi"
    /\ \/ /\ Spawn("next")
          /\ stage' = "serving"
          /\ UNCHANGED <<stopping, binary, stuck>>
       \/ Conclude(child) /\ UNCHANGED late
    /\ UNCHANGED signals

HealthGivenUp ==
    /\ stage = "waitForApi"
    /\ Conclude(child)
    /\ UNCHANGED <<late, signals>>

-----------------------------------------------------------------------------
(* The children.                                                           *)

Exit(c) ==
    /\ child[c] \in Alive
    /\ child' = [child EXCEPT ![c] = "gone"]
    /\ UNCHANGED <<stage, stopping, binary, stuck, late, signals>>

\* What listens to the exits: waitForApi, then watchProcess of each child,
\* which settles main whatever the code was.
\* WatchedNext, a faulty variant: nobody watches the API once it is healthy.
WatchedNext == IF stage = "serving" THEN {"next"} ELSE {"api"}
Watched == IF stage = "serving" THEN Child
           ELSE IF stage = "waitForApi" THEN {"api"} ELSE {}

HearExit(c) ==
    LET heard == [child EXCEPT ![c] = "seen"] IN
    /\ child[c] = "gone" /\ stage \notin Dead
    /\ IF c \in Watched THEN Conclude(heard)
                       ELSE child' = heard /\ UNCHANGED <<stage, stopping, binary, stuck>>
    /\ UNCHANGED <<late, signals>>

\* SIGINT or SIGTERM.  The script's process stays while a child does, with
\* its handlers.
Signal ==
    /\ stage \notin Dead
    /\ stage = "finished" => \E c \in Child : child[c] \in Alive
    /\ signals < MaxSignals /\ signals' = signals + 1
    /\ CASE stage \notin Handled -> stage' = "killed" /\ UNCHANGED <<stopping, child, binary, stuck>>
         [] stage = "serving" -> Conclude(child)
         [] OTHER -> StopChildren(child) /\ UNCHANGED <<stage, binary, stuck>>
    /\ UNCHANGED late

\* SIGHUP, when the terminal is closed, has no handler at any stage.  The
\* compiler it interrupts may have written the binary.
HangUp ==
    /\ stage \notin Dead \cup {"finished"}
    /\ signals < MaxSignals /\ signals' = signals + 1
    /\ stage' = "hungUp"
    /\ binary' \in IF stage = "build" THEN BOOLEAN ELSE {binary}
    /\ UNCHANGED <<stopping, child, stuck, late>>

-----------------------------------------------------------------------------

StackInit ==
    /\ stage = "validateDatabaseTarget"
    /\ stopping = FALSE
    /\ child = [c \in Child |-> "none"]
    /\ binary = FALSE /\ stuck = FALSE
    /\ late = {}
    /\ signals = 0

StackNext ==
    \/ SetUp \/ Build \/ ApiHealthy \/ HealthGivenUp \/ Signal \/ HangUp
    \/ \E c \in Child : Exit(c) \/ HearExit(c)

StackSpec == StackInit /\ [][StackNext]_devvars

\* A child that was told to stop exits, and the script hears of an exit.
ToldExit(c) == child[c] = "told" /\ Exit(c)

StackFairSpec ==
    /\ StackSpec
    /\ \A c \in Child : WF_devvars(ToldExit(c)) /\ WF_devvars(HearExit(c))

-----------------------------------------------------------------------------
(* Properties.                                                             *)

\* The type of every variable.
StackTypeOK ==
    /\ stage \in SettingUp \cup Handled \cup Dead
    /\ stopping \in BOOLEAN /\ binary \in BOOLEAN /\ stuck \in BOOLEAN
    /\ child \in [Child -> {"none", "running", "told", "gone", "seen"}]
    /\ late \subseteq Child
    /\ signals \in 0..MaxSignals

\* A script that settles, or that SIGINT or SIGTERM ends at any stage, leaves
\* the binary it built only if it could not be removed (dev-local.ts:323).  One
\* that SIGHUP ends, or an API that cannot be started, leaves it.
BinaryRemoved == stage \in {"finished", "killed"} /\ binary => stuck

\* A script that is over, unless SIGHUP ended it, has told every child it
\* started to stop, except one it started after a signal: stopChildren runs
\* once (dev-local.ts:259), so that a signal during the build, or one the
\* health check overtakes, leaves the children that come after it running, and
\* further signals do too.
NothingLeftRunning ==
    stage \in {"finished", "killed", "crashed"} =>
        \A c \in Child : child[c] = "running" => c \in late

\* `bun dev`, stopped by anything but SIGHUP, leaves no process but children it
\* started after a signal (dev-local.ts:259), nor a binary, unless the API could
\* not be started or the binary not be removed.
StackComesDown == BinaryRemoved /\ NothingLeftRunning

\* When the API or Next ends, the other comes down with it, unless it was
\* started after a signal or the script has been hung up.
OneDownAllDown ==
    (\E c \in Child : child[c] = "gone")
        ~> \/ stage = "hungUp"
           \/ \A d \in Child : child[d] \in {"none", "seen"} \/ d \in late
=============================================================================
