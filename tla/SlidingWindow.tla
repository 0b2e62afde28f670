--------------------------- MODULE SlidingWindow ---------------------------
(***************************************************************************)
(* What the transaction mutation limiter promises: of all the requests it  *)
(* ever admitted for a key, at most Limit fall into the last Window; it    *)
(* rejects only when that many do, and then says how long the oldest of    *)
(* them still counts.  It is as if the limiter never forgot anything.      *)
(***************************************************************************)
EXTENDS Integers, FiniteSets

CONSTANTS
    Key,      \* budgets: a user and an action
    Window,   \* in ticks of the clock
    Limit,
    Second,   \* ticks per second
    Horizon   \* the clock stops here (a bound)

VARIABLES
    now,
    granted,  \* for each key, the requests admitted: their rank and their time
    answer    \* the last answer given

vars == <<now, granted, answer>>

Admitted(k) == [key |-> k, retry |-> 0]
Rejected(k, s) == [key |-> k, retry |-> s]

\* s is the least positive number of seconds that lasts at least d ticks.
Covers(s, d) == s >= 1 /\ s * Second >= d /\ (s = 1 \/ (s - 1) * Second < d)

InWindow(k) == {g \in granted[k] : g.at > now - Window}

Init ==
    /\ now = 0
    /\ granted = [k \in Key |-> {}]
    /\ answer = [key |-> "none", retry |-> 0]

Admit(k) ==
    /\ Cardinality(InWindow(k)) < Limit
    /\ granted' = [granted EXCEPT
          ![k] = @ \cup {[nth |-> Cardinality(granted[k]) + 1, at |-> now]}]
    /\ answer' = Admitted(k)
    /\ UNCHANGED now

Refuse(k) ==
    /\ Cardinality(InWindow(k)) >= Limit
    /\ \E oldest \in InWindow(k), s \in 1 .. Window :
          /\ \A g \in InWindow(k) : oldest.at <= g.at
          /\ Covers(s, oldest.at + Window - now)
          /\ answer' = Rejected(k, s)
    /\ UNCHANGED <<now, granted>>

Advance == now < Horizon /\ now' = now + 1 /\ UNCHANGED <<granted, answer>>

Next == Advance \/ \E k \in Key : Admit(k) \/ Refuse(k)

Spec == Init /\ [][Next]_vars
=============================================================================
