------------------------ MODULE MutationRateLimiter ------------------------
(***************************************************************************)
(* backend/internal/ratelimit/mutation.go: the in-memory limiter of the    *)
(* transaction mutation endpoints, and the Retry-After seconds its caller  *)
(* (allowMutation, backend/internal/http/transactions.go) answers with.    *)
(*                                                                         *)
(* Allow reads the clock and the map under one mutex, so a call is one     *)
(* step; calls of different requests come in any order.  The clock is      *)
(* monotonic (time.Now carries a monotonic reading).  A behaviour is one   *)
(* life of the process: the map is empty when it starts.                   *)
(***************************************************************************)
EXTENDS Integers, FiniteSets

CONSTANTS
    Key,              \* key{userID, action}: one budget each
    Window,           \* ticks of the clock
    Limit,
    CleanupInterval,
    Second,           \* ticks per second
    Horizon           \* the clock stops here (a bound)

ASSUME LimiterAssumption ==
    /\ Window \in Nat \ {0}
    /\ Limit \in Nat \ {0}
    /\ CleanupInterval \in Nat
    /\ Second \in Nat \ {0}
    /\ Horizon \in Nat

VARIABLES
    now,
    requests,     \* the map: the timestamps kept for a key; {} is no entry
    lastCleanup,  \* time of the last sweep; long before the start at first
    granted,      \* history: all requests admitted
    retryAt,      \* history: when a rejected caller was told to come back
    answer        \* the last answer given

vars == <<now, requests, lastCleanup, granted, retryAt, answer>>

\* A timestamp of a slice, with its rank among those ever appended for the key:
\* a slice is the set of its elements, in the order of their ranks.
Stamp == [nth : Nat, at : Nat]

NoPromise == -1

TypeOK ==
    /\ now \in Nat
    /\ requests \in [Key -> SUBSET Stamp]
    /\ lastCleanup \in Int
    /\ granted \in [Key -> SUBSET Stamp]
    /\ retryAt \in [Key -> Int]
    /\ answer \in [key : Key \cup {"none"}, retry : Nat]

Init ==
    /\ now = 0
    /\ requests = [k \in Key |-> {}]
    /\ lastCleanup = -CleanupInterval
    /\ granted = [k \in Key |-> {}]
    /\ retryAt = [k \in Key |-> NoPromise]
    /\ answer = [key |-> "none", retry |-> 0]

Recent(stamps) == {g \in stamps : g.at > now - Window}

-----------------------------------------------------------------------------
(* Faulty variants of definitions below.  No specification uses them.      *)

\* a key goes as soon as one of its timestamps has aged out
SweptEagerly ==
    [k \in Key |-> IF \A g \in requests[k] : g.at > now - Window THEN requests[k] ELSE {}]

\* keys are never dropped
SweptNever == requests

\* whole seconds, rounded down
RetrySecondsFloor(d) == IF d \div Second < 1 THEN 1 ELSE d \div Second

-----------------------------------------------------------------------------
(* Allow.                                                                  *)

CleanupDue == now - lastCleanup >= CleanupInterval

\* cleanupLocked: keys whose every timestamp has aged out are dropped.
Swept == [k \in Key |-> IF Recent(requests[k]) # {} THEN requests[k] ELSE {}]

Cleaned == IF CleanupDue THEN Swept ELSE requests

Cleanup == lastCleanup' = IF CleanupDue THEN now ELSE lastCleanup

\* allowMutation: whole seconds, rounded up, at least one.
RetrySeconds(d) ==
    LET s == (d + Second - 1) \div Second IN IF s < 1 THEN 1 ELSE s

\* A faulty variant of Reject, used by no specification: the rejected attempt
\* is recorded as well.
RejectRecorded(k) ==
    LET recent == Recent(Cleaned[k])
        this == [nth |-> Cardinality(granted[k]) + 1, at |-> now]
    IN  /\ Cardinality(recent) >= Limit
        /\ requests' = [Cleaned EXCEPT ![k] = recent \cup {this}]
        /\ Cleanup
        /\ \E first \in recent :
             LET seconds == RetrySeconds(first.at + Window - now)
             IN  /\ \A g \in recent : first.nth <= g.nth
                 /\ retryAt' = [retryAt EXCEPT
                      ![k] = IF @ = NoPromise THEN now + seconds * Second ELSE @]
                 /\ answer' = [key |-> k, retry |-> seconds]
        /\ UNCHANGED <<now, granted>>

Accept(k) ==
    LET recent == Recent(Cleaned[k])
        this == [nth |-> Cardinality(granted[k]) + 1, at |-> now]
    IN  /\ Cardinality(recent) < Limit
        /\ requests' = [Cleaned EXCEPT ![k] = recent \cup {this}]
        /\ Cleanup
        /\ granted' = [granted EXCEPT ![k] = @ \cup {this}]
        /\ retryAt' = [retryAt EXCEPT ![k] = NoPromise]
        /\ answer' = [key |-> k, retry |-> 0]
        /\ UNCHANGED now

\* Nothing is recorded; recent[0] is the element of the lowest rank.
Reject(k) ==
    LET recent == Recent(Cleaned[k])
    IN  /\ Cardinality(recent) >= Limit
        /\ requests' = [Cleaned EXCEPT ![k] = recent]
        /\ Cleanup
        /\ \E first \in recent :
             LET seconds == RetrySeconds(first.at + Window - now)
             IN  /\ \A g \in recent : first.nth <= g.nth
                 /\ retryAt' = [retryAt EXCEPT
                      ![k] = IF @ = NoPromise THEN now + seconds * Second ELSE @]
                 /\ answer' = [key |-> k, retry |-> seconds]
        /\ UNCHANGED <<now, granted>>

Allow(k) == Accept(k) \/ Reject(k)

Advance ==
    /\ now < Horizon
    /\ now' = now + 1
    /\ UNCHANGED <<requests, lastCleanup, granted, retryAt, answer>>

Next == Advance \/ \E k \in Key : Allow(k)

Spec == Init /\ [][Next]_vars

-----------------------------------------------------------------------------
(* Properties.                                                             *)

\* No window of time, wherever it begins, holds more than Limit admitted
\* requests of a key, although timestamps are pruned and whole keys swept on
\* the calls of other users (package comment: "at most 60 accepted requests in
\* the preceding 60 seconds").
WindowCap ==
    \A k \in Key : \A t \in 0 .. now :
        Cardinality({g \in granted[k] : t - Window < g.at /\ g.at <= t}) <= Limit

\* Whoever waits as long as Retry-After said is admitted, unless the budget was
\* used in the meantime: the rejections between do not count against it
\* (Allow: "a rejected attempt is deliberately NOT recorded").
RetryHonoured ==
    \A k \in Key :
        retryAt[k] # NoPromise /\ now >= retryAt[k] => Cardinality(Recent(requests[k])) < Limit

\* A key that is kept had a live timestamp at the last sweep or since: idle keys
\* do not stay for good (cleanupInterval, "the map grows once per user forever").
StaleKeysSwept ==
    \A k \in Key : requests[k] # {} => \E g \in requests[k] : g.at > lastCleanup - Window

\* Pruning and sweeping are invisible: every answer is the one a limiter that
\* remembers everything would give.
Ideal == INSTANCE SlidingWindow
AnswersAsIfUnpruned == Ideal!Spec
=============================================================================
