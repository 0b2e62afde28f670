--------------------- MODULE MutationRateLimiter_proofs ---------------------
(***************************************************************************)
(* Proofs about MutationRateLimiter, for any number of budgets and for any *)
(* window, limit, cleanup interval and clock resolution.                   *)
(***************************************************************************)
EXTENDS MutationRateLimiter, FiniteSetTheorems, TLAPS

(* The invariant relates what the limiter keeps to what it ever admitted:   *)
(* it keeps every timestamp that still counts (Pruned), and ranks and times *)
(* agree (Ordered), so recent[0] is the oldest of them.                     *)

Ordered(k) ==
  /\ IsFiniteSet(granted[k])
  /\ \A g \in granted[k] : g.at <= now /\ g.nth <= Cardinality(granted[k])
  /\ \A g, h \in granted[k] : g.nth <= h.nth => g.at <= h.at

Pruned(k) ==
  /\ requests[k] \subseteq granted[k]
  /\ \A g \in granted[k] : g.at > now - Window => g \in requests[k]

Within(S, t) == {g \in S : t - Window < g.at /\ g.at <= t}

Capped(k) == \A t \in 0 .. now : Cardinality(Within(granted[k], t)) <= Limit

After(S, t) == {g \in S : g.at > t - Window}

\* What a promise rests on: by then, too few of those admitted still count.
Promised(k) ==
  retryAt[k] # NoPromise => Cardinality(After(granted[k], retryAt[k])) < Limit

Kept(k) == requests[k] # {} => \E g \in requests[k] : g.at > lastCleanup - Window

LimiterInv ==
  /\ TypeOK
  /\ lastCleanup <= now
  /\ \A k \in Key : Ordered(k) /\ Pruned(k) /\ Capped(k) /\ Promised(k) /\ Kept(k)

LEMMA RetryCovers ==
  ASSUME NEW d \in Nat, d >= 1
  PROVE  /\ RetrySeconds(d) \in Nat /\ RetrySeconds(d) >= 1
         /\ RetrySeconds(d) * Second >= d
         /\ RetrySeconds(d) = 1 \/ (RetrySeconds(d) - 1) * Second < d
         /\ RetrySeconds(d) <= d
  <1> DEFINE s == (d + Second - 1) \div Second
  <1>1. Second \in Nat \ {0} /\ d + Second - 1 \in Nat
    BY LimiterAssumption
  <1>2. s \in Int /\ s * Second <= d + Second - 1 /\ d + Second - 1 < (s + 1) * Second
    BY <1>1
  <1> HIDE DEF s
  <1>3. (s + 1) * Second = s * Second + Second /\ (s - 1) * Second = s * Second - Second
    BY <1>1, <1>2
  <1>4. s * Second >= d /\ (s - 1) * Second < d
    BY <1>1, <1>2, <1>3
  <1>5. s >= 1
    <2>1. s * Second >= 1
      BY <1>4, <1>1, <1>2
    <2>2. s <= 0 => s * Second <= 0
      BY <1>1, <1>2
    <2>3. QED
      BY <1>2, <2>1, <2>2, <1>1
  <1>6. s <= d
    <2>1. (s - 1) * Second >= s - 1
      BY <1>1, <1>2, <1>5
    <2>2. QED
      BY <1>2, <1>4, <1>1, <2>1
  <1>7. RetrySeconds(d) = s
    BY <1>2, <1>5 DEF RetrySeconds, s
  <1>8. QED
    BY <1>2, <1>4, <1>5, <1>6, <1>7

LEMMA SubsetCardinality ==
  ASSUME NEW S, IsFiniteSet(S), NEW T, T \subseteq S
  PROVE  IsFiniteSet(T) /\ Cardinality(T) \in Nat /\ Cardinality(T) <= Cardinality(S)
  BY FS_Subset, FS_CardinalityType

\* What a call sees is exactly what still counts, sweep or no sweep.
LEMMA RecentExact ==
  ASSUME LimiterInv, NEW k \in Key
  PROVE  /\ Recent(Cleaned[k]) = {g \in granted[k] : g.at > now - Window}
         /\ Recent(requests[k]) = {g \in granted[k] : g.at > now - Window}
         /\ Cleaned \in [Key -> SUBSET Stamp]
  <1>1. Recent(requests[k]) = {g \in granted[k] : g.at > now - Window}
    BY DEF LimiterInv, Pruned, Recent
  <1>2. Cleaned \in [Key -> SUBSET Stamp]
    BY DEF LimiterInv, TypeOK, Cleaned, Swept
  <1>3. Recent(Cleaned[k]) = Recent(requests[k])
    BY DEF Cleaned, Swept, LimiterInv, TypeOK, Recent
  <1>4. QED
    BY <1>1, <1>2, <1>3

\* Sweeping other keys leaves their live timestamps and never hides a stale one.
LEMMA CleanedKeys ==
  ASSUME LimiterInv, Cleanup, NEW k \in Key
  PROVE  /\ lastCleanup' \in Int /\ lastCleanup' <= now
         /\ Cleaned[k] \subseteq granted[k]
         /\ \A g \in granted[k] : g.at > now - Window => g \in Cleaned[k]
         /\ Cleaned[k] # {} => \E g \in Cleaned[k] : g.at > lastCleanup' - Window
  <1>1. /\ requests[k] \subseteq granted[k] /\ lastCleanup \in Int /\ lastCleanup <= now /\ now \in Nat
        /\ \A g \in granted[k] : g.at > now - Window => g \in requests[k]
        /\ requests[k] # {} => \E g \in requests[k] : g.at > lastCleanup - Window
    BY DEF LimiterInv, Pruned, Kept, TypeOK
  <1>2. CASE CleanupDue
    <2>1. lastCleanup' = now /\ Cleaned[k] = IF Recent(requests[k]) # {} THEN requests[k] ELSE {}
      BY <1>2 DEF Cleanup, Cleaned, Swept
    <2>2. QED
      BY <1>1, <2>1 DEF Recent
  <1>3. CASE ~CleanupDue
    BY <1>1, <1>3 DEF Cleanup, Cleaned
  <1>4. QED
    BY <1>2, <1>3

LEMMA LimiterInit == Init => LimiterInv
  <1> SUFFICES ASSUME Init PROVE LimiterInv
    OBVIOUS
  <1>1. TypeOK /\ lastCleanup <= now
    BY LimiterAssumption DEF Init, TypeOK, Stamp, NoPromise
  <1>2. ASSUME NEW k \in Key PROVE Ordered(k) /\ Pruned(k) /\ Promised(k) /\ Kept(k)
    BY FS_EmptySet DEF Init, Ordered, Pruned, Promised, Kept
  <1>3. ASSUME NEW k \in Key PROVE Capped(k)
    <2>1. \A t : Within(granted[k], t) = {}
      BY DEF Init, Within
    <2>2. QED
      BY <2>1, FS_EmptySet, LimiterAssumption DEF Capped
  <1>4. QED
    BY <1>1, <1>2, <1>3 DEF LimiterInv

\* Time passes: what stops counting may be pruned, nothing else changes.
LEMMA AdvanceStep == ASSUME LimiterInv, Advance PROVE LimiterInv'
  <1>1. /\ now \in Nat /\ now' = now + 1 /\ Window \in Nat /\ lastCleanup \in Int
        /\ UNCHANGED <<requests, lastCleanup, granted, retryAt, answer>>
    BY LimiterAssumption DEF Advance, LimiterInv, TypeOK
  <1>2. TypeOK' /\ (lastCleanup <= now)'
    BY <1>1 DEF LimiterInv, TypeOK
  <1>3. ASSUME NEW k \in Key PROVE (Ordered(k) /\ Pruned(k) /\ Promised(k) /\ Kept(k))'
    <2>1. \A g \in granted[k] : g.at \in Nat
      BY DEF LimiterInv, TypeOK, Stamp
    <2>2. Ordered(k)'
      BY <1>1, <2>1 DEF LimiterInv, Ordered
    <2>3. Pruned(k)'
      BY <1>1, <2>1 DEF LimiterInv, Pruned
    <2>4. Promised(k)' /\ Kept(k)'
      BY <1>1 DEF LimiterInv, Promised, Kept, After
    <2>5. QED
      BY <2>2, <2>3, <2>4
  <1>4. ASSUME NEW k \in Key PROVE Capped(k)'
    <2>1. Limit \in Nat /\ IsFiniteSet(granted[k]) /\ \A g \in granted[k] : g.at \in Nat /\ g.at <= now
      BY LimiterAssumption DEF LimiterInv, TypeOK, Stamp, Ordered
    <2>2. \A t \in 0 .. now : Cardinality(Within(granted[k], t)) <= Limit
      BY DEF LimiterInv, Capped
    <2>3. Within(granted[k], now + 1) \subseteq Within(granted[k], now)
      BY <1>1, <2>1 DEF Within
    <2>4. IsFiniteSet(Within(granted[k], now))
      BY <2>1, FS_Subset DEF Within
    <2>5. Cardinality(Within(granted[k], now + 1)) <= Limit
      BY <1>1, <2>1, <2>2, <2>3, <2>4, SubsetCardinality, FS_CardinalityType
    <2>6. \A t \in 0 .. now + 1 : t \in 0 .. now \/ t = now + 1
      BY <1>1
    <2>7. QED
      BY <1>1, <2>2, <2>5, <2>6 DEF Capped
  <1>5. QED
    BY <1>2, <1>3, <1>4 DEF LimiterInv

\* A call for one key leaves the other keys as the sweep leaves them.
LEMMA OtherKeys ==
  ASSUME LimiterInv, Cleanup, UNCHANGED now, NEW j \in Key,
         requests'[j] = Cleaned[j], granted'[j] = granted[j], retryAt'[j] = retryAt[j]
  PROVE  (Ordered(j) /\ Pruned(j) /\ Capped(j) /\ Promised(j) /\ Kept(j))'
  <1>1. Ordered(j) /\ Pruned(j) /\ Capped(j) /\ Promised(j)
    BY DEF LimiterInv
  <1>2. QED
    BY <1>1, CleanedKeys DEF Ordered, Pruned, Capped, Promised, Kept

LEMMA AcceptStep == ASSUME LimiterInv, NEW k \in Key, Accept(k) PROVE LimiterInv'
  <1> DEFINE recent == Recent(Cleaned[k])
             this == [nth |-> Cardinality(granted[k]) + 1, at |-> now]
             live == {g \in granted[k] : g.at > now - Window}
  <1>1. /\ Cardinality(live) < Limit /\ recent = live
        /\ requests' = [Cleaned EXCEPT ![k] = recent \cup {this}]
        /\ granted' = [granted EXCEPT ![k] = granted[k] \cup {this}]
        /\ retryAt' = [retryAt EXCEPT ![k] = NoPromise]
        /\ answer' = [key |-> k, retry |-> 0] /\ UNCHANGED now /\ Cleanup
    BY RecentExact DEF Accept
  <1>2. /\ now \in Nat /\ Window \in Nat \ {0} /\ Limit \in Nat /\ IsFiniteSet(granted[k])
        /\ Cardinality(granted[k]) \in Nat /\ granted[k] \subseteq Stamp
        /\ lastCleanup' \in Int /\ lastCleanup' <= now
    BY <1>1, LimiterAssumption, FS_CardinalityType, CleanedKeys DEF LimiterInv, TypeOK, Ordered
  <1>3. /\ this \in Stamp /\ this.at = now /\ this.nth = Cardinality(granted[k]) + 1
        /\ this \notin granted[k]
    BY <1>2 DEF Stamp, LimiterInv, Ordered
  <1>4. /\ requests'[k] = live \cup {this} /\ granted'[k] = granted[k] \cup {this}
        /\ retryAt'[k] = NoPromise
        /\ \A j \in Key \ {k} : /\ requests'[j] = Cleaned[j] /\ granted'[j] = granted[j]
                                /\ retryAt'[j] = retryAt[j]
    BY <1>1, RecentExact DEF LimiterInv, TypeOK
  <1>6. \A g \in granted[k] : g.at \in Nat /\ g.nth \in Nat
    BY <1>2 DEF Stamp
  <1>7. TypeOK'
    BY <1>1, <1>2, <1>3, RecentExact DEF LimiterInv, TypeOK, NoPromise
  <1> HIDE DEF this, recent
  <1>5. IsFiniteSet(granted'[k]) /\ Cardinality(granted'[k]) = Cardinality(granted[k]) + 1
    <2>1. /\ IsFiniteSet(granted[k] \cup {this})
          /\ Cardinality(granted[k] \cup {this}) = Cardinality(granted[k]) + 1
      BY <1>2, <1>3, FS_AddElement
    <2>2. QED
      BY <1>4, <2>1
  <1>8. Ordered(k)'
    <2>1. /\ \A g \in granted[k] : g.at <= now /\ g.nth <= Cardinality(granted[k])
          /\ \A g, h \in granted[k] : g.nth <= h.nth => g.at <= h.at
      BY DEF LimiterInv, Ordered
    <2>2. \A g \in granted[k] : ~(this.nth <= g.nth)
      BY <1>2, <1>3, <1>6, <2>1
    <2>3. \A g \in granted'[k] : g.at <= now' /\ g.nth <= Cardinality(granted'[k])
      BY <1>1, <1>2, <1>3, <1>4, <1>5, <1>6, <2>1
    <2>4. \A g, h \in granted'[k] : g.nth <= h.nth => g.at <= h.at
      BY <1>2, <1>3, <1>4, <2>1, <2>2
    <2>5. QED
      BY <1>5, <2>3, <2>4 DEF Ordered
  <1>9. Pruned(k)'
    BY <1>1, <1>3, <1>4, <1>6 DEF Pruned
  <1>10. Promised(k)'
    BY <1>4 DEF Promised
  <1>11. Kept(k)'
    BY <1>2, <1>3, <1>4 DEF Kept
  <1>12. Capped(k)'
    <2>1. IsFiniteSet(live) /\ Cardinality(live) \in Nat
      BY <1>2, SubsetCardinality
    <2>2. IsFiniteSet(live \cup {this}) /\ Cardinality(live \cup {this}) <= Limit
      <3>1. /\ IsFiniteSet(live \cup {this})
            /\ Cardinality(live \cup {this}) \in {Cardinality(live), Cardinality(live) + 1}
        BY <2>1, FS_AddElement
      <3>2. QED
        BY <1>1, <1>2, <2>1, <3>1
    <2>3. Within(granted'[k], now) \subseteq live \cup {this}
      BY <1>4 DEF Within
    <2>4. Cardinality(Within(granted'[k], now)) <= Limit
      BY <1>2, <2>2, <2>3, SubsetCardinality, FS_CardinalityType
    <2>5. ASSUME NEW t \in 0 .. now, t # now PROVE Within(granted'[k], t) = Within(granted[k], t)
      BY <1>2, <1>3, <1>4, <2>5 DEF Within
    <2>6. \A t \in 0 .. now : Cardinality(Within(granted[k], t)) <= Limit
      BY DEF LimiterInv, Capped
    <2>7. QED
      BY <1>1, <2>4, <2>5, <2>6 DEF Capped
  <1>13. QED
    BY <1>1, <1>2, <1>4, <1>7, <1>8, <1>9, <1>10, <1>11, <1>12, OtherKeys DEF LimiterInv

\* Rejecting promises that one of the Limit requests that count, the oldest,
\* will not when the seconds are over.
LEMMA RejectStep == ASSUME LimiterInv, NEW k \in Key, Reject(k) PROVE LimiterInv'
  <1> DEFINE recent == Recent(Cleaned[k])
             live == {g \in granted[k] : g.at > now - Window}
  <1>1. PICK first \in recent :
          /\ \A g \in recent : first.nth <= g.nth
          /\ retryAt' = [retryAt EXCEPT ![k] =
               IF retryAt[k] = NoPromise
               THEN now + RetrySeconds(first.at + Window - now) * Second ELSE retryAt[k]]
          /\ answer' = [key |-> k, retry |-> RetrySeconds(first.at + Window - now)]
    BY DEF Reject
  <1>2. /\ recent = live /\ Cardinality(live) >= Limit
        /\ requests' = [Cleaned EXCEPT ![k] = recent]
        /\ UNCHANGED <<now, granted>> /\ Cleanup
    BY RecentExact DEF Reject
  <1>3. /\ now \in Nat /\ Window \in Nat \ {0} /\ Limit \in Nat /\ Second \in Nat
        /\ IsFiniteSet(granted[k]) /\ granted[k] \subseteq Stamp
        /\ lastCleanup' \in Int /\ lastCleanup' <= now
        /\ \A g \in granted[k] : g.at \in Nat /\ g.nth \in Nat /\ g.at <= now
    BY <1>2, LimiterAssumption, CleanedKeys DEF LimiterInv, TypeOK, Ordered, Stamp
  <1> DEFINE d == first.at + Window - now
             promise == now + RetrySeconds(d) * Second
  <1>4. first \in live /\ first \in granted[k] /\ d \in Nat /\ d >= 1
    BY <1>2, <1>3
  <1>5. RetrySeconds(d) \in Nat /\ RetrySeconds(d) * Second >= d
    BY <1>4, RetryCovers
  <1>6. promise \in Nat /\ promise >= first.at + Window
    <2>1. RetrySeconds(d) * Second \in Nat
      BY <1>3, <1>5
    <2>2. QED
      BY <1>3, <1>4, <1>5, <2>1
  <1>7. /\ requests'[k] = live
        /\ retryAt'[k] = IF retryAt[k] = NoPromise THEN promise ELSE retryAt[k]
        /\ \A j \in Key \ {k} : /\ requests'[j] = Cleaned[j] /\ granted'[j] = granted[j]
                                /\ retryAt'[j] = retryAt[j]
    BY <1>1, <1>2, RecentExact DEF LimiterInv, TypeOK
  <1>8. TypeOK'
    BY <1>1, <1>2, <1>3, <1>5, <1>6, RecentExact DEF LimiterInv, TypeOK
  <1> HIDE DEF d, promise, recent
  <1>9. Ordered(k)' /\ Capped(k)'
    BY <1>2 DEF LimiterInv, Ordered, Capped
  <1>10. Pruned(k)' /\ Kept(k)'
    <2>1. Pruned(k)'
      BY <1>2, <1>7 DEF Pruned
    <2>2. \A g \in live : g.at > lastCleanup' - Window
      BY <1>3
    <2>3. QED
      BY <1>7, <2>1, <2>2 DEF Kept
  <1>11. Promised(k)'
    <2>1. Within(granted[k], now) = live
      BY <1>3 DEF Within
    <2>2. IsFiniteSet(live) /\ Cardinality(live) \in Nat /\ Cardinality(live) <= Limit
      <3>1. now \in 0 .. now
        BY <1>3
      <3>2. QED
        BY <1>3, <2>1, <3>1, SubsetCardinality DEF LimiterInv, Capped
    <2>3. After(granted[k], promise) \subseteq live \ {first}
      BY <1>3, <1>4, <1>6 DEF After
    <2>4. IsFiniteSet(live \ {first}) /\ Cardinality(live \ {first}) = Cardinality(live) - 1
      BY <1>4, <2>2, FS_RemoveElement
    <2>5. Cardinality(After(granted[k], promise)) < Limit
      BY <1>3, <2>2, <2>3, <2>4, SubsetCardinality
    <2>6. retryAt[k] # NoPromise => Cardinality(After(granted[k], retryAt[k])) < Limit
      BY DEF LimiterInv, Promised
    <2>7. QED
      BY <1>2, <1>7, <2>5, <2>6 DEF Promised
  <1>12. QED
    BY <1>2, <1>3, <1>7, <1>8, <1>9, <1>10, <1>11, OtherKeys DEF LimiterInv

LEMMA LimiterStep == ASSUME LimiterInv, [Next]_vars PROVE LimiterInv'
  <1>1. CASE UNCHANGED vars
    BY <1>1 DEF vars, LimiterInv, TypeOK, Ordered, Pruned, Capped, Promised, Kept
  <1>2. QED
    BY <1>1, AdvanceStep, AcceptStep, RejectStep DEF Next, Allow

LEMMA LimiterInvariant == Spec => []LimiterInv
  <1>1. LimiterInv /\ [Next]_vars => LimiterInv'
    BY LimiterStep
  <1>2. QED
    BY <1>1, LimiterInit, PTL DEF Spec

\* No window of time ever holds more than Limit admitted requests of a budget.
THEOREM AtMostLimitPerWindow == Spec => []WindowCap
  <1>1. LimiterInv => WindowCap
    BY DEF LimiterInv, Capped, Within, WindowCap
  <1>2. QED
    BY <1>1, LimiterInvariant, PTL

\* A caller that waits out Retry-After finds room in its budget.
THEOREM RetryAfterSuffices == Spec => []RetryHonoured
  <1>1. ASSUME LimiterInv, NEW k \in Key, retryAt[k] # NoPromise, now >= retryAt[k]
        PROVE  Cardinality(Recent(requests[k])) < Limit
    <2>1. /\ now \in Nat /\ retryAt[k] \in Int /\ Window \in Nat /\ Limit \in Nat
          /\ IsFiniteSet(granted[k]) /\ \A g \in granted[k] : g.at \in Nat
      BY <1>1, LimiterAssumption DEF LimiterInv, TypeOK, Ordered, Stamp
    <2>2. Recent(requests[k]) \subseteq After(granted[k], retryAt[k])
      BY <1>1, <2>1, RecentExact DEF After
    <2>3. IsFiniteSet(After(granted[k], retryAt[k]))
      BY <2>1, FS_Subset DEF After
    <2>4. Cardinality(After(granted[k], retryAt[k])) < Limit
      BY <1>1 DEF LimiterInv, Promised
    <2>5. QED
      BY <2>1, <2>2, <2>3, <2>4, SubsetCardinality, FS_CardinalityType
  <1>2. LimiterInv => RetryHonoured
    BY <1>1 DEF RetryHonoured
  <1>3. QED
    BY <1>2, LimiterInvariant, PTL

\* No budget outlives the first sweep after its timestamps stopped counting.
THEOREM IdleKeysGo == Spec => []StaleKeysSwept
  <1>1. LimiterInv => StaleKeysSwept
    BY DEF LimiterInv, Kept, StaleKeysSwept
  <1>2. QED
    BY <1>1, LimiterInvariant, PTL

LEMMA SameCardinality == \A S : Ideal!Cardinality(S) = Cardinality(S)
  BY DEF Ideal!Cardinality, Cardinality

LEMMA IdealStep == ASSUME LimiterInv, [Next]_vars PROVE [Ideal!Next]_(Ideal!vars)
  <1>a. \A k : Ideal!InWindow(k) = {g \in granted[k] : g.at > now - Window}
    BY DEF Ideal!InWindow
  <1>1. CASE Advance
    BY <1>1 DEF Advance, Ideal!Next, Ideal!Advance
  <1>2. ASSUME NEW k \in Key, Accept(k) PROVE Ideal!Next
    <2>1. Ideal!InWindow(k) = Recent(Cleaned[k])
      BY <1>a, RecentExact
    <2>2. Ideal!Admit(k)
      BY <1>2, <2>1, SameCardinality DEF Accept, Ideal!Admit, Ideal!Admitted
    <2>3. QED
      BY <2>2 DEF Ideal!Next
  <1>3. ASSUME NEW k \in Key, Reject(k) PROVE Ideal!Next
    <2> DEFINE live == {g \in granted[k] : g.at > now - Window}
    <2>1. PICK first \in live :
            /\ \A g \in live : first.nth <= g.nth
            /\ answer' = [key |-> k, retry |-> RetrySeconds(first.at + Window - now)]
      BY <1>3, RecentExact DEF Reject
    <2>2. Cardinality(live) >= Limit /\ UNCHANGED <<now, granted>>
      BY <1>3, RecentExact DEF Reject
    <2> DEFINE d == first.at + Window - now  s == RetrySeconds(d)
    <2>3. now \in Nat /\ Window \in Nat /\ first.at \in Nat /\ first.at <= now
      BY LimiterAssumption DEF LimiterInv, TypeOK, Ordered, Stamp
    <2>4. d \in Nat /\ d >= 1 /\ d <= Window
      BY <2>3
    <2>5. s \in 1 .. Window /\ Ideal!Covers(s, d)
      BY <2>3, <2>4, RetryCovers DEF Ideal!Covers
    <2>6. \A g \in live : first.at <= g.at
      BY <2>1 DEF LimiterInv, Ordered
    <2> HIDE DEF s
    <2>7. Ideal!Refuse(k)
      BY <1>a, <2>1, <2>2, <2>5, <2>6, SameCardinality DEF Ideal!Refuse, Ideal!Rejected, s
    <2>8. QED
      BY <2>7 DEF Ideal!Next
  <1>4. CASE UNCHANGED vars
    BY <1>4 DEF vars, Ideal!vars
  <1>5. QED
    BY <1>1, <1>2, <1>3, <1>4 DEF Next, Allow, Ideal!Next

\* The limiter answers exactly as one that never prunes or sweeps would.
THEOREM PruningInvisible == Spec => AnswersAsIfUnpruned
  <1>1. Init => Ideal!Init
    BY DEF Init, Ideal!Init
  <1>2. LimiterInv /\ [Next]_vars => [Ideal!Next]_(Ideal!vars)
    BY IdealStep
  <1>3. QED
    BY <1>1, <1>2, LimiterInvariant, PTL DEF Spec, AnswersAsIfUnpruned, Ideal!Spec
=============================================================================
