--------------------------- MODULE MemoryDedupProofs ---------------------------
(***************************************************************************)
(* Proofs about the memory deduplicator, for any events, TTL, period and   *)
(* lag below the period: what it remembers, for how long, and that it      *)
(* keeps the promise of SeenWindow.                                        *)
(***************************************************************************)
EXTENDS MemoryDedup, Integers, TLAPS

\* The entries are the latest marks, of which a sweep drops only what is old.
EntriesAreMarks ==
    stage = "open" =>
        /\ \A f \in DOMAIN cache : lastMark[f] = cache[f] /\ cache[f] <= now
        /\ \A f \in Prints : f \notin DOMAIN cache /\ lastMark[f] # None => now - lastMark[f] > TTL

\* Between ticks the entries are older than TTL by the time since the last tick
\* at most; while a tick waits, by a period more.
SweptInTime ==
    stage = "open" =>
        /\ cleanup = "running"
        /\ tick = None => \A f \in DOMAIN cache : now - cache[f] <= TTL + (now % Period)
        /\ tick # None => /\ tick <= now /\ now <= tick + Lag
                          /\ \A f \in DOMAIN cache : now - cache[f] <= TTL + Period + (now - tick)

IInv == TypeOK /\ EntriesAreMarks /\ SweptInTime

-----------------------------------------------------------------------------

LEMMA Multiples ==
    ASSUME NEW p \in Nat \ {0}, NEW k \in Int
    PROVE  /\ k >= 2 => p * k >= p + p
           /\ k <= (0 - 1) => p * k <= 0 - p
           /\ p * 0 = 0 /\ p * 1 = p
<1>1. k >= 2 => p * k >= p + p
  BY Z3
<1>2. k <= (0 - 1) => p * k <= 0 - p
  BY Z3
<1> QED
  BY <1>1, <1>2

\* The remainder of a counter counts up and starts again after p - 1.
LEMMA NextRemainder ==
    ASSUME NEW n \in Nat, NEW p \in Nat \ {0}
    PROVE  /\ n % p \in 0 .. p - 1
           /\ (n + 1) % p # 0 => (n + 1) % p = (n % p) + 1
           /\ (n + 1) % p = 0 => n % p = p - 1
<1> DEFINE q == n \div p  r == n % p  k == (n + 1) \div p  s == (n + 1) % p
<1>1. /\ q \in Int /\ r \in 0 .. p - 1 /\ n = p * q + r
      /\ k \in Int /\ s \in 0 .. p - 1 /\ n + 1 = p * k + s
  BY Z3
<1>2. p * (k - q) = r + 1 - s
  BY <1>1, Z3
<1> HIDE DEF q, r, k, s
<1>3. k - q \in {0, 1}
  BY <1>1, <1>2, Multiples
<1>4. (k = q => s = r + 1) /\ (k = q + 1 => r + 1 = p + s)
  BY <1>1, <1>2, <1>3
<1> QED
  BY <1>1, <1>3, <1>4 DEF r, s

-----------------------------------------------------------------------------
(* The invariant *)

LEMMA StampedEntry ==
    ASSUME NEW f
    PROVE  /\ DOMAIN Stamped(f) = DOMAIN cache \cup {f}
           /\ Stamped(f)[f] = now
           /\ \A g \in DOMAIN cache : g # f => Stamped(f)[g] = cache[g]
  BY DEF Stamped

LEMMA Initially == Init => IInv
<1> SUFFICES ASSUME Init PROVE IInv
  OBVIOUS
<1> QED
  BY MemoryDedupAssumption DEF Init, IInv, TypeOK, EntriesAreMarks, SweptInTime

LEMMA Inductive == IInv /\ [Next]_vars => IInv'
<1> SUFFICES ASSUME IInv, [Next]_vars PROVE IInv'
  OBVIOUS
<1> USE MemoryDedupAssumption DEF IInv, TypeOK, clock
<1>1. CASE Advance
  <2>1. TypeOK'
    BY <1>1 DEF Advance
  <2>2. EntriesAreMarks'
    BY <1>1 DEF Advance, EntriesAreMarks
  <2>3. /\ now % Period \in 0 .. Period - 1 /\ now' % Period \in 0 .. Period - 1
        /\ now' % Period # 0 => now' % Period = (now % Period) + 1
        /\ now' % Period = 0 => now % Period = Period - 1
    <3>1. now' = now + 1
      BY <1>1 DEF Advance
    <3>2. now \in Nat /\ now + 1 \in Nat
      OBVIOUS
    <3> HIDE DEF IInv, TypeOK
    <3>3. /\ now % Period \in 0 .. Period - 1 /\ (now + 1) % Period \in 0 .. Period - 1
          /\ (now + 1) % Period # 0 => (now + 1) % Period = (now % Period) + 1
          /\ (now + 1) % Period = 0 => now % Period = Period - 1
      BY ONLY <3>2, MemoryDedupAssumption, NextRemainder
    <3> QED
      BY ONLY <3>1, <3>3
  <2>4. SweptInTime'
    <3> SUFFICES ASSUME stage = "open" PROVE SweptInTime'
      BY <1>1 DEF Advance, SweptInTime
    <3>1. CASE tick = None /\ now' % Period # 0
      <4>1. ASSUME NEW f \in DOMAIN cache PROVE now' - cache[f] <= TTL + (now' % Period)
        BY <1>1, <2>3, <3>1, <4>1 DEF Advance, SweptInTime, EntriesAreMarks
      <4> QED
        BY <1>1, <3>1, <4>1 DEF Advance, SweptInTime
    <3>2. CASE tick = None /\ now' % Period = 0
      <4>1. ASSUME NEW f \in DOMAIN cache PROVE now' - cache[f] <= TTL + Period
        BY <1>1, <2>3, <3>2, <4>1 DEF Advance, SweptInTime, EntriesAreMarks
      <4> QED
        BY <1>1, <3>2, <4>1 DEF Advance, SweptInTime
    <3>3. CASE tick # None
      BY <1>1, <3>3 DEF Advance, SweptInTime
    <3> QED
      BY <3>1, <3>2, <3>3
  <2> QED
    BY <2>1, <2>2, <2>4
<1>2. CASE RemoveExpired
  <2>1. TypeOK'
    BY <1>2 DEF RemoveExpired
  <2>2. EntriesAreMarks'
    BY <1>2 DEF RemoveExpired, EntriesAreMarks, Expired
  <2>3. now % Period \in 0 .. Period - 1
    BY NextRemainder
  <2>4. /\ UNCHANGED <<now, cleanup, stage>> /\ tick' = None
        /\ \A f \in DOMAIN cache' :
              f \in DOMAIN cache /\ cache'[f] = cache[f] /\ now - cache[f] <= TTL
    BY <1>2 DEF RemoveExpired, Expired
  <2>5. SweptInTime'
    BY <2>3, <2>4 DEF SweptInTime, EntriesAreMarks
  <2> QED
    BY <2>1, <2>2, <2>5
<1>3. CASE StopCleanup
  BY <1>3 DEF StopCleanup, StopSignalled, EntriesAreMarks, SweptInTime
<1>4. CASE CloseSignal
  BY <1>4 DEF CloseSignal, EntriesAreMarks, SweptInTime
<1>5. CASE CloseClear
  BY <1>5 DEF CloseClear, EntriesAreMarks, SweptInTime
<1>6. ASSUME NEW e \in Events, IsDuplicate(e) PROVE IInv'
  BY <1>6 DEF IsDuplicate, EntriesAreMarks, SweptInTime
<1>7. ASSUME NEW e \in Events, Mark(e) PROVE IInv'
  <2>1. Fingerprint[e] \in Prints
    BY DEF Prints
  <2>2. now % Period \in 0 .. Period - 1
    BY NextRemainder
  <2> DEFINE p == Fingerprint[e]
  <2>3. /\ DOMAIN cache' = DOMAIN cache \cup {p} /\ cache'[p] = now
        /\ \A g \in DOMAIN cache : g # p => cache'[g] = cache[g]
    BY <1>7, StampedEntry DEF Mark
  <2>4. /\ lastMark'[p] = now /\ \A g \in Prints : g # p => lastMark'[g] = lastMark[g]
        /\ UNCHANGED <<now, tick, cleanup, stage>>
    BY <1>7, <2>1 DEF Mark
  <2> HIDE DEF p
  <2>5. TypeOK'
    <3>1. lastMark' \in [Prints -> Nat \cup {None}]
      BY <1>7 DEF Mark
    <3> QED
      BY <2>1, <2>3, <2>4, <3>1 DEF p
  <2>6. EntriesAreMarks'
    BY <2>1, <2>3, <2>4 DEF EntriesAreMarks, p
  <2>7. SweptInTime'
    BY <2>1, <2>2, <2>3, <2>4 DEF SweptInTime, EntriesAreMarks, p
  <2> QED
    BY <2>5, <2>6, <2>7
<1>8. CASE UNCHANGED vars
  BY <1>8 DEF vars, EntriesAreMarks, SweptInTime
<1> QED
  BY <1>1, <1>2, <1>3, <1>4, <1>5, <1>6, <1>7, <1>8 DEF Next

LEMMA Invariance == Spec => []IInv
  BY Initially, Inductive, PTL DEF Spec

-----------------------------------------------------------------------------
(* The theorems *)

\* The variables keep their shapes: every entry of the cache has a time.
THEOREM TypeCorrect == Spec => []TypeOK
<1>1. IInv => TypeOK
  BY DEF IInv
<1> QED
  BY <1>1, Invariance, PTL

\* No sweep forgets a key within TTL of its last Mark, for any TTL and period.
THEOREM RemembersForTTL == Spec => []RememberedForTTL
<1>1. IInv => RememberedForTTL
  BY MemoryDedupAssumption DEF IInv, TypeOK, EntriesAreMarks, RememberedForTTL
<1> QED
  BY <1>1, Invariance, PTL

LEMMA EntriesAge == IInv => ForgottenInTime
<1> SUFFICES ASSUME IInv, stage = "open", NEW f \in DOMAIN cache
             PROVE  now - cache[f] <= TTL + Period + Lag
  BY DEF ForgottenInTime
<1>1. now % Period \in 0 .. Period - 1
  BY MemoryDedupAssumption, NextRemainder DEF IInv, TypeOK
<1> QED
  BY <1>1, MemoryDedupAssumption DEF IInv, TypeOK, SweptInTime

\* No entry outlives its TTL by more than a period and the lag: the map does
\* not grow for ever.
THEOREM ForgetsInTime == Spec => []ForgottenInTime
  BY EntriesAge, Invariance, PTL

-----------------------------------------------------------------------------
(* Refinement *)

LEMMA StepsRefine == IInv /\ [Next]_vars => [W!Next]_W!vars
<1> SUFFICES ASSUME IInv, [Next]_vars PROVE [W!Next]_W!vars
  OBVIOUS
<1> USE DEF W!Next, W!vars
<1>1. CASE Advance
  BY <1>1 DEF Advance, W!Pass
<1>2. CASE RemoveExpired
  BY <1>2 DEF RemoveExpired, W!Quiet
<1>3. CASE StopCleanup
  BY <1>3 DEF StopCleanup, clock, W!Quiet
<1>4. CASE CloseSignal
  BY <1>4 DEF CloseSignal, clock, W!Close
<1>5. CASE CloseClear
  BY <1>5 DEF CloseClear, clock, W!Quiet
<1>6. ASSUME NEW e \in Events, IsDuplicate(e) PROVE W!Next
  <2> DEFINE p == Fingerprint[e]  dup == p \in DOMAIN cache
  <2>1. p \in Prints
    BY DEF Prints
  <2>2. ASSUME stage = "open" PROVE (W!Fresh(p) => dup) /\ (W!Stale(p) => ~dup)
    <3>1. W!Fresh(p) => dup
      BY <2>1, <2>2, MemoryDedupAssumption
         DEF IInv, TypeOK, EntriesAreMarks, W!Fresh, W!Age
    <3>2. ASSUME dup PROVE ~W!Stale(p)
      <4>1. lastMark[p] = cache[p] /\ cache[p] \in Nat
        BY <2>2, <3>2 DEF IInv, TypeOK, EntriesAreMarks
      <4>2. now - cache[p] <= TTL + Period + Lag
        BY <2>2, <3>2, EntriesAge DEF ForgottenInTime
      <4> QED
        BY <4>1, <4>2, MemoryDedupAssumption DEF IInv, TypeOK, W!Stale, W!Age
    <3> QED
      BY <3>1, <3>2
  <2>3. W!Answer(p, dup)
    BY <1>6, <2>2 DEF IsDuplicate, clock, W!Answer
  <2>4. dup \in BOOLEAN
    OBVIOUS
  <2> HIDE DEF p, dup
  <2> QED
    BY <2>1, <2>3, <2>4
<1>7. ASSUME NEW e \in Events, Mark(e) PROVE W!Next
  BY <1>7 DEF Mark, clock, Prints, W!Mark
<1>8. CASE UNCHANGED vars
  BY <1>8 DEF vars
<1> QED
  BY <1>1, <1>2, <1>3, <1>4, <1>5, <1>6, <1>7, <1>8 DEF Next

\* The memory deduplicator implements SeenWindow with a slack of a period and
\* the lag of the sweep.
THEOREM KeepsWindow == Spec => ImplementsWindow
<1>1. Init => W!Init
  BY DEF Init, W!Init
<1> QED
  BY <1>1, StepsRefine, Invariance, PTL DEF Spec, ImplementsWindow, W!Spec
=============================================================================
