---------------------------- MODULE RedisDedupProofs ----------------------------
(***************************************************************************)
(* Proofs about the Redis deduplicator, for any instances, events and TTL: *)
(* the instances together keep the promise of SeenWindow, and refuse an    *)
(* event only for one that agrees with it in all that the key is built     *)
(* from.  ServiceProofs uses the step lemmas for the deduplicator inside   *)
(* the service.                                                            *)
(***************************************************************************)
EXTENDS RedisDedup, SequenceTheorems, TLAPS

\* A key expires TTL after its last mark.
ExpiresAfterTTL ==
    /\ now \in Nat
    /\ expiry \in [Keys -> Nat \cup {None}] /\ lastMark \in [Keys -> Nat \cup {None}]
    /\ \A k \in Keys :
          /\ lastMark[k] = None => expiry[k] = None
          /\ lastMark[k] # None => expiry[k] = lastMark[k] + TTL

\* What else an instance does: connect when it starts, disconnect when it dies.
Reconnect == answer' = None /\ UNCHANGED <<now, expiry, lastMark, marked>>

LEMMA KeysOfSubmissions ==
    ASSUME NEW e \in Submissions
    PROVE  DeduplicationKey(e) \in Keys
  BY DEF Keys

LEMMA Initially == Init => ExpiresAfterTTL
  BY RedisDedupAssumption DEF Init, ExpiresAfterTTL

LEMMA Inductive == ExpiresAfterTTL /\ ([Next]_vars \/ Reconnect) => ExpiresAfterTTL'
<1> SUFFICES ASSUME ExpiresAfterTTL, [Next]_vars \/ Reconnect PROVE ExpiresAfterTTL'
  OBVIOUS
<1> USE RedisDedupAssumption DEF ExpiresAfterTTL
<1>1. CASE Advance
  BY <1>1 DEF Advance
<1>2. ASSUME NEW i \in Instances, Close(i) PROVE ExpiresAfterTTL'
  BY <1>2 DEF Close
<1>3. ASSUME NEW i \in Instances, NEW e \in Submissions, IsDuplicate(i, e)
      PROVE  ExpiresAfterTTL'
  BY <1>3 DEF IsDuplicate
<1>4. ASSUME NEW i \in Instances, NEW e \in Submissions, Mark(i, e)
      PROVE  ExpiresAfterTTL'
  <2> DEFINE k == DeduplicationKey(e)
  <2>1. k \in Keys
    BY KeysOfSubmissions
  <2>2. CASE UNCHANGED <<now, expiry, lastMark>>
    BY <2>2
  <2>3. CASE /\ now' = now /\ expiry' = [expiry EXCEPT ![k] = now + TTL]
             /\ lastMark' = [lastMark EXCEPT ![k] = now]
    <3> HIDE DEF k
    <3> QED
      BY <2>1, <2>3
  <2> QED
    BY <1>4, <2>2, <2>3 DEF Mark, NewExpiry
<1>5. CASE UNCHANGED vars \/ Reconnect
  BY <1>5 DEF vars, Reconnect
<1> QED
  BY <1>1, <1>2, <1>3, <1>4, <1>5 DEF Next

LEMMA Invariance == Spec => []ExpiresAfterTTL
  BY Initially, Inductive, PTL DEF Spec

\* Redis has a key exactly as long as SeenWindow wants it reported.
LEMMA ExistsWhileFresh ==
    ASSUME ExpiresAfterTTL, NEW k \in Keys
    PROVE  (Exists(k) <=> W!Fresh(k)) /\ (W!Stale(k) <=> ~W!Fresh(k))
  BY RedisDedupAssumption DEF ExpiresAfterTTL, Exists, W!Fresh, W!Stale, W!Age

LEMMA StepsRefine == ExpiresAfterTTL /\ ([Next]_vars \/ Reconnect) => [W!Next]_W!vars
<1> SUFFICES ASSUME ExpiresAfterTTL, [Next]_vars \/ Reconnect PROVE [W!Next]_W!vars
  OBVIOUS
<1> USE DEF W!Next, W!vars
<1>1. CASE Advance
  BY <1>1 DEF Advance, W!Pass
<1>2. ASSUME NEW i \in Instances, Close(i) PROVE W!Next
  BY <1>2 DEF Close, W!Quiet
<1>3. ASSUME NEW i \in Instances, NEW e \in Submissions, IsDuplicate(i, e) PROVE W!Next
  <2> DEFINE k == DeduplicationKey(e)
  <2>1. k \in Keys
    BY KeysOfSubmissions
  <2>2. CASE answer' = None
    BY <1>3, <2>2 DEF IsDuplicate, W!Quiet
  <2>3. CASE answer' = [event |-> e, duplicate |-> Exists(k)]
    <3>1. Exists(k) \in BOOLEAN
      BY DEF Exists
    <3>2. answer' # None
      BY <2>3, <3>1, RedisDedupAssumption
    <3>3. W!Answer(k, Exists(k))
      BY <1>3, <2>1, <2>3, <3>2, ExistsWhileFresh DEF IsDuplicate, W!Answer
    <3> HIDE DEF k
    <3> QED
      BY <2>1, <3>1, <3>3
  <2> QED
    BY <1>3, <2>2, <2>3 DEF IsDuplicate
<1>4. ASSUME NEW i \in Instances, NEW e \in Submissions, Mark(i, e) PROVE W!Next
  <2> DEFINE k == DeduplicationKey(e)
  <2>1. k \in Keys
    BY KeysOfSubmissions
  <2>2. W!Quiet \/ W!Mark(k)
    BY <1>4 DEF Mark, W!Mark, W!Quiet
  <2> HIDE DEF k
  <2> QED
    BY <2>1, <2>2
<1>5. CASE UNCHANGED vars \/ Reconnect
  BY <1>5 DEF vars, Reconnect, W!Quiet
<1> QED
  BY <1>1, <1>2, <1>3, <1>4, <1>5 DEF Next

LEMMA InitRefines == Init => W!Init
  BY DEF Init, W!Init

\* The Redis deduplicator implements SeenWindow without slack, whatever
\* instances close their clients and whatever calls fail.
THEOREM KeepsWindow == Spec => ImplementsWindow
  BY InitRefines, Invariance, StepsRefine, PTL DEF Spec, ImplementsWindow, W!Spec

-----------------------------------------------------------------------------
(* Keys: what a colon-joined line tells of the fields in it. *)

\* A line of five fields, written out.
FromRight(a, b, c, d, e) ==
    \E p2, p3, p4, p5 :
        /\ p2 = a \o (<<Colon>> \o b) /\ p3 = p2 \o (<<Colon>> \o c)
        /\ p4 = p3 \o (<<Colon>> \o d) /\ p5 = p4 \o (<<Colon>> \o e)
        /\ Joined(<<a, b, c, d, e>>) = p5

LEMMA JoinedFive ==
    ASSUME NEW a, NEW b, NEW c, NEW d, NEW e
    PROVE  FromRight(a, b, c, d, e)
<1> DEFINE C == <<Colon>>
           parts == <<a, b, c, d, e>>
           q == [i \in DOMAIN parts |-> IF i = 1 THEN parts[i] ELSE C \o parts[i]]
           Flat(g) == g = [i \in 1 .. Len(q) |-> IF i = 1 THEN q[i] ELSE g[i - 1] \o q[i]]
<1>1. /\ DOMAIN parts = 1 .. 5
      /\ parts[1] = a /\ parts[2] = b /\ parts[3] = c /\ parts[4] = d /\ parts[5] = e
  OBVIOUS
<1> HIDE DEF parts, C
<1>2. /\ q[1] = a /\ q[2] = C \o b /\ q[3] = C \o c /\ q[4] = C \o d /\ q[5] = C \o e
      /\ DOMAIN q = 1 .. 5
  BY <1>1
<1>3. Len(q) = 5
  BY <1>2, <1>1
<1>4. Joined(parts) = (CHOOSE g : Flat(g))[5]
  <2>1. Joined(parts) = FlattenSeq(q)
    BY DEF Joined, C
  <2> HIDE DEF q
  <2> QED BY <1>3, <2>1 DEF FlattenSeq
<1> HIDE DEF q
<1>5. PICK p2, p3, p4, p5 : p2 = a \o (C \o b) /\ p3 = p2 \o (C \o c) /\ p4 = p3 \o (C \o d)
                           /\ p5 = p4 \o (C \o e)
  OBVIOUS
<1>6. Flat([i \in 1 .. 5 |-> IF i = 1 THEN a ELSE IF i = 2 THEN p2 ELSE IF i = 3 THEN p3
                             ELSE IF i = 4 THEN p4 ELSE p5])
  <2> DEFINE f == [i \in 1 .. 5 |-> IF i = 1 THEN a ELSE IF i = 2 THEN p2 ELSE IF i = 3 THEN p3
                                    ELSE IF i = 4 THEN p4 ELSE p5]
  <2>1. f[1] = a /\ f[2] = p2 /\ f[3] = p3 /\ f[4] = p4 /\ f[5] = p5
    OBVIOUS
  <2> HIDE DEF f
  <2>2. \A i \in 1 .. 5 : f[i] = IF i = 1 THEN q[i] ELSE f[i - 1] \o q[i]
    <3> TAKE i \in 1 .. 5
    <3>1. i = 1 \/ (i = 2 /\ i - 1 = 1) \/ (i = 3 /\ i - 1 = 2) \/ (i = 4 /\ i - 1 = 3) \/ (i = 5 /\ i - 1 = 4)
      OBVIOUS
    <3>2. 2 # 1 /\ 3 # 1 /\ 4 # 1 /\ 5 # 1
      OBVIOUS
    <3> QED BY <1>2, <1>5, <2>1, <3>1, <3>2, Zenon
  <2> QED BY <1>3, <2>2 DEF f
<1>7. Flat(CHOOSE g : Flat(g))
  <2> HIDE DEF Flat
  <2> QED BY <1>6
<1>8. ASSUME NEW g, Flat(g) PROVE g[5] = p5
  <2>1. \A i \in 1 .. 5 : g[i] = IF i = 1 THEN q[i] ELSE g[i - 1] \o q[i]
    BY <1>3, <1>8
  <2>2. /\ 1 \in 1 .. 5 /\ 2 \in 1 .. 5 /\ 3 \in 1 .. 5 /\ 4 \in 1 .. 5 /\ 5 \in 1 .. 5
        /\ 2 # 1 /\ 3 # 1 /\ 4 # 1 /\ 5 # 1 /\ 2 - 1 = 1 /\ 3 - 1 = 2 /\ 4 - 1 = 3 /\ 5 - 1 = 4
    OBVIOUS
  <2>3. g[1] = q[1] /\ g[2] = g[1] \o q[2] /\ g[3] = g[2] \o q[3]
    BY <2>1, <2>2, Zenon
  <2>4. g[4] = g[3] \o q[4] /\ g[5] = g[4] \o q[5]
    BY <2>1, <2>2, Zenon
  <2> QED BY <1>2, <1>5, <2>3, <2>4, Zenon
<1>9. Joined(parts) = p5
  <2> HIDE DEF Flat
  <2> QED BY <1>4, <1>7, <1>8
<1> QED
  BY <1>5, <1>9 DEF parts, C, FromRight

\* The first colon tells where the first field ends.
ColonFree(s) == \A n \in DOMAIN s : s[n] # Colon
SameLine(s, u, t, v) == s \o (<<Colon>> \o u) = t \o (<<Colon>> \o v)
SameParts(s, u, t, v) == s = t /\ u = v

LEMMA FirstField ==
    ASSUME NEW T, Colon \in T, NEW s \in Seq(T), NEW t \in Seq(T), NEW u \in Seq(T), NEW v \in Seq(T),
           ColonFree(s), ColonFree(t), SameLine(s, u, t, v)
    PROVE  SameParts(s, u, t, v)
<1> DEFINE x == <<Colon>> \o u
           y == <<Colon>> \o v
<1>0. Len(s) \in Nat /\ Len(t) \in Nat /\ Len(u) \in Nat /\ Len(v) \in Nat
  OBVIOUS
<1>1. /\ DOMAIN s = 1 .. Len(s) /\ DOMAIN t = 1 .. Len(t)
      /\ DOMAIN u = 1 .. Len(u) /\ DOMAIN v = 1 .. Len(v)
  OBVIOUS
<1>2. /\ x \in Seq(T) /\ Len(x) = Len(u) + 1 /\ x[1] = Colon
      /\ \A n \in 1 .. Len(u) : x[n + 1] = u[n]
  OBVIOUS
<1>3. /\ y \in Seq(T) /\ Len(y) = Len(v) + 1 /\ y[1] = Colon
      /\ \A n \in 1 .. Len(v) : y[n + 1] = v[n]
  OBVIOUS
<1> HIDE DEF x, y
<1>4. PICK l \in Seq(T) : l = s \o x /\ l = t \o y
  <2>1. s \o x = t \o y
    BY DEF x, y, SameLine
  <2>2. s \o x \in Seq(T)
    BY <1>2, ConcatProperties
  <2> QED BY <2>1, <2>2
<1>5. /\ Len(l) = Len(s) + Len(x) /\ \A n \in 1 .. Len(s) : l[n] = s[n]
      /\ \A n \in 1 .. Len(x) : l[Len(s) + n] = x[n]
  <2>1. Len(s \o x) = Len(s) + Len(x)
    BY <1>2, ConcatProperties, Zenon
  <2>2. ASSUME NEW n \in 1 .. Len(s) PROVE (s \o x)[n] = s[n]
    BY <1>2
  <2>3. ASSUME NEW n \in 1 .. Len(x) PROVE (s \o x)[Len(s) + n] = x[n]
    BY <1>2
  <2> QED BY <1>4, <2>1, <2>2, <2>3, Zenon
<1>6. /\ Len(l) = Len(t) + Len(y) /\ \A n \in 1 .. Len(t) : l[n] = t[n]
      /\ \A n \in 1 .. Len(y) : l[Len(t) + n] = y[n]
  <2>1. Len(t \o y) = Len(t) + Len(y)
    BY <1>3, ConcatProperties, Zenon
  <2>2. ASSUME NEW n \in 1 .. Len(t) PROVE (t \o y)[n] = t[n]
    BY <1>3
  <2>3. ASSUME NEW n \in 1 .. Len(y) PROVE (t \o y)[Len(t) + n] = y[n]
    BY <1>3
  <2> QED BY <1>4, <2>1, <2>2, <2>3, Zenon
<1>7. l[Len(s) + 1] = Colon /\ l[Len(t) + 1] = Colon
  BY <1>0, <1>2, <1>3, <1>5, <1>6
<1>8. Len(s) = Len(t)
  <2>1. ASSUME Len(s) < Len(t) PROVE FALSE
    <3>1. Len(s) + 1 \in 1 .. Len(t)
      BY <1>0, <2>1
    <3> QED BY <1>1, <1>6, <1>7, <3>1 DEF ColonFree
  <2>2. ASSUME Len(t) < Len(s) PROVE FALSE
    <3>1. Len(t) + 1 \in 1 .. Len(s)
      BY <1>0, <2>2
    <3> QED BY <1>1, <1>5, <1>7, <3>1 DEF ColonFree
  <2> QED BY <1>0, <2>1, <2>2
<1>9. s = t
  <2>1. \A n \in 1 .. Len(s) : s[n] = t[n]
    BY <1>5, <1>6, <1>8
  <2> QED BY <1>1, <1>8, <2>1
<1>10. u = v
  <2>1. Len(u) = Len(v)
    <3>1. Len(s) + (Len(u) + 1) = Len(t) + (Len(v) + 1)
      BY <1>2, <1>3, <1>5, <1>6, Zenon
    <3> QED BY <1>0, <1>8, <3>1
  <2>2. ASSUME NEW n \in 1 .. Len(u) PROVE u[n] = v[n]
    <3>1. n + 1 \in 1 .. Len(x) /\ n + 1 \in 1 .. Len(y)
      BY <1>0, <1>2, <1>3, <2>1
    <3>2. x[n + 1] = y[n + 1]
      BY <1>5, <1>6, <1>8, <3>1
    <3> QED BY <1>2, <1>3, <2>1, <3>2
  <2> QED BY <1>1, <2>1, <2>2
<1> QED
  BY <1>9, <1>10 DEF SameParts

Regroups(C, x, y, z) == (x \o (C \o y)) \o (C \o z) = x \o (C \o (y \o (C \o z)))

LEMMA Reassociate ==
    ASSUME NEW T, NEW C \in Seq(T), NEW x \in Seq(T), NEW y \in Seq(T), NEW z \in Seq(T)
    PROVE  Regroups(C, x, y, z)
<1>1. PICK cy \in Seq(T), cz \in Seq(T) : cy = C \o y /\ cz = C \o z
  BY ConcatProperties
<1> DEFINE Associates(s, t, u) == (s \o t) \o u = s \o (t \o u)
<1>2. \A s, t, u \in Seq(T) : Associates(s, t, u)
  <2> TAKE s, t, u \in Seq(T)
  <2> QED
    BY ONLY ConcatAssociative, s \in Seq(T), t \in Seq(T), u \in Seq(T), SMTT(30)
<1> HIDE DEF Associates
<1>3. Associates(x, cy, cz) /\ Associates(C, y, cz)
  BY ONLY <1>2, x \in Seq(T), C \in Seq(T), y \in Seq(T), cy \in Seq(T), cz \in Seq(T), Zenon
<1>4. (x \o cy) \o cz = x \o (cy \o cz) /\ (C \o y) \o cz = C \o (y \o cz)
  BY <1>3, Zenon DEF Associates
<1> QED
  BY <1>1, <1>4, Zenon DEF Regroups

\* Such a line read from the left.
FromLeft(T, a, b, c, d, e) ==
    \E re, rd, rc \in Seq(T) :
        /\ re = d \o (<<Colon>> \o e) /\ rd = c \o (<<Colon>> \o re)
        /\ rc = b \o (<<Colon>> \o rd)
        /\ Joined(<<a, b, c, d, e>>) = a \o (<<Colon>> \o rc)

LEMMA JoinedFromLeft ==
    ASSUME NEW T, Colon \in T, NEW a \in Seq(T), NEW b \in Seq(T), NEW c \in Seq(T),
           NEW d \in Seq(T), NEW e \in Seq(T)
    PROVE  FromLeft(T, a, b, c, d, e)
<1>1. <<Colon>> \in Seq(T)
  OBVIOUS
<1>2. PICK p2, p3, p4, p5 :
          /\ p2 = a \o (<<Colon>> \o b) /\ p3 = p2 \o (<<Colon>> \o c)
          /\ p4 = p3 \o (<<Colon>> \o d) /\ p5 = p4 \o (<<Colon>> \o e)
          /\ Joined(<<a, b, c, d, e>>) = p5
  <2>1. FromRight(a, b, c, d, e)
    BY JoinedFive, Zenon
  <2> QED BY <2>1, Zenon DEF FromRight
<1> DEFINE C == <<Colon>>
<1>3. PICK re, rd, rc : re = d \o (C \o e) /\ rd = c \o (C \o re) /\ rc = b \o (C \o rd)
  OBVIOUS
<1> HIDE DEF C
<1>4. \A x, y \in Seq(T) : x \o (C \o y) \in Seq(T)
  BY <1>1, ConcatProperties DEF C
<1>5. p2 \in Seq(T)
  BY <1>2, <1>4, Zenon DEF C
<1>6. p3 \in Seq(T)
  BY <1>2, <1>4, <1>5, Zenon DEF C
<1>7. re \in Seq(T)
  BY <1>3, <1>4, Zenon
<1>8. rd \in Seq(T)
  BY <1>3, <1>4, <1>7, Zenon
<1>9. rc \in Seq(T)
  BY <1>3, <1>4, <1>8, Zenon
<1>10. p4 \o (C \o e) = p3 \o (C \o re)
  <2>1. Regroups(C, p3, d, e)
    BY <1>1, <1>6, Reassociate DEF C
  <2> QED BY <1>2, <1>3, <2>1, Zenon DEF Regroups, C
<1>11. p3 \o (C \o re) = p2 \o (C \o rd)
  <2>1. Regroups(C, p2, c, re)
    BY <1>1, <1>5, <1>7, Reassociate DEF C
  <2> QED BY <1>2, <1>3, <2>1, Zenon DEF Regroups, C
<1>12. p2 \o (C \o rd) = a \o (C \o rc)
  <2>1. Regroups(C, a, b, rd)
    BY <1>1, <1>8, Reassociate DEF C
  <2> QED BY <1>2, <1>3, <2>1, Zenon DEF Regroups, C
<1>13. Joined(<<a, b, c, d, e>>) = a \o (C \o rc)
  BY <1>2, <1>10, <1>11, <1>12, Zenon DEF C
<1> QED
  BY <1>3, <1>7, <1>8, <1>9, <1>13, Zenon DEF C, FromLeft

LEMMA FiveFields ==
    ASSUME NEW S, NEW x \in Seq(S), Len(x) = 5
    PROVE  /\ x = <<x[1], x[2], x[3], x[4], x[5]>>
           /\ x[1] \in S /\ x[2] \in S /\ x[3] \in S /\ x[4] \in S /\ x[5] \in S
<1>1. DOMAIN x = 1 .. 5
  OBVIOUS
<1>2. \A n \in 1 .. 5 : x[n] \in S
  OBVIOUS
<1> QED BY <1>1, <1>2

\* Two lines are the same only if their fields are, if no field before the last
\* has a colon.
LEMMA FieldsOfLine ==
    ASSUME NEW T, Colon \in T, NEW x \in Seq(Seq(T)), NEW y \in Seq(Seq(T)),
           Len(x) = 5, Len(y) = 5, \A n \in 1 .. 4 : ColonFree(x[n]) /\ ColonFree(y[n]),
           Joined(x) = Joined(y)
    PROVE  x = y
<1> DEFINE a == x[1]  b == x[2]  c == x[3]  d == x[4]  e == x[5]
           a2 == y[1]  b2 == y[2]  c2 == y[3]  d2 == y[4]  e2 == y[5]
<1>a. /\ a \in Seq(T) /\ b \in Seq(T) /\ c \in Seq(T) /\ d \in Seq(T) /\ e \in Seq(T)
      /\ x = <<a, b, c, d, e>>
  BY FiveFields
<1>b. /\ a2 \in Seq(T) /\ b2 \in Seq(T) /\ c2 \in Seq(T) /\ d2 \in Seq(T) /\ e2 \in Seq(T)
      /\ y = <<a2, b2, c2, d2, e2>>
  BY FiveFields
<1>c. /\ ColonFree(a) /\ ColonFree(b) /\ ColonFree(c) /\ ColonFree(d)
      /\ ColonFree(a2) /\ ColonFree(b2) /\ ColonFree(c2) /\ ColonFree(d2)
  OBVIOUS
<1>d. Joined(<<a, b, c, d, e>>) = Joined(<<a2, b2, c2, d2, e2>>)
  BY <1>a, <1>b, Zenon
<1> HIDE DEF a, b, c, d, e, a2, b2, c2, d2, e2
<1>1. PICK re, rd, rc \in Seq(T) :
          /\ re = d \o (<<Colon>> \o e) /\ rd = c \o (<<Colon>> \o re)
          /\ rc = b \o (<<Colon>> \o rd)
          /\ Joined(<<a, b, c, d, e>>) = a \o (<<Colon>> \o rc)
  <2>1. FromLeft(T, a, b, c, d, e)
    BY <1>a, JoinedFromLeft, Zenon
  <2> QED BY <2>1, Zenon DEF FromLeft
<1>2. PICK re2, rd2, rc2 \in Seq(T) :
          /\ re2 = d2 \o (<<Colon>> \o e2) /\ rd2 = c2 \o (<<Colon>> \o re2)
          /\ rc2 = b2 \o (<<Colon>> \o rd2)
          /\ Joined(<<a2, b2, c2, d2, e2>>) = a2 \o (<<Colon>> \o rc2)
  <2>1. FromLeft(T, a2, b2, c2, d2, e2)
    BY <1>b, JoinedFromLeft, Zenon
  <2> QED BY <2>1, Zenon DEF FromLeft
<1>e. /\ re \in Seq(T) /\ rd \in Seq(T) /\ rc \in Seq(T)
      /\ re2 \in Seq(T) /\ rd2 \in Seq(T) /\ rc2 \in Seq(T)
  OBVIOUS
<1>3. a = a2 /\ rc = rc2
  <2>1. SameLine(a, rc, a2, rc2)
    BY <1>1, <1>2, <1>d, Zenon DEF SameLine
  <2>2. SameParts(a, rc, a2, rc2)
    BY <1>a, <1>b, <1>c, <1>e, <2>1, FirstField, Zenon
  <2> QED BY <2>2 DEF SameParts
<1>4. b = b2 /\ rd = rd2
  <2>1. SameLine(b, rd, b2, rd2)
    BY <1>1, <1>2, <1>3, Zenon DEF SameLine
  <2>2. SameParts(b, rd, b2, rd2)
    BY <1>a, <1>b, <1>c, <1>e, <2>1, FirstField, Zenon
  <2> QED BY <2>2 DEF SameParts
<1>5. c = c2 /\ re = re2
  <2>1. SameLine(c, re, c2, re2)
    BY <1>1, <1>2, <1>4, Zenon DEF SameLine
  <2>2. SameParts(c, re, c2, re2)
    BY <1>a, <1>b, <1>c, <1>e, <2>1, FirstField, Zenon
  <2> QED BY <2>2 DEF SameParts
<1>6. d = d2 /\ e = e2
  <2>1. SameLine(d, e, d2, e2)
    BY <1>1, <1>2, <1>5, Zenon DEF SameLine
  <2>2. SameParts(d, e, d2, e2)
    BY <1>a, <1>b, <1>c, <1>e, <2>1, FirstField, Zenon
  <2> QED BY <2>2 DEF SameParts
<1> QED
  BY <1>a, <1>b, <1>3, <1>4, <1>5, <1>6, Zenon

\* The key of a plain event tells its type, namespace, user, id and timestamp
\* (or session).
THEOREM KeyTellsFields ==
    ASSUME NEW e \in Submissions, NEW f \in Submissions, Plain(e), Plain(f),
           DeduplicationKey(e) = DeduplicationKey(f)
    PROVE  KeyFields(e) = KeyFields(f)
<1> DEFINE x == KeyFields(e)
           y == KeyFields(f)
           T == {Colon} \cup UNION {ToSet(w) : w \in ToSet(x) \cup ToSet(y)}
<1>1. /\ e.kind # Colon /\ \A w \in ToSet(x) : w \in Seq(ToSet(w))
      /\ f.kind # Colon /\ \A w \in ToSet(y) : w \in Seq(ToSet(w))
  BY RedisDedupAssumption
<1>2. \A w \in ToSet(x) \cup ToSet(y) : w \in Seq(T)
  <2> SUFFICES ASSUME NEW w \in ToSet(x) \cup ToSet(y) PROVE w \in Seq(T)
    OBVIOUS
  <2>1. w \in Seq(ToSet(w)) /\ ToSet(w) \subseteq T
    BY <1>1
  <2> HIDE DEF T
  <2> QED BY <2>1
<1> HIDE DEF T
<1>3. x \in Seq(Seq(T)) /\ Len(x) = 5
  <2>1. \A n \in 1 .. 5 : x[n] \in ToSet(x)
    BY DEF KeyFields, ToSet
  <2>2. \A n \in 1 .. 5 : x[n] \in Seq(T)
    BY <1>2, <2>1
  <2>3. Len(x) = 5 /\ x = [n \in 1 .. 5 |-> x[n]]
    BY DEF KeyFields
  <2> HIDE DEF x
  <2> QED BY <2>2, <2>3
<1>4. y \in Seq(Seq(T)) /\ Len(y) = 5
  <2>1. \A n \in 1 .. 5 : y[n] \in ToSet(y)
    BY DEF KeyFields, ToSet
  <2>2. \A n \in 1 .. 5 : y[n] \in Seq(T)
    BY <1>2, <2>1
  <2>3. Len(y) = 5 /\ y = [n \in 1 .. 5 |-> y[n]]
    BY DEF KeyFields
  <2> HIDE DEF y
  <2> QED BY <2>2, <2>3
<1>5. ColonFree(<<e.kind>>) /\ ColonFree(<<f.kind>>)
  BY <1>1 DEF ColonFree
<1>6. /\ ColonFree(e.namespace) /\ ColonFree(e.user) /\ ColonFree(e.id)
      /\ ColonFree(f.namespace) /\ ColonFree(f.user) /\ ColonFree(f.id)
  BY Zenon DEF Plain, ColonFree
<1>7. \A n \in 1 .. 4 : ColonFree(x[n]) /\ ColonFree(y[n])
  BY <1>5, <1>6 DEF KeyFields
<1>8. Colon \in T /\ Joined(x) = Joined(y)
  BY DEF T, DeduplicationKey
<1>9. x = y
  <2> HIDE DEF x, y
  <2> QED BY <1>3, <1>4, <1>7, <1>8, FieldsOfLine
<1> QED
  BY <1>9

-----------------------------------------------------------------------------
(* What is refused *)

\* A key is in Redis only if an event of that key was marked, and an answer is
\* given to an event of the clients from what is there.
MarkedBefore ==
    /\ marked \subseteq Submissions
    /\ \A k \in Keys : expiry[k] # None => \E e \in marked : DeduplicationKey(e) = k
    /\ answer # None =>
          /\ answer.event \in Submissions
          /\ answer.duplicate => expiry[DeduplicationKey(answer.event)] # None

LEMMA MarkedInitially == Init => MarkedBefore
  BY DEF Init, MarkedBefore

LEMMA MarkedInductive ==
    ExpiresAfterTTL /\ MarkedBefore /\ ([Next]_vars \/ Reconnect) => MarkedBefore'
<1> SUFFICES ASSUME ExpiresAfterTTL, MarkedBefore, [Next]_vars \/ Reconnect PROVE MarkedBefore'
  OBVIOUS
<1>1. ASSUME UNCHANGED <<expiry, marked>>, answer' \in {answer, None} PROVE MarkedBefore'
  BY <1>1 DEF MarkedBefore
<1>2. CASE Advance \/ (\E i \in Instances : Close(i)) \/ UNCHANGED vars \/ Reconnect
  BY <1>1, <1>2 DEF Advance, Close, vars, Reconnect
<1>3. ASSUME NEW i \in Instances, NEW e \in Submissions, IsDuplicate(i, e)
      PROVE  MarkedBefore'
  <2>1. UNCHANGED <<expiry, marked>>
    BY <1>3 DEF IsDuplicate
  <2>2. CASE answer' = None
    BY <1>1, <2>1, <2>2
  <2>3. CASE answer' = [event |-> e, duplicate |-> Exists(DeduplicationKey(e))]
    <3>1. /\ answer'.event = e
          /\ answer'.duplicate => expiry[DeduplicationKey(e)] # None
      BY <2>3 DEF Exists
    <3> QED
      BY <2>1, <3>1 DEF MarkedBefore
  <2> QED
    BY <1>3, <2>2, <2>3 DEF IsDuplicate
<1>4. ASSUME NEW i \in Instances, NEW e \in Submissions, Mark(i, e)
      PROVE  MarkedBefore'
  <2> DEFINE k == DeduplicationKey(e)
  <2>1. answer' = None
    BY <1>4 DEF Mark
  <2>2. CASE UNCHANGED <<expiry, marked>>
    BY <1>1, <2>1, <2>2
  <2>3. CASE expiry' = [expiry EXCEPT ![k] = NewExpiry(k)] /\ marked' = marked \cup {e}
    <3>1. \A x \in Keys : x # k => expiry'[x] = expiry[x]
      BY <2>3 DEF ExpiresAfterTTL
    <3> QED
      BY <2>1, <2>3, <3>1 DEF MarkedBefore
  <2> QED
    BY <1>4, <2>2, <2>3 DEF Mark
<1> QED
  BY <1>2, <1>3, <1>4 DEF Next

LEMMA SameFieldsAreTwins ==
    ASSUME NEW e, NEW f, KeyFields(e) = KeyFields(f)
    PROVE  Twins(e, f)
  BY DEF KeyFields, Discriminator, Twins

LEMMA MarkedHasTwin == MarkedBefore => RefusedHasTwin
<1> SUFFICES ASSUME MarkedBefore, Refused, \A e \in marked \cup {answer.event} : Plain(e)
             PROVE  \E e \in marked : Twins(e, answer.event)
  BY DEF RefusedHasTwin, AllPlain
<1>1. /\ answer.event \in Submissions /\ marked \subseteq Submissions
      /\ expiry[DeduplicationKey(answer.event)] # None
  BY DEF MarkedBefore, Refused
<1>2. PICK e \in marked : DeduplicationKey(e) = DeduplicationKey(answer.event)
  BY <1>1, KeysOfSubmissions DEF MarkedBefore
<1> QED
  BY <1>1, <1>2, KeyTellsFields, SameFieldsAreTwins

\* An event is refused only if one of the same type, namespace, user, id and
\* timestamp was marked before, by whatever instance, or of the same session and
\* whatever timestamp if it is user behaviour, as long as the fields before the
\* last hold no colon.
THEOREM RefusedHaveTwins == Spec => []RefusedHasTwin
<1>1. Init => MarkedBefore
  BY MarkedInitially
<1>2. ExpiresAfterTTL /\ MarkedBefore /\ [Next]_vars => MarkedBefore'
  BY MarkedInductive
<1> QED
  BY <1>1, <1>2, Invariance, MarkedHasTwin, PTL DEF Spec
=============================================================================
