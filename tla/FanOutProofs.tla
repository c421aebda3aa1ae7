----------------------------- MODULE FanOutProofs -----------------------------
(***************************************************************************)
(* Theorems about what the plugins of Processor have persisted, for any    *)
(* events, workers, plugins and sizes.                                     *)
(***************************************************************************)
EXTENDS ProcessorProofs

-----------------------------------------------------------------------------
(* Among picks the elements of a set from a sequence and repeats none.  It   *)
(* is defined by recursion; the proofs look at the least place at which it   *)
(* would not be as it should.                                                *)

LEMMA Least ==
    ASSUME NEW T, T \subseteq Nat, T # {}
    PROVE  \E n \in T : \A m \in Nat : m < n => m \notin T
<1> DEFINE R == {ss \in Nat \X Nat : ss[1] < ss[2]}
<1>1. IsWellFoundedOn(R, Nat)
  BY NatLessThanWellFounded DEF OpToRel
<1>2. \A m, n \in Nat : m < n => <<m, n>> \in R
  OBVIOUS
<1> HIDE DEF R
<1>3. PICK n \in T : \A m \in T : ~(<<m, n>> \in R)
  BY <1>1, WFMin
<1> QED
  BY <1>2, <1>3

\* What Among has after n elements, if g has it after n - 1.
Longer(S, s, g, n) ==
    IF n = 0 THEN <<>> ELSE IF s[n] \in S THEN Append(g[n - 1], s[n]) ELSE g[n - 1]

LEMMA AmongExists ==
    ASSUME NEW S, NEW T, NEW s \in Seq(T)
    PROVE  \E g : /\ \A n \in 0 .. Len(s) : g[n] = Longer(S, s, g, n)
                 /\ Among(S, s) = g[Len(s)]
<1> DEFINE Upto(g, m) == g = [n \in 0 .. m |-> Longer(S, s, g, n)]
           Missing == {m \in Nat : ~ \E g : Upto(g, m)}
<1>1. Missing = {}
  <2> SUFFICES ASSUME Missing # {} PROVE FALSE
    OBVIOUS
  <2>1. PICK m \in Missing : \A n \in Nat : n < m => n \notin Missing
    <3>1. Missing \subseteq Nat
      OBVIOUS
    <3> HIDE DEF Missing
    <3> QED BY <3>1, Least
  <2>2. CASE m = 0
    <3>1. Upto([n \in 0 .. 0 |-> <<>>], 0)
      BY DEF Longer
    <3> QED BY <2>2, <3>1
  <2>3. CASE m # 0
    <3>1. m \in Nat /\ m - 1 \in Nat /\ m - 1 < m
      BY <2>3
    <3>2. PICK g : Upto(g, m - 1)
      BY <2>1, <3>1
    <3> DEFINE h == [n \in 0 .. m |-> Longer(S, s, g, n)]
    <3>3. \A n \in 0 .. m - 1 : h[n] = g[n]
      BY <3>1, <3>2
    <3>4. \A n \in 0 .. m : Longer(S, s, g, n) = Longer(S, s, h, n)
      <4> TAKE n \in 0 .. m
      <4>1. CASE n = 0
        BY <4>1 DEF Longer
      <4>2. CASE n # 0
        <5>1. n - 1 \in 0 .. m - 1
          BY <3>1, <4>2
        <5>2. h[n - 1] = g[n - 1]
          BY <3>3, <5>1
        <5> HIDE DEF h
        <5> QED BY <4>2, <5>2 DEF Longer
      <4> QED BY <4>1, <4>2
    <3>5. Upto(h, m)
      BY <3>4
    <3> QED BY <2>1, <3>5
  <2> QED BY <2>2, <2>3
<1>2. Len(s) \in Nat
  OBVIOUS
<1>3. \E g : Upto(g, Len(s))
  BY <1>1, <1>2
<1>4. Upto(CHOOSE g : Upto(g, Len(s)), Len(s))
  <2> HIDE DEF Upto
  <2> QED BY <1>3
<1>5. Among(S, s) = (CHOOSE g : Upto(g, Len(s)))[Len(s)]
  BY DEF Among, Longer
<1> HIDE DEF Upto
<1>6. PICK g : Upto(g, Len(s)) /\ Among(S, s) = g[Len(s)]
  BY <1>4, <1>5
<1>7. \A n \in 0 .. Len(s) : g[n] = Longer(S, s, g, n)
  BY <1>6, Zenon DEF Upto
<1> QED
  BY <1>6, <1>7

LEMMA AmongFacts ==
    ASSUME NEW S, NEW T, NEW s \in Seq(T)
    PROVE  /\ Among(S, s) \in Seq(T)
           /\ Elements(Among(S, s)) = S \cap Elements(s)
           /\ NoRepeats(s) => NoRepeats(Among(S, s))
<1>1. PICK g : /\ \A n \in 0 .. Len(s) : g[n] = Longer(S, s, g, n)
               /\ Among(S, s) = g[Len(s)]
  BY AmongExists
<1>0. Len(s) \in Nat /\ \A n \in 1 .. Len(s) : s[n] \in T
  OBVIOUS
<1> DEFINE Right(n) == /\ g[n] \in Seq(T)
                       /\ \A x : x \in Elements(g[n]) <=> x \in S /\ \E i \in 1 .. n : x = s[i]
                       /\ NoRepeats(s) => NoRepeats(g[n])
           Wrong == {n \in 0 .. Len(s) : ~Right(n)}
<1>2. Wrong = {}
  <2> SUFFICES ASSUME Wrong # {} PROVE FALSE
    OBVIOUS
  <2>1. PICK m \in Wrong : \A n \in Nat : n < m => n \notin Wrong
    <3>1. Wrong \subseteq Nat
      OBVIOUS
    <3> HIDE DEF Wrong
    <3> QED BY <3>1, Least
  <2>2. m \in 0 .. Len(s) /\ ~Right(m) /\ g[m] = Longer(S, s, g, m)
    <3>1. m \in 0 .. Len(s) /\ ~Right(m)
      BY <2>1
    <3> HIDE DEF Right
    <3> QED BY <1>1, <3>1
  <2>3. CASE m = 0
    <3>1. g[m] = <<>>
      BY <2>2, <2>3 DEF Longer
    <3>2. 1 .. m = {}
      BY <2>3
    <3>3. <<>> \in Seq(T)
      OBVIOUS
    <3> QED BY <2>2, <3>1, <3>2, <3>3, NoRepeatsEmpty
  <2>4. CASE m # 0
    <3>1. m \in Nat /\ m - 1 \in 0 .. Len(s) /\ m - 1 < m /\ m \in 1 .. Len(s)
      BY <1>0, <2>2, <2>4
    <3>2. Right(m - 1)
      <4> HIDE DEF Right
      <4>1. m - 1 \notin Wrong
        <5> HIDE DEF Wrong
        <5> QED BY <2>1, <3>1
      <4> QED BY <3>1, <4>1
    <3>3. 1 .. m = (1 .. m - 1) \cup {m}
      BY <3>1
    <3>4. g[m] = IF s[m] \in S THEN Append(g[m - 1], s[m]) ELSE g[m - 1]
      BY <2>2, <2>4 DEF Longer
    <3>5. s[m] \in T
      BY <1>0, <3>1
    <3>6. CASE s[m] \in S
      <4>1. Elements(g[m]) = Elements(g[m - 1]) \cup {s[m]} /\ g[m] \in Seq(T)
        BY <3>2, <3>4, <3>5, <3>6, ElementsAppend
      <4>2. NoRepeats(s) => NoRepeats(g[m])
        <5> SUFFICES ASSUME NoRepeats(s) PROVE NoRepeats(g[m])
          OBVIOUS
        <5>1. ASSUME NEW i \in 1 .. m - 1 PROVE s[i] # s[m]
          <6>1. i \in DOMAIN s /\ m \in DOMAIN s /\ i # m
            BY <1>0, <3>1
          <6> QED BY <6>1 DEF NoRepeats
        <5>2. s[m] \notin Elements(g[m - 1])
          BY <3>2, <5>1
        <5> QED BY <3>2, <3>4, <3>5, <3>6, <5>2, NoRepeatsAppend
      <4> QED BY <2>2, <3>2, <3>3, <3>6, <4>1, <4>2
    <3>7. CASE s[m] \notin S
      <4>1. g[m] = g[m - 1]
        BY <3>4, <3>7
      <4> QED BY <2>2, <3>2, <3>3, <3>7, <4>1
    <3> QED BY <3>6, <3>7
  <2> QED BY <2>3, <2>4
<1>3. Right(Len(s))
  <2> HIDE DEF Right
  <2>1. Len(s) \in 0 .. Len(s) /\ Len(s) \notin Wrong
    <3> HIDE DEF Wrong
    <3> QED BY <1>0, <1>2
  <2> QED BY <2>1
<1>4. Elements(Among(S, s)) = S \cap Elements(s)
  BY <1>1, <1>3, InElements
<1> QED
  BY <1>1, <1>3, <1>4

-----------------------------------------------------------------------------
(* The order of a sequence, as a relation between its elements.              *)

LEMMA FollowsElements ==
    ASSUME NEW S, NEW s \in Seq(S), NEW x, NEW y, Follows(s, x, y)
    PROVE  x \in Elements(s) /\ y \in Elements(s)
BY DEF Follows, Elements

LEMMA FollowsAppend ==
    ASSUME NEW S, NEW s \in Seq(S), NEW e \in S, NEW x, NEW y
    PROVE  Follows(Append(s, e), x, y) <=> Follows(s, x, y) \/ (x \in Elements(s) /\ y = e)
<1>1. /\ Len(s) \in Nat /\ DOMAIN s = 1 .. Len(s) /\ DOMAIN Append(s, e) = 1 .. Len(s) + 1
      /\ Append(s, e)[Len(s) + 1] = e
  OBVIOUS
<1>2. \A i \in 1 .. Len(s) : Append(s, e)[i] = s[i]
  OBVIOUS
<1>3. \A i \in 1 .. Len(s) + 1 : i \in Nat /\ (i \in 1 .. Len(s) \/ i = Len(s) + 1)
  BY <1>1
<1>4. \A i \in 1 .. Len(s) : i \in 1 .. Len(s) + 1 /\ i < Len(s) + 1
  BY <1>1
<1>5. x \in Elements(s) <=> \E i \in 1 .. Len(s) : s[i] = x
  BY InElements
<1>6. ASSUME Follows(Append(s, e), x, y) PROVE Follows(s, x, y) \/ (x \in Elements(s) /\ y = e)
  <2>1. PICK i, j \in 1 .. Len(s) + 1 : i < j /\ Append(s, e)[i] = x /\ Append(s, e)[j] = y
    BY <1>1, <1>6 DEF Follows
  <2>2. i \in 1 .. Len(s)
    BY <1>1, <2>1
  <2>3. CASE j \in 1 .. Len(s)
    BY <1>1, <1>2, <2>1, <2>2, <2>3 DEF Follows
  <2>4. CASE j = Len(s) + 1
    BY <1>1, <1>2, <1>5, <2>1, <2>2, <2>4
  <2> QED BY <1>3, <2>1, <2>3, <2>4
<1>7. ASSUME Follows(s, x, y) PROVE Follows(Append(s, e), x, y)
  BY <1>1, <1>2, <1>4, <1>7 DEF Follows
<1>8. ASSUME x \in Elements(s), y = e PROVE Follows(Append(s, e), x, y)
  <2>1. PICK i \in 1 .. Len(s) : s[i] = x
    BY <1>5, <1>8
  <2>2. Len(s) + 1 \in 1 .. Len(s) + 1
    BY <1>1
  <2> QED BY <1>1, <1>2, <1>4, <1>8, <2>1, <2>2 DEF Follows
<1> QED
  BY <1>6, <1>7, <1>8

LEMMA FollowsConcat ==
    ASSUME NEW S, NEW s \in Seq(S), NEW t \in Seq(S), NEW x, NEW y
    PROVE  Follows(s \o t, x, y) <=> \/ Follows(s, x, y) \/ Follows(t, x, y)
                                     \/ x \in Elements(s) /\ y \in Elements(t)
<1>1. /\ Len(s) \in Nat /\ DOMAIN s = 1 .. Len(s) /\ Len(t) \in Nat /\ DOMAIN t = 1 .. Len(t)
      /\ DOMAIN (s \o t) = 1 .. Len(s) + Len(t)
  OBVIOUS
<1>2. \A i \in 1 .. Len(s) : i \in 1 .. Len(s) + Len(t) /\ (s \o t)[i] = s[i]
  OBVIOUS
<1>3. \A i \in 1 .. Len(t) :
          Len(s) + i \in 1 .. Len(s) + Len(t) /\ (s \o t)[Len(s) + i] = t[i]
  OBVIOUS
<1>4. ASSUME NEW i \in 1 .. Len(s) + Len(t), i \notin 1 .. Len(s)
      PROVE  i - Len(s) \in 1 .. Len(t) /\ (s \o t)[i] = t[i - Len(s)]
  BY <1>1, <1>4
<1>5. \A z : (z \in Elements(s) <=> \E i \in 1 .. Len(s) : s[i] = z)
          /\ (z \in Elements(t) <=> \E i \in 1 .. Len(t) : t[i] = z)
  BY InElements
<1>6. ASSUME Follows(s \o t, x, y)
      PROVE  Follows(s, x, y) \/ Follows(t, x, y) \/ (x \in Elements(s) /\ y \in Elements(t))
  <2>1. PICK i, j \in 1 .. Len(s) + Len(t) : i < j /\ (s \o t)[i] = x /\ (s \o t)[j] = y
    BY <1>1, <1>6 DEF Follows
  <2>2. CASE j \in 1 .. Len(s)
    <3>1. i \in 1 .. Len(s)
      BY <1>1, <2>1, <2>2
    <3> QED BY <1>1, <1>2, <2>1, <2>2, <3>1 DEF Follows
  <2>3. CASE i \in 1 .. Len(s) /\ j \notin 1 .. Len(s)
    BY <1>2, <1>4, <1>5, <2>1, <2>3
  <2>4. CASE i \notin 1 .. Len(s) /\ j \notin 1 .. Len(s)
    <3>1. i - Len(s) < j - Len(s)
      BY <1>1, <2>1
    <3> QED BY <1>1, <1>4, <2>1, <2>4, <3>1 DEF Follows
  <2> QED BY <2>2, <2>3, <2>4
<1>7. ASSUME Follows(s, x, y) PROVE Follows(s \o t, x, y)
  BY <1>1, <1>2, <1>7 DEF Follows
<1>8. ASSUME Follows(t, x, y) PROVE Follows(s \o t, x, y)
  <2>1. PICK i, j \in 1 .. Len(t) : i < j /\ t[i] = x /\ t[j] = y
    BY <1>1, <1>8 DEF Follows
  <2>2. Len(s) + i < Len(s) + j
    BY <1>1, <2>1
  <2> QED BY <1>1, <1>3, <2>1, <2>2 DEF Follows
<1>9. ASSUME x \in Elements(s), y \in Elements(t) PROVE Follows(s \o t, x, y)
  <2>1. PICK i \in 1 .. Len(s) : s[i] = x
    BY <1>5, <1>9
  <2>2. PICK j \in 1 .. Len(t) : t[j] = y
    BY <1>5, <1>9
  <2>3. i < Len(s) + j
    BY <1>1
  <2> QED BY <1>1, <1>2, <1>3, <2>1, <2>2, <2>3 DEF Follows
<1> QED
  BY <1>6, <1>7, <1>8, <1>9

LEMMA FollowsTail ==
    ASSUME NEW S, NEW s \in Seq(S), s # <<>>
    PROVE  /\ \A x, y : Follows(Tail(s), x, y) => Follows(s, x, y)
           /\ \A y \in Elements(Tail(s)) : Follows(s, Head(s), y)
<1>1. <<Head(s)>> \in Seq(S) /\ Tail(s) \in Seq(S) /\ s = <<Head(s)>> \o Tail(s)
  OBVIOUS
<1>2. Head(s) \in Elements(<<Head(s)>>)
  BY DEF Elements
<1>3. PICK h \in Seq(S), t \in Seq(S) : h = <<Head(s)>> /\ t = Tail(s)
  BY <1>1, Zenon
<1>4. \A x, y : Follows(h \o t, x, y) <=> \/ Follows(h, x, y) \/ Follows(t, x, y)
                                          \/ x \in Elements(h) /\ y \in Elements(t)
  BY FollowsConcat
<1> QED
  BY <1>1, <1>2, <1>3, <1>4, Zenon

LEMMA FollowsOnce ==
    ASSUME NEW S, NEW s \in Seq(S), NoRepeats(s), NEW m \in DOMAIN s, NEW n \in DOMAIN s,
           Follows(s, s[m], s[n])
    PROVE  m < n
BY DEF Follows, NoRepeats

\* Among keeps the order.
LEMMA AmongOrder ==
    ASSUME NEW S, NEW T, NEW s \in Seq(T), NEW x, NEW y, Follows(Among(S, s), x, y)
    PROVE  Follows(s, x, y)
<1>1. PICK g : /\ \A n \in 0 .. Len(s) : g[n] = Longer(S, s, g, n)
               /\ Among(S, s) = g[Len(s)]
  BY AmongExists
<1>0. Len(s) \in Nat /\ DOMAIN s = 1 .. Len(s) /\ \A n \in 1 .. Len(s) : s[n] \in T
  OBVIOUS
<1> DEFINE Right(n) == /\ g[n] \in Seq(T)
                       /\ \A u \in Elements(g[n]) : \E i \in 1 .. n : u = s[i]
                       /\ Follows(g[n], x, y) => Follows(s, x, y)
           Wrong == {n \in 0 .. Len(s) : ~Right(n)}
<1>2. Wrong = {}
  <2> SUFFICES ASSUME Wrong # {} PROVE FALSE
    OBVIOUS
  <2>1. PICK m \in Wrong : \A n \in Nat : n < m => n \notin Wrong
    <3>1. Wrong \subseteq Nat
      OBVIOUS
    <3> HIDE DEF Wrong
    <3> QED BY <3>1, Least
  <2>2. m \in 0 .. Len(s) /\ ~Right(m) /\ g[m] = Longer(S, s, g, m)
    <3>1. m \in 0 .. Len(s) /\ ~Right(m)
      BY <2>1
    <3> HIDE DEF Right
    <3> QED BY <1>1, <3>1
  <2>3. CASE m = 0
    <3>1. g[m] = <<>>
      BY <2>2, <2>3 DEF Longer
    <3>2. <<>> \in Seq(T) /\ DOMAIN <<>> = {}
      OBVIOUS
    <3> QED BY <2>2, <3>1, <3>2, NoRepeatsEmpty DEF Follows
  <2>4. CASE m # 0
    <3>1. m \in Nat /\ m - 1 \in 0 .. Len(s) /\ m - 1 < m /\ m \in 1 .. Len(s)
      BY <1>0, <2>2, <2>4
    <3>2. Right(m - 1)
      <4> HIDE DEF Right
      <4>1. m - 1 \notin Wrong
        <5> HIDE DEF Wrong
        <5> QED BY <2>1, <3>1
      <4> QED BY <3>1, <4>1
    <3>3. /\ \A i \in 1 .. m - 1 : i \in 1 .. m /\ i \in 1 .. Len(s) /\ i < m
          /\ m \in 1 .. m
      BY <3>1
    <3>4. g[m] = IF s[m] \in S THEN Append(g[m - 1], s[m]) ELSE g[m - 1]
      BY <2>2, <2>4 DEF Longer
    <3>5. s[m] \in T
      BY <1>0, <3>1
    <3>6. CASE s[m] \in S
      <4>1. Elements(g[m]) = Elements(g[m - 1]) \cup {s[m]} /\ g[m] \in Seq(T)
        BY <3>2, <3>4, <3>5, <3>6, ElementsAppend
      <4>2. Follows(g[m], x, y)
              <=> Follows(g[m - 1], x, y) \/ (x \in Elements(g[m - 1]) /\ y = s[m])
        BY <3>2, <3>4, <3>5, <3>6, FollowsAppend
      <4>3. ASSUME x \in Elements(g[m - 1]), y = s[m] PROVE Follows(s, x, y)
        <5>1. PICK i \in 1 .. m - 1 : x = s[i]
          BY <3>2, <4>3
        <5> QED BY <1>0, <3>1, <3>3, <4>3, <5>1 DEF Follows
      <4>4. \A u \in Elements(g[m]) : \E i \in 1 .. m : u = s[i]
        BY <3>2, <3>3, <4>1
      <4> QED BY <2>2, <3>2, <4>1, <4>2, <4>3, <4>4
    <3>7. CASE s[m] \notin S
      <4>1. g[m] = g[m - 1]
        BY <3>4, <3>7
      <4> QED BY <2>2, <3>2, <3>3, <4>1
    <3> QED BY <3>6, <3>7
  <2> QED BY <2>3, <2>4
<1>3. Right(Len(s))
  <2> HIDE DEF Right
  <2>1. Len(s) \in 0 .. Len(s) /\ Len(s) \notin Wrong
    <3> HIDE DEF Wrong
    <3> QED BY <1>0, <1>2
  <2> QED BY <2>1
<1> QED
  BY <1>1, <1>3

LEMMA NoRepeatsJoin ==
    ASSUME NEW S, NEW s \in Seq(S), NEW t \in Seq(S), NoRepeats(s), NoRepeats(t),
           Elements(s) \cap Elements(t) = {}
    PROVE  NoRepeats(s \o t)
<1>1. /\ Len(s) \in Nat /\ Len(t) \in Nat /\ DOMAIN (s \o t) = 1 .. Len(s) + Len(t)
      /\ DOMAIN s = 1 .. Len(s) /\ DOMAIN t = 1 .. Len(t)
  OBVIOUS
<1>2. \A i \in 1 .. Len(s) : (s \o t)[i] = s[i] /\ s[i] \in Elements(s)
  BY InElements
<1>3. ASSUME NEW i \in DOMAIN (s \o t), i > Len(s)
      PROVE  /\ i - Len(s) \in 1 .. Len(t) /\ (s \o t)[i] = t[i - Len(s)]
             /\ t[i - Len(s)] \in Elements(t)
  <2>1. i - Len(s) \in 1 .. Len(t) /\ (s \o t)[i] = t[i - Len(s)]
    BY <1>1, <1>3
  <2> QED BY <2>1, InElements
<1>4. \A i, j \in 1 .. Len(s) : s[i] = s[j] => i = j
  BY <1>1 DEF NoRepeats
<1>5. \A i, j \in 1 .. Len(t) : t[i] = t[j] => i = j
  BY <1>1 DEF NoRepeats
<1>6. ASSUME NEW i \in DOMAIN (s \o t), NEW j \in DOMAIN (s \o t), (s \o t)[i] = (s \o t)[j]
      PROVE  i = j
  <2>0. i \in Nat /\ j \in Nat /\ (i <= Len(s) => i \in 1 .. Len(s)) /\ (j <= Len(s) => j \in 1 .. Len(s))
    BY <1>1
  <2>1. CASE i <= Len(s) /\ j <= Len(s)
    BY <1>2, <1>4, <1>6, <2>0, <2>1
  <2>2. CASE i > Len(s) /\ j > Len(s)
    <3>1. i - Len(s) = j - Len(s)
      BY <1>3, <1>5, <1>6, <2>2
    <3> QED BY <1>1, <2>0, <3>1
  <2>3. CASE i <= Len(s) /\ j > Len(s)
    BY <1>2, <1>3, <1>6, <2>0, <2>3
  <2>4. CASE i > Len(s) /\ j <= Len(s)
    BY <1>2, <1>3, <1>6, <2>0, <2>4
  <2> QED BY <1>1, <2>0, <2>1, <2>2, <2>3, <2>4
<1> QED
  BY <1>6 DEF NoRepeats

LEMMA NoRepeatsSuffix ==
    ASSUME NEW S, NEW s \in Seq(S), NEW t \in Seq(S), NoRepeats(s \o t)
    PROVE  NoRepeats(t)
<1>1. ASSUME NEW i \in DOMAIN t, NEW j \in DOMAIN t, t[i] = t[j] PROVE i = j
  <2>1. (s \o t)[Len(s) + i] = t[i] /\ (s \o t)[Len(s) + j] = t[j]
    OBVIOUS
  <2>2. Len(s) + i \in DOMAIN (s \o t) /\ Len(s) + j \in DOMAIN (s \o t)
    OBVIOUS
  <2>3. Len(s) + i = Len(s) + j
    BY <1>1, <2>1, <2>2 DEF NoRepeats
  <2>4. Len(s) \in Nat /\ i \in Nat /\ j \in Nat
    OBVIOUS
  <2> QED BY <2>3, <2>4
<1> QED
  BY <1>1 DEF NoRepeats

\* Without repetition it has as many elements as its length.
LEMMA ElementsCounted ==
    ASSUME NEW S, NEW s \in Seq(S), NoRepeats(s)
    PROVE  IsFiniteSet(Elements(s)) /\ Cardinality(Elements(s)) = Len(s)
<1>1. IsFiniteSet(1 .. Len(s)) /\ Cardinality(1 .. Len(s)) = Len(s)
  <2>1. Len(s) \in Nat
    OBVIOUS
  <2> QED BY <2>1, FS_Interval
<1>2. Elements(s) = {s[x] : x \in 1 .. Len(s)}
  BY DEF Elements
<1>3. s \in Surjection(1 .. Len(s), Elements(s))
  BY <1>2 DEF Surjection
<1>4. s \in Injection(1 .. Len(s), Elements(s))
  BY <1>3 DEF NoRepeats, Surjection, Injection, IsInjective
<1> QED
  BY <1>1, <1>3, <1>4, FS_Surjection

-----------------------------------------------------------------------------
(* The plugins.  What a plugin has dealt with is what went through           *)
(* processBatch and, of the batches that are still in it, those that the     *)
(* plugin is done with.                                                      *)

Done(w, p) == Elements(written[w])
                \cup (IF p \in todo[w] THEN {} ELSE Elements(batcher[w].batch))
Dealt(p) == Elements(stored[p]) \cup lost[p]

Fanning ==
    /\ stored \in [Plugins -> Seq(Events)] /\ lost \in [Plugins -> SUBSET Events]
    /\ \A p \in Plugins :
          /\ NoRepeats(stored[p]) /\ Elements(stored[p]) \cap lost[p] = {}
          /\ Dealt(p) = Accepts[p] \cap UNION {Done(w, p) : w \in Workers}
          /\ p \notin Flaky /\ ~cancelled => lost[p] = {}

LEMMA FanningInit == Init => Fanning
<1> SUFFICES ASSUME Init PROVE Fanning
  OBVIOUS
<1>1. /\ stored = [p \in Plugins |-> <<>>] /\ lost = [p \in Plugins |-> {}]
      /\ \A w \in Workers : written[w] = <<>> /\ batcher[w].batch = <<>>
  BY DEF Init
<1>2. \A p \in Plugins : stored[p] = <<>> /\ lost[p] = {}
  BY <1>1
<1>3. \A w \in Workers, p \in Plugins : Done(w, p) = {}
  BY <1>1, NoRepeatsEmpty DEF Done
<1> QED
  BY <1>1, <1>2, <1>3, NoRepeatsEmpty DEF Fanning, Dealt

LEMMA FanningSame ==
    ASSUME Fanning, UNCHANGED storage, cancelled => cancelled',
           \A w \in Workers, p \in Plugins : Done(w, p)' = Done(w, p)
    PROVE  Fanning'
<1>1. \A p \in Plugins : UNION {Done(w, p)' : w \in Workers} = UNION {Done(w, p) : w \in Workers}
  OBVIOUS
<1> QED
  BY <1>1 DEF Fanning, Dealt, storage

\* What the batcher of a worker holds and has passed on.
LEMMA BatchFacts ==
    ASSUME IInv, NEW w \in Workers
    PROVE  /\ batcher[w].batch \in Seq(Events) /\ written[w] \in Seq(Events)
           /\ Elements(written[w]) \cup Elements(batcher[w].batch) \subseteq Taken(w)
           /\ Elements(written[w]) \cap Elements(batcher[w].batch) = {}
           /\ NoRepeats(batcher[w].batch)
<1>1. /\ written[w] \in Seq(Events) /\ batcher[w].batch \in Seq(Events)
      /\ batcher[w].events \in Seq(Events)
  BY DEF IInv, Shapes, WorkersShape, BatcherShape
<1>2. written[w] \o batcher[w].batch \in Seq(Events)
  BY <1>1
<1>3. PICK s \in Seq(Events) : s = written[w] \o batcher[w].batch
  BY <1>2, Zenon
<1>4. NoRepeats(added[w]) /\ added[w] = s \o batcher[w].events
  BY <1>3 DEF IInv, Accounted, Conservation, Batching
<1>5. NoRepeats(s) /\ Elements(added[w]) = Elements(s) \cup Elements(batcher[w].events)
  BY <1>1, <1>4, NoRepeatsConcat, ElementsConcat
<1>6. Elements(s) = Elements(written[w]) \cup Elements(batcher[w].batch)
  BY <1>1, <1>3, ElementsConcat
<1>7. Elements(written[w]) \cap Elements(batcher[w].batch) = {}
  BY <1>1, <1>3, <1>5, NoRepeatsConcat
<1>8. NoRepeats(batcher[w].batch)
  BY <1>1, <1>3, <1>5, NoRepeatsSuffix
<1> QED
  BY <1>1, <1>5, <1>6, <1>7, <1>8 DEF Taken

\* writeToPlugin deals with what the plugin takes of the batch.
LEMMA WriteFans ==
    ASSUME IInv, Fanning, NEW w \in Workers, NEW p \in Plugins, WriteToPlugin(w, p)
    PROVE  Fanning'
<1> DEFINE b == batcher[w].batch
           filtered == Among(Accepts[p], b)
<1>1. PICK S \in SUBSET Elements(filtered) :
          /\ S = Elements(filtered) \/ p \in Flaky \/ cancelled
          /\ stored' = [stored EXCEPT ![p] = @ \o Persisted(S, filtered)]
          /\ lost' = [lost EXCEPT ![p] = @ \cup (Elements(filtered) \ S)]
  BY DEF WriteToPlugin
<1>2. /\ p \in todo[w] /\ todo' = [todo EXCEPT ![w] = @ \ {p}]
      /\ UNCHANGED <<batcher, written, cancelled>>
  BY DEF WriteToPlugin, lifecycle
<1>3. todo \in [Workers -> SUBSET Plugins]
  BY DEF IInv, Shapes, WorkersShape
<1>4. b \in Seq(Events) /\ NoRepeats(b)
  BY BatchFacts
<1> HIDE DEF b
<1>5. /\ filtered \in Seq(Events) /\ Elements(filtered) = Accepts[p] \cap Elements(b)
      /\ NoRepeats(filtered)
  BY <1>4, AmongFacts
<1> HIDE DEF filtered
<1> DEFINE kept == Persisted(S, filtered)
<1>6. kept \in Seq(Events) /\ Elements(kept) = S /\ NoRepeats(kept)
  <2>1. Elements(kept) = S \cap Elements(filtered)
    BY <1>5, AmongFacts DEF Persisted
  <2> QED BY <1>5, <2>1, AmongFacts DEF Persisted
<1> HIDE DEF kept
<1>7. stored \in [Plugins -> Seq(Events)] /\ lost \in [Plugins -> SUBSET Events]
  BY DEF Fanning
<1>8. /\ stored'[p] = stored[p] \o kept /\ lost'[p] = lost[p] \cup (Elements(filtered) \ S)
      /\ \A q \in Plugins \ {p} : stored'[q] = stored[q] /\ lost'[q] = lost[q]
  BY <1>1, <1>7 DEF kept
<1>9. Elements(filtered) \cap Dealt(p) = {}
  <2>1. ASSUME NEW v \in Workers PROVE Elements(b) \cap Done(v, p) = {}
    <3>1. CASE v = w
      BY <1>2, <3>1, BatchFacts DEF Done, b
    <3>2. CASE v # w
      <4>1. Elements(b) \subseteq Taken(w) /\ Done(v, p) \subseteq Taken(v)
        BY BatchFacts DEF Done, b
      <4>2. Taken(v) \cap Taken(w) = {}
        BY <3>2 DEF IInv, Accounted, Conservation
      <4> QED BY <4>1, <4>2
    <3> QED BY <3>1, <3>2
  <2>2. Dealt(p) = Accepts[p] \cap UNION {Done(v, p) : v \in Workers}
    BY DEF Fanning
  <2> QED BY <1>5, <2>1, <2>2
<1>10. Elements(stored'[p]) = Elements(stored[p]) \cup S
  BY <1>6, <1>7, <1>8, ElementsConcat
<1>11. NoRepeats(stored'[p]) /\ Elements(stored'[p]) \cap lost'[p] = {}
  <2>1. NoRepeats(stored[p]) /\ Elements(stored[p]) \cap lost[p] = {}
    BY DEF Fanning
  <2>2. Elements(stored[p]) \cap Elements(kept) = {}
    BY <1>6, <1>9 DEF Dealt
  <2>3. NoRepeats(stored'[p])
    BY <1>6, <1>7, <1>8, <2>1, <2>2, NoRepeatsJoin
  <2> QED BY <1>8, <1>9, <1>10, <2>1, <2>3 DEF Dealt
<1>12. Dealt(p)' = Dealt(p) \cup Elements(filtered)
  BY <1>8, <1>10 DEF Dealt
<1>13. /\ Done(w, p)' = Done(w, p) \cup Elements(b)
       /\ \A v \in Workers \ {w} : Done(v, p)' = Done(v, p)
       /\ \A v \in Workers, q \in Plugins \ {p} : Done(v, q)' = Done(v, q)
  BY <1>2, <1>3 DEF Done, b
<1>14. Dealt(p)' = Accepts[p] \cap UNION {Done(v, p)' : v \in Workers}
  <2>1. Dealt(p) = Accepts[p] \cap UNION {Done(v, p) : v \in Workers}
    BY DEF Fanning
  <2> QED BY <1>5, <1>12, <1>13, <2>1
<1>15. stored' \in [Plugins -> Seq(Events)] /\ lost' \in [Plugins -> SUBSET Events]
  <2>1. stored[p] \o kept \in Seq(Events) /\ lost[p] \cup (Elements(filtered) \ S) \subseteq Events
    BY <1>5, <1>6, <1>7, ElementsSubset
  <2> QED BY <1>1, <1>7, <2>1 DEF kept
<1>16. p \notin Flaky /\ ~cancelled' => lost'[p] = {}
  BY <1>1, <1>2, <1>8 DEF Fanning
<1>17. ASSUME NEW q \in Plugins \ {p}
       PROVE  /\ NoRepeats(stored'[q]) /\ Elements(stored'[q]) \cap lost'[q] = {}
              /\ Dealt(q)' = Accepts[q] \cap UNION {Done(v, q)' : v \in Workers}
              /\ q \notin Flaky /\ ~cancelled' => lost'[q] = {}
  <2>1. UNION {Done(v, q)' : v \in Workers} = UNION {Done(v, q) : v \in Workers}
    BY <1>13
  <2> QED BY <1>2, <1>8, <2>1 DEF Fanning, Dealt
<1> QED
  BY <1>11, <1>14, <1>15, <1>16, <1>17 DEF Fanning

\* No other step of a worker changes what the plugins are done with.
LEMMA WorkerFans ==
    ASSUME IInv, Fanning, NEW w \in Workers,
           Worker(w) \/ (Flushing(w) /\ \A p \in Plugins : ~WriteToPlugin(w, p))
    PROVE  Fanning'
<1>0. /\ DOMAIN batcher = Workers /\ BatcherShape(batcher[w], w)
      /\ todo \in [Workers -> SUBSET Plugins] /\ written \in [Workers -> Seq(Events)]
  BY DEF IInv, Shapes, WorkersShape
<1>1. UNCHANGED <<stored, lost, cancelled>>
  BY DEF Worker, Receive, StopReceiving, AddAppend, AddReturn, AddFlush, FinalFlush,
         Flushing, Fire, TimeoutFlush, BatchDone, storage, lifecycle
<1>2. \A v \in Workers \ {w} : UNCHANGED <<written[v], todo[v], batcher[v]>>
  BY <1>0 DEF Worker, Receive, StopReceiving, AddAppend, AddReturn, AddFlush, FinalFlush, StartFlush,
         Flushing, Fire, TimeoutFlush, BatchDone
<1>3. \/ UNCHANGED <<written[w], todo[w], batcher[w].batch>>
      \/ batcher[w].batch = <<>> /\ todo'[w] = Plugins /\ UNCHANGED written[w]
      \/ /\ todo[w] = {} /\ batcher'[w].batch = <<>> /\ UNCHANGED todo[w]
         /\ written'[w] = written[w] \o batcher[w].batch
  <2>1. CASE Receive(w) \/ StopReceiving(w)
    BY <2>1 DEF Receive, StopReceiving
  <2>2. CASE AddAppend(w) \/ AddReturn(w)
    <3>1. UNCHANGED <<written, todo>>
      BY <2>2 DEF AddAppend, AddReturn
    <3>2. CASE AddAppend(w)
      <4> DEFINE b == batcher[w]
                 e == hand[w]
      <4>1. batcher'[w] = [b EXCEPT !.lock = w, !.events = Append(@, e),
                          !.timer = IF NeedsTimer(b.events) THEN e ELSE @,
                          !.armed = IF NeedsTimer(b.events) THEN @ \cup {e} ELSE @]
        BY <1>0, <3>2 DEF AddAppend
      <4>2. batcher'[w].batch = batcher[w].batch
        BY <1>0, <4>1 DEF BatcherShape
      <4> QED BY <3>1, <4>2
    <3>3. CASE AddReturn(w)
      <4>1. batcher'[w] = [batcher[w] EXCEPT !.lock = None]
        BY <1>0, <3>3 DEF AddReturn, Released
      <4>2. batcher'[w].batch = batcher[w].batch
        BY <1>0, <4>1 DEF BatcherShape
      <4> QED BY <3>1, <4>2
    <3> QED BY <2>2, <3>2, <3>3
  <2>3. CASE AddFlush(w)
    BY <1>0, <2>3 DEF AddFlush, StartFlush
  <2>4. CASE FinalFlush(w)
    <3>1. batcher[w].batch = <<>>
      BY <2>4 DEF FinalFlush, Unlocked, IInv, Batching
    <3> QED BY <1>0, <2>4, <3>1 DEF FinalFlush, StartFlush
  <2>5. CASE \E e \in Events : Fire(w, e)
    BY <1>0, <2>5 DEF Fire, BatcherShape
  <2>6. CASE \E e \in Events : TimeoutFlush(w, e)
    <3>1. PICK e \in Events : TimeoutFlush(w, e)
      BY <2>6
    <3>2. batcher[w].batch = <<>>
      BY <3>1 DEF TimeoutFlush, Unlocked, IInv, Batching
    <3> QED BY <1>0, <3>1, <3>2 DEF TimeoutFlush, BatcherShape
  <2>7. CASE BatchDone(w)
    BY <1>0, <2>7 DEF BatchDone, PluginsDone, Released, BatcherShape
  <2> QED BY <2>1, <2>2, <2>3, <2>4, <2>5, <2>6, <2>7 DEF Worker, Flushing
<1>4. ASSUME NEW p \in Plugins PROVE Done(w, p)' = Done(w, p)
  <2>1. CASE UNCHANGED <<written[w], todo[w], batcher[w].batch>>
    BY <2>1 DEF Done
  <2>2. CASE batcher[w].batch = <<>> /\ todo'[w] = Plugins /\ UNCHANGED written[w]
    BY <2>2, NoRepeatsEmpty DEF Done
  <2>3. CASE /\ todo[w] = {} /\ batcher'[w].batch = <<>> /\ UNCHANGED todo[w]
             /\ written'[w] = written[w] \o batcher[w].batch
    <3>1. Elements(written'[w]) = Elements(written[w]) \cup Elements(batcher[w].batch)
      BY <2>3, BatchFacts, ElementsConcat
    <3> QED BY <2>3, <3>1, NoRepeatsEmpty DEF Done
  <2> QED BY <1>3, <2>1, <2>2, <2>3
<1>5. \A v \in Workers \ {w}, p \in Plugins : Done(v, p)' = Done(v, p)
  BY <1>2 DEF Done
<1> QED
  BY <1>1, <1>4, <1>5, FanningSame DEF storage

LEMMA FanningNext == IInv /\ Fanning /\ [Next]_vars => Fanning'
<1> SUFFICES ASSUME IInv, Fanning, [Next]_vars PROVE Fanning'
  OBVIOUS
<1>1. ASSUME UNCHANGED <<workers, storage>>, cancelled => cancelled' PROVE Fanning'
  BY <1>1, FanningSame DEF workers, Done
<1>2. ASSUME NEW e \in Events, Submit(e) PROVE Fanning'
  <2>1. UNCHANGED <<workers, storage, cancelled>>
    BY <1>2 DEF Submit, CheckDuplicate, Mark, TrySend, BlockingSend, WokenByClose, CountReceived, lifecycle
  <2> QED BY <1>1, <2>1
<1>3. ASSUME NEW k \in Keys, Expire(k) PROVE Fanning'
  BY <1>1, <1>3 DEF Expire, lifecycle
<1>4. ASSUME NEW w \in Workers, Worker(w) \/ Flushing(w) PROVE Fanning'
  BY <1>4, WriteFans, WorkerFans
<1>5. ASSUME Shutdown PROVE Fanning'
  BY <1>1, <1>5 DEF Shutdown, CloseInput, ReturnDrained, ReturnTimeout
<1>6. ASSUME UNCHANGED vars PROVE Fanning'
  BY <1>1, <1>6 DEF vars, workers, storage
<1> QED
  BY <1>2, <1>3, <1>4, <1>5, <1>6 DEF Next, Stopped

LEMMA FanningHolds == Spec => [](IInv /\ Fanning)
<1>1. Init => Fanning
  BY FanningInit
<1>2. IInv /\ Fanning /\ [Next]_vars => Fanning'
  BY FanningNext
<1> QED
  BY <1>1, <1>2, Invariance, PTL DEF Spec

\* The variables keep their shapes, the contents of the backends included.
THEOREM TypeCorrect == Spec => []TypeOK
<1>1. IInv /\ Fanning => TypeOK
  BY DEF IInv, Fanning, TypeOK
<1> QED
  BY <1>1, FanningHolds, PTL

\* Whatever batches are in flight and however the plugins fail, each plugin
\* deals with each event of a batch once, and with no event it did not get.
THEOREM FansOut == Spec => []FanOut
<1>1. IInv /\ Fanning => FanOut
  <2> SUFFICES ASSUME IInv, Fanning, NEW p \in Plugins
               PROVE  /\ Dealt(p) \subseteq Elements(accepted) \cap Accepts[p]
                      /\ Handled \cap Accepts[p] \subseteq Dealt(p)
    BY DEF FanOut, Fanning, Dealt
  <2>1. Dealt(p) = Accepts[p] \cap UNION {Done(w, p) : w \in Workers}
    BY DEF Fanning
  <2>2. \A w \in Workers : Done(w, p) \subseteq Elements(accepted)
    <3>1. \A w \in Workers : Done(w, p) \subseteq Taken(w)
      BY BatchFacts DEF Done
    <3> QED BY <3>1 DEF IInv, Accounted, Conservation
  <2>3. Handled \subseteq UNION {Done(w, p) : w \in Workers}
    BY DEF Handled, Done
  <2> QED BY <2>1, <2>2, <2>3
<1> QED
  BY <1>1, FanningHolds, PTL

-----------------------------------------------------------------------------
(* The shutdown.  The counters count what they are meant to, and once        *)
(* Shutdown has returned nil no worker comes back.                           *)

Sent == {e \in Events : sub[e] = "sent"}

Counted ==
    /\ stats.processed = Cardinality(Handled)
    /\ stats.received + Cardinality(Sent) = Cardinality(Elements(accepted))
    /\ shutdown = "nil" => AllExited

LEMMA Finite ==
    ASSUME IInv
    PROVE  /\ IsFiniteSet(Handled) /\ IsFiniteSet(Sent) /\ IsFiniteSet(Elements(accepted))
           /\ Handled \subseteq Events
<1>1. \A w \in Workers : Elements(written[w]) \subseteq Events
  BY ElementsSubset DEF IInv, Shapes, WorkersShape
<1>2. Handled \subseteq Events /\ Sent \subseteq Events /\ Elements(accepted) \subseteq Events
  BY <1>1, ElementsSubset DEF Handled, Sent, IInv, Shapes, ChannelShape
<1> QED
  BY <1>2, ProcessorAssumption, FS_Subset

LEMMA Cardinals ==
    ASSUME NEW S, IsFiniteSet(S)
    PROVE  Cardinality(S) \in Nat
BY FS_CardinalityType

LEMMA CountedInit == Init => Counted
<1> SUFFICES ASSUME Init PROVE Counted
  OBVIOUS
<1>1. Handled = {} /\ Sent = {} /\ Elements(accepted) = {}
  BY NoRepeatsEmpty DEF Init, Handled, Sent
<1>2. stats.processed = 0 /\ stats.received = 0 /\ shutdown = "no"
  BY DEF Init
<1> QED
  BY <1>1, <1>2, FS_EmptySet DEF Counted

LEMMA CountedSame ==
    ASSUME Counted, UNCHANGED <<stats.processed, stats.received, written, accepted, Sent>>,
           AllExited => AllExited', shutdown' = "nil" => shutdown = "nil"
    PROVE  Counted'
BY DEF Counted, Handled

\* The event that enters the channel becomes "sent", and was not accepted before.
LEMMA CountedAccept ==
    ASSUME IInv, Counted, NEW e \in Events, accepted' = Append(accepted, e),
           sub' = [sub EXCEPT ![e] = "sent"], sub[e] \in {"send", "full", "parked"},
           UNCHANGED <<stats, written, shutdown>>, AllExited => AllExited'
    PROVE  Counted'
<1>1. Sent' = Sent \cup {e} /\ e \notin Sent
  BY DEF Sent, IInv, Shapes, SubmissionShape
<1>2. Elements(accepted') = Elements(accepted) \cup {e} /\ e \notin Elements(accepted)
  BY ElementsAppend DEF IInv, Accounted, Shapes, ChannelShape
<1>3. /\ Cardinality(Sent') = Cardinality(Sent) + 1
      /\ Cardinality(Elements(accepted')) = Cardinality(Elements(accepted)) + 1
  BY <1>1, <1>2, Finite, FS_AddElement
<1>4. Cardinality(Sent) \in Nat /\ stats.received \in Nat
  BY Finite, Cardinals DEF IInv, Shapes, SubmissionShape
<1>5. stats.received + (Cardinality(Sent) + 1) = (stats.received + Cardinality(Sent)) + 1
  <2>1. \A m, n \in Nat : m + (n + 1) = (m + n) + 1
    OBVIOUS
  <2> QED BY <1>4, <2>1
<1>6. Handled' = Handled
  BY DEF Handled
<1> QED
  BY <1>3, <1>5, <1>6 DEF Counted

LEMMA CountedSubmit ==
    ASSUME IInv, Counted, NEW e \in Events, Submit(e)
    PROVE  Counted'
<1>0. /\ sub \in [Events -> {"new", "mark", "send", "full", "parked", "sent", "ok", "duplicate", "dropped"}]
      /\ stats \in [{"received", "processed", "duplicated", "dropped"} -> Nat]
  BY DEF IInv, Shapes, SubmissionShape
<1>1. UNCHANGED <<workers, shutdown>>
  BY DEF Submit, CheckDuplicate, Mark, TrySend, BlockingSend, WokenByClose, CountReceived, lifecycle
<1>2. UNCHANGED written /\ (AllExited => AllExited')
  BY <1>1 DEF workers, AllExited
<1>3. CASE accepted' = Append(accepted, e) /\ sub' = [sub EXCEPT ![e] = "sent"]
           /\ sub[e] \in {"send", "full"} /\ UNCHANGED stats
  BY <1>1, <1>2, <1>3, CountedAccept
<1>4. CASE CountReceived(e)
  <2>1. /\ Sent' = Sent \ {e} /\ e \in Sent
        /\ stats'.received = stats.received + 1 /\ stats'.processed = stats.processed
        /\ UNCHANGED accepted
    BY <1>0, <1>4 DEF CountReceived, Sent, channel
  <2>2. Cardinality(Sent') = Cardinality(Sent) - 1
    BY <2>1, Finite, FS_RemoveElement
  <2>3. Cardinality(Sent) \in Nat /\ stats.received \in Nat
    BY <1>0, Finite, Cardinals
  <2>4. (stats.received + 1) + (Cardinality(Sent) - 1) = stats.received + Cardinality(Sent)
    BY <2>3
  <2> QED BY <1>1, <1>2, <2>1, <2>2, <2>4 DEF Counted, Handled
<1>5. CASE /\ UNCHANGED <<accepted, Sent>>
           /\ UNCHANGED <<stats.received, stats.processed>>
  BY <1>1, <1>2, <1>5, CountedSame
<1>6. \/ /\ accepted' = Append(accepted, e) /\ sub' = [sub EXCEPT ![e] = "sent"]
         /\ sub[e] \in {"send", "full"} /\ UNCHANGED stats
      \/ CountReceived(e)
      \/ /\ UNCHANGED accepted
         /\ UNCHANGED sub \/ \E x \in {"mark", "send", "full", "parked", "duplicate", "dropped"} :
               sub' = [sub EXCEPT ![e] = x] /\ sub[e] # "sent"
         /\ UNCHANGED <<stats.received, stats.processed>>
  <2>1. CASE CheckDuplicate(e)
    BY <1>0, <2>1 DEF CheckDuplicate, Verdicts, VerdictsIf, channel
  <2>2. CASE Mark(e) \/ CountReceived(e) \/ WokenByClose(e)
    BY <1>0, <2>2 DEF Mark, WokenByClose, channel, submission
  <2>3. CASE TrySend(e)
    BY <1>0, <2>3 DEF TrySend, Enqueue
  <2>4. CASE BlockingSend(e)
    BY <1>0, <2>4 DEF BlockingSend, Enqueue
  <2> QED BY <2>1, <2>2, <2>3, <2>4 DEF Submit
<1>7. ASSUME \/ UNCHANGED sub
             \/ \E x \in {"mark", "send", "full", "parked", "duplicate", "dropped"} :
                   sub' = [sub EXCEPT ![e] = x] /\ sub[e] # "sent"
      PROVE  UNCHANGED Sent
  BY <1>0, <1>7 DEF Sent
<1> QED
  BY <1>3, <1>4, <1>5, <1>6, <1>7

LEMMA CountedWorker ==
    ASSUME IInv, Counted, NEW w \in Workers, Worker(w) \/ Flushing(w)
    PROVE  Counted'
<1>0. /\ wpc \in [Workers -> {"select", "add", "added", "flush", "exited"}]
      /\ written \in [Workers -> Seq(Events)]
      /\ stats \in [{"received", "processed", "duplicated", "dropped"} -> Nat]
  BY DEF IInv, Shapes, SubmissionShape, WorkersShape
<1>1. UNCHANGED shutdown
  BY DEF Worker, Receive, StopReceiving, AddAppend, AddReturn, AddFlush, FinalFlush,
         Flushing, Fire, TimeoutFlush, WriteToPlugin, BatchDone, lifecycle
<1>2. AllExited => AllExited'
  <2>1. CASE BatchDone(w)
    <3>1. \A v \in Workers : wpc[v] = "exited" => batcher[v].batch = <<>>
      BY DEF IInv, Batching
    <3> QED BY <2>1, <3>1 DEF BatchDone, AllExited
  <2>2. CASE Worker(w)
    BY <1>0, <2>2 DEF AllExited, Worker, Receive, StopReceiving, AddAppend, AddReturn, AddFlush, FinalFlush
  <2>3. CASE Flushing(w) /\ ~BatchDone(w)
    BY <2>3 DEF AllExited, Flushing, Fire, TimeoutFlush, WriteToPlugin
  <2> QED BY <2>1, <2>2, <2>3
<1>3. CASE Receive(w) /\ sendq # <<>>
  <2>1. Head(sendq) \in Events /\ Head(sendq) \in Elements(sendq)
    BY <1>3, ElementsTail DEF IInv, Shapes, ChannelShape
  <2>2. PICK e \in Events : e = Head(sendq) /\ sub[e] = "parked"
    BY <2>1 DEF IInv, Accounted
  <2>3. /\ accepted' = Append(accepted, e) /\ sub' = [sub EXCEPT ![e] = "sent"]
        /\ UNCHANGED <<stats, written>>
    BY <1>3, <2>2 DEF Receive
  <2> QED BY <1>1, <1>2, <2>2, <2>3, CountedAccept
<1>4. CASE BatchDone(w)
  <2> DEFINE b == batcher[w].batch
  <2>1. /\ stats' = [stats EXCEPT !.processed = @ + Len(b)]
        /\ written' = [written EXCEPT ![w] = @ \o b] /\ UNCHANGED <<accepted, sub>>
    BY <1>4 DEF BatchDone, channel, submission
  <2>2. /\ b \in Seq(Events) /\ written[w] \in Seq(Events) /\ NoRepeats(b)
        /\ Elements(b) \cap Handled = {}
    <3>1. \A v \in Workers : Elements(b) \cap Elements(written[v]) = {}
      <4> TAKE v \in Workers
      <4>1. CASE v = w
        BY <4>1, BatchFacts
      <4>2. CASE v # w
        BY <4>2, BatchFacts DEF IInv, Accounted, Conservation
      <4> QED BY <4>1, <4>2
    <3> QED BY <3>1, BatchFacts DEF Handled
  <2> HIDE DEF b
  <2>3. Handled' = Handled \cup Elements(b)
    <3>1. Elements(written'[w]) = Elements(written[w]) \cup Elements(b)
      BY <1>0, <2>1, <2>2, ElementsConcat
    <3>2. \A v \in Workers \ {w} : written'[v] = written[v]
      BY <1>0, <2>1
    <3> QED BY <3>1, <3>2 DEF Handled
  <2>4. IsFiniteSet(Elements(b)) /\ Cardinality(Elements(b)) = Len(b) /\ Len(b) \in Nat
    BY <2>2, ElementsCounted, SequenceFacts
  <2>5. Cardinality(Handled') = Cardinality(Handled) + Len(b)
    <3>1. Cardinality(Handled \cup Elements(b))
            = Cardinality(Handled) + Cardinality(Elements(b)) - Cardinality(Handled \cap Elements(b))
      BY <2>4, Finite, FS_Union
    <3>2. Cardinality(Handled \cap Elements(b)) = 0 /\ Cardinality(Handled) \in Nat
      BY <2>2, Finite, Cardinals, FS_EmptySet
    <3> QED BY <2>3, <2>4, <3>1, <3>2
  <2>6. /\ stats'.processed = stats.processed + Len(b) /\ stats'.received = stats.received
        /\ Sent' = Sent
    BY <1>0, <2>1 DEF Sent
  <2> QED BY <1>1, <1>2, <2>1, <2>5, <2>6 DEF Counted
<1>5. CASE ~BatchDone(w) /\ ~(Receive(w) /\ sendq # <<>>)
  <2>1. UNCHANGED <<stats, sub, accepted, written>>
    <3>1. CASE Worker(w)
      BY <1>5, <3>1 DEF Worker, Receive, StopReceiving, AddAppend, AddReturn, AddFlush, FinalFlush,
             channel, submission
    <3>2. CASE Flushing(w)
      BY <1>5, <3>2 DEF Flushing, Fire, TimeoutFlush, WriteToPlugin, channel, submission
    <3> QED BY <3>1, <3>2
  <2> QED BY <1>1, <1>2, <2>1, CountedSame DEF Sent
<1> QED
  BY <1>3, <1>4, <1>5

LEMMA CountedNext == IInv /\ Counted /\ [Next]_vars => Counted'
<1> SUFFICES ASSUME IInv, Counted, [Next]_vars PROVE Counted'
  OBVIOUS
<1>1. ASSUME NEW k \in Keys, Expire(k) PROVE Counted'
  <2>1. UNCHANGED <<stats, sub, accepted, written, wpc, shutdown>>
    BY <1>1 DEF Expire, channel, workers, lifecycle
  <2> QED BY <2>1, CountedSame DEF Sent, AllExited
<1>2. ASSUME Shutdown PROVE Counted'
  <2>1. /\ UNCHANGED <<stats, sub, accepted, written, wpc>>
        /\ shutdown' = "nil" => AllExited
    BY <1>2 DEF Shutdown, CloseInput, ReturnDrained, ReturnTimeout, channel, workers, submission
  <2> QED BY <2>1 DEF Counted, Sent, AllExited, Handled
<1>3. ASSUME UNCHANGED vars PROVE Counted'
  <2>1. UNCHANGED <<stats, sub, accepted, written, wpc, shutdown>>
    BY <1>3 DEF vars
  <2> QED BY <2>1, CountedSame DEF Sent, AllExited
<1> QED
  BY <1>1, <1>2, <1>3, CountedSubmit, CountedWorker DEF Next, Stopped

\* After a nil Shutdown each plugin has dealt with everything that was ever
\* accepted, whatever the workers were doing when the channel was closed, and
\* the counters agree.
THEOREM DrainsOnShutdown == Spec => []DrainedShutdown
<1>1. IInv /\ Fanning /\ Counted => DrainedShutdown
  <2> SUFFICES ASSUME IInv, Fanning, Counted, shutdown = "nil"
               PROVE  /\ queue = <<>>
                      /\ \A p \in Plugins : Elements(accepted) \cap Accepts[p] \subseteq Dealt(p)
                      /\ stats.processed = stats.received + Cardinality(Sent)
    BY DEF DrainedShutdown, Dealt, Sent
  <2>1. AllExited
    BY DEF Counted
  <2>2. queue = <<>>
    BY <2>1, ProcessorAssumption DEF IInv, Draining, AllExited
  <2>3. ASSUME NEW w \in Workers PROVE Taken(w) = Elements(written[w])
    <3>1. /\ wpc[w] = "exited"
          /\ added[w] = written[w] \o <<>> \o <<>>
      BY <2>1 DEF AllExited, IInv, Batching
    <3>2. added[w] = written[w]
      BY <3>1, BatchFacts, SequenceFacts
    <3> QED BY <3>1, <3>2 DEF Taken
  <2>4. Elements(accepted) = Handled
    BY <2>2, <2>3, NoRepeatsEmpty DEF IInv, Accounted, Conservation, Handled
  <2>5. ASSUME NEW p \in Plugins PROVE Handled \cap Accepts[p] \subseteq Dealt(p)
    <3>1. Dealt(p) = Accepts[p] \cap UNION {Done(w, p) : w \in Workers}
      BY DEF Fanning
    <3> QED BY <3>1 DEF Handled, Done
  <2> QED BY <2>2, <2>4, <2>5 DEF Counted
<1> QED
  BY <1>1, CountedInit, CountedNext, FanningHolds, PTL DEF Spec
-----------------------------------------------------------------------------
(* Order.  The events a worker takes leave the channel in the order they     *)
(* came, its batches carry them on in that order, and the mutex lets one     *)
(* batch of a worker be written at a time.  Batches of different workers may *)
(* overtake one another.                                                     *)

\* An event that a worker has taken came before those left in the channel, and
\* before those the worker took later.
Arrival ==
    /\ \A x, y : Follows(queue, x, y) => Follows(accepted, x, y)
    /\ \A w \in Workers :
          /\ \A x, y : Follows(added[w], x, y) => Follows(accepted, x, y)
          /\ \A x \in Taken(w), y \in Elements(queue) : Follows(accepted, x, y)
          /\ wpc[w] = "add" => \A x \in Elements(added[w]) : Follows(accepted, x, hand[w])

\* A plugin has what it persisted of one worker in the order of that worker.
Keeping ==
    \A p \in Plugins, w \in Workers : \A x, y \in Elements(added[w]) :
        Follows(stored[p], x, y) => Follows(added[w], x, y)

LEMMA OrderInit == Init => Arrival /\ Keeping
<1> SUFFICES ASSUME Init PROVE Arrival /\ Keeping
  OBVIOUS
<1>1. /\ queue = <<>>
      /\ \A w \in Workers : added[w] = <<>> /\ wpc[w] = "select"
      /\ \A p \in Plugins : stored[p] = <<>>
  BY DEF Init
<1>2. \A x, y : ~Follows(<<>>, x, y)
  <2>1. DOMAIN <<>> = {}
    OBVIOUS
  <2> QED BY <2>1 DEF Follows
<1> QED
  BY <1>1, <1>2, NoRepeatsEmpty DEF Arrival, Keeping

LEMMA ArrivalSame ==
    ASSUME Arrival, UNCHANGED <<queue, accepted, added>>,
           \A w \in Workers : wpc'[w] = "add" => wpc[w] = "add" /\ hand'[w] = hand[w]
    PROVE  Arrival'
<1>1. \A w \in Workers : Taken(w)' \subseteq Taken(w)
  BY DEF Taken
<1> QED
  BY <1>1 DEF Arrival

\* The events on their way.
LEMMA OrderFacts ==
    ASSUME IInv
    PROVE  /\ queue \in Seq(Events) /\ accepted \in Seq(Events) /\ sendq \in Seq(Events)
           /\ added \in [Workers -> Seq(Events)] /\ NoRepeats(accepted)
           /\ Elements(queue) \subseteq Elements(accepted)
           /\ \A w \in Workers : Taken(w) \subseteq Elements(accepted)
           /\ \A w \in Workers : wpc[w] = "add" => hand[w] \in Events
BY DEF IInv, Shapes, ChannelShape, WorkersShape, Accounted, Conservation

LEMMA ArrivalEnqueue ==
    ASSUME IInv, Arrival, NEW e \in Events,
           queue' = Append(queue, e), accepted' = Append(accepted, e),
           UNCHANGED <<added, hand, wpc>>
    PROVE  Arrival'
<1>1. \A x, y : Follows(accepted', x, y)
                  <=> Follows(accepted, x, y) \/ (x \in Elements(accepted) /\ y = e)
  BY OrderFacts, FollowsAppend
<1>2. \A x, y : Follows(queue', x, y)
                  <=> Follows(queue, x, y) \/ (x \in Elements(queue) /\ y = e)
  BY OrderFacts, FollowsAppend
<1>3. Elements(queue') = Elements(queue) \cup {e}
  BY OrderFacts, ElementsAppend
<1>4. \A w \in Workers : Taken(w)' = Taken(w)
  BY DEF Taken
<1> QED
  BY <1>1, <1>2, <1>3, <1>4, OrderFacts DEF Arrival

LEMMA ArrivalReceive ==
    ASSUME IInv, Arrival, NEW w \in Workers, Receive(w)
    PROVE  Arrival'
<1>0. /\ wpc \in [Workers -> {"select", "add", "added", "flush", "exited"}]
      /\ hand \in [Workers -> Events \cup {None}]
  BY DEF IInv, Shapes, WorkersShape
<1>1. /\ queue # <<>> /\ UNCHANGED added /\ wpc[w] = "select" /\ wpc'[w] = "add"
      /\ hand'[w] = Head(queue)
      /\ \A v \in Workers \ {w} : UNCHANGED <<wpc[v], hand[v]>>
  BY <1>0 DEF Receive
<1>2. \/ queue' = Tail(queue) /\ accepted' = accepted
      \/ \E e \in Events : queue' = Append(Tail(queue), e) /\ accepted' = Append(accepted, e)
  <2>1. sendq # <<>> => Head(sendq) \in Events
    BY OrderFacts
  <2> QED BY <2>1 DEF Receive
<1>3. /\ Tail(queue) \in Seq(Events) /\ Head(queue) \in Events
      /\ Elements(queue) = {Head(queue)} \cup Elements(Tail(queue))
  BY <1>1, OrderFacts, ElementsTail
<1>4. /\ \A x, y : Follows(Tail(queue), x, y) => Follows(accepted, x, y)
      /\ \A y \in Elements(Tail(queue)) : Follows(accepted, Head(queue), y)
  BY <1>1, OrderFacts, FollowsTail DEF Arrival
<1> DEFINE Later ==
        /\ \A x, y : Follows(accepted, x, y) => Follows(accepted', x, y)
        /\ \A x, y : Follows(queue', x, y) => Follows(accepted', x, y)
        /\ \A x \in Elements(accepted), y \in Elements(queue') :
              y \in Elements(Tail(queue)) \/ Follows(accepted', x, y)
<1>5. Later
  <2>1. CASE queue' = Tail(queue) /\ accepted' = accepted
    BY <1>4, <2>1
  <2>2. ASSUME NEW e \in Events, queue' = Append(Tail(queue), e), accepted' = Append(accepted, e)
        PROVE  Later
    <3>1. \A x, y : Follows(accepted', x, y)
                      <=> Follows(accepted, x, y) \/ (x \in Elements(accepted) /\ y = e)
      BY <2>2, OrderFacts, FollowsAppend
    <3>2. \A x, y : Follows(queue', x, y)
                      <=> Follows(Tail(queue), x, y) \/ (x \in Elements(Tail(queue)) /\ y = e)
      BY <1>3, <2>2, FollowsAppend
    <3>3. Elements(queue') = Elements(Tail(queue)) \cup {e}
      <4>1. PICK t \in Seq(Events) : t = Tail(queue)
        BY <1>3, Zenon
      <4>2. Elements(Append(t, e)) = Elements(t) \cup {e}
        BY ElementsAppend
      <4> QED BY <2>2, <4>1, <4>2, Zenon
    <3>4. Elements(Tail(queue)) \subseteq Elements(accepted)
      BY <1>3, OrderFacts
    <3> QED BY <1>4, <3>1, <3>2, <3>3, <3>4
  <2> QED BY <1>2, <2>1, <2>2
<1>6. /\ Taken(w) = Elements(added[w]) /\ Taken(w)' = Taken(w) \cup {Head(queue)}
      /\ \A v \in Workers \ {w} : Taken(v)' = Taken(v)
  BY <1>1 DEF Taken
<1>7. ASSUME NEW v \in Workers, NEW x \in Taken(v)', NEW y \in Elements(queue')
      PROVE  Follows(accepted', x, y)
  <2>1. x \in Elements(accepted)
    BY <1>3, <1>6, <1>7, OrderFacts
  <2>2. CASE y \in Elements(Tail(queue))
    <3>1. CASE x \in Taken(v)
      BY <1>3, <1>5, <2>2, <3>1 DEF Arrival
    <3>2. CASE x = Head(queue)
      BY <1>4, <1>5, <2>2, <3>2
    <3> QED BY <1>6, <1>7, <3>1, <3>2
  <2> QED BY <1>5, <2>1, <2>2
<1>8. \A x \in Elements(added[w]) : Follows(accepted', x, hand'[w])
  BY <1>1, <1>3, <1>5, <1>6 DEF Arrival
<1>9. ASSUME NEW v \in Workers, wpc'[v] = "add"
      PROVE  \A x \in Elements(added'[v]) : Follows(accepted', x, hand'[v])
  BY <1>1, <1>5, <1>8, <1>9 DEF Arrival
<1>10. \A v \in Workers : \A x, y : Follows(added'[v], x, y) => Follows(accepted', x, y)
  BY <1>1, <1>5 DEF Arrival
<1> QED
  BY <1>5, <1>7, <1>9, <1>10 DEF Arrival

LEMMA ArrivalAppend ==
    ASSUME IInv, Arrival, NEW w \in Workers, AddAppend(w)
    PROVE  Arrival'
<1>0. wpc \in [Workers -> {"select", "add", "added", "flush", "exited"}]
  BY DEF IInv, Shapes, WorkersShape
<1>1. /\ wpc[w] = "add" /\ wpc'[w] = "added" /\ UNCHANGED <<hand, queue, accepted>>
      /\ added'[w] = Append(added[w], hand[w])
      /\ \A v \in Workers \ {w} : UNCHANGED <<wpc[v], added[v]>>
  BY <1>0, OrderFacts DEF AddAppend, channel
<1>2. \A x, y : Follows(added'[w], x, y)
                  <=> Follows(added[w], x, y) \/ (x \in Elements(added[w]) /\ y = hand[w])
  BY <1>1, OrderFacts, FollowsAppend
<1>3. Elements(added'[w]) = Elements(added[w]) \cup {hand[w]}
  BY <1>1, OrderFacts, ElementsAppend
<1>4. \A v \in Workers : Taken(v)' = Taken(v)
  BY <1>1, <1>3 DEF Taken
<1>5. \A v \in Workers : \A x, y : Follows(added'[v], x, y) => Follows(accepted, x, y)
  BY <1>1, <1>2 DEF Arrival
<1> QED
  BY <1>1, <1>4, <1>5 DEF Arrival

LEMMA ArrivalNext == IInv /\ Arrival /\ [Next]_vars => Arrival'
<1> SUFFICES ASSUME IInv, Arrival, [Next]_vars PROVE Arrival'
  OBVIOUS
<1>0. /\ wpc \in [Workers -> {"select", "add", "added", "flush", "exited"}]
      /\ hand \in [Workers -> Events \cup {None}]
  BY DEF IInv, Shapes, WorkersShape
<1>1. ASSUME UNCHANGED <<queue, accepted, added, wpc, hand>> PROVE Arrival'
  BY <1>1, ArrivalSame
<1>2. ASSUME NEW e \in Events, Submit(e) PROVE Arrival'
  <2>1. UNCHANGED <<added, wpc, hand>>
    BY <1>2 DEF Submit, CheckDuplicate, Mark, TrySend, BlockingSend, WokenByClose, CountReceived, workers
  <2>2. UNCHANGED <<queue, accepted>> \/ Enqueue(e)
    BY <1>2 DEF Submit, CheckDuplicate, Mark, TrySend, BlockingSend, WokenByClose, CountReceived, channel
  <2> QED BY <1>1, <2>1, <2>2, ArrivalEnqueue DEF Enqueue
<1>3. ASSUME NEW w \in Workers, Worker(w) PROVE Arrival'
  <2>1. CASE Receive(w)
    BY <2>1, ArrivalReceive
  <2>2. CASE AddAppend(w)
    BY <2>2, ArrivalAppend
  <2>3. CASE StopReceiving(w) \/ AddReturn(w) \/ AddFlush(w) \/ FinalFlush(w)
    <3>1. UNCHANGED <<queue, accepted, added>>
      BY <2>3 DEF StopReceiving, AddReturn, AddFlush, FinalFlush, channel
    <3>2. /\ wpc'[w] = "add" => wpc[w] = "add" /\ UNCHANGED hand
          /\ \A v \in Workers \ {w} : UNCHANGED <<wpc[v], hand[v]>>
      BY <1>0, <2>3 DEF StopReceiving, AddReturn, AddFlush, FinalFlush
    <3> QED BY <3>1, <3>2, ArrivalSame
  <2> QED BY <1>3, <2>1, <2>2, <2>3 DEF Worker
<1>4. ASSUME NEW w \in Workers, Flushing(w) PROVE Arrival'
  <2>1. CASE BatchDone(w)
    <3>1. batcher[w].lock = w => wpc[w] # "add"
      BY DEF IInv, Batching
    <3>2. UNCHANGED <<queue, accepted, added>>
      BY <2>1 DEF BatchDone, channel
    <3>3. /\ wpc'[w] = "add" => wpc[w] = "add" /\ UNCHANGED hand
          /\ \A v \in Workers \ {w} : UNCHANGED <<wpc[v], hand[v]>>
      BY <1>0, <2>1, <3>1 DEF BatchDone
    <3> QED BY <3>2, <3>3, ArrivalSame
  <2>2. CASE ~BatchDone(w)
    <3>1. UNCHANGED <<queue, accepted, added, wpc, hand>>
      BY <1>4, <2>2 DEF Flushing, Fire, TimeoutFlush, WriteToPlugin, channel
    <3> QED BY <1>1, <3>1
  <2> QED BY <2>1, <2>2
<1>5. ASSUME \/ \E k \in Keys : Expire(k)
             \/ Shutdown
             \/ UNCHANGED vars
      PROVE  Arrival'
  <2>1. UNCHANGED <<queue, accepted, added, wpc, hand>>
    BY <1>5 DEF Expire, Shutdown, CloseInput, ReturnDrained, ReturnTimeout, vars, channel, workers
  <2> QED BY <1>1, <2>1
<1> QED
  BY <1>2, <1>3, <1>4, <1>5 DEF Next, Stopped

\* What a plugin persists of a batch comes after what it has of the batches
\* that the worker wrote before, and in the order of the batch.
LEMMA KeepingWrite ==
    ASSUME IInv, Fanning, Keeping, NEW w \in Workers, NEW p \in Plugins, WriteToPlugin(w, p)
    PROVE  Keeping'
<1> DEFINE b == batcher[w].batch
           filtered == Among(Accepts[p], b)
<1>1. PICK S : stored' = [stored EXCEPT ![p] = @ \o Persisted(S, filtered)]
  BY DEF WriteToPlugin
<1>2. p \in todo[w] /\ UNCHANGED added
  BY DEF WriteToPlugin
<1>3. b \in Seq(Events)
  BY BatchFacts
<1> HIDE DEF b
<1>4. /\ filtered \in Seq(Events) /\ Elements(filtered) \subseteq Elements(b)
      /\ \A x, y : Follows(filtered, x, y) => Follows(b, x, y)
  BY <1>3, AmongFacts, AmongOrder
<1> HIDE DEF filtered
<1> DEFINE kept == Persisted(S, filtered)
<1>5. /\ kept \in Seq(Events) /\ Elements(kept) \subseteq Elements(b)
      /\ \A x, y : Follows(kept, x, y) => Follows(b, x, y)
  BY <1>4, AmongFacts, AmongOrder DEF Persisted
<1>6. stored \in [Plugins -> Seq(Events)]
  BY DEF Fanning
<1>7. /\ stored[p] \in Seq(Events) /\ stored'[p] = stored[p] \o kept
      /\ \A q \in Plugins \ {p} : stored'[q] = stored[q]
  BY <1>1, <1>6
<1> HIDE DEF kept
<1>8. \A x, y : Follows(stored'[p], x, y)
                  <=> \/ Follows(stored[p], x, y) \/ Follows(kept, x, y)
                      \/ x \in Elements(stored[p]) /\ y \in Elements(kept)
  BY <1>5, <1>7, FollowsConcat
<1>9. /\ \A x, y : Follows(b, x, y) => Follows(added[w], x, y)
      /\ \A x \in Elements(written[w]), y \in Elements(b) : Follows(added[w], x, y)
  <2>1. /\ written[w] \in Seq(Events) /\ batcher[w].events \in Seq(Events)
        /\ added[w] = written[w] \o b \o batcher[w].events
    BY DEF IInv, Shapes, WorkersShape, BatcherShape, Batching, b
  <2>2. written[w] \o b \in Seq(Events)
    BY <1>3, <2>1
  <2>3. \A x, y : Follows(written[w] \o b, x, y) => Follows(added[w], x, y)
    BY <2>1, <2>2, FollowsConcat
  <2>4. \A x, y : \/ Follows(b, x, y)
                  \/ x \in Elements(written[w]) /\ y \in Elements(b)
                  => Follows(written[w] \o b, x, y)
    BY <1>3, <2>1, FollowsConcat
  <2> QED BY <2>3, <2>4
<1>10. ASSUME NEW x \in Elements(added[w]), x \in Elements(stored[p]) PROVE x \in Elements(written[w])
  <2>1. Dealt(p) = Accepts[p] \cap UNION {Done(v, p) : v \in Workers}
    BY DEF Fanning
  <2>2. PICK v \in Workers : x \in Done(v, p)
    BY <1>10, <2>1 DEF Dealt
  <2>3. x \in Taken(v) /\ x \in Taken(w)
    BY <2>2, BatchFacts DEF Done, Taken
  <2>4. v = w
    BY <2>3 DEF IInv, Accounted, Conservation
  <2> QED BY <1>2, <2>2, <2>4 DEF Done
<1>11. ASSUME NEW v \in Workers, NEW x \in Elements(added[v]), NEW y \in Elements(added[v]),
              Follows(stored'[p], x, y)
       PROVE  Follows(added[v], x, y)
  <2>1. CASE v = w
    BY <1>5, <1>8, <1>9, <1>10, <1>11, <2>1 DEF Keeping
  <2>2. CASE v # w
    <3>1. y \notin Elements(kept)
      <4>1. y \in Taken(v) /\ Elements(kept) \subseteq Taken(w)
        BY <1>5, BatchFacts DEF Taken, b
      <4>2. Taken(v) \cap Taken(w) = {}
        BY <2>2 DEF IInv, Accounted, Conservation
      <4> QED BY <4>1, <4>2
    <3>2. ~Follows(kept, x, y)
      BY <1>5, <3>1, FollowsElements
    <3> QED BY <1>8, <1>11, <3>1, <3>2 DEF Keeping
  <2> QED BY <2>1, <2>2
<1> QED
  BY <1>2, <1>7, <1>11 DEF Keeping

\* What a plugin is done with was buffered by the worker.
LEMMA DoneAdded ==
    ASSUME IInv, NEW w \in Workers, NEW p \in Plugins
    PROVE  Done(w, p) \subseteq Elements(added[w])
<1>1. /\ written[w] \in Seq(Events) /\ batcher[w].batch \in Seq(Events)
      /\ batcher[w].events \in Seq(Events)
  BY DEF IInv, Shapes, WorkersShape, BatcherShape
<1>2. written[w] \o batcher[w].batch \in Seq(Events)
  BY <1>1
<1>3. PICK s \in Seq(Events) : s = written[w] \o batcher[w].batch
  BY <1>2, Zenon
<1>4. Elements(s) = Elements(written[w]) \cup Elements(batcher[w].batch)
  BY <1>1, <1>3, ElementsConcat
<1>5. added[w] = s \o batcher[w].events
  BY <1>3 DEF IInv, Batching
<1>6. Elements(added[w]) = Elements(s) \cup Elements(batcher[w].events)
  BY <1>1, <1>5, ElementsConcat
<1> QED
  BY <1>4, <1>6 DEF Done

\* No plugin has the event that a worker is about to buffer.
LEMMA KeepingAppend ==
    ASSUME IInv, Fanning, Keeping, NEW w \in Workers, AddAppend(w)
    PROVE  Keeping'
<1> DEFINE e == hand[w]
<1>1. /\ wpc[w] = "add" /\ UNCHANGED stored /\ e \in Events
      /\ added'[w] = Append(added[w], e)
      /\ \A v \in Workers \ {w} : added'[v] = added[v]
  BY OrderFacts DEF AddAppend, storage
<1>2. e \notin Elements(added[w]) /\ e \in Taken(w)
  BY <1>1 DEF IInv, Accounted, Taken
<1> HIDE DEF e
<1>3. \A x, y : Follows(added'[w], x, y)
                  <=> Follows(added[w], x, y) \/ (x \in Elements(added[w]) /\ y = e)
  BY <1>1, OrderFacts, FollowsAppend
<1>4. Elements(added'[w]) = Elements(added[w]) \cup {e}
  BY <1>1, OrderFacts, ElementsAppend
<1>5. ASSUME NEW p \in Plugins PROVE e \notin Elements(stored[p])
  <2> SUFFICES ASSUME e \in Elements(stored[p]) PROVE FALSE
    OBVIOUS
  <2>1. Dealt(p) = Accepts[p] \cap UNION {Done(v, p) : v \in Workers}
    BY DEF Fanning
  <2>2. PICK v \in Workers : e \in Done(v, p)
    BY <2>1 DEF Dealt
  <2>3. e \in Elements(added[v])
    BY <2>2, DoneAdded
  <2>4. e \in Taken(v)
    BY <2>3 DEF Taken
  <2>5. v = w
    BY <1>2, <2>4 DEF IInv, Accounted, Conservation
  <2> QED BY <1>2, <2>3, <2>5
<1>6. ASSUME NEW p \in Plugins, NEW x \in Elements(added'[w]), NEW y \in Elements(added'[w]),
             Follows(stored[p], x, y)
      PROVE  Follows(added'[w], x, y)
  <2>1. x # e /\ y # e
    BY <1>5, <1>6, FollowsElements DEF Fanning
  <2> QED BY <1>3, <1>4, <1>6, <2>1 DEF Keeping
<1> QED
  BY <1>1, <1>6 DEF Keeping

LEMMA KeepingNext == IInv /\ Fanning /\ Keeping /\ [Next]_vars => Keeping'
<1> SUFFICES ASSUME IInv, Fanning, Keeping, [Next]_vars PROVE Keeping'
  OBVIOUS
<1>1. ASSUME UNCHANGED <<added, stored>> PROVE Keeping'
  BY <1>1 DEF Keeping
<1>2. ASSUME NEW e \in Events, Submit(e) PROVE Keeping'
  <2>1. UNCHANGED <<workers, storage>>
    BY <1>2 DEF Submit, CheckDuplicate, Mark, TrySend, BlockingSend, WokenByClose, CountReceived
  <2> QED BY <1>1, <2>1 DEF workers, storage
<1>3. ASSUME NEW w \in Workers, Worker(w) PROVE Keeping'
  <2>1. CASE AddAppend(w)
    BY <2>1, KeepingAppend
  <2>2. CASE ~AddAppend(w)
    <3>1. UNCHANGED <<added, stored>>
      BY <1>3, <2>2 DEF Worker, Receive, StopReceiving, AddReturn, AddFlush, FinalFlush, storage
    <3> QED BY <1>1, <3>1
  <2> QED BY <2>1, <2>2
<1>4. ASSUME NEW w \in Workers, Flushing(w) PROVE Keeping'
  <2>1. CASE \E p \in Plugins : WriteToPlugin(w, p)
    BY <2>1, KeepingWrite
  <2>2. CASE ~ \E p \in Plugins : WriteToPlugin(w, p)
    <3>1. UNCHANGED <<added, stored>>
      BY <1>4, <2>2 DEF Flushing, Fire, TimeoutFlush, BatchDone, storage
    <3> QED BY <1>1, <3>1
  <2> QED BY <2>1, <2>2
<1>5. ASSUME \/ \E k \in Keys : Expire(k)
             \/ Shutdown
             \/ UNCHANGED vars
      PROVE  Keeping'
  <2>1. UNCHANGED <<added, stored>>
    BY <1>5 DEF Expire, Shutdown, CloseInput, ReturnDrained, ReturnTimeout, vars, workers, storage
  <2> QED BY <1>1, <2>1
<1> QED
  BY <1>2, <1>3, <1>4, <1>5 DEF Next, Stopped

LEMMA OrderHolds == Spec => [](IInv /\ Fanning /\ Arrival /\ Keeping)
BY OrderInit, ArrivalNext, KeepingNext, FanningHolds, PTL DEF Spec

\* Whatever the timers, the sizes and the failing writes do, batches of one
\* worker do not overtake one another on the way to a plugin.
THEOREM WorkersKeepOrder == Spec => []PerWorkerOrder
<1>1. Arrival /\ Keeping => PerWorkerOrder
  BY DEF Arrival, Keeping, PerWorkerOrder
<1> QED
  BY <1>1, OrderHolds, PTL

\* With one worker, and only then, this is the order per user that the Kafka
\* plugin partitions for.
THEOREM OneWorkerKeepsUsers ==
    ASSUME NEW w, Workers = {w}
    PROVE  Spec => []PerUserOrder
<1>1. IInv /\ Fanning /\ Arrival /\ Keeping => PerUserOrder
  <2> SUFFICES ASSUME IInv, Fanning, Arrival, Keeping, NEW p \in Plugins,
                      NEW i \in DOMAIN stored[p], NEW j \in DOMAIN stored[p],
                      NEW m \in DOMAIN accepted, NEW n \in DOMAIN accepted,
                      i < j, accepted[m] = stored[p][i], accepted[n] = stored[p][j]
               PROVE  m < n
    BY DEF PerUserOrder
  <2>1. Follows(stored[p], accepted[m], accepted[n])
    BY DEF Follows
  <2>2. Elements(stored[p]) \subseteq Elements(added[w])
    <3>1. Dealt(p) = Accepts[p] \cap UNION {Done(v, p) : v \in Workers}
      BY DEF Fanning
    <3> QED BY <3>1, DoneAdded DEF Dealt
  <2>3. accepted[m] \in Elements(added[w]) /\ accepted[n] \in Elements(added[w])
    BY <2>2 DEF Elements
  <2>4. Follows(accepted, accepted[m], accepted[n])
    BY <2>1, <2>3 DEF Keeping, Arrival
  <2> QED BY <2>4, OrderFacts, FollowsOnce
<1> QED
  BY <1>1, OrderHolds, PTL
=============================================================================
