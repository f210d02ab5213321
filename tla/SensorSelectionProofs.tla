----------------------- MODULE SensorSelectionProofs -----------------------
(***************************************************************************)
(* What FlattenSeq and Keeping return, for every list: induction over the  *)
(* length of the list by its least counterexample.                         *)
(***************************************************************************)
EXTENDS SensorSelection, WellFoundedInduction, SequenceTheorems, TLAPS

LEMMA NatMin ==
    ASSUME NEW T \in SUBSET Nat, T # {}
    PROVE  \E x \in T : \A y \in T : x <= y
<1>1. PICK x \in T : \A y \in T : ~(<<y, x>> \in OpToRel(<, Nat))
  BY NatLessThanWellFounded, WFMin
<1>2. ASSUME NEW y \in T
      PROVE  x <= y
  <2>1. x \in Nat /\ y \in Nat
    OBVIOUS
  <2>2. y < x => <<y, x>> \in OpToRel(<, Nat)
    BY <2>1 DEF OpToRel
  <2>3. ~(y < x)
    BY <1>1, <2>2
  <2> QED BY <2>1, <2>3
<1> QED BY <1>2

\* A set of positions that has the first one, and the next one of each, has all.
LEMMA UpTo ==
    ASSUME NEW n \in Nat, NEW G, 1 \in G,
           \A i \in 1..n : i \in G /\ i + 1 <= n => i + 1 \in G
    PROVE  \A i \in 1..n : i \in G
<1> SUFFICES ASSUME NEW j \in 1..n, j \notin G PROVE FALSE
  OBVIOUS
<1> DEFINE T == {i \in 1..n : i \notin G}
<1>1. T \in SUBSET Nat /\ T # {}
  OBVIOUS
<1>2. PICK x \in T : \A y \in T : x <= y
  BY <1>1, NatMin
<1>3. x \in 1..n /\ x \notin G /\ x # 1
  OBVIOUS
<1>4. x - 1 \in 1..n /\ (x - 1) + 1 = x /\ x - 1 < x
  BY <1>3
<1>5. x - 1 \in G
  <2> SUFFICES ASSUME x - 1 \notin G PROVE FALSE
    OBVIOUS
  <2>1. x - 1 \in T
    BY <1>4
  <2> HIDE DEF T
  <2>2. x <= x - 1
    BY <1>2, <2>1
  <2> QED BY <1>3, <2>2
<1> QED BY <1>3, <1>4, <1>5

-----------------------------------------------------------------------------
(* FlattenSeq *)

\* The first i of the lists ss, one behind the other: f has them for all i <= n.
Flattens(ss, f, n) ==
    f = [i \in 1..n |-> IF i = 1 THEN ss[i] ELSE f[i - 1] \o ss[i]]

LEMMA FlatteningExists ==
    ASSUME NEW ss, NEW n \in Nat
    PROVE  \A m \in 1..n : \E f : Flattens(ss, f, m)
<1> DEFINE G == {m \in 1..n : \E f : Flattens(ss, f, m)}
<1>1. CASE n = 0
  BY <1>1
<1>2. CASE n # 0
  <2>1. 1 \in G
    <3>1. 1 \in 1..n
      BY <1>2
    <3>2. Flattens(ss, [i \in 1..1 |-> ss[i]], 1)
      <4>1. \A i \in 1..1 : i = 1
        OBVIOUS
      <4> QED BY <4>1 DEF Flattens
    <3> QED BY <3>1, <3>2
  <2>2. ASSUME NEW m \in 1..n, m \in G, m + 1 <= n
        PROVE  m + 1 \in G
    <3>1. PICK f : f = [i \in 1..m |-> IF i = 1 THEN ss[i] ELSE f[i - 1] \o ss[i]]
      BY <2>2 DEF Flattens
    <3> DEFINE g == [i \in 1..(m + 1) |-> IF i = m + 1 THEN f[m] \o ss[i] ELSE f[i]]
    <3>2. ASSUME NEW i \in 1..(m + 1)
          PROVE  g[i] = IF i = 1 THEN ss[i] ELSE g[i - 1] \o ss[i]
      <4>1. CASE i = m + 1
        <5>1. i # 1 /\ i - 1 = m /\ m \in 1..(m + 1) /\ m # m + 1
          BY <4>1
        <5>2. g[i] = f[m] \o ss[i] /\ g[m] = f[m]
          BY <4>1, <5>1
        <5> HIDE DEF g
        <5> QED BY <5>1, <5>2
      <4>2. CASE i # m + 1
        <5>1. i \in 1..m /\ (i # 1 => i - 1 \in 1..(m + 1) /\ i - 1 # m + 1)
          BY <4>2
        <5>2. f[i] = IF i = 1 THEN ss[i] ELSE f[i - 1] \o ss[i]
          BY <3>1, <5>1
        <5>3. g[i] = f[i] /\ (i # 1 => g[i - 1] = f[i - 1])
          BY <4>2, <5>1
        <5> HIDE DEF g
        <5> QED BY <5>2, <5>3
      <4> QED BY <4>1, <4>2
    <3>3. g = [i \in 1..(m + 1) |-> IF i = 1 THEN ss[i] ELSE g[i - 1] \o ss[i]]
      <4>1. g = [i \in 1..(m + 1) |-> g[i]]
        OBVIOUS
      <4> HIDE DEF g
      <4> QED BY <3>2, <4>1
    <3>4. \E h : Flattens(ss, h, m + 1)
      BY <3>3 DEF Flattens
    <3> QED BY <2>2, <3>4
  <2> HIDE DEF G
  <2>3. \A m \in 1..n : m \in G
    BY <2>1, <2>2, UpTo
  <2> QED BY <2>3 DEF G
<1> QED BY <1>1, <1>2

LEMMA FlattenSeqDef ==
    ASSUME NEW ss, Len(ss) \in Nat, Len(ss) # 0
    PROVE  \E f : Flattens(ss, f, Len(ss)) /\ FlattenSeq(ss) = f[Len(ss)]
<1>1. Len(ss) \in 1..Len(ss)
  OBVIOUS
<1>2. \E f : Flattens(ss, f, Len(ss))
  BY <1>1, FlatteningExists
<1> DEFINE c == CHOOSE f : f = [i \in 1..Len(ss) |-> IF i = 1 THEN ss[i] ELSE f[i - 1] \o ss[i]]
<1>3. c = [i \in 1..Len(ss) |-> IF i = 1 THEN ss[i] ELSE c[i - 1] \o ss[i]]
  BY <1>2 DEF Flattens
<1>4. FlattenSeq(ss) = c[Len(ss)]
  BY DEF FlattenSeq
<1> HIDE DEF c
<1> QED BY <1>3, <1>4 DEF Flattens

LEMMA Concatenated ==
    ASSUME NEW S, NEW s \in Seq(S), NEW t \in Seq(S)
    PROVE  /\ s \o t \in Seq(S)
           /\ Len(s \o t) = Len(s) + Len(t)
           /\ ToSet(s \o t) = ToSet(s) \cup ToSet(t)
<1>1. PICK n \in Nat, m \in Nat : n = Len(s) /\ m = Len(t)
  OBVIOUS
<1>2. /\ s \o t \in Seq(S) /\ Len(s \o t) = n + m
      /\ \A i \in 1..(n + m) : (s \o t)[i] = IF i <= n THEN s[i] ELSE t[i - n]
  BY <1>1, ConcatProperties
<1>3. PICK u : u = s \o t
  OBVIOUS
<1>4. DOMAIN s = 1..n /\ DOMAIN t = 1..m /\ DOMAIN u = 1..(n + m)
  BY <1>1, <1>2, <1>3
<1>5. ASSUME NEW i \in 1..(n + m)
      PROVE  \/ \E k \in 1..n : u[i] = s[k]
             \/ \E k \in 1..m : u[i] = t[k]
  <2>1. CASE i <= n
    BY <1>2, <1>3, <2>1
  <2>2. CASE i > n
    <3>1. i - n \in 1..m /\ ~(i <= n)
      BY <2>2
    <3> QED BY <1>2, <1>3, <3>1
  <2> QED BY <2>1, <2>2
<1>6. ASSUME NEW i \in 1..n
      PROVE  \E k \in 1..(n + m) : u[k] = s[i]
  BY <1>2, <1>3
<1>7. ASSUME NEW i \in 1..m
      PROVE  \E k \in 1..(n + m) : u[k] = t[i]
  <2>1. n + i \in 1..(n + m) /\ ~(n + i <= n) /\ (n + i) - n = i
    OBVIOUS
  <2>2. u[n + i] = t[i]
    BY <1>2, <1>3, <2>1
  <2> QED BY <2>1, <2>2
<1>8. /\ ToSet(u) = {u[i] : i \in 1..(n + m)}
      /\ ToSet(s) = {s[i] : i \in 1..n} /\ ToSet(t) = {t[i] : i \in 1..m}
  BY <1>4 DEF ToSet
<1>9. ToSet(u) \subseteq ToSet(s) \cup ToSet(t)
  BY ONLY <1>5, <1>8
<1>10. ToSet(s) \subseteq ToSet(u)
  <2>1. \A i \in 1..n : s[i] \in ToSet(u)
    BY ONLY <1>6, <1>8
  <2> QED BY ONLY <1>8, <2>1
<1>11. ToSet(t) \subseteq ToSet(u)
  <2>1. \A i \in 1..m : t[i] \in ToSet(u)
    BY ONLY <1>7, <1>8
  <2> QED BY ONLY <1>8, <2>1
<1> QED BY <1>1, <1>2, <1>3, <1>9, <1>10, <1>11

\* FlattenSeq has what its lists have, and no more of them than there is.
LEMMA Flattened ==
    ASSUME NEW S, NEW ss \in Seq(Seq(S))
    PROVE  /\ FlattenSeq(ss) \in Seq(S)
           /\ ToSet(FlattenSeq(ss)) = UNION {ToSet(ss[i]) : i \in 1..Len(ss)}
           /\ (\A i \in 1..Len(ss) : Len(ss[i]) <= 1) => Len(FlattenSeq(ss)) <= Len(ss)
<1> DEFINE n == Len(ss)
<1>1. n \in Nat /\ \A i \in 1..n : ss[i] \in Seq(S)
  OBVIOUS
<1>2. CASE n = 0
  <2>1. ss = <<>> /\ FlattenSeq(ss) = ss
    BY <1>2 DEF FlattenSeq
  <2>2. <<>> \in Seq(S) /\ Len(<<>>) = 0 /\ 1..0 = {} /\ DOMAIN <<>> = {}
    OBVIOUS
  <2>3. ToSet(<<>>) = {}
    BY <2>2 DEF ToSet
  <2>4. UNION {ToSet(ss[i]) : i \in 1..n} = {}
    BY <1>2, <2>2
  <2>5. FlattenSeq(ss) = <<>>
    BY <2>1
  <2>6. FlattenSeq(ss) \in Seq(S) /\ Len(FlattenSeq(ss)) <= Len(ss)
    BY <1>2, <2>2, <2>5
  <2>7. ToSet(FlattenSeq(ss)) = UNION {ToSet(ss[i]) : i \in 1..Len(ss)}
    BY <2>3, <2>4, <2>5
  <2> QED BY <2>6, <2>7
<1>3. CASE n # 0
  <2>1. PICK f : Flattens(ss, f, n) /\ FlattenSeq(ss) = f[n]
    BY <1>1, <1>3, FlattenSeqDef
  <2>2. \A i \in 1..n : f[i] = IF i = 1 THEN ss[i] ELSE f[i - 1] \o ss[i]
    BY <2>1 DEF Flattens
  <2> DEFINE Has(i) == /\ f[i] \in Seq(S)
                       /\ \A x : x \in ToSet(f[i]) <=> \E k \in 1..i : x \in ToSet(ss[k])
                       /\ (\A k \in 1..n : Len(ss[k]) <= 1) => Len(f[i]) <= i
             G == {i \in 1..n : Has(i)}
  <2>3. 1 \in G
    <3>1. 1 \in 1..n /\ 1..1 = {1}
      BY <1>1, <1>3
    <3>2. f[1] = ss[1]
      BY <2>2, <3>1
    <3> QED BY <1>1, <3>1, <3>2
  <2>4. ASSUME NEW i \in 1..n, i \in G, i + 1 <= n
        PROVE  i + 1 \in G
    <3>1. i + 1 \in 1..n /\ i + 1 # 1 /\ (i + 1) - 1 = i
      BY <1>1, <2>4
    <3>2. f[i + 1] = f[i] \o ss[i + 1] /\ f[i] \in Seq(S) /\ ss[i + 1] \in Seq(S)
      BY <1>1, <2>2, <2>4, <3>1
    <3>3. /\ f[i + 1] \in Seq(S)
          /\ Len(f[i + 1]) = Len(f[i]) + Len(ss[i + 1])
          /\ ToSet(f[i + 1]) = ToSet(f[i]) \cup ToSet(ss[i + 1])
      BY <3>2, Concatenated
    <3>4. ASSUME NEW x
          PROVE  x \in ToSet(f[i + 1]) <=> \E k \in 1..(i + 1) : x \in ToSet(ss[k])
      <4>1. x \in ToSet(f[i]) <=> \E k \in 1..i : x \in ToSet(ss[k])
        BY <2>4
      <4>2. \A k : k \in 1..(i + 1) <=> k \in 1..i \/ k = i + 1
        BY <3>1
      <4> QED BY ONLY <3>3, <4>1, <4>2
    <3>5. ASSUME \A k \in 1..n : Len(ss[k]) <= 1
          PROVE  Len(f[i + 1]) <= i + 1
      <4>1. Len(f[i]) <= i /\ Len(ss[i + 1]) <= 1
        BY <2>4, <3>1, <3>5
      <4>2. Len(f[i]) \in Nat /\ Len(ss[i + 1]) \in Nat /\ i \in Nat
        BY <3>2
      <4>3. Len(f[i + 1]) = Len(f[i]) + Len(ss[i + 1])
        BY <3>3
      <4>4. PICK a \in Nat, b \in Nat : a = Len(f[i]) /\ b = Len(ss[i + 1])
        BY <4>2
      <4>5. a <= i /\ b <= 1 /\ Len(f[i + 1]) = a + b
        BY <4>1, <4>3, <4>4
      <4>6. a + b <= i + 1
        BY <4>2, <4>5
      <4> QED BY <4>5, <4>6
    <3> QED BY <3>1, <3>3, <3>4, <3>5
  <2> HIDE DEF G
  <2>5. n \in G
    <3>1. \A i \in 1..n : i \in G
      BY <1>1, <2>3, <2>4, UpTo
    <3> QED BY <1>1, <1>3, <3>1
  <2>6. Has(n)
    BY <2>5 DEF G
  <2>7. ToSet(f[n]) = UNION {ToSet(ss[i]) : i \in 1..n}
    BY <2>6
  <2> QED BY <2>1, <2>6, <2>7
<1> QED BY <1>2, <1>3

\* What a list comprehension keeps.
LEMMA Kept ==
    ASSUME NEW T, NEW s \in Seq(T), NEW S
    PROVE  /\ Keeping(s, S) \in Seq(T)
           /\ ToSet(Keeping(s, S)) = ToSet(s) \cap S
           /\ Len(Keeping(s, S)) <= Len(s)
<1> DEFINE ss == [i \in DOMAIN s |-> IF s[i] \in S THEN <<s[i]>> ELSE <<>>]
<1>1. Len(s) \in Nat /\ DOMAIN s = 1..Len(s) /\ \A i \in 1..Len(s) : s[i] \in T
  OBVIOUS
<1>2. \A i \in 1..Len(s) :
        /\ ss[i] \in Seq(T) /\ Len(ss[i]) <= 1
        /\ ToSet(ss[i]) = {s[i]} \cap S
  <2> TAKE i \in 1..Len(s)
  <2>1. ss[i] = IF s[i] \in S THEN <<s[i]>> ELSE <<>>
    BY <1>1
  <2>2. /\ <<s[i]>> \in Seq(T) /\ Len(<<s[i]>>) = 1 /\ DOMAIN <<s[i]>> = {1} /\ <<s[i]>>[1] = s[i]
        /\ <<>> \in Seq(T) /\ Len(<<>>) = 0 /\ DOMAIN <<>> = {}
    BY <1>1
  <2>3. ToSet(<<s[i]>>) = {s[i]} /\ ToSet(<<>>) = {}
    BY <2>2 DEF ToSet
  <2> HIDE DEF ss
  <2> QED BY <2>1, <2>2, <2>3
<1>3. ss \in Seq(Seq(T)) /\ Len(ss) = Len(s)
  <2>1. ss \in [1..Len(s) -> Seq(T)]
    BY <1>1, <1>2
  <2> HIDE DEF ss
  <2> QED BY <1>1, <2>1
<1>4. Keeping(s, S) = FlattenSeq(ss)
  BY DEF Keeping
<1> HIDE DEF ss
<1>5. /\ FlattenSeq(ss) \in Seq(T)
      /\ ToSet(FlattenSeq(ss)) = UNION {ToSet(ss[i]) : i \in 1..Len(s)}
      /\ Len(FlattenSeq(ss)) <= Len(s)
  BY <1>2, <1>3, Flattened
<1>6. UNION {ToSet(ss[i]) : i \in 1..Len(s)} = ToSet(s) \cap S
  <2>1. ToSet(s) = {s[i] : i \in 1..Len(s)}
    BY <1>1 DEF ToSet
  <2> QED BY ONLY <1>2, <2>1
<1> QED BY <1>4, <1>5, <1>6

LEMMA TargetsKept ==
    ASSUME NEW T, NEW loc, loc.sensors \in Seq(T)
    PROVE  /\ TargetSensors(loc) \in Seq(T)
           /\ ToSet(TargetSensors(loc)) =
                {s \in ToSet(loc.sensors) : s.parameter \in TargetParameters}
<1> PICK S : S = {s \in ToSet(loc.sensors) : s.parameter \in TargetParameters}
  OBVIOUS
<1>1. TargetSensors(loc) = Keeping(loc.sensors, S)
  BY DEF TargetSensors
<1>2. Keeping(loc.sensors, S) \in Seq(T) /\ ToSet(Keeping(loc.sensors, S)) = ToSet(loc.sensors) \cap S
  BY Kept
<1> QED BY <1>1, <1>2

=============================================================================
