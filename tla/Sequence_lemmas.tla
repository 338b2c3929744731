--------------------------- MODULE Sequence_lemmas ---------------------------
(***************************************************************************)
(* Facts that the proofs about values and about the parser share:          *)
(* induction on the natural numbers and what FlattenSeq computes.          *)
(***************************************************************************)
EXTENDS SequencesExt, Naturals, SequenceTheorems, WellFoundedInduction, TLAPS

(* Induction on the natural numbers, in terms of sets. *)

LEMMA LeastNumber ==
  ASSUME NEW T, T \subseteq Nat, T # {}
  PROVE  \E n \in T : \A m \in T : n <= m
<1> DEFINE R == {p \in Nat \X Nat : p[1] < p[2]}
<1>1. IsWellFoundedOn(R, Nat)
  BY NatLessThanWellFounded DEF OpToRel
<1>2. \A m, n \in Nat : m < n => <<m, n>> \in R
  OBVIOUS
<1> HIDE DEF R
<1>3. \E n \in T : \A m \in T : <<m, n>> \notin R
  BY <1>1, WFMin
<1>4. PICK n \in T : \A m \in T : <<m, n>> \notin R
  BY <1>3
<1>5. ASSUME NEW m \in T PROVE n <= m
  <2>1. m \in Nat /\ n \in Nat /\ ~(m < n)
    BY <1>2, <1>4
  <2> QED
    BY <2>1
<1> QED
  BY <1>5

LEMMA Induction ==
  ASSUME NEW T, 0 \in T, \A n \in Nat : n \in T => n + 1 \in T
  PROVE  \A n \in Nat : n \in T
<1> SUFFICES ASSUME NEW m \in Nat \ T PROVE FALSE
  OBVIOUS
<1> DEFINE U == Nat \ T
<1>1. U \subseteq Nat /\ U # {}
  OBVIOUS
<1> HIDE DEF U
<1>2. PICK n \in U : \A k \in U : n <= k
  BY <1>1, LeastNumber
<1> USE DEF U
<1>3. n \in Nat /\ n # 0 /\ n - 1 \in Nat
  OBVIOUS
<1>4. n - 1 \notin U
  BY <1>2, <1>3
<1>5. n - 1 + 1 \in T
  BY <1>3, <1>4
<1> QED
  BY <1>3, <1>5
-----------------------------------------------------------------------------
(* FlattenSeq: the function its definition builds.                          *)

IsFlat(g, s, n) == g = [i \in 1 .. n |-> IF i = 1 THEN s[i] ELSE g[i - 1] \o s[i]]
Flat(s) == CHOOSE g : IsFlat(g, s, Len(s))

LEMMA FlatIs ==
  ASSUME NEW s, Len(s) # 0
  PROVE  FlattenSeq(s) = Flat(s)[Len(s)]
BY DEF FlattenSeq, Flat, IsFlat

LEMMA FlatMore ==
  ASSUME NEW s, NEW n \in Nat, NEW g, IsFlat(g, s, n)
  PROVE  \E h : IsFlat(h, s, n + 1)
<1> DEFINE Def(f, i) == IF i = 1 THEN s[i] ELSE f[i - 1] \o s[i]
           h == [i \in 1 .. n + 1 |-> Def(g, i)]
<1>1. ASSUME NEW i \in 1 .. n PROVE h[i] = g[i]
  <2>1. h[i] = Def(g, i)
    OBVIOUS
  <2>2. g = [j \in 1 .. n |-> Def(g, j)]
    BY DEF IsFlat
  <2> HIDE DEF h
  <2> DEFINE gg == [j \in 1 .. n |-> Def(g, j)]
  <2>3. gg[i] = Def(g, i)
    OBVIOUS
  <2> QED
    BY <2>1, <2>2, <2>3, Zenon
<1>2. ASSUME NEW i \in 1 .. n + 1 PROVE Def(g, i) = Def(h, i)
  <2>1. CASE i = 1
    BY <2>1
  <2>2. CASE i # 1
    <3>1. i - 1 \in 1 .. n
      BY <2>2
    <3>2. h[i - 1] = g[i - 1]
      BY <1>1, <3>1
    <3> HIDE DEF h
    <3> QED
      BY <3>2
  <2> QED
    BY <2>1, <2>2
<1>3. h = [i \in 1 .. n + 1 |-> Def(h, i)]
  <2> DEFINE hh == [i \in 1 .. n + 1 |-> Def(h, i)]
  <2>1. \A i \in 1 .. n + 1 : h[i] = hh[i]
    BY <1>2
  <2> QED
    BY <2>1, Zenon
<1> HIDE DEF h
<1>4. IsFlat(h, s, n + 1)
  BY <1>3 DEF IsFlat
<1> QED
  BY <1>4

LEMMA FlatExists ==
  ASSUME NEW s, Len(s) \in Nat
  PROVE  IsFlat(Flat(s), s, Len(s))
<1> DEFINE T == {n \in Nat : \E g : IsFlat(g, s, n)}
<1>1. 0 \in T
  <2>1. IsFlat(<<>>, s, 0)
    BY DEF IsFlat
  <2> QED
    BY <2>1
<1>2. \A n \in Nat : n \in T => n + 1 \in T
  BY FlatMore
<1> HIDE DEF T
<1>3. Len(s) \in T
  BY <1>1, <1>2, Induction
<1>4. \E g : IsFlat(g, s, Len(s))
  BY <1>3 DEF T
<1> QED
  BY <1>4 DEF Flat

LEMMA FlatSteps ==
  ASSUME NEW s, NEW n \in Nat \ {0}, NEW g, IsFlat(g, s, n)
  PROVE  /\ g[1] = s[1]
         /\ \A i \in Nat \ {0} : i + 1 <= n => g[i + 1] = g[i] \o s[i + 1]
<1> DEFINE f == [i \in 1 .. n |-> IF i = 1 THEN s[i] ELSE g[i - 1] \o s[i]]
<1>1. g = f
  BY DEF IsFlat
<1>2. f[1] = s[1]
  OBVIOUS
<1>3. ASSUME NEW i \in Nat \ {0}, i + 1 <= n PROVE f[i + 1] = g[i] \o s[i + 1]
  <2>1. PICK k \in 1 .. n : k = i + 1 /\ k # 1 /\ k - 1 = i
    BY <1>3
  <2>2. \A j \in 1 .. n : j # 1 => f[j] = g[j - 1] \o s[j]
    OBVIOUS
  <2> HIDE DEF f
  <2>3. f[k] = g[k - 1] \o s[k]
    BY <2>1, <2>2
  <2> QED
    BY <2>1, <2>3, Zenon
<1> QED
  BY <1>1, <1>2, <1>3, Zenon

LEMMA FlatFirst ==
  ASSUME NEW s, NEW n \in Nat \ {0}, NEW g, IsFlat(g, s, n)
  PROVE  g[1] = s[1]
<1> DEFINE f == [i \in 1 .. n |-> IF i = 1 THEN s[i] ELSE g[i - 1] \o s[i]]
<1>1. g = f
  BY DEF IsFlat
<1>2. f[1] = s[1]
  OBVIOUS
<1> QED
  BY <1>1, <1>2, Zenon

Grows(g, s, n) == \A i \in Nat \ {0} : i + 1 <= n => g[i + 1] = g[i] \o s[i + 1]

LEMMA FlatGrows ==
  ASSUME NEW s, NEW n \in Nat \ {0}, NEW g, IsFlat(g, s, n)
  PROVE  Grows(g, s, n)
BY FlatSteps DEF Grows

SamePrefix(s, t, n) == \A i \in 1 .. n : s[i] = t[i]

(* Only the prefix of a sequence matters for what has been flattened.      *)
LEMMA FlatAgree ==
  ASSUME NEW s, NEW t, NEW n \in Nat, NEW k \in Nat, n <= k, NEW g, NEW h,
         IsFlat(g, s, n), IsFlat(h, t, k), SamePrefix(s, t, n)
  PROVE  SamePrefix(g, h, n)
<1> DEFINE T == {i \in Nat : i \in 1 .. n => g[i] = h[i]}
<1>1. 0 \in T
  OBVIOUS
<1>2. ASSUME NEW i \in Nat, i \in T PROVE i + 1 \in T
  <2> SUFFICES ASSUME i + 1 \in 1 .. n PROVE g[i + 1] = h[i + 1]
    OBVIOUS
  <2>1. n \in Nat \ {0} /\ k \in Nat \ {0} /\ i + 1 <= n /\ i + 1 <= k
    OBVIOUS
  <2>2. s[i + 1] = t[i + 1]
    BY DEF SamePrefix
  <2>3. CASE i = 0
    <3>1. g[1] = s[1]
      BY <2>1, FlatFirst
    <3>3. h[1] = t[1]
      BY <2>1, FlatFirst
    <3>2. i + 1 = 1
      BY <2>3
    <3> QED
      BY <2>2, <3>1, <3>2, <3>3
  <2>4. CASE i # 0
    <3>1. i \in Nat \ {0} /\ i \in 1 .. n
      BY <2>1, <2>4
    <3>2. g[i] = h[i]
      BY <1>2, <3>1
    <3>5. Grows(g, s, n) /\ Grows(h, t, k)
      BY <2>1, FlatGrows
    <3>3. g[i + 1] = g[i] \o s[i + 1]
      BY <2>1, <3>1, <3>5, Zenon DEF Grows
    <3>4. h[i + 1] = h[i] \o t[i + 1]
      BY <2>1, <3>1, <3>5, Zenon DEF Grows
    <3> QED
      BY <2>2, <3>2, <3>3, <3>4
  <2> QED
    BY <2>3, <2>4
<1> HIDE DEF T
<1>3. \A i \in Nat : i \in T
  BY <1>1, <1>2, Induction
<1> QED
  BY <1>3 DEF T, SamePrefix

LEMMA FlatTypes ==
  ASSUME NEW B, NEW n \in Nat, NEW s, \A i \in 1 .. n : s[i] \in Seq(B), NEW g, IsFlat(g, s, n)
  PROVE  \A i \in 1 .. n : g[i] \in Seq(B)
<1> DEFINE T == {i \in Nat : i \in 1 .. n => g[i] \in Seq(B)}
<1>1. 0 \in T
  OBVIOUS
<1>2. ASSUME NEW i \in Nat, i \in T PROVE i + 1 \in T
  <2> SUFFICES ASSUME i + 1 \in 1 .. n PROVE g[i + 1] \in Seq(B)
    OBVIOUS
  <2>1. n \in Nat \ {0} /\ i + 1 <= n /\ s[i + 1] \in Seq(B)
    OBVIOUS
  <2>2. /\ g[1] = s[1]
        /\ \A j \in Nat \ {0} : j + 1 <= n => g[j + 1] = g[j] \o s[j + 1]
    BY <2>1, FlatSteps
  <2>3. CASE i = 0
    BY <2>1, <2>2, <2>3
  <2>4. CASE i # 0
    <3>1. i \in Nat \ {0} /\ i \in 1 .. n
      BY <2>1, <2>4
    <3>2. g[i] \in Seq(B)
      BY <1>2, <3>1
    <3>3. g[i + 1] = g[i] \o s[i + 1]
      BY <2>1, <2>2, <3>1
    <3> QED
      BY <2>1, <3>2, <3>3, ConcatProperties
  <2> QED
    BY <2>3, <2>4
<1> HIDE DEF T
<1>3. \A i \in Nat : i \in T
  BY <1>1, <1>2, Induction
<1> QED
  BY <1>3 DEF T

LEMMA FlattenNone == FlattenSeq(<<>>) = <<>>
BY DEF FlattenSeq

LEMMA FlattenType ==
  ASSUME NEW B, NEW s \in Seq(Seq(B))
  PROVE  FlattenSeq(s) \in Seq(B)
<1>1. CASE s = <<>>
  BY <1>1, FlattenNone, EmptySeq
<1>2. CASE s # <<>>
  <2>1. PICK n \in Nat \ {0} : n = Len(s)
    BY <1>2, EmptySeq
  <2>2. \A i \in 1 .. n : s[i] \in Seq(B)
    BY <2>1, ElementOfSeq
  <2>3. IsFlat(Flat(s), s, n) /\ FlattenSeq(s) = Flat(s)[n]
    BY <2>1, FlatExists, FlatIs
  <2>4. Flat(s)[n] \in Seq(B)
    BY <2>1, <2>2, <2>3, FlatTypes
  <2> QED
    BY <2>3, <2>4
<1> QED
  BY <1>1, <1>2

LEMMA FlattenAppend ==
  ASSUME NEW B, NEW s \in Seq(Seq(B)), NEW x \in Seq(B)
  PROVE  FlattenSeq(Append(s, x)) = FlattenSeq(s) \o x
<1>1. PICK t \in Seq(Seq(B)) : t = Append(s, x)
  BY AppendProperties
<1>2. PICK n \in Nat : n = Len(s)
  OBVIOUS
<1>3. n + 1 = Len(t) /\ t[n + 1] = x /\ SamePrefix(s, t, n)
  BY <1>1, <1>2 DEF SamePrefix
<1>7. PICK k \in Nat : k = n + 1
  OBVIOUS
<1>4. PICK h : k = n + 1 /\ IsFlat(h, t, k) /\ FlattenSeq(t) = h[k]
  <2>1. k = Len(t) /\ Len(t) # 0
    BY <1>2, <1>3, <1>7
  <2>2. IsFlat(Flat(t), t, k)
    BY <2>1, FlatExists
  <2>3. FlattenSeq(t) = Flat(t)[k]
    BY <2>1, FlatIs
  <2> QED
    BY <1>7, <2>2, <2>3, Zenon
<1>5. CASE s = <<>>
  <2>1. n = 0 /\ n + 1 = 1 /\ n + 1 \in Nat \ {0}
    BY <1>2, <1>5
  <2>2. h[1] = t[1]
    BY <1>4, <2>1, FlatSteps
  <2>3. FlattenSeq(t) = x
    BY <1>3, <1>4, <2>1, <2>2
  <2>4. <<>> \o x = x
    BY ConcatEmptySeq
  <2> QED
    BY <1>1, <1>5, <2>3, <2>4, FlattenNone
<1>6. CASE s # <<>>
  <2>1. n \in Nat \ {0} /\ k \in Nat \ {0} /\ n <= k /\ n + 1 <= k /\ n \in 1 .. n
    BY <1>2, <1>4, <1>6, EmptySeq
  <2>2. PICK g : IsFlat(g, s, n) /\ FlattenSeq(s) = g[n]
    BY <1>2, <2>1, FlatExists, FlatIs
  <2>3. g[n] = h[n]
    <3>1. SamePrefix(g, h, n)
      BY <1>3, <1>4, <2>1, <2>2, FlatAgree
    <3> QED
      BY <2>1, <3>1 DEF SamePrefix
  <2>4. h[n + 1] = h[n] \o t[n + 1]
    BY <1>4, <2>1, FlatSteps
  <2> QED
    BY <1>1, <1>3, <1>4, <2>1, <2>2, <2>3, <2>4
<1> QED
  BY <1>5, <1>6

LEMMA FlattenHead ==
  ASSUME NEW B, NEW s \in Seq(Seq(B)), s # <<>>
  PROVE  FlattenSeq(s) = Head(s) \o FlattenSeq(Tail(s))
<1>1. PICK t \in Seq(Seq(B)) : t = Tail(s)
  BY HeadTailProperties
<1>2. PICK n \in Nat : n + 1 = Len(s)
  <2>1. PICK k \in Nat \ {0} : k = Len(s)
    BY EmptySeq
  <2>2. k - 1 \in Nat /\ (k - 1) + 1 = k
    OBVIOUS
  <2> QED
    BY <2>1, <2>2
<1>3. n = Len(t) /\ s[1] = Head(s) /\ \A i \in 1 .. n : t[i] = s[i + 1]
  BY <1>1, <1>2, HeadTailProperties
<1>4. \A i \in 1 .. n + 1 : s[i] \in Seq(B)
  BY <1>2, ElementOfSeq
<1>5. PICK g : IsFlat(g, s, n + 1) /\ FlattenSeq(s) = g[n + 1]
  <2>1. Len(s) \in Nat /\ Len(s) # 0
    BY <1>2
  <2>2. IsFlat(Flat(s), s, Len(s)) /\ FlattenSeq(s) = Flat(s)[Len(s)]
    BY <2>1, FlatExists, FlatIs, Zenon
  <2> QED
    BY <1>2, <2>2, Zenon
<1>6. s[1] \in Seq(B) /\ n + 1 \in Nat \ {0}
  BY <1>4
<1>7. /\ g[1] = s[1]
      /\ \A i \in Nat \ {0} : i + 1 <= n + 1 => g[i + 1] = g[i] \o s[i + 1]
  BY <1>5, <1>6, FlatSteps
<1>8. CASE n = 0
  <2>1. t = <<>>
    BY <1>3, <1>8, EmptySeq
  <2>2. FlattenSeq(s) = s[1]
    BY <1>5, <1>7, <1>8
  <2>3. s[1] \o <<>> = s[1]
    BY <1>6, ConcatEmptySeq
  <2> QED
    BY <1>1, <1>3, <2>1, <2>2, <2>3, FlattenNone
<1>9. CASE n # 0
  <2>1. n \in Nat \ {0}
    BY <1>9
  <2>2. PICK h : IsFlat(h, t, n) /\ FlattenSeq(t) = h[n]
    BY <1>3, <2>1, FlatExists, FlatIs
  <2>3. /\ h[1] = t[1]
        /\ \A i \in Nat \ {0} : i + 1 <= n => h[i + 1] = h[i] \o t[i + 1]
    BY <2>1, <2>2, FlatSteps
  <2>4. \A i \in 1 .. n : t[i] \in Seq(B)
    BY <1>3, ElementOfSeq
  <2>5. \A i \in 1 .. n : h[i] \in Seq(B)
    BY <2>1, <2>2, <2>4, FlatTypes
  <2> DEFINE T == {i \in Nat : i \in 1 .. n => g[i + 1] = s[1] \o h[i]}
  <2>6. 0 \in T
    OBVIOUS
  <2>7. ASSUME NEW i \in Nat, i \in T PROVE i + 1 \in T
    <3>5. i + 1 \in Nat
      OBVIOUS
    <3> SUFFICES ASSUME i + 1 \in 1 .. n PROVE g[(i + 1) + 1] = s[1] \o h[i + 1]
      BY <3>5, Zenon
    <3>1. PICK j \in Nat \ {0} : j = i + 1 /\ j \in 1 .. n
      OBVIOUS
    <3>2. g[j + 1] = g[j] \o s[j + 1] /\ s[j + 1] = t[j]
      <4>1. j + 1 <= n + 1
        BY <3>1
      <4> QED
        BY <1>3, <1>7, <3>1, <4>1, Zenon
    <3>3. CASE i = 0
      <4>1. j = 1
        BY <3>1, <3>3
      <4> QED
        BY <1>7, <2>3, <3>1, <3>2, <4>1
    <3>4. CASE i # 0
      <4>1. i \in Nat \ {0} /\ i \in 1 .. n /\ i + 1 <= n
        BY <3>1, <3>4
      <4>2. g[j] = s[1] \o h[i]
        BY <2>7, <3>1, <4>1
      <4>3. h[j] = h[i] \o t[j]
        BY <2>3, <3>1, <4>1
      <4>4. h[i] \in Seq(B) /\ t[j] \in Seq(B)
        BY <2>4, <2>5, <3>1, <4>1
      <4>5. (s[1] \o h[i]) \o t[j] = s[1] \o (h[i] \o t[j])
        <5>1. PICK a \in Seq(B), b \in Seq(B), c \in Seq(B) : a = s[1] /\ b = h[i] /\ c = t[j]
          BY <1>6, <4>4
        <5>2. (a \o b) \o c = a \o (b \o c)
          BY ConcatAssociative, SMTT(30)
        <5> QED
          BY <5>1, <5>2, Zenon
      <4> QED
        BY <3>1, <3>2, <4>2, <4>3, <4>5
    <3> QED
      BY <3>3, <3>4
  <2> HIDE DEF T
  <2>8. \A i \in Nat : i \in T
    BY <2>6, <2>7, Induction
  <2>9. g[n + 1] = s[1] \o h[n]
    <3>1. n \in 1 .. n /\ n \in Nat /\ n \in T
      BY <2>1, <2>8
    <3> QED
      BY <3>1, Zenon DEF T
  <2> QED
    BY <1>1, <1>3, <1>5, <2>2, <2>9
<1> QED
  BY <1>8, <1>9
=============================================================================
