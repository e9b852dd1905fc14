--------------------------- MODULE TlsfListProofs ---------------------------
(***************************************************************************)
(* Proofs about TlsfList: headers, lists and bitmaps describe one tiling   *)
(* of the pool, a search finds the room there is, the counters are exact,  *)
(* callers get what they asked for, the list is a block store, and the     *)
(* doctor's walk repairs without harm, for every pool, unit, number of     *)
(* classes and set of sizes that SheetAssumption admits.                   *)
(*                                                                         *)
(* Operators take the header table H (and its successor K) or the pool p   *)
(* (and its successors q, r) as arguments, since most operations go        *)
(* through intermediate pools.  The invariant IInv says that the headers   *)
(* are a doubly linked list of adjacent blocks (Linked) without free       *)
(* neighbours (Merged), that lists and bitmaps hold the free blocks        *)
(* (Shelved), that a temporal slot names a block cut for its class         *)
(* (Slotted), that the counters count units (Charged), and that callers    *)
(* hold blocks in use (Holders).                                           *)
(***************************************************************************)
EXTENDS TlsfList, FiniteSetTheorems, SequenceTheorems, WellFoundedInduction, TLAPS

-----------------------------------------------------------------------------
(* Numbers *)

\* A nonempty set of natural numbers has a smallest member.
LEMMA HasSmallest ==
  ASSUME NEW S \in SUBSET Nat, S # {}
  PROVE  \E h \in S : \A i \in S : h <= i
<1> DEFINE R == OpToRel(<, Nat)
<1>1. IsWellFoundedOn(R, Nat)
  BY NatLessThanWellFounded
<1>2. PICK x \in S : \A y \in S : ~(<<y, x>> \in R)
  <2> HIDE DEF R
  <2> QED
    BY <1>1, WFMin
<1>3. ASSUME NEW y \in S
      PROVE  x <= y
  <2>1. x \in Nat /\ y \in Nat
    OBVIOUS
  <2>2. ~(y < x)
    BY <1>2, <2>1 DEF OpToRel
  <2> QED
    BY <2>1, <2>2
<1> QED
  BY <1>3

\* A function on 0 .. N that doubles from 1.
Doubles(N, h) == /\ h \in [0 .. N -> Nat]
                 /\ h[0] = 1
                 /\ \A n \in 1 .. N : h[n] = 2 * h[n - 1]

\* Doubling functions exist on every initial segment of the naturals.
LEMMA DoublingExists ==
  ASSUME NEW N \in Nat
  PROVE  \E h : Doubles(N, h)
<1> SUFFICES ASSUME \A h : ~Doubles(N, h)
             PROVE  FALSE
  OBVIOUS
<1> DEFINE S == {n \in Nat : \A h : ~Doubles(n, h)}
<1>1. PICK m \in S : \A i \in S : m <= i
  <2>1. S \in SUBSET Nat /\ N \in S
    OBVIOUS
  <2> HIDE DEF S
  <2> QED
    BY <2>1, HasSmallest
<1>2. m # 0
  <2> SUFFICES ASSUME m = 0 PROVE FALSE
    OBVIOUS
  <2>1. Doubles(0, [i \in 0 .. 0 |-> 1])
    BY DEF Doubles
  <2> QED
    BY <2>1
<1>3. PICK h : Doubles(m - 1, h)
  <2>1. m - 1 \in Nat /\ ~(m <= m - 1)
    BY <1>2
  <2> QED
    BY <1>1, <2>1
<1> DEFINE g == [i \in 0 .. m |-> IF i = m THEN 2 * h[m - 1] ELSE h[i]]
<1>4. Doubles(m, g)
  <2>1. m \in Nat /\ m - 1 \in Nat
    BY <1>2
  <2>2. h \in [0 .. m - 1 -> Nat] /\ h[0] = 1 /\ \A n \in 1 .. m - 1 : h[n] = 2 * h[n - 1]
    BY <1>3 DEF Doubles
  <2>3. g \in [0 .. m -> Nat]
    <3>1. ASSUME NEW i \in 0 .. m
          PROVE  (IF i = m THEN 2 * h[m - 1] ELSE h[i]) \in Nat
      <4>1. h[m - 1] \in Nat
        BY <2>1, <2>2
      <4>2. i # m => i \in 0 .. m - 1
        BY <2>1
      <4> QED
        BY <2>1, <2>2, <4>1, <4>2
    <3> QED
      BY <3>1
  <2>4. g[0] = 1
    BY <1>2, <2>1, <2>2
  <2>5. ASSUME NEW n \in 1 .. m
        PROVE  g[n] = 2 * g[n - 1]
    <3>1. n \in 0 .. m /\ n - 1 \in 0 .. m /\ n - 1 # m
      BY <2>1
    <3>2. g[n - 1] = h[n - 1]
      BY <3>1
    <3>3. CASE n = m
      BY <3>1, <3>2, <3>3
    <3>4. CASE n # m
      <4>1. n \in 1 .. m - 1
        BY <2>1, <3>4
      <4>2. g[n] = h[n]
        BY <3>1, <3>4
      <4> QED
        BY <2>2, <3>2, <4>1, <4>2
    <3> QED
      BY <3>3, <3>4
  <2> HIDE DEF g
  <2> QED
    BY <2>3, <2>4, <2>5 DEF Doubles
<1> QED
  BY <1>4

\* Doubling functions agree where both are defined.
LEMMA DoublingUnique ==
  ASSUME NEW N \in Nat, NEW M \in Nat, NEW h, NEW g, Doubles(N, h), Doubles(M, g),
         NEW n \in 0 .. N, n \in 0 .. M
  PROVE  h[n] = g[n]
<1> SUFFICES ASSUME h[n] # g[n] PROVE FALSE
  OBVIOUS
<1> DEFINE S == {i \in 0 .. n : h[i] # g[i]}
<1>1. PICK m \in S : \A i \in S : m <= i
  <2>1. S \in SUBSET Nat /\ n \in S
    OBVIOUS
  <2> HIDE DEF S
  <2> QED
    BY <2>1, HasSmallest
<1>2. h[0] = 1 /\ g[0] = 1
  BY DEF Doubles
<1>3. m # 0 /\ m \in 0 .. n
  BY <1>2
<1>4. m \in 1 .. N /\ m \in 1 .. M /\ m - 1 \in 0 .. n /\ ~(m <= m - 1)
  BY <1>3
<1>5. h[m - 1] = g[m - 1]
  BY <1>1, <1>4
<1>6. h[m] = 2 * h[m - 1] /\ g[m] = 2 * g[m - 1]
  BY <1>4 DEF Doubles
<1> QED
  BY <1>1, <1>5, <1>6

\* Pow2 is what its recursive definition says.
LEMMA Pow2Def ==
  /\ Pow2[0] = 1
  /\ \A n \in Nat : Pow2[n] \in Nat /\ Pow2[n + 1] = 2 * Pow2[n]
<1> DEFINE d(n) == CHOOSE h : Doubles(n, h)
           g == [n \in Nat |-> d(n)[n]]
           Rec(f) == [n \in Nat |-> IF n = 0 THEN 1 ELSE 2 * f[n - 1]]
<1>1. ASSUME NEW n \in Nat
      PROVE  Doubles(n, d(n))
  BY DoublingExists
<1>2. g[0] = 1
  <2>1. d(0)[0] = 1
    BY <1>1 DEF Doubles
  <2> QED
    BY <2>1
<1>3. ASSUME NEW n \in Nat
      PROVE  g[n] \in Nat
  <2>1. n \in 0 .. n
    OBVIOUS
  <2>2. d(n)[n] \in Nat
    <3> HIDE DEF d
    <3> QED
      BY <1>1, <2>1 DEF Doubles
  <2> QED
    BY <2>2
<1>4. ASSUME NEW n \in Nat
      PROVE  g[n + 1] = 2 * g[n]
  <2> HIDE DEF d
  <2>1. Doubles(n + 1, d(n + 1)) /\ Doubles(n, d(n)) /\ n + 1 \in Nat
    BY <1>1
  <2>2. n + 1 \in 1 .. n + 1 /\ n \in 0 .. n + 1 /\ n \in 0 .. n /\ (n + 1) - 1 = n
    OBVIOUS
  <2>3. d(n + 1)[n + 1] = 2 * d(n + 1)[n]
    BY <2>1, <2>2 DEF Doubles
  <2>4. d(n + 1)[n] = d(n)[n]
    BY <2>1, <2>2, DoublingUnique
  <2> QED
    BY <2>1, <2>3, <2>4
<1>5. g = Rec(g)
  <2> HIDE DEF g
  <2>1. ASSUME NEW n \in Nat
        PROVE  g[n] = IF n = 0 THEN 1 ELSE 2 * g[n - 1]
    <3>1. CASE n = 0
      BY <1>2, <3>1
    <3>2. CASE n # 0
      <4>1. n - 1 \in Nat /\ (n - 1) + 1 = n
        BY <3>2
      <4> QED
        BY <1>4, <3>2, <4>1
    <3> QED
      BY <3>1, <3>2
  <2>2. g = [n \in Nat |-> g[n]]
    BY DEF g
  <2> QED
    BY <2>1, <2>2
<1>6. Pow2 = Rec(Pow2)
  <2>1. \E f : f = Rec(f)
    <3> HIDE DEF g, Rec
    <3> QED
      BY <1>5
  <2> QED
    BY <2>1 DEF Pow2
<1>7. Pow2[0] = 1
  BY <1>6
<1>8. ASSUME NEW n \in Nat
      PROVE  Pow2[n + 1] = 2 * Pow2[n]
  <2>1. n + 1 \in Nat /\ n + 1 # 0 /\ (n + 1) - 1 = n
    OBVIOUS
  <2>2. Pow2[n + 1] = IF n + 1 = 0 THEN 1 ELSE 2 * Pow2[(n + 1) - 1]
    BY <1>6, <2>1
  <2> QED
    BY <2>1, <2>2
<1>9. ASSUME NEW n \in Nat
      PROVE  Pow2[n] \in Nat
  <2> SUFFICES ASSUME Pow2[n] \notin Nat PROVE FALSE
    OBVIOUS
  <2> DEFINE S == {i \in Nat : Pow2[i] \notin Nat}
  <2>1. PICK m \in S : \A i \in S : m <= i
    <3>1. S \in SUBSET Nat /\ n \in S
      OBVIOUS
    <3> HIDE DEF S
    <3> QED
      BY <3>1, HasSmallest
  <2>2. m # 0 /\ m \in Nat
    BY <1>7
  <2>3. m - 1 \in Nat /\ (m - 1) + 1 = m /\ ~(m <= m - 1)
    BY <2>2
  <2>4. Pow2[m - 1] \in Nat
    BY <2>1, <2>3
  <2> QED
    BY <1>8, <2>1, <2>3, <2>4
<1> QED
  BY <1>7, <1>8, <1>9

\* Powers of two are positive and grow.
LEMMA Pow2Pos ==
  ASSUME NEW n \in Nat
  PROVE  Pow2[n] \in Nat /\ Pow2[n] >= 1
<1> SUFFICES ASSUME ~(Pow2[n] >= 1) PROVE FALSE
  BY Pow2Def
<1> DEFINE S == {i \in Nat : ~(Pow2[i] >= 1)}
<1>1. PICK m \in S : \A i \in S : m <= i
  <2>1. S \in SUBSET Nat /\ n \in S
    OBVIOUS
  <2> HIDE DEF S
  <2> QED
    BY <2>1, HasSmallest
<1>2. m # 0 /\ m \in Nat
  BY Pow2Def
<1>3. m - 1 \in Nat /\ (m - 1) + 1 = m /\ ~(m <= m - 1)
  BY <1>2
<1>4. Pow2[m - 1] >= 1 /\ Pow2[m - 1] \in Nat
  BY <1>1, <1>3, Pow2Def
<1>5. Pow2[m] = 2 * Pow2[m - 1]
  BY <1>3, Pow2Def
<1> QED
  BY <1>1, <1>4, <1>5

\* Multiplication by a natural number is monotone.
LEMMA MulMono ==
  ASSUME NEW a \in Nat, NEW b \in Nat, NEW p \in Nat, a <= b
  PROVE  a * p <= b * p
<1>1. (b - a) * p >= 0
  OBVIOUS
<1>2. (b - a) * p = b * p - a * p
  OBVIOUS
<1> QED
  BY <1>1, <1>2

\* A power of two is a multiple of every smaller one.
LEMMA Pow2Split ==
  ASSUME NEW i \in Nat, NEW d \in Nat
  PROVE  Pow2[i + d] = Pow2[d] * Pow2[i]
<1> SUFFICES ASSUME Pow2[i + d] # Pow2[d] * Pow2[i] PROVE FALSE
  OBVIOUS
<1> DEFINE S == {e \in Nat : Pow2[i + e] # Pow2[e] * Pow2[i]}
<1>1. PICK m \in S : \A e \in S : m <= e
  <2>1. S \in SUBSET Nat /\ d \in S
    OBVIOUS
  <2> HIDE DEF S
  <2> QED
    BY <2>1, HasSmallest
<1>2. m # 0 /\ m \in Nat
  <2>1. Pow2[i + 0] = Pow2[0] * Pow2[i]
    <3>1. i + 0 = i /\ Pow2[0] = 1 /\ Pow2[i] \in Nat
      BY Pow2Def
    <3> QED
      BY <3>1
  <2> QED
    BY <2>1
<1>3. m - 1 \in Nat /\ (m - 1) + 1 = m /\ ~(m <= m - 1)
  BY <1>2
<1>4. Pow2[i + (m - 1)] = Pow2[m - 1] * Pow2[i]
  BY <1>1, <1>3
<1>5. Pow2[m] = 2 * Pow2[m - 1]
  BY <1>3, Pow2Def
<1>6. Pow2[i + m] = 2 * Pow2[i + (m - 1)]
  <2>1. i + (m - 1) \in Nat /\ (i + (m - 1)) + 1 = i + m
    BY <1>3
  <2> QED
    BY <2>1, Pow2Def
<1>7. Pow2[m - 1] \in Nat /\ Pow2[i] \in Nat
  BY <1>3, Pow2Def
<1>8. 2 * (Pow2[m - 1] * Pow2[i]) = (2 * Pow2[m - 1]) * Pow2[i]
  BY <1>7
<1> QED
  BY <1>1, <1>4, <1>5, <1>6, <1>8

\* Powers of two are ordered as their exponents.
LEMMA Pow2Mono ==
  ASSUME NEW i \in Nat, NEW j \in Nat
  PROVE  /\ i <= j => Pow2[i] <= Pow2[j]
         /\ i < j => 2 * Pow2[i] <= Pow2[j]
<1>1. ASSUME NEW x \in Nat, NEW y \in Nat, x <= y
      PROVE  Pow2[x] <= Pow2[y]
  <2>1. y - x \in Nat /\ x + (y - x) = y
    BY <1>1
  <2>2. Pow2[y] = Pow2[y - x] * Pow2[x]
    BY <2>1, Pow2Split
  <2>3. 1 \in Nat /\ Pow2[y - x] \in Nat /\ 1 <= Pow2[y - x] /\ Pow2[x] \in Nat
    BY <2>1, Pow2Pos
  <2>4. 1 * Pow2[x] <= Pow2[y - x] * Pow2[x]
    BY <2>3, MulMono
  <2> QED
    BY <2>2, <2>3, <2>4
<1>2. ASSUME i < j
      PROVE  2 * Pow2[i] <= Pow2[j]
  <2>1. i + 1 \in Nat /\ i + 1 <= j
    BY <1>2
  <2>2. Pow2[i + 1] = 2 * Pow2[i]
    BY Pow2Def
  <2> QED
    BY <1>1, <2>1, <2>2
<1> QED
  BY <1>1, <1>2
-----------------------------------------------------------------------------
(* Lists *)

\* A list of n nodes is a function on 1 .. n, and the other way round.
LEMMA ListIsFcn ==
  ASSUME NEW S, NEW n \in Nat
  PROVE  /\ \A t \in Seq(S) : Len(t) = n => t \in [1 .. n -> S]
         /\ \A t \in [1 .. n -> S] : t \in Seq(S) /\ Len(t) = n
<1>1. ASSUME NEW t \in Seq(S), Len(t) = n
      PROVE  t \in [1 .. n -> S]
  BY <1>1, LenProperties
<1>2. ASSUME NEW t \in [1 .. n -> S]
      PROVE  t \in Seq(S) /\ Len(t) = n
  <2>1. t \in Seq(S)
    BY SeqDef
  <2>2. Len(t) \in Nat /\ 1 .. Len(t) = 1 .. n
    BY <2>1, LenProperties
  <2>3. Len(t) = n
    BY <2>2
  <2> QED
    BY <2>1, <2>3
<1> QED
  BY <1>1, <1>2

\* A list is empty iff it contains nothing.
LEMMA EmptyList ==
  ASSUME NEW S, NEW s \in Seq(S)
  PROVE  /\ s = <<>> <=> \A x \in S : ~Contains(s, x)
         /\ \A x : Contains(s, x) => x \in S
<1>1. Len(s) \in Nat /\ \A i \in 1 .. Len(s) : s[i] \in S
  OBVIOUS
<1>2. s # <<>> => 1 \in 1 .. Len(s)
  OBVIOUS
<1>3. s = <<>> => Len(s) = 0
  OBVIOUS
<1> QED
  BY <1>1, <1>2, <1>3 DEF Contains

\* A node put in front of a list is listed there, once if it was not yet.
LEMMA ConsList ==
  ASSUME NEW S, NEW s \in Seq(S), NEW e \in S
  PROVE  /\ <<e>> \o s \in Seq(S) /\ <<e>> \o s # <<>> /\ Len(<<e>> \o s) = Len(s) + 1
         /\ \A x : Contains(<<e>> \o s, x) <=> x = e \/ Contains(s, x)
         /\ IsInjective(s) /\ ~Contains(s, e) => IsInjective(<<e>> \o s)
<1> DEFINE t == <<e>> \o s
<1>1. <<e>> \in Seq(S) /\ Len(<<e>>) = 1 /\ <<e>>[1] = e /\ Len(s) \in Nat
  OBVIOUS
<1>2. /\ t \in Seq(S) /\ Len(t) = Len(s) + 1
      /\ \A i \in 1 .. Len(t) : t[i] = IF i <= 1 THEN e ELSE s[i - 1]
  <2>1. /\ t \in Seq(S) /\ Len(t) = Len(<<e>>) + Len(s)
        /\ \A i \in 1 .. Len(<<e>>) + Len(s) :
             t[i] = IF i <= Len(<<e>>) THEN <<e>>[i] ELSE s[i - Len(<<e>>)]
    BY <1>1, ConcatProperties
  <2> HIDE DEF t
  <2> QED
    BY <1>1, <2>1
<1> HIDE DEF t
<1>3. t # <<>>
  BY <1>1, <1>2
<1>4. ASSUME NEW x
      PROVE  Contains(t, x) <=> x = e \/ Contains(s, x)
  <2>1. ASSUME Contains(t, x)
        PROVE  x = e \/ Contains(s, x)
    <3>1. PICK i \in 1 .. Len(t) : t[i] = x
      BY <2>1 DEF Contains
    <3>2. CASE i <= 1
      BY <1>2, <3>1, <3>2
    <3>3. CASE ~(i <= 1)
      <4>1. i - 1 \in 1 .. Len(s) /\ s[i - 1] = x
        BY <1>1, <1>2, <3>1, <3>3
      <4> QED
        BY <4>1 DEF Contains
    <3> QED
      BY <3>2, <3>3
  <2>2. ASSUME Contains(s, x)
        PROVE  Contains(t, x)
    <3>1. PICK i \in 1 .. Len(s) : s[i] = x
      BY <2>2 DEF Contains
    <3>2. i + 1 \in 1 .. Len(t) /\ ~(i + 1 <= 1) /\ (i + 1) - 1 = i
      BY <1>1, <1>2
    <3>3. t[i + 1] = x
      BY <1>2, <3>1, <3>2
    <3> QED
      BY <3>2, <3>3 DEF Contains
  <2>3. Contains(t, e)
    <3>1. 1 \in 1 .. Len(t) /\ 1 <= 1
      BY <1>1, <1>2
    <3>2. t[1] = e
      BY <1>2, <3>1
    <3> QED
      BY <3>1, <3>2 DEF Contains
  <2> QED
    BY <2>1, <2>2, <2>3
<1>5. ASSUME IsInjective(s), ~Contains(s, e)
      PROVE  IsInjective(t)
  <2>1. DOMAIN t = 1 .. Len(t) /\ DOMAIN s = 1 .. Len(s)
    BY <1>2
  <2>2. ASSUME NEW a \in 1 .. Len(t), NEW b \in 1 .. Len(t), t[a] = t[b]
        PROVE  a = b
    <3>1. \A i \in 1 .. Len(t) : ~(i <= 1) => i - 1 \in 1 .. Len(s)
      BY <1>1, <1>2
    <3>2. \A i \in 1 .. Len(s) : s[i] # e
      BY <1>5 DEF Contains
    <3>3. CASE a <= 1 /\ b <= 1
      BY <1>1, <1>2, <3>3
    <3>4. CASE a <= 1 /\ ~(b <= 1)
      BY <1>2, <2>2, <3>1, <3>2, <3>4
    <3>5. CASE ~(a <= 1) /\ b <= 1
      BY <1>2, <2>2, <3>1, <3>2, <3>5
    <3>6. CASE ~(a <= 1) /\ ~(b <= 1)
      <4>1. s[a - 1] = s[b - 1]
        BY <1>2, <2>2, <3>6
      <4>2. a - 1 = b - 1
        BY <1>5, <2>1, <3>1, <3>6, <4>1 DEF IsInjective
      <4> QED
        BY <1>1, <1>2, <4>2
    <3> QED
      BY <3>3, <3>4, <3>5, <3>6
  <2> QED
    BY <2>1, <2>2 DEF IsInjective
<1> QED
  BY <1>2, <1>3, <1>4, <1>5 DEF t

\* A list without one of its positions.
Without(s, p) == [i \in 1 .. Len(s) - 1 |-> IF i < p THEN s[i] ELSE s[i + 1]]

\* What is left when one position of a list without repetitions is dropped.
LEMMA WithoutList ==
  ASSUME NEW S, NEW s \in Seq(S), NEW p \in 1 .. Len(s), IsInjective(s),
         NEW t, t = Without(s, p)
  PROVE  /\ t \in Seq(S) /\ Len(t) = Len(s) - 1 /\ IsInjective(t)
         /\ \A x : Contains(t, x) <=> Contains(s, x) /\ x # s[p]
<1>1. Len(s) \in Nat /\ p \in Nat /\ DOMAIN s = 1 .. Len(s) /\ Len(s) - 1 \in Nat
  OBVIOUS
<1>2. ASSUME NEW i \in 1 .. Len(s) - 1
      PROVE  /\ i \in 1 .. Len(s) /\ i + 1 \in 1 .. Len(s)
             /\ t[i] = IF i < p THEN s[i] ELSE s[i + 1]
             /\ t[i] \in S
  <2>1. i \in 1 .. Len(s) /\ i + 1 \in 1 .. Len(s)
    BY <1>1
  <2>2. t[i] = IF i < p THEN s[i] ELSE s[i + 1]
    BY DEF Without
  <2>3. s[i] \in S /\ s[i + 1] \in S
    BY <2>1
  <2> QED
    BY <2>1, <2>2, <2>3
<1>3. t \in [1 .. Len(s) - 1 -> S]
  <2>1. t = [i \in 1 .. Len(s) - 1 |-> t[i]]
    BY DEF Without
  <2> QED
    BY <1>2, <2>1
<1>4. t \in Seq(S) /\ Len(t) = Len(s) - 1 /\ DOMAIN t = 1 .. Len(s) - 1
  <2> DEFINE n == Len(s) - 1
  <2>1. n \in Nat /\ t \in [1 .. n -> S]
    BY <1>1, <1>3
  <2> HIDE DEF n
  <2>2. t \in Seq(S) /\ Len(t) = n
    BY <2>1, ListIsFcn, Zenon
  <2>3. DOMAIN t = 1 .. n
    BY <2>1
  <2> QED
    BY <2>2, <2>3 DEF n
<1>5. \A a, b \in 1 .. Len(s) : s[a] = s[b] => a = b
  BY <1>1 DEF IsInjective
<1>6. IsInjective(t)
  <2>1. ASSUME NEW a \in 1 .. Len(s) - 1, NEW b \in 1 .. Len(s) - 1, t[a] = t[b]
        PROVE  a = b
    <3>1. /\ a \in 1 .. Len(s) /\ a + 1 \in 1 .. Len(s) /\ t[a] = IF a < p THEN s[a] ELSE s[a + 1]
          /\ b \in 1 .. Len(s) /\ b + 1 \in 1 .. Len(s) /\ t[b] = IF b < p THEN s[b] ELSE s[b + 1]
      BY <1>2
    <3>2. CASE a < p /\ b < p
      BY <1>5, <2>1, <3>1, <3>2
    <3>3. CASE a < p /\ ~(b < p)
      <4>1. a = b + 1
        BY <1>5, <2>1, <3>1, <3>3
      <4> QED
        BY <1>1, <3>3, <4>1
    <3>4. CASE ~(a < p) /\ b < p
      <4>1. a + 1 = b
        BY <1>5, <2>1, <3>1, <3>4
      <4> QED
        BY <1>1, <3>4, <4>1
    <3>5. CASE ~(a < p) /\ ~(b < p)
      <4>1. a + 1 = b + 1
        BY <1>5, <2>1, <3>1, <3>5
      <4> QED
        BY <1>1, <4>1
    <3> QED
      BY <3>2, <3>3, <3>4, <3>5
  <2> QED
    BY <1>4, <2>1 DEF IsInjective
<1>7. ASSUME NEW x
      PROVE  Contains(t, x) <=> Contains(s, x) /\ x # s[p]
  <2>1. ASSUME Contains(t, x)
        PROVE  Contains(s, x) /\ x # s[p]
    <3>1. PICK i \in 1 .. Len(s) - 1 : t[i] = x
      BY <1>4, <2>1 DEF Contains
    <3>2. /\ i \in 1 .. Len(s) /\ i + 1 \in 1 .. Len(s) /\ t[i] = IF i < p THEN s[i] ELSE s[i + 1]
      BY <1>2
    <3>3. PICK k \in 1 .. Len(s) : k # p /\ s[k] = x
      <4>1. CASE i < p
        BY <1>1, <3>1, <3>2, <4>1
      <4>2. CASE ~(i < p)
        <5>1. i + 1 # p
          BY <1>1, <4>2
        <5> QED
          BY <3>1, <3>2, <4>2, <5>1
      <4> QED
        BY <4>1, <4>2
    <3> QED
      BY <1>5, <3>3 DEF Contains
  <2>2. ASSUME Contains(s, x), x # s[p]
        PROVE  Contains(t, x)
    <3>1. PICK k \in 1 .. Len(s) : s[k] = x
      BY <2>2 DEF Contains
    <3>2. k # p
      BY <2>2, <3>1
    <3>3. CASE k < p
      <4>1. k \in 1 .. Len(s) - 1
        BY <1>1, <3>3
      <4> QED
        BY <1>2, <1>4, <3>1, <3>3, <4>1 DEF Contains
    <3>4. CASE p < k
      <4>1. k - 1 \in 1 .. Len(s) - 1 /\ ~(k - 1 < p) /\ (k - 1) + 1 = k
        BY <1>1, <3>4
      <4>2. t[k - 1] = x
        BY <1>2, <3>1, <4>1
      <4> QED
        BY <1>4, <4>1, <4>2 DEF Contains
    <3> QED
      BY <1>1, <3>2, <3>3, <3>4
  <2> QED
    BY <2>1, <2>2
<1> QED
  BY <1>4, <1>6, <1>7

\* The tail of a list without repetitions.
LEMMA TailList ==
  ASSUME NEW S, NEW s \in Seq(S), s # <<>>, IsInjective(s)
  PROVE  /\ Tail(s) \in Seq(S) /\ Len(Tail(s)) = Len(s) - 1 /\ IsInjective(Tail(s))
         /\ Head(s) \in S /\ Contains(s, Head(s))
         /\ \A x : Contains(Tail(s), x) <=> Contains(s, x) /\ x # Head(s)
<1>1. Len(s) \in Nat /\ Len(s) >= 1 /\ 1 \in 1 .. Len(s) /\ Head(s) = s[1] /\ s[1] \in S
  OBVIOUS
<1>2. Tail(s) = Without(s, 1)
  <2>1. /\ Tail(s) \in Seq(S) /\ Len(Tail(s)) = Len(s) - 1
        /\ \A i \in 1 .. Len(s) - 1 : Tail(s)[i] = s[i + 1]
    OBVIOUS
  <2>2. Tail(s) = [i \in 1 .. Len(s) - 1 |-> Tail(s)[i]]
    <3>1. Len(s) - 1 \in Nat
      BY <1>1
    <3>2. Tail(s) \in [1 .. Len(s) - 1 -> S]
      BY <2>1, <3>1, ListIsFcn
    <3> QED
      BY <3>2
  <2>3. \A i \in 1 .. Len(s) - 1 : ~(i < 1)
    BY <1>1
  <2> QED
    BY <2>1, <2>2, <2>3 DEF Without
<1>3. Contains(s, s[1])
  BY <1>1 DEF Contains
<1> QED
  BY <1>1, <1>2, <1>3, WithoutList

\* Unlinking a node of a list without repetitions.
LEMMA RemoveList ==
  ASSUME NEW S, NEW s \in Seq(S), NEW e, Contains(s, e), IsInjective(s)
  PROVE  /\ RemoveFirst(s, e) \in Seq(S) /\ IsInjective(RemoveFirst(s, e))
         /\ \A x : Contains(RemoveFirst(s, e), x) <=> Contains(s, x) /\ x # e
<1> DEFINE I == {i \in 1 .. Len(s) : s[i] = e}
           p == Min(I)
<1>1. Len(s) \in Nat
  OBVIOUS
<1>2. PICK k \in I : \A i \in I : k <= i
  <2>1. I \in SUBSET Nat /\ I # {}
    BY DEF Contains
  <2> HIDE DEF I
  <2> QED
    BY <2>1, HasSmallest
<1>3. p \in I
  <2> HIDE DEF I
  <2> QED
    BY <1>2 DEF Min
<1>4. p \in 1 .. Len(s) /\ s[p] = e
  BY <1>3
<1>5. SelectInSeq(s, LAMBDA v : v = e) = p
  BY <1>2 DEF SelectInSeq
<1>6. RemoveFirst(s, e) = SubSeq(s, 1, p - 1) \o SubSeq(s, p + 1, Len(s))
  BY <1>5 DEF RemoveFirst, RemoveAt, Contains
<1> HIDE DEF p, I
<1>7. SubSeq(s, 1, p - 1) \o SubSeq(s, p + 1, Len(s)) = Without(s, p)
  <2> DEFINE a == SubSeq(s, 1, p - 1)
             b == SubSeq(s, p + 1, Len(s))
  <2>1. p \in Nat /\ p >= 1 /\ p <= Len(s)
    BY <1>1, <1>4
  <2>2. a \in Seq(S) /\ Len(a) = p - 1 /\ \A i \in 1 .. p - 1 : a[i] = s[i]
    <3>1. \A i \in 1 .. p - 1 : s[i] \in S
      BY <1>1, <2>1
    <3> QED
      BY <1>1, <2>1, <3>1, SubSeqProperties
  <2>3. b \in Seq(S) /\ Len(b) = Len(s) - p /\ \A i \in 1 .. Len(s) - p : b[i] = s[p + i]
    <3>1. \A i \in p + 1 .. Len(s) : s[i] \in S
      BY <1>1, <2>1
    <3>2. CASE p < Len(s)
      <4>1. p + 1 \in 1 .. Len(s) + 1 /\ Len(s) \in p + 1 - 1 .. Len(s)
        BY <1>1, <2>1
      <4> QED
        BY <1>1, <2>1, <3>1, <4>1, SubSeqProperties
    <3>3. CASE p = Len(s)
      <4>1. b = <<>>
        BY <1>1, <2>1, <3>3, SubSeqEmpty
      <4>2. \A i \in 1 .. Len(s) - p : FALSE
        BY <1>1, <2>1, <3>3
      <4>3. Len(s) - p = 0
        BY <1>1, <3>3
      <4> HIDE DEF b
      <4> QED
        BY <4>1, <4>2, <4>3
    <3> QED
      BY <1>1, <2>1, <3>2, <3>3
  <2> HIDE DEF a, b
  <2>4. /\ a \o b \in Seq(S) /\ Len(a \o b) = Len(s) - 1
        /\ \A i \in 1 .. Len(s) - 1 : (a \o b)[i] = IF i <= p - 1 THEN a[i] ELSE b[i - (p - 1)]
    <3>1. /\ a \o b \in Seq(S) /\ Len(a \o b) = Len(a) + Len(b)
          /\ \A i \in 1 .. Len(a) + Len(b) : (a \o b)[i] = IF i <= Len(a) THEN a[i] ELSE b[i - Len(a)]
      BY <2>2, <2>3, ConcatProperties
    <3>2. Len(a) + Len(b) = Len(s) - 1
      BY <1>1, <2>1, <2>2, <2>3
    <3> QED
      BY <2>2, <3>1, <3>2
  <2>5. ASSUME NEW i \in 1 .. Len(s) - 1
        PROVE  (a \o b)[i] = IF i < p THEN s[i] ELSE s[i + 1]
    <3>1. CASE i < p
      <4>1. i \in 1 .. p - 1 /\ i <= p - 1
        BY <2>1, <3>1
      <4> QED
        BY <2>2, <2>4, <3>1, <4>1
    <3>2. CASE ~(i < p)
      <4>1. i - (p - 1) \in 1 .. Len(s) - p /\ ~(i <= p - 1) /\ p + (i - (p - 1)) = i + 1
        BY <1>1, <2>1, <3>2
      <4> QED
        BY <2>3, <2>4, <3>2, <4>1
    <3> QED
      BY <3>1, <3>2
  <2>6. a \o b = [i \in 1 .. Len(s) - 1 |-> (a \o b)[i]]
    <3>1. Len(s) - 1 \in Nat
      BY <1>1, <2>1
    <3>2. a \o b \in [1 .. Len(s) - 1 -> S]
      BY <2>4, <3>1, ListIsFcn
    <3> QED
      BY <3>2
  <2> QED
    BY <2>5, <2>6 DEF Without, a, b
<1> QED
  BY <1>4, <1>6, <1>7, WithoutList


-----------------------------------------------------------------------------
(* Size classes *)

\* There is a power of two beyond every number.
LEMMA Pow2Grows ==
  ASSUME NEW n \in Nat
  PROVE  n < Pow2[n]
<1> SUFFICES ASSUME ~(n < Pow2[n]) PROVE FALSE
  OBVIOUS
<1> DEFINE S == {i \in Nat : ~(i < Pow2[i])}
<1>1. PICK m \in S : \A i \in S : m <= i
  <2>1. S \in SUBSET Nat /\ n \in S
    OBVIOUS
  <2> HIDE DEF S
  <2> QED
    BY <2>1, HasSmallest
<1>2. m # 0 /\ m \in Nat
  BY Pow2Def
<1>3. m - 1 \in Nat /\ (m - 1) + 1 = m /\ ~(m <= m - 1)
  BY <1>2
<1>4. m - 1 < Pow2[m - 1] /\ Pow2[m - 1] \in Nat
  BY <1>1, <1>3, Pow2Def
<1>5. Pow2[m] = 2 * Pow2[m - 1]
  BY <1>3, Pow2Def
<1> QED
  BY <1>1, <1>2, <1>3, <1>4, <1>5

\* Fls is the position of the highest bit.
LEMMA FlsProps ==
  ASSUME NEW v \in Nat, v >= 1
  PROVE  /\ Fls(v) \in Nat /\ Pow2[Fls(v)] \in Nat
         /\ Pow2[Fls(v)] <= v /\ v < 2 * Pow2[Fls(v)]
<1> DEFINE S == {i \in Nat : v < Pow2[i]}
<1>1. PICK m \in S : \A i \in S : m <= i
  <2>1. S \in SUBSET Nat /\ v \in S
    BY Pow2Grows
  <2> HIDE DEF S
  <2> QED
    BY <2>1, HasSmallest
<1>2. m \in Nat /\ v < Pow2[m] /\ m # 0
  BY Pow2Def
<1>3. m - 1 \in Nat /\ (m - 1) + 1 = m /\ ~(m <= m - 1)
  BY <1>2
<1>4. ~(v < Pow2[m - 1]) /\ Pow2[m - 1] \in Nat
  BY <1>1, <1>3, Pow2Def
<1>5. m - 1 \in 0 .. v
  <2>1. m - 1 < Pow2[m - 1]
    BY <1>3, Pow2Grows
  <2> QED
    BY <1>3, <1>4, <2>1
<1>6. \E k \in 0 .. v : Pow2[k] <= v /\ v < Pow2[k + 1]
  BY <1>2, <1>3, <1>4, <1>5
<1>7. Fls(v) \in 0 .. v /\ Pow2[Fls(v)] <= v /\ v < Pow2[Fls(v) + 1]
  BY <1>6 DEF Fls
<1>8. Fls(v) \in Nat
  BY <1>7
<1> HIDE DEF S
<1> QED
  BY <1>7, <1>8, Pow2Def

\* Larger numbers have no lower highest bit.
LEMMA FlsMono ==
  ASSUME NEW v \in Nat, NEW w \in Nat, v >= 1, v <= w
  PROVE  Fls(v) <= Fls(w)
<1>1. w >= 1
  OBVIOUS
<1>2. /\ Fls(v) \in Nat /\ Pow2[Fls(v)] \in Nat /\ Pow2[Fls(v)] <= v
      /\ Fls(w) \in Nat /\ Pow2[Fls(w)] \in Nat /\ w < 2 * Pow2[Fls(w)]
  BY <1>1, FlsProps
<1> SUFFICES ASSUME Fls(w) < Fls(v) PROVE FALSE
  BY <1>2
<1>3. 2 * Pow2[Fls(w)] <= Pow2[Fls(v)]
  BY <1>2, Pow2Mono
<1> QED
  BY <1>2, <1>3

\* There is only one.
LEMMA FlsUnique ==
  ASSUME NEW v \in Nat, v >= 1, NEW k \in Nat, Pow2[k] <= v, v < 2 * Pow2[k]
  PROVE  Fls(v) = k
<1>1. /\ Fls(v) \in Nat /\ Pow2[Fls(v)] \in Nat /\ Pow2[Fls(v)] <= v /\ v < 2 * Pow2[Fls(v)]
      /\ Pow2[k] \in Nat
  BY FlsProps, Pow2Def
<1>2. ~(Fls(v) < k)
  <2> SUFFICES ASSUME Fls(v) < k PROVE FALSE
    OBVIOUS
  <2>1. 2 * Pow2[Fls(v)] <= Pow2[k]
    BY <1>1, Pow2Mono
  <2> QED
    BY <1>1, <2>1
<1>3. ~(k < Fls(v))
  <2> SUFFICES ASSUME k < Fls(v) PROVE FALSE
    OBVIOUS
  <2>1. 2 * Pow2[k] <= Pow2[Fls(v)]
    BY <1>1, Pow2Mono
  <2> QED
    BY <1>1, <2>1
<1> QED
  BY <1>1, <1>2, <1>3

\* Quotient and remainder.
LEMMA DivProps ==
  ASSUME NEW x \in Nat, NEW g \in Nat, g >= 1
  PROVE  x \div g \in Nat /\ (x \div g) * g <= x /\ x < (x \div g) * g + g
<1>1. x = (x \div g) * g + (x % g) /\ x % g \in 0 .. (g - 1) /\ x \div g \in Nat
  OBVIOUS
<1>2. (x \div g) * g \in Nat
  BY <1>1
<1> QED
  BY <1>1, <1>2

\* The quotient is the only number with that property.
LEMMA DivUnique ==
  ASSUME NEW x \in Nat, NEW g \in Nat, g >= 1, NEW q \in Nat, q * g <= x, x < q * g + g
  PROVE  x \div g = q
<1> DEFINE d == x \div g
<1>1. d \in Nat /\ d * g <= x /\ x < d * g + g
  BY DivProps
<1> HIDE DEF d
<1>2. d * g \in Nat /\ q * g \in Nat
  BY <1>1
<1>3. ~(d < q)
  <2> SUFFICES ASSUME d < q PROVE FALSE
    OBVIOUS
  <2>1. d + 1 \in Nat /\ d + 1 <= q
    BY <1>1
  <2>2. (d + 1) * g <= q * g
    BY <2>1, MulMono
  <2>3. (d + 1) * g = d * g + g
    BY <1>1
  <2> QED
    BY <1>1, <1>2, <2>2, <2>3
<1>4. ~(q < d)
  <2> SUFFICES ASSUME q < d PROVE FALSE
    OBVIOUS
  <2>1. q + 1 \in Nat /\ q + 1 <= d
    BY <1>1
  <2>2. (q + 1) * g <= d * g
    BY <1>1, <2>1, MulMono
  <2>3. (q + 1) * g = q * g + g
    BY <1>1
  <2> QED
    BY <1>1, <1>2, <2>2, <2>3
<1> QED
  BY <1>1, <1>3, <1>4 DEF d

\* A multiple below another is at least one step below it.
LEMMA MultiplesLow ==
  ASSUME NEW k \in Nat, NEW m \in Nat, NEW p \in Nat, k * p < m * p
  PROVE  k * p + p <= m * p
<1>1. k * p \in Nat /\ m * p \in Nat
  OBVIOUS
<1>2. ~(m <= k)
  <2> SUFFICES ASSUME m <= k PROVE FALSE
    OBVIOUS
  <2>1. m * p <= k * p
    BY MulMono
  <2> QED
    BY <1>1, <2>1
<1>3. k + 1 \in Nat /\ k + 1 <= m
  BY <1>2
<1>4. (k + 1) * p <= m * p
  BY <1>3, MulMono
<1>5. (k + 1) * p = k * p + p
  OBVIOUS
<1> QED
  BY <1>4, <1>5

\* The row of x and its place in the row, before the leading bit is dropped.
Grain(x) == Pow2[Fls(x) - SlLog2]
Place(x) == x \div Grain(x)

\* The rows of numbers that are large enough.
LEMMA RowProps ==
  ASSUME NEW x \in Nat, Pow2[SlLog2] <= x
  PROVE  /\ Fls(x) \in Nat /\ Fls(x) - SlLog2 \in Nat /\ Grain(x) \in Nat /\ Grain(x) >= 1
         /\ Place(x) \in Nat /\ Place(x) * Grain(x) <= x /\ x < Place(x) * Grain(x) + Grain(x)
         /\ Pow2[SlLog2] \in Nat /\ Pow2[SlLog2] >= 1
         /\ Pow2[Fls(x)] = Pow2[SlLog2] * Grain(x)
         /\ Pow2[SlLog2] <= Place(x) /\ Place(x) < 2 * Pow2[SlLog2]
         /\ ClassOfBytes(x) = <<Fls(x) - FlShift, Place(x) - Pow2[SlLog2]>>
<1> DEFINE k == Fls(x)
           L == Pow2[SlLog2]
           g == Grain(x)
           q == Place(x)
<1>0. SlLog2 \in Nat
  BY TlsfAssumption
<1>1. L \in Nat /\ L >= 1 /\ x >= 1
  BY <1>0, Pow2Pos
<1>2. k \in Nat /\ Pow2[k] \in Nat /\ Pow2[k] <= x /\ x < 2 * Pow2[k]
  BY <1>1, FlsProps
<1>3. k - SlLog2 \in Nat
  <2> SUFFICES ASSUME k < SlLog2 PROVE FALSE
    BY <1>0, <1>2
  <2>1. 2 * Pow2[k] <= L
    BY <1>0, <1>2, Pow2Mono
  <2> QED
    BY <1>1, <1>2, <2>1
<1>4. g \in Nat /\ g >= 1
  BY <1>3, Pow2Pos DEF Grain
<1>5. Pow2[k] = L * g
  <2>1. (k - SlLog2) + SlLog2 = k
    BY <1>0, <1>2
  <2> QED
    BY <1>0, <1>3, <2>1, Pow2Split DEF Grain
<1>6. q \in Nat /\ q * g <= x /\ x < q * g + g
  BY <1>4, DivProps DEF Place
<1> HIDE DEF k, L, g, q
<1>7. q * g \in Nat /\ L * g \in Nat
  BY <1>1, <1>4, <1>6
<1>8. L <= q
  <2> SUFFICES ASSUME q < L PROVE FALSE
    BY <1>1, <1>6
  <2>1. q + 1 \in Nat /\ q + 1 <= L
    BY <1>1, <1>6
  <2>2. (q + 1) * g <= L * g
    BY <1>1, <1>4, <2>1, MulMono
  <2>3. (q + 1) * g = q * g + g
    BY <1>4, <1>6
  <2> QED
    BY <1>2, <1>4, <1>5, <1>6, <1>7, <2>2, <2>3
<1>9. q < 2 * L
  <2> SUFFICES ASSUME 2 * L <= q PROVE FALSE
    BY <1>1, <1>6
  <2>1. (2 * L) * g <= q * g
    BY <1>1, <1>4, <1>6, MulMono
  <2>2. (2 * L) * g = 2 * (L * g)
    BY <1>1, <1>4
  <2> QED
    BY <1>2, <1>5, <1>6, <1>7, <2>1, <2>2
<1>10. q % L = q - L
  <2> DEFINE e == q - L
  <2>1. e \in Nat /\ e < L /\ q = L + e
    BY <1>1, <1>6, <1>8, <1>9
  <2> HIDE DEF e
  <2>2. q \div L = 1
    <3>1. 1 * L <= q /\ q < 1 * L + L
      BY <1>1, <2>1
    <3> QED
      BY <1>1, <1>6, <3>1, DivUnique
  <2>3. q = (q \div L) * L + (q % L) /\ q % L \in Nat
    BY <1>1, <1>6
  <2> QED
    BY <1>1, <1>6, <2>2, <2>3
<1>11. ClassOfBytes(x) = <<k - FlShift, q % L>>
  BY DEF ClassOfBytes, k, L, q, Place, Grain
<1> QED
  BY <1>1, <1>2, <1>3, <1>4, <1>5, <1>6, <1>8, <1>9, <1>10, <1>11 DEF k, L, g, q

\* The order of classes: rows first.
Below(c, d) == c[1] < d[1] \/ (c[1] = d[1] /\ c[2] < d[2])

\* The constants are what a sheet has.
LEMMA Consts ==
  /\ BlockAlign \in Nat /\ BlockAlign >= 1 /\ Total \in Nat /\ Total >= 2 /\ UsizeMax \in Nat
  /\ FlShift \in Nat /\ Pow2[FlShift] \in Nat /\ Pow2[FlShift] <= 2 * BlockAlign
  /\ Pow2[SlLog2] \in Nat /\ Pow2[SlLog2] <= 2 * BlockAlign /\ SlLog2 \in Nat
<1>1. /\ BlockAlign \in Nat /\ BlockAlign >= 1 /\ Total \in Nat /\ Total >= 2 /\ UsizeMax \in Nat
      /\ SlLog2 \in Nat
  BY TlsfAssumption
<1>2. 2 * BlockAlign \in Nat /\ 2 * BlockAlign >= 1
  BY <1>1
<1>3. FlShift \in Nat /\ Pow2[FlShift] \in Nat /\ Pow2[FlShift] <= 2 * BlockAlign
  BY <1>2, FlsProps DEF FlShift, MinUnits
<1>4. SlLog2 <= FlShift
  BY SheetAssumption
<1>5. Pow2[SlLog2] <= Pow2[FlShift] /\ Pow2[SlLog2] \in Nat
  BY <1>1, <1>3, <1>4, Pow2Mono, Pow2Pos
<1> QED
  BY <1>1, <1>3, <1>5

\* The bytes of a block.
LEMMA BytesProps ==
  ASSUME NEW u \in Nat, u >= MinUnits
  PROVE  u * BlockAlign \in Nat /\ 2 * BlockAlign <= u * BlockAlign
         /\ Pow2[SlLog2] <= u * BlockAlign /\ Pow2[FlShift] <= u * BlockAlign
<1>1. BlockAlign \in Nat /\ 2 \in Nat /\ 2 <= u
  BY Consts DEF MinUnits
<1>2. 2 * BlockAlign <= u * BlockAlign
  BY <1>1, MulMono
<1>3. u * BlockAlign \in Nat /\ 2 * BlockAlign \in Nat
  BY <1>1
<1> QED
  BY <1>2, <1>3, Consts

\* Larger sizes have no lower class.
LEMMA ClassMono ==
  ASSUME NEW x \in Nat, NEW y \in Nat, Pow2[SlLog2] <= x, x <= y
  PROVE  ~Below(ClassOfBytes(y), ClassOfBytes(x))
<1>1. Pow2[SlLog2] \in Nat /\ FlShift \in Nat
  BY Consts
<1>2. Pow2[SlLog2] <= y /\ x >= 1
  <2>1. Pow2[SlLog2] >= 1
    BY Consts, Pow2Pos
  <2> QED
    BY <1>1, <2>1
<1>3. /\ Fls(x) \in Nat /\ Grain(x) \in Nat /\ Grain(x) >= 1
      /\ Place(x) \in Nat /\ Place(x) * Grain(x) <= x
      /\ ClassOfBytes(x) = <<Fls(x) - FlShift, Place(x) - Pow2[SlLog2]>>
  BY RowProps
<1>4. /\ Fls(y) \in Nat /\ Grain(y) \in Nat /\ Grain(y) >= 1
      /\ Place(y) \in Nat /\ y < Place(y) * Grain(y) + Grain(y)
      /\ ClassOfBytes(y) = <<Fls(y) - FlShift, Place(y) - Pow2[SlLog2]>>
  BY <1>2, RowProps
<1>5. Fls(x) <= Fls(y)
  BY <1>2, FlsMono
<1>6. Fls(x) = Fls(y) => Place(x) <= Place(y)
  <2> SUFFICES ASSUME Fls(x) = Fls(y), Place(y) < Place(x) PROVE FALSE
    BY <1>3, <1>4
  <2> DEFINE g == Grain(x)
             q == Place(x)
             r == Place(y)
  <2>1. Grain(y) = g
    BY DEF Grain
  <2>2. g \in Nat /\ q \in Nat /\ r \in Nat /\ q * g <= x /\ y < r * g + g /\ r < q
    BY <1>3, <1>4, <2>1
  <2> HIDE DEF g, q, r
  <2>3. (r + 1) * g <= q * g
    BY <2>2, MulMono
  <2>4. (r + 1) * g = r * g + g /\ r * g \in Nat /\ q * g \in Nat
    BY <2>2
  <2> QED
    BY <2>2, <2>3, <2>4
<1>7. Below(ClassOfBytes(y), ClassOfBytes(x)) <=> Fls(y) < Fls(x) \/ (Fls(y) = Fls(x) /\ Place(y) < Place(x))
  <2>1. Below(<<Fls(y) - FlShift, Place(y) - Pow2[SlLog2]>>, <<Fls(x) - FlShift, Place(x) - Pow2[SlLog2]>>)
          <=> Fls(y) < Fls(x) \/ (Fls(y) = Fls(x) /\ Place(y) < Place(x))
    <3>1. /\ Fls(x) \in Nat /\ Fls(y) \in Nat /\ Place(x) \in Nat /\ Place(y) \in Nat
          /\ FlShift \in Nat /\ Pow2[SlLog2] \in Nat
      BY <1>1, <1>3, <1>4
    <3> QED
      BY <3>1 DEF Below
  <2> QED
    BY <1>3, <1>4, <2>1, Zenon
<1>8. ~(Fls(y) < Fls(x) \/ (Fls(y) = Fls(x) /\ Place(y) < Place(x)))
  BY <1>3, <1>4, <1>5, <1>6
<1> QED
  BY <1>7, <1>8, Zenon

\* Every block of the class that a size is rounded up to is large enough.
LEMMA RoundedUp ==
  ASSUME NEW x \in Nat, NEW b \in Nat, Pow2[SlLog2] <= x, x < b
  PROVE  /\ Pow2[SlLog2] <= b /\ Grain(b) \in Nat /\ b + Grain(b) - 1 \in Nat
         /\ b <= b + Grain(b) - 1
         /\ Below(ClassOfBytes(x), ClassOfBytes(b + Grain(b) - 1))
<1> DEFINE L == Pow2[SlLog2]
           g == Grain(b)
           y == b + g - 1
<1>1. L \in Nat /\ FlShift \in Nat /\ L <= x /\ L <= b /\ b >= 1
  BY Consts
<1>2. g \in Nat /\ g >= 1 /\ Fls(b) \in Nat
  BY <1>1, RowProps
<1>3. y \in Nat /\ b <= y /\ L <= y /\ x < y /\ x >= 1
  <2>1. L >= 1
    BY Consts, Pow2Pos
  <2> HIDE DEF L, g
  <2> QED
    BY <1>1, <1>2, <2>1
<1>4. /\ Fls(x) \in Nat /\ Grain(x) \in Nat /\ Grain(x) >= 1
      /\ Place(x) \in Nat /\ Place(x) * Grain(x) <= x
      /\ ClassOfBytes(x) = <<Fls(x) - FlShift, Place(x) - L>>
  BY RowProps
<1>5. /\ Fls(y) \in Nat /\ Grain(y) \in Nat /\ Grain(y) >= 1
      /\ Place(y) \in Nat /\ y < Place(y) * Grain(y) + Grain(y)
      /\ ClassOfBytes(y) = <<Fls(y) - FlShift, Place(y) - L>>
  <2> HIDE DEF y
  <2> QED
    BY <1>3, RowProps
<1>6. Fls(x) <= Fls(b) /\ Fls(b) <= Fls(y)
  <2> HIDE DEF y
  <2> QED
    BY <1>1, <1>3, FlsMono
<1>7. Fls(x) = Fls(y) => Place(x) < Place(y)
  <2> SUFFICES ASSUME Fls(x) = Fls(y), Place(y) <= Place(x) PROVE FALSE
    BY <1>4, <1>5
  <2>1. Fls(b) = Fls(y)
    BY <1>2, <1>4, <1>5, <1>6
  <2>2. Grain(x) = g /\ Grain(y) = g
    BY <2>1 DEF Grain
  <2> DEFINE q == Place(x)
             r == Place(y)
  <2>3. q \in Nat /\ r \in Nat /\ q * g <= x /\ y < r * g + g /\ r <= q
    BY <1>4, <1>5, <2>2
  <2>4. y = b + g - 1
    OBVIOUS
  <2> HIDE DEF g, q, r, y
  <2>5. r * g <= q * g /\ r * g \in Nat /\ q * g \in Nat
    BY <1>2, <2>3, MulMono
  <2> QED
    BY <1>2, <1>3, <2>3, <2>4, <2>5
<1> HIDE DEF y
<1>8. Below(ClassOfBytes(x), ClassOfBytes(y))
  <2>1. Below(<<Fls(x) - FlShift, Place(x) - L>>, <<Fls(y) - FlShift, Place(y) - L>>)
          <=> Fls(x) < Fls(y) \/ (Fls(x) = Fls(y) /\ Place(x) < Place(y))
    <3>1. /\ Fls(x) \in Nat /\ Fls(y) \in Nat /\ Place(x) \in Nat /\ Place(y) \in Nat
          /\ FlShift \in Nat /\ L \in Nat
      BY <1>1, <1>4, <1>5
    <3> HIDE DEF L
    <3> QED
      BY <3>1 DEF Below
  <2>2. Fls(x) < Fls(y) \/ (Fls(x) = Fls(y) /\ Place(x) < Place(y))
    <3>1. Fls(x) \in Nat /\ Fls(y) \in Nat /\ Fls(b) \in Nat
      BY <1>2, <1>4, <1>5
    <3> QED
      BY <1>6, <1>7, <3>1
  <2> QED
    BY <1>4, <1>5, <2>1, <2>2, Zenon
<1> QED
  BY <1>1, <1>2, <1>3, <1>8 DEF y

\* The pool has a row for each of its sizes.
LEMMA FlCountIs ==
  /\ FlCount \in Nat /\ FlCount >= 1 /\ FlCount = Fls(Total * BlockAlign) - FlShift + 1
  /\ Fls(Total * BlockAlign) \in Nat /\ Total * BlockAlign \in Nat
<1> DEFINE X == Fls(Total * BlockAlign) - FlShift + 1
           Y == Min({FlLimit, X})
<1>1. Total \in Nat /\ Total >= MinUnits
  BY Consts DEF MinUnits
<1>2. Total * BlockAlign \in Nat /\ 2 * BlockAlign <= Total * BlockAlign
  BY <1>1, BytesProps
<1>3. 2 * BlockAlign \in Nat /\ 2 * BlockAlign >= 1 /\ FlShift \in Nat /\ FlShift = Fls(2 * BlockAlign)
  BY Consts DEF FlShift, MinUnits
<1>4. FlShift <= Fls(Total * BlockAlign)
  BY <1>2, <1>3, FlsMono
<1>5. Fls(Total * BlockAlign) \in Nat
  <2>1. Total * BlockAlign >= 1
    BY <1>2, <1>3
  <2> QED
    BY <1>2, <2>1, FlsProps
<1>6. FlLimit \in Nat /\ X \in Nat /\ X >= 1 /\ X <= FlLimit
  BY <1>3, <1>4, <1>5, TlsfAssumption, SheetAssumption
<1>7. FlCount = Max({1, Y})
  BY DEF FlCount
<1> HIDE DEF X
<1>8. Y = X
  <2>1. \E m \in {FlLimit, X} : \A n \in {FlLimit, X} : m <= n
    BY <1>6
  <2>2. Y \in {FlLimit, X} /\ \A n \in {FlLimit, X} : Y <= n
    BY <2>1 DEF Min
  <2> QED
    BY <1>6, <2>2
<1> HIDE DEF Y
<1>9. Max({1, Y}) = X
  <2>1. \E m \in {1, X} : \A n \in {1, X} : m >= n
    BY <1>6
  <2>2. Max({1, X}) \in {1, X} /\ \A n \in {1, X} : Max({1, X}) >= n
    BY <2>1 DEF Max
  <2> QED
    BY <1>6, <1>8, <2>2
<1>10. FlCount = X
  BY <1>7, <1>9
<1> QED
  BY <1>2, <1>5, <1>6, <1>10 DEF X

\* Every block of the pool has a class.
LEMMA InsertClass ==
  ASSUME NEW u \in Nat, u >= MinUnits
  PROVE  /\ MappingInsert(u) = ClassOfBytes(u * BlockAlign)
         /\ MappingInsert(u) \in Nat \X (0 .. Pow2[SlLog2] - 1)
         /\ u <= Total => MappingInsert(u) \in Classes
<1> DEFINE x == u * BlockAlign
           L == Pow2[SlLog2]
<1>1. x \in Nat /\ L <= x /\ Pow2[FlShift] <= x /\ 2 * BlockAlign <= x
  BY BytesProps
<1>2. MappingInsert(u) = ClassOfBytes(x)
  BY DEF MappingInsert
<1>3. FlShift \in Nat /\ L \in Nat /\ 2 * BlockAlign \in Nat /\ 2 * BlockAlign >= 1
      /\ FlShift = Fls(2 * BlockAlign)
  BY Consts DEF FlShift, MinUnits
<1> HIDE DEF x
<1>4. /\ Fls(x) \in Nat /\ Place(x) \in Nat /\ L <= Place(x) /\ Place(x) < 2 * L
      /\ ClassOfBytes(x) = <<Fls(x) - FlShift, Place(x) - L>>
  BY <1>1, RowProps
<1> HIDE DEF L
<1>5. FlShift <= Fls(x)
  BY <1>1, <1>3, FlsMono
<1>6. Fls(x) - FlShift \in Nat /\ Place(x) - L \in 0 .. L - 1
  BY <1>3, <1>4, <1>5
<1>7. MappingInsert(u) \in Nat \X (0 .. L - 1)
  BY <1>2, <1>4, <1>6
<1>8. ASSUME u <= Total
      PROVE  MappingInsert(u) \in Classes
  <2>1. x <= Total * BlockAlign
    <3>1. Total \in Nat /\ BlockAlign \in Nat
      BY Consts
    <3> QED
      BY <1>8, <3>1, MulMono DEF x
  <2>2. Total * BlockAlign \in Nat /\ x >= 1
    BY <1>1, <1>3, FlCountIs
  <2>3. Fls(x) <= Fls(Total * BlockAlign)
    BY <1>1, <2>1, <2>2, FlsMono
  <2>4. Fls(x) - FlShift \in 0 .. FlCount - 1
    <3>1. Fls(Total * BlockAlign) \in Nat /\ FlCount = Fls(Total * BlockAlign) - FlShift + 1
      BY FlCountIs
    <3> HIDE DEF x
    <3> QED
      BY <1>3, <1>4, <1>5, <2>3, <3>1
  <2> QED
    BY <1>2, <1>4, <1>6, <2>4 DEF Classes, L
<1> QED
  BY <1>2, <1>7, <1>8 DEF x, L

\* A request that the sum of mapping_search does not wrap for.
Small(u) == u \in Nat /\ u >= MinUnits /\ 2 * u * BlockAlign <= UsizeMax + 1

\* The class a request is looked for from.
LEMMA SearchSum ==
  ASSUME NEW u, Small(u), NEW b, b = u * BlockAlign
  PROVE  /\ b \in Nat /\ Pow2[SlLog2] <= b /\ b + Grain(b) - 1 \in Nat /\ b <= b + Grain(b) - 1
         /\ Grain(b) \in Nat /\ Grain(b) >= 1
         /\ MappingSearch(u) = ClassOfBytes(b + Grain(b) - 1)
<1> DEFINE g == Grain(b)
           L == Pow2[SlLog2]
<1>1. u \in Nat /\ u >= MinUnits /\ 2 * u * BlockAlign <= UsizeMax + 1 /\ BlockAlign \in Nat /\ UsizeMax \in Nat
  BY Consts DEF Small
<1>2. b \in Nat /\ L <= b /\ 2 * u * BlockAlign = 2 * b
  BY <1>1, BytesProps
<1>3. g \in Nat /\ g >= 1 /\ Place(b) \in Nat /\ Place(b) * g <= b /\ L <= Place(b) /\ L >= 1 /\ L \in Nat
  BY <1>2, RowProps
<1> HIDE DEF g, L
<1>4. g <= b
  <2>1. 1 * g <= Place(b) * g
    BY <1>3, MulMono
  <2>2. Place(b) * g \in Nat /\ 1 * g = g
    BY <1>3
  <2> QED
    BY <1>2, <1>3, <2>1, <2>2
<1>5. b + g - 1 \in Nat /\ b <= b + g - 1 /\ b + g - 1 < UsizeMax + 1
  BY <1>1, <1>2, <1>3, <1>4
<1>6. (b + g - 1) % (UsizeMax + 1) = b + g - 1
  <2> DEFINE y == b + g - 1
             m == UsizeMax + 1
  <2>1. y \in Nat /\ m \in Nat /\ m >= 1 /\ y < m
    BY <1>1, <1>5
  <2> HIDE DEF y, m
  <2>2. y \div m = 0
    BY <2>1, DivUnique
  <2>3. y = (y \div m) * m + (y % m) /\ y % m \in Nat
    BY <2>1
  <2>4. y % m = y
    BY <2>1, <2>2, <2>3
  <2> QED
    BY <2>4 DEF y, m
<1>7. MappingSearch(u) = ClassOfBytes((b + g - 1) % (UsizeMax + 1))
  BY DEF MappingSearch, g, Grain
<1> QED
  BY <1>2, <1>3, <1>5, <1>6, <1>7 DEF g, L

\* Blocks of that class and of the ones above are large enough.
LEMMA SearchFits ==
  ASSUME NEW u, Small(u), NEW w \in Nat, w >= MinUnits, ~Below(MappingInsert(w), MappingSearch(u))
  PROVE  u <= w
<1> SUFFICES ASSUME ~(u <= w) PROVE FALSE
  OBVIOUS
<1> DEFINE x == w * BlockAlign
           b == u * BlockAlign
<1>1. u \in Nat /\ BlockAlign \in Nat /\ BlockAlign >= 1 /\ w + 1 <= u
  BY Consts DEF Small
<1>2. x \in Nat /\ Pow2[SlLog2] <= x /\ MappingInsert(w) = ClassOfBytes(x)
  BY BytesProps, InsertClass
<1>3. b \in Nat /\ MappingSearch(u) = ClassOfBytes(b + Grain(b) - 1)
  BY SearchSum
<1>4. x < b
  <2>1. (w + 1) * BlockAlign <= u * BlockAlign
    BY <1>1, MulMono
  <2>2. (w + 1) * BlockAlign = w * BlockAlign + BlockAlign
    BY <1>1
  <2> QED
    BY <1>1, <1>2, <1>3, <2>1, <2>2
<1> HIDE DEF x, b
<1>5. Below(ClassOfBytes(x), ClassOfBytes(b + Grain(b) - 1))
  BY <1>2, <1>3, <1>4, RoundedUp
<1> QED
  BY <1>2, <1>3, <1>5

\* Sizes from one multiple of a class's width to the next have one class, also
\* where the next row begins.
LEMMA OneClass ==
  ASSUME NEW b \in Nat, Pow2[SlLog2] <= b, NEW q \in Nat, Pow2[SlLog2] <= q, q <= 2 * Pow2[SlLog2],
         NEW z \in Nat, q * Grain(b) <= z, z < q * Grain(b) + Grain(b)
  PROVE  /\ Pow2[SlLog2] <= z
         /\ ClassOfBytes(z) = IF q < 2 * Pow2[SlLog2] THEN <<Fls(b) - FlShift, q - Pow2[SlLog2]>>
                              ELSE <<(Fls(b) + 1) - FlShift, 0>>
<1> DEFINE L == Pow2[SlLog2]
           g == Grain(b)
           k == Fls(b)
<1>1. /\ k \in Nat /\ k - SlLog2 \in Nat /\ g \in Nat /\ g >= 1 /\ L \in Nat /\ L >= 1
      /\ Pow2[k] = L * g
  BY RowProps
<1>2. SlLog2 \in Nat /\ FlShift \in Nat /\ g = Pow2[k - SlLog2]
  BY Consts DEF Grain
<1>3. L * g \in Nat /\ q * g \in Nat /\ (2 * L) * g = 2 * (L * g) /\ L * 1 <= L * g /\ L * g <= q * g
  <2>1. L * g \in Nat /\ q * g \in Nat /\ (2 * L) * g = 2 * (L * g)
    <3> HIDE DEF L, g
    <3> QED
      BY <1>1
  <2>2. 1 * L <= g * L /\ L * g <= q * g
    <3> HIDE DEF L, g
    <3> QED
      BY <1>1, MulMono DEF L
  <2> HIDE DEF L, g
  <2> QED
    BY <1>1, <2>1, <2>2
<1>4. q * g <= z /\ z < q * g + g /\ L <= q /\ q <= 2 * L
  OBVIOUS
<1> HIDE DEF L, g, k
<1>5. L <= z /\ z >= 1
  BY <1>1, <1>3, <1>4
<1>6. ClassOfBytes(z) = <<Fls(z) - FlShift, Place(z) - L>>
  BY <1>5, RowProps DEF L
<1>7. CASE q < 2 * L
  <2>1. q * g + g <= (2 * L) * g
    <3>1. (q + 1) * g <= (2 * L) * g
      <4>1. q + 1 \in Nat /\ 2 * L \in Nat /\ q + 1 <= 2 * L
        BY <1>1, <1>7
      <4> QED
        BY <1>1, <4>1, MulMono
    <3>2. (q + 1) * g = q * g + g
      BY <1>1
    <3> QED
      BY <3>1, <3>2
  <2>2. Fls(z) = k
    <3>1. Pow2[k] <= z /\ z < 2 * Pow2[k]
      BY <1>1, <1>3, <1>4, <2>1
    <3> QED
      BY <1>1, <1>5, <3>1, FlsUnique
  <2>3. Grain(z) = g
    BY <1>2, <2>2 DEF Grain
  <2>4. Place(z) = q
    BY <1>1, <1>4, <2>3, DivUnique DEF Place
  <2>5. ClassOfBytes(z) = <<k - FlShift, q - L>>
    BY <1>6, <2>2, <2>4
  <2> QED
    BY <1>5, <1>7, <2>5 DEF L, k
<1>8. CASE ~(q < 2 * L)
  <2>1. q = 2 * L
    BY <1>1, <1>4, <1>8
  <2>2. k + 1 \in Nat /\ Pow2[k + 1] = 2 * (L * g)
    BY <1>1, Pow2Def
  <2>3. g <= L * g
    <3>1. 1 * g <= L * g
      BY <1>1, MulMono
    <3> QED
      BY <1>1, <3>1
  <2>4. 2 * (L * g) <= z /\ z < 2 * (L * g) + g
    BY <1>3, <1>4, <2>1
  <2>5. Fls(z) = k + 1
    <3>1. Pow2[k + 1] <= z /\ z < 2 * Pow2[k + 1]
      BY <1>1, <1>3, <2>2, <2>3, <2>4
    <3> QED
      BY <1>5, <2>2, <3>1, FlsUnique
  <2>6. Grain(z) = 2 * g
    <3>1. (k + 1) - SlLog2 = (k - SlLog2) + 1
      BY <1>1, <1>2
    <3>2. Pow2[(k - SlLog2) + 1] = 2 * Pow2[k - SlLog2]
      BY <1>1, Pow2Def
    <3> QED
      BY <1>2, <2>5, <3>1, <3>2 DEF Grain
  <2>7. Place(z) = L
    <3> DEFINE h == 2 * g
    <3>1. L * h = 2 * (L * g) /\ h \in Nat /\ h >= 1
      BY <1>1
    <3>2. L * h <= z /\ z < L * h + h
      <4>1. h = 2 * g
        OBVIOUS
      <4> HIDE DEF h
      <4> QED
        BY <1>1, <1>3, <2>4, <3>1, <4>1
    <3>3. Grain(z) = h
      BY <2>6
    <3> HIDE DEF h
    <3> QED
      BY <1>1, <3>1, <3>2, <3>3, DivUnique DEF Place
  <2>8. ClassOfBytes(z) = <<(k + 1) - FlShift, 0>>
    <3>1. Fls(z) - FlShift = (k + 1) - FlShift
      BY <2>5
    <3>2. Place(z) - L = 0
      BY <1>1, <2>7
    <3> QED
      BY <1>6, <3>1, <3>2, Zenon
  <2> QED
    BY <1>5, <1>8, <2>8 DEF L, k
<1> QED
  BY <1>7, <1>8

\* A size rounded up to a multiple of the width of its class.
RoundUp(b) == ((b + Grain(b) - 1) \div Grain(b)) * Grain(b)

\* Blocks that have the rounded size are found.
LEMMA SearchCovers ==
  ASSUME NEW u, Small(u), NEW w \in Nat, w >= MinUnits, RoundUp(u * BlockAlign) <= w * BlockAlign
  PROVE  ~Below(MappingInsert(w), MappingSearch(u))
<1> DEFINE x == w * BlockAlign
           b == u * BlockAlign
           g == Grain(b)
           y == b + g - 1
           L == Pow2[SlLog2]
           q == y \div g
<1>1. b \in Nat /\ L <= b /\ y \in Nat /\ b <= y /\ MappingSearch(u) = ClassOfBytes(y)
  BY SearchSum
<1>2. /\ Fls(b) \in Nat /\ g \in Nat /\ g >= 1 /\ L \in Nat /\ L >= 1
      /\ Pow2[Fls(b)] = L * g
  BY <1>1, RowProps
<1>3. x \in Nat /\ MappingInsert(w) = ClassOfBytes(x)
  BY BytesProps, InsertClass
<1>4. q \in Nat /\ q * g <= y /\ y < q * g + g
  <2> HIDE DEF y, g
  <2> QED
    BY <1>1, <1>2, DivProps
<1>5. q * g <= x
  BY DEF RoundUp
<1>6. L * g <= b /\ b < 2 * (L * g)
  <2>1. b >= 1
    <3> HIDE DEF b, L
    <3> QED
      BY <1>1, <1>2
  <2> HIDE DEF b
  <2> QED
    BY <1>1, <1>2, <2>1, FlsProps
<1>7. y = b + g - 1
  OBVIOUS
<1> HIDE DEF x, b, g, y, L, q
<1>8. q * g \in Nat /\ L * g \in Nat /\ (2 * L) * g = 2 * (L * g)
  BY <1>2, <1>4
<1>9. L <= q
  <2> SUFFICES ASSUME q < L PROVE FALSE
    BY <1>2, <1>4
  <2>1. (q + 1) * g <= L * g
    BY <1>2, <1>4, MulMono
  <2>2. (q + 1) * g = q * g + g
    BY <1>2, <1>4
  <2> QED
    BY <1>1, <1>2, <1>4, <1>6, <1>8, <2>1, <2>2
<1>10. q <= 2 * L
  <2> SUFFICES ASSUME 2 * L < q PROVE FALSE
    BY <1>2, <1>4
  <2>1. (2 * L + 1) * g <= q * g
    BY <1>2, <1>4, MulMono
  <2>2. (2 * L + 1) * g = (2 * L) * g + g
    BY <1>2
  <2> QED
    BY <1>1, <1>2, <1>4, <1>6, <1>7, <1>8, <2>1, <2>2
<1>11. L <= y /\ ClassOfBytes(y) = IF q < 2 * L THEN <<Fls(b) - FlShift, q - L>>
                                   ELSE <<(Fls(b) + 1) - FlShift, 0>>
  BY <1>1, <1>4, <1>9, <1>10, OneClass DEF L, g
<1>12. CASE y <= x
  BY <1>1, <1>3, <1>11, <1>12, ClassMono DEF L
<1>13. CASE x < y
  <2>1. x < q * g + g
    BY <1>1, <1>2, <1>3, <1>4, <1>8, <1>13
  <2>2. L <= x /\ ClassOfBytes(x) = IF q < 2 * L THEN <<Fls(b) - FlShift, q - L>>
                                    ELSE <<(Fls(b) + 1) - FlShift, 0>>
    BY <1>1, <1>3, <1>4, <1>5, <1>9, <1>10, <2>1, OneClass DEF L, g
  <2>3. ClassOfBytes(x) = ClassOfBytes(y)
    BY <1>11, <2>2
  <2>4. x <= x
    BY <1>3
  <2>5. ~Below(ClassOfBytes(x), ClassOfBytes(x))
    BY <1>3, <2>2, <2>4, ClassMono DEF L
  <2> QED
    BY <1>1, <1>3, <2>3, <2>5
<1> QED
  BY <1>1, <1>3, <1>12, <1>13

-----------------------------------------------------------------------------
(* The chain of headers and what goes with it *)

\* The first units of the blocks that headers H describe, sentinels included.
HeadsOf(H) == {u \in Units : H[u].bsize > 0}
NextOf(H, b) == b + H[b].bsize

\* The headers are a doubly linked list of adjacent blocks from one sentinel to
\* the other.
Linked(H) ==
  /\ H \in [Units -> Headers]
  /\ \A b \in {0, EndSentinel} : H[b].bsize = 1 /\ H[b].flags = Alloc
  /\ \A b \in HeadsOf(H) : b # 0 /\ b # EndSentinel => H[b].bsize >= MinUnits
  /\ \A u \in Units : u \notin HeadsOf(H) => H[u].flags = Free
  /\ \A b \in HeadsOf(H) : b # EndSentinel =>
       /\ NextOf(H, b) \in HeadsOf(H)
       /\ H[NextOf(H, b)].prev = b
       /\ \A u \in HeadsOf(H) : u <= b \/ NextOf(H, b) <= u
  /\ \A b \in HeadsOf(H) : b # 0 =>
       /\ H[b].prev \in HeadsOf(H) /\ H[b].prev # EndSentinel
       /\ NextOf(H, H[b].prev) = b

FreeIn(H) == {b \in HeadsOf(H) : H[b].flags = Free}

\* No two free blocks are neighbours.
Merged(H) == \A b \in HeadsOf(H) : b # EndSentinel => ~(b \in FreeIn(H) /\ NextOf(H, b) \in FreeIn(H))

\* The lists of p hold the blocks F, each once in the list of its class, and
\* both bitmaps say which lists are not empty.
Shelved(p, F) ==
  /\ p.lists \in [Classes -> Seq(Units)]
  /\ \A c \in Classes :
       /\ IsInjective(p.lists[c])
       /\ \A b \in Units : Contains(p.lists[c], b) <=> b \in F /\ MappingInsert(p.hdr[b].bsize) = c
  /\ p.sl = {c \in Classes : p.lists[c] # <<>>}
  /\ p.fl = {c[1] : c \in p.sl}

Pools == [hdr : [Units -> Headers], lists : [Classes -> Seq(Units)],
          sl : SUBSET Classes, fl : SUBSET (0 .. FlCount - 1)]

Sound(p) == p \in Pools /\ Linked(p.hdr) /\ Merged(p.hdr) /\ Shelved(p, FreeIn(p.hdr))

UsedIn(H) == {u \in Units \ {0, EndSentinel} : H[u].flags # Free}
GoneIn(H) == {u \in UsedIn(H) : "tombstone" \in H[u].flags}

\* Block b was cut for a request of class c and is temporal or tombstoned.
Serves(H, c, b) ==
  /\ b \in UsedIn(H) /\ H[b].flags \in {Temporal, Tombstone}
  /\ \E n \in Sizes : LET k == AdjustedBlockSize(n)
                      IN k > 0 /\ c = MappingSearch(k) /\ H[b].bsize \in {k, k + 1}

\* A temporal slot names a block of the slot's class, and no block has two slots.
Slotted(H, a) ==
  /\ \A c \in Classes, r \in {1, 2} : a[c][r] # None => Serves(H, c, a[c][r])
  /\ \A c \in Classes : a[c][1] = None \/ a[c][2] = None
  /\ \A c, d \in Classes : \A r, q \in {1, 2} : a[c][r] # None /\ a[c][r] = a[d][q] => c = d

SpanIn(H, S) == {u \in Units : \E b \in S : b <= u /\ u < NextOf(H, b)}

Charged(H, n, m) == /\ n = Cardinality(SpanIn(H, UsedIn(H) \ GoneIn(H)))
                    /\ m = Cardinality(SpanIn(H, GoneIn(H)))

Actives == [Classes -> [1 .. 2 -> Units \cup {None}]]

Good(p, a, n, m) == Sound(p) /\ a \in Actives /\ Slotted(p.hdr, a) /\ Charged(p.hdr, n, m)

Holders(H, h) == h \in [Units -> Nat] /\ \A b \in Units : h[b] > 0 => b \in UsedIn(H)

IInv == /\ Good(pool, active, allocated, tombstoned)
        /\ rotor \in [Classes -> 1 .. 2]
        /\ Holders(pool.hdr, held)

\* Requests of one class differ by one unit at most.
Narrow ==
  \A n, m \in Sizes :
    LET k == AdjustedBlockSize(n)
        l == AdjustedBlockSize(m)
    IN k > 0 /\ l > 0 /\ MappingSearch(k) = MappingSearch(l) => k <= l + 1

-----------------------------------------------------------------------------
(* Cutting and joining blocks *)

\* K has the block at b cut in two at m.
Cut(H, K, b, m) ==
  /\ b \in HeadsOf(H) /\ b # 0 /\ b # EndSentinel
  /\ m \in Units /\ b + MinUnits <= m /\ m + MinUnits <= NextOf(H, b)
  /\ K \in [Units -> Headers]
  /\ K[b].bsize = m - b /\ K[b].flags = H[b].flags /\ K[b].prev = H[b].prev
  /\ K[m].bsize = NextOf(H, b) - m /\ K[m].flags = Free /\ K[m].prev = b
  /\ K[NextOf(H, b)].bsize = H[NextOf(H, b)].bsize
  /\ K[NextOf(H, b)].flags = H[NextOf(H, b)].flags
  /\ K[NextOf(H, b)].prev = m
  /\ \A u \in Units : u # b /\ u # m /\ u # NextOf(H, b) => K[u] = H[u]

\* K has one block from lo to hi.
Fuse(H, K, lo, hi) ==
  /\ lo \in HeadsOf(H) /\ hi \in HeadsOf(H) /\ lo # 0 /\ lo < hi
  /\ K \in [Units -> Headers]
  /\ K[lo].bsize = hi - lo /\ K[lo].prev = H[lo].prev
  /\ K[hi].bsize = H[hi].bsize /\ K[hi].flags = H[hi].flags /\ K[hi].prev = lo
  /\ \A u \in Units : lo < u /\ u < hi => K[u].bsize = 0 /\ K[u].flags = Free
  /\ \A u \in Units : u < lo \/ hi < u => K[u] = H[u]

\* K differs from H in the flags of b.
Flagged(H, K, b) ==
  /\ b \in HeadsOf(H) /\ b # 0 /\ b # EndSentinel
  /\ K \in [Units -> Headers]
  /\ K[b].bsize = H[b].bsize /\ K[b].prev = H[b].prev
  /\ \A u \in Units : u # b => K[u] = H[u]

\* Offsets are numbers.
LEMMA UnitFacts ==
  /\ EndSentinel \in Nat /\ EndSentinel = Total + 1 /\ 0 \in Units /\ EndSentinel \in Units
  /\ \A u \in Units : u \in Nat /\ u <= EndSentinel
  /\ \A u \in Nat : u <= EndSentinel => u \in Units
  /\ None \notin Units /\ Total \in Nat /\ Total >= 2
BY Consts, TlsfAssumption DEF Units, EndSentinel

\* Headers have sizes.
LEMMA HeadFacts ==
  ASSUME NEW H, H \in [Units -> Headers], NEW b \in Units
  PROVE  /\ H[b].bsize \in Nat /\ H[b].bsize <= Total /\ NextOf(H, b) \in Nat
         /\ b \in HeadsOf(H) <=> H[b].bsize >= 1
         /\ H[b].flags \in {Free, Alloc, Temporal, Tombstone} /\ H[b].prev \in Units \cup {None}
<1>1. H[b] \in Headers
  OBVIOUS
<1>2. H[b].bsize \in 0 .. Total
  BY <1>1 DEF Headers
<1>3. b \in Nat /\ Total \in Nat
  BY UnitFacts
<1> QED
  BY <1>1, <1>2, <1>3 DEF Headers, HeadsOf, NextOf

\* What Linked says of one block.
LEMMA LinkedAt ==
  ASSUME NEW H, Linked(H), NEW b \in HeadsOf(H)
  PROVE  /\ b \in Units /\ b \in Nat /\ b <= EndSentinel /\ H[b].bsize \in Nat /\ H[b].bsize >= 1
         /\ b # EndSentinel =>
              /\ NextOf(H, b) \in HeadsOf(H) /\ NextOf(H, b) \in Units /\ NextOf(H, b) \in Nat
              /\ b < NextOf(H, b) /\ NextOf(H, b) <= EndSentinel
              /\ H[NextOf(H, b)].prev = b
              /\ \A u \in HeadsOf(H) : u <= b \/ NextOf(H, b) <= u
         /\ b # 0 => /\ H[b].prev \in HeadsOf(H) /\ H[b].prev # EndSentinel /\ H[b].prev < b
                     /\ H[b].prev \in Nat /\ NextOf(H, H[b].prev) = b
         /\ b # 0 /\ b # EndSentinel => H[b].bsize >= MinUnits
<1>1. H \in [Units -> Headers] /\ b \in Units /\ \A u \in HeadsOf(H) : u \in Units
  BY DEF Linked, HeadsOf
<1>2. \A u \in HeadsOf(H) : u \in Nat /\ u <= EndSentinel /\ H[u].bsize \in Nat /\ H[u].bsize >= 1
  BY <1>1, UnitFacts, HeadFacts
<1>3. ASSUME b # EndSentinel
      PROVE  /\ NextOf(H, b) \in HeadsOf(H) /\ NextOf(H, b) \in Units /\ NextOf(H, b) \in Nat
             /\ b < NextOf(H, b) /\ NextOf(H, b) <= EndSentinel
             /\ H[NextOf(H, b)].prev = b
             /\ \A u \in HeadsOf(H) : u <= b \/ NextOf(H, b) <= u
  <2>1. /\ NextOf(H, b) \in HeadsOf(H) /\ H[NextOf(H, b)].prev = b
        /\ \A u \in HeadsOf(H) : u <= b \/ NextOf(H, b) <= u
    BY <1>3 DEF Linked
  <2>2. b < NextOf(H, b)
    BY <1>2 DEF NextOf
  <2> QED
    BY <1>1, <1>2, <2>1, <2>2
<1>4. ASSUME b # 0
      PROVE  /\ H[b].prev \in HeadsOf(H) /\ H[b].prev # EndSentinel /\ H[b].prev < b
             /\ H[b].prev \in Nat /\ NextOf(H, H[b].prev) = b
  <2>1. H[b].prev \in HeadsOf(H) /\ H[b].prev # EndSentinel /\ NextOf(H, H[b].prev) = b
    BY <1>4 DEF Linked
  <2> DEFINE p == H[b].prev
  <2>2. p \in Nat /\ H[p].bsize \in Nat /\ H[p].bsize >= 1
    BY <1>2, <2>1
  <2>3. p + H[p].bsize = b
    BY <2>1 DEF NextOf
  <2> HIDE DEF p
  <2>4. p < b
    BY <2>2, <2>3
  <2> QED
    BY <2>1, <2>2, <2>4 DEF p
<1>5. b # 0 /\ b # EndSentinel => H[b].bsize >= MinUnits
  BY DEF Linked
<1> QED
  BY <1>1, <1>2, <1>3, <1>4, <1>5

\* Changing the flags of a block keeps the chain.
LEMMA FlagLinked ==
  ASSUME NEW H, Linked(H), NEW K, NEW b, Flagged(H, K, b)
  PROVE  Linked(K) /\ HeadsOf(K) = HeadsOf(H) /\ \A u \in Units : NextOf(K, u) = NextOf(H, u)
<1>1. /\ \A u \in Units : K[u].bsize = H[u].bsize /\ K[u].prev = H[u].prev
      /\ \A u \in Units : u # b => K[u].flags = H[u].flags
      /\ b \in HeadsOf(H) /\ b # 0 /\ b # EndSentinel /\ K \in [Units -> Headers]
  BY DEF Flagged
<1>2. HeadsOf(K) = HeadsOf(H)
  BY <1>1 DEF HeadsOf
<1>3. \A u \in Units : NextOf(K, u) = NextOf(H, u)
  BY <1>1 DEF NextOf
<1>4. \A u \in HeadsOf(H) : u \in Units
  BY DEF HeadsOf
<1>5. \A u \in {0, EndSentinel} : K[u].bsize = 1 /\ K[u].flags = Alloc
  BY <1>1, UnitFacts DEF Linked
<1>6. \A u \in HeadsOf(K) : u # 0 /\ u # EndSentinel => K[u].bsize >= MinUnits
  BY <1>1, <1>2, <1>4 DEF Linked
<1>7. \A u \in Units : u \notin HeadsOf(K) => K[u].flags = Free
  BY <1>1, <1>2 DEF Linked
<1>8. ASSUME NEW u \in HeadsOf(K), u # EndSentinel
      PROVE  /\ NextOf(K, u) \in HeadsOf(K) /\ K[NextOf(K, u)].prev = u
             /\ \A v \in HeadsOf(K) : v <= u \/ NextOf(K, u) <= v
  <2>1. u \in HeadsOf(H) /\ u \in Units /\ NextOf(K, u) = NextOf(H, u)
    BY <1>2, <1>3, <1>4
  <2>2. /\ NextOf(H, u) \in HeadsOf(H) /\ NextOf(H, u) \in Units /\ H[NextOf(H, u)].prev = u
        /\ \A v \in HeadsOf(H) : v <= u \/ NextOf(H, u) <= v
    BY <1>8, <2>1, LinkedAt
  <2> QED
    BY <1>1, <1>2, <2>1, <2>2
<1>9. ASSUME NEW u \in HeadsOf(K), u # 0
      PROVE  K[u].prev \in HeadsOf(K) /\ K[u].prev # EndSentinel /\ NextOf(K, K[u].prev) = u
  <2>1. u \in HeadsOf(H) /\ u \in Units /\ K[u].prev = H[u].prev
    BY <1>1, <1>2, <1>4
  <2>2. H[u].prev \in HeadsOf(H) /\ H[u].prev # EndSentinel /\ NextOf(H, H[u].prev) = u
    BY <1>9, <2>1, LinkedAt
  <2> QED
    BY <1>2, <1>3, <1>4, <2>1, <2>2
<1>10. Linked(K)
  BY <1>1, <1>5, <1>6, <1>7, <1>8, <1>9 DEF Linked
<1> QED
  BY <1>2, <1>3, <1>10

\* Cutting a block keeps the chain.
LEMMA CutLinked ==
  ASSUME NEW H, Linked(H), NEW K, NEW b, NEW m, Cut(H, K, b, m)
  PROVE  /\ Linked(K) /\ HeadsOf(K) = HeadsOf(H) \cup {m}
         /\ m \in Nat /\ m \notin HeadsOf(H) /\ m # 0 /\ m # EndSentinel
         /\ NextOf(K, b) = m /\ NextOf(K, m) = NextOf(H, b)
         /\ \A u \in Units : u # b /\ u # m => NextOf(K, u) = NextOf(H, u)
         /\ \A u \in Units : u # m => K[u].flags = H[u].flags
         /\ \A u \in Units : u # b /\ u # m => K[u].bsize = H[u].bsize
<1> DEFINE n == NextOf(H, b)
<1>1. /\ b \in HeadsOf(H) /\ b # 0 /\ b # EndSentinel
      /\ m \in Units /\ b + 2 <= m /\ m + 2 <= n /\ K \in [Units -> Headers]
      /\ K[b].bsize = m - b /\ K[b].flags = H[b].flags /\ K[b].prev = H[b].prev
      /\ K[m].bsize = n - m /\ K[m].flags = Free /\ K[m].prev = b
      /\ K[n].bsize = H[n].bsize /\ K[n].flags = H[n].flags /\ K[n].prev = m
      /\ \A u \in Units : u # b /\ u # m /\ u # n => K[u] = H[u]
  BY DEF Cut, MinUnits
<1>2. /\ b \in Units /\ b \in Nat /\ n \in HeadsOf(H) /\ n \in Units /\ n \in Nat /\ b < n /\ n <= EndSentinel
      /\ H[n].prev = b /\ \A u \in HeadsOf(H) : u <= b \/ n <= u
  BY <1>1, LinkedAt
<1>3. m \in Nat /\ EndSentinel \in Nat /\ m < n /\ b < m /\ m # 0 /\ m # EndSentinel /\ m # b /\ m # n
  BY <1>1, <1>2, UnitFacts
<1>4. m \notin HeadsOf(H)
  BY <1>2, <1>3
<1> HIDE DEF n
<1>5. /\ \A u \in Units : u # m => K[u].flags = H[u].flags
      /\ \A u \in Units : u # b /\ u # m => K[u].bsize = H[u].bsize
      /\ \A u \in Units : u # n /\ u # m => K[u].prev = H[u].prev
  BY <1>1
<1>6. n = b + H[b].bsize /\ \A u \in HeadsOf(H) : u \in Units
  BY DEF n, NextOf, HeadsOf
<1>7. HeadsOf(K) = HeadsOf(H) \cup {m}
  <2>1. ASSUME NEW u \in Units
        PROVE  u \in HeadsOf(K) <=> u \in HeadsOf(H) \/ u = m
    <3>1. CASE u = m
      <4>1. K[m].bsize > 0
        BY <1>1, <1>2, <1>3
      <4> QED
        BY <3>1, <4>1 DEF HeadsOf
    <3>2. CASE u = b
      <4>1. K[b].bsize > 0
        BY <1>1, <1>2, <1>3
      <4> QED
        BY <1>1, <3>2, <4>1 DEF HeadsOf
    <3>3. CASE u # m /\ u # b
      BY <1>5, <3>3 DEF HeadsOf
    <3> QED
      BY <3>1, <3>2, <3>3
  <2>2. \A u \in HeadsOf(K) : u \in Units
    BY DEF HeadsOf
  <2> QED
    BY <1>1, <1>6, <2>1, <2>2
<1>8. /\ NextOf(K, b) = m /\ NextOf(K, m) = n
      /\ \A u \in Units : u # b /\ u # m => NextOf(K, u) = NextOf(H, u)
  <2>1. b + (m - b) = m /\ m + (n - m) = n
    BY <1>2, <1>3
  <2>2. NextOf(K, b) = m /\ NextOf(K, m) = n
    BY <1>1, <2>1 DEF NextOf
  <2>3. \A u \in Units : u # b /\ u # m => NextOf(K, u) = NextOf(H, u)
    BY <1>5 DEF NextOf
  <2> QED
    BY <2>2, <2>3
<1>9. \A u \in {0, EndSentinel} : K[u].bsize = 1 /\ K[u].flags = Alloc
  BY <1>1, <1>3, <1>5, UnitFacts DEF Linked
<1>10. ASSUME NEW u \in HeadsOf(K), u # 0, u # EndSentinel
       PROVE  K[u].bsize >= MinUnits
  <2>1. CASE u = m
    BY <1>1, <1>2, <1>3, <2>1 DEF MinUnits
  <2>2. CASE u = b
    BY <1>1, <1>2, <1>3, <2>2 DEF MinUnits
  <2>3. CASE u # m /\ u # b
    <3>1. u \in HeadsOf(H) /\ u \in Units
      BY <1>6, <1>7, <2>3
    <3>2. H[u].bsize >= MinUnits
      BY <1>10, <3>1, LinkedAt
    <3> QED
      BY <1>5, <2>3, <3>1, <3>2
  <2> QED
    BY <2>1, <2>2, <2>3
<1>11. \A u \in Units : u \notin HeadsOf(K) => K[u].flags = Free
  BY <1>5, <1>7 DEF Linked
<1>12. ASSUME NEW u \in HeadsOf(K), u # EndSentinel
       PROVE  /\ NextOf(K, u) \in HeadsOf(K) /\ K[NextOf(K, u)].prev = u
              /\ \A v \in HeadsOf(K) : v <= u \/ NextOf(K, u) <= v
  <2>1. \A v \in HeadsOf(H) : v \in Nat
    BY <1>6, UnitFacts
  <2>2. CASE u = m
    <3>1. \A v \in HeadsOf(K) : v <= m \/ n <= v
      BY <1>2, <1>3, <1>7, <2>1
    <3> QED
      BY <1>1, <1>2, <1>7, <1>8, <2>2, <3>1
  <2>3. CASE u = b
    <3>1. \A v \in HeadsOf(K) : v <= b \/ m <= v
      BY <1>2, <1>3, <1>7, <2>1
    <3> QED
      BY <1>1, <1>7, <1>8, <2>3, <3>1
  <2>4. CASE u # m /\ u # b
    <3>1. u \in HeadsOf(H) /\ u \in Units /\ u \in Nat
      BY <1>6, <1>7, <2>1, <2>4
    <3> DEFINE w == NextOf(H, u)
    <3>2. /\ w \in HeadsOf(H) /\ w \in Units /\ w \in Nat /\ H[w].prev = u
          /\ \A v \in HeadsOf(H) : v <= u \/ w <= v
      BY <1>12, <3>1, LinkedAt
    <3>3. w # m /\ w # n /\ NextOf(K, u) = w
      BY <1>2, <1>4, <1>8, <2>4, <3>1, <3>2
    <3> HIDE DEF w
    <3>4. K[w].prev = u
      BY <1>5, <3>2, <3>3
    <3>5. m <= u \/ w <= m
      <4>1. b <= u \/ w <= b
        BY <1>1, <3>2
      <4>2. u <= b \/ n <= u
        BY <1>2, <3>1
      <4> QED
        BY <1>2, <1>3, <2>4, <3>1, <3>2, <4>1, <4>2
    <3> QED
      BY <1>7, <3>2, <3>3, <3>4, <3>5
  <2> QED
    BY <2>2, <2>3, <2>4
<1>13. ASSUME NEW u \in HeadsOf(K), u # 0
       PROVE  K[u].prev \in HeadsOf(K) /\ K[u].prev # EndSentinel /\ NextOf(K, K[u].prev) = u
  <2>1. CASE u = m
    BY <1>1, <1>7, <1>8, <2>1
  <2>2. CASE u = n
    BY <1>1, <1>3, <1>7, <1>8, <2>2
  <2>3. CASE u # m /\ u # n
    <3>1. u \in HeadsOf(H) /\ u \in Units
      BY <1>6, <1>7, <2>3
    <3> DEFINE w == H[u].prev
    <3>2. w \in HeadsOf(H) /\ w # EndSentinel /\ NextOf(H, w) = u
      BY <1>13, <3>1, LinkedAt
    <3>3. w # b /\ w # m /\ w \in Units
      BY <1>4, <1>6, <2>3, <3>2 DEF n
    <3>4. K[u].prev = w
      BY <1>5, <2>3, <3>1
    <3> HIDE DEF w
    <3> QED
      BY <1>7, <1>8, <3>2, <3>3, <3>4
  <2> QED
    BY <2>1, <2>2, <2>3
<1>14. Linked(K)
  BY <1>1, <1>9, <1>10, <1>11, <1>12, <1>13 DEF Linked
<1> QED
  BY <1>3, <1>4, <1>5, <1>7, <1>8, <1>14 DEF n

\* Joining neighbours keeps the chain.
LEMMA FuseLinked ==
  ASSUME NEW H, Linked(H), NEW K, NEW lo, NEW hi, Fuse(H, K, lo, hi)
  PROVE  /\ Linked(K) /\ HeadsOf(K) = {u \in HeadsOf(H) : u <= lo \/ hi <= u}
         /\ NextOf(K, lo) = hi
         /\ \A u \in HeadsOf(K) : u # lo => NextOf(K, u) = NextOf(H, u) /\ K[u].bsize = H[u].bsize
         /\ \A u \in HeadsOf(K) : u # lo => K[u].flags = H[u].flags
<1>1. /\ lo \in HeadsOf(H) /\ hi \in HeadsOf(H) /\ lo # 0 /\ lo < hi
      /\ K \in [Units -> Headers]
      /\ K[lo].bsize = hi - lo /\ K[lo].prev = H[lo].prev
      /\ K[hi].bsize = H[hi].bsize /\ K[hi].flags = H[hi].flags /\ K[hi].prev = lo
      /\ \A u \in Units : lo < u /\ u < hi => K[u].bsize = 0 /\ K[u].flags = Free
      /\ \A u \in Units : u < lo \/ hi < u => K[u] = H[u]
  BY DEF Fuse
<1>2. \A u \in HeadsOf(H) : u \in Units /\ u \in Nat /\ u <= EndSentinel
  BY LinkedAt
<1>3. /\ lo \in Units /\ lo \in Nat /\ hi \in Units /\ hi \in Nat /\ hi <= EndSentinel /\ lo # EndSentinel
      /\ EndSentinel \in Nat /\ \A u \in Units : u \in Nat
  BY <1>1, <1>2, UnitFacts
<1>4. HeadsOf(K) = {u \in HeadsOf(H) : u <= lo \/ hi <= u}
  <2>1. ASSUME NEW u \in Units
        PROVE  u \in HeadsOf(K) <=> u \in HeadsOf(H) /\ (u <= lo \/ hi <= u)
    <3>0. u \in Nat
      BY <1>3
    <3>1. CASE u = lo
      <4>1. K[lo].bsize > 0
        BY <1>1, <1>3
      <4> QED
        BY <1>1, <1>3, <3>1, <4>1 DEF HeadsOf
    <3>2. CASE u = hi
      BY <1>1, <1>3, <3>2 DEF HeadsOf
    <3>3. CASE lo < u /\ u < hi
      <4>1. ~(K[u].bsize > 0) /\ ~(u <= lo \/ hi <= u)
        BY <1>1, <1>3, <3>0, <3>3
      <4> QED
        BY <4>1 DEF HeadsOf
    <3>4. CASE u < lo \/ hi < u
      <4>1. K[u] = H[u] /\ (u <= lo \/ hi <= u)
        BY <1>1, <1>3, <3>0, <3>4
      <4> QED
        BY <4>1 DEF HeadsOf
    <3> QED
      BY <1>3, <3>0, <3>1, <3>2, <3>3, <3>4
  <2>2. \A u \in HeadsOf(K) : u \in Units
    BY DEF HeadsOf
  <2> QED
    BY <1>2, <2>1, <2>2
<1>5. ASSUME NEW u \in HeadsOf(K), u # lo
      PROVE  /\ u \in HeadsOf(H) /\ u \in Units /\ u \in Nat /\ (u < lo \/ hi <= u)
             /\ K[u].bsize = H[u].bsize /\ K[u].flags = H[u].flags /\ NextOf(K, u) = NextOf(H, u)
             /\ u # hi => K[u].prev = H[u].prev
  <2>1. u \in HeadsOf(H) /\ (u <= lo \/ hi <= u)
    BY <1>4
  <2>2. u \in Units /\ u \in Nat /\ (u < lo \/ hi <= u)
    BY <1>2, <1>3, <1>5, <2>1
  <2>3. u = hi \/ K[u] = H[u]
    BY <1>1, <1>3, <2>2
  <2>4. K[u].bsize = H[u].bsize /\ K[u].flags = H[u].flags /\ (u # hi => K[u].prev = H[u].prev)
    BY <1>1, <2>3
  <2> QED
    BY <2>1, <2>2, <2>4 DEF NextOf
<1>6. NextOf(K, lo) = hi
  <2>1. lo + (hi - lo) = hi
    BY <1>3
  <2> QED
    BY <1>1, <2>1 DEF NextOf
<1>7. lo \in HeadsOf(K) /\ hi \in HeadsOf(K) /\ lo # hi /\ 0 \in HeadsOf(K) /\ EndSentinel \in HeadsOf(K)
  <2>1. 0 \in HeadsOf(H) /\ EndSentinel \in HeadsOf(H)
    BY UnitFacts DEF Linked, HeadsOf
  <2> QED
    BY <1>1, <1>3, <1>4, <2>1
<1>8. \A u \in {0, EndSentinel} : K[u].bsize = 1 /\ K[u].flags = Alloc
  <2>1. ASSUME NEW u \in {0, EndSentinel}
        PROVE  K[u].bsize = 1 /\ K[u].flags = Alloc
    <3>1. u \in HeadsOf(K) /\ u # lo
      BY <1>1, <1>3, <1>7
    <3>2. H[u].bsize = 1 /\ H[u].flags = Alloc
      BY DEF Linked
    <3> QED
      BY <1>5, <3>1, <3>2
  <2> QED
    BY <2>1
<1>9. ASSUME NEW u \in HeadsOf(K), u # 0, u # EndSentinel
      PROVE  K[u].bsize >= MinUnits
  <2>1. CASE u # lo
    <3>1. u \in HeadsOf(H) /\ K[u].bsize = H[u].bsize
      BY <1>5, <2>1
    <3> QED
      BY <1>9, <3>1, LinkedAt
  <2>2. CASE u = lo
    <3> DEFINE n == NextOf(H, lo)
    <3>1. H[lo].bsize >= MinUnits /\ H[lo].bsize \in Nat
      BY <1>1, <1>3, LinkedAt
    <3>2. hi <= lo \/ n <= hi
      BY <1>1, <1>3, LinkedAt
    <3>3. n = lo + H[lo].bsize
      BY DEF NextOf
    <3> HIDE DEF n
    <3> QED
      BY <1>1, <1>3, <2>2, <3>1, <3>2, <3>3 DEF MinUnits
  <2> QED
    BY <2>1, <2>2
<1>10. ASSUME NEW u \in Units, u \notin HeadsOf(K)
       PROVE  K[u].flags = Free
  <2>1. u \in Nat /\ u # lo /\ u # hi
    BY <1>3, <1>7, <1>10
  <2>2. CASE lo < u /\ u < hi
    BY <1>1, <2>2
  <2>3. CASE u < lo \/ hi < u
    <3>1. u \notin HeadsOf(H) /\ K[u] = H[u]
      BY <1>1, <1>3, <1>4, <1>10, <2>1, <2>3
    <3> QED
      BY <3>1 DEF Linked
  <2> QED
    BY <1>3, <2>1, <2>2, <2>3
<1>11. ASSUME NEW u \in HeadsOf(K), u # EndSentinel
       PROVE  /\ NextOf(K, u) \in HeadsOf(K) /\ K[NextOf(K, u)].prev = u
              /\ \A v \in HeadsOf(K) : v <= u \/ NextOf(K, u) <= v
  <2>1. CASE u = lo
    BY <1>1, <1>4, <1>6, <1>7, <2>1
  <2>2. CASE u # lo
    <3>1. u \in HeadsOf(H) /\ u \in Nat /\ (u < lo \/ hi <= u) /\ NextOf(K, u) = NextOf(H, u)
      BY <1>5, <2>2
    <3> DEFINE w == NextOf(H, u)
    <3>2. /\ w \in HeadsOf(H) /\ w \in Nat /\ u < w /\ H[w].prev = u
          /\ \A v \in HeadsOf(H) : v <= u \/ w <= v
      BY <1>11, <3>1, LinkedAt
    <3>3. (w <= lo \/ hi < w) /\ w # hi
      <4>1. lo <= u \/ w <= lo
        BY <1>1, <3>2
      <4>2. w \in Nat /\ u < w
        BY <3>2
      <4> HIDE DEF w
      <4> QED
        BY <1>1, <1>3, <3>1, <4>1, <4>2
    <3>4. w \in HeadsOf(K)
      BY <1>3, <1>4, <3>2, <3>3
    <3>5. K[w].prev = u
      <4>1. CASE w = lo
        BY <1>1, <3>2, <4>1
      <4>2. CASE w # lo
        BY <1>5, <3>2, <3>3, <3>4, <4>2
      <4> QED
        BY <4>1, <4>2
    <3> QED
      BY <1>4, <3>1, <3>2, <3>4, <3>5
  <2> QED
    BY <2>1, <2>2
<1>12. ASSUME NEW u \in HeadsOf(K), u # 0
       PROVE  K[u].prev \in HeadsOf(K) /\ K[u].prev # EndSentinel /\ NextOf(K, K[u].prev) = u
  <2>1. CASE u = hi
    BY <1>1, <1>3, <1>6, <1>7, <2>1
  <2>2. CASE u # hi
    <3> DEFINE w == H[u].prev
    <3>1. u \in HeadsOf(H) /\ u \in Nat /\ (u <= lo \/ hi < u) /\ K[u].prev = w
      <4>1. CASE u = lo
        BY <1>1, <1>3, <4>1
      <4>2. CASE u # lo
        BY <1>3, <1>5, <2>2, <4>2
      <4> QED
        BY <4>1, <4>2
    <3>2. /\ w \in HeadsOf(H) /\ w # EndSentinel /\ w \in Nat /\ w < u /\ NextOf(H, w) = u
      BY <1>12, <3>1, LinkedAt
    <3>3. \A v \in HeadsOf(H) : v <= w \/ u <= v
      BY <3>2, LinkedAt
    <3> HIDE DEF w
    <3>4. w < lo \/ hi <= w
      <4>1. lo <= w \/ u <= lo
        BY <1>1, <3>3
      <4>2. hi <= w \/ u <= hi
        BY <1>1, <3>3
      <4> QED
        BY <1>1, <1>3, <3>1, <3>2, <4>1, <4>2
    <3>5. w \in HeadsOf(K) /\ w # lo
      BY <1>1, <1>3, <1>4, <3>2, <3>4
    <3>6. NextOf(K, w) = u
      BY <1>5, <3>2, <3>5
    <3> QED
      BY <3>1, <3>2, <3>5, <3>6
  <2> QED
    BY <2>1, <2>2
<1>13. Linked(K)
  BY <1>1, <1>8, <1>9, <1>10, <1>11, <1>12 DEF Linked
<1> QED
  BY <1>4, <1>5, <1>6, <1>13

-----------------------------------------------------------------------------
(* Free lists and bitmaps *)

\* The class of a block that is large enough.
Classed(H, b) == b \in Units /\ H[b].bsize \in Nat /\ H[b].bsize >= MinUnits /\ H[b].bsize <= Total

\* Rows of classes.
LEMMA RowFacts ==
  /\ \A c \in Classes : c[1] \in 0 .. FlCount - 1 /\ c[2] \in 0 .. Pow2[SlLog2] - 1 /\ c = <<c[1], c[2]>>
  /\ FlCount \in Nat /\ Pow2[SlLog2] \in Nat
BY FlCountIs, Consts DEF Classes

\* p and q have the same lists, and agree on the sizes of the blocks F.
SameLists(p, q, F) ==
  /\ q.lists = p.lists /\ q.sl = p.sl /\ q.fl = p.fl
  /\ \A b \in F : q.hdr[b].bsize = p.hdr[b].bsize

\* Only headers that are not listed may change under a list.
LEMMA SameShelved ==
  ASSUME NEW p, NEW q, NEW F \in SUBSET Units, Shelved(p, F), SameLists(p, q, F)
  PROVE  Shelved(q, F)
<1> USE DEF SameLists
<1>1. /\ p.lists \in [Classes -> Seq(Units)]
      /\ \A c \in Classes :
           /\ IsInjective(p.lists[c])
           /\ \A b \in Units : Contains(p.lists[c], b) <=> b \in F /\ MappingInsert(p.hdr[b].bsize) = c
      /\ p.sl = {c \in Classes : p.lists[c] # <<>>}
      /\ p.fl = {c[1] : c \in p.sl}
  BY DEF Shelved
<1>2. \A b \in F : MappingInsert(q.hdr[b].bsize) = MappingInsert(p.hdr[b].bsize)
  OBVIOUS
<1>3. \A c \in Classes : \A b \in Units :
        Contains(q.lists[c], b) <=> b \in F /\ MappingInsert(q.hdr[b].bsize) = c
  BY <1>1, <1>2
<1> QED
  BY <1>1, <1>3 DEF Shelved

\* q has b on a list, besides the blocks F, and marked free.
Listed(p, q, F, b) ==
  /\ q \in Pools /\ Shelved(q, F \cup {b})
  /\ q.hdr[b].bsize = p.hdr[b].bsize /\ q.hdr[b].prev = p.hdr[b].prev /\ q.hdr[b].flags = Free
  /\ \A u \in Units : u # b => q.hdr[u] = p.hdr[u]

\* fl_insert lists a block and marks it free.
LEMMA InsertShelved ==
  ASSUME NEW p \in Pools, NEW F \in SUBSET Units, Shelved(p, F),
         NEW b, b \notin F, Classed(p.hdr, b), NEW q, q = FlInsert(p, b)
  PROVE  Listed(p, q, F, b)
<1> DEFINE c == MappingInsert(p.hdr[b].bsize)
<1>1. b \in Units /\ c \in Classes
  BY InsertClass DEF Classed
<1>2. /\ p.hdr \in [Units -> Headers] /\ p.lists \in [Classes -> Seq(Units)]
      /\ p.sl \in SUBSET Classes /\ p.fl \in SUBSET (0 .. FlCount - 1)
  BY DEF Pools
<1>3. c[1] \in 0 .. FlCount - 1
  BY <1>1, RowFacts
<1>4. q = [p EXCEPT !.lists[c] = <<b>> \o @, !.hdr[b].flags = Free,
                    !.fl = @ \cup {c[1]}, !.sl = @ \cup {c}]
  BY DEF FlInsert
<1> HIDE DEF c
<1> DEFINE new == <<b>> \o p.lists[c]
<1>5. /\ q.lists = [p.lists EXCEPT ![c] = new]
      /\ q.hdr = [p.hdr EXCEPT ![b].flags = Free]
      /\ q.fl = p.fl \cup {c[1]} /\ q.sl = p.sl \cup {c}
  BY <1>4 DEF Pools
<1>6. q = [hdr |-> q.hdr, lists |-> q.lists, sl |-> q.sl, fl |-> q.fl]
  BY <1>4 DEF Pools
<1>7. p.lists[c] \in Seq(Units)
  BY <1>1, <1>2
<1>8. /\ new \in Seq(Units) /\ new # <<>>
      /\ \A x : Contains(new, x) <=> x = b \/ Contains(p.lists[c], x)
      /\ IsInjective(p.lists[c]) /\ ~Contains(p.lists[c], b) => IsInjective(new)
  BY <1>1, <1>7, ConsList
<1> HIDE DEF new
<1>9. /\ q.hdr[b].bsize = p.hdr[b].bsize /\ q.hdr[b].prev = p.hdr[b].prev /\ q.hdr[b].flags = Free
      /\ \A u \in Units : u # b => q.hdr[u] = p.hdr[u]
      /\ q.hdr \in [Units -> Headers]
  <2>1. p.hdr[b] \in Headers
    BY <1>1, <1>2
  <2>2. [p.hdr[b] EXCEPT !.flags = Free] \in Headers
    BY <2>1 DEF Headers
  <2>3. q.hdr = [p.hdr EXCEPT ![b] = [p.hdr[b] EXCEPT !.flags = Free]]
    BY <1>5
  <2>4. q.hdr[b] = [p.hdr[b] EXCEPT !.flags = Free]
    BY <1>1, <1>2, <2>3
  <2>5. q.hdr[b].bsize = p.hdr[b].bsize /\ q.hdr[b].prev = p.hdr[b].prev /\ q.hdr[b].flags = Free
    BY <2>1, <2>4 DEF Headers
  <2>6. \A u \in Units : u # b => q.hdr[u] = p.hdr[u]
    BY <1>2, <2>3
  <2>7. q.hdr \in [Units -> Headers]
    BY <1>1, <1>2, <2>2, <2>3
  <2> QED
    BY <2>5, <2>6, <2>7
<1>10. q.lists[c] = new /\ \A d \in Classes : d # c => q.lists[d] = p.lists[d]
  BY <1>1, <1>2, <1>5
<1>11. q.lists \in [Classes -> Seq(Units)]
  BY <1>1, <1>2, <1>5, <1>8
<1>12. q \in Pools
  <2>1. q.sl \in SUBSET Classes /\ q.fl \in SUBSET (0 .. FlCount - 1)
    BY <1>1, <1>2, <1>3, <1>5
  <2> QED
    BY <1>6, <1>9, <1>11, <2>1 DEF Pools
<1>13. /\ \A d \in Classes :
            /\ IsInjective(p.lists[d])
            /\ \A x \in Units : Contains(p.lists[d], x) <=> x \in F /\ MappingInsert(p.hdr[x].bsize) = d
       /\ p.sl = {d \in Classes : p.lists[d] # <<>>}
       /\ p.fl = {d[1] : d \in p.sl}
  BY DEF Shelved
<1>14. \A x \in Units : MappingInsert(q.hdr[x].bsize) = MappingInsert(p.hdr[x].bsize)
  BY <1>9
<1>15. ASSUME NEW d \in Classes
       PROVE  /\ IsInjective(q.lists[d])
              /\ \A x \in Units : Contains(q.lists[d], x)
                                    <=> x \in F \cup {b} /\ MappingInsert(q.hdr[x].bsize) = d
  <2>1. CASE d = c
    <3>1. ~Contains(p.lists[c], b)
      BY <1>1, <1>13
    <3>2. \A x \in Units : Contains(new, x) <=> x \in F \cup {b} /\ MappingInsert(q.hdr[x].bsize) = c
      <4>1. MappingInsert(q.hdr[b].bsize) = c
        BY <1>9 DEF c
      <4> QED
        BY <1>1, <1>8, <1>13, <1>14, <4>1
    <3> QED
      BY <1>1, <1>8, <1>10, <1>13, <2>1, <3>1, <3>2
  <2>2. CASE d # c
    <3>1. MappingInsert(q.hdr[b].bsize) # d
      BY <1>9, <2>2 DEF c
    <3> QED
      BY <1>10, <1>13, <1>14, <2>2, <3>1
  <2> QED
    BY <2>1, <2>2
<1>16. q.sl = {d \in Classes : q.lists[d] # <<>>}
  BY <1>1, <1>5, <1>8, <1>10, <1>13
<1>17. q.fl = {d[1] : d \in q.sl}
  BY <1>5, <1>13
<1>18. Shelved(q, F \cup {b})
  BY <1>11, <1>15, <1>16, <1>17 DEF Shelved
<1> QED
  BY <1>9, <1>12, <1>18 DEF Listed

\* fl_remove unlists a block.
LEMMA RemoveShelved ==
  ASSUME NEW p \in Pools, NEW F \in SUBSET Units, Shelved(p, F),
         NEW b \in F, Classed(p.hdr, b), NEW q, q = FlRemove(p, b)
  PROVE  q \in Pools /\ Shelved(q, F \ {b}) /\ q.hdr = p.hdr
<1> DEFINE c == MappingInsert(p.hdr[b].bsize)
           rest == RemoveFirst(p.lists[c], b)
           sl == IF rest = <<>> THEN p.sl \ {c} ELSE p.sl
           fl == IF \E d \in sl : d[1] = c[1] THEN p.fl ELSE p.fl \ {c[1]}
<1>1. b \in Units /\ c \in Classes
  BY InsertClass DEF Classed
<1>2. /\ p.hdr \in [Units -> Headers] /\ p.lists \in [Classes -> Seq(Units)]
      /\ p.sl \in SUBSET Classes /\ p.fl \in SUBSET (0 .. FlCount - 1)
  BY DEF Pools
<1>3. q = [p EXCEPT !.lists[c] = rest, !.sl = sl, !.fl = fl]
  BY DEF FlRemove
<1>4. /\ \A d \in Classes :
            /\ IsInjective(p.lists[d])
            /\ \A x \in Units : Contains(p.lists[d], x) <=> x \in F /\ MappingInsert(p.hdr[x].bsize) = d
      /\ p.sl = {d \in Classes : p.lists[d] # <<>>}
      /\ p.fl = {d[1] : d \in p.sl}
  BY DEF Shelved
<1>5. p.lists[c] \in Seq(Units) /\ IsInjective(p.lists[c]) /\ Contains(p.lists[c], b)
  <2> HIDE DEF c
  <2>1. MappingInsert(p.hdr[b].bsize) = c
    BY DEF c
  <2> QED
    BY <1>1, <1>2, <1>4, <2>1
<1>6. /\ rest \in Seq(Units) /\ IsInjective(rest)
      /\ \A x : Contains(rest, x) <=> Contains(p.lists[c], x) /\ x # b
  <2> HIDE DEF c
  <2> QED
    BY <1>5, RemoveList
<1>7. c = MappingInsert(p.hdr[b].bsize)
  OBVIOUS
<1>8. sl = IF rest = <<>> THEN p.sl \ {c} ELSE p.sl
  OBVIOUS
<1>9. fl = IF \E d \in sl : d[1] = c[1] THEN p.fl ELSE p.fl \ {c[1]}
  OBVIOUS
<1> HIDE DEF c, rest, sl, fl
<1>10. /\ q.lists = [p.lists EXCEPT ![c] = rest] /\ q.hdr = p.hdr /\ q.sl = sl /\ q.fl = fl
       /\ q = [hdr |-> q.hdr, lists |-> q.lists, sl |-> q.sl, fl |-> q.fl]
  BY <1>3 DEF Pools
<1>11. q.lists[c] = rest /\ \A d \in Classes : d # c => q.lists[d] = p.lists[d]
  BY <1>1, <1>2, <1>10
<1>12. q.lists \in [Classes -> Seq(Units)]
  BY <1>1, <1>2, <1>6, <1>10
<1>13. q \in Pools
  <2>1. q.sl \in SUBSET Classes /\ q.fl \in SUBSET (0 .. FlCount - 1)
    BY <1>2, <1>8, <1>9, <1>10
  <2> QED
    BY <1>2, <1>10, <1>12, <2>1 DEF Pools
<1>14. ASSUME NEW d \in Classes
       PROVE  /\ IsInjective(q.lists[d])
              /\ \A x \in Units : Contains(q.lists[d], x)
                                    <=> x \in F \ {b} /\ MappingInsert(q.hdr[x].bsize) = d
  <2>1. CASE d = c
    BY <1>1, <1>4, <1>6, <1>10, <1>11, <2>1
  <2>2. CASE d # c
    BY <1>1, <1>4, <1>7, <1>10, <1>11, <2>2
  <2> QED
    BY <2>1, <2>2
<1>15. q.sl = {d \in Classes : q.lists[d] # <<>>}
  <2>1. c \in p.sl
    <3>1. p.lists[c] # <<>>
      BY <1>1, <1>5, EmptyList
    <3> QED
      BY <1>1, <1>4, <3>1
  <2> QED
    BY <1>1, <1>4, <1>8, <1>10, <1>11, <2>1
<1>16. q.fl = {d[1] : d \in q.sl}
  <2>1. CASE \E d \in sl : d[1] = c[1]
    BY <1>4, <1>8, <1>9, <1>10, <2>1
  <2>2. CASE ~\E d \in sl : d[1] = c[1]
    BY <1>4, <1>8, <1>9, <1>10, <2>2
  <2> QED
    BY <2>1, <2>2
<1>17. Shelved(q, F \ {b})
  BY <1>12, <1>14, <1>15, <1>16 DEF Shelved
<1> QED
  BY <1>10, <1>13, <1>17

-----------------------------------------------------------------------------
(* Looking for a block *)

\* A free block is a block of the data region.
LEMMA FreeFacts ==
  ASSUME NEW H, Linked(H), NEW b \in FreeIn(H)
  PROVE  b \in HeadsOf(H) /\ b \in Units /\ b # 0 /\ b # EndSentinel /\ Classed(H, b)
<1>1. b \in HeadsOf(H) /\ H[b].flags = Free /\ H \in [Units -> Headers]
  BY DEF FreeIn, Linked
<1>2. b # 0 /\ b # EndSentinel
  <2>1. Alloc # Free
    BY DEF Alloc, Free
  <2> QED
    BY <1>1, <2>1 DEF Linked
<1>3. b \in Units /\ H[b].bsize \in Nat /\ H[b].bsize >= MinUnits
  BY <1>1, <1>2, LinkedAt
<1>4. H[b].bsize <= Total
  BY <1>1, <1>3, HeadFacts
<1> QED
  BY <1>1, <1>2, <1>3, <1>4 DEF Classed

\* So is a block in use.
LEMMA UsedFacts ==
  ASSUME NEW H, Linked(H), NEW b \in UsedIn(H)
  PROVE  b \in HeadsOf(H) /\ b \in Units /\ b # 0 /\ b # EndSentinel /\ Classed(H, b) /\ b \notin FreeIn(H)
         /\ H[b].flags \in {Alloc, Temporal, Tombstone}
<1>1. b \in Units /\ b # 0 /\ b # EndSentinel /\ H[b].flags # Free /\ H \in [Units -> Headers]
  BY DEF UsedIn, Linked
<1>2. b \in HeadsOf(H)
  BY <1>1 DEF Linked
<1>3. H[b].bsize \in Nat /\ H[b].bsize >= MinUnits
  BY <1>1, <1>2, LinkedAt
<1>4. H[b].bsize <= Total /\ H[b].flags \in {Free, Alloc, Temporal, Tombstone}
  BY <1>1, HeadFacts
<1> QED
  BY <1>1, <1>2, <1>3, <1>4 DEF Classed, FreeIn

\* Every block is free or in use.
LEMMA HeadKinds ==
  ASSUME NEW H, Linked(H), NEW b \in HeadsOf(H), b # 0, b # EndSentinel
  PROVE  b \in FreeIn(H) \/ b \in UsedIn(H)
BY DEF FreeIn, UsedIn, HeadsOf

\* The class a request is looked for from is a pair of numbers.
LEMMA SearchClass ==
  ASSUME NEW u, Small(u)
  PROVE  MappingSearch(u)[1] \in Nat /\ MappingSearch(u)[2] \in Nat
<1> DEFINE b == u * BlockAlign
           y == b + Grain(b) - 1
           L == Pow2[SlLog2]
<1>1. b \in Nat /\ L <= b /\ y \in Nat /\ b <= y /\ MappingSearch(u) = ClassOfBytes(y)
  BY SearchSum
<1>2. u \in Nat /\ u >= MinUnits
  BY DEF Small
<1>3. 2 * BlockAlign <= b
  BY <1>2, BytesProps
<1>4. FlShift \in Nat /\ L \in Nat /\ 2 * BlockAlign \in Nat /\ 2 * BlockAlign >= 1
      /\ FlShift = Fls(2 * BlockAlign)
  BY Consts DEF FlShift, MinUnits
<1>5. L <= y /\ 2 * BlockAlign <= y
  <2> HIDE DEF L, b, y
  <2> QED
    BY <1>1, <1>3, <1>4
<1> HIDE DEF y
<1>6. /\ Fls(y) \in Nat /\ Place(y) \in Nat /\ L <= Place(y)
      /\ ClassOfBytes(y) = <<Fls(y) - FlShift, Place(y) - L>>
  BY <1>1, <1>5, RowProps
<1>7. FlShift <= Fls(y)
  BY <1>1, <1>4, <1>5, FlsMono
<1> HIDE DEF L
<1>8. Fls(y) - FlShift \in Nat /\ Place(y) - L \in Nat
  BY <1>4, <1>6, <1>7
<1> QED
  BY <1>1, <1>6, <1>8

\* The lowest bit of a row that is not empty.
LEMMA FirstBit ==
  ASSUME NEW S \in SUBSET Classes, S # {}
  PROVE  (CHOOSE d \in S : \A e \in S : d[2] <= e[2]) \in S
<1> DEFINE N == {d[2] : d \in S}
<1>1. N \in SUBSET Nat /\ N # {}
  BY RowFacts
<1>2. PICK m \in N : \A i \in N : m <= i
  BY <1>1, HasSmallest
<1>3. PICK d \in S : d[2] = m
  BY <1>2
<1>4. \A e \in S : d[2] <= e[2]
  BY <1>2, <1>3
<1> QED
  BY <1>4

\* What stands in the lists of a sound pool.
LEMMA ListedFree ==
  ASSUME NEW p, Sound(p), NEW d \in p.sl
  PROVE  /\ d \in Classes /\ p.lists[d] \in Seq(Units) /\ p.lists[d] # <<>>
         /\ Head(p.lists[d]) \in FreeIn(p.hdr)
         /\ MappingInsert(p.hdr[Head(p.lists[d])].bsize) = d
<1>1. Shelved(p, FreeIn(p.hdr))
  BY DEF Sound
<1>2. d \in Classes /\ p.lists[d] # <<>> /\ p.lists[d] \in Seq(Units) /\ IsInjective(p.lists[d])
      /\ \A b \in Units : Contains(p.lists[d], b)
                            <=> b \in FreeIn(p.hdr) /\ MappingInsert(p.hdr[b].bsize) = d
  BY <1>1 DEF Shelved
<1>3. Head(p.lists[d]) \in Units /\ Contains(p.lists[d], Head(p.lists[d]))
  BY <1>2, TailList
<1> QED
  BY <1>2, <1>3

\* What find_free does in a sound pool.
LEMMA FindCases ==
  ASSUME NEW p, Sound(p), NEW u, Small(u), NEW c, c = MappingSearch(u)
  PROVE  \/ /\ FindFree(p, u) = None
            /\ c[1] >= FlCount \/ \A d \in p.sl : Below(d, c)
         \/ /\ c[1] < FlCount
            /\ \E d \in p.sl : ~Below(d, c) /\ FindFree(p, u) = Head(p.lists[d])
<1> DEFINE row == {d \in p.sl : d[1] = c[1] /\ d[2] >= c[2]}
           above == {f \in p.fl : f > c[1]}
           next == {d \in p.sl : d[1] = Min(above)}
           first(S) == CHOOSE d \in S : \A e \in S : d[2] <= e[2]
           from == IF row # {} THEN row ELSE next
<1>1. FindFree(p, u) = IF c[1] >= FlCount \/ (row = {} /\ above = {}) THEN None
                       ELSE Head(p.lists[first(from)])
  BY DEF FindFree
<1>2. p.sl \subseteq Classes /\ p.fl = {d[1] : d \in p.sl} /\ FlCount \in Nat
  BY RowFacts DEF Sound, Shelved
<1>3. \A d \in p.sl : d[1] \in Nat /\ d[2] \in Nat
  BY <1>2, RowFacts
<1>4. c[1] \in Nat /\ c[2] \in Nat
  BY SearchClass
<1>5. CASE c[1] >= FlCount
  BY <1>1, <1>5
<1>6. CASE c[1] < FlCount /\ row # {}
  <2>1. first(row) \in row
    <3> HIDE DEF row
    <3>1. row \in SUBSET Classes
      BY <1>2 DEF row
    <3> QED
      BY <1>6, <3>1, FirstBit
  <2>2. first(row) \in p.sl /\ ~Below(first(row), c)
    BY <1>3, <1>4, <2>1 DEF Below
  <2>3. FindFree(p, u) = Head(p.lists[first(row)])
    <3>1. from = row
      BY <1>6
    <3>2. ~(c[1] >= FlCount) /\ ~(row = {} /\ above = {})
      <4> HIDE DEF row, above
      <4> QED
        BY <1>2, <1>4, <1>6
    <3> HIDE DEF row, above, next, from, first
    <3>3. FindFree(p, u) = Head(p.lists[first(from)])
      BY <1>1, <3>2
    <3> QED
      BY <3>1, <3>3
  <2> QED
    BY <1>6, <2>2, <2>3
<1>7. CASE c[1] < FlCount /\ row = {} /\ above # {}
  <2>1. above \in SUBSET Nat
    BY <1>2, <1>3
  <2>2. PICK m \in above : \A i \in above : m <= i
    <3> HIDE DEF above
    <3> QED
      BY <1>7, <2>1, HasSmallest
  <2>3. Min(above) \in above
    <3> HIDE DEF above
    <3> QED
      BY <2>2 DEF Min
  <2>4. next # {} /\ next \in SUBSET Classes
    BY <1>2, <2>3
  <2>5. first(next) \in next
    <3> HIDE DEF next
    <3> QED
      BY <2>4, FirstBit
  <2>6. first(next) \in p.sl /\ ~Below(first(next), c)
    <3>1. Min(above) > c[1] /\ Min(above) \in Nat
      BY <2>1, <2>3
    <3> HIDE DEF above
    <3>2. first(next) \in p.sl /\ first(next)[1] = Min(above)
      BY <2>5
    <3> HIDE DEF next, first
    <3> QED
      BY <1>4, <3>1, <3>2 DEF Below
  <2>7. FindFree(p, u) = Head(p.lists[first(next)])
    <3>1. from = next
      BY <1>7
    <3>2. ~(c[1] >= FlCount) /\ ~(row = {} /\ above = {})
      <4> HIDE DEF row, above
      <4> QED
        BY <1>2, <1>4, <1>7
    <3> HIDE DEF row, above, next, from, first
    <3>3. FindFree(p, u) = Head(p.lists[first(from)])
      BY <1>1, <3>2
    <3> QED
      BY <3>1, <3>3
  <2> QED
    BY <1>7, <2>6, <2>7
<1>8. CASE c[1] < FlCount /\ row = {} /\ above = {}
  <2>1. FindFree(p, u) = None
    BY <1>1, <1>8
  <2>2. ASSUME NEW d \in p.sl PROVE Below(d, c)
    <3>1. d[1] \in p.fl
      BY <1>2
    <3>2. d[1] <= c[1]
      BY <1>3, <1>4, <1>8, <3>1
    <3>3. ~(d[1] = c[1] /\ d[2] >= c[2])
      BY <1>8
    <3> QED
      BY <1>3, <1>4, <3>2, <3>3 DEF Below
  <2> QED
    BY <2>1, <2>2
<1> QED
  BY <1>2, <1>4, <1>5, <1>6, <1>7, <1>8

\* What find_free returns is a free block that is large enough.
LEMMA FoundFits ==
  ASSUME NEW p, Sound(p), NEW u, Small(u), FindFree(p, u) # None
  PROVE  /\ FindFree(p, u) \in FreeIn(p.hdr) /\ Classed(p.hdr, FindFree(p, u))
         /\ u <= p.hdr[FindFree(p, u)].bsize
         /\ MappingSearch(u)[1] \in 0 .. FlCount - 1
<1> DEFINE c == MappingSearch(u)
<1>1. c[1] < FlCount /\ \E d \in p.sl : ~Below(d, c) /\ FindFree(p, u) = Head(p.lists[d])
  BY FindCases
<1>2. PICK d \in p.sl : ~Below(d, c) /\ FindFree(p, u) = Head(p.lists[d])
  BY <1>1
<1> DEFINE b == FindFree(p, u)
<1>3. b \in FreeIn(p.hdr) /\ MappingInsert(p.hdr[b].bsize) = d
  BY <1>2, ListedFree
<1>4. Classed(p.hdr, b)
  BY <1>3, FreeFacts DEF Sound
<1>5. p.hdr[b].bsize \in Nat /\ p.hdr[b].bsize >= MinUnits
  BY <1>4 DEF Classed
<1> HIDE DEF b
<1>6. u <= p.hdr[b].bsize
  <2>1. ~Below(MappingInsert(p.hdr[b].bsize), MappingSearch(u))
    BY <1>2, <1>3
  <2> DEFINE w == p.hdr[b].bsize
  <2> HIDE DEF w
  <2>2. w \in Nat /\ w >= MinUnits /\ ~Below(MappingInsert(w), MappingSearch(u))
    BY <1>5, <2>1 DEF w
  <2>3. u <= w
    BY <2>2, SearchFits
  <2> QED
    BY <2>3 DEF w
<1>7. c[1] \in 0 .. FlCount - 1
  <2>1. c[1] \in Nat /\ FlCount \in Nat
    BY SearchClass, RowFacts
  <2> HIDE DEF c
  <2> QED
    BY <1>1, <2>1
<1> QED
  BY <1>3, <1>4, <1>6, <1>7 DEF b

\* It fails only if every free block is smaller than the request rounded up.
LEMMA NoneIsSmall ==
  ASSUME NEW p, Sound(p), NEW u, Small(u), FindFree(p, u) = None, NEW f \in FreeIn(p.hdr)
  PROVE  p.hdr[f].bsize * BlockAlign < RoundUp(u * BlockAlign)
<1> DEFINE c == MappingSearch(u)
           w == p.hdr[f].bsize
           r == RoundUp(u * BlockAlign)
<1>1. Linked(p.hdr) /\ Shelved(p, FreeIn(p.hdr))
  BY DEF Sound
<1>2. f \in Units /\ w \in Nat /\ w >= MinUnits /\ w <= Total
  BY <1>1, FreeFacts DEF Classed
<1>3. r \in Nat /\ w * BlockAlign \in Nat
  <2> DEFINE g == Grain(u * BlockAlign)
             y == u * BlockAlign + g - 1
  <2>1. y \in Nat /\ g \in Nat /\ g >= 1
    BY SearchSum
  <2>2. r = (y \div g) * g
    BY DEF RoundUp
  <2>3. BlockAlign \in Nat
    BY Consts
  <2> HIDE DEF g, y, r, w
  <2>4. y \div g \in Nat
    BY <2>1, DivProps
  <2> QED
    BY <1>2, <2>1, <2>2, <2>3, <2>4
<1>4. MappingInsert(w) \in Classes /\ MappingInsert(w) \in p.sl
  <2>1. MappingInsert(w) \in Classes
    BY <1>2, InsertClass
  <2>2. Contains(p.lists[MappingInsert(w)], f) /\ p.lists[MappingInsert(w)] \in Seq(Units)
    BY <1>1, <1>2, <2>1 DEF Shelved
  <2>3. p.lists[MappingInsert(w)] # <<>>
    BY <1>2, <2>2, EmptyList
  <2> QED
    BY <1>1, <2>1, <2>3 DEF Shelved
<1>5. MappingInsert(w)[1] \in Nat /\ MappingInsert(w)[1] < FlCount /\ FlCount \in Nat
  BY <1>4, RowFacts
<1>6. c[1] >= FlCount \/ Below(MappingInsert(w), c)
  <2>1. \A d \in p.sl : Head(p.lists[d]) # None
    BY ListedFree, <1>1, FreeFacts, UnitFacts
  <2> QED
    BY <1>4, <2>1, FindCases
<1>7. Below(MappingInsert(w), c)
  <2>1. c[1] \in Nat
    BY SearchClass
  <2> HIDE DEF c, w
  <2> QED
    BY <1>5, <1>6, <2>1 DEF Below
<1>8. ~(r <= w * BlockAlign)
  <2> HIDE DEF w
  <2> QED
    BY <1>2, <1>7, SearchCovers
<1> HIDE DEF r, w
<1>9. w * BlockAlign < r
  BY <1>3, <1>8
<1> QED
  BY <1>9 DEF r, w

-----------------------------------------------------------------------------
(* Handing a block out *)

\* Block b of H, free there, is in use in K.
Claimed(H, K, b, f) ==
  /\ b \in FreeIn(H) /\ K[b].flags = f /\ f \in {Alloc, Temporal}
  /\ UsedIn(K) = UsedIn(H) \cup {b}
  /\ \A x \in UsedIn(H) : K[x].bsize = H[x].bsize /\ K[x].flags = H[x].flags

\* r is q with flags f in the header at b.
Marked(q, r, b, f) ==
  /\ r \in Pools /\ r.lists = q.lists /\ r.sl = q.sl /\ r.fl = q.fl
  /\ r.hdr[b].bsize = q.hdr[b].bsize /\ r.hdr[b].prev = q.hdr[b].prev /\ r.hdr[b].flags = f
  /\ \A u \in Units : u # b => r.hdr[u] = q.hdr[u]
  /\ \A u \in Units : r.hdr[u].bsize = q.hdr[u].bsize

\* Writing the flags of a header.
LEMMA SetFlags ==
  ASSUME NEW q \in Pools, NEW b \in Units, NEW f \in {Free, Alloc, Temporal, Tombstone}
  PROVE  Marked(q, [q EXCEPT !.hdr[b].flags = f], b, f)
<1> DEFINE r == [q EXCEPT !.hdr[b].flags = f]
<1>1. /\ q.hdr \in [Units -> Headers] /\ q.lists \in [Classes -> Seq(Units)]
      /\ q.sl \in SUBSET Classes /\ q.fl \in SUBSET (0 .. FlCount - 1)
  BY DEF Pools
<1>9. r = [q EXCEPT !.hdr[b].flags = f]
  OBVIOUS
<1> HIDE DEF r
<1>2. /\ r.hdr = [q.hdr EXCEPT ![b].flags = f] /\ r.lists = q.lists /\ r.sl = q.sl /\ r.fl = q.fl
      /\ r = [hdr |-> r.hdr, lists |-> r.lists, sl |-> r.sl, fl |-> r.fl]
  BY <1>9 DEF Pools
<1>3. q.hdr[b] \in Headers
  BY <1>1
<1> DEFINE h == [q.hdr[b] EXCEPT !.flags = f]
<1>4. h \in Headers /\ h.bsize = q.hdr[b].bsize /\ h.prev = q.hdr[b].prev /\ h.flags = f
  BY <1>3 DEF Headers
<1>5. r.hdr = [q.hdr EXCEPT ![b] = h]
  BY <1>2
<1> HIDE DEF h
<1>6. r.hdr[b] = h /\ \A u \in Units : u # b => r.hdr[u] = q.hdr[u]
  BY <1>1, <1>5
<1>7. r.hdr \in [Units -> Headers]
  BY <1>1, <1>4, <1>5
<1>8. r \in Pools
  BY <1>1, <1>2, <1>7 DEF Pools
<1> QED
  BY <1>2, <1>4, <1>6, <1>8 DEF Marked, r

\* The free blocks and the blocks in use after a change of one flag.
LEMMA FlagKinds ==
  ASSUME NEW H, Linked(H), NEW K, NEW b, Flagged(H, K, b)
  PROVE  /\ K[b].flags # Free => FreeIn(K) = FreeIn(H) \ {b} /\ UsedIn(K) = UsedIn(H) \cup {b}
         /\ K[b].flags = Free => FreeIn(K) = FreeIn(H) \cup {b} /\ UsedIn(K) = UsedIn(H) \ {b}
<1>1. /\ HeadsOf(K) = HeadsOf(H) /\ b \in HeadsOf(H) /\ b # 0 /\ b # EndSentinel
      /\ \A u \in Units : u # b => K[u] = H[u]
  BY FlagLinked DEF Flagged
<1>2. HeadsOf(H) \subseteq Units
  BY DEF HeadsOf
<1> QED
  BY <1>1, <1>2 DEF FreeIn, UsedIn

\* r is the sound pool that t becomes when b is marked.
Handed(p, t, r, b, f) ==
  Sound(r) /\ Claimed(p.hdr, r.hdr, b, f) /\ r.hdr[b].bsize = t.hdr[b].bsize

\* A block is handed out as it is.
LEMMA TakeWhole ==
  ASSUME NEW p, Sound(p), NEW b \in FreeIn(p.hdr), NEW f \in {Alloc, Temporal},
         NEW t, t = FlRemove(p, b)
  PROVE  Handed(p, t, [t EXCEPT !.hdr[b].flags = f], b, f) /\ t.hdr = p.hdr
<1> DEFINE q == t
           r == [t EXCEPT !.hdr[b].flags = f]
           H == p.hdr
           K == r.hdr
           F == FreeIn(H)
<1>1. p \in Pools /\ Linked(H) /\ Merged(H) /\ Shelved(p, F)
  BY DEF Sound
<1>2. b \in HeadsOf(H) /\ b \in Units /\ b # 0 /\ b # EndSentinel /\ Classed(H, b)
  BY <1>1, FreeFacts
<1>3. F \in SUBSET Units
  BY DEF FreeIn, HeadsOf
<1>4. q \in Pools /\ Shelved(q, F \ {b}) /\ q.hdr = H
  BY <1>1, <1>2, <1>3, RemoveShelved
<1>5. f \in {Free, Alloc, Temporal, Tombstone} /\ f # Free
  BY DEF Free, Alloc, Temporal
<1>6. r = [q EXCEPT !.hdr[b].flags = f] /\ b \in F
  OBVIOUS
<1> HIDE DEF q, r
<1>15. Marked(q, r, b, f)
  <2>1. q \in Pools /\ b \in Units /\ f \in {Free, Alloc, Temporal, Tombstone}
    BY <1>2, <1>4, <1>5
  <2>2. Marked(q, [q EXCEPT !.hdr[b].flags = f], b, f)
    BY <2>1, SetFlags, Zenon
  <2> QED
    BY <1>6, <2>2, Zenon
<1>7. /\ r \in Pools /\ r.lists = q.lists /\ r.sl = q.sl /\ r.fl = q.fl
      /\ K[b].bsize = q.hdr[b].bsize /\ K[b].prev = q.hdr[b].prev /\ K[b].flags = f
      /\ \A u \in Units : u # b => K[u] = q.hdr[u]
      /\ \A u \in Units : K[u].bsize = q.hdr[u].bsize
  BY <1>15 DEF Marked
<1>8. K \in [Units -> Headers]
  BY <1>7 DEF Pools
<1> HIDE DEF K, H
<1>9. Flagged(H, K, b)
  BY <1>2, <1>4, <1>7, <1>8 DEF Flagged
<1>10. /\ Linked(K) /\ HeadsOf(K) = HeadsOf(H) /\ \A u \in Units : NextOf(K, u) = NextOf(H, u)
       /\ FreeIn(K) = F \ {b} /\ UsedIn(K) = UsedIn(H) \cup {b}
  BY <1>1, <1>5, <1>7, <1>9, FlagLinked, FlagKinds
<1>11. Merged(K)
  <2>1. HeadsOf(H) \subseteq Units
    BY DEF HeadsOf
  <2> QED
    BY <1>1, <1>10, <2>1 DEF Merged
<1>12. Shelved(r, FreeIn(K))
  <2> DEFINE G == F \ {b}
  <2>1. G \in SUBSET Units /\ Shelved(q, G) /\ \A x \in G : r.hdr[x].bsize = q.hdr[x].bsize
    BY <1>3, <1>4, <1>7 DEF K
  <2>2. FreeIn(K) = G
    BY <1>10
  <2> HIDE DEF G
  <2>4. SameLists(q, r, G)
    BY <1>7, <2>1 DEF SameLists
  <2>3. Shelved(r, G)
    BY <2>1, <2>4, SameShelved, Zenon
  <2> QED
    BY <2>2, <2>3
<1>13. Sound(r)
  BY <1>7, <1>10, <1>11, <1>12 DEF Sound, K
<1>14. Claimed(H, K, b, f)
  <2>1. \A x \in UsedIn(H) : x \in Units /\ x # b
    BY <1>1, <1>2, <1>6, UsedFacts
  <2> QED
    BY <1>4, <1>6, <1>7, <1>10, <2>1 DEF Claimed
<1> QED
  BY <1>4, <1>7, <1>13, <1>14 DEF H, K, q, r, Handed

\* r is q with headers K.
Rewritten(q, r, K) == r \in Pools /\ r.hdr = K /\ r.lists = q.lists /\ r.sl = q.sl /\ r.fl = q.fl

\* The headers that try_split writes.
CutHdr(H, b, u) ==
  [H EXCEPT ![b].bsize = u,
            ![b + u] = [bsize |-> H[b].bsize - u, flags |-> Free, prev |-> b],
            ![b + u + (H[b].bsize - u)].prev = b + u]

\* They cut the block.
LEMMA CutHdrCuts ==
  ASSUME NEW H, Linked(H), NEW b \in HeadsOf(H), b # 0, b # EndSentinel,
         NEW u \in Nat, MinUnits <= u, u + MinUnits <= H[b].bsize
  PROVE  Cut(H, CutHdr(H, b, u), b, b + u)
<1> DEFINE s == H[b].bsize
           m == b + u
           n == NextOf(H, b)
           K == CutHdr(H, b, u)
<1>1. /\ b \in Units /\ b \in Nat /\ s \in Nat /\ n \in HeadsOf(H) /\ n \in Units /\ n \in Nat
      /\ b < n /\ n <= EndSentinel /\ H \in [Units -> Headers]
  BY LinkedAt DEF Linked
<1>2. n = b + s /\ b + u + (s - u) = n
  BY <1>1 DEF NextOf
<1>3. m \in Nat /\ b + MinUnits <= m /\ m + MinUnits <= n /\ b < m /\ m < n
  <2> HIDE DEF s, n
  <2> QED
    BY <1>1, <1>2 DEF MinUnits, s
<1>4. m \in Units
  BY <1>1, <1>3, UnitFacts
<1> DEFINE rest == [bsize |-> s - u, flags |-> Free, prev |-> b]
           H1 == [H EXCEPT ![b].bsize = u]
           H2 == [H1 EXCEPT ![m] = rest]
           H3 == [H2 EXCEPT ![n].prev = m]
<1>5. K = H3
  <2>1. K = [H EXCEPT ![b].bsize = u, ![m] = rest, ![b + u + (s - u)].prev = m]
    BY DEF CutHdr
  <2> HIDE DEF n, K, rest, s, m
  <2> QED
    BY <1>2, <2>1
<1>6. /\ H[b] \in Headers /\ H[n] \in Headers
      /\ H[n].bsize \in Nat /\ H[n].flags \in {Free, Alloc, Temporal, Tombstone}
      /\ H[b].flags \in {Free, Alloc, Temporal, Tombstone} /\ s <= Total
      /\ H[b].prev \in Units \cup {None}
  BY <1>1, HeadFacts
<1>7. s - u \in 0 .. Total /\ u \in 0 .. Total /\ s - u = n - m /\ Total \in Nat
  <2>1. Total \in Nat
    BY UnitFacts
  <2> HIDE DEF s, n
  <2> QED
    BY <1>1, <1>2, <1>6, <2>1 DEF MinUnits, s
<1>8. rest \in Headers
  <2> HIDE DEF s
  <2> QED
    BY <1>1, <1>7 DEF Headers
<1> HIDE DEF n, m, K
<1> DEFINE hb == [H[b] EXCEPT !.bsize = u]
           hn == [H[n] EXCEPT !.prev = m]
<1>9. hb \in Headers /\ hb.bsize = u /\ hb.flags = H[b].flags /\ hb.prev = H[b].prev
  <2> HIDE DEF s
  <2> QED
    BY <1>6, <1>7 DEF Headers
<1>10. hn \in Headers /\ hn.bsize = H[n].bsize /\ hn.flags = H[n].flags /\ hn.prev = m
  BY <1>4, <1>6 DEF Headers
<1>11. rest.bsize = n - m /\ rest.flags = Free /\ rest.prev = b
  BY <1>7
<1> HIDE DEF rest, s
<1>12. H1 = [H EXCEPT ![b] = hb]
  OBVIOUS
<1> HIDE DEF hb, H1
<1>13. /\ H1 \in [Units -> Headers] /\ H1[b] = hb
       /\ \A x \in Units : x # b => H1[x] = H[x]
  BY <1>1, <1>9, <1>12
<1> HIDE DEF H2
<1>14. /\ H2 \in [Units -> Headers] /\ H2[m] = rest
       /\ \A x \in Units : x # m => H2[x] = H1[x]
  BY <1>4, <1>8, <1>13 DEF H2
<1>15. b # m /\ m # n /\ b # n
  BY <1>1, <1>3
<1>16. H2[n] = H[n]
  BY <1>1, <1>13, <1>14, <1>15
<1>17. H3 = [H2 EXCEPT ![n] = hn]
  BY <1>16
<1> HIDE DEF hn, H3
<1>18. /\ K \in [Units -> Headers] /\ K[n] = hn
       /\ \A x \in Units : x # n => K[x] = H2[x]
  BY <1>1, <1>5, <1>10, <1>14, <1>17
<1>19. K[b] = hb /\ K[m] = rest /\ \A x \in Units : x # b /\ x # m /\ x # n => K[x] = H[x]
  BY <1>1, <1>4, <1>13, <1>14, <1>15, <1>18
<1>20. u = m - b
  BY <1>1 DEF m
<1> QED
  BY <1>3, <1>4, <1>9, <1>10, <1>11, <1>18, <1>19, <1>20 DEF Cut, n, m, K

\* The record that try_split works on.
LEMMA CutPool ==
  ASSUME NEW q \in Pools, NEW b \in Units, NEW u, NEW w, w = q.hdr[b].bsize - u,
         CutHdr(q.hdr, b, u) \in [Units -> Headers]
  PROVE  Rewritten(q, [q EXCEPT !.hdr[b].bsize = u,
                                !.hdr[b + u] = [bsize |-> w, flags |-> Free, prev |-> b],
                                !.hdr[b + u + w].prev = b + u],
                   CutHdr(q.hdr, b, u))
<1> DEFINE rest == [bsize |-> w, flags |-> Free, prev |-> b]
           m == b + u
           n == b + u + w
           r == [q EXCEPT !.hdr[b].bsize = u, !.hdr[m] = rest, !.hdr[n].prev = m]
           K == CutHdr(q.hdr, b, u)
<1>1. K = [q.hdr EXCEPT ![b].bsize = u, ![m] = rest, ![n].prev = m]
  BY DEF CutHdr
<1>2. /\ q.hdr \in [Units -> Headers] /\ q.lists \in [Classes -> Seq(Units)]
      /\ q.sl \in SUBSET Classes /\ q.fl \in SUBSET (0 .. FlCount - 1)
      /\ q = [hdr |-> q.hdr, lists |-> q.lists, sl |-> q.sl, fl |-> q.fl]
  BY DEF Pools
<1>3. r = [q EXCEPT !.hdr[b].bsize = u, !.hdr[m] = rest, !.hdr[n].prev = m]
  OBVIOUS
<1>4. K \in [Units -> Headers]
  OBVIOUS
<1> HIDE DEF r, m, n, rest, K
<1>5. r = [hdr |-> [q.hdr EXCEPT ![b].bsize = u, ![m] = rest, ![n].prev = m],
           lists |-> q.lists, sl |-> q.sl, fl |-> q.fl]
  BY <1>3 DEF Pools
<1>6. r = [hdr |-> K, lists |-> q.lists, sl |-> q.sl, fl |-> q.fl]
  BY <1>1, <1>5
<1>7. r.hdr = K /\ r.lists = q.lists /\ r.sl = q.sl /\ r.fl = q.fl /\ r \in Pools
  BY <1>2, <1>4, <1>6 DEF Pools
<1>8. Rewritten(q, r, K)
  BY <1>7 DEF Rewritten
<1> QED
  BY <1>8 DEF r, m, n, rest, K

\* A block is cut and its first part handed out.
LEMMA TakePart ==
  ASSUME NEW p, Sound(p), NEW b \in FreeIn(p.hdr), NEW f \in {Alloc, Temporal},
         NEW u \in Nat, MinUnits <= u, u + MinUnits <= p.hdr[b].bsize,
         NEW c, Rewritten(FlRemove(p, b), c, CutHdr(p.hdr, b, u)),
         NEW t, t = FlInsert(c, b + u)
  PROVE  Handed(p, t, [t EXCEPT !.hdr[b].flags = f], b, f) /\ t.hdr[b].bsize = u
<1> DEFINE r == [t EXCEPT !.hdr[b].flags = f]
           q == FlRemove(p, b)
           H == p.hdr
           F == FreeIn(H)
           m == b + u
           n == NextOf(H, b)
           d == t
           D == d.hdr
           K == r.hdr
<1>1. p \in Pools /\ Linked(H) /\ Merged(H) /\ Shelved(p, F) /\ b \in F
  BY DEF Sound
<1>2. b \in HeadsOf(H) /\ b \in Units /\ b # 0 /\ b # EndSentinel /\ Classed(H, b)
  BY <1>1, FreeFacts
<1>3. F \in SUBSET Units
  BY DEF FreeIn, HeadsOf
<1>4. q \in Pools /\ Shelved(q, F \ {b}) /\ q.hdr = H
  BY <1>1, <1>2, <1>3, RemoveShelved
<1>5. Cut(H, CutHdr(H, b, u), b, m)
  BY <1>1, <1>2, CutHdrCuts
<1>6. c \in Pools /\ c.hdr = CutHdr(H, b, u) /\ c.lists = q.lists /\ c.sl = q.sl /\ c.fl = q.fl
  BY DEF Rewritten
<1>7. Cut(H, c.hdr, b, m)
  BY <1>5, <1>6
<1>8. d = FlInsert(c, m) /\ r = [d EXCEPT !.hdr[b].flags = f]
  OBVIOUS
<1>18. p.hdr = H
  OBVIOUS
<1> HIDE DEF q, m, d, H, r
<1>9. /\ HeadsOf(c.hdr) = HeadsOf(H) \cup {m} /\ m \in Nat /\ m \notin HeadsOf(H) /\ m \in Units
      /\ \A x \in Units : x # b /\ x # m => c.hdr[x].bsize = H[x].bsize
      /\ c.hdr[m].bsize = n - m /\ m + MinUnits <= n /\ c.hdr[m].flags = Free /\ c.hdr[m].prev = b
  BY <1>1, <1>7, CutLinked DEF Cut
<1>10. Classed(c.hdr, m)
  <2>1. c.hdr \in [Units -> Headers] /\ n \in Nat
    BY <1>1, <1>2, <1>6, LinkedAt DEF Pools
  <2>2. c.hdr[m].bsize \in Nat /\ c.hdr[m].bsize <= Total
    BY <1>9, <2>1, HeadFacts
  <2> HIDE DEF n
  <2> QED
    BY <1>9, <2>1, <2>2 DEF Classed, MinUnits
<1>11. Shelved(c, F \ {b})
  <2> DEFINE G == F \ {b}
  <2>1. G \in SUBSET Units /\ Shelved(q, G) /\ m \notin G
    BY <1>3, <1>4, <1>9 DEF FreeIn
  <2>2. SameLists(q, c, G)
    BY <1>3, <1>4, <1>6, <1>9, <2>1 DEF SameLists
  <2> HIDE DEF G
  <2>3. Shelved(c, G)
    BY <2>1, <2>2, SameShelved
  <2> QED
    BY <2>3 DEF G
<1>12. /\ d \in Pools /\ Shelved(d, (F \ {b}) \cup {m})
       /\ D[m].bsize = c.hdr[m].bsize /\ D[m].prev = c.hdr[m].prev /\ D[m].flags = Free
       /\ \A x \in Units : x # m => D[x] = c.hdr[x]
  <2> DEFINE G == F \ {b}
  <2>1. G \in SUBSET Units /\ Shelved(c, G) /\ m \notin G
    BY <1>3, <1>9, <1>11 DEF FreeIn
  <2> HIDE DEF G
  <2>2. /\ d \in Pools /\ Shelved(d, G \cup {m})
        /\ D[m].bsize = c.hdr[m].bsize /\ D[m].prev = c.hdr[m].prev /\ D[m].flags = Free
        /\ \A x \in Units : x # m => D[x] = c.hdr[x]
    <3>1. Listed(c, d, G, m)
      BY <1>6, <1>8, <1>10, <2>1, InsertShelved
    <3> QED
      BY <3>1 DEF Listed
  <2> QED
    BY <2>2 DEF G
<1>13. D \in [Units -> Headers]
  BY <1>12 DEF Pools
<1> HIDE DEF D
<1>14. Cut(H, D, b, m)
  <2>1. n \in Units /\ b \in Units
    BY <1>1, <1>2, LinkedAt
  <2>2. m # b /\ m # n
    <3>1. b \in Nat /\ n \in Nat
      BY <1>1, <1>2, LinkedAt
    <3>2. b + MinUnits <= m
      BY <1>7 DEF Cut
    <3> HIDE DEF n
    <3> QED
      BY <1>9, <3>1, <3>2 DEF MinUnits
  <2>3. D[b] = c.hdr[b] /\ D[n] = c.hdr[n]
    BY <1>12, <2>1, <2>2
  <2> QED
    BY <1>7, <1>9, <1>12, <1>13, <2>1, <2>2, <2>3 DEF Cut
<1>15. /\ Linked(D) /\ HeadsOf(D) = HeadsOf(H) \cup {m}
       /\ m # 0 /\ m # EndSentinel
       /\ NextOf(D, b) = m /\ NextOf(D, m) = n
       /\ \A x \in Units : x # b /\ x # m => NextOf(D, x) = NextOf(H, x)
       /\ \A x \in Units : x # m => D[x].flags = H[x].flags
       /\ \A x \in Units : x # b /\ x # m => D[x].bsize = H[x].bsize
  BY <1>1, <1>14, CutLinked
<1>16. D[b].bsize = u
  <2>1. D[b].bsize = m - b
    BY <1>14 DEF Cut
  <2>2. b \in Nat
    BY <1>2, UnitFacts
  <2> QED
    BY <2>1, <2>2 DEF m
<1>17. f \in {Free, Alloc, Temporal, Tombstone} /\ f # Free
  BY DEF Free, Alloc, Temporal
<1>19. Marked(d, r, b, f)
  <2>1. Marked(d, [d EXCEPT !.hdr[b].flags = f], b, f)
    BY <1>2, <1>12, <1>17, SetFlags, Zenon
  <2> QED
    BY <1>8, <2>1, Zenon
<1>20. /\ r \in Pools /\ r.lists = d.lists /\ r.sl = d.sl /\ r.fl = d.fl
       /\ K[b].bsize = D[b].bsize /\ K[b].prev = D[b].prev /\ K[b].flags = f
       /\ \A x \in Units : x # b => K[x] = D[x]
       /\ \A x \in Units : K[x].bsize = D[x].bsize
  BY <1>19 DEF Marked, D
<1>21. K \in [Units -> Headers]
  BY <1>20 DEF Pools
<1> HIDE DEF K
<1>22. Flagged(D, K, b)
  BY <1>2, <1>15, <1>20, <1>21 DEF Flagged
<1>23. /\ Linked(K) /\ HeadsOf(K) = HeadsOf(D) /\ \A x \in Units : NextOf(K, x) = NextOf(D, x)
       /\ FreeIn(K) = FreeIn(D) \ {b} /\ UsedIn(K) = UsedIn(D) \cup {b}
  BY <1>15, <1>17, <1>20, <1>22, FlagLinked, FlagKinds
<1>24. FreeIn(K) = (F \ {b}) \cup {m}
  <2>1. FreeIn(D) = F \cup {m}
    <3>1. HeadsOf(H) \subseteq Units /\ D[m].flags = Free
      BY <1>12 DEF HeadsOf
    <3> QED
      BY <1>9, <1>15, <3>1 DEF FreeIn
  <2>2. m # b
    BY <1>2, <1>9
  <2> QED
    BY <1>23, <2>1, <2>2
<1>25. UsedIn(K) = UsedIn(H) \cup {b} /\ m \notin UsedIn(H)
  <2>1. m \notin UsedIn(H)
    BY <1>1, <1>9, UsedFacts
  <2>2. UsedIn(D) = UsedIn(H)
    <3>1. D[m].flags = Free /\ \A x \in Units : x # m => D[x].flags = H[x].flags
      BY <1>12, <1>15
    <3> QED
      BY <2>1, <3>1 DEF UsedIn
  <2> QED
    BY <1>23, <2>1, <2>2
<1>26. Merged(K)
  <2> SUFFICES ASSUME NEW x \in HeadsOf(K), x # EndSentinel, x \in FreeIn(K), NextOf(K, x) \in FreeIn(K)
               PROVE  FALSE
    BY DEF Merged
  <2>1. x \in Units /\ x # b /\ NextOf(K, x) = NextOf(D, x)
    BY <1>2, <1>9, <1>23, <1>24 DEF HeadsOf
  <2>2. CASE x = m
    <3>1. n \in HeadsOf(H)
      BY <1>1, <1>2, LinkedAt
    <3>2. NextOf(K, x) = n /\ n # m
      BY <1>9, <1>15, <2>1, <2>2, <3>1
    <3>3. n \in F /\ b \in F
      BY <1>1, <1>24, <3>2
    <3> QED
      BY <1>1, <1>2, <3>3 DEF Merged
  <2>3. CASE x # m
    <3>1. x \in HeadsOf(H) /\ x \in F
      BY <1>24, <2>3 DEF FreeIn
    <3>2. NextOf(K, x) = NextOf(H, x) /\ NextOf(H, x) \in HeadsOf(H)
      BY <1>1, <1>15, <2>1, <2>3, <3>1, LinkedAt
    <3>3. NextOf(H, x) \in F
      BY <1>9, <1>24, <3>2
    <3> QED
      BY <1>1, <3>1, <3>3 DEF Merged
  <2> QED
    BY <2>2, <2>3
<1>27. Shelved(r, FreeIn(K))
  <2> DEFINE G == (F \ {b}) \cup {m}
  <2>1. G \in SUBSET Units /\ Shelved(d, G)
    BY <1>3, <1>9, <1>12
  <2>2. SameLists(d, r, G)
    BY <1>20, <2>1 DEF SameLists, K, D
  <2> HIDE DEF G
  <2>3. Shelved(r, G)
    BY <2>1, <2>2, SameShelved
  <2> QED
    BY <1>24, <2>3 DEF G
<1>28. Sound(r)
  BY <1>20, <1>23, <1>26, <1>27 DEF Sound, K
<1>29. Claimed(H, K, b, f)
  <2>1. \A x \in UsedIn(H) : x \in Units /\ x # b /\ x # m
    BY <1>1, <1>25, UsedFacts
  <2>2. \A x \in UsedIn(H) : K[x].bsize = H[x].bsize /\ K[x].flags = H[x].flags
    BY <1>15, <1>20, <2>1
  <2> QED
    BY <1>1, <1>20, <1>25, <2>2 DEF Claimed
<1>30. r.hdr[b].bsize = u /\ d.hdr[b].bsize = u
  BY <1>16, <1>20 DEF D, K
<1> QED
  BY <1>28, <1>29, <1>30 DEF H, K, d, m, r, Handed

\* try_split and the flags that follow it hand out u units or one more.
LEMMA Take ==
  ASSUME NEW p, Sound(p), NEW b \in FreeIn(p.hdr), NEW f \in {Alloc, Temporal},
         NEW u \in Nat, MinUnits <= u, u <= p.hdr[b].bsize,
         NEW t, t = TrySplit(FlRemove(p, b), b, u),
         NEW r, r = [t EXCEPT !.hdr[b].flags = f]
  PROVE  Handed(p, t, r, b, f) /\ t.hdr[b].bsize \in {u, u + 1}
<1> DEFINE q == FlRemove(p, b)
           H == p.hdr
           s == H[b].bsize
           c == [q EXCEPT !.hdr[b].bsize = u,
                          !.hdr[b + u] = [bsize |-> q.hdr[b].bsize - u, flags |-> Free, prev |-> b],
                          !.hdr[b + u + (q.hdr[b].bsize - u)].prev = b + u]
<1>1. p \in Pools /\ Linked(H) /\ Shelved(p, FreeIn(H))
  BY DEF Sound
<1>2. b \in HeadsOf(H) /\ b \in Units /\ b # 0 /\ b # EndSentinel /\ Classed(H, b)
  BY <1>1, FreeFacts
<1>3. FreeIn(H) \in SUBSET Units
  BY DEF FreeIn, HeadsOf
<1>4. q \in Pools /\ q.hdr = H
  BY <1>1, <1>2, <1>3, RemoveShelved
<1>5. s \in Nat
  BY <1>2 DEF Classed
<1>6. t = IF s - u < MinUnits THEN q ELSE FlInsert(c, b + u)
  <2>1. t = IF q.hdr[b].bsize - u < MinUnits THEN q ELSE FlInsert(c, b + u)
    BY Zenon DEF TrySplit
  <2> HIDE DEF q, c, H
  <2>2. q.hdr[b].bsize = H[b].bsize
    BY <1>4
  <2> QED
    BY <2>1, <2>2, Zenon
<1>7. CASE s - u < MinUnits
  <2>1. t = q
    BY <1>6, <1>7
  <2>2. Handed(p, t, [t EXCEPT !.hdr[b].flags = f], b, f) /\ t.hdr = p.hdr
    BY <2>1, TakeWhole
  <2>3. Handed(p, t, r, b, f)
    BY <2>2
  <2>4. s \in {u, u + 1}
    <3> HIDE DEF s
    <3>1. u <= s
      BY DEF s
    <3> QED
      BY <1>5, <1>7, <3>1 DEF MinUnits
  <2> QED
    BY <2>2, <2>3, <2>4
<1>8. CASE ~(s - u < MinUnits)
  <2>1. t = FlInsert(c, b + u)
    BY <1>6, <1>8
  <2>2. u + MinUnits <= s
    <3> HIDE DEF s
    <3> QED
      BY <1>5, <1>8 DEF MinUnits
  <2>3. Cut(H, CutHdr(H, b, u), b, b + u)
    BY <1>1, <1>2, <2>2, CutHdrCuts
  <2>4. CutHdr(H, b, u) \in [Units -> Headers]
    BY <2>3 DEF Cut
  <2>5. Rewritten(q, c, CutHdr(H, b, u))
    <3>1. CutHdr(q.hdr, b, u) = CutHdr(H, b, u)
      BY <1>4
    <3> HIDE DEF q, H
    <3>2. Rewritten(q, c, CutHdr(q.hdr, b, u))
      BY <1>2, <1>4, <2>4, <3>1, CutPool
    <3> QED
      BY <3>1, <3>2
  <2> HIDE DEF c
  <2>6. Rewritten(FlRemove(p, b), c, CutHdr(p.hdr, b, u)) /\ u + MinUnits <= p.hdr[b].bsize
    BY <2>2, <2>5
  <2>7. Handed(p, t, [t EXCEPT !.hdr[b].flags = f], b, f) /\ t.hdr[b].bsize = u
    BY <2>1, <2>6, TakePart
  <2> QED
    BY <2>7
<1> QED
  BY <1>7, <1>8

-----------------------------------------------------------------------------
(* Giving a block back *)

\* Block b of H, in use there, is free in K.
Dropped(H, K, b) ==
  /\ b \in UsedIn(H) /\ UsedIn(K) = UsedIn(H) \ {b}
  /\ \A x \in UsedIn(K) : K[x].bsize = H[x].bsize /\ K[x].flags = H[x].flags

Outside(S, lo, hi) == {x \in S : x < lo \/ hi <= x}

\* While b is joined with its neighbours: q has one block from lo to hi, which
\* is on no list.
Open(p, q, b, lo, hi) ==
  /\ q \in Pools /\ Shelved(q, Outside(FreeIn(p.hdr), lo, hi))
  /\ lo \in HeadsOf(p.hdr) /\ lo # 0 /\ lo # EndSentinel /\ hi \in HeadsOf(p.hdr) /\ lo < hi
  /\ lo <= b /\ b < hi
  /\ \A x \in HeadsOf(p.hdr) : lo <= x /\ x < hi => x = b \/ x \in FreeIn(p.hdr)
  /\ q.hdr[lo].bsize = hi - lo /\ q.hdr[lo].prev = p.hdr[lo].prev
  /\ \A u \in Units : lo < u /\ u < hi => q.hdr[u].bsize = 0 /\ q.hdr[u].flags = Free
  /\ \A u \in Units : u < lo \/ hi <= u => q.hdr[u] = p.hdr[u]

\* The block itself, before it is joined.
LEMMA OpenFirst ==
  ASSUME NEW p, Sound(p), NEW b \in UsedIn(p.hdr)
  PROVE  Open(p, p, b, b, NextOf(p.hdr, b))
<1> DEFINE H == p.hdr
           n == NextOf(H, b)
<1>1. p \in Pools /\ Linked(H) /\ Shelved(p, FreeIn(H))
  BY DEF Sound
<1>2. b \in HeadsOf(H) /\ b # 0 /\ b # EndSentinel /\ b \notin FreeIn(H) /\ b \in Nat /\ H[b].bsize \in Nat
  BY <1>1, UsedFacts, LinkedAt
<1>3. /\ n \in HeadsOf(H) /\ b < n /\ n \in Nat
      /\ \A u \in HeadsOf(H) : u <= b \/ n <= u
  BY <1>1, <1>2, LinkedAt
<1>4. \A u \in HeadsOf(H) : u \in Nat
  BY <1>1, LinkedAt
<1>5. H[b].bsize = n - b
  BY <1>2 DEF NextOf
<1> HIDE DEF n
<1>6. Outside(FreeIn(H), b, n) = FreeIn(H)
  <2>1. ASSUME NEW x \in FreeIn(H)
        PROVE  x < b \/ n <= x
    <3>1. x \in HeadsOf(H) /\ x # b
      BY <1>2 DEF FreeIn
    <3>2. x \in Nat /\ (x <= b \/ n <= x)
      BY <1>3, <1>4, <3>1
    <3> QED
      BY <1>2, <1>3, <3>1, <3>2
  <2> QED
    BY <2>1, Zenon DEF Outside
<1>7. \A x \in HeadsOf(H) : b <= x /\ x < n => x = b
  BY <1>2, <1>3, <1>4
<1>8. \A u \in Units : b < u /\ u < n => H[u].bsize = 0 /\ H[u].flags = Free
  <2> SUFFICES ASSUME NEW u \in Units, b < u, u < n
               PROVE  H[u].bsize = 0 /\ H[u].flags = Free
    OBVIOUS
  <2>1. u \in Nat
    BY UnitFacts
  <2>2. u \notin HeadsOf(H)
    BY <1>2, <1>3, <2>1
  <2>3. H \in [Units -> Headers]
    BY <1>1 DEF Linked
  <2>4. H[u].bsize \in Nat /\ ~(H[u].bsize >= 1)
    BY <2>2, <2>3, HeadFacts
  <2> QED
    BY <1>1, <2>2, <2>4 DEF Linked
<1> HIDE DEF H
<1>9. b <= b
  BY <1>2
<1>10. Shelved(p, Outside(FreeIn(H), b, n))
  BY <1>1, <1>6
<1> QED
  BY <1>1, <1>2, <1>3, <1>5, <1>7, <1>8, <1>9, <1>10 DEF Open, H, n

\* r is q with another size at a and no header at y.
Absorbed(q, r, a, y, s) ==
  /\ r \in Pools /\ r.lists = q.lists /\ r.sl = q.sl /\ r.fl = q.fl
  /\ r.hdr[a].bsize = s /\ r.hdr[a].prev = q.hdr[a].prev /\ r.hdr[a].flags = q.hdr[a].flags
  /\ r.hdr[y].bsize = 0 /\ r.hdr[y].flags = Free
  /\ \A u \in Units : u # a /\ u # y => r.hdr[u] = q.hdr[u]

\* What coalescing writes into the headers.
LEMMA AbsorbPool ==
  ASSUME NEW q \in Pools, NEW a \in Units, NEW y \in Units, a # y, NEW s \in 0 .. Total
  PROVE  Absorbed(q, [q EXCEPT !.hdr[a].bsize = s, !.hdr[y] = Blank], a, y, s)
<1> DEFINE r == [q EXCEPT !.hdr[a].bsize = s, !.hdr[y] = Blank]
           h == [q.hdr[a] EXCEPT !.bsize = s]
           H1 == [q.hdr EXCEPT ![a] = h]
           H2 == [H1 EXCEPT ![y] = Blank]
<1>1. /\ q.hdr \in [Units -> Headers] /\ q.lists \in [Classes -> Seq(Units)]
      /\ q.sl \in SUBSET Classes /\ q.fl \in SUBSET (0 .. FlCount - 1)
  BY DEF Pools
<1>2. r = [q EXCEPT !.hdr[a].bsize = s, !.hdr[y] = Blank]
  OBVIOUS
<1> HIDE DEF r
<1>3. /\ r.hdr = [q.hdr EXCEPT ![a].bsize = s, ![y] = Blank]
      /\ r.lists = q.lists /\ r.sl = q.sl /\ r.fl = q.fl
      /\ r = [hdr |-> r.hdr, lists |-> r.lists, sl |-> r.sl, fl |-> r.fl]
  BY <1>2 DEF Pools
<1>4. r.hdr = H2
  BY <1>3
<1>5. q.hdr[a] \in Headers
  BY <1>1
<1>6. h \in Headers /\ h.bsize = s /\ h.prev = q.hdr[a].prev /\ h.flags = q.hdr[a].flags
  BY <1>5 DEF Headers
<1>7. Blank \in Headers /\ Blank.bsize = 0 /\ Blank.flags = Free
  BY Consts DEF Blank, Headers
<1> HIDE DEF h, H1, H2
<1>8. H1 \in [Units -> Headers] /\ H1[a] = h /\ \A u \in Units : u # a => H1[u] = q.hdr[u]
  BY <1>1, <1>6 DEF H1
<1>9. H2 \in [Units -> Headers] /\ H2[y] = Blank /\ \A u \in Units : u # y => H2[u] = H1[u]
  BY <1>7, <1>8 DEF H2
<1>10. r \in Pools
  BY <1>1, <1>3, <1>4, <1>9 DEF Pools
<1>11. Absorbed(q, r, a, y, s)
  BY <1>3, <1>4, <1>6, <1>7, <1>8, <1>9, <1>10 DEF Absorbed
<1> QED
  BY <1>11 DEF r

\* The facts of Open that the steps below use.
LEMMA OpenFacts ==
  ASSUME NEW p, Sound(p), NEW q, NEW b \in UsedIn(p.hdr), NEW lo, NEW hi, Open(p, q, b, lo, hi)
  PROVE  /\ p \in Pools /\ Linked(p.hdr) /\ Merged(p.hdr) /\ p.hdr \in [Units -> Headers]
         /\ lo \in Units /\ hi \in Units /\ lo \in Nat /\ hi \in Nat /\ b \in Nat
         /\ lo >= 1 /\ hi <= Total + 1
         /\ \A x \in HeadsOf(p.hdr) : x \in Nat /\ x \in Units
         /\ FreeIn(p.hdr) \subseteq HeadsOf(p.hdr)
<1>1. p \in Pools /\ Linked(p.hdr) /\ Merged(p.hdr)
  BY DEF Sound
<1>2. lo \in HeadsOf(p.hdr) /\ lo # 0 /\ hi \in HeadsOf(p.hdr)
  BY DEF Open
<1>3. \A x \in HeadsOf(p.hdr) : x \in Nat /\ x \in Units /\ x <= Total + 1
  BY <1>1, LinkedAt, UnitFacts
<1>4. lo \in Nat /\ lo \in Units /\ hi \in Nat /\ hi \in Units /\ hi <= Total + 1
  BY <1>2, <1>3
<1>5. lo >= 1
  BY <1>2, <1>4
<1>6. b \in Nat
  BY <1>1, UsedFacts, UnitFacts
<1>7. p.hdr \in [Units -> Headers] /\ FreeIn(p.hdr) \subseteq HeadsOf(p.hdr)
  BY <1>1 DEF Linked, FreeIn
<1> QED
  BY <1>1, <1>3, <1>4, <1>5, <1>6, <1>7

\* A neighbour is taken off its list.
LEMMA OpenRemove ==
  ASSUME NEW p, Sound(p), NEW q, NEW b \in UsedIn(p.hdr), NEW lo, NEW hi, Open(p, q, b, lo, hi),
         NEW x \in FreeIn(p.hdr), x < lo \/ hi <= x
  PROVE  /\ FlRemove(q, x) \in Pools /\ FlRemove(q, x).hdr = q.hdr /\ q.hdr[x] = p.hdr[x]
         /\ Shelved(FlRemove(q, x), Outside(FreeIn(p.hdr), lo, hi) \ {x})
<1> DEFINE H == p.hdr
           G == Outside(FreeIn(H), lo, hi)
<1>1. Linked(H) /\ FreeIn(H) \subseteq HeadsOf(H) /\ \A y \in HeadsOf(H) : y \in Nat /\ y \in Units
  BY OpenFacts
<1>2. /\ q \in Pools /\ Shelved(q, G)
      /\ \A u \in Units : u < lo \/ hi <= u => q.hdr[u] = H[u]
  BY DEF Open
<1>3. Classed(H, x) /\ x \in Units
  BY <1>1, FreeFacts
<1>4. q.hdr[x] = H[x] /\ x \in G /\ G \in SUBSET Units
  BY <1>1, <1>2, <1>3 DEF Outside
<1>5. Classed(q.hdr, x)
  BY <1>3, <1>4 DEF Classed
<1> HIDE DEF G
<1>6. FlRemove(q, x) \in Pools /\ Shelved(FlRemove(q, x), G \ {x}) /\ FlRemove(q, x).hdr = q.hdr
  BY <1>2, <1>4, <1>5, RemoveShelved
<1> QED
  BY <1>4, <1>6 DEF G

\* The free block behind is joined.
LEMMA OpenForward ==
  ASSUME NEW p, Sound(p), NEW q, NEW b \in UsedIn(p.hdr), NEW lo, NEW hi, Open(p, q, b, lo, hi),
         hi \in FreeIn(p.hdr),
         NEW r, Absorbed(FlRemove(q, hi), r, lo, hi, NextOf(p.hdr, hi) - lo)
  PROVE  Open(p, r, b, lo, NextOf(p.hdr, hi))
<1> DEFINE H == p.hdr
           n == NextOf(H, hi)
           F == FreeIn(H)
           G == Outside(F, lo, hi)
           t == FlRemove(q, hi)
<1>1. /\ p \in Pools /\ Linked(H) /\ H \in [Units -> Headers]
      /\ lo \in Units /\ hi \in Units /\ lo \in Nat /\ hi \in Nat /\ b \in Nat
      /\ lo >= 1 /\ hi <= Total + 1
      /\ \A x \in HeadsOf(H) : x \in Nat /\ x \in Units
      /\ F \subseteq HeadsOf(H)
  BY OpenFacts
<1>2. /\ q \in Pools /\ Shelved(q, G)
      /\ lo \in HeadsOf(H) /\ lo # 0 /\ lo # EndSentinel /\ hi \in HeadsOf(H) /\ lo < hi
      /\ lo <= b /\ b < hi
      /\ \A x \in HeadsOf(H) : lo <= x /\ x < hi => x = b \/ x \in F
      /\ q.hdr[lo].bsize = hi - lo /\ q.hdr[lo].prev = H[lo].prev
      /\ \A u \in Units : lo < u /\ u < hi => q.hdr[u].bsize = 0 /\ q.hdr[u].flags = Free
      /\ \A u \in Units : u < lo \/ hi <= u => q.hdr[u] = H[u]
  BY DEF Open
<1>3. hi \in F /\ hi # 0 /\ hi # EndSentinel /\ Classed(H, hi)
  BY <1>1, FreeFacts
<1>4. /\ n \in HeadsOf(H) /\ n \in Units /\ n \in Nat /\ hi < n /\ n <= EndSentinel
      /\ \A x \in HeadsOf(H) : x <= hi \/ n <= x
  BY <1>1, <1>2, <1>3, LinkedAt
<1>5. Absorbed(t, r, lo, hi, n - lo)
  OBVIOUS
<1>6. hi <= hi
  BY <1>1
<1>8. t \in Pools /\ Shelved(t, G \ {hi}) /\ t.hdr = q.hdr
  BY <1>3, <1>6, OpenRemove
<1> HIDE DEF t, n
<1>11. /\ r \in Pools /\ r.lists = t.lists /\ r.sl = t.sl /\ r.fl = t.fl
       /\ r.hdr[lo].bsize = n - lo /\ r.hdr[lo].prev = q.hdr[lo].prev
       /\ r.hdr[hi].bsize = 0 /\ r.hdr[hi].flags = Free
       /\ \A u \in Units : u # lo /\ u # hi => r.hdr[u] = q.hdr[u]
  BY <1>5, <1>8 DEF Absorbed
<1>12. Outside(F, lo, n) = G \ {hi}
  <2>1. ASSUME NEW x \in F
        PROVE  (x < lo \/ n <= x) <=> (x < lo \/ hi <= x) /\ x # hi
    <3>1. x \in Nat /\ (x <= hi \/ n <= x)
      BY <1>1, <1>4
    <3> QED
      BY <1>1, <1>2, <1>4, <3>1
  <2> HIDE DEF F
  <2> QED
    BY <2>1 DEF Outside
<1>13. Shelved(r, Outside(F, lo, n))
  <2> DEFINE D == G \ {hi}
  <2>1. D \in SUBSET Units /\ lo \notin D /\ Shelved(t, D)
    BY <1>1, <1>2, <1>8 DEF Outside
  <2>2. \A x \in D : x # lo /\ x # hi /\ x \in Units
    BY <2>1
  <2> HIDE DEF D
  <2>3. SameLists(t, r, D)
    BY <1>8, <1>11, <2>2 DEF SameLists
  <2>4. Shelved(r, D)
    BY <2>1, <2>3, SameShelved
  <2> QED
    BY <1>12, <2>4 DEF D
<1> HIDE DEF F, G, H
<1>14. \A x \in HeadsOf(H) : lo <= x /\ x < n => x = b \/ x \in F
  <2> SUFFICES ASSUME NEW x \in HeadsOf(H), lo <= x, x < n
               PROVE  x = b \/ x \in F
    OBVIOUS
  <2>1. x \in Nat /\ (x <= hi \/ n <= x)
    BY <1>1, <1>4
  <2>2. x < hi \/ x = hi
    BY <1>1, <1>4, <2>1
  <2> QED
    BY <1>2, <1>3, <2>2
<1>15. \A u \in Units : lo < u /\ u < n => r.hdr[u].bsize = 0 /\ r.hdr[u].flags = Free
  <2> SUFFICES ASSUME NEW u \in Units, lo < u, u < n
               PROVE  r.hdr[u].bsize = 0 /\ r.hdr[u].flags = Free
    OBVIOUS
  <2>1. u \in Nat /\ u # lo
    BY <1>1, UnitFacts
  <2>2. CASE u = hi
    BY <1>11, <2>2
  <2>3. CASE u < hi
    <3>1. q.hdr[u].bsize = 0 /\ q.hdr[u].flags = Free /\ u # hi
      BY <1>1, <1>2, <2>1, <2>3
    <3> QED
      BY <1>11, <2>1, <3>1
  <2>4. CASE hi < u
    <3>1. u \notin HeadsOf(H)
      BY <1>1, <1>4, <2>1, <2>4
    <3>2. H[u].bsize = 0 /\ H[u].flags = Free
      <4>1. H[u].bsize \in Nat /\ ~(H[u].bsize >= 1)
        BY <1>1, <3>1, HeadFacts
      <4> QED
        BY <1>1, <3>1, <4>1 DEF Linked
    <3>3. q.hdr[u] = H[u] /\ u # hi
      BY <1>1, <1>2, <2>1, <2>4
    <3> QED
      BY <1>11, <2>1, <3>2, <3>3
  <2>5. u = hi \/ hi < u \/ u < hi
    BY <1>1, <2>1
  <2> QED
    BY <2>2, <2>3, <2>4, <2>5
<1>16. \A u \in Units : u < lo \/ n <= u => r.hdr[u] = H[u]
  <2> SUFFICES ASSUME NEW u \in Units, u < lo \/ n <= u
               PROVE  r.hdr[u] = H[u]
    OBVIOUS
  <2>1. u \in Nat
    BY UnitFacts
  <2>2. u # lo /\ u # hi /\ (u < lo \/ hi <= u)
    BY <1>1, <1>2, <1>4, <2>1
  <2> QED
    BY <1>2, <1>11, <2>2
<1>17. lo < n /\ b < n
  BY <1>1, <1>2, <1>4
<1> QED
  BY <1>2, <1>4, <1>11, <1>13, <1>14, <1>15, <1>16, <1>17 DEF Open, F, H, n

\* The free block before is joined.
LEMMA OpenBack ==
  ASSUME NEW p, Sound(p), NEW q, NEW b \in UsedIn(p.hdr), NEW lo, NEW hi, Open(p, q, b, lo, hi),
         NEW z, z = p.hdr[lo].prev, z \in FreeIn(p.hdr),
         NEW r, Absorbed(FlRemove(q, z), r, z, lo, hi - z)
  PROVE  Open(p, r, b, z, hi)
<1> DEFINE H == p.hdr
           F == FreeIn(H)
           G == Outside(F, lo, hi)
           t == FlRemove(q, z)
<1>1. /\ p \in Pools /\ Linked(H) /\ H \in [Units -> Headers]
      /\ lo \in Units /\ hi \in Units /\ lo \in Nat /\ hi \in Nat /\ b \in Nat
      /\ lo >= 1 /\ hi <= Total + 1
      /\ \A x \in HeadsOf(H) : x \in Nat /\ x \in Units
      /\ F \subseteq HeadsOf(H)
  BY OpenFacts
<1>2. /\ q \in Pools /\ Shelved(q, G)
      /\ lo \in HeadsOf(H) /\ lo # 0 /\ lo # EndSentinel /\ hi \in HeadsOf(H) /\ lo < hi
      /\ lo <= b /\ b < hi
      /\ \A x \in HeadsOf(H) : lo <= x /\ x < hi => x = b \/ x \in F
      /\ q.hdr[lo].bsize = hi - lo
      /\ \A u \in Units : lo < u /\ u < hi => q.hdr[u].bsize = 0 /\ q.hdr[u].flags = Free
      /\ \A u \in Units : u < lo \/ hi <= u => q.hdr[u] = H[u]
  BY DEF Open
<1>3. z \in F /\ z # 0 /\ z # EndSentinel /\ Classed(H, z) /\ z \in HeadsOf(H) /\ z \in Units
  BY <1>1, FreeFacts
<1>4. /\ z \in Nat /\ z < lo /\ NextOf(H, z) = lo
      /\ \A x \in HeadsOf(H) : x <= z \/ lo <= x
  BY <1>1, <1>2, <1>3, LinkedAt
<1>5. Absorbed(t, r, z, lo, hi - z)
  OBVIOUS
<1>8. t \in Pools /\ Shelved(t, G \ {z}) /\ t.hdr = q.hdr /\ q.hdr[z] = H[z]
  <2>1. z \in FreeIn(p.hdr) /\ (z < lo \/ hi <= z)
    BY <1>4
  <2> QED
    BY <2>1, OpenRemove, Zenon
<1> HIDE DEF t
<1>11. /\ r \in Pools /\ r.lists = t.lists /\ r.sl = t.sl /\ r.fl = t.fl
       /\ r.hdr[z].bsize = hi - z /\ r.hdr[z].prev = q.hdr[z].prev
       /\ r.hdr[lo].bsize = 0 /\ r.hdr[lo].flags = Free
       /\ \A u \in Units : u # z /\ u # lo => r.hdr[u] = q.hdr[u]
  BY <1>5, <1>8 DEF Absorbed
<1>12. Outside(F, z, hi) = G \ {z}
  <2>1. ASSUME NEW x \in F
        PROVE  (x < z \/ hi <= x) <=> (x < lo \/ hi <= x) /\ x # z
    <3>1. x \in Nat /\ (x <= z \/ lo <= x)
      BY <1>1, <1>4
    <3> QED
      BY <1>1, <1>2, <1>4, <3>1
  <2> HIDE DEF F
  <2> QED
    BY <2>1 DEF Outside
<1>13. Shelved(r, Outside(F, z, hi))
  <2> DEFINE D == G \ {z}
  <2>1. D \in SUBSET Units /\ lo \notin D /\ Shelved(t, D)
    BY <1>1, <1>2, <1>8 DEF Outside
  <2>2. \A x \in D : x # lo /\ x # z /\ x \in Units
    BY <2>1
  <2> HIDE DEF D
  <2>3. SameLists(t, r, D)
    BY <1>8, <1>11, <2>2 DEF SameLists
  <2>4. Shelved(r, D)
    BY <2>1, <2>3, SameShelved
  <2> QED
    BY <1>12, <2>4 DEF D
<1> HIDE DEF F, G, H
<1>14. \A x \in HeadsOf(H) : z <= x /\ x < hi => x = b \/ x \in F
  <2> SUFFICES ASSUME NEW x \in HeadsOf(H), z <= x, x < hi
               PROVE  x = b \/ x \in F
    OBVIOUS
  <2>1. x \in Nat /\ (x <= z \/ lo <= x)
    BY <1>1, <1>4
  <2>2. lo <= x \/ x = z
    BY <1>1, <1>4, <2>1
  <2> QED
    BY <1>2, <1>3, <2>2
<1>15. \A u \in Units : z < u /\ u < hi => r.hdr[u].bsize = 0 /\ r.hdr[u].flags = Free
  <2> SUFFICES ASSUME NEW u \in Units, z < u, u < hi
               PROVE  r.hdr[u].bsize = 0 /\ r.hdr[u].flags = Free
    OBVIOUS
  <2>1. u \in Nat /\ u # z
    BY <1>4, UnitFacts
  <2>2. CASE u = lo
    BY <1>11, <2>2
  <2>3. CASE lo < u
    <3>1. q.hdr[u].bsize = 0 /\ q.hdr[u].flags = Free /\ u # lo
      BY <1>1, <1>2, <2>1, <2>3
    <3> QED
      BY <1>11, <2>1, <3>1
  <2>4. CASE u < lo
    <3>1. u \notin HeadsOf(H)
      BY <1>1, <1>4, <2>1, <2>4
    <3>2. H[u].bsize = 0 /\ H[u].flags = Free
      <4>1. H[u].bsize \in Nat /\ ~(H[u].bsize >= 1)
        BY <1>1, <3>1, HeadFacts
      <4> QED
        BY <1>1, <3>1, <4>1 DEF Linked
    <3>3. q.hdr[u] = H[u] /\ u # lo
      BY <1>1, <1>2, <2>1, <2>4
    <3> QED
      BY <1>11, <2>1, <3>2, <3>3
  <2>5. u = lo \/ lo < u \/ u < lo
    BY <1>1, <2>1
  <2> QED
    BY <2>2, <2>3, <2>4, <2>5
<1>16. \A u \in Units : u < z \/ hi <= u => r.hdr[u] = H[u]
  <2> SUFFICES ASSUME NEW u \in Units, u < z \/ hi <= u
               PROVE  r.hdr[u] = H[u]
    OBVIOUS
  <2>1. u \in Nat
    BY UnitFacts
  <2>2. u # z /\ u # lo /\ (u < lo \/ hi <= u)
    BY <1>1, <1>2, <1>4, <2>1
  <2> QED
    BY <1>2, <1>11, <2>2
<1>17. z < hi /\ z <= b
  BY <1>1, <1>2, <1>4
<1>18. r.hdr[z].prev = H[z].prev
  BY <1>8, <1>11
<1> QED
  BY <1>2, <1>3, <1>11, <1>13, <1>14, <1>15, <1>16, <1>17, <1>18 DEF Open, F, H

\* r is q with another back-link at x.
Relinked(q, r, x, v) ==
  /\ r \in Pools /\ r.lists = q.lists /\ r.sl = q.sl /\ r.fl = q.fl
  /\ r.hdr[x].bsize = q.hdr[x].bsize /\ r.hdr[x].flags = q.hdr[x].flags /\ r.hdr[x].prev = v
  /\ \A u \in Units : u # x => r.hdr[u] = q.hdr[u]

\* Writing a back-link.
LEMMA LinkPool ==
  ASSUME NEW q \in Pools, NEW x \in Units, NEW v \in Units
  PROVE  Relinked(q, [q EXCEPT !.hdr[x].prev = v], x, v)
<1> DEFINE r == [q EXCEPT !.hdr[x].prev = v]
           h == [q.hdr[x] EXCEPT !.prev = v]
           H1 == [q.hdr EXCEPT ![x] = h]
<1>1. /\ q.hdr \in [Units -> Headers] /\ q.lists \in [Classes -> Seq(Units)]
      /\ q.sl \in SUBSET Classes /\ q.fl \in SUBSET (0 .. FlCount - 1)
  BY DEF Pools
<1>2. r = [q EXCEPT !.hdr[x].prev = v]
  OBVIOUS
<1> HIDE DEF r
<1>3. /\ r.hdr = [q.hdr EXCEPT ![x].prev = v] /\ r.lists = q.lists /\ r.sl = q.sl /\ r.fl = q.fl
      /\ r = [hdr |-> r.hdr, lists |-> r.lists, sl |-> r.sl, fl |-> r.fl]
  BY <1>2 DEF Pools
<1>4. r.hdr = H1
  BY <1>3
<1>5. q.hdr[x] \in Headers
  BY <1>1
<1>6. h \in Headers /\ h.bsize = q.hdr[x].bsize /\ h.prev = v /\ h.flags = q.hdr[x].flags
  BY <1>5 DEF Headers
<1> HIDE DEF h, H1
<1>7. H1 \in [Units -> Headers] /\ H1[x] = h /\ \A u \in Units : u # x => H1[u] = q.hdr[u]
  BY <1>1, <1>6 DEF H1
<1>8. r \in Pools
  BY <1>1, <1>3, <1>4, <1>7 DEF Pools
<1>9. Relinked(q, r, x, v)
  BY <1>3, <1>4, <1>6, <1>7, <1>8 DEF Relinked
<1> QED
  BY <1>9 DEF r

\* The joined block is linked and listed.
LEMMA OpenClose ==
  ASSUME NEW p, Sound(p), NEW q, NEW b \in UsedIn(p.hdr), NEW lo, NEW hi, Open(p, q, b, lo, hi),
         hi \notin FreeIn(p.hdr), p.hdr[lo].prev \notin FreeIn(p.hdr),
         NEW c, Relinked(q, c, hi, lo), NEW r, r = FlInsert(c, lo)
  PROVE  Sound(r) /\ Dropped(p.hdr, r.hdr, b)
<1> DEFINE H == p.hdr
           K == r.hdr
           F == FreeIn(H)
           G == Outside(F, lo, hi)
<1>1. /\ p \in Pools /\ Linked(H) /\ H \in [Units -> Headers] /\ Merged(H)
      /\ lo \in Units /\ hi \in Units /\ lo \in Nat /\ hi \in Nat /\ b \in Nat
      /\ lo >= 1 /\ hi <= Total + 1
      /\ \A x \in HeadsOf(H) : x \in Nat /\ x \in Units
      /\ F \subseteq HeadsOf(H)
  BY OpenFacts
<1>2. /\ q \in Pools /\ Shelved(q, G)
      /\ lo \in HeadsOf(H) /\ lo # 0 /\ lo # EndSentinel /\ hi \in HeadsOf(H) /\ lo < hi
      /\ lo <= b /\ b < hi
      /\ \A x \in HeadsOf(H) : lo <= x /\ x < hi => x = b \/ x \in F
      /\ q.hdr[lo].bsize = hi - lo /\ q.hdr[lo].prev = H[lo].prev
      /\ \A u \in Units : lo < u /\ u < hi => q.hdr[u].bsize = 0 /\ q.hdr[u].flags = Free
      /\ \A u \in Units : u < lo \/ hi <= u => q.hdr[u] = H[u]
  BY DEF Open
<1>3. /\ c \in Pools /\ c.lists = q.lists /\ c.sl = q.sl /\ c.fl = q.fl
      /\ c.hdr[hi].bsize = q.hdr[hi].bsize /\ c.hdr[hi].flags = q.hdr[hi].flags /\ c.hdr[hi].prev = lo
      /\ \A u \in Units : u # hi => c.hdr[u] = q.hdr[u]
  BY DEF Relinked
<1>4. lo # hi /\ hi <= hi /\ c.hdr[lo] = q.hdr[lo] /\ q.hdr[hi] = H[hi]
  BY <1>1, <1>2, <1>3
<1>5. G \in SUBSET Units /\ lo \notin G /\ Shelved(c, G)
  <2>1. G \in SUBSET Units /\ lo \notin G
    BY <1>1, <1>2 DEF Outside
  <2> HIDE DEF G
  <2>2. SameLists(q, c, G)
    <3>1. \A u \in Units : c.hdr[u].bsize = q.hdr[u].bsize
      BY <1>3
    <3> QED
      BY <1>3, <2>1, <3>1 DEF SameLists
  <2>3. Shelved(c, G)
    BY <1>2, <2>1, <2>2, SameShelved
  <2> QED
    BY <2>1, <2>3
<1>6. Classed(c.hdr, lo)
  <2>1. hi - lo \in Nat /\ hi - lo <= Total
    BY <1>1, <1>2, UnitFacts
  <2>2. H[lo].bsize >= MinUnits /\ NextOf(H, lo) <= hi /\ H[lo].bsize \in Nat
    <3>1. H[lo].bsize >= MinUnits /\ H[lo].bsize \in Nat
      BY <1>1, <1>2, LinkedAt
    <3>2. hi <= lo \/ NextOf(H, lo) <= hi
      BY <1>1, <1>2, LinkedAt
    <3> QED
      BY <1>1, <1>2, <3>1, <3>2
  <2>3. hi - lo >= MinUnits
    <3> DEFINE w == H[lo].bsize
    <3>1. w \in Nat /\ w >= 2 /\ lo + w <= hi
      BY <2>2 DEF NextOf, MinUnits
    <3> HIDE DEF w
    <3>2. hi - lo >= 2
      BY <1>1, <3>1
    <3> QED
      BY <3>2 DEF MinUnits
  <2> QED
    BY <1>1, <1>2, <1>4, <2>1, <2>3 DEF Classed
<1> HIDE DEF G
<1>7. Listed(c, r, G, lo)
  BY <1>3, <1>5, <1>6, InsertShelved
<1>8. /\ r \in Pools /\ Shelved(r, G \cup {lo})
      /\ K[lo].bsize = hi - lo /\ K[lo].prev = H[lo].prev /\ K[lo].flags = Free
      /\ \A u \in Units : u # lo => K[u] = c.hdr[u]
  BY <1>2, <1>4, <1>7 DEF Listed
<1>9. K \in [Units -> Headers]
  BY <1>8 DEF Pools
<1> HIDE DEF K, H
<1>10. Fuse(H, K, lo, hi)
  <2>1. K[hi] = c.hdr[hi]
    BY <1>1, <1>4, <1>8
  <2>2. K[hi].bsize = H[hi].bsize /\ K[hi].flags = H[hi].flags /\ K[hi].prev = lo
    BY <1>3, <1>4, <2>1
  <2>3. ASSUME NEW u \in Units, lo < u, u < hi
        PROVE  K[u].bsize = 0 /\ K[u].flags = Free
    <3>1. u \in Nat
      BY UnitFacts
    <3>2. u # lo /\ u # hi
      BY <1>1, <2>3, <3>1
    <3> QED
      BY <1>2, <1>3, <1>8, <2>3, <3>2
  <2>4. ASSUME NEW u \in Units, u < lo \/ hi < u
        PROVE  K[u] = H[u]
    <3>1. u \in Nat
      BY UnitFacts
    <3>2. u # lo /\ u # hi /\ (u < lo \/ hi <= u)
      BY <1>1, <1>2, <2>4, <3>1
    <3> QED
      BY <1>2, <1>3, <1>8, <2>4, <3>2
  <2> QED
    BY <1>2, <1>8, <1>9, <2>2, <2>3, <2>4 DEF Fuse
<1>11. /\ Linked(K) /\ HeadsOf(K) = {u \in HeadsOf(H) : u <= lo \/ hi <= u}
       /\ NextOf(K, lo) = hi
       /\ \A u \in HeadsOf(K) : u # lo => NextOf(K, u) = NextOf(H, u) /\ K[u].bsize = H[u].bsize
       /\ \A u \in HeadsOf(K) : u # lo => K[u].flags = H[u].flags
  BY <1>1, <1>10, FuseLinked
<1>12. FreeIn(K) = G \cup {lo}
  <2>1. ASSUME NEW x
        PROVE  x \in FreeIn(K) <=> x \in G \cup {lo}
    <3>1. CASE x = lo
      <4>1. lo \in HeadsOf(K)
        BY <1>1, <1>2, <1>11
      <4> QED
        BY <1>8, <3>1, <4>1 DEF FreeIn
    <3>2. CASE x # lo
      <4>1. x \in HeadsOf(K) <=> x \in HeadsOf(H) /\ (x < lo \/ hi <= x)
        BY <1>1, <1>11, <3>2
      <4>2. x \in HeadsOf(K) => K[x].flags = H[x].flags
        BY <1>11, <3>2
      <4> QED
        BY <3>2, <4>1, <4>2 DEF FreeIn, Outside, G
    <3> QED
      BY <3>1, <3>2
  <2> QED
    BY <2>1
<1>13. Merged(K)
  <2> SUFFICES ASSUME NEW x \in HeadsOf(K), x # EndSentinel, x \in FreeIn(K), NextOf(K, x) \in FreeIn(K)
               PROVE  FALSE
    BY DEF Merged
  <2>1. \A y \in G : y \in F
    BY DEF G, Outside
  <2>2. CASE x = lo
    BY <1>4, <1>11, <1>12, <2>1, <2>2 DEF H
  <2>3. CASE x # lo
    <3>1. x \in F /\ x \in HeadsOf(H) /\ NextOf(K, x) = NextOf(H, x)
      BY <1>1, <1>11, <1>12, <2>1, <2>3
    <3>2. NextOf(H, x) \in HeadsOf(H) /\ H[NextOf(H, x)].prev = x
      BY <1>1, <3>1, LinkedAt
    <3>3. NextOf(H, x) # lo
      BY <3>1, <3>2 DEF H
    <3>4. NextOf(H, x) \in F
      BY <1>12, <2>1, <3>1, <3>3
    <3> QED
      BY <1>1, <3>1, <3>4 DEF Merged
  <2> QED
    BY <2>2, <2>3
<1>14. Sound(r)
  BY <1>8, <1>11, <1>12, <1>13 DEF Sound, K
<1>15. UsedIn(K) = UsedIn(H) \ {b}
  <2>1. b \in HeadsOf(H) /\ b \in UsedIn(H)
    BY <1>1, UsedFacts DEF H
  <2>2. ASSUME NEW x
        PROVE  x \in UsedIn(K) <=> x \in UsedIn(H) /\ x # b
    <3>1. ASSUME x \in UsedIn(K)
          PROVE  x \in UsedIn(H) /\ x # b
      <4>1. x \in HeadsOf(K) /\ x # lo /\ x \notin FreeIn(K)
        BY <1>11, <1>12, <3>1, UsedFacts
      <4>2. K[x].flags = H[x].flags /\ x \in HeadsOf(H) /\ x \in Nat /\ (x <= lo \/ hi <= x)
        BY <1>1, <1>11, <4>1
      <4>3. x # b
        BY <1>1, <1>2, <4>1, <4>2
      <4> QED
        BY <3>1, <4>2, <4>3 DEF UsedIn
    <3>2. ASSUME x \in UsedIn(H), x # b
          PROVE  x \in UsedIn(K)
      <4>1. x \in HeadsOf(H) /\ x \notin F
        BY <1>1, <3>2, UsedFacts DEF F
      <4>2. ~(lo <= x /\ x < hi) /\ x \in Nat
        BY <1>1, <1>2, <3>2, <4>1
      <4>3. x # lo /\ (x <= lo \/ hi <= x)
        BY <1>1, <1>2, <4>2
      <4>4. x \in HeadsOf(K)
        BY <1>11, <4>1, <4>3
      <4>5. K[x].flags = H[x].flags
        BY <1>11, <4>3, <4>4
      <4> QED
        BY <3>2, <4>5 DEF UsedIn
    <3> QED
      BY <3>1, <3>2
  <2> QED
    BY <2>2
<1>16. Dropped(H, K, b)
  <2>1. \A x \in UsedIn(K) : x \in HeadsOf(K) /\ x # lo
    BY <1>11, <1>12, UsedFacts
  <2>2. b \in UsedIn(H)
    BY DEF H
  <2> QED
    BY <1>11, <1>15, <2>1, <2>2 DEF Dropped
<1> QED
  BY <1>14, <1>16 DEF H, K

\* The chain of sizes.
LEMMA SizeSums ==
  ASSUME NEW H, Linked(H), NEW b \in HeadsOf(H), b # 0, b # EndSentinel
  PROVE  /\ NextOf(H, b) - b = H[b].bsize
         /\ NextOf(H, b) # EndSentinel =>
              H[b].bsize + H[NextOf(H, b)].bsize = NextOf(H, NextOf(H, b)) - b
         /\ \A u \in HeadsOf(H) : b < u => u - b \in 0 .. Total
<1> DEFINE n == NextOf(H, b)
           w == H[b].bsize
           v == H[n].bsize
<1>1. b \in Nat /\ w \in Nat /\ n \in HeadsOf(H) /\ n = b + w
  BY LinkedAt DEF NextOf
<1>2. n \in Nat /\ v \in Nat /\ NextOf(H, n) = n + v
  BY <1>1, LinkedAt DEF NextOf
<1>3. \A u \in HeadsOf(H) : u \in Nat /\ u <= Total + 1
  BY LinkedAt, UnitFacts
<1>4. Total \in Nat /\ b >= 1
  BY <1>1, UnitFacts
<1> HIDE DEF n, w, v
<1>5. n - b = w /\ w + v = (n + v) - b
  BY <1>1, <1>2
<1>6. \A u \in HeadsOf(H) : b < u => u - b \in 0 .. Total
  BY <1>1, <1>3, <1>4
<1> QED
  BY <1>2, <1>5, <1>6 DEF n, w, v

\* r is the sound pool that p becomes when b is freed.
Released(p, r, b) == Sound(r) /\ Dropped(p.hdr, r.hdr, b)

\* coalesce_and_free, after the block behind.
LEMMA CoalesceNext ==
  ASSUME NEW p, Sound(p), NEW b \in UsedIn(p.hdr), NEW n, n = NextPhys(p, b)
  PROVE  LET p1 == IF p.hdr[n].flags # Free THEN p
                   ELSE [FlRemove(p, n) EXCEPT !.hdr[b].bsize = @ + p.hdr[n].bsize, !.hdr[n] = Blank]
         IN  \E hi : Open(p, p1, b, b, hi) /\ hi \notin FreeIn(p.hdr)
<1> DEFINE H == p.hdr
           m == NextOf(H, b)
           q == FlRemove(p, m)
           r == [q EXCEPT !.hdr[b].bsize = @ + H[m].bsize, !.hdr[m] = Blank]
           hi == NextOf(H, m)
<1>1. n = m
  BY DEF NextPhys, NextOf
<1>2. Linked(H) /\ Merged(H)
  BY DEF Sound
<1>3. b \in HeadsOf(H) /\ b # 0 /\ b # EndSentinel /\ b \in Units /\ b \in Nat
  BY <1>2, UsedFacts, UnitFacts
<1>4. m \in HeadsOf(H) /\ m \in Units /\ b < m /\ m \in Nat
  BY <1>2, <1>3, LinkedAt
<1>5. Open(p, p, b, b, m)
  BY OpenFirst
<1>6. CASE H[m].flags # Free
  <2>1. m \notin FreeIn(H)
    BY <1>6 DEF FreeIn
  <2> QED
    BY <1>1, <1>5, <1>6, <2>1
<1>7. CASE H[m].flags = Free
  <2>1. m \in FreeIn(H) /\ m # 0 /\ m # EndSentinel
    BY <1>2, <1>4, <1>7, FreeFacts DEF FreeIn
  <2>2. hi \in HeadsOf(H) /\ hi \notin FreeIn(H) /\ m < hi /\ hi \in Nat
    BY <1>2, <1>4, <2>1, LinkedAt DEF Merged
  <2>3. m <= m
    BY <1>4
  <2>4. q \in Pools /\ q.hdr = H
    BY <1>5, <2>1, <2>3, OpenRemove
  <2>5. H[b].bsize + H[m].bsize = hi - b
    BY <1>2, <1>3, <2>1, SizeSums
  <2>6. b < hi
    <3> HIDE DEF hi, m
    <3> QED
      BY <1>3, <1>4, <2>2
  <2>7. hi - b \in 0 .. Total
    BY <1>2, <1>3, <2>2, <2>6, SizeSums
  <2>8. r = [q EXCEPT !.hdr[b].bsize = hi - b, !.hdr[m] = Blank]
    <3> DEFINE s == q.hdr[b].bsize + H[m].bsize
    <3>1. s = hi - b
      <4> HIDE DEF q, hi, m
      <4> QED
        BY <2>4, <2>5
    <3>2. r = [q EXCEPT !.hdr[b].bsize = s, !.hdr[m] = Blank]
      OBVIOUS
    <3> HIDE DEF s, q, hi, m, r
    <3> QED
      BY <3>1, <3>2
  <2> HIDE DEF q, r
  <2>9. Absorbed(q, r, b, m, hi - b)
    <3>1. b # m
      BY <1>3, <1>4
    <3> DEFINE s == hi - b
    <3>2. s \in 0 .. Total
      BY <2>7
    <3> HIDE DEF s, m
    <3>3. Absorbed(q, [q EXCEPT !.hdr[b].bsize = s, !.hdr[m] = Blank], b, m, s)
      BY <1>3, <1>4, <2>4, <3>1, <3>2, AbsorbPool, Zenon
    <3> QED
      BY <2>8, <3>3, Zenon DEF s
  <2>10. Open(p, r, b, b, hi)
    <3>1. Absorbed(FlRemove(p, m), r, b, m, NextOf(p.hdr, m) - b)
      BY <2>9 DEF q
    <3> QED
      BY <1>5, <2>1, <3>1, OpenForward
  <2>11. ~(p.hdr[n].flags # Free)
    BY <1>1, <1>7
  <2>12. [FlRemove(p, n) EXCEPT !.hdr[b].bsize = @ + p.hdr[n].bsize, !.hdr[n] = Blank] = r
    BY <1>1, Zenon DEF r, q
  <2> QED
    BY <2>2, <2>10, <2>11, <2>12
<1> QED
  BY <1>6, <1>7

\* coalesce_and_free frees the block.
LEMMA Coalesce ==
  ASSUME NEW p, Sound(p), NEW b \in UsedIn(p.hdr)
  PROVE  Released(p, CoalesceAndFree(p, b), b)
<1> DEFINE H == p.hdr
           n == NextPhys(p, b)
           p1 == IF p.hdr[n].flags # Free THEN p
                 ELSE [FlRemove(p, n) EXCEPT !.hdr[b].bsize = @ + p.hdr[n].bsize, !.hdr[n] = Blank]
           prev == p1.hdr[b].prev
           back == prev # None /\ p1.hdr[prev].flags = Free
           joined == [FlRemove(p1, prev) EXCEPT !.hdr[prev].bsize = @ + p1.hdr[b].bsize, !.hdr[b] = Blank]
           p2 == IF ~back THEN p1 ELSE joined
           whole == IF back THEN prev ELSE b
           c == [p2 EXCEPT !.hdr[NextPhys(p2, whole)].prev = whole]
<1>1. CoalesceAndFree(p, b) = FlInsert(c, whole)
  BY Zenon DEF CoalesceAndFree
<1>2. Linked(H) /\ Merged(H)
  BY DEF Sound
<1>3. b \in HeadsOf(H) /\ b # 0 /\ b # EndSentinel /\ b \in Units /\ b \in Nat
  BY <1>2, UsedFacts, UnitFacts
<1>4. PICK hi : Open(p, p1, b, b, hi) /\ hi \notin FreeIn(H)
  BY CoalesceNext
<1> HIDE DEF n, p1
<1> DEFINE z == H[b].prev
<1>5. z \in HeadsOf(H) /\ z \in Units /\ z # None /\ z < b /\ NextOf(H, z) = b /\ z # EndSentinel
  BY <1>2, <1>3, LinkedAt, UnitFacts
<1>6. /\ hi \in HeadsOf(H) /\ b < hi /\ p1.hdr[b].bsize = hi - b /\ p1.hdr[b].prev = z
      /\ p1.hdr[z] = H[z]
  BY <1>4, <1>5 DEF Open
<1>7. prev = z /\ (back <=> z \in FreeIn(H))
  BY <1>5, <1>6 DEF FreeIn
<1>8. ASSUME NEW q, NEW lo, Open(p, q, b, lo, hi), H[lo].prev \notin FreeIn(H),
             NEW d, d = [q EXCEPT !.hdr[NextPhys(q, lo)].prev = lo]
      PROVE  Released(p, FlInsert(d, lo), b)
  <2>1. /\ q \in Pools /\ q.hdr[lo].bsize = hi - lo /\ lo \in Units /\ hi \in Units
        /\ lo \in Nat /\ hi \in Nat
    BY <1>8, OpenFacts DEF Open
  <2>2. NextPhys(q, lo) = hi
    <3>1. lo + (hi - lo) = hi
      BY <2>1
    <3> QED
      BY <2>1, <3>1 DEF NextPhys
  <2>3. Relinked(q, [q EXCEPT !.hdr[hi].prev = lo], hi, lo)
    BY <2>1, LinkPool, Zenon
  <2>4. Relinked(q, d, hi, lo)
    <3>1. d = [q EXCEPT !.hdr[hi].prev = lo]
      BY <1>8, <2>2, Zenon
    <3> QED
      BY <2>3, <3>1, Zenon
  <2> HIDE DEF H
  <2>5. hi \notin FreeIn(p.hdr) /\ p.hdr[lo].prev \notin FreeIn(p.hdr)
    BY <1>4, <1>8 DEF H
  <2> QED
    BY <1>8, <2>4, <2>5, OpenClose DEF Released
<1>9. CASE z \notin FreeIn(H)
  <2>1. ~back
    BY <1>7, <1>9
  <2> HIDE DEF back
  <2>2. p2 = p1 /\ whole = b
    BY <2>1
  <2>3. c = [p1 EXCEPT !.hdr[NextPhys(p1, b)].prev = b]
    BY <2>2, Zenon
  <2> HIDE DEF c, whole, p2
  <2>4. Released(p, FlInsert(c, b), b)
    BY <1>4, <1>8, <1>9, <2>3
  <2> QED
    BY <1>1, <2>2, <2>4
<1>10. CASE z \in FreeIn(H)
  <2>1. back
    BY <1>7, <1>10
  <2>2. p2 = joined /\ whole = z
    <3> HIDE DEF joined, back
    <3> QED
      BY <1>7, <2>1
  <2> DEFINE t == FlRemove(p1, z)
  <2>3. z # 0 /\ t \in Pools /\ t.hdr = p1.hdr
    BY <1>2, <1>4, <1>5, <1>10, FreeFacts, OpenRemove
  <2>4. H[z].prev \notin FreeIn(H)
    <3>1. H[z].prev \in HeadsOf(H) /\ H[z].prev # EndSentinel /\ NextOf(H, H[z].prev) = z
      BY <1>2, <1>5, <2>3, LinkedAt
    <3> QED
      BY <1>2, <1>10, <3>1 DEF Merged
  <2>5. H[z].bsize + (hi - b) = hi - z /\ hi - z \in 0 .. Total
    <3>1. b - z = H[z].bsize
      BY <1>2, <1>5, <2>3, SizeSums
    <3>2. z \in Nat /\ hi \in Nat
      BY <1>2, <1>5, <1>6, LinkedAt
    <3>3. z < hi
      <4> HIDE DEF z
      <4> QED
        BY <1>3, <1>5, <1>6, <3>2
    <3>4. hi - z \in 0 .. Total
      BY <1>2, <1>5, <1>6, <2>3, <3>3, SizeSums
    <3>5. (b - z) + (hi - b) = hi - z
      <4> HIDE DEF z
      <4> QED
        BY <1>3, <3>2
    <3> QED
      BY <3>1, <3>4, <3>5
  <2>6. joined = [t EXCEPT !.hdr[z].bsize = hi - z, !.hdr[b] = Blank]
    <3> DEFINE s == t.hdr[z].bsize + p1.hdr[b].bsize
    <3>1. s = hi - z
      <4>1. t.hdr[z].bsize = H[z].bsize
        BY <1>6, <2>3
      <4> HIDE DEF t, z, H
      <4> QED
        BY <1>6, <2>5, <4>1
    <3>2. joined = [t EXCEPT !.hdr[z].bsize = s, !.hdr[b] = Blank]
      <4> HIDE DEF z
      <4>1. prev = z
        BY <1>7
      <4> HIDE DEF prev
      <4> QED
        BY <4>1, Zenon
    <3> HIDE DEF s, t, z, joined
    <3> QED
      BY <3>1, <3>2, Zenon
  <2> HIDE DEF joined
  <2>7. Absorbed(t, joined, z, b, hi - z)
    <3>1. z # b
      BY <1>3, <1>5
    <3> DEFINE s == hi - z
    <3>2. s \in 0 .. Total
      BY <2>5
    <3> HIDE DEF s, z, t
    <3>3. Absorbed(t, [t EXCEPT !.hdr[z].bsize = s, !.hdr[b] = Blank], z, b, s)
      BY <1>3, <1>5, <2>3, <3>1, <3>2, AbsorbPool, Zenon
    <3> QED
      BY <2>6, <3>3, Zenon DEF s
  <2>8. Open(p, joined, b, z, hi)
    BY <1>4, <1>10, <2>7, OpenBack
  <2>9. c = [joined EXCEPT !.hdr[NextPhys(joined, z)].prev = z]
    <3> HIDE DEF p2, whole, z
    <3> QED
      BY <2>2, Zenon
  <2> HIDE DEF c, whole, p2
  <2>10. Released(p, FlInsert(c, z), b)
    BY <1>8, <2>4, <2>8, <2>9
  <2> QED
    BY <1>1, <2>2, <2>10
<1> QED
  BY <1>9, <1>10

-----------------------------------------------------------------------------
(* Tombstones *)

\* Block b of H, live there, is tombstoned in K.
Buried(H, K, b) ==
  /\ b \in UsedIn(H) \ GoneIn(H) /\ K[b].flags = Tombstone /\ UsedIn(K) = UsedIn(H)
  /\ \A x \in UsedIn(H) : K[x].bsize = H[x].bsize
  /\ \A x \in UsedIn(H) : x # b => K[x].flags = H[x].flags

\* tombstone writes the flags of a live block.
LEMMA Bury ==
  ASSUME NEW p, Sound(p), NEW b \in UsedIn(p.hdr), b \notin GoneIn(p.hdr)
  PROVE  LET r == [p EXCEPT !.hdr[b].flags = Tombstone] IN Sound(r) /\ Buried(p.hdr, r.hdr, b)
<1> DEFINE r == [p EXCEPT !.hdr[b].flags = Tombstone]
           H == p.hdr
           K == r.hdr
           F == FreeIn(H)
<1>1. p \in Pools /\ Linked(H) /\ Merged(H) /\ Shelved(p, F)
  BY DEF Sound
<1>2. b \in HeadsOf(H) /\ b \in Units /\ b # 0 /\ b # EndSentinel /\ b \notin F
  BY <1>1, UsedFacts
<1>3. Tombstone \in {Free, Alloc, Temporal, Tombstone} /\ Tombstone # Free
  BY DEF Tombstone, Free
<1>4. Marked(p, r, b, Tombstone)
  BY <1>1, <1>2, <1>3, SetFlags, Zenon
<1> HIDE DEF r
<1>5. /\ r \in Pools /\ r.lists = p.lists /\ r.sl = p.sl /\ r.fl = p.fl
      /\ K[b].bsize = H[b].bsize /\ K[b].prev = H[b].prev /\ K[b].flags = Tombstone
      /\ \A u \in Units : u # b => K[u] = H[u]
      /\ \A u \in Units : K[u].bsize = H[u].bsize
  BY <1>4 DEF Marked
<1>6. K \in [Units -> Headers]
  BY <1>5 DEF Pools
<1>7. b \in UsedIn(H) /\ b \notin GoneIn(H)
  OBVIOUS
<1> HIDE DEF K, H
<1>8. Flagged(H, K, b)
  BY <1>2, <1>5, <1>6 DEF Flagged
<1>9. /\ Linked(K) /\ HeadsOf(K) = HeadsOf(H) /\ \A u \in Units : NextOf(K, u) = NextOf(H, u)
      /\ FreeIn(K) = F \ {b} /\ UsedIn(K) = UsedIn(H) \cup {b}
  BY <1>1, <1>3, <1>5, <1>8, FlagLinked, FlagKinds
<1>10. FreeIn(K) = F /\ UsedIn(K) = UsedIn(H)
  BY <1>2, <1>7, <1>9
<1>11. Merged(K)
  <2>1. HeadsOf(H) \subseteq Units
    BY DEF HeadsOf
  <2> QED
    BY <1>1, <1>9, <1>10, <2>1 DEF Merged
<1>12. Shelved(r, FreeIn(K))
  <2>1. F \in SUBSET Units
    BY DEF FreeIn, HeadsOf
  <2> HIDE DEF F
  <2>2. SameLists(p, r, F)
    BY <1>5, <2>1 DEF SameLists, K, H
  <2> QED
    BY <1>1, <1>10, <2>1, <2>2, SameShelved
<1>13. Sound(r)
  BY <1>5, <1>9, <1>11, <1>12 DEF Sound, K
<1>14. Buried(H, K, b)
  <2>1. \A x \in UsedIn(H) : x \in Units
    BY DEF UsedIn
  <2> QED
    BY <1>5, <1>7, <1>10, <2>1 DEF Buried
<1> QED
  BY <1>13, <1>14 DEF H, K, r

-----------------------------------------------------------------------------
(* used() and tombstoned() *)

\* The live and the tombstoned blocks after each change.
LEMMA GoneAfter ==
  ASSUME NEW H, NEW K, NEW b
  PROVE  /\ \A f : Claimed(H, K, b, f) =>
              /\ GoneIn(K) = GoneIn(H) /\ b \notin UsedIn(H)
              /\ UsedIn(K) \ GoneIn(K) = (UsedIn(H) \ GoneIn(H)) \cup {b}
         /\ Dropped(H, K, b) /\ b \notin GoneIn(H) =>
              GoneIn(K) = GoneIn(H) /\ UsedIn(K) \ GoneIn(K) = (UsedIn(H) \ GoneIn(H)) \ {b}
         /\ Buried(H, K, b) =>
              /\ GoneIn(K) = GoneIn(H) \cup {b}
              /\ UsedIn(K) \ GoneIn(K) = (UsedIn(H) \ GoneIn(H)) \ {b}
<1>1. ASSUME NEW f, Claimed(H, K, b, f)
      PROVE  /\ GoneIn(K) = GoneIn(H) /\ b \notin UsedIn(H)
             /\ UsedIn(K) \ GoneIn(K) = (UsedIn(H) \ GoneIn(H)) \cup {b}
  <2>1. /\ UsedIn(K) = UsedIn(H) \cup {b} /\ K[b].flags = f /\ f \in {Alloc, Temporal}
        /\ \A x \in UsedIn(H) : K[x].flags = H[x].flags
        /\ b \in FreeIn(H)
    BY <1>1 DEF Claimed
  <2>2. "tombstone" \notin K[b].flags
    BY <2>1 DEF Alloc, Temporal
  <2>3. b \notin UsedIn(H)
    BY <2>1 DEF FreeIn, UsedIn
  <2> QED
    BY <2>1, <2>2, <2>3 DEF GoneIn
<1>2. ASSUME Dropped(H, K, b), b \notin GoneIn(H)
      PROVE  GoneIn(K) = GoneIn(H) /\ UsedIn(K) \ GoneIn(K) = (UsedIn(H) \ GoneIn(H)) \ {b}
  <2>1. UsedIn(K) = UsedIn(H) \ {b} /\ \A x \in UsedIn(K) : K[x].flags = H[x].flags
    BY <1>2 DEF Dropped
  <2> QED
    BY <1>2, <2>1 DEF GoneIn
<1>3. ASSUME Buried(H, K, b)
      PROVE  /\ GoneIn(K) = GoneIn(H) \cup {b}
             /\ UsedIn(K) \ GoneIn(K) = (UsedIn(H) \ GoneIn(H)) \ {b}
  <2>1. /\ b \in UsedIn(H) \ GoneIn(H) /\ K[b].flags = Tombstone /\ UsedIn(K) = UsedIn(H)
        /\ \A x \in UsedIn(H) : x # b => K[x].flags = H[x].flags
    BY <1>3 DEF Buried
  <2>2. "tombstone" \in K[b].flags
    BY <2>1 DEF Tombstone
  <2> QED
    BY <2>1, <2>2 DEF GoneIn
<1> QED
  BY <1>1, <1>2, <1>3

\* Blocks of the same size take the same units.
LEMMA SpanSame ==
  ASSUME NEW H, NEW K, NEW S, \A x \in S : K[x].bsize = H[x].bsize
  PROVE  SpanIn(K, S) = SpanIn(H, S)
BY DEF SpanIn, NextOf

\* The units of blocks are a finite set.
LEMMA SpanCount ==
  ASSUME NEW H, NEW S
  PROVE  IsFiniteSet(SpanIn(H, S)) /\ Cardinality(SpanIn(H, S)) \in Nat
<1>1. IsFiniteSet(Units)
  BY Consts, FS_Interval DEF Units
<1>2. SpanIn(H, S) \subseteq Units
  BY DEF SpanIn
<1> QED
  BY <1>1, <1>2, FS_Subset, FS_CardinalityType

\* One more block brings its units.
LEMMA SpanAdd ==
  ASSUME NEW H, Linked(H), NEW S \in SUBSET UsedIn(H), NEW b \in UsedIn(H), b \notin S
  PROVE  Cardinality(SpanIn(H, S \cup {b})) = Cardinality(SpanIn(H, S)) + H[b].bsize
<1> DEFINE n == NextOf(H, b)
           T == b .. (n - 1)
<1>1. b \in HeadsOf(H) /\ b # 0 /\ b # EndSentinel
  BY UsedFacts
<1>2. /\ b \in Nat /\ H[b].bsize \in Nat /\ n \in Nat /\ b < n /\ n <= EndSentinel
      /\ \A u \in HeadsOf(H) : u <= b \/ n <= u
  BY <1>1, LinkedAt
<1>3. n = b + H[b].bsize
  BY DEF NextOf
<1> HIDE DEF n
<1>4. IsFiniteSet(T) /\ Cardinality(T) = n - b
  <2>1. b \in Int /\ n - 1 \in Int /\ ~(b > n - 1)
    BY <1>2
  <2>2. IsFiniteSet(T) /\ Cardinality(T) = (n - 1) - b + 1
    BY <2>1, FS_Interval
  <2> QED
    BY <1>2, <2>2
<1>5. \A w : w \in T <=> w \in Units /\ b <= w /\ w < n
  <2>1. \A w \in Units : w \in Nat
    BY UnitFacts
  <2>2. EndSentinel \in Nat /\ \A w \in Nat : w <= EndSentinel => w \in Units
    BY UnitFacts
  <2> QED
    BY <1>2, <2>1, <2>2
<1> HIDE DEF T
<1>6. SpanIn(H, S \cup {b}) = SpanIn(H, S) \cup T
  BY <1>5 DEF SpanIn, n
<1>7. SpanIn(H, S) \cap T = {}
  <2>1. ASSUME NEW w \in SpanIn(H, S), w \in T
        PROVE  FALSE
    <3>1. PICK x \in S : w \in Units /\ x <= w /\ w < NextOf(H, x)
      BY DEF SpanIn
    <3>2. x \in UsedIn(H) /\ x # b
      BY <3>1
    <3>3. x \in HeadsOf(H) /\ x # EndSentinel
      BY <3>2, UsedFacts
    <3>4. x \in Nat /\ NextOf(H, x) \in Nat /\ \A u \in HeadsOf(H) : u <= x \/ NextOf(H, x) <= u
      BY <3>3, LinkedAt
    <3>5. (x <= b \/ n <= x) /\ (b <= x \/ NextOf(H, x) <= b)
      BY <1>1, <1>2, <3>3, <3>4
    <3>6. w \in Nat /\ b <= w /\ w < n
      BY <1>5, <2>1, <3>1, UnitFacts
    <3> QED
      BY <1>2, <3>1, <3>2, <3>4, <3>5, <3>6
  <2> QED
    BY <2>1
<1>8. IsFiniteSet(SpanIn(H, S)) /\ Cardinality(SpanIn(H, S)) \in Nat
  BY SpanCount
<1>9. Cardinality(SpanIn(H, S) \cup T)
        = Cardinality(SpanIn(H, S)) + Cardinality(T) - Cardinality(SpanIn(H, S) \cap T)
  BY <1>4, <1>8, FS_Union
<1>10. Cardinality(SpanIn(H, S) \cap T) = 0
  BY <1>7, FS_EmptySet
<1>11. n - b = H[b].bsize
  BY <1>2, <1>3
<1>12. Cardinality(SpanIn(H, S) \cup T) = Cardinality(SpanIn(H, S)) + (n - b)
  <2> DEFINE x == Cardinality(SpanIn(H, S))
             y == Cardinality(SpanIn(H, S) \cup T)
  <2>1. x \in Nat /\ y = x + (n - b) - 0
    BY <1>4, <1>8, <1>9, <1>10
  <2> HIDE DEF x, y
  <2>2. y = x + (n - b)
    BY <1>2, <2>1
  <2> QED
    BY <2>2 DEF x, y
<1> QED
  BY <1>6, <1>11, <1>12

\* One block less takes its units away.
LEMMA SpanRemove ==
  ASSUME NEW H, Linked(H), NEW S \in SUBSET UsedIn(H), NEW b \in S
  PROVE  Cardinality(SpanIn(H, S \ {b})) = Cardinality(SpanIn(H, S)) - H[b].bsize
<1> DEFINE D == S \ {b}
<1>1. D \in SUBSET UsedIn(H) /\ b \in UsedIn(H) /\ b \notin D /\ D \cup {b} = S
  OBVIOUS
<1> HIDE DEF D
<1>2. Cardinality(SpanIn(H, D \cup {b})) = Cardinality(SpanIn(H, D)) + H[b].bsize
  BY <1>1, SpanAdd
<1>3. Cardinality(SpanIn(H, D)) \in Nat /\ H[b].bsize \in Nat
  BY <1>1, SpanCount, UsedFacts DEF Classed
<1>4. Cardinality(SpanIn(H, S)) = Cardinality(SpanIn(H, D)) + H[b].bsize
  BY <1>1, <1>2
<1>5. Cardinality(SpanIn(H, D)) = Cardinality(SpanIn(H, S)) - H[b].bsize
  BY <1>3, <1>4
<1> QED
  BY <1>5 DEF D

\* The counters after an allocation.
LEMMA ChargeClaim ==
  ASSUME NEW H, NEW K, Linked(K), NEW b, NEW f, Claimed(H, K, b, f), NEW n, NEW m, Charged(H, n, m)
  PROVE  Charged(K, n + K[b].bsize, m)
<1> DEFINE L == UsedIn(H) \ GoneIn(H)
           G == GoneIn(H)
<1>1. /\ GoneIn(K) = G /\ b \notin UsedIn(H) /\ UsedIn(K) \ GoneIn(K) = L \cup {b}
      /\ UsedIn(K) = UsedIn(H) \cup {b}
      /\ \A x \in UsedIn(H) : K[x].bsize = H[x].bsize
  BY GoneAfter DEF Claimed
<1>2. L \in SUBSET UsedIn(K) /\ b \in UsedIn(K) /\ b \notin L /\ L \subseteq UsedIn(H) /\ G \subseteq UsedIn(H)
  BY <1>1 DEF GoneIn
<1>3. n = Cardinality(SpanIn(H, L)) /\ m = Cardinality(SpanIn(H, G))
  BY DEF Charged
<1> HIDE DEF L, G
<1>4. SpanIn(K, L) = SpanIn(H, L) /\ SpanIn(K, G) = SpanIn(H, G)
  BY <1>1, <1>2, SpanSame
<1>5. Cardinality(SpanIn(K, L \cup {b})) = Cardinality(SpanIn(K, L)) + K[b].bsize
  BY <1>2, SpanAdd
<1>6. Cardinality(SpanIn(K, UsedIn(K) \ GoneIn(K))) = n + K[b].bsize
  BY <1>1, <1>3, <1>4, <1>5
<1>7. Cardinality(SpanIn(K, GoneIn(K))) = m
  BY <1>1, <1>3, <1>4
<1> QED
  BY <1>6, <1>7 DEF Charged

\* After a release.
LEMMA ChargeDrop ==
  ASSUME NEW H, Linked(H), NEW K, NEW b, Dropped(H, K, b), b \notin GoneIn(H),
         NEW n, NEW m, Charged(H, n, m)
  PROVE  Charged(K, n - H[b].bsize, m)
<1> DEFINE L == UsedIn(H) \ GoneIn(H)
           G == GoneIn(H)
           D == L \ {b}
<1>1. /\ GoneIn(K) = G /\ UsedIn(K) \ GoneIn(K) = D
      /\ UsedIn(K) = UsedIn(H) \ {b} /\ b \in UsedIn(H)
      /\ \A x \in UsedIn(K) : K[x].bsize = H[x].bsize
  BY GoneAfter DEF Dropped
<1>2. L \in SUBSET UsedIn(H) /\ b \in L /\ D \subseteq UsedIn(K) /\ G \subseteq UsedIn(K)
  BY <1>1 DEF GoneIn
<1>3. n = Cardinality(SpanIn(H, L)) /\ m = Cardinality(SpanIn(H, G))
  BY DEF Charged
<1> HIDE DEF L, G
<1>4. Cardinality(SpanIn(H, D)) = Cardinality(SpanIn(H, L)) - H[b].bsize
  BY <1>2, SpanRemove
<1> HIDE DEF D
<1>5. SpanIn(K, D) = SpanIn(H, D) /\ SpanIn(K, G) = SpanIn(H, G)
  BY <1>1, <1>2, SpanSame
<1>6. Cardinality(SpanIn(K, UsedIn(K) \ GoneIn(K))) = n - H[b].bsize
  BY <1>1, <1>3, <1>4, <1>5
<1>7. Cardinality(SpanIn(K, GoneIn(K))) = m
  BY <1>1, <1>3, <1>5
<1> QED
  BY <1>6, <1>7 DEF Charged

\* After a tombstone.
LEMMA ChargeBury ==
  ASSUME NEW H, Linked(H), NEW K, NEW b, Buried(H, K, b), NEW n, NEW m, Charged(H, n, m)
  PROVE  Charged(K, n - H[b].bsize, m + H[b].bsize)
<1> DEFINE L == UsedIn(H) \ GoneIn(H)
           G == GoneIn(H)
           D == L \ {b}
           E == G \cup {b}
<1>1. /\ GoneIn(K) = E /\ UsedIn(K) \ GoneIn(K) = D /\ b \in UsedIn(H) /\ b \notin G
      /\ \A x \in UsedIn(H) : K[x].bsize = H[x].bsize
  BY GoneAfter DEF Buried
<1>2. L \in SUBSET UsedIn(H) /\ b \in L /\ D \subseteq UsedIn(H) /\ G \in SUBSET UsedIn(H)
      /\ E \subseteq UsedIn(H)
  BY <1>1 DEF GoneIn
<1>3. n = Cardinality(SpanIn(H, L)) /\ m = Cardinality(SpanIn(H, G))
  BY DEF Charged
<1> HIDE DEF L, G
<1>4. Cardinality(SpanIn(H, D)) = Cardinality(SpanIn(H, L)) - H[b].bsize
  BY <1>2, SpanRemove
<1>5. Cardinality(SpanIn(H, E)) = Cardinality(SpanIn(H, G)) + H[b].bsize
  BY <1>1, <1>2, SpanAdd
<1> HIDE DEF D, E
<1>6. SpanIn(K, D) = SpanIn(H, D) /\ SpanIn(K, E) = SpanIn(H, E)
  BY <1>1, <1>2, SpanSame
<1>7. Cardinality(SpanIn(K, UsedIn(K) \ GoneIn(K))) = n - H[b].bsize
  BY <1>1, <1>3, <1>4, <1>6
<1>8. Cardinality(SpanIn(K, GoneIn(K))) = m + H[b].bsize
  BY <1>1, <1>3, <1>5, <1>6
<1> QED
  BY <1>7, <1>8 DEF Charged

-----------------------------------------------------------------------------
(* Requests and temporal slots *)

\* What adjusted_block_size returns for a size it does not refuse.
LEMMA Asked ==
  ASSUME NEW n \in Sizes, NEW k, k = AdjustedBlockSize(n), k > 0
  PROVE  Small(k) /\ k \in Nat /\ k >= MinUnits /\ n \in Nat /\ n >= 1 /\ n <= (k - 2) * BlockAlign
<1> DEFINE B == BlockAlign
           y == n + 2 * B + B - 1
           x == y \div B
<1>1. n \in Nat /\ n >= 1 /\ B \in Nat /\ B >= 1 /\ UsizeMax \in Nat
  BY Consts, TlsfAssumption
<1>2. k = Max({2, x})
  <2>1. ~(n > UsizeMax - 2 * B - (B - 1))
    BY DEF AdjustedBlockSize
  <2> QED
    BY <2>1 DEF AdjustedBlockSize, MinUnits
<1>3. y \in Nat /\ y = n + 3 * B - 1
  BY <1>1
<1>4. x \in Nat /\ y < x * B + B
  <2> HIDE DEF y
  <2> QED
    BY <1>1, <1>3, DivProps
<1> HIDE DEF x
<1>5. k \in {2, x} /\ 2 <= k /\ x <= k
  <2>1. \E m \in {2, x} : \A i \in {2, x} : m >= i
    BY <1>4
  <2>2. Max({2, x}) \in {2, x} /\ \A i \in {2, x} : Max({2, x}) >= i
    BY <2>1 DEF Max
  <2> QED
    BY <1>2, <1>4, <2>2
<1>6. k \in Nat
  BY <1>4, <1>5
<1>7. x * B <= k * B
  BY <1>1, <1>4, <1>5, <1>6, MulMono
<1>8. (k - 2) * B = k * B - 2 * B /\ k * B \in Nat /\ x * B \in Nat
  BY <1>1, <1>4, <1>6
<1>9. n <= (k - 2) * B
  <2> DEFINE kb == k * B
             xb == x * B
  <2>1. kb \in Nat /\ xb \in Nat /\ xb <= kb /\ n + 3 * B - 1 < xb + B /\ (k - 2) * B = kb - 2 * B
    BY <1>3, <1>4, <1>7, <1>8
  <2> HIDE DEF kb, xb
  <2>2. n <= kb - 2 * B
    <3> HIDE DEF B
    <3> QED
      BY <1>1, <2>1
  <2> QED
    BY <2>1, <2>2
<1>10. 2 * k * BlockAlign <= UsizeMax + 1
  BY SheetAssumption
<1> QED
  BY <1>1, <1>5, <1>6, <1>9, <1>10 DEF Small, MinUnits

\* A block that stays what it is serves the same class.
LEMMA ServesSame ==
  ASSUME NEW H, NEW K, NEW c, NEW x, Serves(H, c, x), x \in UsedIn(K),
         K[x].bsize = H[x].bsize, K[x].flags \in {Temporal, Tombstone}
  PROVE  Serves(K, c, x)
BY DEF Serves

\* Some slots of a are empty in e.
Thinned(a, e) == \A c \in Classes, r \in {1, 2} : e[c][r] = a[c][r] \/ e[c][r] = None

\* The blocks that e names are in K what they are in H, or tombstoned.
Standing(H, K, e) ==
  \A c \in Classes, r \in {1, 2} : e[c][r] # None =>
    /\ e[c][r] \in UsedIn(K) /\ K[e[c][r]].bsize = H[e[c][r]].bsize
    /\ K[e[c][r]].flags \in {Temporal, Tombstone}

\* Slots may be emptied, and their blocks may be tombstoned.
LEMMA SlotsKept ==
  ASSUME NEW H, NEW K, NEW a, NEW e, Slotted(H, a), Thinned(a, e), Standing(H, K, e)
  PROVE  Slotted(K, e)
<1> USE DEF Thinned, Standing
<1>1. \A c \in Classes, r \in {1, 2} : e[c][r] # None => Serves(K, c, e[c][r])
  <2> SUFFICES ASSUME NEW c \in Classes, NEW r \in {1, 2}, e[c][r] # None
               PROVE  Serves(K, c, e[c][r])
    OBVIOUS
  <2> DEFINE x == e[c][r]
  <2>1. x = a[c][r] /\ a[c][r] # None
    OBVIOUS
  <2>2. Serves(H, c, x)
    BY <2>1 DEF Slotted
  <2>3. x \in UsedIn(K) /\ K[x].bsize = H[x].bsize /\ K[x].flags \in {Temporal, Tombstone}
    OBVIOUS
  <2> HIDE DEF x
  <2>4. Serves(K, c, x)
    BY <2>2, <2>3, ServesSame
  <2> QED
    BY <2>4 DEF x
<1>2. \A c \in Classes : e[c][1] = None \/ e[c][2] = None
  BY DEF Slotted
<1>3. \A c, d \in Classes : \A r, q \in {1, 2} : e[c][r] # None /\ e[c][r] = e[d][q] => c = d
  <2> SUFFICES ASSUME NEW c \in Classes, NEW d \in Classes, NEW r \in {1, 2}, NEW q \in {1, 2},
                      e[c][r] # None, e[c][r] = e[d][q]
               PROVE  c = d
    OBVIOUS
  <2>1. a[c][r] # None /\ a[c][r] = a[d][q]
    BY Zenon
  <2>2. \A f, g \in Classes : \A s, t \in {1, 2} : a[f][s] # None /\ a[f][s] = a[g][t] => f = g
    BY Zenon DEF Slotted
  <2> QED
    BY <2>1, <2>2, Zenon
<1> QED
  BY <1>1, <1>2, <1>3 DEF Slotted

\* Blocks in slots stay in use when another block is handed out.
LEMMA SlotsClaim ==
  ASSUME NEW H, NEW K, NEW b, NEW f, Claimed(H, K, b, f), NEW a, Slotted(H, a)
  PROVE  Slotted(K, a)
<1>1. \A x \in UsedIn(H) : x \in UsedIn(K) /\ K[x].bsize = H[x].bsize /\ K[x].flags = H[x].flags
  BY DEF Claimed
<1>2. \A c \in Classes, r \in {1, 2} : a[c][r] # None =>
        a[c][r] \in UsedIn(H) /\ H[a[c][r]].flags \in {Temporal, Tombstone}
  BY DEF Slotted, Serves
<1>3. Standing(H, K, a) /\ Thinned(a, a)
  BY <1>1, <1>2 DEF Standing, Thinned
<1> QED
  BY <1>3, SlotsKept

\* When a block is tombstoned.
LEMMA SlotsBury ==
  ASSUME NEW H, NEW K, NEW b, Buried(H, K, b), NEW a, Slotted(H, a)
  PROVE  Slotted(K, a)
<1>1. \A x \in UsedIn(H) : /\ x \in UsedIn(K) /\ K[x].bsize = H[x].bsize
                           /\ K[x].flags = H[x].flags \/ K[x].flags = Tombstone
  BY DEF Buried
<1>2. \A c \in Classes, r \in {1, 2} : a[c][r] # None =>
        a[c][r] \in UsedIn(H) /\ H[a[c][r]].flags \in {Temporal, Tombstone}
  BY DEF Slotted, Serves
<1>3. Standing(H, K, a) /\ Thinned(a, a)
  BY <1>1, <1>2 DEF Standing, Thinned
<1> QED
  BY <1>3, SlotsKept

SlotsGood(K, e) == e \in Actives /\ Slotted(K, e)

\* The block of a temporal request takes a slot of its class.
LEMMA SlotsFresh ==
  ASSUME NEW H, NEW K, NEW b \in Units, Claimed(H, K, b, Temporal), NEW a \in Actives, Slotted(H, a),
         NEW n \in Sizes, NEW k, k = AdjustedBlockSize(n), k > 0, K[b].bsize \in {k, k + 1},
         NEW c \in Classes, c = MappingSearch(k), a[c][1] = None, a[c][2] = None,
         NEW r \in {1, 2}
  PROVE  SlotsGood(K, [a EXCEPT ![c][r] = b])
<1> DEFINE e == [a EXCEPT ![c][r] = b]
<1>1. a \in [Classes -> [1 .. 2 -> Units \cup {None}]] /\ r \in 1 .. 2
  BY DEF Actives
<1> DEFINE g == [a[c] EXCEPT ![r] = b]
<1>2. a[c] \in [1 .. 2 -> Units \cup {None}]
  BY <1>1
<1>3. g \in [1 .. 2 -> Units \cup {None}] /\ g[r] = b /\ \A q \in {1, 2} : q # r => g[q] = None
  BY <1>1, <1>2
<1>4. e = [a EXCEPT ![c] = g]
  OBVIOUS
<1> HIDE DEF e, g
<1>5. e \in Actives
  BY <1>1, <1>3, <1>4 DEF Actives
<1>6. e[c] = g /\ \A d \in Classes : d # c => e[d] = a[d]
  BY <1>1, <1>4
<1>7. Slotted(K, a)
  BY SlotsClaim
<1>8. b \in UsedIn(K) /\ b \notin UsedIn(H) /\ K[b].flags = Temporal /\ b # None
  <2>1. b \notin UsedIn(H)
    BY DEF Claimed, FreeIn, UsedIn
  <2> QED
    BY <2>1, UnitFacts DEF Claimed
<1>9. Serves(K, c, b)
  BY <1>8 DEF Serves
<1>10. \A d \in Classes, q \in {1, 2} : a[d][q] # b
  BY <1>8 DEF Slotted, Serves
<1>11. \A d \in Classes, q \in {1, 2} : e[d][q] = (IF d = c /\ q = r THEN b ELSE a[d][q])
  BY <1>3, <1>6
<1>12. \A d \in Classes, q \in {1, 2} : e[d][q] # None => Serves(K, d, e[d][q])
  BY <1>7, <1>9, <1>11 DEF Slotted
<1>13. \A d \in Classes : e[d][1] = None \/ e[d][2] = None
  BY <1>7, <1>11 DEF Slotted
<1>14. \A d, f \in Classes : \A q, s \in {1, 2} : e[d][q] # None /\ e[d][q] = e[f][s] => d = f
  <2> SUFFICES ASSUME NEW d \in Classes, NEW f \in Classes, NEW q \in {1, 2}, NEW s \in {1, 2},
                      e[d][q] # None, e[d][q] = e[f][s]
               PROVE  d = f
    OBVIOUS
  <2>1. \A x, y \in Classes : \A u, v \in {1, 2} : a[x][u] # None /\ a[x][u] = a[y][v] => x = y
    BY Zenon DEF Slotted
  <2>2. CASE d = c /\ q = r
    <3>1. e[d][q] = b /\ e[f][s] = b
      BY <1>11, <2>2
    <3>2. f = c /\ s = r
      BY <1>10, <1>11, <3>1
    <3> QED
      BY <2>2, <3>2
  <2>3. CASE f = c /\ s = r
    <3>1. e[d][q] = b /\ e[f][s] = b
      BY <1>11, <2>3
    <3>2. d = c /\ q = r
      BY <1>10, <1>11, <3>1
    <3> QED
      BY <2>3, <3>2
  <2>4. CASE ~(d = c /\ q = r) /\ ~(f = c /\ s = r)
    <3>1. e[d][q] = a[d][q] /\ e[f][s] = a[f][s]
      BY <1>11, <2>4
    <3>2. a[d][q] # None /\ a[d][q] = a[f][s]
      BY <3>1, Zenon
    <3> QED
      BY <2>1, <3>2, Zenon
  <2> QED
    BY <2>2, <2>3, <2>4
<1>15. Slotted(K, e)
  BY <1>12, <1>13, <1>14 DEF Slotted
<1> QED
  BY <1>5, <1>15 DEF SlotsGood, e

\* The blocks that slots a name.
InSlots(a) == {a[c][r] : c \in Classes, r \in 1 .. 2} \ {None}

\* A block that takes an empty slot joins them.
LEMMA SlotsFilled ==
  ASSUME NEW a \in Actives, NEW b \in Units, NEW c \in Classes, a[c][1] = None, a[c][2] = None,
         NEW r \in {1, 2}
  PROVE  InSlots([a EXCEPT ![c][r] = b]) = InSlots(a) \cup {b}
<1> DEFINE e == [a EXCEPT ![c][r] = b]
<1>1. a \in [Classes -> [1 .. 2 -> Units \cup {None}]] /\ r \in 1 .. 2 /\ b # None
  BY UnitFacts DEF Actives
<1>2. a[c] \in [1 .. 2 -> Units \cup {None}]
  BY <1>1
<1>3. \A d \in Classes, q \in 1 .. 2 : e[d][q] = IF d = c /\ q = r THEN b ELSE a[d][q]
  BY <1>1, <1>2
<1>4. \A q \in 1 .. 2 : a[c][q] = None
  BY <1>1
<1> HIDE DEF e
<1>5. InSlots(e) = InSlots(a) \cup {b}
  <2>1. ASSUME NEW x
        PROVE  x \in InSlots(e) <=> x \in InSlots(a) \cup {b}
    <3>1. x \in InSlots(e) <=> x # None /\ \E d \in Classes, q \in 1 .. 2 : x = e[d][q]
      BY DEF InSlots
    <3>2. x \in InSlots(a) <=> x # None /\ \E d \in Classes, q \in 1 .. 2 : x = a[d][q]
      BY DEF InSlots
    <3>3. ASSUME x # None, NEW d \in Classes, NEW q \in 1 .. 2, x = e[d][q]
          PROVE  x \in InSlots(a) \cup {b}
      BY <1>3, <3>2, <3>3
    <3>4. ASSUME x # None, NEW d \in Classes, NEW q \in 1 .. 2, x = a[d][q]
          PROVE  x \in InSlots(e)
      <4>1. d # c
        BY <1>4, <3>4
      <4>2. x = e[d][q]
        BY <1>3, <3>4, <4>1
      <4> QED
        BY <3>1, <3>4, <4>2
    <3>5. b \in InSlots(e)
      <4>1. e[c][r] = b
        BY <1>1, <1>3
      <4> QED
        BY <1>1, <4>1 DEF InSlots
    <3> QED
      BY <3>1, <3>2, <3>3, <3>4, <3>5
  <2> QED
    BY <2>1
<1> QED
  BY <1>5 DEF e

\* The slots of a that name b are empty in e, and no others.
Emptied(a, e, b) == \A c \in Classes, r \in {1, 2} : e[c][r] = IF a[c][r] = b THEN None ELSE a[c][r]

\* The block leaves them.
LEMMA SlotsEmptied ==
  ASSUME NEW a, NEW e, NEW b, b # None, Emptied(a, e, b)
  PROVE  InSlots(e) = InSlots(a) \ {b}
<1>1. \A c \in Classes, r \in 1 .. 2 : e[c][r] = IF a[c][r] = b THEN None ELSE a[c][r]
  <2>1. 1 .. 2 = {1, 2}
    OBVIOUS
  <2> QED
    BY <2>1, Zenon DEF Emptied
<1>2. ASSUME NEW x
      PROVE  x \in InSlots(e) <=> x \in InSlots(a) \ {b}
  <2>1. x \in InSlots(e) <=> x # None /\ \E d \in Classes, q \in 1 .. 2 : x = e[d][q]
    BY DEF InSlots
  <2>2. x \in InSlots(a) <=> x # None /\ \E d \in Classes, q \in 1 .. 2 : x = a[d][q]
    BY DEF InSlots
  <2> QED
    BY <1>1, <2>1, <2>2
<1> QED
  BY <1>2

\* No slot of e names b.
Unnamed(e, b) == \A c \in Classes, r \in {1, 2} : e[c][r] # b

\* __clear_temporal looks into enough classes: it empties the block's slot.
LEMMA Cleared ==
  ASSUME NEW H, Linked(H), active \in Actives, Slotted(H, active), NEW b \in UsedIn(H),
         NEW e, e = ClearTemporal(b, H[b].bsize)
  PROVE  e \in Actives /\ Thinned(active, e) /\ Unnamed(e, b) /\ Emptied(active, e, b)
<1> DEFINE u == H[b].bsize
           at(v) == {s \in Slots(v) : active[s[1]][s[2]] = b}
           mine == IF at(u) # {} \/ u <= MinUnits THEN at(u) ELSE at(u - 1)
<1>1. e = [c \in Classes |-> [r \in {1, 2} |-> IF <<c, r>> \in mine THEN None ELSE active[c][r]]]
  BY Zenon DEF ClearTemporal
<1> HIDE DEF mine
<1>2. \A c \in Classes, r \in {1, 2} : e[c][r] = IF <<c, r>> \in mine THEN None ELSE active[c][r]
  BY <1>1, Zenon
<1>3. \A c \in Classes, r \in {1, 2} : active[c][r] \in Units \cup {None}
  BY DEF Actives
<1>4. e \in Actives
  <2>1. \A c \in Classes : [r \in {1, 2} |-> IF <<c, r>> \in mine THEN None ELSE active[c][r]]
                             \in [1 .. 2 -> Units \cup {None}]
    <3>1. 1 .. 2 = {1, 2}
      OBVIOUS
    <3> QED
      BY <1>3, <3>1
  <2> QED
    BY <1>1, <2>1 DEF Actives
<1>5. b # None
  BY UnitFacts DEF UsedIn
<1>6. ASSUME NEW c \in Classes, NEW r \in {1, 2}, active[c][r] = b
      PROVE  <<c, r>> \in mine
  <2>1. Serves(H, c, b)
    BY <1>5, <1>6 DEF Slotted
  <2>2. PICK n \in Sizes : LET k == AdjustedBlockSize(n)
                           IN k > 0 /\ c = MappingSearch(k) /\ u \in {k, k + 1}
    BY <2>1 DEF Serves
  <2> DEFINE k == AdjustedBlockSize(n)
  <2>3. k > 0 /\ c = MappingSearch(k) /\ u \in {k, k + 1}
    BY <2>2
  <2>4. k \in Nat /\ k >= MinUnits
    BY <2>3, Asked
  <2> HIDE DEF k, u
  <2>5. <<c, r>> \in at(k)
    BY <1>6, <2>3 DEF Slots
  <2>6. CASE u = k
    BY <2>5, <2>6 DEF mine
  <2>7. CASE u = k + 1
    <3>1. u - 1 = k /\ ~(u <= MinUnits)
      BY <2>4, <2>7 DEF MinUnits
    <3>2. CASE at(u) = {}
      <4>1. mine = at(k)
        BY <3>1, <3>2 DEF mine
      <4> QED
        BY <2>5, <4>1
    <3>3. CASE at(u) # {}
      <4>1. PICK s \in Slots(u) : active[s[1]][s[2]] = b
        BY <3>3
      <4>2. s[1] \in Classes /\ s[2] \in {1, 2} /\ s[1] = MappingSearch(u)
        BY DEF Slots
      <4>3. c = s[1]
        <5>1. active[c][r] # None /\ active[c][r] = active[s[1]][s[2]]
          BY <1>5, <1>6, <4>1
        <5>2. \A f, g \in Classes : \A t, v \in {1, 2} :
                active[f][t] # None /\ active[f][t] = active[g][v] => f = g
          BY Zenon DEF Slotted
        <5> QED
          BY <4>2, <5>1, <5>2, Zenon
      <4>4. <<c, r>> \in at(u)
        BY <1>6, <4>2, <4>3 DEF Slots
      <4> QED
        BY <4>4 DEF mine
    <3> QED
      BY <3>2, <3>3
  <2> QED
    BY <2>3, <2>6, <2>7
<1>7. Thinned(active, e) /\ Unnamed(e, b)
  BY <1>2, <1>5, <1>6 DEF Thinned, Unnamed
<1>8. ASSUME NEW c \in Classes, NEW r \in {1, 2}, <<c, r>> \in mine
      PROVE  active[c][r] = b
  <2>1. <<c, r>> \in at(u) \/ <<c, r>> \in at(u - 1)
    BY <1>8 DEF mine
  <2> QED
    BY <2>1
<1>9. Emptied(active, e, b)
  BY <1>2, <1>6, <1>8 DEF Emptied
<1> QED
  BY <1>4, <1>7, <1>9

\* Slots that do not name a block survive its release.
LEMMA SlotsDrop ==
  ASSUME NEW H, NEW K, NEW b, Dropped(H, K, b), NEW a, Slotted(H, a), NEW e,
         Thinned(a, e), Unnamed(e, b)
  PROVE  Slotted(K, e)
<1>1. \A x \in UsedIn(H) : x # b =>
        x \in UsedIn(K) /\ K[x].bsize = H[x].bsize /\ K[x].flags = H[x].flags
  BY DEF Dropped
<1>2. \A c \in Classes, r \in {1, 2} : a[c][r] # None =>
        a[c][r] \in UsedIn(H) /\ H[a[c][r]].flags \in {Temporal, Tombstone}
  BY DEF Slotted, Serves
<1>3. Standing(H, K, e)
  BY <1>1, <1>2 DEF Standing, Thinned, Unnamed
<1> QED
  BY <1>3, SlotsKept

\* The slots after deallocate.
LEMMA SlotsReturn ==
  ASSUME NEW H, Linked(H), active \in Actives, Slotted(H, active), NEW b, b \notin GoneIn(H),
         NEW K, Dropped(H, K, b),
         NEW e, e = IF "temporal" \in H[b].flags THEN ClearTemporal(b, H[b].bsize) ELSE active
  PROVE  e \in Actives /\ Slotted(K, e) /\ InSlots(e) = InSlots(active) \ {b}
<1>1. b \in UsedIn(H) /\ b # None
  BY UnitFacts DEF Dropped, UsedIn
<1>2. H[b].flags \in {Alloc, Temporal}
  <2>1. H[b].flags \in {Alloc, Temporal, Tombstone}
    BY <1>1, UsedFacts
  <2>2. "tombstone" \notin H[b].flags
    BY <1>1 DEF GoneIn
  <2> QED
    BY <2>1, <2>2 DEF Tombstone
<1>3. CASE H[b].flags = Alloc
  <2>1. e = active
    BY <1>3 DEF Alloc
  <2>2. Alloc \notin {Temporal, Tombstone}
    BY DEF Alloc, Temporal, Tombstone
  <2>4. Unnamed(active, b) /\ Thinned(active, active)
    BY <1>1, <1>3, <2>2 DEF Slotted, Serves, Unnamed, Thinned
  <2>5. Slotted(K, active)
    BY <2>4, SlotsDrop
  <2>6. InSlots(active) = InSlots(active) \ {b}
    <3>1. Emptied(active, active, b)
      BY <2>4 DEF Emptied, Unnamed
    <3> QED
      BY <1>1, <3>1, SlotsEmptied
  <2> QED
    BY <2>1, <2>5, <2>6
<1>4. CASE H[b].flags = Temporal
  <2>1. e = ClearTemporal(b, H[b].bsize)
    BY <1>4 DEF Temporal
  <2>2. e \in Actives /\ Thinned(active, e) /\ Unnamed(e, b) /\ Emptied(active, e, b)
    BY <1>1, <2>1, Cleared
  <2>3. Slotted(K, e)
    BY <2>2, SlotsDrop
  <2>4. InSlots(e) = InSlots(active) \ {b}
    BY <1>1, <2>2, SlotsEmptied
  <2> QED
    BY <2>2, <2>3, <2>4
<1> QED
  BY <1>2, <1>3, <1>4

-----------------------------------------------------------------------------
(* The invariant *)

Fit(H, b, n) == n <= (H[b].bsize - 1) * BlockAlign

\* What a step does to the blocks, to their holders and to the slots.
Takes == \E b, f, n : /\ Claimed(pool.hdr, pool'.hdr, b, f) /\ n \in Nat /\ n > 0 /\ Fit(pool'.hdr, b, n)
                      /\ held' = [held EXCEPT ![b] = n]
                      /\ Lent' = Lent \/ Lent' = Lent \cup {b}
Lends == \E b, n : /\ b \in UsedIn(pool.hdr) /\ n \in Nat /\ (Narrow => Fit(pool.hdr, b, n))
                   /\ pool.hdr[b].flags # Alloc
                   /\ pool' = pool /\ held' = [held EXCEPT ![b] = Max({@, n})]
                   /\ b \in Lent /\ n > 0 /\ Lent' = Lent
Gives == \E b : /\ Dropped(pool.hdr, pool'.hdr, b) /\ b \notin GoneIn(pool.hdr)
                /\ held' = [held EXCEPT ![b] = 0]
                /\ held[b] > 0 /\ Lent' = Lent \ {b}
Retires == \E b : /\ Buried(pool.hdr, pool'.hdr, b) /\ held' = [held EXCEPT ![b] = 0]
                  /\ held[b] > 0 /\ Lent' = Lent
Moves == \E q, new, b, n : /\ Sound(q) /\ Claimed(pool.hdr, q.hdr, new, Alloc)
                           /\ Dropped(q.hdr, pool'.hdr, b) /\ b \in UsedIn(pool.hdr) \ GoneIn(pool.hdr)
                           /\ n \in Nat /\ n > 0 /\ Fit(q.hdr, new, n)
                           /\ held' = [held EXCEPT ![b] = 0, ![new] = n]
                           /\ held[b] > 0 /\ Lent' = Lent \ {b}
Refuses == \E b \in Units : /\ pool' = pool /\ held' = [held EXCEPT ![b] = 0]
                            /\ held[b] > 0 /\ IsTombstoned(b) /\ Lent' = Lent
Keeps == pool' = pool /\ held' = held /\ Lent' = Lent

\* The slots of a state.
LEMMA LentIs == Lent = InSlots(active) /\ Lent' = InSlots(active')
BY DEF Lent, InSlots

\* The blocks that callers hold.
HeldIn(h) == {u \in Units : h[u] > 0}

\* They are as they were, except for the block of the step.
LEMMA HeldAfter ==
  ASSUME NEW h \in [Units -> Nat], NEW b \in Units
  PROVE  /\ \A n \in Nat : n > 0 => HeldIn([h EXCEPT ![b] = n]) = HeldIn(h) \cup {b}
         /\ \A n \in Nat : n > 0 => HeldIn([h EXCEPT ![b] = Max({@, n})]) = HeldIn(h) \cup {b}
         /\ HeldIn([h EXCEPT ![b] = 0]) = HeldIn(h) \ {b}
<1>1. ASSUME NEW n \in Nat, n > 0
      PROVE  HeldIn([h EXCEPT ![b] = n]) = HeldIn(h) \cup {b}
  BY <1>1 DEF HeldIn
<1>2. ASSUME NEW n \in Nat, n > 0
      PROVE  HeldIn([h EXCEPT ![b] = Max({@, n})]) = HeldIn(h) \cup {b}
  <2> DEFINE v == Max({h[b], n})
  <2>1. v \in {h[b], n} /\ v >= n
    <3>1. h[b] \in Nat
      OBVIOUS
    <3>2. \E m \in {h[b], n} : \A i \in {h[b], n} : m >= i
      BY <3>1
    <3> QED
      BY <3>2 DEF Max
  <2>2. v \in Nat /\ v > 0
    <3> HIDE DEF v
    <3> QED
      BY <1>2, <2>1
  <2> HIDE DEF v
  <2>3. HeldIn([h EXCEPT ![b] = v]) = HeldIn(h) \cup {b}
    BY <1>1, <2>2
  <2> QED
    BY <2>3 DEF v
<1>3. HeldIn([h EXCEPT ![b] = 0]) = HeldIn(h) \ {b}
  BY DEF HeldIn
<1> QED
  BY <1>1, <1>2, <1>3

\* Who may hold a block after each change.
LEMMA HoldersAfter ==
  ASSUME NEW H, NEW K, NEW h, Holders(H, h), NEW b \in Units
  PROVE  /\ \A f, n : Claimed(H, K, b, f) /\ n \in Nat => Holders(K, [h EXCEPT ![b] = n])
         /\ \A n : b \in UsedIn(H) /\ n \in Nat => Holders(H, [h EXCEPT ![b] = Max({@, n})])
         /\ Dropped(H, K, b) => Holders(K, [h EXCEPT ![b] = 0])
         /\ Buried(H, K, b) => Holders(K, [h EXCEPT ![b] = 0])
         /\ Holders(H, [h EXCEPT ![b] = 0])
<1>1. h \in [Units -> Nat] /\ \A x \in Units : h[x] > 0 => x \in UsedIn(H)
  BY DEF Holders
<1>2. ASSUME NEW v \in Nat
      PROVE  /\ [h EXCEPT ![b] = v] \in [Units -> Nat] /\ [h EXCEPT ![b] = v][b] = v
             /\ \A x \in Units : x # b => [h EXCEPT ![b] = v][x] = h[x]
  BY <1>1
<1>3. ASSUME NEW f, NEW n, Claimed(H, K, b, f), n \in Nat
      PROVE  Holders(K, [h EXCEPT ![b] = n])
  <2>1. UsedIn(K) = UsedIn(H) \cup {b}
    BY <1>3 DEF Claimed
  <2> QED
    BY <1>1, <1>2, <1>3, <2>1 DEF Holders
<1>4. ASSUME NEW n, b \in UsedIn(H), n \in Nat
      PROVE  Holders(H, [h EXCEPT ![b] = Max({@, n})])
  <2> DEFINE v == Max({h[b], n})
  <2>1. v \in Nat
    <3>1. h[b] \in Nat
      BY <1>1
    <3>2. \E m \in {h[b], n} : \A i \in {h[b], n} : m >= i
      BY <1>4, <3>1
    <3>3. v \in {h[b], n}
      BY <3>2 DEF Max
    <3> QED
      BY <1>4, <3>1, <3>3
  <2> HIDE DEF v
  <2>2. Holders(H, [h EXCEPT ![b] = v])
    BY <1>1, <1>2, <1>4, <2>1 DEF Holders
  <2> QED
    BY <2>2 DEF v
<1>5. 0 \in Nat /\ ~(0 > 0)
  OBVIOUS
<1>6. ASSUME Dropped(H, K, b)
      PROVE  Holders(K, [h EXCEPT ![b] = 0])
  <2>1. UsedIn(K) = UsedIn(H) \ {b}
    BY <1>6 DEF Dropped
  <2> QED
    BY <1>1, <1>2, <1>5, <2>1 DEF Holders
<1>7. ASSUME Buried(H, K, b)
      PROVE  Holders(K, [h EXCEPT ![b] = 0])
  <2>1. UsedIn(K) = UsedIn(H)
    BY <1>7 DEF Buried
  <2> QED
    BY <1>1, <1>2, <1>5, <2>1 DEF Holders
<1>8. Holders(H, [h EXCEPT ![b] = 0])
  BY <1>1, <1>2, <1>5 DEF Holders
<1> QED
  BY <1>3, <1>4, <1>6, <1>7, <1>8

\* r is what p becomes when a request of n bytes and k units is served at b.
Carved(p, t, r, b, f, n, k) ==
  /\ Handed(p, t, r, b, f) /\ b \in Units /\ n \in Nat
  /\ r.hdr[b].bsize \in {k, k + 1} /\ Fit(r.hdr, b, n)

\* find_free and try_split serve a request.
LEMMA CarveDoes ==
  ASSUME NEW p, Sound(p), NEW n \in Sizes, NEW k, k = AdjustedBlockSize(n), k > 0,
         NEW b, b = FindFree(p, k), b # None, NEW f \in {Alloc, Temporal},
         NEW t, t = TrySplit(FlRemove(p, b), b, k)
  PROVE  Carved(p, t, [t EXCEPT !.hdr[b].flags = f], b, f, n, k)
<1> DEFINE r == [t EXCEPT !.hdr[b].flags = f]
<1>8. r = [t EXCEPT !.hdr[b].flags = f]
  OBVIOUS
<1> HIDE DEF r
<1>1. Small(k) /\ k \in Nat /\ k >= MinUnits /\ n \in Nat /\ n <= (k - 2) * BlockAlign
  BY Asked
<1>2. b \in FreeIn(p.hdr) /\ Classed(p.hdr, b) /\ k <= p.hdr[b].bsize
  BY <1>1, FoundFits
<1>3. b \in Units
  BY <1>2 DEF Classed
<1>4. MinUnits <= k
  BY <1>1 DEF MinUnits
<1>5. Handed(p, t, r, b, f) /\ t.hdr[b].bsize \in {k, k + 1}
  BY <1>1, <1>2, <1>4, <1>8, Take
<1>6. r.hdr[b].bsize \in {k, k + 1}
  BY <1>5 DEF Handed
<1>7. Fit(r.hdr, b, n)
  <2> DEFINE w == r.hdr[b].bsize
  <2>1. w \in {k, k + 1}
    BY <1>6
  <2> HIDE DEF w
  <2>2. k - 2 \in Nat /\ w - 1 \in Nat /\ k - 2 <= w - 1 /\ BlockAlign \in Nat
    BY <1>1, <2>1, Consts DEF MinUnits
  <2>3. (k - 2) * BlockAlign <= (w - 1) * BlockAlign
    BY <2>2, MulMono
  <2>4. (k - 2) * BlockAlign \in Nat /\ (w - 1) * BlockAlign \in Nat
    BY <2>2
  <2>5. n <= (w - 1) * BlockAlign
    BY <1>1, <2>3, <2>4
  <2> QED
    BY <2>5 DEF Fit, w
<1> QED
  BY <1>1, <1>3, <1>5, <1>6, <1>7 DEF Carved, r

\* The parts of Good after a block was handed out.
LEMMA GoodClaim ==
  ASSUME NEW p, NEW a, NEW n, NEW m, Good(p, a, n, m), NEW t, NEW r, NEW b, NEW f, Handed(p, t, r, b, f)
  PROVE  Good(r, a, n + t.hdr[b].bsize, m)
<1>1. Sound(p) /\ a \in Actives /\ Slotted(p.hdr, a) /\ Charged(p.hdr, n, m)
  BY DEF Good
<1>2. Sound(r) /\ Claimed(p.hdr, r.hdr, b, f) /\ r.hdr[b].bsize = t.hdr[b].bsize
  BY DEF Handed
<1>3. Linked(r.hdr)
  BY <1>2 DEF Sound
<1>4. Charged(r.hdr, n + r.hdr[b].bsize, m)
  BY <1>1, <1>2, <1>3, ChargeClaim
<1>5. Slotted(r.hdr, a)
  BY <1>1, <1>2, SlotsClaim
<1> QED
  BY <1>1, <1>2, <1>4, <1>5 DEF Good

\* A request that is carved out of a free block.
LEMMA CarveInv ==
  ASSUME IInv, NEW n \in Sizes, NEW f \in {Alloc, Temporal}, Carve(n, f)
  PROVE  LET k == AdjustedBlockSize(n)
             b == FindFree(pool, k)
         IN  /\ Good(pool', active, allocated', tombstoned') /\ Holders(pool'.hdr, held')
             /\ Claimed(pool.hdr, pool'.hdr, b, f) /\ b \in Units
             /\ n \in Nat /\ n > 0 /\ Fit(pool'.hdr, b, n) /\ held' = [held EXCEPT ![b] = n]
             /\ k > 0 /\ pool'.hdr[b].bsize \in {k, k + 1}
<1> DEFINE k == AdjustedBlockSize(n)
           b == FindFree(pool, k)
           t == TrySplit(FlRemove(pool, b), b, k)
<1>1. /\ k > 0 /\ b # None
      /\ pool' = [t EXCEPT !.hdr[b].flags = f]
      /\ allocated' = allocated + t.hdr[b].bsize
      /\ held' = [held EXCEPT ![b] = n]
      /\ tombstoned' = tombstoned
  BY Zenon DEF Carve, HandOut
<1>2. Good(pool, active, allocated, tombstoned) /\ Holders(pool.hdr, held)
  BY DEF IInv
<1>3. Sound(pool)
  BY <1>2 DEF Good
<1>4. /\ Handed(pool, t, pool', b, f) /\ b \in Units /\ n \in Nat
      /\ pool'.hdr[b].bsize \in {k, k + 1} /\ Fit(pool'.hdr, b, n)
  <2>1. t = TrySplit(FlRemove(pool, b), b, k) /\ b = FindFree(pool, k) /\ k = AdjustedBlockSize(n)
    OBVIOUS
  <2> HIDE DEF t, b, k
  <2>2. Carved(pool, t, [t EXCEPT !.hdr[b].flags = f], b, f, n, k)
    BY <1>1, <1>3, <2>1, CarveDoes
  <2>3. Carved(pool, t, pool', b, f, n, k)
    BY <1>1, <2>2, Zenon
  <2> QED
    BY <2>3 DEF Carved
<1> HIDE DEF t, b, k
<1>5. Good(pool', active, allocated', tombstoned')
  BY <1>1, <1>2, <1>4, GoodClaim
<1>6. Claimed(pool.hdr, pool'.hdr, b, f)
  BY <1>4 DEF Handed
<1>7. Holders(pool'.hdr, held')
  <2>1. Holders(pool'.hdr, [held EXCEPT ![b] = n])
    BY <1>2, <1>4, <1>6, HoldersAfter, Zenon
  <2> QED
    BY <1>1, <2>1, Zenon
<1>8. n > 0
  BY <1>4, TlsfAssumption
<1> QED
  BY <1>1, <1>4, <1>5, <1>6, <1>7, <1>8 DEF b, k

\* allocate.
LEMMA AllocateInv ==
  ASSUME IInv, NEW n \in Sizes, Allocate(n)
  PROVE  IInv' /\ Takes
<1>1. Carve(n, Alloc) /\ active' = active /\ rotor' = rotor
  BY DEF Allocate
<1> DEFINE b == FindFree(pool, AdjustedBlockSize(n))
<1>2. /\ Good(pool', active, allocated', tombstoned') /\ Holders(pool'.hdr, held')
      /\ Claimed(pool.hdr, pool'.hdr, b, Alloc)
      /\ n \in Nat /\ n > 0 /\ Fit(pool'.hdr, b, n) /\ held' = [held EXCEPT ![b] = n]
  BY <1>1, CarveInv
<1> HIDE DEF b
<1>5. Takes
  <2>1. Lent' = Lent
    BY <1>1, LentIs, Zenon
  <2> QED
    BY <1>2, <2>1, Zenon DEF Takes
<1>3. rotor' \in [Classes -> 1 .. 2]
  BY <1>1 DEF IInv
<1>4. Good(pool', active', allocated', tombstoned')
  BY <1>1, <1>2
<1> QED
  BY <1>2, <1>3, <1>4, <1>5 DEF IInv

\* A block in the class of a power of two has that many bytes.
LEMMA ExactFits ==
  ASSUME NEW n \in Nat, n >= MinUnits * BlockAlign, n = Pow2[Fls(n)],
         NEW w \in Nat, w >= MinUnits, MappingInsert(w) = ClassOfBytes(n)
  PROVE  n - BlockAlign \in Nat /\ n - BlockAlign <= (w - 1) * BlockAlign
<1> DEFINE x == w * BlockAlign
<1>1. x \in Nat /\ 2 * BlockAlign <= x /\ Pow2[SlLog2] <= x /\ MappingInsert(w) = ClassOfBytes(x)
  BY BytesProps, InsertClass
<1>2. BlockAlign \in Nat /\ BlockAlign >= 1 /\ FlShift \in Nat
  BY Consts
<1>3. n >= 1 /\ x >= 1 /\ n - BlockAlign \in Nat
  <2> HIDE DEF x
  <2> QED
    BY <1>1, <1>2 DEF MinUnits
<1>4. Fls(n) \in Nat
  BY <1>3, FlsProps
<1> HIDE DEF x
<1>5. Fls(x) \in Nat /\ Pow2[Fls(x)] <= x
  BY <1>1, <1>3, FlsProps
<1>6. ClassOfBytes(n)[1] = Fls(n) - FlShift /\ ClassOfBytes(x)[1] = Fls(x) - FlShift
  BY DEF ClassOfBytes
<1>7. Fls(n) - FlShift = Fls(x) - FlShift
  BY <1>1, <1>6
<1>8. Fls(n) = Fls(x)
  BY <1>2, <1>4, <1>5, <1>7
<1>9. n <= x
  BY <1>5, <1>8
<1>10. (w - 1) * BlockAlign = x - BlockAlign
  BY <1>2 DEF x
<1> QED
  BY <1>1, <1>2, <1>3, <1>9, <1>10

\* allocate_exact.
LEMMA AllocateExactInv ==
  ASSUME IInv, NEW n \in Sizes, AllocateExact(n)
  PROVE  IInv' /\ Takes
<1> DEFINE c == ClassOfBytes(n)
           b == Head(pool.lists[c])
           t == FlRemove(pool, b)
           m == n - BlockAlign
<1>1. /\ n >= MinUnits * BlockAlign /\ n = Pow2[Fls(n)] /\ c \in Classes /\ pool.lists[c] # <<>>
      /\ pool' = [t EXCEPT !.hdr[b].flags = Alloc]
      /\ allocated' = allocated + t.hdr[b].bsize
      /\ held' = [held EXCEPT ![b] = m]
      /\ tombstoned' = tombstoned /\ active' = active /\ rotor' = rotor
  BY Zenon DEF AllocateExact, HandOut
<1>2. Good(pool, active, allocated, tombstoned) /\ Holders(pool.hdr, held) /\ rotor \in [Classes -> 1 .. 2]
  BY DEF IInv
<1>3. Sound(pool)
  BY <1>2 DEF Good
<1>4. c \in pool.sl
  BY <1>1, <1>3 DEF Sound, Shelved
<1>5. b \in FreeIn(pool.hdr) /\ MappingInsert(pool.hdr[b].bsize) = c
  BY <1>3, <1>4, ListedFree
<1>6. Classed(pool.hdr, b)
  BY <1>3, <1>5, FreeFacts DEF Sound
<1>7. t = FlRemove(pool, b) /\ Alloc \in {Alloc, Temporal}
  OBVIOUS
<1>8. m \in Nat /\ Fit(pool.hdr, b, m)
  <2>1. n \in Nat
    BY TlsfAssumption
  <2>2. pool.hdr[b].bsize \in Nat /\ pool.hdr[b].bsize >= MinUnits
    BY <1>6 DEF Classed
  <2> DEFINE w == pool.hdr[b].bsize
  <2> HIDE DEF w
  <2>3. w \in Nat /\ w >= MinUnits /\ MappingInsert(w) = ClassOfBytes(n)
    BY <1>5, <2>2 DEF w
  <2>4. m \in Nat /\ m <= (w - 1) * BlockAlign
    BY <1>1, <2>1, <2>3, ExactFits
  <2> QED
    BY <2>4 DEF Fit, w
<1>15. m > 0
  <2>1. n \in Nat /\ BlockAlign \in Nat /\ BlockAlign >= 1 /\ n >= 2 * BlockAlign
    BY <1>1, TlsfAssumption, Consts DEF MinUnits
  <2> QED
    BY <2>1
<1> HIDE DEF t, b, m
<1>9. Handed(pool, t, [t EXCEPT !.hdr[b].flags = Alloc], b, Alloc) /\ t.hdr = pool.hdr
  BY <1>3, <1>5, <1>7, TakeWhole
<1>10. Handed(pool, t, pool', b, Alloc)
  BY <1>1, <1>9, Zenon
<1>11. Good(pool', active', allocated', tombstoned')
  BY <1>1, <1>2, <1>10, GoodClaim
<1>12. Claimed(pool.hdr, pool'.hdr, b, Alloc) /\ Fit(pool'.hdr, b, m) /\ b \in Units
  BY <1>6, <1>8, <1>9, <1>10 DEF Handed, Fit, Classed
<1>13. Holders(pool'.hdr, held')
  <2>1. Holders(pool'.hdr, [held EXCEPT ![b] = m])
    BY <1>2, <1>8, <1>12, HoldersAfter, Zenon
  <2> QED
    BY <1>1, <2>1, Zenon
<1>14. Takes
  <2>1. Lent' = Lent
    BY <1>1, LentIs, Zenon
  <2> QED
    BY <1>1, <1>8, <1>12, <1>15, <2>1, Zenon DEF Takes
<1> QED
  BY <1>1, <1>2, <1>11, <1>13, <1>14 DEF IInv

\* The active block of a class.
LEMMA SlotFacts ==
  ASSUME active \in Actives, rotor \in [Classes -> 1 .. 2], NEW c \in Classes,
         Slotted(pool.hdr, active)
  PROVE  /\ ActiveSlot(c) \in {1, 2} /\ rotor[c] \in {1, 2} /\ 3 - ActiveSlot(c) \in 1 .. 2
         /\ 3 - rotor[c] \in 1 .. 2
         /\ active[c][ActiveSlot(c)] # None => /\ Serves(pool.hdr, c, active[c][ActiveSlot(c)])
                                               /\ active[c][ActiveSlot(c)] \in Lent
         /\ active[c][ActiveSlot(c)] = None => active[c][1] = None /\ active[c][2] = None
<1>1. rotor[c] \in 1 .. 2
  OBVIOUS
<1>2. rotor[c] = 1 \/ rotor[c] = 2
  BY <1>1
<1>3. ActiveSlot(c) = IF active[c][rotor[c]] = None THEN 3 - rotor[c] ELSE rotor[c]
  BY DEF ActiveSlot
<1>4. 3 - 1 = 2 /\ 3 - 2 = 1
  OBVIOUS
<1>5. /\ ActiveSlot(c) = 1 \/ ActiveSlot(c) = 2
      /\ active[c][ActiveSlot(c)] = None => active[c][1] = None /\ active[c][2] = None
  BY <1>2, <1>3, <1>4
<1>6. ActiveSlot(c) \in {1, 2}
  BY <1>5
<1>7. active[c][ActiveSlot(c)] # None => Serves(pool.hdr, c, active[c][ActiveSlot(c)])
  BY <1>6 DEF Slotted
<1>8. active[c][ActiveSlot(c)] # None => active[c][ActiveSlot(c)] \in Lent
  <2>1. ActiveSlot(c) \in 1 .. 2
    BY <1>6
  <2> QED
    BY <2>1 DEF Lent
<1> QED
  BY <1>2, <1>5, <1>6, <1>7, <1>8

\* A second temporal request is given a block that is in use.
LEMMA TemporalAgainInv ==
  ASSUME IInv, NEW n \in Sizes, TemporalAgain(n)
  PROVE  IInv' /\ Lends
<1> DEFINE k == AdjustedBlockSize(n)
           c == MappingSearch(k)
           b == active[c][ActiveSlot(c)]
<1>1. /\ k > 0 /\ c \in Classes /\ b # None
      /\ rotor' = [rotor EXCEPT ![c] = 3 - ActiveSlot(c)]
      /\ held' = [held EXCEPT ![b] = Max({@, n})]
      /\ pool' = pool /\ active' = active /\ allocated' = allocated /\ tombstoned' = tombstoned
  BY Zenon DEF TemporalAgain
<1>2. Good(pool, active, allocated, tombstoned) /\ Holders(pool.hdr, held) /\ rotor \in [Classes -> 1 .. 2]
  BY DEF IInv
<1>3. Linked(pool.hdr) /\ active \in Actives /\ Slotted(pool.hdr, active)
  BY <1>2 DEF Good, Sound
<1>4. Serves(pool.hdr, c, b) /\ b \in Lent /\ 3 - ActiveSlot(c) \in 1 .. 2
  BY <1>1, <1>2, <1>3, SlotFacts
<1>5. b \in UsedIn(pool.hdr) /\ b \in Units
  BY <1>4 DEF Serves, UsedIn
<1>6. k \in Nat /\ k >= MinUnits /\ n \in Nat /\ n <= (k - 2) * BlockAlign
  BY <1>1, Asked
<1>7. c = MappingSearch(k) /\ k = AdjustedBlockSize(n)
  OBVIOUS
<1> HIDE DEF b, c, k
<1>8. Narrow => Fit(pool.hdr, b, n)
  <2> SUFFICES ASSUME Narrow PROVE Fit(pool.hdr, b, n)
    OBVIOUS
  <2> DEFINE w == pool.hdr[b].bsize
  <2>1. PICK m \in Sizes : LET l == AdjustedBlockSize(m)
                           IN l > 0 /\ c = MappingSearch(l) /\ w \in {l, l + 1}
    BY <1>4 DEF Serves
  <2> DEFINE l == AdjustedBlockSize(m)
  <2>2. l > 0 /\ c = MappingSearch(l) /\ w \in {l, l + 1}
    BY <2>1
  <2>3. l \in Nat
    BY <2>2, Asked
  <2>4. k <= l + 1
    BY <1>1, <1>7, <2>2, Zenon DEF Narrow
  <2> HIDE DEF w, l
  <2>5. k - 2 \in Nat /\ w - 1 \in Nat /\ k - 2 <= w - 1 /\ BlockAlign \in Nat
    BY <1>6, <2>2, <2>3, <2>4, Consts DEF MinUnits
  <2>6. (k - 2) * BlockAlign <= (w - 1) * BlockAlign
    BY <2>5, MulMono
  <2>7. (k - 2) * BlockAlign \in Nat /\ (w - 1) * BlockAlign \in Nat
    BY <2>5
  <2>8. n <= (w - 1) * BlockAlign
    BY <1>6, <2>6, <2>7
  <2> QED
    BY <2>8 DEF Fit, w
<1>9. Lends
  <2>1. pool.hdr[b].flags # Alloc
    BY <1>4 DEF Serves, Alloc, Temporal, Tombstone
  <2>2. Lent' = Lent
    BY <1>1, LentIs, Zenon
  <2>3. n > 0
    BY TlsfAssumption
  <2> QED
    BY <1>1, <1>4, <1>5, <1>6, <1>8, <2>1, <2>2, <2>3, Zenon DEF Lends
<1>10. Holders(pool'.hdr, held')
  <2>1. Holders(pool.hdr, [held EXCEPT ![b] = Max({@, n})])
    BY <1>2, <1>5, <1>6, HoldersAfter, Zenon
  <2> QED
    BY <1>1, <2>1, Zenon
<1>11. rotor' \in [Classes -> 1 .. 2]
  BY <1>1, <1>2, <1>4
<1>12. Good(pool', active', allocated', tombstoned')
  BY <1>1, <1>2
<1> QED
  BY <1>9, <1>10, <1>11, <1>12 DEF IInv

\* A first temporal request is carved and takes a slot.
LEMMA TemporalFreshInv ==
  ASSUME IInv, NEW n \in Sizes, TemporalFresh(n)
  PROVE  IInv' /\ Takes
<1> DEFINE k == AdjustedBlockSize(n)
           c == MappingSearch(k)
           b == FindFree(pool, k)
<1>1. /\ k > 0 /\ c \in Classes /\ active[c][ActiveSlot(c)] = None
      /\ Carve(n, Temporal)
      /\ active' = [active EXCEPT ![c][rotor[c]] = b]
      /\ rotor' = [rotor EXCEPT ![c] = 3 - rotor[c]]
  BY Zenon DEF TemporalFresh
<1>2. Good(pool, active, allocated, tombstoned) /\ rotor \in [Classes -> 1 .. 2]
  BY DEF IInv
<1>3. active \in Actives /\ Slotted(pool.hdr, active)
  BY <1>2 DEF Good
<1>4. /\ Good(pool', active, allocated', tombstoned') /\ Holders(pool'.hdr, held')
      /\ Claimed(pool.hdr, pool'.hdr, b, Temporal) /\ b \in Units
      /\ n \in Nat /\ n > 0 /\ Fit(pool'.hdr, b, n) /\ held' = [held EXCEPT ![b] = n]
      /\ pool'.hdr[b].bsize \in {k, k + 1}
  <2>1. Temporal \in {Alloc, Temporal}
    OBVIOUS
  <2> QED
    BY <1>1, <2>1, CarveInv
<1>5. active[c][1] = None /\ active[c][2] = None /\ rotor[c] \in {1, 2} /\ 3 - rotor[c] \in 1 .. 2
  BY <1>1, <1>2, <1>3, SlotFacts
<1>6. c = MappingSearch(k) /\ k = AdjustedBlockSize(n)
  OBVIOUS
<1> HIDE DEF b, c, k
<1>7. SlotsGood(pool'.hdr, active')
  <2>1. SlotsGood(pool'.hdr, [active EXCEPT ![c][rotor[c]] = b])
    BY <1>1, <1>3, <1>4, <1>5, <1>6, SlotsFresh
  <2> QED
    BY <1>1, <2>1, Zenon
<1>8. Good(pool', active', allocated', tombstoned')
  BY <1>4, <1>7 DEF Good, SlotsGood
<1>9. rotor' \in [Classes -> 1 .. 2]
  BY <1>1, <1>2, <1>5
<1>10. Takes
  <2>1. InSlots([active EXCEPT ![c][rotor[c]] = b]) = InSlots(active) \cup {b}
    BY <1>1, <1>3, <1>4, <1>5, SlotsFilled
  <2>2. Lent' = InSlots(active') /\ Lent = InSlots(active)
    BY LentIs
  <2>3. Lent' = Lent \cup {b}
    BY <1>1, <2>1, <2>2, Zenon
  <2> QED
    BY <1>4, <2>3, Zenon DEF Takes
<1> QED
  BY <1>4, <1>8, <1>9, <1>10 DEF IInv

\* The parts of Good after a block was freed.
LEMMA GoodDrop ==
  ASSUME NEW p, NEW n, NEW m, Good(p, active, n, m), NEW b, b \notin GoneIn(p.hdr),
         NEW r, Released(p, r, b),
         NEW e, e = IF "temporal" \in p.hdr[b].flags THEN ClearTemporal(b, p.hdr[b].bsize) ELSE active
  PROVE  Good(r, e, n - p.hdr[b].bsize, m) /\ InSlots(e) = InSlots(active) \ {b}
<1>1. Sound(p) /\ active \in Actives /\ Slotted(p.hdr, active) /\ Charged(p.hdr, n, m)
  BY DEF Good
<1>2. Sound(r) /\ Dropped(p.hdr, r.hdr, b)
  BY DEF Released
<1>3. Linked(p.hdr)
  BY <1>1 DEF Sound
<1>4. Charged(r.hdr, n - p.hdr[b].bsize, m)
  BY <1>1, <1>2, <1>3, ChargeDrop
<1>5. e \in Actives /\ Slotted(r.hdr, e) /\ InSlots(e) = InSlots(active) \ {b}
  BY <1>1, <1>2, <1>3, SlotsReturn
<1> QED
  BY <1>2, <1>4, <1>5 DEF Good

\* A block that a caller holds.
LEMMA HeldFacts ==
  ASSUME IInv, NEW b \in Units, held[b] > 0
  PROVE  /\ b \in UsedIn(pool.hdr) /\ Sound(pool)
         /\ Freeable(b) => b \notin GoneIn(pool.hdr)
         /\ "alloc" \in pool.hdr[b].flags => b \notin GoneIn(pool.hdr)
<1>1. b \in UsedIn(pool.hdr) /\ Sound(pool)
  BY DEF IInv, Holders, Good
<1>2. Freeable(b) => b \notin GoneIn(pool.hdr)
  BY DEF Freeable, IsTombstoned, GoneIn
<1>3. "alloc" \in pool.hdr[b].flags => b \notin GoneIn(pool.hdr)
  <2>1. pool.hdr[b].flags \in {Alloc, Temporal, Tombstone}
    BY <1>1, UsedFacts DEF Sound
  <2> QED
    BY <2>1 DEF GoneIn, Alloc, Temporal, Tombstone
<1> QED
  BY <1>1, <1>2, <1>3

\* deallocate.
LEMMA DeallocateInv ==
  ASSUME IInv, NEW b \in Units, held[b] > 0, Deallocate(b)
  PROVE  IInv' /\ Gives
<1>1. /\ Freeable(b) /\ pool' = CoalesceAndFree(pool, b)
      /\ active' = IF "temporal" \in pool.hdr[b].flags THEN ClearTemporal(b, pool.hdr[b].bsize) ELSE active
      /\ allocated' = allocated + 0 - pool.hdr[b].bsize
      /\ rotor' = rotor /\ tombstoned' = tombstoned
      /\ held' = [held EXCEPT ![b] = 0]
  BY Zenon DEF Deallocate, Return
<1>2. /\ Good(pool, active, allocated, tombstoned) /\ Holders(pool.hdr, held)
      /\ rotor \in [Classes -> 1 .. 2]
  BY DEF IInv
<1>3. b \in UsedIn(pool.hdr) /\ Sound(pool) /\ b \notin GoneIn(pool.hdr)
  BY <1>1, HeldFacts
<1>4. Released(pool, pool', b)
  <2>1. Released(pool, CoalesceAndFree(pool, b), b)
    BY <1>3, Coalesce
  <2> QED
    BY <1>1, <2>1, Zenon
<1>5. Good(pool', active', allocated - pool.hdr[b].bsize, tombstoned) /\ InSlots(active') = InSlots(active) \ {b}
  BY <1>1, <1>2, <1>3, <1>4, GoodDrop
<1>6. allocated' = allocated - pool.hdr[b].bsize
  <2>1. allocated \in Nat
    BY <1>2, SpanCount DEF Good, Charged
  <2>2. pool.hdr[b].bsize \in Nat
    BY <1>3, UsedFacts DEF Sound, Classed
  <2> QED
    BY <1>1, <2>1, <2>2
<1>7. Good(pool', active', allocated', tombstoned')
  BY <1>1, <1>5, <1>6, Zenon
<1>8. Dropped(pool.hdr, pool'.hdr, b)
  BY <1>4 DEF Released
<1>9. Holders(pool'.hdr, held')
  <2>1. Holders(pool'.hdr, [held EXCEPT ![b] = 0])
    BY <1>2, <1>8, HoldersAfter, Zenon
  <2> QED
    BY <1>1, <2>1, Zenon
<1>10. Gives
  <2>1. Lent' = InSlots(active') /\ Lent = InSlots(active)
    BY LentIs
  <2>2. Lent' = Lent \ {b}
    BY <1>5, <2>1
  <2> QED
    BY <1>1, <1>3, <1>8, <2>2, Zenon DEF Gives
<1> QED
  BY <1>1, <1>2, <1>7, <1>9, <1>10 DEF IInv

\* tombstone.
LEMMA TombstoneInv ==
  ASSUME IInv, NEW b \in Units, held[b] > 0, TombstoneBlock(b)
  PROVE  IInv' /\ Retires
<1>1. /\ "alloc" \in pool.hdr[b].flags
      /\ pool' = [pool EXCEPT !.hdr[b].flags = Tombstone]
      /\ allocated' = allocated - pool.hdr[b].bsize
      /\ tombstoned' = tombstoned + pool.hdr[b].bsize
      /\ held' = [held EXCEPT ![b] = 0]
      /\ active' = active /\ rotor' = rotor
  BY Zenon DEF TombstoneBlock
<1>2. /\ Good(pool, active, allocated, tombstoned) /\ Holders(pool.hdr, held)
      /\ rotor \in [Classes -> 1 .. 2]
  BY DEF IInv
<1>3. b \in UsedIn(pool.hdr) /\ Sound(pool) /\ b \notin GoneIn(pool.hdr)
  BY <1>1, HeldFacts
<1>4. Sound(pool') /\ Buried(pool.hdr, pool'.hdr, b)
  <2> DEFINE r == [pool EXCEPT !.hdr[b].flags = Tombstone]
  <2>1. Sound(r) /\ Buried(pool.hdr, r.hdr, b)
    BY <1>3, Bury
  <2>2. pool' = r
    BY <1>1
  <2> HIDE DEF r
  <2> QED
    BY <2>1, <2>2, Zenon
<1>5. /\ active \in Actives /\ Slotted(pool.hdr, active) /\ Charged(pool.hdr, allocated, tombstoned)
      /\ Linked(pool.hdr)
  BY <1>2 DEF Good, Sound
<1>6. Charged(pool'.hdr, allocated - pool.hdr[b].bsize, tombstoned + pool.hdr[b].bsize)
  BY <1>4, <1>5, ChargeBury
<1>7. Slotted(pool'.hdr, active)
  BY <1>4, <1>5, SlotsBury
<1>8. Good(pool', active', allocated', tombstoned')
  <2>1. Charged(pool'.hdr, allocated', tombstoned') /\ Slotted(pool'.hdr, active') /\ active' \in Actives
    BY <1>1, <1>5, <1>6, <1>7, Zenon
  <2> QED
    BY <1>4, <2>1 DEF Good
<1>9. Holders(pool'.hdr, held')
  <2>1. Holders(pool'.hdr, [held EXCEPT ![b] = 0])
    BY <1>2, <1>4, HoldersAfter, Zenon
  <2> QED
    BY <1>1, <2>1, Zenon
<1>10. Retires
  <2>1. Lent' = Lent
    BY <1>1, LentIs, Zenon
  <2> QED
    BY <1>1, <1>4, <2>1, Zenon DEF Retires
<1> QED
  BY <1>1, <1>2, <1>8, <1>9, <1>10 DEF IInv

\* A release that is refused.
LEMMA RefuseInv ==
  ASSUME IInv, NEW b \in Units, held[b] > 0, Refuse(b)
  PROVE  IInv' /\ Refuses
<1>1. /\ IsTombstoned(b) /\ held' = [held EXCEPT ![b] = 0] /\ pool' = pool /\ active' = active /\ rotor' = rotor
      /\ allocated' = allocated /\ tombstoned' = tombstoned
  BY Zenon DEF Refuse
<1>2. /\ Good(pool, active, allocated, tombstoned) /\ Holders(pool.hdr, held)
      /\ rotor \in [Classes -> 1 .. 2]
  BY DEF IInv
<1>3. Holders(pool'.hdr, held')
  <2>1. Holders(pool.hdr, [held EXCEPT ![b] = 0])
    BY <1>2, HoldersAfter, Zenon
  <2> QED
    BY <1>1, <2>1, Zenon
<1>4. Good(pool', active', allocated', tombstoned') /\ rotor' \in [Classes -> 1 .. 2]
  BY <1>1, <1>2, Zenon
<1>5. Refuses
  <2>1. Lent' = Lent
    BY <1>1, LentIs, Zenon
  <2> QED
    BY <1>1, <2>1, Zenon DEF Refuses
<1> QED
  BY <1>3, <1>4, <1>5 DEF IInv

\* reallocate hands out the new block, then frees the old one.
LEMMA ReallocateInv ==
  ASSUME IInv, NEW b \in Units, held[b] > 0, NEW n \in Sizes, Reallocate(b, n)
  PROVE  IInv' /\ Moves
<1> DEFINE k == AdjustedBlockSize(n)
           new == FindFree(pool, k)
           t == TrySplit(FlRemove(pool, new), new, k)
           q == [t EXCEPT !.hdr[new].flags = Alloc]
<1>1. /\ Freeable(b) /\ k > 0 /\ new # None
      /\ pool' = CoalesceAndFree(q, b)
      /\ active' = IF "temporal" \in q.hdr[b].flags THEN ClearTemporal(b, q.hdr[b].bsize) ELSE active
      /\ allocated' = allocated + t.hdr[new].bsize - q.hdr[b].bsize
      /\ rotor' = rotor /\ tombstoned' = tombstoned
      /\ held' = [held EXCEPT ![b] = 0, ![new] = n]
  BY Zenon DEF Reallocate, Return
<1>2. /\ Good(pool, active, allocated, tombstoned) /\ Holders(pool.hdr, held)
      /\ rotor \in [Classes -> 1 .. 2]
  BY DEF IInv
<1>3. b \in UsedIn(pool.hdr) /\ Sound(pool) /\ b \notin GoneIn(pool.hdr)
  BY <1>1, HeldFacts
<1>4. Carved(pool, t, q, new, Alloc, n, k)
  <2>1. /\ t = TrySplit(FlRemove(pool, new), new, k) /\ new = FindFree(pool, k)
        /\ k = AdjustedBlockSize(n) /\ Alloc \in {Alloc, Temporal}
        /\ q = [t EXCEPT !.hdr[new].flags = Alloc]
    OBVIOUS
  <2> HIDE DEF t, new, k, q
  <2>2. Carved(pool, t, [t EXCEPT !.hdr[new].flags = Alloc], new, Alloc, n, k)
    BY <1>1, <1>3, <2>1, CarveDoes
  <2> QED
    BY <2>1, <2>2, Zenon
<1> HIDE DEF t, new, k, q
<1>5. /\ Handed(pool, t, q, new, Alloc) /\ new \in Units /\ n \in Nat /\ Fit(q.hdr, new, n)
  BY <1>4 DEF Carved
<1>6. Sound(q) /\ Claimed(pool.hdr, q.hdr, new, Alloc)
  BY <1>5 DEF Handed
<1>7. Good(q, active, allocated + t.hdr[new].bsize, tombstoned)
  BY <1>2, <1>5, GoodClaim
<1>8. GoneIn(q.hdr) = GoneIn(pool.hdr) /\ new \notin UsedIn(pool.hdr)
  BY <1>6, GoneAfter
<1>9. b \in UsedIn(q.hdr) /\ b \notin GoneIn(q.hdr) /\ new # b
  BY <1>3, <1>6, <1>8 DEF Claimed
<1>10. Released(q, pool', b)
  <2>1. Released(q, CoalesceAndFree(q, b), b)
    BY <1>6, <1>9, Coalesce
  <2> QED
    BY <1>1, <2>1, Zenon
<1>11. /\ Good(pool', active', (allocated + t.hdr[new].bsize) - q.hdr[b].bsize, tombstoned)
       /\ InSlots(active') = InSlots(active) \ {b}
  BY <1>1, <1>7, <1>9, <1>10, GoodDrop
<1>12. Good(pool', active', allocated', tombstoned')
  <2>1. allocated' = (allocated + t.hdr[new].bsize) - q.hdr[b].bsize /\ tombstoned' = tombstoned
    <3>1. allocated \in Nat
      BY <1>2, SpanCount DEF Good, Charged
    <3>2. new \in UsedIn(q.hdr) /\ Linked(q.hdr) /\ q.hdr[new].bsize = t.hdr[new].bsize
      BY <1>5, <1>6 DEF Claimed, Sound, Handed
    <3>3. t.hdr[new].bsize \in Nat /\ q.hdr[b].bsize \in Nat
      BY <1>9, <3>2, UsedFacts DEF Classed
    <3> QED
      BY <1>1, <3>1, <3>3
  <2> QED
    BY <1>11, <2>1
<1>13. Dropped(q.hdr, pool'.hdr, b)
  BY <1>10 DEF Released
<1>14. Holders(pool'.hdr, held')
  <2> DEFINE h1 == [held EXCEPT ![new] = n]
  <2>1. Holders(q.hdr, h1)
    BY <1>2, <1>5, <1>6, HoldersAfter, Zenon
  <2>2. [h1 EXCEPT ![b] = 0] = [held EXCEPT ![b] = 0, ![new] = n]
    <3>1. held \in [Units -> Nat]
      BY <1>2 DEF Holders
    <3> QED
      BY <1>5, <1>9, <3>1
  <2> HIDE DEF h1
  <2>3. Holders(pool'.hdr, [h1 EXCEPT ![b] = 0])
    BY <1>13, <2>1, HoldersAfter, Zenon
  <2> QED
    BY <1>1, <2>2, <2>3, Zenon
<1>15. Moves
  <2>1. b \in UsedIn(pool.hdr) \ GoneIn(pool.hdr)
    BY <1>3
  <2>2. Lent' = InSlots(active') /\ Lent = InSlots(active)
    BY LentIs
  <2>3. Lent' = Lent \ {b}
    BY <1>11, <2>2
  <2>4. n > 0
    BY TlsfAssumption
  <2> QED
    BY <1>1, <1>5, <1>6, <1>13, <2>1, <2>3, <2>4, Zenon DEF Moves
<1> QED
  BY <1>1, <1>2, <1>12, <1>14, <1>15 DEF IInv

\* The headers of a new pool.
FirstHdr(H) ==
  /\ H \in [Units -> Headers]
  /\ H[0].bsize = 1 /\ H[0].flags = Alloc
  /\ H[EndSentinel].bsize = 1 /\ H[EndSentinel].flags = Alloc /\ H[EndSentinel].prev = 1
  /\ H[1].bsize = Total /\ H[1].flags = Free /\ H[1].prev = 0
  /\ \A u \in Units : u # 0 /\ u # 1 /\ u # EndSentinel => H[u].bsize = 0 /\ H[u].flags = Free

\* They are a chain without blocks in use.
LEMMA FirstLinked ==
  ASSUME NEW H, FirstHdr(H)
  PROVE  Linked(H) /\ Merged(H) /\ FreeIn(H) = {1} /\ UsedIn(H) = {}
<1> USE DEF FirstHdr
<1>1. /\ Total \in Nat /\ Total >= 2 /\ 0 \in Units /\ 1 \in Units /\ EndSentinel \in Units
      /\ EndSentinel = Total + 1
  BY TlsfAssumption DEF Units, EndSentinel
<1>2. HeadsOf(H) = {0, 1, EndSentinel}
  <2>1. H[0].bsize > 0 /\ H[1].bsize > 0 /\ H[EndSentinel].bsize > 0
    BY <1>1
  <2>2. \A u \in Units : u # 0 /\ u # 1 /\ u # EndSentinel => ~(H[u].bsize > 0)
    OBVIOUS
  <2> HIDE DEF FirstHdr
  <2> QED
    BY <1>1, <2>1, <2>2, Zenon DEF HeadsOf
<1>3. Free # Alloc
  BY DEF Free, Alloc
<1>4. FreeIn(H) = {1} /\ UsedIn(H) = {}
  BY <1>1, <1>2, <1>3 DEF FreeIn, UsedIn
<1>5. NextOf(H, 0) = 1 /\ NextOf(H, 1) = EndSentinel
  BY <1>1 DEF NextOf
<1>6. \A b \in {0, EndSentinel} : H[b].bsize = 1 /\ H[b].flags = Alloc
  OBVIOUS
<1>7. \A b \in HeadsOf(H) : b # 0 /\ b # EndSentinel => H[b].bsize >= MinUnits
  BY <1>1, <1>2 DEF MinUnits
<1>8. \A u \in Units : u \notin HeadsOf(H) => H[u].flags = Free
  BY <1>2
<1>9. \A b \in HeadsOf(H) : b # EndSentinel =>
         /\ NextOf(H, b) \in HeadsOf(H)
         /\ H[NextOf(H, b)].prev = b
         /\ \A u \in HeadsOf(H) : u <= b \/ NextOf(H, b) <= u
  BY <1>1, <1>2, <1>5
<1>10. \A b \in HeadsOf(H) : b # 0 =>
         /\ H[b].prev \in HeadsOf(H) /\ H[b].prev # EndSentinel
         /\ NextOf(H, H[b].prev) = b
  BY <1>1, <1>2, <1>5
<1>11. Linked(H)
  BY <1>6, <1>7, <1>8, <1>9, <1>10 DEF Linked
<1>12. Merged(H)
  BY <1>1, <1>2, <1>4, <1>5 DEF Merged
<1> QED
  BY <1>4, <1>11, <1>12

\* __impl_init_memory makes a sound pool without blocks in use.
LEMMA EmptySound == Sound(EmptyPool) /\ UsedIn(EmptyPool.hdr) = {}
<1> DEFINE sentinel(prev) == [bsize |-> 1, flags |-> Alloc, prev |-> prev]
           G == [u \in Units |-> CASE u = 0 -> sentinel(None)
                                   [] u = EndSentinel -> sentinel(1)
                                   [] u = 1 -> [bsize |-> Total, flags |-> Free, prev |-> 0]
                                   [] OTHER -> Blank]
           p == [hdr |-> G, lists |-> [c \in Classes |-> <<>>], sl |-> {}, fl |-> {}]
           q == FlInsert(p, 1)
<1>1. EmptyPool = q
  BY Zenon DEF EmptyPool
<1>2. /\ Total \in Nat /\ Total >= 2 /\ 0 \in Units /\ 1 \in Units /\ EndSentinel \in Units
      /\ EndSentinel = Total + 1
  BY TlsfAssumption DEF Units, EndSentinel
<1>3. /\ G[0] = sentinel(None) /\ G[EndSentinel] = sentinel(1)
      /\ G[1] = [bsize |-> Total, flags |-> Free, prev |-> 0]
      /\ \A u \in Units : u # 0 /\ u # 1 /\ u # EndSentinel => G[u] = Blank
  BY <1>2
<1>4. \A u \in Units : G[u] \in Headers
  <2>1. /\ sentinel(None) \in Headers /\ sentinel(1) \in Headers
        /\ [bsize |-> Total, flags |-> Free, prev |-> 0] \in Headers
        /\ Blank \in Headers
    BY <1>2 DEF Headers, Blank
  <2> QED
    BY <1>3, <2>1
<1>5. G = [u \in Units |-> G[u]]
  OBVIOUS
<1>6. FirstHdr(G)
  <2>1. G \in [Units -> Headers]
    <3> HIDE DEF G
    <3> QED
      BY <1>4, <1>5
  <2> HIDE DEF G
  <2> QED
    BY <1>2, <1>3, <2>1 DEF FirstHdr, Blank
<1> HIDE DEF G
<1>7. p \in Pools /\ p.hdr = G /\ p.lists = [c \in Classes |-> <<>>] /\ p.sl = {} /\ p.fl = {}
  BY <1>6 DEF Pools, FirstHdr
<1>8. Shelved(p, {})
  <2>1. p.lists \in [Classes -> Seq(Units)]
    BY <1>7 DEF Pools
  <2>2. \A c \in Classes : p.lists[c] = <<>>
    BY <1>7
  <2>3. IsInjective(<<>>) /\ \A b : ~Contains(<<>>, b)
    BY DEF IsInjective, Contains
  <2>4. \A c \in Classes :
          /\ IsInjective(p.lists[c])
          /\ \A b \in Units : Contains(p.lists[c], b) <=> b \in {} /\ MappingInsert(p.hdr[b].bsize) = c
    BY <2>2, <2>3
  <2>5. p.sl = {c \in Classes : p.lists[c] # <<>>} /\ p.fl = {c[1] : c \in p.sl}
    BY <1>7, <2>2
  <2> QED
    BY <2>1, <2>4, <2>5 DEF Shelved
<1>9. Classed(p.hdr, 1)
  BY <1>2, <1>6, <1>7 DEF Classed, FirstHdr, MinUnits
<1> HIDE DEF p
<1>10. Listed(p, q, {}, 1)
  <2>1. q = FlInsert(p, 1) /\ 1 \notin {} /\ {} \in SUBSET Units
    OBVIOUS
  <2> HIDE DEF q
  <2> QED
    BY <1>7, <1>8, <1>9, <2>1, InsertShelved
<1> HIDE DEF q
<1>11. /\ q \in Pools /\ Shelved(q, {1})
       /\ q.hdr[1].bsize = Total /\ q.hdr[1].flags = Free /\ q.hdr[1].prev = 0
       /\ \A u \in Units : u # 1 => q.hdr[u] = G[u]
  BY <1>6, <1>7, <1>10 DEF Listed, FirstHdr
<1>12. FirstHdr(q.hdr)
  <2>1. q.hdr \in [Units -> Headers]
    BY <1>11 DEF Pools
  <2>2. 0 # 1 /\ EndSentinel # 1
    BY <1>2
  <2> QED
    BY <1>2, <1>6, <1>11, <2>1, <2>2 DEF FirstHdr
<1>13. Sound(q) /\ UsedIn(q.hdr) = {}
  <2>1. Linked(q.hdr) /\ Merged(q.hdr) /\ FreeIn(q.hdr) = {1} /\ UsedIn(q.hdr) = {}
    BY <1>12, FirstLinked
  <2> QED
    BY <1>11, <2>1 DEF Sound
<1> QED
  BY <1>1, <1>13

\* The first state.
LEMMA InitInv == Init => IInv
<1> SUFFICES ASSUME Init PROVE IInv
  OBVIOUS
<1>1. /\ pool = EmptyPool /\ active = [c \in Classes |-> <<None, None>>]
      /\ rotor = [c \in Classes |-> 1] /\ allocated = 0 /\ tombstoned = 0
      /\ held = [u \in Units |-> 0]
  BY DEF Init
<1>2. Sound(pool) /\ UsedIn(pool.hdr) = {} /\ GoneIn(pool.hdr) = {}
  BY <1>1, EmptySound DEF GoneIn
<1>3. Charged(pool.hdr, allocated, tombstoned)
  <2>1. SpanIn(pool.hdr, {}) = {}
    BY DEF SpanIn
  <2>2. Cardinality({}) = 0
    BY FS_EmptySet
  <2> QED
    BY <1>1, <1>2, <2>1, <2>2 DEF Charged
<1>4. active \in Actives /\ \A c \in Classes, r \in {1, 2} : active[c][r] = None
  <2>1. <<None, None>> \in [1 .. 2 -> Units \cup {None}] /\ <<None, None>>[1] = None /\ <<None, None>>[2] = None
    OBVIOUS
  <2> QED
    BY <1>1, <2>1 DEF Actives
<1>5. Slotted(pool.hdr, active)
  BY <1>4 DEF Slotted
<1>6. Good(pool, active, allocated, tombstoned)
  BY <1>2, <1>3, <1>4, <1>5 DEF Good
<1>7. Holders(pool.hdr, held) /\ rotor \in [Classes -> 1 .. 2]
  BY <1>1 DEF Holders
<1> QED
  BY <1>6, <1>7 DEF IInv

\* Every step keeps the invariant and is one of seven changes.
LEMMA StepInv ==
  ASSUME IInv, [Next]_vars
  PROVE  IInv' /\ (Takes \/ Lends \/ Gives \/ Retires \/ Moves \/ Refuses \/ Keeps)
<1>1. ASSUME NEW n \in Sizes, Allocate(n) \/ AllocateExact(n) \/ TemporalAgain(n) \/ TemporalFresh(n)
      PROVE  IInv' /\ (Takes \/ Lends)
  BY <1>1, AllocateInv, AllocateExactInv, TemporalAgainInv, TemporalFreshInv
<1>2. ASSUME NEW b \in Units, held[b] > 0, Deallocate(b) \/ TombstoneBlock(b) \/ Refuse(b)
      PROVE  IInv' /\ (Gives \/ Retires \/ Refuses)
  BY <1>2, DeallocateInv, TombstoneInv, RefuseInv
<1>3. ASSUME NEW b \in Units, held[b] > 0, NEW n \in Sizes, Reallocate(b, n)
      PROVE  IInv' /\ Moves
  BY <1>3, ReallocateInv
<1>4. CASE UNCHANGED vars
  <2>1. /\ pool' = pool /\ active' = active /\ rotor' = rotor /\ allocated' = allocated
        /\ tombstoned' = tombstoned /\ held' = held
    BY <1>4 DEF vars
  <2> QED
    BY <2>1 DEF IInv, Keeps, Lent
<1> QED
  BY <1>1, <1>2, <1>3, <1>4 DEF Next

\* The inductive invariant.
LEMMA Invariance == Spec => []IInv
<1>1. IInv /\ [Next]_vars => IInv'
  BY StepInv
<1> QED
  BY <1>1, InitInv, PTL DEF Spec

-----------------------------------------------------------------------------
(* The pool is sound *)

\* The model's words for the pool's headers.
LEMMA PoolWords ==
  /\ Heads(pool) = HeadsOf(pool.hdr) /\ FreeBlocks = FreeIn(pool.hdr) /\ InUse = UsedIn(pool.hdr)
  /\ \A b : NextPhys(pool, b) = NextOf(pool.hdr, b)
  /\ \A b : IsTombstoned(b) <=> "tombstone" \in pool.hdr[b].flags
<1>1. Heads(pool) = HeadsOf(pool.hdr)
  BY Zenon DEF Heads, HeadsOf
<1>2. FreeBlocks = FreeIn(pool.hdr)
  BY <1>1, Zenon DEF FreeBlocks, FreeIn
<1>3. InUse = UsedIn(pool.hdr)
  BY Zenon DEF InUse, UsedIn
<1> QED
  BY <1>1, <1>2, <1>3, Zenon DEF NextPhys, NextOf, IsTombstoned

\* Blocks in use lie in the data region.
LEMMA SpanBound ==
  ASSUME NEW H, Linked(H), NEW S \in SUBSET UsedIn(H)
  PROVE  Cardinality(SpanIn(H, S)) \in 0 .. Total
<1>1. SpanIn(H, S) \subseteq 1 .. Total
  <2> SUFFICES ASSUME NEW u \in SpanIn(H, S)
               PROVE  u \in 1 .. Total
    OBVIOUS
  <2>1. PICK b \in S : b <= u /\ u < NextOf(H, b)
    BY DEF SpanIn
  <2>2. b \in HeadsOf(H) /\ b # 0 /\ b # EndSentinel
    BY UsedFacts
  <2>3. b \in Nat /\ NextOf(H, b) \in Nat /\ NextOf(H, b) <= EndSentinel
    BY <2>2, LinkedAt
  <2>4. u \in Nat /\ EndSentinel = Total + 1 /\ Total \in Nat
    BY UnitFacts DEF SpanIn
  <2> QED
    BY <2>1, <2>2, <2>3, <2>4
<1>2. Total \in Nat
  BY UnitFacts
<1>3. IsFiniteSet(1 .. Total) /\ Cardinality(1 .. Total) = Total
  BY <1>2, FS_Interval
<1>4. Cardinality(SpanIn(H, S)) <= Total /\ Cardinality(SpanIn(H, S)) \in Nat
  BY <1>1, <1>3, FS_Subset, SpanCount
<1> QED
  BY <1>2, <1>4

\* The types.
LEMMA TypeHolds == IInv => TypeOK
<1> SUFFICES ASSUME IInv PROVE TypeOK
  OBVIOUS
<1>1. /\ Sound(pool) /\ active \in Actives /\ Charged(pool.hdr, allocated, tombstoned)
      /\ rotor \in [Classes -> 1 .. 2] /\ held \in [Units -> Nat]
  BY DEF IInv, Good, Holders
<1>2. /\ pool.hdr \in [Units -> Headers] /\ pool.lists \in [Classes -> Seq(Units)]
      /\ pool.sl \subseteq Classes /\ pool.fl \subseteq 0 .. FlCount - 1
  BY <1>1 DEF Sound, Pools
<1>3. allocated \in 0 .. Total /\ tombstoned \in 0 .. Total
  <2>1. UsedIn(pool.hdr) \ GoneIn(pool.hdr) \in SUBSET UsedIn(pool.hdr)
    OBVIOUS
  <2>2. GoneIn(pool.hdr) \in SUBSET UsedIn(pool.hdr)
    BY DEF GoneIn
  <2> QED
    BY <1>1, <2>1, <2>2, SpanBound DEF Charged, Sound
<1> QED
  BY <1>1, <1>2, <1>3 DEF TypeOK, Actives

\* The chain.
LEMMA ChainHolds == IInv => Chain
<1> SUFFICES ASSUME IInv PROVE Chain
  OBVIOUS
<1> DEFINE H == pool.hdr
<1>1. Linked(H) /\ Merged(H)
  BY DEF IInv, Good, Sound
<1> HIDE DEF H
<1>2. \A b \in {0, EndSentinel} : H[b].bsize = 1 /\ H[b].flags = Alloc
  BY <1>1 DEF Linked
<1>3. {0, 1, EndSentinel} \subseteq HeadsOf(H)
  <2>1. 0 \in HeadsOf(H) /\ EndSentinel \in HeadsOf(H) /\ 0 # EndSentinel
    BY <1>2, UnitFacts DEF HeadsOf
  <2>2. NextOf(H, 0) = 1
    BY <1>2 DEF NextOf
  <2>3. NextOf(H, 0) \in HeadsOf(H)
    BY <1>1, <2>1, LinkedAt
  <2> QED
    BY <2>1, <2>2, <2>3
<1>4. ASSUME NEW b \in HeadsOf(H) \ {EndSentinel}
      PROVE  /\ NextOf(H, b) \in HeadsOf(H)
             /\ \A u \in (b + 1) .. (NextOf(H, b) - 1) : u \notin HeadsOf(H)
             /\ H[NextOf(H, b)].prev = b
             /\ ~({b, NextOf(H, b)} \subseteq FreeIn(H))
  <2>1. /\ NextOf(H, b) \in HeadsOf(H) /\ H[NextOf(H, b)].prev = b /\ b \in Nat /\ NextOf(H, b) \in Nat
        /\ \A u \in HeadsOf(H) : u <= b \/ NextOf(H, b) <= u
    BY <1>1, LinkedAt
  <2>2. \A u \in (b + 1) .. (NextOf(H, b) - 1) : u \notin HeadsOf(H)
    BY <2>1
  <2>3. ~({b, NextOf(H, b)} \subseteq FreeIn(H))
    BY <1>1 DEF Merged
  <2> QED
    BY <2>1, <2>2, <2>3
<1> QED
  BY <1>2, <1>3, <1>4, PoolWords DEF Chain, H

\* The lists and the bitmaps.
LEMMA ListsHold == IInv => ListsAgree
<1> SUFFICES ASSUME IInv PROVE ListsAgree
  OBVIOUS
<1>1. Sound(pool)
  BY DEF IInv, Good
<1>2. FreeBlocks = FreeIn(pool.hdr)
  BY PoolWords
<1>3. ASSUME NEW c \in Classes
      PROVE  /\ IsInjective(pool.lists[c])
             /\ ToSet(pool.lists[c]) = {b \in FreeIn(pool.hdr) : MappingInsert(pool.hdr[b].bsize) = c}
  <2> DEFINE s == pool.lists[c]
  <2>1. /\ s \in Seq(Units) /\ IsInjective(s)
        /\ \A b \in Units : Contains(s, b) <=> b \in FreeIn(pool.hdr) /\ MappingInsert(pool.hdr[b].bsize) = c
    BY <1>1 DEF Sound, Shelved
  <2> HIDE DEF s
  <2>2. ToSet(s) \subseteq Units /\ \A b : Contains(s, b) <=> b \in ToSet(s)
    BY <2>1 DEF ToSet, Contains
  <2>3. FreeIn(pool.hdr) \subseteq Units
    BY DEF FreeIn, HeadsOf
  <2>4. ToSet(s) = {b \in FreeIn(pool.hdr) : MappingInsert(pool.hdr[b].bsize) = c}
    BY <2>1, <2>2, <2>3
  <2> QED
    BY <2>1, <2>4 DEF s
<1>4. pool.sl = {c \in Classes : pool.lists[c] # <<>>} /\ pool.fl = {c[1] : c \in pool.sl}
  BY <1>1 DEF Sound, Shelved
<1> QED
  BY <1>2, <1>3, <1>4 DEF ListsAgree

(***************************************************************************)
(* For every pool and every set of sizes, headers, back-links, lists and   *)
(* both bitmaps describe one sequence of blocks in which no two free       *)
(* neighbours are left apart, after any sequence of operations             *)
(* (__doctor_walk's two halves never find anything).                       *)
(***************************************************************************)
THEOREM PoolIsSound == Spec => []PoolSound
<1>1. IInv => PoolSound
  BY TypeHolds, ChainHolds, ListsHold DEF PoolSound
<1> QED
  BY <1>1, Invariance, PTL

(***************************************************************************)
(* used() and tombstoned() of every sheet are the units of the live and of *)
(* the tombstoned blocks, so the arena unmaps a sheet neither too early    *)
(* nor never.                                                              *)
(***************************************************************************)
THEOREM TlsfCountersAreExact == Spec => []CountersExact
<1>1. IInv => CountersExact
  <2> SUFFICES ASSUME IInv PROVE CountersExact
    OBVIOUS
  <2>1. Charged(pool.hdr, allocated, tombstoned)
    BY DEF IInv, Good
  <2>2. {b \in InUse : ~IsTombstoned(b)} = UsedIn(pool.hdr) \ GoneIn(pool.hdr)
    BY PoolWords DEF GoneIn
  <2>3. {b \in InUse : IsTombstoned(b)} = GoneIn(pool.hdr)
    BY PoolWords DEF GoneIn
  <2>4. \A S : UnitsOf(S) = SpanIn(pool.hdr, S)
    BY PoolWords DEF UnitsOf, SpanIn
  <2> QED
    BY <2>1, <2>2, <2>3, <2>4 DEF CountersExact, Charged
<1> QED
  BY <1>1, Invariance, PTL

(***************************************************************************)
(* No temporal slot ever names memory that was freed: the two classes that *)
(* __clear_temporal looks into are enough for every block, whatever the    *)
(* unit, the number of classes and the sizes.                              *)
(***************************************************************************)
THEOREM SlotsAreInUse == Spec => []ActiveInUse
<1>1. IInv => ActiveInUse
  <2> SUFFICES ASSUME IInv PROVE ActiveInUse
    OBVIOUS
  <2>1. Slotted(pool.hdr, active)
    BY DEF IInv, Good
  <2>2. \A c \in Classes, r \in {1, 2} : active[c][r] # None => active[c][r] \in InUse
    BY <2>1, PoolWords DEF Slotted, Serves
  <2>3. \A c \in Classes : None \in {active[c][1], active[c][2]}
    BY <2>1 DEF Slotted
  <2> QED
    BY <2>2, <2>3 DEF ActiveInUse
<1> QED
  BY <1>1, Invariance, PTL

(***************************************************************************)
(* find_free refuses a request only if every free block is smaller than    *)
(* the request rounded up to a multiple of the width of its class, so an   *)
(* exact fit on a class boundary is found; and what it returns is large    *)
(* enough: the two mappings and the two bitmaps fit together for every     *)
(* unit, number of classes and pool.                                       *)
(***************************************************************************)
THEOREM RoomOfAClassIsFound == Spec => []RoomIsFound
<1>1. IInv => RoomIsFound
  <2> SUFFICES ASSUME IInv, NEW n \in Sizes, AdjustedBlockSize(n) > 0
               PROVE  LET needed == AdjustedBlockSize(n)
                          bytes == needed * BlockAlign
                          step == Pow2[Fls(bytes) - SlLog2]
                          rounded == ((bytes + step - 1) \div step) * step
                          b == FindFree(pool, needed)
                      IN IF b = None THEN \A f \in FreeBlocks : pool.hdr[f].bsize * BlockAlign < rounded
                                     ELSE pool.hdr[b].bsize >= needed
    BY Zenon DEF RoomIsFound
  <2> DEFINE k == AdjustedBlockSize(n)
             b == FindFree(pool, k)
  <2>1. Sound(pool)
    BY DEF IInv, Good
  <2>2. Small(k) /\ k \in Nat
    BY Asked
  <2>3. FreeBlocks = FreeIn(pool.hdr)
    BY PoolWords
  <2> HIDE DEF k
  <2>4. ASSUME b = None, NEW f \in FreeIn(pool.hdr)
        PROVE  pool.hdr[f].bsize * BlockAlign < RoundUp(k * BlockAlign)
    BY <2>1, <2>2, <2>4, NoneIsSmall
  <2>5. ASSUME b # None
        PROVE  pool.hdr[b].bsize >= k
    <3>1. k <= pool.hdr[b].bsize /\ Classed(pool.hdr, b)
      BY <2>1, <2>2, <2>5, FoundFits
    <3> QED
      BY <2>2, <3>1 DEF Classed
  <2> QED
    BY <2>3, <2>4, <2>5, Zenon DEF k, RoundUp, Grain
<1> QED
  BY <1>1, Invariance, PTL

-----------------------------------------------------------------------------
(* Grants *)

\* Header H[b] is to have the bytes of every grant.
Firm(H, b) == Narrow \/ H[b].flags = Alloc
Granted(H, h) == \A b \in Units : h[b] > 0 /\ Firm(H, b) => Fit(H, b, h[b])

\* K has the size and the flags of H at the blocks in use other than b.
Others(H, K, b) == \A x \in UsedIn(H) : x # b => K[x].bsize = H[x].bsize /\ K[x].flags = H[x].flags

\* Grants after each change.
LEMMA GrantedAfter ==
  ASSUME NEW H, NEW h, Holders(H, h), Granted(H, h), NEW K, NEW b, NEW n \in Nat,
         Firm(K, b) => Fit(K, b, n), Others(H, K, b)
  PROVE  Granted(K, [h EXCEPT ![b] = n])
<1>1. \A x \in Units : x # b => [h EXCEPT ![b] = n][x] = h[x]
  BY DEF Holders
<1>2. ASSUME NEW x \in Units, x # b, h[x] > 0, Firm(K, x)
      PROVE  Fit(K, x, h[x])
  <2>1. K[x].bsize = H[x].bsize /\ K[x].flags = H[x].flags
    BY <1>2 DEF Holders, Others
  <2>2. Fit(H, x, h[x])
    BY <1>2, <2>1, Zenon DEF Granted, Firm
  <2> QED
    BY <2>1, <2>2, Zenon DEF Fit
<1>3. b \in Units => [h EXCEPT ![b] = n][b] = n
  BY DEF Holders
<1> QED
  BY <1>1, <1>2, <1>3, Zenon DEF Granted

\* A block that is given up grants nothing.
LEMMA GrantedLess ==
  ASSUME NEW H, NEW h, Holders(H, h), Granted(H, h), NEW K, NEW b, Others(H, K, b)
  PROVE  Granted(K, [h EXCEPT ![b] = 0])
<1>1. \A x \in Units : x # b => [h EXCEPT ![b] = 0][x] = h[x]
  BY DEF Holders
<1>2. ASSUME NEW x \in Units, x # b, h[x] > 0, Firm(K, x)
      PROVE  Fit(K, x, h[x])
  <2>1. K[x].bsize = H[x].bsize /\ K[x].flags = H[x].flags
    BY <1>2 DEF Holders, Others
  <2>2. Fit(H, x, h[x])
    BY <1>2, <2>1, Zenon DEF Granted, Firm
  <2> QED
    BY <2>1, <2>2, Zenon DEF Fit
<1>3. b \in Units => ~([h EXCEPT ![b] = 0][b] > 0)
  BY DEF Holders
<1> QED
  BY <1>1, <1>2, <1>3, Zenon DEF Granted

\* Every step keeps the grants.
LEMMA GrantStep ==
  ASSUME IInv, [Next]_vars, Granted(pool.hdr, held)
  PROVE  Granted(pool'.hdr, held')
<1>1. Takes \/ Lends \/ Gives \/ Retires \/ Moves \/ Refuses \/ Keeps
  BY StepInv
<1>2. Holders(pool.hdr, held) /\ held \in [Units -> Nat]
  BY DEF IInv, Holders
<1>3. CASE Takes
  <2>1. PICK b, f, n : /\ Claimed(pool.hdr, pool'.hdr, b, f) /\ n \in Nat /\ Fit(pool'.hdr, b, n)
                       /\ held' = [held EXCEPT ![b] = n]
    BY <1>3, Zenon DEF Takes
  <2>2. Others(pool.hdr, pool'.hdr, b)
    BY <2>1 DEF Claimed, Others
  <2>3. Granted(pool'.hdr, [held EXCEPT ![b] = n])
    BY <1>2, <2>1, <2>2, GrantedAfter
  <2> QED
    BY <2>1, <2>3, Zenon
<1>4. CASE Lends
  <2>1. PICK b, n : /\ b \in UsedIn(pool.hdr) /\ n \in Nat /\ (Narrow => Fit(pool.hdr, b, n))
                    /\ pool.hdr[b].flags # Alloc
                    /\ pool' = pool /\ held' = [held EXCEPT ![b] = Max({@, n})]
    BY <1>4, Zenon DEF Lends
  <2>2. b \in Units /\ held[b] \in Nat
    BY <1>2, <2>1 DEF UsedIn
  <2> DEFINE v == Max({held[b], n})
  <2>3. v \in {held[b], n} /\ \A i \in {held[b], n} : v >= i
    <3>1. \E m \in {held[b], n} : \A i \in {held[b], n} : m >= i
      BY <2>1, <2>2
    <3> QED
      BY <3>1 DEF Max
  <2> HIDE DEF v
  <2>4. v \in Nat
    BY <2>1, <2>2, <2>3
  <2>5. ASSUME Firm(pool.hdr, b)
        PROVE  Fit(pool.hdr, b, v)
    <3>4. Fit(pool.hdr, b, n)
      BY <2>1, <2>5 DEF Firm
    <3>1. CASE v = n
      BY <3>1, <3>4
    <3>2. CASE v = held[b] /\ held[b] > 0
      BY <2>2, <2>5, <3>2 DEF Granted
    <3>3. CASE v = held[b] /\ ~(held[b] > 0)
      <4>1. v = n
        BY <2>1, <2>2, <2>3, <3>3
      <4> QED
        BY <3>4, <4>1
    <3> QED
      BY <2>3, <3>1, <3>2, <3>3
  <2>6. Granted(pool.hdr, [held EXCEPT ![b] = v])
    <3>1. Others(pool.hdr, pool.hdr, b)
      BY DEF Others
    <3> QED
      BY <1>2, <2>4, <2>5, <3>1, GrantedAfter
  <2> QED
    BY <2>1, <2>6, Zenon DEF v
<1>5. CASE Gives
  <2>1. PICK b : Dropped(pool.hdr, pool'.hdr, b) /\ held' = [held EXCEPT ![b] = 0]
    BY <1>5, Zenon DEF Gives
  <2>2. Others(pool.hdr, pool'.hdr, b)
    BY <2>1 DEF Dropped, Others
  <2>3. Granted(pool'.hdr, [held EXCEPT ![b] = 0])
    BY <1>2, <2>1, <2>2, GrantedLess
  <2> QED
    BY <2>1, <2>3, Zenon
<1>6. CASE Retires
  <2>1. PICK b : Buried(pool.hdr, pool'.hdr, b) /\ held' = [held EXCEPT ![b] = 0]
    BY <1>6, Zenon DEF Retires
  <2>2. Others(pool.hdr, pool'.hdr, b)
    BY <2>1 DEF Buried, Others
  <2>3. Granted(pool'.hdr, [held EXCEPT ![b] = 0])
    BY <1>2, <2>1, <2>2, GrantedLess
  <2> QED
    BY <2>1, <2>3, Zenon
<1>7. CASE Moves
  <2>1. PICK q, new, b, n : /\ Sound(q) /\ Claimed(pool.hdr, q.hdr, new, Alloc)
                            /\ Dropped(q.hdr, pool'.hdr, b) /\ b \in UsedIn(pool.hdr) \ GoneIn(pool.hdr)
                            /\ n \in Nat /\ Fit(q.hdr, new, n)
                            /\ held' = [held EXCEPT ![b] = 0, ![new] = n]
    BY <1>7, Zenon DEF Moves
  <2>2. new \notin UsedIn(pool.hdr) /\ new \in Units /\ new # b /\ b \in Units
    BY <2>1 DEF Claimed, FreeIn, HeadsOf, UsedIn
  <2>3. Others(pool.hdr, pool'.hdr, b)
    BY <2>1 DEF Claimed, Dropped, Others
  <2>4. pool'.hdr[new].bsize = q.hdr[new].bsize
    BY <2>1, <2>2 DEF Claimed, Dropped
  <2>5. Fit(pool'.hdr, new, n)
    BY <2>1, <2>4, Zenon DEF Fit
  <2> DEFINE h1 == [held EXCEPT ![b] = 0]
  <2>6. Granted(pool'.hdr, h1)
    BY <1>2, <2>3, GrantedLess
  <2>7. h1 \in [Units -> Nat] /\ [h1 EXCEPT ![new] = n] = [held EXCEPT ![b] = 0, ![new] = n]
    BY <1>2, <2>1, <2>2
  <2> HIDE DEF h1
  <2>8. \A x \in Units : [h1 EXCEPT ![new] = n][x] = IF x = new THEN n ELSE h1[x]
    BY <2>7
  <2>9. Granted(pool'.hdr, [h1 EXCEPT ![new] = n])
    BY <2>5, <2>6, <2>8, Zenon DEF Granted
  <2> QED
    BY <2>1, <2>7, <2>9, Zenon
<1>8. CASE Keeps
  BY <1>8, Zenon DEF Keeps
<1>9. CASE Refuses
  <2>1. PICK b : pool' = pool /\ held' = [held EXCEPT ![b] = 0]
    BY <1>9, Zenon DEF Refuses
  <2>2. Others(pool.hdr, pool.hdr, b)
    BY DEF Others
  <2>3. Granted(pool.hdr, [held EXCEPT ![b] = 0])
    BY <1>2, <2>2, GrantedLess
  <2> QED
    BY <2>1, <2>3, Zenon
<1> QED
  BY <1>1, <1>3, <1>4, <1>5, <1>6, <1>7, <1>8, <1>9

\* The grants of every reachable state.
LEMMA GrantInvariance == Spec => []Granted(pool.hdr, held)
<1>1. Init => Granted(pool.hdr, held)
  BY DEF Init, Granted
<1>2. IInv /\ [Next]_vars /\ Granted(pool.hdr, held) => Granted(pool.hdr, held)'
  BY GrantStep
<1> QED
  BY <1>1, <1>2, Invariance, PTL DEF Spec

(***************************************************************************)
(* A caller may write what it asked for, for every pool, unit and number   *)
(* of classes, if no two sizes that share a search class differ by more    *)
(* than one unit.  The assumption is what the second temporal request at a *)
(* block needs: temporal_allocate does not look at the size of the block   *)
(* that it hands out again, so wider classes do grant too much.            *)
(***************************************************************************)
THEOREM NarrowGrantsFit == ASSUME Narrow PROVE Spec => []GrantFits
<1>1. Granted(pool.hdr, held) => GrantFits
  BY Zenon DEF Granted, Firm, GrantFits, Fit, LenOf
<1> QED
  BY <1>1, GrantInvariance, PTL

(***************************************************************************)
(* Without that assumption, the blocks that allocate, allocate_exact and   *)
(* reallocate hand out always have the bytes that were asked for: only     *)
(* blocks of temporal_allocate are ever granted twice.                     *)
(***************************************************************************)
PlainGrantFits ==
  \A b \in Units : held[b] > 0 /\ pool.hdr[b].flags = Alloc => held[b] <= LenOf(pool, b)
THEOREM PlainGrantsFit == Spec => []PlainGrantFits
<1>1. Granted(pool.hdr, held) => PlainGrantFits
  BY Zenon DEF Granted, Firm, PlainGrantFits, Fit, LenOf
<1> QED
  BY <1>1, GrantInvariance, PTL

-----------------------------------------------------------------------------
(* The TLSF list implements the block store *)

BlockOf(H, b) == [off |-> b, len |-> H[b].bsize]
Image(H, S) == {BlockOf(H, b) : b \in S}

UsedNow == {AsBlock(b) : b \in {u \in InUse : ~IsTombstoned(u)}}
DeadNow == {AsBlock(b) : b \in {u \in InUse : IsTombstoned(u)}}
HeldNow == {u \in Units : held[u] > 0}
Abs == /\ UsedNow = Image(pool.hdr, UsedIn(pool.hdr) \ GoneIn(pool.hdr))
       /\ DeadNow = Image(pool.hdr, GoneIn(pool.hdr))

\* The store's variables, before a step and after it.
LEMMA AbsNow == Abs
<1>1. {u \in InUse : ~IsTombstoned(u)} = UsedIn(pool.hdr) \ GoneIn(pool.hdr)
  BY PoolWords DEF GoneIn
<1>2. {u \in InUse : IsTombstoned(u)} = GoneIn(pool.hdr)
  BY PoolWords DEF GoneIn
<1> QED
  BY <1>1, <1>2, Zenon DEF Abs, UsedNow, DeadNow, Image, BlockOf, AsBlock

\* The store's variables after a step.
LEMMA AbsNext == Abs'
BY AbsNow, PTL

\* Blocks in use do not overlap.
LEMMA BlocksApart ==
  ASSUME NEW H, Linked(H), NEW p \in UsedIn(H), NEW q \in UsedIn(H), p # q
  PROVE  ~Store!Overlap(BlockOf(H, p), BlockOf(H, q))
<1>1. /\ p \in HeadsOf(H) /\ q \in HeadsOf(H) /\ p # EndSentinel /\ q # EndSentinel
  BY UsedFacts
<1>2. /\ p \in Nat /\ q \in Nat /\ NextOf(H, p) \in Nat /\ NextOf(H, q) \in Nat
      /\ q <= p \/ NextOf(H, p) <= q
      /\ p <= q \/ NextOf(H, q) <= p
  BY <1>1, LinkedAt
<1>3. NextOf(H, p) <= q \/ NextOf(H, q) <= p
  BY <1>2
<1>4. ~(p < NextOf(H, q) /\ q < NextOf(H, p))
  BY <1>2, <1>3
<1> QED
  BY <1>4, Zenon DEF Store!Overlap, BlockOf, NextOf

\* A block in use is one of the store's.
LEMMA BlockIsOne ==
  ASSUME NEW H, Linked(H), NEW b \in UsedIn(H)
  PROVE  BlockOf(H, b) \in [off : 1 .. Total, len : MinUnits .. Total]
<1>1. b \in Units /\ b # 0 /\ b # EndSentinel /\ Classed(H, b)
  BY UsedFacts
<1>2. b \in 1 .. Total
  BY <1>1, UnitFacts
<1>3. H[b].bsize \in MinUnits .. Total
  BY <1>1, UnitFacts DEF Classed, MinUnits
<1> QED
  BY <1>2, <1>3 DEF BlockOf

\* Images of blocks that stay what they are.
LEMMA ImageSame ==
  ASSUME NEW H, NEW K, NEW S, \A x \in S : K[x].bsize = H[x].bsize
  PROVE  Image(K, S) = Image(H, S)
<1>1. \A x \in S : BlockOf(K, x) = BlockOf(H, x)
  BY DEF BlockOf
<1> QED
  BY <1>1 DEF Image

\* Images of sets that differ in one block.
LEMMA ImageSteps ==
  ASSUME NEW H, NEW S, NEW b
  PROVE  /\ Image(H, S \cup {b}) = Image(H, S) \cup {BlockOf(H, b)}
         /\ Image(H, S \ {b}) = Image(H, S) \ {BlockOf(H, b)}
         /\ b \in S => BlockOf(H, b) \in Image(H, S)
<1>1. \A x : BlockOf(H, x) = BlockOf(H, b) => x = b
  BY DEF BlockOf
<1> QED
  BY <1>1 DEF Image

\* A block that is added overlaps none of the others.
LEMMA ImageFree ==
  ASSUME NEW H, Linked(H), NEW b \in UsedIn(H), NEW S \in SUBSET UsedIn(H), b \notin S, NEW x \in Image(H, S)
  PROVE  ~Store!Overlap(BlockOf(H, b), x)
<1>1. PICK q \in S : x = BlockOf(H, q)
  BY DEF Image
<1> QED
  BY <1>1, BlocksApart

\* A claimed block as the store sees it.
LEMMA ClaimImage ==
  ASSUME NEW H, NEW K, Linked(K), NEW b, NEW f, Claimed(H, K, b, f),
         NEW U, U = Image(H, UsedIn(H) \ GoneIn(H)), NEW D, D = Image(H, GoneIn(H))
  PROVE  /\ Image(K, UsedIn(K) \ GoneIn(K)) = U \cup {BlockOf(K, b)}
         /\ Image(K, GoneIn(K)) = D
         /\ \A x \in U \cup D : ~Store!Overlap(BlockOf(K, b), x)
         /\ BlockOf(K, b) \in [off : 1 .. Total, len : MinUnits .. Total]
<1> DEFINE L == UsedIn(H) \ GoneIn(H)
           G == GoneIn(H)
<1>1. UsedIn(K) \ GoneIn(K) = L \cup {b} /\ GoneIn(K) = G /\ b \notin UsedIn(H)
  BY GoneAfter
<1>2. UsedIn(K) = UsedIn(H) \cup {b} /\ \A x \in UsedIn(H) : K[x].bsize = H[x].bsize
  BY DEF Claimed
<1>3. L \subseteq UsedIn(H) /\ G \subseteq UsedIn(H)
  BY DEF GoneIn
<1> HIDE DEF L, G
<1>4. Image(K, L) = Image(H, L) /\ Image(K, G) = Image(H, G)
  BY <1>2, <1>3, ImageSame
<1>5. U = Image(K, L) /\ D = Image(K, G)
  BY <1>4 DEF L, G
<1>6. Image(K, L \cup {b}) = Image(K, L) \cup {BlockOf(K, b)}
  BY ImageSteps
<1>7. b \in UsedIn(K) /\ b \notin L /\ b \notin G /\ L \in SUBSET UsedIn(K) /\ G \in SUBSET UsedIn(K)
  BY <1>1, <1>2, <1>3
<1>8. \A x \in Image(K, L) : ~Store!Overlap(BlockOf(K, b), x)
  BY <1>7, ImageFree
<1>9. \A x \in Image(K, G) : ~Store!Overlap(BlockOf(K, b), x)
  BY <1>7, ImageFree
<1>10. BlockOf(K, b) \in [off : 1 .. Total, len : MinUnits .. Total]
  BY <1>7, BlockIsOne
<1> QED
  BY <1>1, <1>5, <1>6, <1>8, <1>9, <1>10

\* The store after block b was freed.
Lost(H, K, b, U, D) ==
  /\ Image(K, UsedIn(K) \ GoneIn(K)) = U \ {BlockOf(H, b)}
  /\ Image(K, GoneIn(K)) = D /\ BlockOf(H, b) \in U

\* A freed block as the store sees it.
LEMMA DropImage ==
  ASSUME NEW H, NEW K, NEW b, Dropped(H, K, b), b \notin GoneIn(H),
         NEW U, U = Image(H, UsedIn(H) \ GoneIn(H)), NEW D, D = Image(H, GoneIn(H))
  PROVE  Lost(H, K, b, U, D)
<1> DEFINE L == UsedIn(H) \ GoneIn(H)
           G == GoneIn(H)
<1>1. UsedIn(K) \ GoneIn(K) = L \ {b} /\ GoneIn(K) = G
  BY GoneAfter
<1>2. b \in UsedIn(H) /\ UsedIn(K) = UsedIn(H) \ {b} /\ \A x \in UsedIn(K) : K[x].bsize = H[x].bsize
  BY DEF Dropped
<1>3. L \ {b} \subseteq UsedIn(K) /\ G \subseteq UsedIn(K) /\ b \in L
  BY <1>2 DEF GoneIn
<1> HIDE DEF L, G
<1>4. Image(K, L \ {b}) = Image(H, L \ {b}) /\ Image(K, G) = Image(H, G)
  BY <1>2, <1>3, ImageSame
<1>5. Image(H, L \ {b}) = Image(H, L) \ {BlockOf(H, b)} /\ BlockOf(H, b) \in Image(H, L)
  BY <1>3, ImageSteps
<1> QED
  BY <1>1, <1>4, <1>5 DEF L, G, Lost

\* A tombstoned block as the store sees it.
LEMMA BuryImage ==
  ASSUME NEW H, NEW K, NEW b, Buried(H, K, b),
         NEW U, U = Image(H, UsedIn(H) \ GoneIn(H)), NEW D, D = Image(H, GoneIn(H))
  PROVE  /\ Image(K, UsedIn(K) \ GoneIn(K)) = U \ {BlockOf(H, b)}
         /\ Image(K, GoneIn(K)) = D \cup {BlockOf(H, b)} /\ BlockOf(H, b) \in U
<1> DEFINE L == UsedIn(H) \ GoneIn(H)
           G == GoneIn(H)
<1>1. UsedIn(K) \ GoneIn(K) = L \ {b} /\ GoneIn(K) = G \cup {b}
  BY GoneAfter
<1>2. b \in UsedIn(H) /\ b \in L /\ \A x \in UsedIn(H) : K[x].bsize = H[x].bsize
  BY DEF Buried
<1>3. L \ {b} \subseteq UsedIn(H) /\ G \cup {b} \subseteq UsedIn(H)
  BY <1>2 DEF GoneIn
<1> HIDE DEF L, G
<1>4. Image(K, L \ {b}) = Image(H, L \ {b}) /\ Image(K, G \cup {b}) = Image(H, G \cup {b})
  BY <1>2, <1>3, ImageSame
<1>5. /\ Image(H, L \ {b}) = Image(H, L) \ {BlockOf(H, b)} /\ BlockOf(H, b) \in Image(H, L)
      /\ Image(H, G \cup {b}) = Image(H, G) \cup {BlockOf(H, b)}
  BY <1>2, ImageSteps
<1> QED
  BY <1>1, <1>4, <1>5 DEF L, G

\* The holders, before a step and after it.
LEMMA HeldIs == HeldNow = HeldIn(held) /\ HeldNow' = HeldIn(held')
BY Zenon DEF HeldNow, HeldIn

\* A block that is given up.
LEMMA HeldDrops ==
  ASSUME IInv, NEW b \in Units, held' = [held EXCEPT ![b] = 0], held[b] > 0
  PROVE  b \in HeldNow /\ HeldNow' = HeldNow \ {b}
<1>1. held \in [Units -> Nat]
  BY DEF IInv, Holders
<1>2. HeldIn([held EXCEPT ![b] = 0]) = HeldIn(held) \ {b}
  BY <1>1, HeldAfter
<1>3. b \in HeldNow
  BY DEF HeldNow
<1> QED
  BY <1>2, <1>3, HeldIs, Zenon

\* Handing a block out takes it.
LEMMA StoreTakes ==
  ASSUME IInv, IInv', Takes
  PROVE  Store!Next
<1>1. PICK b, f, n : /\ Claimed(pool.hdr, pool'.hdr, b, f) /\ n \in Nat /\ n > 0
                     /\ held' = [held EXCEPT ![b] = n]
                     /\ Lent' = Lent \/ Lent' = Lent \cup {b}
  BY Zenon DEF Takes
<1>2. Linked(pool'.hdr)
  BY DEF IInv, Good, Sound
<1>3. /\ UsedNow = Image(pool.hdr, UsedIn(pool.hdr) \ GoneIn(pool.hdr))
      /\ DeadNow = Image(pool.hdr, GoneIn(pool.hdr))
      /\ UsedNow' = Image(pool'.hdr, UsedIn(pool'.hdr) \ GoneIn(pool'.hdr))
      /\ DeadNow' = Image(pool'.hdr, GoneIn(pool'.hdr))
  BY AbsNow, AbsNext DEF Abs
<1>4. PICK x : x = BlockOf(pool'.hdr, b)
  OBVIOUS
<1>5. /\ UsedNow' = UsedNow \cup {x} /\ DeadNow' = DeadNow
      /\ \A c \in UsedNow \cup DeadNow : ~Store!Overlap(x, c)
      /\ x \in [off : 1 .. Total, len : MinUnits .. Total]
  BY <1>1, <1>2, <1>3, <1>4, ClaimImage
<1>6. x.off = b
  BY <1>4 DEF BlockOf
<1>7. HeldNow' = HeldNow \cup {x.off}
  <2>1. b \in Units /\ held \in [Units -> Nat]
    BY <1>1 DEF Claimed, FreeIn, HeadsOf, IInv, Holders
  <2>2. HeldIn([held EXCEPT ![b] = n]) = HeldIn(held) \cup {b}
    BY <1>1, <2>1, HeldAfter
  <2> QED
    BY <1>1, <1>6, <2>2, HeldIs, Zenon
<1>8. Lent' = Lent \/ Lent' = Lent \cup {x.off}
  BY <1>1, <1>6, Zenon
<1>9. Store!Take(x)
  BY <1>5, <1>7, <1>8, Zenon DEF Store!Take, UsedNow, DeadNow, HeldNow
<1> QED
  BY <1>5, <1>9, Zenon DEF Store!Next

\* Taking a block back gives it.
LEMMA StoreGives ==
  ASSUME IInv, Gives
  PROVE  Store!Next
<1>1. PICK b : /\ Dropped(pool.hdr, pool'.hdr, b) /\ b \notin GoneIn(pool.hdr)
               /\ held' = [held EXCEPT ![b] = 0] /\ held[b] > 0 /\ Lent' = Lent \ {b}
  BY Zenon DEF Gives
<1>3. /\ UsedNow = Image(pool.hdr, UsedIn(pool.hdr) \ GoneIn(pool.hdr))
      /\ DeadNow = Image(pool.hdr, GoneIn(pool.hdr))
      /\ UsedNow' = Image(pool'.hdr, UsedIn(pool'.hdr) \ GoneIn(pool'.hdr))
      /\ DeadNow' = Image(pool'.hdr, GoneIn(pool'.hdr))
  BY AbsNow, AbsNext DEF Abs
<1>4. PICK x : x = BlockOf(pool.hdr, b)
  OBVIOUS
<1>5. UsedNow' = UsedNow \ {x} /\ DeadNow' = DeadNow /\ x \in UsedNow
  <2>1. Lost(pool.hdr, pool'.hdr, b, UsedNow, DeadNow)
    BY <1>1, <1>3, DropImage
  <2> QED
    BY <1>3, <1>4, <2>1 DEF Lost
<1>6. x.off = b
  BY <1>4 DEF BlockOf
<1>7. b \in HeldNow /\ HeldNow' = HeldNow \ {b}
  <2>1. b \in Units
    BY <1>1 DEF Dropped, UsedIn
  <2> QED
    BY <1>1, <2>1, HeldDrops
<1>8. Store!Give(x)
  BY <1>1, <1>5, <1>6, <1>7, Zenon DEF Store!Give, UsedNow, DeadNow, HeldNow
<1>9. x \in {AsBlock(u) : u \in {v \in InUse : ~IsTombstoned(v)}}
  BY <1>5, Zenon DEF UsedNow
<1> QED
  BY <1>8, <1>9, Zenon DEF Store!Next

\* Tombstoning a block retires it.
LEMMA StoreRetires ==
  ASSUME IInv, Retires
  PROVE  Store!Next
<1>1. PICK b : /\ Buried(pool.hdr, pool'.hdr, b)
               /\ held' = [held EXCEPT ![b] = 0] /\ held[b] > 0 /\ Lent' = Lent
  BY Zenon DEF Retires
<1>3. /\ UsedNow = Image(pool.hdr, UsedIn(pool.hdr) \ GoneIn(pool.hdr))
      /\ DeadNow = Image(pool.hdr, GoneIn(pool.hdr))
      /\ UsedNow' = Image(pool'.hdr, UsedIn(pool'.hdr) \ GoneIn(pool'.hdr))
      /\ DeadNow' = Image(pool'.hdr, GoneIn(pool'.hdr))
  BY AbsNow, AbsNext DEF Abs
<1>4. PICK x : x = BlockOf(pool.hdr, b)
  OBVIOUS
<1>5. UsedNow' = UsedNow \ {x} /\ DeadNow' = DeadNow \cup {x} /\ x \in UsedNow
  BY <1>1, <1>3, <1>4, BuryImage
<1>6. x.off = b
  BY <1>4 DEF BlockOf
<1>7. b \in HeldNow /\ HeldNow' = HeldNow \ {b}
  <2>1. b \in Units
    BY <1>1 DEF Buried, UsedIn
  <2> QED
    BY <1>1, <2>1, HeldDrops
<1>8. Store!Retire(x)
  BY <1>1, <1>5, <1>6, <1>7, Zenon DEF Store!Retire, UsedNow, DeadNow, HeldNow
<1>9. x \in {AsBlock(u) : u \in {v \in InUse : ~IsTombstoned(v)}}
  BY <1>5, Zenon DEF UsedNow
<1> QED
  BY <1>8, <1>9, Zenon DEF Store!Next

\* reallocate moves a block.
LEMMA StoreMoves ==
  ASSUME IInv, Moves
  PROVE  Store!Next
<1>1. PICK q, new, b, n :
        /\ Sound(q) /\ Claimed(pool.hdr, q.hdr, new, Alloc)
        /\ Dropped(q.hdr, pool'.hdr, b) /\ b \in UsedIn(pool.hdr) \ GoneIn(pool.hdr)
        /\ n \in Nat /\ n > 0 /\ held' = [held EXCEPT ![b] = 0, ![new] = n]
        /\ held[b] > 0 /\ Lent' = Lent \ {b}
  BY Zenon DEF Moves
<1>2. Linked(q.hdr)
  BY <1>1 DEF Sound
<1>3. /\ UsedNow = Image(pool.hdr, UsedIn(pool.hdr) \ GoneIn(pool.hdr))
      /\ DeadNow = Image(pool.hdr, GoneIn(pool.hdr))
      /\ UsedNow' = Image(pool'.hdr, UsedIn(pool'.hdr) \ GoneIn(pool'.hdr))
      /\ DeadNow' = Image(pool'.hdr, GoneIn(pool'.hdr))
  BY AbsNow, AbsNext DEF Abs
<1>4. PICK c : c = BlockOf(q.hdr, new)
  OBVIOUS
<1>5. PICK x : x = BlockOf(q.hdr, b)
  OBVIOUS
<1>6. /\ Image(q.hdr, UsedIn(q.hdr) \ GoneIn(q.hdr)) = UsedNow \cup {c}
      /\ Image(q.hdr, GoneIn(q.hdr)) = DeadNow
      /\ \A y \in UsedNow \cup DeadNow : ~Store!Overlap(c, y)
      /\ c \in [off : 1 .. Total, len : MinUnits .. Total]
  BY <1>1, <1>2, <1>3, <1>4, ClaimImage
<1>7. b \notin GoneIn(q.hdr) /\ new # b
  <2>1. GoneIn(q.hdr) = GoneIn(pool.hdr) /\ new \notin UsedIn(pool.hdr)
    BY <1>1, GoneAfter
  <2> QED
    BY <1>1, <2>1
<1>8. UsedNow' = (UsedNow \cup {c}) \ {x} /\ DeadNow' = DeadNow /\ x \in UsedNow \cup {c}
  <2>1. PICK U, D : U = UsedNow \cup {c} /\ D = DeadNow
    OBVIOUS
  <2>2. U = Image(q.hdr, UsedIn(q.hdr) \ GoneIn(q.hdr)) /\ D = Image(q.hdr, GoneIn(q.hdr))
    BY <1>6, <2>1
  <2>3. /\ Image(pool'.hdr, UsedIn(pool'.hdr) \ GoneIn(pool'.hdr)) = U \ {BlockOf(q.hdr, b)}
        /\ Image(pool'.hdr, GoneIn(pool'.hdr)) = D /\ BlockOf(q.hdr, b) \in U
    <3>1. Lost(q.hdr, pool'.hdr, b, U, D)
      BY <1>1, <1>7, <2>2, DropImage
    <3> QED
      BY <3>1 DEF Lost
  <2> QED
    BY <1>3, <1>5, <2>1, <2>3
<1>9. x # c
  BY <1>4, <1>5, <1>7 DEF BlockOf
<1>10. UsedNow' = (UsedNow \ {x}) \cup {c} /\ x \in UsedNow
  BY <1>8, <1>9
<1>13. x.off = b /\ c.off = new
  BY <1>4, <1>5 DEF BlockOf
<1>14. b \in HeldNow /\ HeldNow' = (HeldNow \ {b}) \cup {new}
  <2>1. b \in Units /\ new \in Units /\ held \in [Units -> Nat]
    BY <1>1 DEF Claimed, FreeIn, HeadsOf, UsedIn, IInv, Holders
  <2>2. b \in HeldNow
    BY <1>1, <2>1 DEF HeldNow
  <2>3. \A u \in Units : held'[u] = IF u = new THEN n ELSE IF u = b THEN 0 ELSE held[u]
    BY <1>1, <2>1
  <2>4. HeldNow' = (HeldNow \ {b}) \cup {new}
    BY <1>1, <1>7, <2>1, <2>3 DEF HeldNow
  <2> QED
    BY <2>2, <2>4
<1>11. Store!Move(x, c)
  BY <1>1, <1>6, <1>8, <1>10, <1>13, <1>14, Zenon DEF Store!Move, UsedNow, DeadNow, HeldNow
<1>12. x \in {AsBlock(u) : u \in {v \in InUse : ~IsTombstoned(v)}}
  BY <1>10, Zenon DEF UsedNow
<1> QED
  BY <1>6, <1>11, <1>12, Zenon DEF Store!Next

\* Handing an active block out again, and refusing the release of a tombstoned one.
LEMMA StoreKeeps ==
  ASSUME IInv, Lends \/ Refuses
  PROVE  Store!Next
<1>1. pool' = pool /\ Lent' = Lent
  BY Zenon DEF Lends, Refuses
<1>2. UsedNow' = UsedNow /\ DeadNow' = DeadNow
  BY <1>1, AbsNow, AbsNext DEF Abs
<1>3. held \in [Units -> Nat]
  BY DEF IInv, Holders
<1>4. CASE Lends
  <2>1. PICK u, n : /\ u \in UsedIn(pool.hdr) /\ n \in Nat /\ n > 0 /\ u \in Lent
                    /\ held' = [held EXCEPT ![u] = Max({@, n})]
    BY <1>4, Zenon DEF Lends
  <2>2. u \in Units
    BY <2>1 DEF UsedIn
  <2>3. HeldIn([held EXCEPT ![u] = Max({@, n})]) = HeldIn(held) \cup {u}
    BY <1>3, <2>1, <2>2, HeldAfter
  <2>4. HeldNow' = HeldNow \cup {u}
    BY <2>1, <2>3, HeldIs, Zenon
  <2>5. Store!Again(u)
    BY <1>1, <1>2, <2>1, <2>4, Zenon DEF Store!Again, UsedNow, DeadNow, HeldNow
  <2> QED
    BY <2>1, <2>5, Zenon DEF Store!Next
<1>5. CASE Refuses
  <2>1. PICK u \in Units : held' = [held EXCEPT ![u] = 0] /\ held[u] > 0 /\ IsTombstoned(u)
    BY <1>5, Zenon DEF Refuses
  <2>2. u \in HeldNow /\ HeldNow' = HeldNow \ {u}
    BY <2>1, HeldDrops
  <2>3. \A x \in UsedNow : x.off # u
    BY <2>1 DEF UsedNow, AsBlock
  <2>4. Store!Refuse(u)
    BY <1>1, <1>2, <2>2, <2>3, Zenon DEF Store!Refuse, UsedNow, DeadNow, HeldNow
  <2>5. u \in {v \in Units : held[v] > 0}
    BY <2>2, Zenon DEF HeldNow
  <2> QED
    BY <2>4, <2>5, Zenon DEF Store!Next
<1> QED
  BY <1>4, <1>5

\* The first state is the store's.
LEMMA StoreInit == Init => Store!Init
<1> SUFFICES ASSUME Init
             PROVE  UsedNow = {} /\ DeadNow = {} /\ HeldNow = {} /\ Lent = {}
  BY Zenon DEF Store!Init, UsedNow, DeadNow, HeldNow
<1>1. UsedIn(pool.hdr) = {} /\ GoneIn(pool.hdr) = {}
  BY EmptySound DEF Init, GoneIn
<1>2. Image(pool.hdr, {}) = {}
  BY DEF Image
<1>3. HeldNow = {}
  BY DEF Init, HeldNow
<1>4. Lent = {}
  <2>1. \A c \in Classes, r \in 1 .. 2 : active[c][r] = None
    BY DEF Init
  <2> QED
    BY <2>1 DEF Lent
<1> QED
  BY <1>1, <1>2, <1>3, <1>4, AbsNow DEF Abs

\* Every step is one of the store, or changes nothing of it.
LEMMA StoreStep ==
  ASSUME IInv, [Next]_vars
  PROVE  [Store!Next]_<<UsedNow, DeadNow, HeldNow, Lent>>
<1>1. IInv' /\ (Takes \/ Lends \/ Gives \/ Retires \/ Moves \/ Refuses \/ Keeps)
  BY StepInv
<1>2. CASE Takes
  BY <1>1, <1>2, StoreTakes
<1>3. CASE Gives
  BY <1>3, StoreGives
<1>4. CASE Retires
  BY <1>4, StoreRetires
<1>5. CASE Moves
  BY <1>5, StoreMoves
<1>6. CASE Lends \/ Refuses
  BY <1>6, StoreKeeps
<1>7. CASE Keeps
  <2>1. pool' = pool /\ held' = held /\ Lent' = Lent
    BY <1>7, Zenon DEF Keeps
  <2>2. UsedNow' = UsedNow /\ DeadNow' = DeadNow
    BY <2>1, AbsNow, AbsNext DEF Abs
  <2>3. HeldNow' = HeldNow
    BY <2>1, HeldIs, Zenon
  <2> QED
    BY <2>1, <2>2, <2>3
<1> QED
  BY <1>1, <1>2, <1>3, <1>4, <1>5, <1>6, <1>7

(***************************************************************************)
(* For every pool, unit and set of sizes, the TLSF list is a block store:  *)
(* whatever order the operations come in, a block that allocate,           *)
(* allocate_exact, temporal_allocate or reallocate takes off the lists     *)
(* overlaps no block in use and no tombstoned one, a release gives back    *)
(* exactly its block, and only blocks of the temporal slots are handed out *)
(* a second time.  Such a block may be a tombstoned one: tombstone leaves  *)
(* it in its slot.                                                         *)
(***************************************************************************)
THEOREM TlsfImplementsStore == Spec => ImplementsStore
<1>1. IInv /\ [Next]_vars => [Store!Next]_<<UsedNow, DeadNow, HeldNow, Lent>>
  BY StoreStep
<1> QED
  BY <1>1, StoreInit, Invariance, PTL
     DEF Spec, ImplementsStore, Store!Spec, Store!vars, UsedNow, DeadNow, HeldNow

(***************************************************************************)
(* Whoever holds a block that is not in use got it from launder: a block   *)
(* that allocate, allocate_exact or reallocate handed out is never held    *)
(* again once it is tombstoned.                                            *)
(***************************************************************************)
THEOREM RetiredPlainStaysGone == Spec => []Store!Kept
<1>1. Store!Init => Store!Kept
  BY Zenon DEF Store!Init, Store!Kept
<1>2. Store!Kept /\ [Store!Next]_<<UsedNow, DeadNow, HeldNow, Lent>> => Store!Kept'
  <2> DEFINE Bs == [off : 1 .. Total, len : MinUnits .. Total]
  <2> SUFFICES ASSUME Store!Kept, [Store!Next]_<<UsedNow, DeadNow, HeldNow, Lent>>,
                      NEW u \in HeldNow'
               PROVE  u \in Lent' \/ \E b \in UsedNow' : b.off = u
    BY Zenon DEF Store!Kept, UsedNow, HeldNow
  <2>1. u \in HeldNow => u \in Lent \/ \E b \in UsedNow : b.off = u
    BY Zenon DEF Store!Kept, UsedNow, HeldNow
  <2>2. CASE UNCHANGED <<UsedNow, DeadNow, HeldNow, Lent>>
    BY <2>1, <2>2
  <2>3. CASE \E b \in Bs : Store!Take(b)
    <3>1. PICK b : /\ UsedNow' = UsedNow \cup {b} /\ HeldNow' = HeldNow \cup {b.off}
                   /\ Lent' = Lent \/ Lent' = Lent \cup {b.off}
      BY <2>3, Zenon DEF Store!Take, UsedNow, HeldNow
    <3> QED
      BY <2>1, <3>1
  <2>4. CASE \E v \in Lent : Store!Again(v)
    <3>1. PICK v \in Lent : HeldNow' = HeldNow \cup {v} /\ UsedNow' = UsedNow /\ Lent' = Lent
      BY <2>4, Zenon DEF Store!Again, UsedNow, HeldNow
    <3> QED
      BY <2>1, <3>1
  <2>5. CASE \E v \in HeldNow : Store!Refuse(v)
    <3>1. PICK v : HeldNow' = HeldNow \ {v} /\ UsedNow' = UsedNow /\ Lent' = Lent
      BY <2>5, Zenon DEF Store!Refuse, UsedNow, HeldNow
    <3> QED
      BY <2>1, <3>1
  <2>6. CASE \E b \in UsedNow : Store!Give(b)
    <3>1. PICK b : /\ HeldNow' = HeldNow \ {b.off} /\ UsedNow' = UsedNow \ {b}
                   /\ Lent' = Lent \ {b.off}
      BY <2>6, Zenon DEF Store!Give, UsedNow, HeldNow
    <3> QED
      BY <2>1, <3>1
  <2>7. CASE \E b \in UsedNow : Store!Retire(b)
    <3>1. PICK b : HeldNow' = HeldNow \ {b.off} /\ UsedNow' = UsedNow \ {b} /\ Lent' = Lent
      BY <2>7, Zenon DEF Store!Retire, UsedNow, HeldNow
    <3> QED
      BY <2>1, <3>1
  <2>8. CASE \E b \in UsedNow : \E c \in Bs : Store!Move(b, c)
    <3>1. PICK b, c : /\ HeldNow' = (HeldNow \ {b.off}) \cup {c.off}
                      /\ UsedNow' = (UsedNow \ {b}) \cup {c} /\ Lent' = Lent \ {b.off}
      BY <2>8, Zenon DEF Store!Move, UsedNow, HeldNow
    <3> QED
      BY <2>1, <3>1
  <2>9. \/ UNCHANGED <<UsedNow, DeadNow, HeldNow, Lent>>
        \/ \E b \in Bs : Store!Take(b)
        \/ \E v \in Lent : Store!Again(v)
        \/ \E v \in HeldNow : Store!Refuse(v)
        \/ \E b \in UsedNow : Store!Give(b) \/ Store!Retire(b) \/ \E c \in Bs : Store!Move(b, c)
    BY Zenon DEF Store!Next, UsedNow, HeldNow
  <2> QED
    BY <2>2, <2>3, <2>4, <2>5, <2>6, <2>7, <2>8, <2>9, Zenon
<1>3. IInv /\ [Next]_vars => [Store!Next]_<<UsedNow, DeadNow, HeldNow, Lent>>
  BY StoreStep
<1> QED
  BY <1>1, <1>2, <1>3, StoreInit, Invariance, PTL DEF Spec

-----------------------------------------------------------------------------
(* The doctor's walk *)

\* q is p except for back-links of blocks and bits.
Damaged(p, q) ==
  /\ q \in Pools /\ q.lists = p.lists
  /\ \A u \in Units : q.hdr[u].bsize = p.hdr[u].bsize /\ q.hdr[u].flags = p.hdr[u].flags
  /\ \A u \in Units : u \in HeadsOf(p.hdr) \ {0, EndSentinel} \/ q.hdr[u].prev = p.hdr[u].prev

\* A header is its three fields.
LEMMA HeaderIs ==
  ASSUME NEW h \in Headers, NEW v \in Units \cup {None}
  PROVE  /\ h = [bsize |-> h.bsize, flags |-> h.flags, prev |-> h.prev]
         /\ [h EXCEPT !.prev = v] = [bsize |-> h.bsize, flags |-> h.flags, prev |-> v]
BY DEF Headers

\* The walk finds the predecessor of a block.
LEMMA WalkFinds ==
  ASSUME NEW H, Linked(H), NEW u \in HeadsOf(H), u # 0, u # EndSentinel
  PROVE  (CHOOSE b \in HeadsOf(H) : NextOf(H, b) = u) = H[u].prev
<1>1. H[u].prev \in HeadsOf(H) /\ NextOf(H, H[u].prev) = u
  BY DEF Linked
<1>2. ASSUME NEW b \in HeadsOf(H), NextOf(H, b) = u
      PROVE  b = H[u].prev
  <2>1. b # EndSentinel
    <3> SUFFICES ASSUME b = EndSentinel PROVE FALSE
      OBVIOUS
    <3>1. H[b].bsize = 1
      BY DEF Linked
    <3>2. u = EndSentinel + 1
      BY <1>2, <3>1 DEF NextOf
    <3>3. u \in Nat /\ u <= EndSentinel /\ EndSentinel \in Nat
      BY LinkedAt, UnitFacts
    <3> QED
      BY <3>2, <3>3
  <2> QED
    BY <1>2, <2>1, LinkedAt
<1> QED
  BY <1>1, <1>2

\* The walk puts back what was damaged.
LEMMA WalkMends ==
  ASSUME NEW p, Sound(p), NEW q, Damaged(p, q)
  PROVE  DoctorWalk(q) = p
<1> DEFINE H == p.hdr
           K == q.hdr
           G == [u \in Units |-> IF u \in Heads(q) \ {0, EndSentinel}
                                 THEN [q.hdr[u] EXCEPT !.prev = CHOOSE b \in Heads(q) : NextPhys(q, b) = u]
                                 ELSE q.hdr[u]]
           sl == {c \in Classes : q.lists[c] # <<>>}
           fl == {c[1] : c \in sl}
<1>1. DoctorWalk(q) = [q EXCEPT !.hdr = G, !.sl = sl, !.fl = fl]
  BY Zenon DEF DoctorWalk
<1>2. /\ p \in Pools /\ Linked(H) /\ p.sl = {c \in Classes : p.lists[c] # <<>>} /\ p.fl = {c[1] : c \in p.sl}
  BY DEF Sound, Shelved
<1>3. q \in Pools /\ q.lists = p.lists
  BY DEF Damaged
<1>4. H \in [Units -> Headers] /\ K \in [Units -> Headers]
  BY <1>2, <1>3 DEF Pools
<1>5. sl = p.sl /\ fl = p.fl
  BY <1>2, <1>3
<1> HIDE DEF sl, fl
<1>6. Heads(q) = HeadsOf(H)
  BY Zenon DEF Heads, HeadsOf, Damaged
<1>7. \A b \in HeadsOf(H) : NextPhys(q, b) = NextOf(H, b)
  BY DEF NextPhys, NextOf, Damaged, HeadsOf
<1>8. ASSUME NEW u \in HeadsOf(H) \ {0, EndSentinel}
      PROVE  (CHOOSE b \in Heads(q) : NextPhys(q, b) = u) = H[u].prev
  <2>1. (CHOOSE b \in HeadsOf(H) : NextPhys(q, b) = u) = (CHOOSE b \in HeadsOf(H) : NextOf(H, b) = u)
    <3>1. \A b : b \in HeadsOf(H) /\ NextPhys(q, b) = u <=> b \in HeadsOf(H) /\ NextOf(H, b) = u
      BY <1>7
    <3> QED
      BY <3>1, Zenon
  <2>2. (CHOOSE b \in HeadsOf(H) : NextOf(H, b) = u) = H[u].prev
    BY <1>2, WalkFinds
  <2> QED
    BY <1>6, <2>1, <2>2, Zenon
<1>9. ASSUME NEW u \in Units
      PROVE  G[u] = H[u]
  <2>1. H[u] \in Headers /\ K[u] \in Headers /\ H[u].prev \in Units \cup {None}
    BY <1>4 DEF Headers
  <2>2. K[u].bsize = H[u].bsize /\ K[u].flags = H[u].flags
    BY DEF Damaged
  <2>3. CASE u \in HeadsOf(H) \ {0, EndSentinel}
    <3>1. G[u] = [K[u] EXCEPT !.prev = CHOOSE b \in Heads(q) : NextPhys(q, b) = u]
      BY <1>6, <2>3, Zenon
    <3>2. G[u] = [K[u] EXCEPT !.prev = H[u].prev]
      BY <1>8, <2>3, <3>1, Zenon
    <3> HIDE DEF G, K, H
    <3>3. [K[u] EXCEPT !.prev = H[u].prev] = [bsize |-> K[u].bsize, flags |-> K[u].flags, prev |-> H[u].prev]
      BY <2>1, HeaderIs
    <3>4. H[u] = [bsize |-> H[u].bsize, flags |-> H[u].flags, prev |-> H[u].prev]
      BY <2>1, HeaderIs
    <3> QED
      BY <2>2, <3>2, <3>3, <3>4, Zenon
  <2>4. CASE u \notin HeadsOf(H) \ {0, EndSentinel}
    <3>1. G[u] = K[u]
      BY <1>6, <2>4, Zenon
    <3>2. K[u].prev = H[u].prev
      BY <2>4 DEF Damaged
    <3> HIDE DEF G, K, H
    <3>3. K[u] = [bsize |-> K[u].bsize, flags |-> K[u].flags, prev |-> K[u].prev]
      BY <2>1, HeaderIs
    <3>4. H[u] = [bsize |-> H[u].bsize, flags |-> H[u].flags, prev |-> H[u].prev]
      BY <2>1, HeaderIs
    <3> QED
      BY <2>2, <3>1, <3>2, <3>3, <3>4, Zenon
  <2> QED
    BY <2>3, <2>4
<1>10. G = H
  <2>1. G = [u \in Units |-> G[u]]
    OBVIOUS
  <2>2. H = [u \in Units |-> H[u]]
    BY <1>4
  <2> HIDE DEF G, H
  <2> QED
    BY <1>9, <2>1, <2>2, Zenon
<1> HIDE DEF G
<1>11. [q EXCEPT !.hdr = p.hdr, !.sl = p.sl, !.fl = p.fl] = p
  BY <1>2, <1>3 DEF Pools
<1> QED
  BY <1>1, <1>5, <1>10, <1>11, Zenon

\* A bit that was flipped.
LEMMA BitDamage ==
  ASSUME NEW p, Sound(p), NEW c \in Classes, NEW S, NEW R,
         S \in SUBSET Classes, R \in SUBSET (0 .. FlCount - 1)
  PROVE  Damaged(p, [p EXCEPT !.sl = S]) /\ Damaged(p, [p EXCEPT !.fl = R])
<1>1. p \in Pools
  BY DEF Sound
<1>2. [p EXCEPT !.sl = S] \in Pools /\ [p EXCEPT !.fl = R] \in Pools
  BY <1>1 DEF Pools
<1>3. /\ [p EXCEPT !.sl = S].hdr = p.hdr /\ [p EXCEPT !.sl = S].lists = p.lists
      /\ [p EXCEPT !.fl = R].hdr = p.hdr /\ [p EXCEPT !.fl = R].lists = p.lists
  BY <1>1 DEF Pools
<1> QED
  BY <1>2, <1>3, Zenon DEF Damaged

(***************************************************************************)
(* Whatever the pool went through, the walk of a rescue build changes      *)
(* nothing in it, and undoes any single damage to a back-link of a block   *)
(* or to a bit of either bitmap: it never repairs a sound pool into a      *)
(* broken one.                                                             *)
(***************************************************************************)
THEOREM WalkAlwaysRestores == Spec => []WalkRestores
<1>1. IInv => WalkRestores
  <2> SUFFICES ASSUME IInv PROVE WalkRestores
    OBVIOUS
  <2> DEFINE flip(S, x) == (S \ {x}) \cup ({x} \ S)
  <2>1. Sound(pool)
    BY DEF IInv, Good
  <2>2. pool \in Pools
    BY <2>1 DEF Sound
  <2>3. DoctorWalk(pool) = pool
    <3>1. Damaged(pool, pool)
      BY <2>2 DEF Damaged
    <3> QED
      BY <2>1, <3>1, WalkMends
  <2>4. ASSUME NEW b \in Heads(pool) \ {0, EndSentinel}, NEW u \in Units
        PROVE  DoctorWalk([pool EXCEPT !.hdr[b].prev = u]) = pool
    <3>1. b \in HeadsOf(pool.hdr) \ {0, EndSentinel} /\ b \in Units /\ u \in Units
      BY PoolWords, UnitFacts DEF HeadsOf
    <3>2. Relinked(pool, [pool EXCEPT !.hdr[b].prev = u], b, u)
      BY <2>2, <3>1, LinkPool
    <3>3. Damaged(pool, [pool EXCEPT !.hdr[b].prev = u])
      <4> DEFINE r == [pool EXCEPT !.hdr[b].prev = u]
      <4>1. Relinked(pool, r, b, u)
        BY <3>2
      <4> HIDE DEF r
      <4>2. Damaged(pool, r)
        BY <3>1, <4>1 DEF Relinked, Damaged
      <4> QED
        BY <4>2 DEF r
    <3> QED
      BY <2>1, <3>3, WalkMends
  <2>5. ASSUME NEW c \in Classes
        PROVE  /\ DoctorWalk([pool EXCEPT !.sl = flip(@, c)]) = pool
               /\ DoctorWalk([pool EXCEPT !.fl = flip(@, c[1])]) = pool
    <3>1. c[1] \in 0 .. FlCount - 1
      BY RowFacts
    <3>2. pool.sl \in SUBSET Classes /\ pool.fl \in SUBSET (0 .. FlCount - 1)
      BY <2>2 DEF Pools
    <3>3. flip(pool.sl, c) \in SUBSET Classes /\ flip(pool.fl, c[1]) \in SUBSET (0 .. FlCount - 1)
      BY <3>1, <3>2
    <3> HIDE DEF flip
    <3>4. Damaged(pool, [pool EXCEPT !.sl = flip(pool.sl, c)]) /\ Damaged(pool, [pool EXCEPT !.fl = flip(pool.fl, c[1])])
      BY <2>1, <3>3, BitDamage
    <3> QED
      BY <2>1, <3>4, WalkMends
  <2> QED
    BY <2>3, <2>4, <2>5, Zenon DEF WalkRestores
<1> QED
  BY <1>1, Invariance, PTL

=============================================================================
