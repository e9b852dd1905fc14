-------------------------- MODULE BuddyListProofs --------------------------
(***************************************************************************)
(* Proofs about BuddyList: the tiling of a sheet, the agreement of its     *)
(* tables, the counters, and the block store it implements, for every      *)
(* sheet size, number of orders and cache depth.                           *)
(*                                                                         *)
(* A block is a pair <<offset, order>>.  The invariant IInv says that      *)
(* listed, cached and used blocks partition the sheet into aligned blocks  *)
(* that lists, mask and tags agree on (Sound), that no two free buddies    *)
(* are left apart (Apart), that a used block's header is its own           *)
(* (Headers), that the temporal slots name exactly the temporal blocks     *)
(* (Ring), and that the counters count units (Charged).                    *)
(***************************************************************************)
EXTENDS BuddyList, FiniteSetTheorems, SequenceTheorems, WellFoundedInduction, TLAPS

-----------------------------------------------------------------------------
(* Numbers *)

\* A nonempty set of natural numbers has a smallest member.
LEMMA HasSmallest ==
  ASSUME NEW S \in SUBSET Nat, S # {}
  PROVE  \E h \in S : \A i \in S : h <= i
<1> DEFINE R == OpToRel(<, Nat)
<1>1. IsWellFoundedOn(R, Nat)
  BY NatLessThanWellFounded
<1>2. PICK x \in S : \A y \in S : ~(<<y, x>> \in R)
  <2> HIDE DEF R
  <2> QED
    BY <1>1, WFMin
<1>3. ASSUME NEW y \in S
      PROVE  x <= y
  <2>1. x \in Nat /\ y \in Nat
    OBVIOUS
  <2>2. ~(y < x)
    BY <1>2, <2>1 DEF OpToRel
  <2> QED
    BY <2>1, <2>2
<1> QED
  BY <1>3

\* A function on 0 .. N that doubles from 1.
Doubles(N, h) == /\ h \in [0 .. N -> Nat]
                 /\ h[0] = 1
                 /\ \A n \in 1 .. N : h[n] = 2 * h[n - 1]

\* Doubling functions exist on every initial segment of the naturals.
LEMMA DoublingExists ==
  ASSUME NEW N \in Nat
  PROVE  \E h : Doubles(N, h)
<1> SUFFICES ASSUME \A h : ~Doubles(N, h)
             PROVE  FALSE
  OBVIOUS
<1> DEFINE S == {n \in Nat : \A h : ~Doubles(n, h)}
<1>1. PICK m \in S : \A i \in S : m <= i
  <2>1. S \in SUBSET Nat /\ N \in S
    OBVIOUS
  <2> HIDE DEF S
  <2> QED
    BY <2>1, HasSmallest
<1>2. m # 0
  <2> SUFFICES ASSUME m = 0 PROVE FALSE
    OBVIOUS
  <2>1. Doubles(0, [i \in 0 .. 0 |-> 1])
    BY DEF Doubles
  <2> QED
    BY <2>1
<1>3. PICK h : Doubles(m - 1, h)
  <2>1. m - 1 \in Nat /\ ~(m <= m - 1)
    BY <1>2
  <2> QED
    BY <1>1, <2>1
<1> DEFINE g == [i \in 0 .. m |-> IF i = m THEN 2 * h[m - 1] ELSE h[i]]
<1>4. Doubles(m, g)
  <2>1. m \in Nat /\ m - 1 \in Nat
    BY <1>2
  <2>2. h \in [0 .. m - 1 -> Nat] /\ h[0] = 1 /\ \A n \in 1 .. m - 1 : h[n] = 2 * h[n - 1]
    BY <1>3 DEF Doubles
  <2>3. g \in [0 .. m -> Nat]
    <3>1. ASSUME NEW i \in 0 .. m
          PROVE  (IF i = m THEN 2 * h[m - 1] ELSE h[i]) \in Nat
      <4>1. h[m - 1] \in Nat
        BY <2>1, <2>2
      <4>2. i # m => i \in 0 .. m - 1
        BY <2>1
      <4> QED
        BY <2>1, <2>2, <4>1, <4>2
    <3> QED
      BY <3>1
  <2>4. g[0] = 1
    BY <1>2, <2>1, <2>2
  <2>5. ASSUME NEW n \in 1 .. m
        PROVE  g[n] = 2 * g[n - 1]
    <3>1. n \in 0 .. m /\ n - 1 \in 0 .. m /\ n - 1 # m
      BY <2>1
    <3>2. g[n - 1] = h[n - 1]
      BY <3>1
    <3>3. CASE n = m
      BY <3>1, <3>2, <3>3
    <3>4. CASE n # m
      <4>1. n \in 1 .. m - 1
        BY <2>1, <3>4
      <4>2. g[n] = h[n]
        BY <3>1, <3>4
      <4> QED
        BY <2>2, <3>2, <4>1, <4>2
    <3> QED
      BY <3>3, <3>4
  <2> HIDE DEF g
  <2> QED
    BY <2>3, <2>4, <2>5 DEF Doubles
<1> QED
  BY <1>4

\* Doubling functions agree where both are defined.
LEMMA DoublingUnique ==
  ASSUME NEW N \in Nat, NEW M \in Nat, NEW h, NEW g, Doubles(N, h), Doubles(M, g),
         NEW n \in 0 .. N, n \in 0 .. M
  PROVE  h[n] = g[n]
<1> SUFFICES ASSUME h[n] # g[n] PROVE FALSE
  OBVIOUS
<1> DEFINE S == {i \in 0 .. n : h[i] # g[i]}
<1>1. PICK m \in S : \A i \in S : m <= i
  <2>1. S \in SUBSET Nat /\ n \in S
    OBVIOUS
  <2> HIDE DEF S
  <2> QED
    BY <2>1, HasSmallest
<1>2. h[0] = 1 /\ g[0] = 1
  BY DEF Doubles
<1>3. m # 0 /\ m \in 0 .. n
  BY <1>2
<1>4. m \in 1 .. N /\ m \in 1 .. M /\ m - 1 \in 0 .. n /\ ~(m <= m - 1)
  BY <1>3
<1>5. h[m - 1] = g[m - 1]
  BY <1>1, <1>4
<1>6. h[m] = 2 * h[m - 1] /\ g[m] = 2 * g[m - 1]
  BY <1>4 DEF Doubles
<1> QED
  BY <1>1, <1>5, <1>6

\* Pow2 is what its recursive definition says.
LEMMA Pow2Def ==
  /\ Pow2[0] = 1
  /\ \A n \in Nat : Pow2[n] \in Nat /\ Pow2[n + 1] = 2 * Pow2[n]
<1> DEFINE d(n) == CHOOSE h : Doubles(n, h)
           g == [n \in Nat |-> d(n)[n]]
           Rec(f) == [n \in Nat |-> IF n = 0 THEN 1 ELSE 2 * f[n - 1]]
<1>1. ASSUME NEW n \in Nat
      PROVE  Doubles(n, d(n))
  BY DoublingExists
<1>2. g[0] = 1
  <2>1. d(0)[0] = 1
    BY <1>1 DEF Doubles
  <2> QED
    BY <2>1
<1>3. ASSUME NEW n \in Nat
      PROVE  g[n] \in Nat
  <2>1. n \in 0 .. n
    OBVIOUS
  <2>2. d(n)[n] \in Nat
    <3> HIDE DEF d
    <3> QED
      BY <1>1, <2>1 DEF Doubles
  <2> QED
    BY <2>2
<1>4. ASSUME NEW n \in Nat
      PROVE  g[n + 1] = 2 * g[n]
  <2> HIDE DEF d
  <2>1. Doubles(n + 1, d(n + 1)) /\ Doubles(n, d(n)) /\ n + 1 \in Nat
    BY <1>1
  <2>2. n + 1 \in 1 .. n + 1 /\ n \in 0 .. n + 1 /\ n \in 0 .. n /\ (n + 1) - 1 = n
    OBVIOUS
  <2>3. d(n + 1)[n + 1] = 2 * d(n + 1)[n]
    BY <2>1, <2>2 DEF Doubles
  <2>4. d(n + 1)[n] = d(n)[n]
    BY <2>1, <2>2, DoublingUnique
  <2> QED
    BY <2>1, <2>3, <2>4
<1>5. g = Rec(g)
  <2> HIDE DEF g
  <2>1. ASSUME NEW n \in Nat
        PROVE  g[n] = IF n = 0 THEN 1 ELSE 2 * g[n - 1]
    <3>1. CASE n = 0
      BY <1>2, <3>1
    <3>2. CASE n # 0
      <4>1. n - 1 \in Nat /\ (n - 1) + 1 = n
        BY <3>2
      <4> QED
        BY <1>4, <3>2, <4>1
    <3> QED
      BY <3>1, <3>2
  <2>2. g = [n \in Nat |-> g[n]]
    BY DEF g
  <2> QED
    BY <2>1, <2>2
<1>6. Pow2 = Rec(Pow2)
  <2>1. \E f : f = Rec(f)
    <3> HIDE DEF g, Rec
    <3> QED
      BY <1>5
  <2> QED
    BY <2>1 DEF Pow2
<1>7. Pow2[0] = 1
  BY <1>6
<1>8. ASSUME NEW n \in Nat
      PROVE  Pow2[n + 1] = 2 * Pow2[n]
  <2>1. n + 1 \in Nat /\ n + 1 # 0 /\ (n + 1) - 1 = n
    OBVIOUS
  <2>2. Pow2[n + 1] = IF n + 1 = 0 THEN 1 ELSE 2 * Pow2[(n + 1) - 1]
    BY <1>6, <2>1
  <2> QED
    BY <2>1, <2>2
<1>9. ASSUME NEW n \in Nat
      PROVE  Pow2[n] \in Nat
  <2> SUFFICES ASSUME Pow2[n] \notin Nat PROVE FALSE
    OBVIOUS
  <2> DEFINE S == {i \in Nat : Pow2[i] \notin Nat}
  <2>1. PICK m \in S : \A i \in S : m <= i
    <3>1. S \in SUBSET Nat /\ n \in S
      OBVIOUS
    <3> HIDE DEF S
    <3> QED
      BY <3>1, HasSmallest
  <2>2. m # 0 /\ m \in Nat
    BY <1>7
  <2>3. m - 1 \in Nat /\ (m - 1) + 1 = m /\ ~(m <= m - 1)
    BY <2>2
  <2>4. Pow2[m - 1] \in Nat
    BY <2>1, <2>3
  <2> QED
    BY <1>8, <2>1, <2>3, <2>4
<1> QED
  BY <1>7, <1>8, <1>9

\* Powers of two are positive and grow.
LEMMA Pow2Pos ==
  ASSUME NEW n \in Nat
  PROVE  Pow2[n] \in Nat /\ Pow2[n] >= 1
<1> SUFFICES ASSUME ~(Pow2[n] >= 1) PROVE FALSE
  BY Pow2Def
<1> DEFINE S == {i \in Nat : ~(Pow2[i] >= 1)}
<1>1. PICK m \in S : \A i \in S : m <= i
  <2>1. S \in SUBSET Nat /\ n \in S
    OBVIOUS
  <2> HIDE DEF S
  <2> QED
    BY <2>1, HasSmallest
<1>2. m # 0 /\ m \in Nat
  BY Pow2Def
<1>3. m - 1 \in Nat /\ (m - 1) + 1 = m /\ ~(m <= m - 1)
  BY <1>2
<1>4. Pow2[m - 1] >= 1 /\ Pow2[m - 1] \in Nat
  BY <1>1, <1>3, Pow2Def
<1>5. Pow2[m] = 2 * Pow2[m - 1]
  BY <1>3, Pow2Def
<1> QED
  BY <1>1, <1>4, <1>5

\* Multiplication by a natural number is monotone.
LEMMA MulMono ==
  ASSUME NEW a \in Nat, NEW b \in Nat, NEW p \in Nat, a <= b
  PROVE  a * p <= b * p
<1>1. (b - a) * p >= 0
  OBVIOUS
<1>2. (b - a) * p = b * p - a * p
  OBVIOUS
<1> QED
  BY <1>1, <1>2

\* A power of two is a multiple of every smaller one.
LEMMA Pow2Split ==
  ASSUME NEW i \in Nat, NEW d \in Nat
  PROVE  Pow2[i + d] = Pow2[d] * Pow2[i]
<1> SUFFICES ASSUME Pow2[i + d] # Pow2[d] * Pow2[i] PROVE FALSE
  OBVIOUS
<1> DEFINE S == {e \in Nat : Pow2[i + e] # Pow2[e] * Pow2[i]}
<1>1. PICK m \in S : \A e \in S : m <= e
  <2>1. S \in SUBSET Nat /\ d \in S
    OBVIOUS
  <2> HIDE DEF S
  <2> QED
    BY <2>1, HasSmallest
<1>2. m # 0 /\ m \in Nat
  <2>1. Pow2[i + 0] = Pow2[0] * Pow2[i]
    <3>1. i + 0 = i /\ Pow2[0] = 1 /\ Pow2[i] \in Nat
      BY Pow2Def
    <3> QED
      BY <3>1
  <2> QED
    BY <2>1
<1>3. m - 1 \in Nat /\ (m - 1) + 1 = m /\ ~(m <= m - 1)
  BY <1>2
<1>4. Pow2[i + (m - 1)] = Pow2[m - 1] * Pow2[i]
  BY <1>1, <1>3
<1>5. Pow2[m] = 2 * Pow2[m - 1]
  BY <1>3, Pow2Def
<1>6. Pow2[i + m] = 2 * Pow2[i + (m - 1)]
  <2>1. i + (m - 1) \in Nat /\ (i + (m - 1)) + 1 = i + m
    BY <1>3
  <2> QED
    BY <2>1, Pow2Def
<1>7. Pow2[m - 1] \in Nat /\ Pow2[i] \in Nat
  BY <1>3, Pow2Def
<1>8. 2 * (Pow2[m - 1] * Pow2[i]) = (2 * Pow2[m - 1]) * Pow2[i]
  BY <1>7
<1> QED
  BY <1>1, <1>4, <1>5, <1>6, <1>8

\* Powers of two are ordered as their exponents.
LEMMA Pow2Mono ==
  ASSUME NEW i \in Nat, NEW j \in Nat
  PROVE  /\ i <= j => Pow2[i] <= Pow2[j]
         /\ i < j => 2 * Pow2[i] <= Pow2[j]
<1>1. ASSUME NEW x \in Nat, NEW y \in Nat, x <= y
      PROVE  Pow2[x] <= Pow2[y]
  <2>1. y - x \in Nat /\ x + (y - x) = y
    BY <1>1
  <2>2. Pow2[y] = Pow2[y - x] * Pow2[x]
    BY <2>1, Pow2Split
  <2>3. 1 \in Nat /\ Pow2[y - x] \in Nat /\ 1 <= Pow2[y - x] /\ Pow2[x] \in Nat
    BY <2>1, Pow2Pos
  <2>4. 1 * Pow2[x] <= Pow2[y - x] * Pow2[x]
    BY <2>3, MulMono
  <2> QED
    BY <2>2, <2>3, <2>4
<1>2. ASSUME i < j
      PROVE  2 * Pow2[i] <= Pow2[j]
  <2>1. i + 1 \in Nat /\ i + 1 <= j
    BY <1>2
  <2>2. Pow2[i + 1] = 2 * Pow2[i]
    BY Pow2Def
  <2> QED
    BY <1>1, <2>1, <2>2
<1> QED
  BY <1>1, <1>2

-----------------------------------------------------------------------------
(* Aligned blocks *)

\* A block <<u, o>> starts at unit u and has order o.
Dyadic(u, o) == \E k \in Nat : u = k * Pow2[o]
In(p, u) == p[1] <= u /\ u < p[1] + Pow2[p[2]]

\* Two multiples of a number are at least that number apart.
LEMMA MultiplesApart ==
  ASSUME NEW k \in Nat, NEW m \in Nat, NEW p \in Nat, k * p < m * p
  PROVE  k * p + p <= m * p
<1>1. k * p \in Nat /\ m * p \in Nat
  OBVIOUS
<1>2. ~(m <= k)
  <2> SUFFICES ASSUME m <= k PROVE FALSE
    OBVIOUS
  <2>1. m * p <= k * p
    BY MulMono
  <2> QED
    BY <1>1, <2>1
<1>3. k + 1 \in Nat /\ k + 1 <= m
  BY <1>2
<1>4. (k + 1) * p <= m * p
  BY <1>3, MulMono
<1>5. (k + 1) * p = k * p + p
  OBVIOUS
<1> QED
  BY <1>4, <1>5

\* Two starts of the same order are at least a block apart.
LEMMA DyadicApart ==
  ASSUME NEW o \in Nat, NEW x, NEW y, Dyadic(x, o), Dyadic(y, o), x < y
  PROVE  x \in Nat /\ y \in Nat /\ x + Pow2[o] <= y
<1>1. PICK k \in Nat : x = k * Pow2[o]
  BY DEF Dyadic
<1>2. PICK m \in Nat : y = m * Pow2[o]
  BY DEF Dyadic
<1>3. Pow2[o] \in Nat
  BY Pow2Pos
<1>4. x \in Nat /\ y \in Nat
  BY <1>1, <1>2, <1>3
<1>5. k * Pow2[o] + Pow2[o] <= m * Pow2[o]
  BY <1>1, <1>2, <1>3, MultiplesApart
<1> QED
  BY <1>1, <1>2, <1>4, <1>5

\* What is aligned at an order is aligned at every smaller one, and so is the
\* end of its block.
LEMMA DyadicDown ==
  ASSUME NEW i \in Nat, NEW j \in Nat, i <= j, NEW x, Dyadic(x, j)
  PROVE  x \in Nat /\ Dyadic(x, i) /\ Dyadic(x + Pow2[j], i)
<1>1. PICK k \in Nat : x = k * Pow2[j]
  BY DEF Dyadic
<1> DEFINE q == Pow2[j - i]
           p == Pow2[i]
<1>2. j - i \in Nat /\ i + (j - i) = j
  OBVIOUS
<1>3. q \in Nat /\ p \in Nat
  BY <1>2, Pow2Pos
<1>4. Pow2[j] = q * p
  BY <1>2, Pow2Split
<1> HIDE DEF q, p
<1>5. x = (k * q) * p
  <2>1. k * (q * p) = (k * q) * p
    BY <1>3
  <2> QED
    BY <1>1, <1>4, <2>1
<1>6. x + Pow2[j] = (k * q + q) * p
  <2>1. (k * q) * p + q * p = (k * q + q) * p
    BY <1>3
  <2> QED
    BY <1>4, <1>5, <2>1
<1>7. k * q \in Nat /\ k * q + q \in Nat
  BY <1>3
<1>8. x \in Nat
  BY <1>3, <1>5, <1>7
<1>9. Dyadic(x, i)
  BY <1>5, <1>7 DEF Dyadic, p
<1>10. Dyadic(x + Pow2[j], i)
  BY <1>6, <1>7 DEF Dyadic, p
<1> QED
  BY <1>8, <1>9, <1>10

\* Aligned blocks nest: one that shares a unit with a block of no smaller order
\* lies inside it.
LEMMA Nest ==
  ASSUME NEW i \in Nat, NEW j \in Nat, i <= j, NEW x, NEW y, Dyadic(x, i), Dyadic(y, j),
         NEW u \in Nat, x <= u, u < x + Pow2[i], y <= u, u < y + Pow2[j]
  PROVE  y <= x /\ x + Pow2[i] <= y + Pow2[j]
<1>1. x \in Nat /\ y \in Nat /\ Dyadic(y, i) /\ Dyadic(y + Pow2[j], i)
  BY DyadicDown
<1>2. Pow2[i] \in Nat /\ Pow2[j] \in Nat
  BY Pow2Pos
<1>3. ~(x < y)
  <2> SUFFICES ASSUME x < y PROVE FALSE
    OBVIOUS
  <2>1. x + Pow2[i] <= y
    BY <1>1, DyadicApart
  <2> QED
    BY <1>1, <1>2, <2>1
<1>4. x < y + Pow2[j]
  BY <1>1, <1>2
<1>5. x + Pow2[i] <= y + Pow2[j]
  BY <1>1, <1>4, DyadicApart
<1> QED
  BY <1>1, <1>3, <1>5

\* At(off, j) starts the aligned block of order j that holds off.
LEMMA AtProps ==
  ASSUME NEW off \in Nat, NEW j \in Nat
  PROVE  /\ At(off, j) \in Nat /\ Dyadic(At(off, j), j)
         /\ At(off, j) <= off /\ off < At(off, j) + Pow2[j]
<1> DEFINE p == Pow2[j]
<1>1. p \in Nat /\ p >= 1
  BY Pow2Pos
<1> HIDE DEF p
<1>2. off = (off \div p) * p + (off % p) /\ off % p \in 0 .. (p - 1) /\ off \div p \in Nat
  BY <1>1
<1>3. off - (off % p) = (off \div p) * p
  BY <1>1, <1>2
<1>4. off - (off % p) \in Nat
  BY <1>1, <1>2, <1>3
<1>5. Dyadic(At(off, j), j)
  BY <1>2, <1>3 DEF Dyadic, At, p
<1>6. off - (off % p) <= off /\ off < (off - (off % p)) + p
  BY <1>1, <1>2, <1>4
<1> QED
  BY <1>4, <1>5, <1>6 DEF At, p

\* It is the only one.
LEMMA AtUnique ==
  ASSUME NEW off \in Nat, NEW j \in Nat, NEW x, Dyadic(x, j), x <= off, off < x + Pow2[j]
  PROVE  x = At(off, j)
<1>1. x \in Nat /\ Pow2[j] \in Nat
  BY DyadicDown, Pow2Pos
<1>2. /\ At(off, j) \in Nat /\ Dyadic(At(off, j), j)
      /\ At(off, j) <= off /\ off < At(off, j) + Pow2[j]
  BY AtProps
<1>3. At(off, j) <= x
  BY <1>2, Nest
<1>4. x <= At(off, j)
  BY <1>2, Nest
<1> QED
  BY <1>1, <1>2, <1>3, <1>4

\* A block and its buddy are the two halves of an aligned block of the next order.
LEMMA BuddyHalves ==
  ASSUME NEW j \in Nat, NEW x, Dyadic(x, j)
  PROVE  /\ x \in Nat /\ Buddy(x, j) \in Nat /\ Dyadic(Buddy(x, j), j)
         /\ \/ Dyadic(x, j + 1) /\ Buddy(x, j) = x + Pow2[j]
            \/ Dyadic(Buddy(x, j), j + 1) /\ x = Buddy(x, j) + Pow2[j]
<1> DEFINE p == Pow2[j]
<1>1. PICK k \in Nat : x = k * p
  BY DEF Dyadic
<1>2. p \in Nat /\ p >= 1 /\ Pow2[j + 1] = 2 * p
  BY Pow2Pos, Pow2Def
<1> HIDE DEF p
<1>3. x \in Nat /\ x \div p = k
  <2>1. k * p \in Nat
    BY <1>2
  <2>2. (k * p) \div p = k
    BY <1>2
  <2> QED
    BY <1>1, <2>1, <2>2
<1>4. CASE k % 2 = 0
  <2>1. PICK h \in Nat : k = 2 * h
    <3>1. k \div 2 \in Nat /\ k = 2 * (k \div 2)
      BY <1>4
    <3> QED
      BY <3>1
  <2>2. x = h * (2 * p)
    <3>1. (2 * h) * p = h * (2 * p)
      BY <1>2
    <3> QED
      BY <1>1, <2>1, <3>1
  <2>3. Buddy(x, j) = x + p
    BY <1>3, <1>4 DEF Buddy, p
  <2>4. Dyadic(x, j + 1)
    BY <1>2, <2>2 DEF Dyadic
  <2>5. x + p = (k + 1) * p
    BY <1>1, <1>2
  <2>6. Dyadic(x + p, j)
    <3>1. k + 1 \in Nat
      OBVIOUS
    <3> QED
      BY <2>5, <3>1 DEF Dyadic, p
  <2>7. x + p \in Nat
    BY <1>2, <1>3
  <2> QED
    BY <1>3, <2>3, <2>4, <2>6, <2>7 DEF p
<1>5. CASE k % 2 # 0
  <2>1. PICK h \in Nat : k = 2 * h + 1
    <3>1. k \div 2 \in Nat /\ k = 2 * (k \div 2) + 1
      BY <1>5
    <3> QED
      BY <3>1
  <2>2. x - p = h * (2 * p) /\ x - p = (2 * h) * p
    <3>1. (2 * h + 1) * p = h * (2 * p) + p /\ (2 * h + 1) * p = (2 * h) * p + p
      BY <1>2
    <3>2. h * (2 * p) \in Nat /\ (2 * h) * p \in Nat
      BY <1>2
    <3> QED
      BY <1>1, <1>2, <2>1, <3>1, <3>2
  <2>3. Buddy(x, j) = x - p
    BY <1>3, <1>5 DEF Buddy, p
  <2>4. Dyadic(x - p, j + 1)
    BY <1>2, <2>2 DEF Dyadic
  <2>5. Dyadic(x - p, j)
    <3>1. 2 * h \in Nat
      OBVIOUS
    <3> QED
      BY <2>2, <3>1 DEF Dyadic, p
  <2>6. x - p \in Nat /\ x = (x - p) + p
    <3>1. h * (2 * p) \in Nat
      BY <1>2
    <3> QED
      BY <1>2, <1>3, <2>2, <3>1
  <2> QED
    BY <1>3, <2>3, <2>4, <2>5, <2>6 DEF p
<1> QED
  BY <1>4, <1>5

\* The order j + 1 block around off is the order j block around off and its buddy.
LEMMA AtStep ==
  ASSUME NEW off \in Nat, NEW j \in Nat
  PROVE  \/ At(off, j + 1) = At(off, j) /\ Buddy(At(off, j), j) = At(off, j) + Pow2[j]
         \/ At(off, j + 1) = Buddy(At(off, j), j) /\ At(off, j) = Buddy(At(off, j), j) + Pow2[j]
<1> DEFINE a == At(off, j)
           b == Buddy(a, j)
<1>1. a \in Nat /\ Dyadic(a, j) /\ a <= off /\ off < a + Pow2[j]
  BY AtProps
<1>2. /\ b \in Nat
      /\ \/ Dyadic(a, j + 1) /\ b = a + Pow2[j]
         \/ Dyadic(b, j + 1) /\ a = b + Pow2[j]
  BY <1>1, BuddyHalves
<1>3. j + 1 \in Nat /\ Pow2[j] \in Nat /\ Pow2[j + 1] = 2 * Pow2[j]
  BY Pow2Def
<1> HIDE DEF a, b
<1>4. CASE Dyadic(a, j + 1) /\ b = a + Pow2[j]
  <2>1. off < a + Pow2[j + 1]
    BY <1>1, <1>3
  <2>2. a = At(off, j + 1)
    BY <1>1, <1>3, <1>4, <2>1, AtUnique
  <2> QED
    BY <1>4, <2>2 DEF a, b
<1>5. CASE Dyadic(b, j + 1) /\ a = b + Pow2[j]
  <2>1. b <= off /\ off < b + Pow2[j + 1]
    BY <1>1, <1>2, <1>3, <1>5
  <2>2. b = At(off, j + 1)
    BY <1>2, <1>3, <1>5, <2>1, AtUnique
  <2> QED
    BY <1>5, <2>2 DEF a, b
<1> QED
  BY <1>2, <1>4, <1>5

\* Being buddies is symmetric.
LEMMA BuddyBack ==
  ASSUME NEW j \in Nat, NEW x, Dyadic(x, j)
  PROVE  Buddy(Buddy(x, j), j) = x
<1> DEFINE b == Buddy(x, j)
           c == Buddy(b, j)
<1>1. /\ x \in Nat /\ b \in Nat /\ Dyadic(b, j)
      /\ \/ Dyadic(x, j + 1) /\ b = x + Pow2[j]
         \/ Dyadic(b, j + 1) /\ x = b + Pow2[j]
  BY BuddyHalves
<1>2. /\ c \in Nat /\ Dyadic(c, j)
      /\ \/ Dyadic(b, j + 1) /\ c = b + Pow2[j]
         \/ Dyadic(c, j + 1) /\ b = c + Pow2[j]
  BY <1>1, BuddyHalves
<1>3. Pow2[j] \in Nat /\ Pow2[j] >= 1 /\ Pow2[j + 1] = 2 * Pow2[j] /\ j + 1 \in Nat
  BY Pow2Pos, Pow2Def
<1> HIDE DEF b, c
<1>4. ~(Dyadic(x, j + 1) /\ Dyadic(b, j + 1))
  <2> SUFFICES ASSUME Dyadic(x, j + 1), Dyadic(b, j + 1) PROVE FALSE
    OBVIOUS
  <2>1. CASE x < b
    <3>1. x + Pow2[j + 1] <= b
      BY <1>3, <2>1, DyadicApart
    <3> QED
      BY <1>1, <1>3, <2>1, <3>1
  <2>2. CASE b < x
    <3>1. b + Pow2[j + 1] <= x
      BY <1>3, <2>2, DyadicApart
    <3> QED
      BY <1>1, <1>3, <2>2, <3>1
  <2> QED
    BY <1>1, <1>3, <2>1, <2>2
<1>5. CASE Dyadic(x, j + 1) /\ b = x + Pow2[j]
  BY <1>1, <1>2, <1>3, <1>4, <1>5 DEF b, c
<1>6. CASE Dyadic(b, j + 1) /\ x = b + Pow2[j]
  <2>1. CASE c = b + Pow2[j]
    BY <1>6, <2>1 DEF b, c
  <2>2. CASE Dyadic(c, j + 1) /\ b = c + Pow2[j]
    <3>1. c < b
      BY <1>1, <1>2, <1>3, <2>2
    <3>2. c + Pow2[j + 1] <= b
      BY <1>3, <1>6, <2>2, <3>1, DyadicApart
    <3> QED
      BY <1>1, <1>2, <1>3, <2>2, <3>2
  <2> QED
    BY <1>2, <2>1, <2>2
<1> QED
  BY <1>1, <1>5, <1>6

-----------------------------------------------------------------------------
(* The orders of a sheet *)

TopUnits == Pow2[MaxOrder - 1]

\* MaxOrder is positive and the largest block fits in the sheet.
LEMMA MaxOrderProps ==
  /\ MaxOrder \in Nat \ {0}
  /\ TopUnits \in Nat /\ TopUnits >= 1 /\ TopUnits <= Total
<1> DEFINE K == {k \in 0 .. Total : Pow2[k] <= Total}
<1>1. Total \in Nat \ {0} /\ Mx \in Nat \ {0}
  BY BuddyAssumption
<1>2. PICK m \in K : \A k \in K : k <= m
  <2> DEFINE T == {t \in 0 .. Total : Total - t \in K}
  <2>1. T \in SUBSET Nat /\ Total \in T
    <3>1. Pow2[0] <= Total /\ Total - Total = 0 /\ 0 \in 0 .. Total /\ Total \in 0 .. Total
      BY <1>1, Pow2Def
    <3> QED
      BY <3>1
  <2>2. PICK t \in T : \A x \in T : t <= x
    <3> HIDE DEF T
    <3> QED
      BY <2>1, HasSmallest
  <2>3. ASSUME NEW k \in K
        PROVE  k <= Total - t
    <3>1. Total - k \in 0 .. Total /\ Total - (Total - k) = k /\ k \in Nat
      BY <1>1
    <3>2. Total - k \in T
      BY <3>1
    <3> QED
      BY <1>1, <2>2, <3>1, <3>2
  <2> QED
    BY <2>2, <2>3
<1>3. Max(K) = m
  <2>1. Max(K) \in K /\ \A k \in K : k <= Max(K)
    <3> HIDE DEF K
    <3> QED
      BY <1>2 DEF Max
  <2> QED
    BY <1>2, <2>1
<1>4. m \in Nat /\ Pow2[m] <= Total
  OBVIOUS
<1> HIDE DEF K
<1>5. MaxOrder = IF Mx <= 1 + m THEN Mx ELSE 1 + m
  <2>1. MaxOrder = Min({Mx, 1 + m})
    BY <1>3 DEF MaxOrder, K
  <2>2. Min({Mx, 1 + m}) \in {Mx, 1 + m} /\ \A y \in {Mx, 1 + m} : Min({Mx, 1 + m}) <= y
    <3>1. \E x \in {Mx, 1 + m} : \A y \in {Mx, 1 + m} : x <= y
      BY <1>1, <1>4
    <3> QED
      BY <3>1 DEF Min
  <2> QED
    BY <1>1, <1>4, <2>1, <2>2
<1>6. MaxOrder \in Nat \ {0} /\ MaxOrder - 1 \in Nat /\ MaxOrder - 1 <= m
  BY <1>1, <1>4, <1>5
<1>7. Pow2[MaxOrder - 1] <= Pow2[m] /\ Pow2[m] \in Nat
  BY <1>4, <1>6, Pow2Mono, Pow2Pos
<1>8. Pow2[MaxOrder - 1] \in Nat /\ Pow2[MaxOrder - 1] >= 1
  BY <1>6, Pow2Pos
<1> QED
  BY <1>1, <1>4, <1>6, <1>7, <1>8 DEF TopUnits

-----------------------------------------------------------------------------
(* Lists *)

\* A list of n nodes is a function on 1 .. n, and the other way round.
LEMMA ListIsFcn ==
  ASSUME NEW S, NEW n \in Nat
  PROVE  /\ \A t \in Seq(S) : Len(t) = n => t \in [1 .. n -> S]
         /\ \A t \in [1 .. n -> S] : t \in Seq(S) /\ Len(t) = n
<1>1. ASSUME NEW t \in Seq(S), Len(t) = n
      PROVE  t \in [1 .. n -> S]
  BY <1>1, LenProperties
<1>2. ASSUME NEW t \in [1 .. n -> S]
      PROVE  t \in Seq(S) /\ Len(t) = n
  <2>1. t \in Seq(S)
    BY SeqDef
  <2>2. Len(t) \in Nat /\ 1 .. Len(t) = 1 .. n
    BY <2>1, LenProperties
  <2>3. Len(t) = n
    BY <2>2
  <2> QED
    BY <2>1, <2>3
<1> QED
  BY <1>1, <1>2

\* A list is empty iff it contains nothing.
LEMMA EmptyList ==
  ASSUME NEW S, NEW s \in Seq(S)
  PROVE  /\ s = <<>> <=> \A x \in S : ~Contains(s, x)
         /\ \A x : Contains(s, x) => x \in S
<1>1. Len(s) \in Nat /\ \A i \in 1 .. Len(s) : s[i] \in S
  OBVIOUS
<1>2. s # <<>> => 1 \in 1 .. Len(s)
  OBVIOUS
<1>3. s = <<>> => Len(s) = 0
  OBVIOUS
<1> QED
  BY <1>1, <1>2, <1>3 DEF Contains

\* A node put in front of a list is listed there, once if it was not yet.
LEMMA ConsList ==
  ASSUME NEW S, NEW s \in Seq(S), NEW e \in S
  PROVE  /\ <<e>> \o s \in Seq(S) /\ <<e>> \o s # <<>> /\ Len(<<e>> \o s) = Len(s) + 1
         /\ \A x : Contains(<<e>> \o s, x) <=> x = e \/ Contains(s, x)
         /\ IsInjective(s) /\ ~Contains(s, e) => IsInjective(<<e>> \o s)
<1> DEFINE t == <<e>> \o s
<1>1. <<e>> \in Seq(S) /\ Len(<<e>>) = 1 /\ <<e>>[1] = e /\ Len(s) \in Nat
  OBVIOUS
<1>2. /\ t \in Seq(S) /\ Len(t) = Len(s) + 1
      /\ \A i \in 1 .. Len(t) : t[i] = IF i <= 1 THEN e ELSE s[i - 1]
  <2>1. /\ t \in Seq(S) /\ Len(t) = Len(<<e>>) + Len(s)
        /\ \A i \in 1 .. Len(<<e>>) + Len(s) :
             t[i] = IF i <= Len(<<e>>) THEN <<e>>[i] ELSE s[i - Len(<<e>>)]
    BY <1>1, ConcatProperties
  <2> HIDE DEF t
  <2> QED
    BY <1>1, <2>1
<1> HIDE DEF t
<1>3. t # <<>>
  BY <1>1, <1>2
<1>4. ASSUME NEW x
      PROVE  Contains(t, x) <=> x = e \/ Contains(s, x)
  <2>1. ASSUME Contains(t, x)
        PROVE  x = e \/ Contains(s, x)
    <3>1. PICK i \in 1 .. Len(t) : t[i] = x
      BY <2>1 DEF Contains
    <3>2. CASE i <= 1
      BY <1>2, <3>1, <3>2
    <3>3. CASE ~(i <= 1)
      <4>1. i - 1 \in 1 .. Len(s) /\ s[i - 1] = x
        BY <1>1, <1>2, <3>1, <3>3
      <4> QED
        BY <4>1 DEF Contains
    <3> QED
      BY <3>2, <3>3
  <2>2. ASSUME Contains(s, x)
        PROVE  Contains(t, x)
    <3>1. PICK i \in 1 .. Len(s) : s[i] = x
      BY <2>2 DEF Contains
    <3>2. i + 1 \in 1 .. Len(t) /\ ~(i + 1 <= 1) /\ (i + 1) - 1 = i
      BY <1>1, <1>2
    <3>3. t[i + 1] = x
      BY <1>2, <3>1, <3>2
    <3> QED
      BY <3>2, <3>3 DEF Contains
  <2>3. Contains(t, e)
    <3>1. 1 \in 1 .. Len(t) /\ 1 <= 1
      BY <1>1, <1>2
    <3>2. t[1] = e
      BY <1>2, <3>1
    <3> QED
      BY <3>1, <3>2 DEF Contains
  <2> QED
    BY <2>1, <2>2, <2>3
<1>5. ASSUME IsInjective(s), ~Contains(s, e)
      PROVE  IsInjective(t)
  <2>1. DOMAIN t = 1 .. Len(t) /\ DOMAIN s = 1 .. Len(s)
    BY <1>2
  <2>2. ASSUME NEW a \in 1 .. Len(t), NEW b \in 1 .. Len(t), t[a] = t[b]
        PROVE  a = b
    <3>1. \A i \in 1 .. Len(t) : ~(i <= 1) => i - 1 \in 1 .. Len(s)
      BY <1>1, <1>2
    <3>2. \A i \in 1 .. Len(s) : s[i] # e
      BY <1>5 DEF Contains
    <3>3. CASE a <= 1 /\ b <= 1
      BY <1>1, <1>2, <3>3
    <3>4. CASE a <= 1 /\ ~(b <= 1)
      BY <1>2, <2>2, <3>1, <3>2, <3>4
    <3>5. CASE ~(a <= 1) /\ b <= 1
      BY <1>2, <2>2, <3>1, <3>2, <3>5
    <3>6. CASE ~(a <= 1) /\ ~(b <= 1)
      <4>1. s[a - 1] = s[b - 1]
        BY <1>2, <2>2, <3>6
      <4>2. a - 1 = b - 1
        BY <1>5, <2>1, <3>1, <3>6, <4>1 DEF IsInjective
      <4> QED
        BY <1>1, <1>2, <4>2
    <3> QED
      BY <3>3, <3>4, <3>5, <3>6
  <2> QED
    BY <2>1, <2>2 DEF IsInjective
<1> QED
  BY <1>2, <1>3, <1>4, <1>5 DEF t

\* A list without one of its positions.
Without(s, p) == [i \in 1 .. Len(s) - 1 |-> IF i < p THEN s[i] ELSE s[i + 1]]

\* What is left when one position of a list without repetitions is dropped.
LEMMA WithoutList ==
  ASSUME NEW S, NEW s \in Seq(S), NEW p \in 1 .. Len(s), IsInjective(s),
         NEW t, t = Without(s, p)
  PROVE  /\ t \in Seq(S) /\ Len(t) = Len(s) - 1 /\ IsInjective(t)
         /\ \A x : Contains(t, x) <=> Contains(s, x) /\ x # s[p]
<1>1. Len(s) \in Nat /\ p \in Nat /\ DOMAIN s = 1 .. Len(s) /\ Len(s) - 1 \in Nat
  OBVIOUS
<1>2. ASSUME NEW i \in 1 .. Len(s) - 1
      PROVE  /\ i \in 1 .. Len(s) /\ i + 1 \in 1 .. Len(s)
             /\ t[i] = IF i < p THEN s[i] ELSE s[i + 1]
             /\ t[i] \in S
  <2>1. i \in 1 .. Len(s) /\ i + 1 \in 1 .. Len(s)
    BY <1>1
  <2>2. t[i] = IF i < p THEN s[i] ELSE s[i + 1]
    BY DEF Without
  <2>3. s[i] \in S /\ s[i + 1] \in S
    BY <2>1
  <2> QED
    BY <2>1, <2>2, <2>3
<1>3. t \in [1 .. Len(s) - 1 -> S]
  <2>1. t = [i \in 1 .. Len(s) - 1 |-> t[i]]
    BY DEF Without
  <2> QED
    BY <1>2, <2>1
<1>4. t \in Seq(S) /\ Len(t) = Len(s) - 1 /\ DOMAIN t = 1 .. Len(s) - 1
  <2> DEFINE n == Len(s) - 1
  <2>1. n \in Nat /\ t \in [1 .. n -> S]
    BY <1>1, <1>3
  <2> HIDE DEF n
  <2>2. t \in Seq(S) /\ Len(t) = n
    BY <2>1, ListIsFcn, Zenon
  <2>3. DOMAIN t = 1 .. n
    BY <2>1
  <2> QED
    BY <2>2, <2>3 DEF n
<1>5. \A a, b \in 1 .. Len(s) : s[a] = s[b] => a = b
  BY <1>1 DEF IsInjective
<1>6. IsInjective(t)
  <2>1. ASSUME NEW a \in 1 .. Len(s) - 1, NEW b \in 1 .. Len(s) - 1, t[a] = t[b]
        PROVE  a = b
    <3>1. /\ a \in 1 .. Len(s) /\ a + 1 \in 1 .. Len(s) /\ t[a] = IF a < p THEN s[a] ELSE s[a + 1]
          /\ b \in 1 .. Len(s) /\ b + 1 \in 1 .. Len(s) /\ t[b] = IF b < p THEN s[b] ELSE s[b + 1]
      BY <1>2
    <3>2. CASE a < p /\ b < p
      BY <1>5, <2>1, <3>1, <3>2
    <3>3. CASE a < p /\ ~(b < p)
      <4>1. a = b + 1
        BY <1>5, <2>1, <3>1, <3>3
      <4> QED
        BY <1>1, <3>3, <4>1
    <3>4. CASE ~(a < p) /\ b < p
      <4>1. a + 1 = b
        BY <1>5, <2>1, <3>1, <3>4
      <4> QED
        BY <1>1, <3>4, <4>1
    <3>5. CASE ~(a < p) /\ ~(b < p)
      <4>1. a + 1 = b + 1
        BY <1>5, <2>1, <3>1, <3>5
      <4> QED
        BY <1>1, <4>1
    <3> QED
      BY <3>2, <3>3, <3>4, <3>5
  <2> QED
    BY <1>4, <2>1 DEF IsInjective
<1>7. ASSUME NEW x
      PROVE  Contains(t, x) <=> Contains(s, x) /\ x # s[p]
  <2>1. ASSUME Contains(t, x)
        PROVE  Contains(s, x) /\ x # s[p]
    <3>1. PICK i \in 1 .. Len(s) - 1 : t[i] = x
      BY <1>4, <2>1 DEF Contains
    <3>2. /\ i \in 1 .. Len(s) /\ i + 1 \in 1 .. Len(s) /\ t[i] = IF i < p THEN s[i] ELSE s[i + 1]
      BY <1>2
    <3>3. PICK k \in 1 .. Len(s) : k # p /\ s[k] = x
      <4>1. CASE i < p
        BY <1>1, <3>1, <3>2, <4>1
      <4>2. CASE ~(i < p)
        <5>1. i + 1 # p
          BY <1>1, <4>2
        <5> QED
          BY <3>1, <3>2, <4>2, <5>1
      <4> QED
        BY <4>1, <4>2
    <3> QED
      BY <1>5, <3>3 DEF Contains
  <2>2. ASSUME Contains(s, x), x # s[p]
        PROVE  Contains(t, x)
    <3>1. PICK k \in 1 .. Len(s) : s[k] = x
      BY <2>2 DEF Contains
    <3>2. k # p
      BY <2>2, <3>1
    <3>3. CASE k < p
      <4>1. k \in 1 .. Len(s) - 1
        BY <1>1, <3>3
      <4> QED
        BY <1>2, <1>4, <3>1, <3>3, <4>1 DEF Contains
    <3>4. CASE p < k
      <4>1. k - 1 \in 1 .. Len(s) - 1 /\ ~(k - 1 < p) /\ (k - 1) + 1 = k
        BY <1>1, <3>4
      <4>2. t[k - 1] = x
        BY <1>2, <3>1, <4>1
      <4> QED
        BY <1>4, <4>1, <4>2 DEF Contains
    <3> QED
      BY <1>1, <3>2, <3>3, <3>4
  <2> QED
    BY <2>1, <2>2
<1> QED
  BY <1>4, <1>6, <1>7

\* The tail of a list without repetitions.
LEMMA TailList ==
  ASSUME NEW S, NEW s \in Seq(S), s # <<>>, IsInjective(s)
  PROVE  /\ Tail(s) \in Seq(S) /\ Len(Tail(s)) = Len(s) - 1 /\ IsInjective(Tail(s))
         /\ Head(s) \in S /\ Contains(s, Head(s))
         /\ \A x : Contains(Tail(s), x) <=> Contains(s, x) /\ x # Head(s)
<1>1. Len(s) \in Nat /\ Len(s) >= 1 /\ 1 \in 1 .. Len(s) /\ Head(s) = s[1] /\ s[1] \in S
  OBVIOUS
<1>2. Tail(s) = Without(s, 1)
  <2>1. /\ Tail(s) \in Seq(S) /\ Len(Tail(s)) = Len(s) - 1
        /\ \A i \in 1 .. Len(s) - 1 : Tail(s)[i] = s[i + 1]
    OBVIOUS
  <2>2. Tail(s) = [i \in 1 .. Len(s) - 1 |-> Tail(s)[i]]
    <3>1. Len(s) - 1 \in Nat
      BY <1>1
    <3>2. Tail(s) \in [1 .. Len(s) - 1 -> S]
      BY <2>1, <3>1, ListIsFcn
    <3> QED
      BY <3>2
  <2>3. \A i \in 1 .. Len(s) - 1 : ~(i < 1)
    BY <1>1
  <2> QED
    BY <2>1, <2>2, <2>3 DEF Without
<1>3. Contains(s, s[1])
  BY <1>1 DEF Contains
<1> QED
  BY <1>1, <1>2, <1>3, WithoutList

\* Unlinking a node of a list without repetitions.
LEMMA RemoveList ==
  ASSUME NEW S, NEW s \in Seq(S), NEW e, Contains(s, e), IsInjective(s)
  PROVE  /\ RemoveFirst(s, e) \in Seq(S) /\ IsInjective(RemoveFirst(s, e))
         /\ \A x : Contains(RemoveFirst(s, e), x) <=> Contains(s, x) /\ x # e
<1> DEFINE I == {i \in 1 .. Len(s) : s[i] = e}
           p == Min(I)
<1>1. Len(s) \in Nat
  OBVIOUS
<1>2. PICK k \in I : \A i \in I : k <= i
  <2>1. I \in SUBSET Nat /\ I # {}
    BY DEF Contains
  <2> HIDE DEF I
  <2> QED
    BY <2>1, HasSmallest
<1>3. p \in I
  <2> HIDE DEF I
  <2> QED
    BY <1>2 DEF Min
<1>4. p \in 1 .. Len(s) /\ s[p] = e
  BY <1>3
<1>5. SelectInSeq(s, LAMBDA v : v = e) = p
  BY <1>2 DEF SelectInSeq
<1>6. RemoveFirst(s, e) = SubSeq(s, 1, p - 1) \o SubSeq(s, p + 1, Len(s))
  BY <1>5 DEF RemoveFirst, RemoveAt, Contains
<1> HIDE DEF p, I
<1>7. SubSeq(s, 1, p - 1) \o SubSeq(s, p + 1, Len(s)) = Without(s, p)
  <2> DEFINE a == SubSeq(s, 1, p - 1)
             b == SubSeq(s, p + 1, Len(s))
  <2>1. p \in Nat /\ p >= 1 /\ p <= Len(s)
    BY <1>1, <1>4
  <2>2. a \in Seq(S) /\ Len(a) = p - 1 /\ \A i \in 1 .. p - 1 : a[i] = s[i]
    <3>1. \A i \in 1 .. p - 1 : s[i] \in S
      BY <1>1, <2>1
    <3> QED
      BY <1>1, <2>1, <3>1, SubSeqProperties
  <2>3. b \in Seq(S) /\ Len(b) = Len(s) - p /\ \A i \in 1 .. Len(s) - p : b[i] = s[p + i]
    <3>1. \A i \in p + 1 .. Len(s) : s[i] \in S
      BY <1>1, <2>1
    <3>2. CASE p < Len(s)
      <4>1. p + 1 \in 1 .. Len(s) + 1 /\ Len(s) \in p + 1 - 1 .. Len(s)
        BY <1>1, <2>1
      <4> QED
        BY <1>1, <2>1, <3>1, <4>1, SubSeqProperties
    <3>3. CASE p = Len(s)
      <4>1. b = <<>>
        BY <1>1, <2>1, <3>3, SubSeqEmpty
      <4>2. \A i \in 1 .. Len(s) - p : FALSE
        BY <1>1, <2>1, <3>3
      <4>3. Len(s) - p = 0
        BY <1>1, <3>3
      <4> HIDE DEF b
      <4> QED
        BY <4>1, <4>2, <4>3
    <3> QED
      BY <1>1, <2>1, <3>2, <3>3
  <2> HIDE DEF a, b
  <2>4. /\ a \o b \in Seq(S) /\ Len(a \o b) = Len(s) - 1
        /\ \A i \in 1 .. Len(s) - 1 : (a \o b)[i] = IF i <= p - 1 THEN a[i] ELSE b[i - (p - 1)]
    <3>1. /\ a \o b \in Seq(S) /\ Len(a \o b) = Len(a) + Len(b)
          /\ \A i \in 1 .. Len(a) + Len(b) : (a \o b)[i] = IF i <= Len(a) THEN a[i] ELSE b[i - Len(a)]
      BY <2>2, <2>3, ConcatProperties
    <3>2. Len(a) + Len(b) = Len(s) - 1
      BY <1>1, <2>1, <2>2, <2>3
    <3> QED
      BY <2>2, <3>1, <3>2
  <2>5. ASSUME NEW i \in 1 .. Len(s) - 1
        PROVE  (a \o b)[i] = IF i < p THEN s[i] ELSE s[i + 1]
    <3>1. CASE i < p
      <4>1. i \in 1 .. p - 1 /\ i <= p - 1
        BY <2>1, <3>1
      <4> QED
        BY <2>2, <2>4, <3>1, <4>1
    <3>2. CASE ~(i < p)
      <4>1. i - (p - 1) \in 1 .. Len(s) - p /\ ~(i <= p - 1) /\ p + (i - (p - 1)) = i + 1
        BY <1>1, <2>1, <3>2
      <4> QED
        BY <2>3, <2>4, <3>2, <4>1
    <3> QED
      BY <3>1, <3>2
  <2>6. a \o b = [i \in 1 .. Len(s) - 1 |-> (a \o b)[i]]
    <3>1. Len(s) - 1 \in Nat
      BY <1>1, <2>1
    <3>2. a \o b \in [1 .. Len(s) - 1 -> S]
      BY <2>4, <3>1, ListIsFcn
    <3> QED
      BY <3>2
  <2> QED
    BY <2>5, <2>6 DEF Without, a, b
<1> QED
  BY <1>4, <1>6, <1>7, WithoutList

-----------------------------------------------------------------------------
(* Partitions of the largest block *)

\* A block of the sheet: inside the largest one and aligned.
Fits(p) == /\ p \in Units \X Orders
           /\ Dyadic(p[1], p[2]) /\ p[1] + Pow2[p[2]] <= TopUnits

Disjoint(B) == \A p, q \in B : \A u \in Nat : In(p, u) /\ In(q, u) => p = q
Covered(B, u) == \E p \in B : In(p, u)

Partition(B) == /\ \A p \in B : Fits(p)
                /\ Disjoint(B)
                /\ \A u \in Nat : u < TopUnits => Covered(B, u)

\* Blocks may be exchanged for others that cover the same units.
LEMMA Replace ==
  ASSUME NEW B, NEW R \in SUBSET B, NEW N, Partition(B),
         \A p \in N : Fits(p), Disjoint(N),
         \A u \in Nat : Covered(R, u) <=> Covered(N, u)
  PROVE  Partition((B \ R) \cup N)
<1>1. ASSUME NEW p \in B \ R, NEW q \in N, NEW u \in Nat, In(p, u), In(q, u)
      PROVE  FALSE
  <2>1. PICK r \in R : In(r, u)
    BY <1>1 DEF Covered
  <2>2. r = p
    BY <1>1, <2>1 DEF Partition, Disjoint
  <2> QED
    BY <2>1, <2>2
<1>2. Disjoint((B \ R) \cup N)
  BY <1>1 DEF Partition, Disjoint
<1>3. ASSUME NEW u \in Nat, u < TopUnits
      PROVE  Covered((B \ R) \cup N, u)
  <2>1. PICK p \in B : In(p, u)
    BY <1>3 DEF Partition, Covered
  <2> QED
    BY <2>1 DEF Covered
<1> QED
  BY <1>2, <1>3 DEF Partition

\* The order and the units of a block of the sheet.
LEMMA FitsProps ==
  ASSUME NEW u, NEW o, Fits(<<u, o>>)
  PROVE  /\ u \in Units /\ u \in Nat /\ o \in Orders /\ o \in Nat /\ o <= MaxOrder - 1
         /\ Dyadic(u, o) /\ u + Pow2[o] <= TopUnits /\ Pow2[o] \in Nat /\ Pow2[o] >= 1
<1>1. u \in Units /\ o \in Orders /\ Dyadic(u, o) /\ u + Pow2[o] <= TopUnits
  BY DEF Fits
<1>2. u \in Nat /\ o \in Nat /\ o <= MaxOrder - 1
  BY <1>1, BuddyAssumption, MaxOrderProps DEF Units, Orders
<1> QED
  BY <1>1, <1>2, Pow2Pos

\* An aligned block inside the largest one is a block of the sheet.
LEMMA FitsIntro ==
  ASSUME NEW u \in Nat, NEW o \in Orders, Dyadic(u, o), u + Pow2[o] <= TopUnits
  PROVE  Fits(<<u, o>>)
<1>1. o \in Nat
  BY MaxOrderProps DEF Orders
<1>2. Pow2[o] \in Nat /\ Pow2[o] >= 1
  BY <1>1, Pow2Pos
<1>3. u \in Units
  BY <1>2, MaxOrderProps, BuddyAssumption DEF Units
<1> QED
  BY <1>3 DEF Fits

\* The buddy of a block is a block of the sheet, unless the block is the largest.
LEMMA BuddyFits ==
  ASSUME NEW u, NEW i, Fits(<<u, i>>), i < MaxOrder - 1
  PROVE  Fits(<<Buddy(u, i), i>>)
<1> DEFINE b == Buddy(u, i)
<1>1. /\ u \in Nat /\ i \in Nat /\ i \in Orders /\ Dyadic(u, i) /\ u + Pow2[i] <= TopUnits
      /\ Pow2[i] \in Nat /\ Pow2[i] >= 1
  BY FitsProps
<1>2. i + 1 \in Nat /\ i + 1 <= MaxOrder - 1 /\ MaxOrder - 1 \in Nat /\ Pow2[i + 1] = 2 * Pow2[i]
  BY <1>1, MaxOrderProps, Pow2Def
<1>3. /\ b \in Nat /\ Dyadic(b, i)
      /\ \/ Dyadic(u, i + 1) /\ b = u + Pow2[i]
         \/ u = b + Pow2[i]
  BY <1>1, BuddyHalves
<1> HIDE DEF b
<1>4. b + Pow2[i] <= TopUnits
  <2>1. CASE u = b + Pow2[i]
    BY <1>1, <1>3, <2>1, MaxOrderProps
  <2>2. CASE Dyadic(u, i + 1) /\ b = u + Pow2[i]
    <3>1. Dyadic(TopUnits, i + 1) /\ TopUnits \in Nat
      <4>1. 0 \in Nat /\ 0 = 0 * Pow2[MaxOrder - 1] /\ 0 + TopUnits = TopUnits
        BY MaxOrderProps DEF TopUnits
      <4>2. Dyadic(0, MaxOrder - 1)
        BY <4>1 DEF Dyadic
      <4>3. Dyadic(0 + Pow2[MaxOrder - 1], i + 1)
        BY <1>2, <4>2, DyadicDown
      <4> QED
        BY <4>1, <4>3, MaxOrderProps DEF TopUnits
    <3>2. u < TopUnits
      BY <1>1, MaxOrderProps
    <3>3. u + Pow2[i + 1] <= TopUnits
      BY <1>2, <2>2, <3>1, <3>2, DyadicApart
    <3> QED
      BY <1>1, <1>2, <2>2, <3>1, <3>3
  <2> QED
    BY <1>3, <2>1, <2>2
<1> QED
  BY <1>1, <1>3, <1>4, FitsIntro DEF b

-----------------------------------------------------------------------------
(* The tables of a sheet *)

Spaces == [lists : [Orders -> Seq(Units)], mask : SUBSET Orders, tag : [Units -> BlockTags]]
Caches == [Orders -> Seq(Units)]

\* The blocks of a sheet: listed, cached or in use.
Blocks(s, tc) ==
  {p \in Units \X Orders : \/ s.tag[p[1]] = FreeTag(p[2])
                           \/ s.tag[p[1]] = AllocTag(p[2])
                           \/ Contains(tc[p[2]], p[1])}

Tagged(s) == \A u \in Units, o \in Orders : s.tag[u] = FreeTag(o) <=> Contains(s.lists[o], u)
Masked(s) == \A o \in Orders : o \in s.mask <=> s.lists[o] # <<>>
ListedOnce(s) == \A o \in Orders : IsInjective(s.lists[o])
CachedUntagged(s, tc) == \A u \in Units, o \in Orders : Contains(tc[o], u) => s.tag[u] = NoTag

\* No two free buddies are left apart.
Apart(s) ==
  \A u \in Units, o \in Orders :
    o < MaxOrder - 1 /\ s.tag[u] = FreeTag(o) => s.tag[Buddy(u, o)] # FreeTag(o)

Sound(s, tc) ==
  /\ s \in Spaces /\ tc \in Caches
  /\ Tagged(s) /\ Masked(s) /\ ListedOnce(s) /\ CachedUntagged(s, tc)
  /\ Partition(Blocks(s, tc))
  /\ Apart(s)

\* From s to t the blocks in use gain, or lose, the block at off.
Adds(s, t, off, o) ==
  \A u \in Units, i \in Orders :
    t.tag[u] = AllocTag(i) <=> (u = off /\ i = o) \/ s.tag[u] = AllocTag(i)

Drops(s, t, off) ==
  \A u \in Units, i \in Orders : t.tag[u] = AllocTag(i) <=> s.tag[u] = AllocTag(i) /\ u # off

\* What cutting a block from a list, taking it from a cache, or taking it back does.
Cut(s, tc, from, o, off, t) ==
  /\ Sound(t, tc) /\ Adds(s, t, off, o)
  /\ off \in Units /\ o \in Orders /\ Fits(<<off, o>>) /\ s.tag[off] = FreeTag(from)

Uncached(s, tc, o, off, t, td) ==
  /\ Sound(t, td) /\ Adds(s, t, off, o)
  /\ off \in Units /\ s.tag[off] = NoTag

TakenBack(s, tc, off, o, t, td) == Sound(t, td) /\ Drops(s, t, off)

\* Tags tell kinds and orders apart.
LEMMA TagFacts ==
  ASSUME NEW i, NEW j
  PROVE  /\ FreeTag(i) = FreeTag(j) => i = j
         /\ AllocTag(i) = AllocTag(j) => i = j
         /\ FreeTag(i) # AllocTag(j) /\ FreeTag(i) # NoTag /\ AllocTag(i) # NoTag
         /\ FreeTag(i).kind = "free" /\ AllocTag(i).kind = "alloc" /\ NoTag.kind = "none"
         /\ FreeTag(i).order = i /\ AllocTag(i).order = i
BY DEF FreeTag, AllocTag, NoTag

\* The tags of a sheet are free tags, allocated tags and none.
LEMMA TagCases ==
  ASSUME NEW s \in Spaces, NEW u \in Units
  PROVE  \/ \E o \in Orders : s.tag[u] = FreeTag(o)
         \/ \E o \in Orders : s.tag[u] = AllocTag(o)
         \/ s.tag[u] = NoTag
<1>1. s.tag[u] \in BlockTags
  BY DEF Spaces
<1> QED
  BY <1>1 DEF BlockTags

\* Two blocks of a sound sheet that share a unit are one.
LEMMA OneBlock ==
  ASSUME NEW s, NEW tc, Sound(s, tc),
         NEW u, NEW i, <<u, i>> \in Blocks(s, tc),
         NEW v, NEW j, <<v, j>> \in Blocks(s, tc),
         NEW w \in Nat, u <= w, w < u + Pow2[i], v <= w, w < v + Pow2[j]
  PROVE  u = v /\ i = j
<1>1. In(<<u, i>>, w) /\ In(<<v, j>>, w)
  BY DEF In
<1>2. <<u, i>> = <<v, j>>
  BY <1>1 DEF Sound, Partition, Disjoint
<1> QED
  BY <1>2

\* A unit strictly inside a block starts no block and has no tag.
LEMMA Interior ==
  ASSUME NEW s, NEW tc, Sound(s, tc), NEW u, NEW i, <<u, i>> \in Blocks(s, tc),
         NEW w \in Nat, u < w, w < u + Pow2[i]
  PROVE  /\ w \in Units /\ s.tag[w] = NoTag
         /\ \A o \in Orders : <<w, o>> \notin Blocks(s, tc) /\ ~Contains(tc[o], w)
<1>1. Fits(<<u, i>>)
  BY DEF Sound, Partition
<1>2. /\ u \in Nat /\ u + Pow2[i] <= TopUnits /\ Pow2[i] \in Nat
  BY <1>1, FitsProps
<1>3. w \in Units
  BY <1>2, MaxOrderProps, BuddyAssumption DEF Units
<1>4. ASSUME NEW o \in Orders, <<w, o>> \in Blocks(s, tc)
      PROVE  FALSE
  <2>1. Fits(<<w, o>>)
    BY <1>4 DEF Sound, Partition
  <2>2. Pow2[o] \in Nat /\ Pow2[o] >= 1
    BY <2>1, FitsProps
  <2>3. u <= w /\ w <= w /\ w < w + Pow2[o]
    BY <1>2, <2>2
  <2>4. u = w
    BY <1>4, <2>3, OneBlock
  <2> QED
    BY <1>2, <2>4
<1>5. \A o \in Orders : s.tag[w] # FreeTag(o) /\ s.tag[w] # AllocTag(o) /\ ~Contains(tc[o], w)
  BY <1>3, <1>4 DEF Blocks
<1>6. s.tag[w] = NoTag
  BY <1>3, <1>5, TagCases DEF Sound
<1> QED
  BY <1>3, <1>4, <1>5, <1>6

-----------------------------------------------------------------------------
(* Splitting *)

\* The block that stays and the right halves listed on the way.
Pieces(off, from, o) == {<<off, o>>} \cup {<<off + Pow2[j], j>> : j \in o .. (from - 1)}

\* The pieces of a block are blocks of the sheet, disjoint, and cover it.
LEMMA PiecesPartition ==
  ASSUME NEW off, NEW from \in Orders, Fits(<<off, from>>), NEW o \in 0 .. from
  PROVE  /\ \A p \in Pieces(off, from, o) : Fits(p)
         /\ Disjoint(Pieces(off, from, o))
         /\ \A u \in Nat : Covered({<<off, from>>}, u) <=> Covered(Pieces(off, from, o), u)
<1>1. /\ off \in Nat /\ from \in Nat /\ from <= MaxOrder - 1 /\ Dyadic(off, from)
      /\ off + Pow2[from] <= TopUnits /\ Pow2[from] \in Nat
  BY FitsProps
<1>2. o \in Nat /\ o <= from /\ o \in Orders
  BY <1>1, MaxOrderProps DEF Orders
<1>3. Pow2[o] \in Nat /\ Pow2[o] >= 1 /\ Pow2[o] <= Pow2[from]
  BY <1>1, <1>2, Pow2Pos, Pow2Mono
<1>4. ASSUME NEW j \in o .. (from - 1)
      PROVE  /\ j \in Nat /\ j \in Orders /\ o <= j /\ j < from
             /\ Pow2[j] \in Nat /\ Pow2[j] >= 1
             /\ 2 * Pow2[j] <= Pow2[from] /\ Pow2[o] <= Pow2[j]
  <2>1. j \in Nat /\ j \in Orders /\ o <= j /\ j < from
    BY <1>1, <1>2, MaxOrderProps DEF Orders
  <2> QED
    BY <1>1, <1>2, <2>1, Pow2Pos, Pow2Mono
<1>5. Fits(<<off, o>>)
  <2>1. Dyadic(off, o)
    BY <1>1, <1>2, DyadicDown
  <2>2. off + Pow2[o] <= TopUnits
    BY <1>1, <1>3, MaxOrderProps
  <2> QED
    BY <1>1, <1>2, <2>1, <2>2, FitsIntro
<1>6. ASSUME NEW j \in o .. (from - 1)
      PROVE  Fits(<<off + Pow2[j], j>>)
  <2>1. /\ j \in Nat /\ j \in Orders /\ j < from /\ Pow2[j] \in Nat /\ 2 * Pow2[j] <= Pow2[from]
    BY <1>4
  <2>2. j <= j /\ j <= from
    BY <1>1, <2>1
  <2>3. Dyadic(off, j)
    BY <1>1, <2>1, <2>2, DyadicDown
  <2>4. Dyadic(off + Pow2[j], j)
    BY <2>1, <2>2, <2>3, DyadicDown
  <2>5. off + Pow2[j] \in Nat /\ (off + Pow2[j]) + Pow2[j] <= TopUnits
    BY <1>1, <2>1, MaxOrderProps
  <2> QED
    BY <2>1, <2>4, <2>5, FitsIntro
<1>7. \A p \in Pieces(off, from, o) : Fits(p)
  BY <1>5, <1>6 DEF Pieces
<1>8. Disjoint(Pieces(off, from, o))
  <2>1. ASSUME NEW j \in o .. (from - 1), NEW u \in Nat, In(<<off, o>>, u), In(<<off + Pow2[j], j>>, u)
        PROVE  FALSE
    <3>1. u < off + Pow2[o] /\ off + Pow2[j] <= u
      BY <2>1 DEF In
    <3> QED
      BY <1>1, <1>3, <1>4, <3>1
  <2>2. ASSUME NEW i \in o .. (from - 1), NEW j \in o .. (from - 1), NEW u \in Nat,
               In(<<off + Pow2[i], i>>, u), In(<<off + Pow2[j], j>>, u)
        PROVE  ~(i < j)
    <3> SUFFICES ASSUME i < j PROVE FALSE
      OBVIOUS
    <3>1. u < (off + Pow2[i]) + Pow2[i] /\ off + Pow2[j] <= u
      BY <2>2 DEF In
    <3>2. i \in Nat /\ j \in Nat /\ Pow2[i] \in Nat /\ Pow2[j] \in Nat
      BY <1>4
    <3>3. 2 * Pow2[i] <= Pow2[j]
      BY <3>2, Pow2Mono
    <3> QED
      BY <1>1, <3>1, <3>2, <3>3
  <2>3. ASSUME NEW i \in o .. (from - 1), NEW j \in o .. (from - 1), NEW u \in Nat,
               In(<<off + Pow2[i], i>>, u), In(<<off + Pow2[j], j>>, u)
        PROVE  i = j
    <3>1. i \in Nat /\ j \in Nat
      BY <1>4
    <3>2. ~(i < j) /\ ~(j < i)
      BY <2>2, <2>3
    <3> QED
      BY <3>1, <3>2
  <2>4. ASSUME NEW p \in Pieces(off, from, o), NEW q \in Pieces(off, from, o),
               NEW u \in Nat, In(p, u), In(q, u)
        PROVE  p = q
    <3>1. p = <<off, o>> \/ \E j \in o .. (from - 1) : p = <<off + Pow2[j], j>>
      BY DEF Pieces
    <3>2. q = <<off, o>> \/ \E j \in o .. (from - 1) : q = <<off + Pow2[j], j>>
      BY DEF Pieces
    <3>3. CASE p = <<off, o>> /\ q = <<off, o>>
      BY <3>3
    <3>4. CASE p # <<off, o>> /\ q # <<off, o>>
      <4>1. PICK i \in o .. (from - 1) : p = <<off + Pow2[i], i>>
        BY <3>1, <3>4
      <4>2. PICK j \in o .. (from - 1) : q = <<off + Pow2[j], j>>
        BY <3>2, <3>4
      <4>3. i = j
        BY <2>3, <2>4, <4>1, <4>2
      <4> QED
        BY <4>1, <4>2, <4>3
    <3>5. CASE p = <<off, o>> /\ q # <<off, o>>
      BY <2>1, <2>4, <3>2, <3>5
    <3>6. CASE p # <<off, o>> /\ q = <<off, o>>
      BY <2>1, <2>4, <3>1, <3>6
    <3> QED
      BY <3>3, <3>4, <3>5, <3>6
  <2> QED
    BY <2>4 DEF Disjoint
<1>9. ASSUME NEW u \in Nat, Covered({<<off, from>>}, u)
      PROVE  Covered(Pieces(off, from, o), u)
  <2>1. off <= u /\ u < off + Pow2[from]
    BY <1>9 DEF Covered, In
  <2> DEFINE S == {i \in o .. from : u < off + Pow2[i]}
  <2>2. PICK m \in S : \A i \in S : m <= i
    <3>1. S \in SUBSET Nat /\ from \in S
      BY <1>1, <1>2, <2>1
    <3> HIDE DEF S
    <3> QED
      BY <3>1, HasSmallest
  <2>3. m \in o .. from /\ u < off + Pow2[m]
    OBVIOUS
  <2>4. CASE m = o
    <3>1. In(<<off, o>>, u)
      BY <2>1, <2>3, <2>4 DEF In
    <3> QED
      BY <3>1 DEF Covered, Pieces
  <2>5. CASE m # o
    <3>1. m - 1 \in o .. (from - 1) /\ m - 1 \in o .. from /\ ~(m <= m - 1) /\ m - 1 \in Nat /\ (m - 1) + 1 = m
      BY <1>1, <1>2, <2>3, <2>5
    <3>2. ~(u < off + Pow2[m - 1])
      BY <2>2, <3>1
    <3>3. Pow2[m] = 2 * Pow2[m - 1] /\ Pow2[m - 1] \in Nat
      BY <3>1, Pow2Def
    <3>4. In(<<off + Pow2[m - 1], m - 1>>, u)
      BY <1>1, <2>3, <3>2, <3>3 DEF In
    <3> QED
      BY <3>1, <3>4 DEF Covered, Pieces
  <2> QED
    BY <2>4, <2>5
<1>10. ASSUME NEW u \in Nat, Covered(Pieces(off, from, o), u)
       PROVE  Covered({<<off, from>>}, u)
  <2>1. PICK p \in Pieces(off, from, o) : In(p, u)
    BY <1>10 DEF Covered
  <2>2. off <= u /\ u < off + Pow2[from]
    <3>1. CASE p = <<off, o>>
      BY <1>1, <1>3, <2>1, <3>1 DEF In
    <3>2. ASSUME NEW j \in o .. (from - 1), p = <<off + Pow2[j], j>>
          PROVE  off <= u /\ u < off + Pow2[from]
      <4>1. off + Pow2[j] <= u /\ u < (off + Pow2[j]) + Pow2[j]
        BY <2>1, <3>2 DEF In
      <4> QED
        BY <1>1, <1>4, <4>1
    <3> QED
      BY <3>1, <3>2 DEF Pieces
  <2> QED
    BY <2>2 DEF Covered, In
<1> QED
  BY <1>7, <1>8, <1>9, <1>10

\* The tags after a split.
LEMMA SplitTags ==
  ASSUME NEW s, NEW tc, Sound(s, tc), NEW from \in Orders, NEW o \in 0 .. from,
         s.lists[from] # <<>>,
         NEW off, off = Head(s.lists[from]),
         NEW t, t = TakeAndSplit(s, from, o)
  PROVE  /\ off \in Units /\ s.tag[off] = FreeTag(from) /\ <<off, from>> \in Blocks(s, tc)
         /\ Fits(<<off, from>>) /\ o \in Orders
         /\ \A j \in o .. (from - 1) :
              /\ off + Pow2[j] \in Units /\ off + Pow2[j] # off /\ j \in Orders /\ j # from
              /\ s.tag[off + Pow2[j]] = NoTag /\ \A i \in Orders : ~Contains(tc[i], off + Pow2[j])
              /\ t.tag[off + Pow2[j]] = FreeTag(j)
         /\ t.tag[off] = AllocTag(o)
         /\ \A u \in Units : u # off /\ (\A j \in o .. (from - 1) : u # off + Pow2[j])
                             => t.tag[u] = s.tag[u]
<1> DEFINE halves == o .. (from - 1)
<1>1. s \in Spaces /\ s.lists[from] \in Seq(Units) /\ IsInjective(s.lists[from])
  BY DEF Sound, Spaces, ListedOnce
<1>2. off \in Units /\ Contains(s.lists[from], off)
  BY <1>1, TailList
<1>3. s.tag[off] = FreeTag(from)
  BY <1>2 DEF Sound, Tagged
<1>4. <<off, from>> \in Blocks(s, tc)
  BY <1>2, <1>3 DEF Blocks
<1>5. Fits(<<off, from>>)
  BY <1>4 DEF Sound, Partition
<1>6. off \in Nat /\ from \in Nat /\ Pow2[from] \in Nat /\ from <= MaxOrder - 1
  BY <1>5, FitsProps
<1>7. o \in Orders /\ o \in Nat
  BY <1>6, MaxOrderProps DEF Orders
<1>8. ASSUME NEW j \in halves
      PROVE  /\ j \in Nat /\ j \in Orders /\ j # from /\ Pow2[j] \in Nat /\ Pow2[j] >= 1
             /\ off + Pow2[j] \in Nat /\ off < off + Pow2[j] /\ off + Pow2[j] < off + Pow2[from]
  <2>1. j \in Nat /\ j \in Orders /\ j < from
    BY <1>6, <1>7, MaxOrderProps DEF Orders
  <2>2. Pow2[j] \in Nat /\ Pow2[j] >= 1 /\ 2 * Pow2[j] <= Pow2[from]
    BY <1>6, <2>1, Pow2Pos, Pow2Mono
  <2>3. j # from
    BY <1>6, <2>1
  <2>4. off + Pow2[j] \in Nat /\ off < off + Pow2[j] /\ off + Pow2[j] < off + Pow2[from]
    <3>1. \A a, b, c \in Nat : b >= 1 /\ 2 * b <= c => a + b \in Nat /\ a < a + b /\ a + b < a + c
      OBVIOUS
    <3> QED
      BY <1>6, <2>2, <3>1, ZenonT(20)
  <2> QED
    BY <2>1, <2>2, <2>3, <2>4
<1>9. t.tag = [u \in Units |-> IF u = off THEN AllocTag(o)
                               ELSE IF \E j \in halves : u = off + Pow2[j]
                               THEN FreeTag(CHOOSE j \in halves : u = off + Pow2[j]) ELSE s.tag[u]]
  BY DEF TakeAndSplit
<1>10. ASSUME NEW j \in halves
       PROVE  /\ off + Pow2[j] \in Units /\ off + Pow2[j] # off
              /\ s.tag[off + Pow2[j]] = NoTag /\ \A i \in Orders : ~Contains(tc[i], off + Pow2[j])
              /\ t.tag[off + Pow2[j]] = FreeTag(j)
  <2> DEFINE w == off + Pow2[j]
  <2>1. w \in Nat /\ off < w /\ w < off + Pow2[from] /\ w # off
    BY <1>6, <1>8
  <2>2. /\ w \in Units /\ s.tag[w] = NoTag
        /\ \A i \in Orders : ~Contains(tc[i], w)
    <3> HIDE DEF w
    <3> QED
      BY <1>4, <2>1, Interior
  <2>3. ASSUME NEW k \in halves, w = off + Pow2[k]
        PROVE  k = j
    <3>0. k \in Nat /\ j \in Nat /\ Pow2[k] \in Nat /\ Pow2[j] \in Nat
      <4> HIDE DEF halves
      <4> QED
        BY <1>8
    <3>1. k \in Nat /\ j \in Nat /\ Pow2[k] \in Nat /\ Pow2[j] \in Nat /\ Pow2[k] = Pow2[j]
      BY <1>6, <2>3, <3>0
    <3>2. ~(k < j) /\ ~(j < k)
      <4>1. Pow2[k] >= 1 /\ Pow2[j] >= 1
        BY <1>8
      <4> QED
        BY <3>1, <4>1, Pow2Mono
    <3> QED
      BY <3>1, <3>2
  <2>4. (CHOOSE k \in halves : w = off + Pow2[k]) = j
    <3>1. w = off + Pow2[j]
      OBVIOUS
    <3> HIDE DEF w, halves
    <3> QED
      BY <2>3, <3>1
  <2>5. t.tag[w] = FreeTag(j)
    <3>1. \E k \in halves : w = off + Pow2[k]
      OBVIOUS
    <3> HIDE DEF w, halves
    <3> QED
      BY <1>9, <2>1, <2>2, <2>4, <3>1
  <2> QED
    BY <2>1, <2>2, <2>5
<1>11. t.tag[off] = AllocTag(o)
  BY <1>2, <1>9
<1>12. ASSUME NEW u \in Units, u # off, \A j \in halves : u # off + Pow2[j]
       PROVE  t.tag[u] = s.tag[u]
  <2> HIDE DEF halves
  <2> QED
    BY <1>9, <1>12
<1> QED
  BY <1>2, <1>3, <1>4, <1>5, <1>7, <1>8, <1>10, <1>11, <1>12

\* A split keeps the sheet sound; the block that stays is in use, and no other
\* block changes hands.
LEMMA SplitSound ==
  ASSUME NEW s, NEW tc, Sound(s, tc), NEW from \in Orders, NEW o \in 0 .. from,
         s.lists[from] # <<>>,
         NEW off, off = Head(s.lists[from]),
         NEW t, t = TakeAndSplit(s, from, o)
  PROVE  Cut(s, tc, from, o, off, t)
<1> DEFINE halves == o .. (from - 1)
<1>0. /\ off \in Units /\ s.tag[off] = FreeTag(from) /\ <<off, from>> \in Blocks(s, tc)
      /\ Fits(<<off, from>>) /\ o \in Orders
      /\ \A j \in o .. (from - 1) :
           /\ off + Pow2[j] \in Units /\ off + Pow2[j] # off /\ j \in Orders /\ j # from
           /\ s.tag[off + Pow2[j]] = NoTag /\ \A i \in Orders : ~Contains(tc[i], off + Pow2[j])
           /\ t.tag[off + Pow2[j]] = FreeTag(j)
      /\ t.tag[off] = AllocTag(o)
      /\ \A u \in Units : u # off /\ (\A j \in o .. (from - 1) : u # off + Pow2[j])
                          => t.tag[u] = s.tag[u]
  BY SplitTags
<1>1. /\ off \in Units /\ s.tag[off] = FreeTag(from) /\ <<off, from>> \in Blocks(s, tc)
      /\ Fits(<<off, from>>) /\ o \in Orders
  BY <1>0
<1>2. ASSUME NEW j \in halves
      PROVE  /\ off + Pow2[j] \in Units /\ off + Pow2[j] # off /\ j \in Orders /\ j # from
             /\ s.tag[off + Pow2[j]] = NoTag /\ \A i \in Orders : ~Contains(tc[i], off + Pow2[j])
             /\ t.tag[off + Pow2[j]] = FreeTag(j)
  BY <1>0
<1>3. t.tag[off] = AllocTag(o)
  BY <1>0
<1>4. ASSUME NEW u \in Units, u # off, \A j \in halves : u # off + Pow2[j]
      PROVE  t.tag[u] = s.tag[u]
  BY <1>0, <1>4
<1>5. s \in Spaces /\ tc \in Caches
  BY DEF Sound
<1>6. /\ t.lists = [j \in Orders |->
                   IF j \in halves THEN <<off + Pow2[j]>> \o s.lists[j]
                   ELSE IF j = from THEN Tail(s.lists[j]) ELSE s.lists[j]]
      /\ t.mask = (IF Len(s.lists[from]) = 1 THEN s.mask \ {from} ELSE s.mask) \cup halves
      /\ t = [lists |-> t.lists, mask |-> t.mask, tag |-> t.tag]
      /\ t.tag = [u \in Units |-> t.tag[u]]
  BY DEF TakeAndSplit
<1> HIDE DEF halves
<1>7. ASSUME NEW u \in Units, NEW i \in Orders
      PROVE  t.tag[u] = FreeTag(i) <=> (i \in halves /\ u = off + Pow2[i])
                                       \/ (s.tag[u] = FreeTag(i) /\ u # off)
  <2>1. CASE u = off
    BY <1>2, <1>3, <2>1, TagFacts
  <2>2. CASE \E j \in halves : u = off + Pow2[j]
    <3>1. PICK j \in halves : u = off + Pow2[j]
      BY <2>2
    <3>2. t.tag[u] = FreeTag(j) /\ s.tag[u] = NoTag
      BY <1>2, <3>1
    <3>3. i \in halves /\ u = off + Pow2[i] => i = j
      <4> SUFFICES ASSUME i \in halves, u = off + Pow2[i] PROVE i = j
        OBVIOUS
      <4>1. t.tag[u] = FreeTag(i)
        BY <1>2
      <4>2. FreeTag(i) = FreeTag(j)
        BY <3>2, <4>1
      <4> QED
        BY <4>2, TagFacts
    <3> QED
      BY <3>1, <3>2, <3>3, TagFacts
  <2>3. CASE u # off /\ \A j \in halves : u # off + Pow2[j]
    BY <1>4, <2>3
  <2> QED
    BY <2>1, <2>2, <2>3
<1>8. ASSUME NEW u \in Units, NEW i \in Orders
      PROVE  t.tag[u] = AllocTag(i) <=> (u = off /\ i = o) \/ s.tag[u] = AllocTag(i)
  <2>1. CASE u = off
    BY <1>1, <1>3, <2>1, TagFacts
  <2>2. CASE \E j \in halves : u = off + Pow2[j]
    <3>1. PICK j \in halves : u = off + Pow2[j]
      BY <2>2
    <3> QED
      BY <1>2, <3>1, TagFacts
  <2>3. CASE u # off /\ \A j \in halves : u # off + Pow2[j]
    BY <1>4, <2>3
  <2> QED
    BY <2>1, <2>2, <2>3
<1>9. CachedUntagged(t, tc)
  <2>1. ASSUME NEW u \in Units, NEW i \in Orders, Contains(tc[i], u)
        PROVE  t.tag[u] = NoTag
    <3>1. s.tag[u] = NoTag
      BY <2>1 DEF Sound, CachedUntagged
    <3>2. u # off
      BY <1>1, <3>1, TagFacts
    <3>3. \A j \in halves : u # off + Pow2[j]
      BY <1>2, <2>1
    <3> QED
      BY <1>4, <3>1, <3>2, <3>3
  <2> QED
    BY <2>1 DEF CachedUntagged
<1>10. Blocks(t, tc) = (Blocks(s, tc) \ {<<off, from>>}) \cup Pieces(off, from, o)
  <2>1. ASSUME NEW u \in Units, NEW i \in Orders
        PROVE  <<u, i>> \in Blocks(t, tc)
                 <=> (<<u, i>> \in Blocks(s, tc) /\ <<u, i>> # <<off, from>>)
                     \/ <<u, i>> \in Pieces(off, from, o)
    <3>1. <<u, i>> \in Pieces(off, from, o) <=> (u = off /\ i = o) \/ (i \in halves /\ u = off + Pow2[i])
      BY DEF Pieces, halves
    <3>2. <<u, i>> \in Blocks(t, tc) <=> \/ t.tag[u] = FreeTag(i) \/ t.tag[u] = AllocTag(i)
                                         \/ Contains(tc[i], u)
      BY DEF Blocks
    <3>3. <<u, i>> \in Blocks(s, tc) <=> \/ s.tag[u] = FreeTag(i) \/ s.tag[u] = AllocTag(i)
                                         \/ Contains(tc[i], u)
      BY DEF Blocks
    <3>4. CASE u = off
      <4>1. ~Contains(tc[i], u)
        BY <1>1, <3>4, TagFacts DEF Sound, CachedUntagged
      <4>2. ~(i \in halves /\ u = off + Pow2[i])
        BY <1>2, <3>4
      <4>3. s.tag[u] # AllocTag(i) /\ (s.tag[u] = FreeTag(i) <=> i = from)
        BY <1>1, <3>4, TagFacts
      <4>4. t.tag[u] # FreeTag(i) /\ (t.tag[u] = AllocTag(i) <=> i = o)
        BY <1>3, <3>4, TagFacts
      <4> QED
        BY <3>1, <3>2, <3>3, <3>4, <4>1, <4>2, <4>3, <4>4
    <3>5. CASE u # off
      BY <1>7, <1>8, <3>1, <3>2, <3>3, <3>5
    <3> QED
      BY <3>4, <3>5
  <2>2. Pieces(off, from, o) \subseteq Units \X Orders
    BY <1>1, PiecesPartition DEF Fits
  <2>3. Blocks(s, tc) \subseteq Units \X Orders /\ Blocks(t, tc) \subseteq Units \X Orders
    BY DEF Blocks
  <2>4. ASSUME NEW p \in Units \X Orders
        PROVE  p \in Blocks(t, tc) <=> (p \in Blocks(s, tc) /\ p # <<off, from>>)
                                       \/ p \in Pieces(off, from, o)
    <3>1. PICK u \in Units, i \in Orders : p = <<u, i>>
      OBVIOUS
    <3> QED
      BY <2>1, <3>1
  <2> QED
    BY <2>2, <2>3, <2>4
<1>11. Partition(Blocks(t, tc))
  <2>1. {<<off, from>>} \in SUBSET Blocks(s, tc)
    BY <1>1
  <2>2. /\ \A p \in Pieces(off, from, o) : Fits(p)
        /\ Disjoint(Pieces(off, from, o))
        /\ \A u \in Nat : Covered({<<off, from>>}, u) <=> Covered(Pieces(off, from, o), u)
    BY <1>1, PiecesPartition
  <2>3. Partition(Blocks(s, tc))
    BY DEF Sound
  <2>4. Partition((Blocks(s, tc) \ {<<off, from>>}) \cup Pieces(off, from, o))
    BY <2>1, <2>2, <2>3, Replace
  <2> QED
    BY <1>10, <2>4
<1>12. ASSUME NEW j \in Orders
       PROVE  /\ t.lists[j] \in Seq(Units) /\ IsInjective(t.lists[j])
              /\ \A u \in Units : Contains(t.lists[j], u) <=> (j \in halves /\ u = off + Pow2[j])
                                                               \/ (Contains(s.lists[j], u) /\ ~(j = from /\ u = off))
  <2>1. s.lists[j] \in Seq(Units) /\ IsInjective(s.lists[j])
    BY DEF Sound, Spaces, ListedOnce
  <2>2. CASE j \in halves
    <3>1. t.lists[j] = <<off + Pow2[j]>> \o s.lists[j] /\ off + Pow2[j] \in Units /\ j # from
      BY <1>2, <1>6, <2>2
    <3>2. ~Contains(s.lists[j], off + Pow2[j])
      BY <1>2, <2>2, TagFacts DEF Sound, Tagged
    <3> QED
      BY <2>1, <2>2, <3>1, <3>2, ConsList
  <2>3. CASE j = from
    <3>1. j \notin halves
      BY <1>2, <2>3
    <3>2. t.lists[j] = Tail(s.lists[j]) /\ s.lists[j] # <<>>
      BY <1>6, <2>3, <3>1
    <3>3. off = Head(s.lists[j])
      BY <2>3
    <3> QED
      BY <2>1, <2>3, <3>1, <3>2, <3>3, TailList
  <2>4. CASE j \notin halves /\ j # from
    BY <1>6, <2>1, <2>4
  <2> QED
    BY <2>2, <2>3, <2>4
<1>13. t \in Spaces
  <2>1. t.lists \in [Orders -> Seq(Units)]
    <3>1. t.lists = [j \in Orders |-> t.lists[j]]
      BY <1>6
    <3> QED
      BY <1>12, <3>1
  <2>2. halves \subseteq Orders /\ s.mask \subseteq Orders
    BY <1>2, <1>5 DEF Spaces
  <2>3. t.mask \in SUBSET Orders
    BY <1>6, <2>2
  <2>4. t.tag \in [Units -> BlockTags]
    <3>1. ASSUME NEW u \in Units
          PROVE  t.tag[u] \in BlockTags
      <4>1. s.tag[u] \in BlockTags
        BY <1>5 DEF Spaces
      <4>2. AllocTag(o) \in BlockTags /\ \A j \in halves : FreeTag(j) \in BlockTags
        BY <1>1, <1>2 DEF BlockTags
      <4> QED
        BY <1>2, <1>3, <1>4, <4>1, <4>2
    <3> QED
      BY <1>6, <3>1
  <2> QED
    BY <1>6, <2>1, <2>3, <2>4 DEF Spaces
<1>14. Tagged(t)
  <2>1. ASSUME NEW u \in Units, NEW j \in Orders
        PROVE  t.tag[u] = FreeTag(j) <=> Contains(t.lists[j], u)
    <3>1. s.tag[u] = FreeTag(j) <=> Contains(s.lists[j], u)
      BY DEF Sound, Tagged
    <3>2. s.tag[u] = FreeTag(j) /\ u = off => j = from
      BY <1>1, TagFacts
    <3> QED
      BY <1>7, <1>12, <3>1, <3>2
  <2> QED
    BY <2>1 DEF Tagged
<1>15. Masked(t)
  <2>1. ASSUME NEW j \in Orders
        PROVE  j \in t.mask <=> t.lists[j] # <<>>
    <3>1. s.lists[j] \in Seq(Units) /\ IsInjective(s.lists[j]) /\ (j \in s.mask <=> s.lists[j] # <<>>)
      BY DEF Sound, Spaces, ListedOnce, Masked
    <3>2. CASE j \in halves
      <4>1. t.lists[j] = <<off + Pow2[j]>> \o s.lists[j] /\ off + Pow2[j] \in Units
        BY <1>2, <1>6, <3>2
      <4> QED
        BY <1>6, <3>1, <3>2, <4>1, ConsList
    <3>3. CASE j = from
      <4>1. j \notin halves
        BY <1>2, <3>3
      <4>2. t.lists[j] = Tail(s.lists[j]) /\ s.lists[j] # <<>>
        BY <1>6, <3>3, <4>1
      <4>3. Tail(s.lists[j]) \in Seq(Units) /\ Len(Tail(s.lists[j])) = Len(s.lists[j]) - 1 /\ Len(s.lists[j]) \in Nat
        BY <3>1, <4>2, TailList
      <4>4. Tail(s.lists[j]) = <<>> <=> Len(s.lists[j]) = 1
        <5>1. \A x \in Seq(Units) : x = <<>> <=> Len(x) = 0
          OBVIOUS
        <5>2. Tail(s.lists[j]) = <<>> <=> Len(Tail(s.lists[j])) = 0
          BY <4>3, <5>1
        <5> QED
          BY <4>3, <5>2
      <4>5. j \in t.mask <=> Len(s.lists[j]) # 1
        BY <1>6, <3>1, <3>3, <4>1, <4>2
      <4> QED
        BY <4>2, <4>4, <4>5
    <3>4. CASE j \notin halves /\ j # from
      BY <1>6, <3>1, <3>4
    <3> QED
      BY <3>2, <3>3, <3>4
  <2> QED
    BY <2>1 DEF Masked
<1>16. Apart(t)
  <2>1. ASSUME NEW u \in Units, NEW i \in Orders, i < MaxOrder - 1, t.tag[u] = FreeTag(i),
               t.tag[Buddy(u, i)] = FreeTag(i)
        PROVE  FALSE
    <3> DEFINE b == Buddy(u, i)
    <3>1. <<u, i>> \in Blocks(t, tc)
      BY <2>1 DEF Blocks
    <3>2. Fits(<<u, i>>)
      BY <1>11, <3>1 DEF Partition
    <3>3. Dyadic(u, i) /\ u \in Nat /\ i \in Nat /\ i + 1 \in Nat /\ i + 1 <= MaxOrder - 1
      BY <2>1, <3>2, FitsProps, MaxOrderProps
    <3>4. b \in Nat /\ Dyadic(b, i) /\ Buddy(b, i) = u
      BY <3>3, BuddyHalves, BuddyBack
    <3>5. ASSUME NEW j \in halves
          PROVE  Buddy(off + Pow2[j], j) = off
      <4>1. j \in Nat /\ from \in Nat /\ j + 1 \in Nat /\ j + 1 <= from /\ j <= from
        BY FitsProps, <1>1, MaxOrderProps DEF halves, Orders
      <4>2. Dyadic(off, from) /\ off \in Nat
        BY <1>1, FitsProps
      <4>3. Dyadic(off, j) /\ Dyadic(off, j + 1)
        BY <4>1, <4>2, DyadicDown
      <4>4. Buddy(off, j) = off + Pow2[j]
        <5>1. /\ Buddy(off, j) \in Nat
              /\ \/ Buddy(off, j) = off + Pow2[j]
                 \/ Dyadic(Buddy(off, j), j + 1) /\ off = Buddy(off, j) + Pow2[j]
          BY <4>1, <4>3, BuddyHalves
        <5>2. ASSUME Dyadic(Buddy(off, j), j + 1), off = Buddy(off, j) + Pow2[j]
              PROVE  FALSE
          <6>1. Pow2[j] \in Nat /\ Pow2[j] >= 1 /\ Pow2[j + 1] = 2 * Pow2[j]
            BY <4>1, Pow2Pos, Pow2Def
          <6>2. Buddy(off, j) < off
            BY <5>1, <5>2, <6>1
          <6>3. Buddy(off, j) + Pow2[j + 1] <= off
            BY <4>1, <4>3, <5>2, <6>2, DyadicApart
          <6> QED
            BY <4>2, <5>1, <5>2, <6>1, <6>3
        <5> QED
          BY <5>1, <5>2
      <4>5. Buddy(Buddy(off, j), j) = off
        BY <4>1, <4>3, BuddyBack
      <4> QED
        BY <4>4, <4>5
    <3>6. b \in Units
      BY <2>1, <3>2, BuddyFits, FitsProps
    <3> HIDE DEF b
    <3>7. t.tag[b] = FreeTag(i)
      BY <2>1 DEF b
    <3>8. u # off /\ b # off
      BY <1>3, <2>1, <3>7, TagFacts
    <3>9. ~(i \in halves /\ u = off + Pow2[i]) /\ ~(i \in halves /\ b = off + Pow2[i])
      BY <3>4, <3>5, <3>8 DEF b
    <3>10. s.tag[u] = FreeTag(i) /\ s.tag[b] = FreeTag(i)
      BY <1>7, <2>1, <3>6, <3>7, <3>9
    <3> QED
      BY <2>1, <3>10 DEF Sound, Apart, b
  <2> QED
    BY <2>1 DEF Apart
<1>17. ListedOnce(t)
  BY <1>12 DEF ListedOnce
<1>18. Fits(<<off, o>>)
  BY <1>1, PiecesPartition DEF Pieces
<1>19. Sound(t, tc)
  BY <1>5, <1>9, <1>11, <1>13, <1>14, <1>15, <1>16, <1>17 DEF Sound
<1> QED
  BY <1>1, <1>8, <1>18, <1>19 DEF Cut, Adds

-----------------------------------------------------------------------------
(* Merging *)

\* Joining starts at the block's order and stops at the first order at which the
\* buddy is not free.
LEMMA MergeTopProps ==
  ASSUME NEW s, NEW off, NEW o \in Orders
  PROVE  /\ MergeTop(s, off, o) \in Orders /\ o <= MergeTop(s, off, o)
         /\ ~Joins(s, off, MergeTop(s, off, o))
         /\ \A j \in o .. (MergeTop(s, off, o) - 1) : Joins(s, off, j)
<1> DEFINE S == {j \in o .. (MaxOrder - 1) : ~Joins(s, off, j)}
           top == MergeTop(s, off, o)
<1>1. o \in Nat /\ MaxOrder - 1 \in Nat /\ o <= MaxOrder - 1 /\ MaxOrder \in Nat
  BY MaxOrderProps DEF Orders
<1>2. MaxOrder - 1 \in S
  BY <1>1 DEF Joins
<1>3. PICK m \in S : \A j \in S : m <= j
  <2>1. S \in SUBSET Nat
    BY <1>1
  <2> HIDE DEF S
  <2> QED
    BY <1>2, <2>1, HasSmallest
<1>4. top \in S /\ \A j \in S : top <= j
  <2>1. top = Min(S)
    BY DEF MergeTop
  <2> HIDE DEF S, top
  <2> QED
    BY <1>3, <2>1 DEF Min
<1> HIDE DEF top
<1>5. top \in Orders /\ o <= top /\ ~Joins(s, off, top) /\ top \in Nat /\ top <= MaxOrder - 1
  BY <1>1, <1>4 DEF Orders
<1>6. ASSUME NEW j \in o .. (top - 1)
      PROVE  Joins(s, off, j)
  <2>1. j \in o .. (MaxOrder - 1) /\ ~(top <= j)
    BY <1>1, <1>5
  <2> QED
    BY <1>4, <2>1
<1> QED
  BY <1>5, <1>6 DEF top

\* The units of an aligned block inside the largest one.
LEMMA AtFits ==
  ASSUME NEW off \in Nat, off < TopUnits, NEW j \in Orders
  PROVE  Fits(<<At(off, j), j>>)
<1>1. j \in Nat /\ MaxOrder - 1 \in Nat /\ j <= MaxOrder - 1
  BY MaxOrderProps DEF Orders
<1>2. /\ At(off, j) \in Nat /\ Dyadic(At(off, j), j)
      /\ At(off, j) <= off /\ off < At(off, j) + Pow2[j]
  BY <1>1, AtProps
<1>3. Dyadic(0, MaxOrder - 1)
  <2>1. 0 \in Nat /\ 0 = 0 * Pow2[MaxOrder - 1]
    BY MaxOrderProps DEF TopUnits
  <2> QED
    BY <2>1 DEF Dyadic
<1>4. 0 <= off /\ off < 0 + Pow2[MaxOrder - 1]
  BY MaxOrderProps DEF TopUnits
<1>5. At(off, j) + Pow2[j] <= 0 + Pow2[MaxOrder - 1]
  BY <1>1, <1>2, <1>3, <1>4, Nest
<1>6. At(off, j) + Pow2[j] <= TopUnits
  BY <1>5, MaxOrderProps DEF TopUnits
<1> QED
  BY <1>2, <1>6, FitsIntro

\* The blocks that a merge joins: the freed one and its buddies.
Joined(off, o, top) ==
  {<<off, o>>} \cup {<<Buddy(At(off, j), j), j>> : j \in o .. (top - 1)}

\* One step of the joining.
LEMMA JoinStep ==
  ASSUME NEW off \in Nat, NEW j \in Nat, NEW u \in Nat
  PROVE  In(<<At(off, j + 1), j + 1>>, u)
           <=> In(<<At(off, j), j>>, u) \/ In(<<Buddy(At(off, j), j), j>>, u)
<1> DEFINE a == At(off, j)
           b == Buddy(a, j)
           c == At(off, j + 1)
<1>1. Pow2[j] \in Nat /\ Pow2[j + 1] = 2 * Pow2[j] /\ j + 1 \in Nat
  BY Pow2Def
<1>2. a \in Nat /\ Dyadic(a, j) /\ c \in Nat
  BY <1>1, AtProps
<1>3. b \in Nat
  BY <1>2, BuddyHalves
<1>4. \/ c = a /\ b = a + Pow2[j]
      \/ c = b /\ a = b + Pow2[j]
  BY AtStep
<1> HIDE DEF a, b, c
<1>5. In(<<c, j + 1>>, u) <=> In(<<a, j>>, u) \/ In(<<b, j>>, u)
  BY <1>1, <1>2, <1>3, <1>4 DEF In
<1> QED
  BY <1>5 DEF a, b, c

\* The blocks joined up to order i make up the block of order i around off.
LEMMA JoinedUnits ==
  ASSUME NEW off \in Nat, NEW o \in Nat, Dyadic(off, o), NEW i \in Nat, o <= i, NEW u \in Nat
  PROVE  In(<<At(off, i), i>>, u) <=> Covered(Joined(off, o, i), u)
<1> DEFINE B(j) == In(<<Buddy(At(off, j), j), j>>, u)
           A(j) == In(<<At(off, j), j>>, u)
           C(k) == A(k) <=> In(<<off, o>>, u) \/ \E j \in o .. (k - 1) : B(j)
<1>1. At(off, o) = off
  <2>1. Pow2[o] \in Nat /\ Pow2[o] >= 1
    BY Pow2Pos
  <2>2. off <= off /\ off < off + Pow2[o]
    BY <2>1
  <2> QED
    BY <2>2, AtUnique
<1>2. \A j \in Nat : A(j + 1) <=> A(j) \/ B(j)
  BY JoinStep
<1> HIDE DEF B
<1>3. C(i)
  <2> SUFFICES ASSUME ~C(i) PROVE FALSE
    OBVIOUS
  <2> DEFINE S == {k \in o .. i : ~C(k)}
  <2>1. PICK m \in S : \A k \in S : m <= k
    <3>1. S \in SUBSET Nat /\ i \in S
      OBVIOUS
    <3> HIDE DEF S
    <3> QED
      BY <3>1, HasSmallest
  <2>2. C(o)
    <3>1. o .. (o - 1) = {}
      OBVIOUS
    <3> QED
      BY <1>1, <3>1
  <2>3. m # o /\ m \in o .. i /\ ~C(m)
    BY <2>2
  <2>4. m - 1 \in o .. i /\ ~(m <= m - 1) /\ m - 1 \in Nat /\ (m - 1) + 1 = m
    BY <2>3
  <2> HIDE DEF A
  <2>5. C(m - 1)
    BY <2>1, <2>4
  <2>6. A(m) <=> A(m - 1) \/ B(m - 1)
    BY <1>2, <2>4
  <2>7. \A j : j \in o .. (m - 1) <=> j \in o .. (m - 1 - 1) \/ j = m - 1
    BY <2>3, <2>4
  <2>8. C(m)
    BY <2>5, <2>6, <2>7
  <2> QED
    BY <2>3, <2>8
<1>4. Covered(Joined(off, o, i), u) <=> In(<<off, o>>, u) \/ \E j \in o .. (i - 1) : B(j)
  BY DEF Covered, Joined, B
<1> QED
  BY <1>3, <1>4

\* The larger half of a joined pair starts in the middle of the next block.
LEMMA UpperHalf ==
  ASSUME NEW off \in Nat, NEW j \in Nat
  PROVE  /\ Max({At(off, j), Buddy(At(off, j), j)}) = At(off, j + 1) + Pow2[j]
         /\ At(off, j) \in {At(off, j + 1), At(off, j + 1) + Pow2[j]}
         /\ Buddy(At(off, j), j) \in {At(off, j + 1), At(off, j + 1) + Pow2[j]}
         /\ Buddy(At(off, j), j) \in Nat
<1> DEFINE a == At(off, j)
           b == Buddy(a, j)
           c == At(off, j + 1)
<1>1. Pow2[j] \in Nat /\ Pow2[j] >= 1 /\ j + 1 \in Nat
  BY Pow2Pos
<1>2. a \in Nat /\ Dyadic(a, j) /\ c \in Nat
  BY <1>1, AtProps
<1>3. b \in Nat
  BY <1>2, BuddyHalves
<1>4. \/ c = a /\ b = a + Pow2[j]
      \/ c = b /\ a = b + Pow2[j]
  BY AtStep
<1> HIDE DEF a, b, c
<1>5. Max({a, b}) = c + Pow2[j]
  <2>1. c + Pow2[j] \in {a, b} /\ \A x \in {a, b} : c + Pow2[j] >= x
    BY <1>1, <1>2, <1>3, <1>4
  <2>2. Max({a, b}) \in {a, b} /\ \A x \in {a, b} : Max({a, b}) >= x
    BY <2>1 DEF Max
  <2> QED
    BY <1>1, <1>2, <1>3, <2>1, <2>2
<1>6. a \in {c, c + Pow2[j]} /\ b \in {c, c + Pow2[j]}
  BY <1>4
<1> QED
  BY <1>3, <1>5, <1>6 DEF a, b, c

\* Where the joined blocks start: at the start of the merged block or in the
\* middle of one of the blocks on the way, which lies inside the merged one.
LEMMA JoinedStarts ==
  ASSUME NEW off \in Nat, NEW o \in Nat, Dyadic(off, o), NEW top \in Nat, o <= top,
         NEW I, I = {Max({At(off, j), Buddy(At(off, j), j)}) : j \in o .. (top - 1)}
  PROVE  /\ \A p \in Joined(off, o, top) : p[1] = At(off, top) \/ p[1] \in I
         /\ \A u \in I : u \in Nat /\ At(off, top) < u /\ u < At(off, top) + Pow2[top]
<1> DEFINE hi(j) == At(off, j + 1) + Pow2[j]
<1>1. ASSUME NEW j \in o .. (top - 1)
      PROVE  j \in Nat /\ j + 1 \in Nat /\ o <= j + 1 /\ j + 1 <= top /\ hi(j) \in I
             /\ j + 1 \in o .. top
  <2>1. j \in Nat /\ j + 1 \in Nat /\ o <= j + 1 /\ j + 1 <= top /\ j + 1 \in o .. top
    OBVIOUS
  <2>2. hi(j) = Max({At(off, j), Buddy(At(off, j), j)})
    BY <2>1, UpperHalf
  <2> HIDE DEF hi
  <2> QED
    BY <2>1, <2>2
<1>2. \A u \in I : \E j \in o .. (top - 1) : u = hi(j)
  <2>1. \A j \in o .. (top - 1) : hi(j) = Max({At(off, j), Buddy(At(off, j), j)})
    BY <1>1, UpperHalf
  <2> HIDE DEF hi
  <2> QED
    BY <2>1
<1>3. ASSUME NEW i \in o .. top
      PROVE  At(off, i) = At(off, top) \/ At(off, i) \in I
  <2> SUFFICES ASSUME ~(At(off, i) = At(off, top) \/ At(off, i) \in I) PROVE FALSE
    OBVIOUS
  <2> DEFINE S == {d \in 0 .. top : /\ top - d \in o .. top
                                    /\ ~(At(off, top - d) = At(off, top) \/ At(off, top - d) \in I)}
  <2>1. PICK d \in S : \A x \in S : d <= x
    <3>1. S \in SUBSET Nat
      OBVIOUS
    <3>2. top - i \in 0 .. top /\ top - (top - i) = i
      OBVIOUS
    <3>3. top - i \in S
      BY <3>2
    <3> HIDE DEF S
    <3> QED
      BY <3>1, <3>3, HasSmallest
  <2>2. d # 0 /\ d \in 0 .. top /\ top - d \in o .. top
    OBVIOUS
  <2>3. d - 1 \in 0 .. top /\ ~(d <= d - 1) /\ top - (d - 1) \in o .. top
        /\ top - d \in o .. (top - 1) /\ (top - d) + 1 = top - (d - 1) /\ top - d \in Nat
    BY <2>2
  <2>4. At(off, top - (d - 1)) = At(off, top) \/ At(off, top - (d - 1)) \in I
    BY <2>1, <2>3
  <2>5. At(off, top - d) \in {At(off, top - (d - 1)), hi(top - d)}
    <3>1. At(off, top - d) \in {At(off, (top - d) + 1), hi(top - d)}
      BY <2>3, UpperHalf
    <3> QED
      BY <2>3, <3>1
  <2>6. hi(top - d) \in I
    BY <1>1, <2>3
  <2> HIDE DEF hi
  <2> QED
    BY <2>1, <2>4, <2>5, <2>6
<1>4. At(off, o) = off
  <2>1. Pow2[o] \in Nat /\ Pow2[o] >= 1
    BY Pow2Pos
  <2>2. off <= off /\ off < off + Pow2[o]
    BY <2>1
  <2> QED
    BY <2>2, AtUnique
<1>5. ASSUME NEW p \in Joined(off, o, top)
      PROVE  p[1] = At(off, top) \/ p[1] \in I
  <2>1. CASE p = <<off, o>>
    <3>1. o \in o .. top /\ p[1] = off
      BY <2>1
    <3> QED
      BY <1>3, <1>4, <3>1
  <2>2. ASSUME NEW j \in o .. (top - 1), p = <<Buddy(At(off, j), j), j>>
        PROVE  p[1] = At(off, top) \/ p[1] \in I
    <3>1. Buddy(At(off, j), j) \in {At(off, j + 1), hi(j)}
      BY <1>1, UpperHalf
    <3>2. At(off, j + 1) = At(off, top) \/ At(off, j + 1) \in I
      BY <1>1, <1>3
    <3>3. hi(j) \in I
      BY <1>1
    <3> HIDE DEF hi
    <3> QED
      BY <2>2, <3>1, <3>2, <3>3
  <2> QED
    BY <2>1, <2>2 DEF Joined
<1>6. ASSUME NEW u \in I
      PROVE  u \in Nat /\ At(off, top) < u /\ u < At(off, top) + Pow2[top]
  <2>1. PICK j \in o .. (top - 1) : u = hi(j)
    BY <1>2
  <2>2. j \in Nat /\ j + 1 \in Nat /\ j + 1 <= top
    BY <1>1
  <2>3. /\ At(off, j + 1) \in Nat /\ Dyadic(At(off, j + 1), j + 1)
        /\ At(off, j + 1) <= off /\ off < At(off, j + 1) + Pow2[j + 1]
    BY <2>2, AtProps
  <2>4. /\ At(off, top) \in Nat /\ Dyadic(At(off, top), top)
        /\ At(off, top) <= off /\ off < At(off, top) + Pow2[top]
    BY AtProps
  <2>5. At(off, top) <= At(off, j + 1) /\ At(off, j + 1) + Pow2[j + 1] <= At(off, top) + Pow2[top]
    BY <2>2, <2>3, <2>4, Nest
  <2>6. Pow2[j] \in Nat /\ Pow2[j] >= 1 /\ Pow2[j + 1] = 2 * Pow2[j] /\ Pow2[top] \in Nat
    BY <2>2, Pow2Pos, Pow2Def
  <2> QED
    BY <2>1, <2>3, <2>4, <2>5, <2>6
<1> QED
  BY <1>5, <1>6

\* What a merge of the block <<off, o>> up to order top changes: the block freed
\* and the buddies it joins go, the merged block comes.
MergeShape(s, tc, off, o, t, top) ==
  /\ top \in Orders /\ top \in Nat /\ o \in Nat /\ off \in Nat /\ Fits(<<At(off, top), top>>)
  /\ \A j \in o .. (top - 1) : /\ j \in Orders /\ j # top /\ Joins(s, off, j)
                               /\ Buddy(At(off, j), j) \in Units
  /\ ~Joins(s, off, top)
  /\ Joined(off, o, top) \subseteq Blocks(s, tc)
  /\ \A u \in Nat : Covered(Joined(off, o, top), u) <=> Covered({<<At(off, top), top>>}, u)
  /\ t.tag[At(off, top)] = FreeTag(top)
  /\ \A u \in Units, i \in Orders :
       <<u, i>> \in Blocks(s, tc) /\ <<u, i>> \notin Joined(off, o, top)
         => t.tag[u] = s.tag[u] /\ u # At(off, top)
  /\ \A p \in Joined(off, o, top) : p[1] # At(off, top) => t.tag[p[1]] = NoTag
  /\ \A u \in Units : t.tag[u] \in {s.tag[u], NoTag, FreeTag(top)}
  /\ \A u \in Units : u # At(off, top) => t.tag[u] \in {s.tag[u], NoTag}

\* MergeAndFree changes just that.
LEMMA MergeTags ==
  ASSUME NEW s, NEW tc, Sound(s, tc), NEW off \in Units, NEW o \in Orders,
         s.tag[off] = AllocTag(o),
         NEW t, t = MergeAndFree(s, off, o),
         NEW top, top = MergeTop(s, off, o)
  PROVE  MergeShape(s, tc, off, o, t, top)
<1> DEFINE I == {Max({At(off, j), Buddy(At(off, j), j)}) : j \in o .. (top - 1)}
           J == Joined(off, o, top)
           m == <<At(off, top), top>>
<1>1. /\ top \in Orders /\ o <= top /\ ~Joins(s, off, top)
      /\ \A j \in o .. (top - 1) : Joins(s, off, j)
  BY MergeTopProps
<1>2. <<off, o>> \in Blocks(s, tc)
  BY DEF Blocks
<1>3. Fits(<<off, o>>)
  BY <1>2 DEF Sound, Partition
<1>4. /\ off \in Nat /\ o \in Nat /\ Dyadic(off, o) /\ off < TopUnits
  BY <1>3, FitsProps, MaxOrderProps
<1>5. top \in Nat /\ top <= MaxOrder - 1 /\ MaxOrder \in Nat
  BY <1>1, MaxOrderProps DEF Orders
<1>6. Fits(m)
  BY <1>1, <1>4, AtFits
<1>7. ASSUME NEW j \in o .. (top - 1)
      PROVE  /\ j \in Orders /\ j # top /\ Joins(s, off, j)
             /\ Buddy(At(off, j), j) \in Units
             /\ <<Buddy(At(off, j), j), j>> \in Blocks(s, tc)
  <2>1. j \in Orders /\ j < top /\ j < MaxOrder - 1 /\ j # top
    BY <1>4, <1>5 DEF Orders
  <2>2. Joins(s, off, j)
    BY <1>1
  <2>3. Fits(<<At(off, j), j>>)
    BY <1>4, <2>1, AtFits
  <2>4. Buddy(At(off, j), j) \in Units
    BY <2>1, <2>3, BuddyFits, FitsProps
  <2>5. s.tag[Buddy(At(off, j), j)] = FreeTag(j)
    BY <2>2 DEF Joins
  <2> QED
    BY <2>1, <2>2, <2>4, <2>5 DEF Blocks
<1>8. J \subseteq Blocks(s, tc)
  BY <1>2, <1>7 DEF Joined
<1>9. \A u \in Nat : Covered(J, u) <=> Covered({m}, u)
  <2>1. \A u \in Nat : In(m, u) <=> Covered(J, u)
    BY <1>1, <1>4, <1>5, JoinedUnits
  <2>2. \A u : Covered({m}, u) <=> In(m, u)
    BY DEF Covered
  <2> HIDE DEF m, J
  <2> QED
    BY <2>1, <2>2
<1>10. t.tag = [u \in Units |-> IF u = At(off, top) THEN FreeTag(top)
                                ELSE IF u \in I THEN NoTag ELSE s.tag[u]]
  BY DEF MergeAndFree
<1>11. /\ \A p \in J : p[1] = At(off, top) \/ p[1] \in I
       /\ \A u \in I : u \in Nat /\ At(off, top) < u /\ u < At(off, top) + Pow2[top]
  <2>1. I = {Max({At(off, j), Buddy(At(off, j), j)}) : j \in o .. (top - 1)}
    OBVIOUS
  <2> HIDE DEF I
  <2> QED
    BY <1>1, <1>4, <1>5, <2>1, JoinedStarts
<1>12. /\ At(off, top) \in Units /\ At(off, top) \in Nat /\ Pow2[top] \in Nat /\ Pow2[top] >= 1
  BY <1>6, FitsProps
<1> HIDE DEF I
<1>13. t.tag[At(off, top)] = FreeTag(top)
  BY <1>10, <1>12
<1>14. ASSUME NEW u \in Units, NEW i \in Orders, <<u, i>> \in Blocks(s, tc), <<u, i>> \notin J
       PROVE  t.tag[u] = s.tag[u] /\ u # At(off, top)
  <2>1. Fits(<<u, i>>)
    BY <1>14 DEF Sound, Partition
  <2>2. u \in Nat /\ Pow2[i] \in Nat /\ Pow2[i] >= 1
    BY <2>1, FitsProps
  <2>3. In(<<u, i>>, u)
    BY <2>2 DEF In
  <2>4. ~In(m, u)
    <3> SUFFICES ASSUME In(m, u) PROVE FALSE
      OBVIOUS
    <3>1. Covered({m}, u)
      <4> HIDE DEF m
      <4> QED
        BY DEF Covered
    <3>2. PICK r \in J : In(r, u)
      BY <1>9, <2>2, <3>1 DEF Covered
    <3>3. r = <<u, i>>
      BY <1>8, <1>14, <2>2, <2>3, <3>2 DEF Sound, Partition, Disjoint
    <3> QED
      BY <1>14, <3>2, <3>3
  <2>5. ~(At(off, top) <= u /\ u < At(off, top) + Pow2[top])
    BY <2>4 DEF In
  <2>6. u # At(off, top) /\ u \notin I
    BY <1>11, <1>12, <2>2, <2>5
  <2> QED
    BY <1>10, <2>6
<1>15. ASSUME NEW p \in J, p[1] # At(off, top)
       PROVE  t.tag[p[1]] = NoTag
  <2>1. p[1] \in Units
    BY <1>8 DEF Blocks
  <2> QED
    BY <1>10, <1>11, <1>15, <2>1
<1>16. /\ \A u \in Units : t.tag[u] \in {s.tag[u], NoTag, FreeTag(top)}
       /\ \A u \in Units : u # At(off, top) => t.tag[u] \in {s.tag[u], NoTag}
  BY <1>10
<1> QED
  BY <1>1, <1>4, <1>5, <1>6, <1>7, <1>8, <1>9, <1>13, <1>14, <1>15, <1>16 DEF MergeShape

\* A merge keeps the sheet sound; the block freed is no longer in use, and no
\* other block in use is touched.
LEMMA MergeSound ==
  ASSUME NEW s, NEW tc, Sound(s, tc), NEW off \in Units, NEW o \in Orders,
         s.tag[off] = AllocTag(o),
         NEW t, t = MergeAndFree(s, off, o)
  PROVE  TakenBack(s, tc, off, o, t, tc)
<1> DEFINE top == MergeTop(s, off, o)
           J == Joined(off, o, top)
           m == <<At(off, top), top>>
           bud(j) == Buddy(At(off, j), j)
           joined == o .. (top - 1)
<1>a. top = MergeTop(s, off, o)
  OBVIOUS
<1> HIDE DEF top
<1>0. /\ top \in Orders /\ top \in Nat /\ o \in Nat /\ off \in Nat /\ Fits(<<At(off, top), top>>)
      /\ \A j \in o .. (top - 1) : /\ j \in Orders /\ j # top /\ Joins(s, off, j)
                                   /\ Buddy(At(off, j), j) \in Units
      /\ ~Joins(s, off, top)
      /\ Joined(off, o, top) \subseteq Blocks(s, tc)
      /\ \A u \in Nat : Covered(Joined(off, o, top), u) <=> Covered({<<At(off, top), top>>}, u)
      /\ t.tag[At(off, top)] = FreeTag(top)
      /\ \A u \in Units, i \in Orders :
           <<u, i>> \in Blocks(s, tc) /\ <<u, i>> \notin Joined(off, o, top)
             => t.tag[u] = s.tag[u] /\ u # At(off, top)
      /\ \A p \in Joined(off, o, top) : p[1] # At(off, top) => t.tag[p[1]] = NoTag
      /\ \A u \in Units : t.tag[u] \in {s.tag[u], NoTag, FreeTag(top)}
      /\ \A u \in Units : u # At(off, top) => t.tag[u] \in {s.tag[u], NoTag}
  <2>1. MergeShape(s, tc, off, o, t, top)
    BY <1>a, MergeTags
  <2> QED
    BY <2>1 DEF MergeShape
<1>1. s \in Spaces /\ tc \in Caches /\ Partition(Blocks(s, tc))
  BY DEF Sound
<1>2. /\ t.lists = [j \in Orders |->
                   IF j \in joined THEN RemoveFirst(s.lists[j], bud(j))
                   ELSE IF j = top THEN <<At(off, top)>> \o s.lists[j] ELSE s.lists[j]]
      /\ t.mask = (s.mask \ {j \in joined : RemoveFirst(s.lists[j], bud(j)) = <<>>}) \cup {top}
      /\ t = [lists |-> t.lists, mask |-> t.mask, tag |-> t.tag]
      /\ t.tag = [u \in Units |-> t.tag[u]]
  BY DEF MergeAndFree, top
<1>3. At(off, top) \in Units
  BY <1>0, FitsProps
<1>4. \A u, i : <<u, i>> \in J <=> (u = off /\ i = o) \/ (i \in joined /\ u = bud(i))
  BY DEF Joined
<1>5. ASSUME NEW j \in joined
      PROVE  /\ j \in Orders /\ j # top /\ j < MaxOrder - 1 /\ bud(j) \in Units
             /\ s.tag[bud(j)] = FreeTag(j) /\ Contains(s.lists[j], bud(j))
  BY <1>0 DEF Joins
<1>6. /\ J \subseteq Blocks(s, tc) /\ t.tag[At(off, top)] = FreeTag(top) /\ top \in Orders
      /\ \A u \in Units, i \in Orders :
           <<u, i>> \in Blocks(s, tc) /\ <<u, i>> \notin J => t.tag[u] = s.tag[u] /\ u # At(off, top)
      /\ \A u, i : <<u, i>> \in J /\ u # At(off, top) => t.tag[u] = NoTag
      /\ \A u \in Units : t.tag[u] \in {s.tag[u], NoTag, FreeTag(top)}
      /\ \A u \in Units : u # At(off, top) => t.tag[u] \in {s.tag[u], NoTag}
      /\ ~Joins(s, off, top) /\ Fits(m)
      /\ \A u \in Nat : Covered(J, u) <=> Covered({m}, u)
  <2>1. ASSUME NEW u, NEW i, <<u, i>> \in J, u # At(off, top)
        PROVE  t.tag[u] = NoTag
    <3>1. <<u, i>>[1] = u
      OBVIOUS
    <3> QED
      BY <1>0, <2>1, <3>1
  <2> QED
    BY <1>0, <2>1
<1>7. m = <<At(off, top), top>> /\ \A u : u = At(off, top) => <<u, top>> = m
  OBVIOUS
<1> HIDE DEF J, joined, bud, m
<1>8. ASSUME NEW u \in Units, NEW i \in Orders
      PROVE  <<u, i>> \in Blocks(s, tc) <=> \/ s.tag[u] = FreeTag(i) \/ s.tag[u] = AllocTag(i)
                                            \/ Contains(tc[i], u)
  BY DEF Blocks
<1>9. ASSUME NEW u \in Units, NEW i \in Orders
      PROVE  t.tag[u] = FreeTag(i) <=> (u = At(off, top) /\ i = top)
                                       \/ (s.tag[u] = FreeTag(i) /\ ~(i \in joined /\ u = bud(i)))
  <2>1. CASE s.tag[u] = FreeTag(i) /\ ~(i \in joined /\ u = bud(i))
    <3>1. <<u, i>> \notin J
      BY <1>4, <2>1, TagFacts
    <3> QED
      BY <1>6, <1>8, <2>1, <3>1
  <2>2. CASE s.tag[u] = FreeTag(i) /\ i \in joined /\ u = bud(i)
    <3>1. i # top /\ <<u, i>> \in J
      BY <1>4, <1>5, <2>2
    <3> QED
      BY <1>6, <2>2, <3>1, TagFacts
  <2>3. CASE s.tag[u] # FreeTag(i)
    <3>1. CASE u = At(off, top)
      BY <1>6, <2>3, <3>1, TagFacts
    <3>2. CASE u # At(off, top)
      BY <1>6, <2>3, <3>2, TagFacts
    <3> QED
      BY <3>1, <3>2
  <2> QED
    BY <2>1, <2>2, <2>3
<1>10. ASSUME NEW u \in Units, NEW i \in Orders
       PROVE  t.tag[u] = AllocTag(i) <=> s.tag[u] = AllocTag(i) /\ u # off
  <2>1. CASE s.tag[u] = AllocTag(i) /\ u # off
    <3>1. <<u, i>> \notin J
      BY <1>4, <1>5, <2>1, TagFacts
    <3> QED
      BY <1>6, <1>8, <2>1, <3>1
  <2>2. CASE u = off
    <3>1. <<u, o>> \in J
      BY <1>4, <2>2
    <3> QED
      BY <1>6, <2>2, <3>1, TagFacts
  <2>3. CASE s.tag[u] # AllocTag(i)
    BY <1>6, <2>3, TagFacts
  <2> QED
    BY <2>1, <2>2, <2>3
<1>11. CachedUntagged(t, tc)
  <2>1. ASSUME NEW u \in Units, NEW i \in Orders, Contains(tc[i], u)
        PROVE  t.tag[u] = NoTag
    <3>1. s.tag[u] = NoTag
      BY <2>1 DEF Sound, CachedUntagged
    <3>2. <<u, i>> \notin J
      BY <1>4, <1>5, <3>1, TagFacts
    <3> QED
      BY <1>6, <1>8, <2>1, <3>1, <3>2
  <2> QED
    BY <2>1 DEF CachedUntagged
<1>12. Blocks(t, tc) = (Blocks(s, tc) \ J) \cup {m}
  <2>1. ASSUME NEW u \in Units, NEW i \in Orders
        PROVE  <<u, i>> \in Blocks(t, tc) <=> (<<u, i>> \in Blocks(s, tc) /\ <<u, i>> \notin J) \/ <<u, i>> = m
    <3>1. <<u, i>> \in Blocks(t, tc) <=> \/ t.tag[u] = FreeTag(i) \/ t.tag[u] = AllocTag(i)
                                         \/ Contains(tc[i], u)
      BY DEF Blocks
    <3>2. <<u, i>> = m <=> u = At(off, top) /\ i = top
      BY <1>7
    <3>3. CASE Contains(tc[i], u)
      <4>1. s.tag[u] = NoTag
        BY <3>3 DEF Sound, CachedUntagged
      <4>2. <<u, i>> \notin J
        BY <1>4, <1>5, <4>1, TagFacts
      <4> QED
        BY <1>8, <3>1, <3>3, <4>2
    <3>4. CASE s.tag[u] = FreeTag(i)
      <4>1. <<u, i>> \in J <=> i \in joined /\ u = bud(i)
        BY <1>4, <3>4, TagFacts
      <4>2. t.tag[u] # AllocTag(i)
        BY <1>10, <3>4, TagFacts
      <4>3. ~Contains(tc[i], u)
        BY <3>4, TagFacts DEF Sound, CachedUntagged
      <4> QED
        BY <1>8, <1>9, <3>1, <3>2, <3>4, <4>1, <4>2, <4>3
    <3>5. CASE s.tag[u] = AllocTag(i)
      <4>1. <<u, i>> \in J <=> u = off
        <5>1. u = off => i = o
          BY <3>5, TagFacts
        <5>2. ~(i \in joined /\ u = bud(i))
          BY <1>5, <3>5, TagFacts
        <5> QED
          BY <1>4, <5>1, <5>2
      <4>2. s.tag[u] # FreeTag(i)
        BY <3>5, TagFacts
      <4>3. ~Contains(tc[i], u)
        BY <3>5, TagFacts DEF Sound, CachedUntagged
      <4> QED
        BY <1>8, <1>9, <1>10, <3>1, <3>2, <3>5, <4>1, <4>2, <4>3
    <3>6. CASE ~Contains(tc[i], u) /\ s.tag[u] # FreeTag(i) /\ s.tag[u] # AllocTag(i)
      BY <1>8, <1>9, <1>10, <3>1, <3>2, <3>6
    <3> QED
      BY <3>3, <3>4, <3>5, <3>6
  <2>2. m \in Units \X Orders /\ Blocks(s, tc) \subseteq Units \X Orders /\ Blocks(t, tc) \subseteq Units \X Orders
    BY <1>6 DEF Blocks, Fits
  <2>3. ASSUME NEW p \in Units \X Orders
        PROVE  p \in Blocks(t, tc) <=> (p \in Blocks(s, tc) /\ p \notin J) \/ p = m
    <3>1. PICK u \in Units, i \in Orders : p = <<u, i>>
      OBVIOUS
    <3> QED
      BY <2>1, <3>1
  <2> QED
    BY <2>2, <2>3
<1>13. Partition(Blocks(t, tc))
  <2>1. J \in SUBSET Blocks(s, tc)
    BY <1>6
  <2>2. \A p \in {m} : Fits(p)
    BY <1>6
  <2>3. Disjoint({m})
    BY DEF Disjoint
  <2>4. Partition((Blocks(s, tc) \ J) \cup {m})
    BY <1>1, <1>6, <2>1, <2>2, <2>3, Replace
  <2> QED
    BY <1>12, <2>4
<1>14. ASSUME NEW j \in Orders
       PROVE  /\ t.lists[j] \in Seq(Units) /\ IsInjective(t.lists[j])
              /\ \A u \in Units : Contains(t.lists[j], u)
                   <=> (j = top /\ u = At(off, top)) \/ (Contains(s.lists[j], u) /\ ~(j \in joined /\ u = bud(j)))
  <2>1. s.lists[j] \in Seq(Units) /\ IsInjective(s.lists[j])
    BY DEF Sound, Spaces, ListedOnce
  <2>2. CASE j \in joined
    <3>1. t.lists[j] = RemoveFirst(s.lists[j], bud(j)) /\ j # top /\ Contains(s.lists[j], bud(j))
      BY <1>2, <1>5, <2>2
    <3> QED
      BY <2>1, <2>2, <3>1, RemoveList
  <2>3. CASE j = top
    <3>1. j \notin joined
      BY <1>5, <2>3
    <3>2. t.lists[j] = <<At(off, top)>> \o s.lists[j]
      BY <1>2, <2>3, <3>1
    <3>3. ~Contains(s.lists[j], At(off, top))
      <4> SUFFICES ASSUME s.tag[At(off, top)] = FreeTag(j) PROVE FALSE
        BY <1>3 DEF Sound, Tagged
      <4>1. <<At(off, top), j>> \notin J
        BY <1>4, <3>1, TagFacts
      <4> QED
        BY <1>3, <1>6, <1>8, <4>1
    <3> QED
      BY <1>3, <2>1, <2>3, <3>1, <3>2, <3>3, ConsList
  <2>4. CASE j \notin joined /\ j # top
    BY <1>2, <2>1, <2>4
  <2> QED
    BY <2>2, <2>3, <2>4
<1>15. t \in Spaces
  <2>1. t.lists \in [Orders -> Seq(Units)]
    <3>1. t.lists = [j \in Orders |-> t.lists[j]]
      BY <1>2
    <3> QED
      BY <1>14, <3>1
  <2>2. t.mask \in SUBSET Orders
    <3>1. s.mask \subseteq Orders
      BY <1>1 DEF Spaces
    <3> QED
      BY <1>2, <1>6, <3>1
  <2>3. t.tag \in [Units -> BlockTags]
    <3>1. ASSUME NEW u \in Units
          PROVE  t.tag[u] \in BlockTags
      <4>1. s.tag[u] \in BlockTags
        BY <1>1 DEF Spaces
      <4>2. FreeTag(top) \in BlockTags /\ NoTag \in BlockTags
        BY <1>6 DEF BlockTags
      <4> QED
        BY <1>6, <4>1, <4>2
    <3> QED
      BY <1>2, <3>1
  <2> QED
    BY <1>2, <2>1, <2>2, <2>3 DEF Spaces
<1>16. Tagged(t)
  <2>1. ASSUME NEW u \in Units, NEW j \in Orders
        PROVE  t.tag[u] = FreeTag(j) <=> Contains(t.lists[j], u)
    <3>1. s.tag[u] = FreeTag(j) <=> Contains(s.lists[j], u)
      BY DEF Sound, Tagged
    <3> QED
      BY <1>9, <1>14, <3>1
  <2> QED
    BY <2>1 DEF Tagged
<1>17. Masked(t)
  <2>1. ASSUME NEW j \in Orders
        PROVE  j \in t.mask <=> t.lists[j] # <<>>
    <3>1. s.lists[j] \in Seq(Units) /\ (j \in s.mask <=> s.lists[j] # <<>>)
      BY DEF Sound, Spaces, Masked
    <3>2. CASE j \in joined
      <4>1. t.lists[j] = RemoveFirst(s.lists[j], bud(j)) /\ j # top /\ Contains(s.lists[j], bud(j))
        BY <1>2, <1>5, <3>2
      <4>2. s.lists[j] # <<>>
        BY <3>1, <4>1, EmptyList
      <4> QED
        BY <1>2, <3>1, <3>2, <4>1, <4>2
    <3>3. CASE j = top
      <4>1. j \notin joined
        BY <1>5, <3>3
      <4>2. t.lists[j] = <<At(off, top)>> \o s.lists[j]
        BY <1>2, <3>3, <4>1
      <4> QED
        BY <1>2, <1>3, <3>1, <3>3, <4>2, ConsList
    <3>4. CASE j \notin joined /\ j # top
      BY <1>2, <3>1, <3>4
    <3> QED
      BY <3>2, <3>3, <3>4
  <2> QED
    BY <2>1 DEF Masked
<1>18. Apart(t)
  <2>1. ASSUME NEW u \in Units, NEW i \in Orders, i < MaxOrder - 1, t.tag[u] = FreeTag(i),
               t.tag[Buddy(u, i)] = FreeTag(i)
        PROVE  FALSE
    <3> DEFINE b == Buddy(u, i)
    <3>1. <<u, i>> \in Blocks(t, tc)
      BY <2>1 DEF Blocks
    <3>2. Fits(<<u, i>>)
      BY <1>13, <3>1 DEF Partition
    <3>3. Dyadic(u, i) /\ u \in Nat /\ i \in Nat
      BY <3>2, FitsProps
    <3>4. b \in Units /\ Buddy(b, i) = u
      BY <2>1, <3>2, <3>3, BuddyFits, BuddyBack, FitsProps
    <3>5. b # u
      <4>1. Pow2[i] \in Nat /\ Pow2[i] >= 1 /\ b \in Nat
        BY <3>3, Pow2Pos, BuddyHalves
      <4>2. b = u + Pow2[i] \/ u = b + Pow2[i]
        BY <3>3, BuddyHalves
      <4> HIDE DEF b
      <4> QED
        BY <3>3, <4>1, <4>2
    <3>6. t.tag[b] = FreeTag(i)
      BY <2>1
    <3> HIDE DEF b
    <3>7. ASSUME NEW x \in Units, s.tag[x] = FreeTag(i), i = top, x = Buddy(At(off, top), top)
          PROVE  FALSE
      <4>1. Contains(s.lists[top], x)
        BY <3>7 DEF Sound, Tagged
      <4> QED
        BY <1>6, <2>1, <3>7, <4>1 DEF Joins
    <3>8. s.tag[u] = FreeTag(i) \/ (u = At(off, top) /\ i = top)
      BY <1>9, <2>1
    <3>9. s.tag[b] = FreeTag(i) \/ (b = At(off, top) /\ i = top)
      BY <1>9, <3>4, <3>6
    <3>10. CASE u = At(off, top) /\ i = top
      BY <3>4, <3>5, <3>7, <3>9, <3>10 DEF b
    <3>11. CASE b = At(off, top) /\ i = top
      BY <3>4, <3>5, <3>7, <3>8, <3>11
    <3>12. CASE s.tag[u] = FreeTag(i) /\ s.tag[b] = FreeTag(i)
      BY <2>1, <3>12 DEF Sound, Apart, b
    <3> QED
      BY <3>8, <3>9, <3>10, <3>11, <3>12
  <2> QED
    BY <2>1 DEF Apart
<1>19. ListedOnce(t)
  BY <1>14 DEF ListedOnce
<1>20. Sound(t, tc)
  BY <1>1, <1>11, <1>13, <1>15, <1>16, <1>17, <1>18, <1>19 DEF Sound
<1> QED
  BY <1>10, <1>20 DEF TakenBack, Drops

-----------------------------------------------------------------------------
(* The temporal cache *)

\* A block that moves between the cache and its callers keeps the sheet sound:
\* the blocks are the same and no free tag changes.
LEMMA RetagSound ==
  ASSUME NEW s, NEW tc, Sound(s, tc), NEW td \in Caches, NEW off \in Units, NEW g \in BlockTags,
         \A i \in Orders : s.tag[off] # FreeTag(i) /\ g # FreeTag(i),
         NEW t, t = [s EXCEPT !.tag[off] = g],
         Blocks(t, td) = Blocks(s, tc), CachedUntagged(t, td)
  PROVE  Sound(t, td)
<1>1. s \in Spaces /\ Partition(Blocks(s, tc)) /\ Apart(s) /\ Tagged(s) /\ Masked(s) /\ ListedOnce(s)
  BY DEF Sound
<1>2. /\ t \in Spaces /\ t.lists = s.lists /\ t.mask = s.mask /\ t.tag = [s.tag EXCEPT ![off] = g]
  BY <1>1 DEF Spaces
<1>3. ASSUME NEW u \in Units, NEW i \in Orders
      PROVE  t.tag[u] = FreeTag(i) <=> s.tag[u] = FreeTag(i)
  <2>1. s.tag \in [Units -> BlockTags]
    BY <1>1 DEF Spaces
  <2> QED
    BY <1>2, <2>1
<1>4. Tagged(t) /\ Masked(t) /\ ListedOnce(t)
  BY <1>1, <1>2, <1>3 DEF Tagged, Masked, ListedOnce
<1>5. Apart(t)
  <2>1. ASSUME NEW u \in Units, NEW i \in Orders, i < MaxOrder - 1, t.tag[u] = FreeTag(i)
        PROVE  t.tag[Buddy(u, i)] # FreeTag(i)
    <3>1. s.tag[u] = FreeTag(i)
      BY <1>3, <2>1
    <3>2. <<u, i>> \in Blocks(s, tc)
      BY <3>1 DEF Blocks
    <3>3. Fits(<<u, i>>)
      BY <1>1, <3>2 DEF Partition
    <3>4. Buddy(u, i) \in Units
      BY <2>1, <3>3, BuddyFits, FitsProps
    <3> QED
      BY <1>1, <1>3, <2>1, <3>1, <3>4 DEF Apart
  <2> QED
    BY <2>1 DEF Apart
<1> QED
  BY <1>1, <1>2, <1>4, <1>5 DEF Sound

\* A freed block goes to the cache of its order.
LEMMA CacheSound ==
  ASSUME NEW s, NEW tc, Sound(s, tc), NEW off \in Units, NEW o \in Orders,
         s.tag[off] = AllocTag(o),
         NEW t, t = [s EXCEPT !.tag[off] = NoTag],
         NEW td, td = [tc EXCEPT ![o] = <<off>> \o @]
  PROVE  TakenBack(s, tc, off, o, t, td)
<1>1. s \in Spaces /\ tc \in Caches /\ s.tag \in [Units -> BlockTags]
  BY DEF Sound, Spaces
<1>2. t.tag = [s.tag EXCEPT ![off] = NoTag]
  BY <1>1 DEF Spaces
<1>3. tc[o] \in Seq(Units)
  BY <1>1 DEF Caches
<1>4. <<off>> \o tc[o] \in Seq(Units)
  BY <1>3, ConsList
<1>5. td \in Caches /\ \A i \in Orders : i # o => td[i] = tc[i]
  BY <1>1, <1>4 DEF Caches
<1>6. td[o] = <<off>> \o tc[o]
  BY <1>1 DEF Caches
<1>7. \A i \in Orders : \A u : Contains(td[i], u) <=> Contains(tc[i], u) \/ (i = o /\ u = off)
  BY <1>3, <1>5, <1>6, ConsList
<1>8. \A i \in Orders : ~Contains(tc[i], off)
  BY TagFacts DEF Sound, CachedUntagged
<1>9. ASSUME NEW u \in Units, NEW i \in Orders
      PROVE  /\ t.tag[u] = AllocTag(i) <=> s.tag[u] = AllocTag(i) /\ u # off
             /\ t.tag[u] = FreeTag(i) <=> s.tag[u] = FreeTag(i)
  BY <1>1, <1>2, TagFacts
<1>10. CachedUntagged(t, td)
  BY <1>1, <1>2, <1>7 DEF Sound, CachedUntagged
<1>11. Blocks(t, td) = Blocks(s, tc)
  <2>1. ASSUME NEW u \in Units, NEW i \in Orders
        PROVE  (t.tag[u] = FreeTag(i) \/ t.tag[u] = AllocTag(i) \/ Contains(td[i], u))
                 <=> (s.tag[u] = FreeTag(i) \/ s.tag[u] = AllocTag(i) \/ Contains(tc[i], u))
    <3>1. CASE u = off
      BY <1>7, <1>8, <1>9, <3>1, TagFacts
    <3>2. CASE u # off
      BY <1>7, <1>9, <3>2
    <3> QED
      BY <3>1, <3>2
  <2> QED
    BY <2>1 DEF Blocks
<1>12. NoTag \in BlockTags /\ \A i \in Orders : s.tag[off] # FreeTag(i) /\ NoTag # FreeTag(i)
  BY TagFacts DEF BlockTags
<1>13. Sound(t, td)
  BY <1>5, <1>10, <1>11, <1>12, RetagSound
<1> QED
  BY <1>9, <1>13 DEF TakenBack, Drops

\* A block of the cache is handed out again.
LEMMA UncacheSound ==
  ASSUME NEW s, NEW tc, Sound(s, tc), NEW o \in Orders, tc[o] # <<>>, IsInjective(tc[o]),
         NEW off, off = Head(tc[o]),
         NEW t, t = [s EXCEPT !.tag[off] = AllocTag(o)],
         NEW td, td = [tc EXCEPT ![o] = Tail(@)]
  PROVE  Uncached(s, tc, o, off, t, td)
<1>1. s \in Spaces /\ tc \in Caches /\ s.tag \in [Units -> BlockTags] /\ tc[o] \in Seq(Units)
  BY DEF Sound, Spaces, Caches
<1>2. /\ off \in Units /\ Contains(tc[o], off) /\ Tail(tc[o]) \in Seq(Units)
      /\ \A x : Contains(Tail(tc[o]), x) <=> Contains(tc[o], x) /\ x # off
  BY <1>1, TailList
<1>3. s.tag[off] = NoTag
  BY <1>2 DEF Sound, CachedUntagged
<1>4. t.tag = [s.tag EXCEPT ![off] = AllocTag(o)]
  BY <1>1 DEF Spaces
<1>5. td \in Caches /\ td[o] = Tail(tc[o]) /\ \A i \in Orders : i # o => td[i] = tc[i]
  BY <1>1, <1>2 DEF Caches
<1>6. ASSUME NEW i \in Orders, Contains(tc[i], off)
      PROVE  i = o
  <2>1. <<off, i>> \in Blocks(s, tc) /\ <<off, o>> \in Blocks(s, tc)
    BY <1>2, <1>6 DEF Blocks
  <2>2. Fits(<<off, i>>) /\ Fits(<<off, o>>)
    BY <2>1 DEF Sound, Partition
  <2>3. /\ off \in Nat /\ Pow2[i] \in Nat /\ Pow2[i] >= 1 /\ Pow2[o] \in Nat /\ Pow2[o] >= 1
    BY <2>2, FitsProps
  <2>4. off <= off /\ off < off + Pow2[i] /\ off < off + Pow2[o]
    BY <2>3
  <2>5. In(<<off, i>>, off) /\ In(<<off, o>>, off)
    BY <2>4 DEF In
  <2>6. <<off, i>> = <<off, o>>
    BY <2>1, <2>3, <2>5 DEF Sound, Partition, Disjoint
  <2> QED
    BY <2>6
<1>7. \A i \in Orders : \A u : Contains(td[i], u) <=> Contains(tc[i], u) /\ u # off
  BY <1>2, <1>5, <1>6
<1>8. ASSUME NEW u \in Units, NEW i \in Orders
      PROVE  /\ t.tag[u] = AllocTag(i) <=> (u = off /\ i = o) \/ s.tag[u] = AllocTag(i)
             /\ t.tag[u] = FreeTag(i) <=> s.tag[u] = FreeTag(i)
  <2>1. CASE u = off
    <3>1. t.tag[u] = AllocTag(o)
      BY <1>1, <1>4, <2>1
    <3>2. AllocTag(o) = AllocTag(i) => i = o
      BY TagFacts
    <3> QED
      BY <1>3, <2>1, <3>1, <3>2, TagFacts
  <2>2. CASE u # off
    BY <1>1, <1>4, <2>2
  <2> QED
    BY <2>1, <2>2
<1>9. CachedUntagged(t, td)
  BY <1>1, <1>4, <1>7 DEF Sound, CachedUntagged
<1>10. Blocks(t, td) = Blocks(s, tc)
  <2>1. ASSUME NEW u \in Units, NEW i \in Orders
        PROVE  (t.tag[u] = FreeTag(i) \/ t.tag[u] = AllocTag(i) \/ Contains(td[i], u))
                 <=> (s.tag[u] = FreeTag(i) \/ s.tag[u] = AllocTag(i) \/ Contains(tc[i], u))
    <3>1. CASE u = off
      BY <1>2, <1>3, <1>6, <1>7, <1>8, <3>1, TagFacts
    <3>2. CASE u # off
      BY <1>7, <1>8, <3>2
    <3> QED
      BY <3>1, <3>2
  <2> QED
    BY <2>1 DEF Blocks
<1>11. AllocTag(o) \in BlockTags /\ \A i \in Orders : s.tag[off] # FreeTag(i) /\ AllocTag(o) # FreeTag(i)
  BY <1>3, TagFacts DEF BlockTags
<1>12. Sound(t, td)
  BY <1>2, <1>5, <1>9, <1>10, <1>11, RetagSound
<1> QED
  BY <1>2, <1>3, <1>8, <1>12 DEF Uncached, Adds

-----------------------------------------------------------------------------
(* Headers and counters *)

Hdrs == [Units -> [order : Orders, flags : {{}, Alloc, Temporal, Tombstone}]]

\* The header of a block in use agrees with its tag.
Headers(s, h) ==
  \A u \in Units, o \in Orders :
    s.tag[u] = AllocTag(o) => h[HdrUnit(u, o)].order = o /\ h[HdrUnit(u, o)].flags # {}

TombAt(h, p) == "tombstone" \in h[HdrUnit(p[1], p[2])].flags
Used(s) == {p \in Units \X Orders : s.tag[p[1]] = AllocTag(p[2])}
Gone(s, h) == {p \in Used(s) : TombAt(h, p)}
Live(s, h) == Used(s) \ Gone(s, h)

\* The header of a block lies inside it.
LEMMA HdrInside ==
  ASSUME NEW u, NEW i, Fits(<<u, i>>)
  PROVE  HdrUnit(u, i) \in Units /\ HdrUnit(u, i) \in Nat /\ In(<<u, i>>, HdrUnit(u, i))
<1>1. u \in Nat /\ u + Pow2[i] <= TopUnits /\ Pow2[i] \in Nat /\ Pow2[i] >= 1
  BY FitsProps
<1> QED
  BY <1>1, MaxOrderProps, BuddyAssumption DEF Units, HdrUnit, In

\* Two blocks have different header units.
LEMMA HdrApart ==
  ASSUME NEW s, NEW tc, Sound(s, tc),
         NEW u, NEW i, <<u, i>> \in Blocks(s, tc),
         NEW v, NEW j, <<v, j>> \in Blocks(s, tc), HdrUnit(u, i) = HdrUnit(v, j)
  PROVE  u = v /\ i = j
<1>1. Fits(<<u, i>>) /\ Fits(<<v, j>>)
  BY DEF Sound, Partition
<1>2. /\ HdrUnit(u, i) \in Nat /\ In(<<u, i>>, HdrUnit(u, i)) /\ In(<<v, j>>, HdrUnit(v, j))
  BY <1>1, HdrInside
<1>3. <<u, i>> = <<v, j>>
  BY <1>2 DEF Sound, Partition, Disjoint
<1> QED
  BY <1>3

\* A block in use is a block of the sheet.
LEMMA UsedFits ==
  ASSUME NEW s, NEW tc, Sound(s, tc), NEW u \in Units, NEW i \in Orders, s.tag[u] = AllocTag(i)
  PROVE  <<u, i>> \in Blocks(s, tc) /\ <<u, i>> \in Used(s) /\ Fits(<<u, i>>)
<1>1. <<u, i>> \in Blocks(s, tc) /\ <<u, i>> \in Used(s)
  BY DEF Blocks, Used
<1> QED
  BY <1>1 DEF Sound, Partition

\* What handing a block out, taking it back and tombstoning it do to the headers and
\* to the blocks in use.
Marked(s, h, t, k, off, o, f) ==
  /\ k \in Hdrs /\ Headers(t, k) /\ Adds(s, t, off, o)
  /\ k[HdrUnit(off, o)] = [order |-> o, flags |-> f]
  /\ \A u \in Units, i \in Orders : s.tag[u] = AllocTag(i) => k[HdrUnit(u, i)] = h[HdrUnit(u, i)]
  /\ <<off, o>> \notin Used(s) /\ Fits(<<off, o>>)
  /\ Used(t) = Used(s) \cup {<<off, o>>}
  /\ Live(t, k) = Live(s, h) \cup {<<off, o>>} /\ Gone(t, k) = Gone(s, h)

Unmarked(s, h, t, k, off, o) ==
  /\ k \in Hdrs /\ Headers(t, k) /\ Drops(s, t, off)
  /\ \A u \in Units, i \in Orders : t.tag[u] = AllocTag(i) => k[HdrUnit(u, i)] = h[HdrUnit(u, i)]
  /\ <<off, o>> \in Live(s, h) /\ Fits(<<off, o>>)
  /\ Used(t) = Used(s) \ {<<off, o>>}
  /\ Live(t, k) = Live(s, h) \ {<<off, o>>} /\ Gone(t, k) = Gone(s, h)

Retired(s, h, k, off, o) ==
  /\ k \in Hdrs /\ Headers(s, k) /\ k[HdrUnit(off, o)].flags = Tombstone
  /\ \A u \in Units, i \in Orders :
       s.tag[u] = AllocTag(i) /\ u # off => k[HdrUnit(u, i)] = h[HdrUnit(u, i)]
  /\ <<off, o>> \in Live(s, h) /\ Fits(<<off, o>>)
  /\ Live(s, k) = Live(s, h) \ {<<off, o>>} /\ Gone(s, k) = Gone(s, h) \cup {<<off, o>>}

\* A header is written when its block is handed out.
LEMMA AllocStep ==
  ASSUME NEW s, NEW t, NEW tc, Sound(t, tc),
         NEW off \in Units, NEW o \in Orders, \A i \in Orders : s.tag[off] # AllocTag(i),
         Adds(s, t, off, o),
         NEW h \in Hdrs, Headers(s, h), NEW f \in {Alloc, Temporal},
         NEW k, k = [h EXCEPT ![HdrUnit(off, o)] = [order |-> o, flags |-> f]]
  PROVE  Marked(s, h, t, k, off, o, f)
<1> USE DEF Adds
<1>1. t.tag[off] = AllocTag(o)
  OBVIOUS
<1>2. <<off, o>> \in Blocks(t, tc) /\ Fits(<<off, o>>)
  BY <1>1, UsedFits
<1>3. HdrUnit(off, o) \in Units
  BY <1>2, HdrInside
<1>4. ASSUME NEW u \in Units, NEW i \in Orders, s.tag[u] = AllocTag(i)
      PROVE  /\ HdrUnit(u, i) # HdrUnit(off, o) /\ HdrUnit(u, i) \in Units
             /\ k[HdrUnit(u, i)] = h[HdrUnit(u, i)]
  <2>1. t.tag[u] = AllocTag(i) /\ u # off
    BY <1>4
  <2>2. <<u, i>> \in Blocks(t, tc) /\ Fits(<<u, i>>)
    BY <2>1, UsedFits
  <2>3. HdrUnit(u, i) \in Units
    BY <2>2, HdrInside
  <2>4. HdrUnit(u, i) # HdrUnit(off, o)
    <3> SUFFICES ASSUME HdrUnit(u, i) = HdrUnit(off, o) PROVE FALSE
      OBVIOUS
    <3>1. In(<<u, i>>, HdrUnit(u, i)) /\ In(<<off, o>>, HdrUnit(u, i)) /\ HdrUnit(u, i) \in Nat
      BY <1>2, <2>2, HdrInside
    <3>2. <<u, i>> = <<off, o>>
      BY <1>2, <2>2, <3>1 DEF Sound, Partition, Disjoint
    <3> QED
      BY <2>1, <3>2
  <2> QED
    BY <2>3, <2>4 DEF Hdrs
<1>5. k[HdrUnit(off, o)] = [order |-> o, flags |-> f]
  BY <1>3 DEF Hdrs
<1>6. k \in Hdrs
  BY <1>3 DEF Hdrs
<1>7. f # {} /\ "tombstone" \notin f
  BY DEF Alloc, Temporal
<1>8. Headers(t, k)
  <2>1. ASSUME NEW u \in Units, NEW i \in Orders, t.tag[u] = AllocTag(i)
        PROVE  k[HdrUnit(u, i)].order = i /\ k[HdrUnit(u, i)].flags # {}
    <3>1. CASE u = off /\ i = o
      BY <1>5, <1>7, <3>1
    <3>2. CASE s.tag[u] = AllocTag(i)
      BY <1>4, <3>2 DEF Headers
    <3> QED
      BY <2>1, <3>1, <3>2
  <2> QED
    BY <2>1 DEF Headers
<1>9. <<off, o>> \notin Used(s) /\ Used(t) = Used(s) \cup {<<off, o>>}
  <2>1. ASSUME NEW p \in Units \X Orders
        PROVE  p \in Used(t) <=> p \in Used(s) \/ p = <<off, o>>
    <3>1. PICK u \in Units, i \in Orders : p = <<u, i>>
      OBVIOUS
    <3> QED
      BY <3>1 DEF Used
  <2>2. <<off, o>> \notin Used(s)
    BY DEF Used
  <2> QED
    BY <2>1, <2>2 DEF Used
<1>10. ASSUME NEW p \in Used(s)
       PROVE  TombAt(k, p) <=> TombAt(h, p)
  <2>1. p[1] \in Units /\ p[2] \in Orders /\ s.tag[p[1]] = AllocTag(p[2])
    BY DEF Used
  <2> QED
    BY <1>4, <2>1 DEF TombAt
<1>11. ~TombAt(k, <<off, o>>)
  BY <1>5, <1>7 DEF TombAt
<1>12. Gone(t, k) = Gone(s, h)
  BY <1>9, <1>10, <1>11 DEF Gone
<1>13. Live(t, k) = Live(s, h) \cup {<<off, o>>}
  BY <1>9, <1>12 DEF Live, Gone
<1> QED
  BY <1>1, <1>2, <1>4, <1>5, <1>6, <1>8, <1>9, <1>12, <1>13 DEF Marked

\* A header is wiped when its block is taken back.
LEMMA FreeStep ==
  ASSUME NEW s, NEW t, NEW tc, Sound(s, tc),
         NEW off \in Units, NEW o \in Orders, s.tag[off] = AllocTag(o),
         Drops(s, t, off),
         NEW h \in Hdrs, Headers(s, h), "tombstone" \notin h[HdrUnit(off, o)].flags,
         NEW k, k = [h EXCEPT ![HdrUnit(off, o)] = Blank]
  PROVE  Unmarked(s, h, t, k, off, o)
<1> USE DEF Drops
<1>1. <<off, o>> \in Blocks(s, tc) /\ Fits(<<off, o>>) /\ <<off, o>> \in Used(s)
  BY UsedFits
<1>2. HdrUnit(off, o) \in Units
  BY <1>1, HdrInside
<1>3. ASSUME NEW u \in Units, NEW i \in Orders, t.tag[u] = AllocTag(i)
      PROVE  k[HdrUnit(u, i)] = h[HdrUnit(u, i)] /\ s.tag[u] = AllocTag(i)
  <2>1. s.tag[u] = AllocTag(i) /\ u # off
    BY <1>3
  <2>2. <<u, i>> \in Blocks(s, tc) /\ Fits(<<u, i>>)
    BY <2>1, UsedFits
  <2>3. HdrUnit(u, i) \in Units
    BY <2>2, HdrInside
  <2>4. HdrUnit(u, i) # HdrUnit(off, o)
    <3> SUFFICES ASSUME HdrUnit(u, i) = HdrUnit(off, o) PROVE FALSE
      OBVIOUS
    <3>1. In(<<u, i>>, HdrUnit(u, i)) /\ In(<<off, o>>, HdrUnit(u, i)) /\ HdrUnit(u, i) \in Nat
      BY <1>1, <2>2, HdrInside
    <3>2. <<u, i>> = <<off, o>>
      BY <1>1, <2>2, <3>1 DEF Sound, Partition, Disjoint
    <3> QED
      BY <2>1, <3>2
  <2> QED
    BY <2>1, <2>3, <2>4 DEF Hdrs
<1>4. k \in Hdrs
  <2>1. 0 \in Orders
    BY MaxOrderProps DEF Orders
  <2>2. Blank \in [order : Orders, flags : {{}, Alloc, Temporal, Tombstone}]
    BY <2>1 DEF Blank
  <2> QED
    BY <1>2, <2>2 DEF Hdrs
<1>5. Headers(t, k)
  BY <1>3 DEF Headers
<1>6. Used(t) = Used(s) \ {<<off, o>>}
  <2>1. ASSUME NEW p \in Units \X Orders
        PROVE  p \in Used(t) <=> p \in Used(s) /\ p # <<off, o>>
    <3>1. PICK u \in Units, i \in Orders : p = <<u, i>>
      OBVIOUS
    <3>2. s.tag[u] = AllocTag(i) /\ u = off => i = o
      BY TagFacts
    <3> QED
      BY <3>1, <3>2 DEF Used
  <2> QED
    BY <2>1 DEF Used
<1>7. ASSUME NEW p \in Used(t)
      PROVE  TombAt(k, p) <=> TombAt(h, p)
  <2>1. p[1] \in Units /\ p[2] \in Orders /\ t.tag[p[1]] = AllocTag(p[2])
    BY DEF Used
  <2> QED
    BY <1>3, <2>1 DEF TombAt
<1>8. ~TombAt(h, <<off, o>>)
  BY DEF TombAt
<1>9. Gone(t, k) = Gone(s, h)
  BY <1>6, <1>7, <1>8 DEF Gone
<1>10. Live(t, k) = Live(s, h) \ {<<off, o>>}
  BY <1>6, <1>9 DEF Live
<1>11. <<off, o>> \in Live(s, h)
  BY <1>1, <1>8 DEF Live, Gone
<1> QED
  BY <1>1, <1>3, <1>4, <1>5, <1>6, <1>9, <1>10, <1>11 DEF Unmarked

\* A header is marked when its block is tombstoned.
LEMMA RetireStep ==
  ASSUME NEW s, NEW tc, Sound(s, tc),
         NEW off \in Units, NEW o \in Orders, s.tag[off] = AllocTag(o),
         NEW h \in Hdrs, Headers(s, h), "tombstone" \notin h[HdrUnit(off, o)].flags,
         NEW k, k = [h EXCEPT ![HdrUnit(off, o)].flags = Tombstone]
  PROVE  Retired(s, h, k, off, o)
<1>1. <<off, o>> \in Blocks(s, tc) /\ Fits(<<off, o>>) /\ <<off, o>> \in Used(s)
  BY UsedFits
<1>2. HdrUnit(off, o) \in Units
  BY <1>1, HdrInside
<1>3. ASSUME NEW u \in Units, NEW i \in Orders, s.tag[u] = AllocTag(i), u # off
      PROVE  k[HdrUnit(u, i)] = h[HdrUnit(u, i)]
  <2>1. <<u, i>> \in Blocks(s, tc) /\ Fits(<<u, i>>)
    BY <1>3, UsedFits
  <2>2. HdrUnit(u, i) \in Units
    BY <2>1, HdrInside
  <2>3. HdrUnit(u, i) # HdrUnit(off, o)
    BY <1>1, <1>3, <2>1, HdrApart
  <2> QED
    BY <2>2, <2>3 DEF Hdrs
<1>4. k \in Hdrs /\ k[HdrUnit(off, o)].flags = Tombstone /\ k[HdrUnit(off, o)].order = h[HdrUnit(off, o)].order
  BY <1>2 DEF Hdrs
<1>5. "tombstone" \in Tombstone /\ Tombstone # {}
  BY DEF Tombstone
<1>6. Headers(s, k)
  <2>1. ASSUME NEW u \in Units, NEW i \in Orders, s.tag[u] = AllocTag(i)
        PROVE  k[HdrUnit(u, i)].order = i /\ k[HdrUnit(u, i)].flags # {}
    <3>1. CASE u = off
      <4>1. i = o
        BY <2>1, <3>1, TagFacts
      <4> QED
        BY <1>4, <1>5, <3>1, <4>1 DEF Headers
    <3>2. CASE u # off
      BY <1>3, <2>1, <3>2 DEF Headers
    <3> QED
      BY <3>1, <3>2
  <2> QED
    BY <2>1 DEF Headers
<1>7. ASSUME NEW p \in Used(s), p # <<off, o>>
      PROVE  TombAt(k, p) <=> TombAt(h, p)
  <2>1. p = <<p[1], p[2]>> /\ p[1] \in Units /\ p[2] \in Orders /\ s.tag[p[1]] = AllocTag(p[2])
    BY DEF Used
  <2>2. p[1] # off
    <3>1. p[1] = off => p[2] = o
      BY <2>1, TagFacts
    <3> QED
      BY <1>7, <2>1, <3>1
  <2> QED
    BY <1>3, <2>1, <2>2 DEF TombAt
<1>8. ~TombAt(h, <<off, o>>) /\ TombAt(k, <<off, o>>)
  BY <1>4, <1>5 DEF TombAt
<1>9. Gone(s, k) = Gone(s, h) \cup {<<off, o>>}
  BY <1>1, <1>7, <1>8 DEF Gone
<1>10. Live(s, k) = Live(s, h) \ {<<off, o>>}
  BY <1>9 DEF Live
<1>11. <<off, o>> \in Live(s, h)
  BY <1>1, <1>8 DEF Live, Gone
<1> QED
  BY <1>1, <1>3, <1>4, <1>6, <1>9, <1>10, <1>11 DEF Retired

UnitsIn(B) == {u \in Units : Covered(B, u)}

\* The units of a set of blocks are finitely many, no more than the sheet has.
LEMMA CountBound ==
  ASSUME NEW B
  PROVE  /\ IsFiniteSet(UnitsIn(B)) /\ Cardinality(UnitsIn(B)) \in Nat
         /\ Cardinality(UnitsIn(B)) <= Total
<1>1. 0 \in Int /\ Total - 1 \in Int /\ Total \in Nat /\ ~(0 > Total - 1)
  BY BuddyAssumption
<1>2. IsFiniteSet(Units) /\ Cardinality(Units) = Total
  <2>1. IsFiniteSet(0 .. (Total - 1)) /\ Cardinality(0 .. (Total - 1)) = (Total - 1) - 0 + 1
    BY <1>1, FS_Interval
  <2> QED
    BY <1>1, <2>1 DEF Units
<1>3. UnitsIn(B) \in SUBSET Units
  BY DEF UnitsIn
<1>4. IsFiniteSet(UnitsIn(B)) /\ Cardinality(UnitsIn(B)) <= Cardinality(Units)
  BY <1>2, <1>3, FS_Subset
<1> QED
  BY <1>2, <1>4, FS_CardinalityType

\* A block that shares no unit with the others adds its own units.
LEMMA CountAdd ==
  ASSUME NEW C, Disjoint(C), NEW B \in SUBSET C, NEW u, NEW o, <<u, o>> \in C, <<u, o>> \notin B,
         Fits(<<u, o>>)
  PROVE  Cardinality(UnitsIn(B \cup {<<u, o>>})) = Cardinality(UnitsIn(B)) + Pow2[o]
<1> DEFINE p == <<u, o>>
           T == u .. (u + Pow2[o] - 1)
<1>1. u \in Nat /\ u + Pow2[o] <= TopUnits /\ Pow2[o] \in Nat /\ Pow2[o] >= 1
  BY FitsProps
<1>2. IsFiniteSet(T) /\ Cardinality(T) = Pow2[o]
  <2>1. u \in Int /\ u + Pow2[o] - 1 \in Int /\ ~(u > u + Pow2[o] - 1)
    BY <1>1
  <2>2. IsFiniteSet(T) /\ Cardinality(T) = (u + Pow2[o] - 1) - u + 1
    BY <2>1, FS_Interval
  <2> QED
    BY <1>1, <2>2
<1>3. \A w : w \in T <=> w \in Units /\ In(p, w)
  <2>1. \A w : w \in Units <=> w \in Int /\ 0 <= w /\ w <= Total - 1
    BY BuddyAssumption DEF Units
  <2> QED
    BY <1>1, <2>1, MaxOrderProps, BuddyAssumption DEF In
<1> HIDE DEF T, p
<1>4. UnitsIn(B \cup {p}) = UnitsIn(B) \cup T
  BY <1>3 DEF UnitsIn, Covered
<1>5. UnitsIn(B) \cap T = {}
  <2>1. ASSUME NEW w \in UnitsIn(B), w \in T
        PROVE  FALSE
    <3>1. PICK q \in B : In(q, w)
      BY DEF UnitsIn, Covered
    <3>2. w \in Nat
      BY BuddyAssumption DEF UnitsIn, Units
    <3>3. q = p
      BY <1>3, <2>1, <3>1, <3>2 DEF Disjoint, p
    <3> QED
      BY <3>1, <3>3 DEF p
  <2> QED
    BY <2>1
<1>6. IsFiniteSet(UnitsIn(B)) /\ Cardinality(UnitsIn(B)) \in Nat
  BY CountBound
<1>7. Cardinality(UnitsIn(B) \cup T)
        = Cardinality(UnitsIn(B)) + Cardinality(T) - Cardinality(UnitsIn(B) \cap T)
  BY <1>2, <1>6, FS_Union
<1>8. Cardinality(UnitsIn(B) \cap T) = 0
  BY <1>5, FS_EmptySet
<1>9. Cardinality(UnitsIn(B) \cup T) = Cardinality(UnitsIn(B)) + Pow2[o]
  BY <1>1, <1>2, <1>6, <1>7, <1>8
<1>10. Cardinality(UnitsIn(B \cup {p})) = Cardinality(UnitsIn(B)) + Pow2[o]
  BY <1>4, <1>9
<1> QED
  BY <1>10, Zenon DEF p

\* A block that is taken away takes its units with it.
LEMMA CountRemove ==
  ASSUME NEW C, Disjoint(C), NEW B \in SUBSET C, NEW u, NEW o, <<u, o>> \in B, Fits(<<u, o>>)
  PROVE  Cardinality(UnitsIn(B \ {<<u, o>>})) = Cardinality(UnitsIn(B)) - Pow2[o]
<1> DEFINE D == B \ {<<u, o>>}
<1>1. D \in SUBSET C /\ <<u, o>> \in C /\ <<u, o>> \notin D /\ D \cup {<<u, o>>} = B
  OBVIOUS
<1> HIDE DEF D
<1>2. Cardinality(UnitsIn(D \cup {<<u, o>>})) = Cardinality(UnitsIn(D)) + Pow2[o]
  BY <1>1, CountAdd
<1>3. Cardinality(UnitsIn(D)) \in Nat /\ Pow2[o] \in Nat
  BY CountBound, FitsProps
<1>4. Cardinality(UnitsIn(B)) = Cardinality(UnitsIn(D)) + Pow2[o]
  BY <1>1, <1>2, Zenon
<1>5. Cardinality(UnitsIn(D)) = Cardinality(UnitsIn(B)) - Pow2[o]
  BY <1>3, <1>4
<1> QED
  BY <1>5, Zenon DEF D

\* Blocks in use share no unit.
LEMMA UsedDisjoint ==
  ASSUME NEW s, NEW tc, Sound(s, tc)
  PROVE  Disjoint(Used(s)) /\ \A p \in Used(s) : Fits(p)
<1>1. Used(s) \subseteq Blocks(s, tc)
  BY DEF Used, Blocks
<1> QED
  BY <1>1 DEF Sound, Partition, Disjoint

-----------------------------------------------------------------------------
(* The temporal ring *)

Actives == [Orders -> [1 .. 2 -> Units \cup {None}]]

\* An active block is in use and was handed out as temporal, a temporal block is
\* active, and an order has one of them at most, active or cached.
Ring(s, h, a, tc) ==
  \A o \in Orders :
    /\ \A r \in 1 .. 2 : a[o][r] # None => /\ s.tag[a[o][r]] = AllocTag(o)
                                           /\ h[HdrUnit(a[o][r], o)].flags \in {Temporal, Tombstone}
    /\ \A u \in Units : s.tag[u] = AllocTag(o) /\ h[HdrUnit(u, o)].flags = Temporal
                          => a[o][1] = u \/ a[o][2] = u
    /\ a[o][1] = None \/ a[o][2] = None
    /\ a[o][1] # None \/ a[o][2] # None => tc[o] = <<>>
    /\ Len(tc[o]) <= 1 /\ Len(tc[o]) <= CacheCap

\* The flags of a header are told apart.
LEMMA FlagFacts ==
  /\ Alloc # Temporal /\ Alloc # Tombstone /\ Temporal # Tombstone
  /\ Alloc # {} /\ Temporal # {} /\ Tombstone # {}
  /\ "tombstone" \notin Alloc /\ "tombstone" \notin Temporal /\ "tombstone" \in Tombstone
  /\ "temporal" \notin Alloc /\ "temporal" \in Temporal /\ "temporal" \notin Tombstone
  /\ "alloc" \in Alloc /\ "alloc" \in Temporal /\ "alloc" \notin Tombstone
BY DEF Alloc, Temporal, Tombstone

\* The unit of an active block.
LEMMA ActiveUnit ==
  ASSUME NEW a \in Actives, NEW o \in Orders, NEW r \in 1 .. 2, a[o][r] # None
  PROVE  a[o][r] \in Units
BY DEF Actives

\* None is no unit.
LEMMA NoneFact == None \notin Units
BY BuddyAssumption DEF Units

\* The slots and caches after a block is made active, and after it is taken back.
Activated(a, b, o, q, off) == b = [a EXCEPT ![o][q] = off]
Emptied(tc, td, o) == td[o] = <<>> /\ \A i \in Orders : i # o => td[i] = tc[i]

Cleared(h, a, b, off, o) ==
  b = IF h[HdrUnit(off, o)].flags = Alloc THEN a
      ELSE [a EXCEPT ![o] = [r \in 1 .. 2 |-> IF @[r] = off THEN None ELSE @[r]]]
Stored(h, tc, td, off, o) ==
  /\ h[HdrUnit(off, o)].flags = Temporal /\ Len(tc[o]) < CacheCap
  /\ td = [tc EXCEPT ![o] = <<off>> \o @]

\* A plain block is handed out.
LEMMA RingPlain ==
  ASSUME NEW s, NEW h, NEW a \in Actives, NEW tc, Ring(s, h, a, tc), NEW t, NEW k,
         NEW off \in Units, NEW o \in Orders,
         Marked(s, h, t, k, off, o, Alloc)
  PROVE  Ring(t, k, a, tc)
<1> USE DEF Marked, Adds
<1>1. ASSUME NEW i \in Orders, NEW r \in 1 .. 2, a[i][r] # None
      PROVE  t.tag[a[i][r]] = AllocTag(i) /\ k[HdrUnit(a[i][r], i)].flags \in {Temporal, Tombstone}
  <2>1. a[i][r] \in Units
    BY <1>1, ActiveUnit
  <2>2. s.tag[a[i][r]] = AllocTag(i) /\ h[HdrUnit(a[i][r], i)].flags \in {Temporal, Tombstone}
    BY <1>1 DEF Ring
  <2> QED
    BY <2>1, <2>2
<1>2. ASSUME NEW i \in Orders, NEW u \in Units, t.tag[u] = AllocTag(i), k[HdrUnit(u, i)].flags = Temporal
      PROVE  a[i][1] = u \/ a[i][2] = u
  <2>1. ~(u = off /\ i = o)
    BY <1>2, FlagFacts
  <2>2. s.tag[u] = AllocTag(i)
    BY <1>2, <2>1
  <2>3. h[HdrUnit(u, i)].flags = Temporal
    BY <1>2, <2>2
  <2> QED
    BY <2>2, <2>3 DEF Ring
<1> QED
  BY <1>1, <1>2 DEF Ring

\* A block is tombstoned: it stays active if it was.
LEMMA RingRetire ==
  ASSUME NEW s, NEW h, NEW a \in Actives, NEW tc, Ring(s, h, a, tc), NEW k,
         NEW off \in Units, NEW o \in Orders, s.tag[off] = AllocTag(o),
         Retired(s, h, k, off, o)
  PROVE  Ring(s, k, a, tc)
<1> USE DEF Retired
<1>0. ASSUME NEW i \in Orders, s.tag[off] = AllocTag(i)
      PROVE  i = o
  <2>1. AllocTag(i) = AllocTag(o)
    BY <1>0
  <2> QED
    BY <2>1, TagFacts
<1>1. ASSUME NEW i \in Orders, NEW r \in 1 .. 2, a[i][r] # None
      PROVE  s.tag[a[i][r]] = AllocTag(i) /\ k[HdrUnit(a[i][r], i)].flags \in {Temporal, Tombstone}
  <2>1. a[i][r] \in Units
    BY <1>1, ActiveUnit
  <2>2. s.tag[a[i][r]] = AllocTag(i) /\ h[HdrUnit(a[i][r], i)].flags \in {Temporal, Tombstone}
    BY <1>1 DEF Ring
  <2> QED
    BY <1>0, <2>1, <2>2
<1>2. ASSUME NEW i \in Orders, NEW u \in Units, s.tag[u] = AllocTag(i), k[HdrUnit(u, i)].flags = Temporal
      PROVE  a[i][1] = u \/ a[i][2] = u
  <2>1. u # off
    BY <1>0, <1>2, FlagFacts
  <2>2. h[HdrUnit(u, i)].flags = Temporal
    BY <1>2, <2>1
  <2> QED
    BY <1>2, <2>2 DEF Ring
<1> QED
  BY <1>1, <1>2 DEF Ring

\* A temporal block is handed out: it becomes the only one of its order.
LEMMA RingActivate ==
  ASSUME NEW s, NEW h, NEW a \in Actives, NEW tc \in Caches, Ring(s, h, a, tc), NEW t, NEW k,
         NEW off \in Units, NEW o \in Orders,
         Marked(s, h, t, k, off, o, Temporal),
         a[o][1] = None, a[o][2] = None,
         NEW q \in 1 .. 2, NEW b, Activated(a, b, o, q, off),
         NEW td, Emptied(tc, td, o)
  PROVE  Ring(t, k, b, td) /\ b \in Actives
<1> USE DEF Marked, Adds, Activated, Emptied
<1>0. /\ b \in Actives /\ \A i \in Orders : i # o => b[i] = a[i]
      /\ b[o][q] = off /\ \A r \in 1 .. 2 : r # q => b[o][r] = None
  BY DEF Actives
<1>1. ASSUME NEW i \in Orders, NEW r \in 1 .. 2, b[i][r] # None
      PROVE  t.tag[b[i][r]] = AllocTag(i) /\ k[HdrUnit(b[i][r], i)].flags \in {Temporal, Tombstone}
  <2>1. CASE i = o
    BY <1>0, <1>1, <2>1
  <2>2. CASE i # o
    <3>1. a[i][r] \in Units /\ a[i][r] # None /\ b[i][r] = a[i][r]
      BY <1>0, <1>1, <2>2, ActiveUnit
    <3>2. s.tag[a[i][r]] = AllocTag(i) /\ h[HdrUnit(a[i][r], i)].flags \in {Temporal, Tombstone}
      BY <3>1 DEF Ring
    <3> QED
      BY <3>1, <3>2
  <2> QED
    BY <2>1, <2>2
<1>2. ASSUME NEW i \in Orders, NEW u \in Units, t.tag[u] = AllocTag(i), k[HdrUnit(u, i)].flags = Temporal
      PROVE  b[i][1] = u \/ b[i][2] = u
  <2>1. CASE u = off /\ i = o
    BY <1>0, <2>1
  <2>2. CASE ~(u = off /\ i = o)
    <3>1. s.tag[u] = AllocTag(i)
      BY <1>2, <2>2
    <3>2. h[HdrUnit(u, i)].flags = Temporal
      BY <1>2, <3>1
    <3>3. a[i][1] = u \/ a[i][2] = u
      BY <3>1, <3>2 DEF Ring
    <3>4. i # o
      BY <3>3, NoneFact
    <3> QED
      BY <1>0, <3>3, <3>4
  <2> QED
    BY <2>1, <2>2
<1>3. ASSUME NEW i \in Orders
      PROVE  /\ b[i][1] = None \/ b[i][2] = None
             /\ b[i][1] # None \/ b[i][2] # None => td[i] = <<>>
             /\ Len(td[i]) <= 1 /\ Len(td[i]) <= CacheCap
  <2>1. CASE i = o
    <3>1. Len(td[i]) = 0
      BY <2>1
    <3>2. 1 \in 1 .. 2 /\ 2 \in 1 .. 2 /\ (q # 1 \/ q # 2)
      OBVIOUS
    <3>3. b[i][1] = None \/ b[i][2] = None
      BY <1>0, <2>1, <3>2
    <3> QED
      BY <2>1, <3>1, <3>3, BuddyAssumption
  <2>2. CASE i # o
    BY <1>0, <2>2 DEF Ring
  <2> QED
    BY <2>1, <2>2
<1> QED
  BY <1>0, <1>1, <1>2, <1>3 DEF Ring

\* A block is taken back: the active slot of a temporal block is emptied, and the
\* cache of its order has room for it.
LEMMA RingFree ==
  ASSUME NEW s, NEW h, NEW a \in Actives, NEW tc \in Caches, Ring(s, h, a, tc), NEW t, NEW k,
         NEW off \in Units, NEW o \in Orders, s.tag[off] = AllocTag(o),
         Unmarked(s, h, t, k, off, o),
         h[HdrUnit(off, o)].flags \in {Alloc, Temporal},
         NEW b, Cleared(h, a, b, off, o),
         NEW te, te = tc \/ Stored(h, tc, te, off, o)
  PROVE  Ring(t, k, b, te) /\ b \in Actives
<1> USE DEF Unmarked, Drops, Cleared
<1>0. ASSUME NEW i \in Orders, NEW u \in Units, s.tag[u] = AllocTag(i), i # o
      PROVE  u # off
  BY <1>0, TagFacts
<1>1. /\ b \in Actives /\ \A i \in Orders : i # o => b[i] = a[i]
      /\ \A r \in 1 .. 2 : b[o][r] = a[o][r] \/ b[o][r] = None
  BY DEF Actives
<1>2. \A r \in 1 .. 2 : b[o][r] # off
  <2>1. CASE h[HdrUnit(off, o)].flags = Alloc
    <3>1. ASSUME NEW r \in 1 .. 2, a[o][r] = off
          PROVE  FALSE
      <4>1. a[o][r] # None
        BY <3>1, NoneFact
      <4>2. h[HdrUnit(off, o)].flags \in {Temporal, Tombstone}
        BY <3>1, <4>1 DEF Ring
      <4> QED
        BY <2>1, <4>2, FlagFacts
    <3> QED
      BY <2>1, <3>1
  <2>2. CASE h[HdrUnit(off, o)].flags # Alloc
    BY <2>2, NoneFact DEF Actives
  <2> QED
    BY <2>1, <2>2
<1>3. ASSUME NEW i \in Orders, NEW r \in 1 .. 2, b[i][r] # None
      PROVE  t.tag[b[i][r]] = AllocTag(i) /\ k[HdrUnit(b[i][r], i)].flags \in {Temporal, Tombstone}
  <2>1. b[i][r] = a[i][r] /\ a[i][r] # None
    BY <1>1, <1>3
  <2>2. a[i][r] \in Units
    BY <2>1, ActiveUnit
  <2>3. s.tag[a[i][r]] = AllocTag(i) /\ h[HdrUnit(a[i][r], i)].flags \in {Temporal, Tombstone}
    BY <2>1 DEF Ring
  <2>4. a[i][r] # off
    BY <1>0, <1>2, <2>1, <2>2, <2>3
  <2>5. t.tag[a[i][r]] = AllocTag(i)
    BY <2>2, <2>3, <2>4
  <2> QED
    BY <2>1, <2>2, <2>3, <2>5
<1>4. ASSUME NEW i \in Orders, NEW u \in Units, t.tag[u] = AllocTag(i), k[HdrUnit(u, i)].flags = Temporal
      PROVE  b[i][1] = u \/ b[i][2] = u
  <2>1. s.tag[u] = AllocTag(i) /\ u # off /\ h[HdrUnit(u, i)].flags = Temporal
    BY <1>4
  <2>2. a[i][1] = u \/ a[i][2] = u
    BY <2>1 DEF Ring
  <2>3. CASE i # o
    BY <1>1, <2>2, <2>3
  <2>4. CASE i = o
    <3>1. \A r \in 1 .. 2 : a[o][r] = u => b[o][r] = u
      BY <2>1 DEF Actives
    <3>2. 1 \in 1 .. 2 /\ 2 \in 1 .. 2
      OBVIOUS
    <3> QED
      BY <2>2, <2>4, <3>1, <3>2
  <2> QED
    BY <2>3, <2>4
<1>5. ASSUME NEW i \in Orders
      PROVE  /\ b[i][1] = None \/ b[i][2] = None
             /\ b[i][1] # None \/ b[i][2] # None => tc[i] = <<>>
             /\ Len(tc[i]) <= 1 /\ Len(tc[i]) <= CacheCap
  <2>1. 1 \in 1 .. 2 /\ 2 \in 1 .. 2
    OBVIOUS
  <2>2. /\ a[i][1] = None \/ a[i][2] = None
        /\ a[i][1] # None \/ a[i][2] # None => tc[i] = <<>>
        /\ Len(tc[i]) <= 1 /\ Len(tc[i]) <= CacheCap
    BY DEF Ring
  <2>3. (b[i][1] = a[i][1] \/ b[i][1] = None) /\ (b[i][2] = a[i][2] \/ b[i][2] = None)
    BY <1>1, <2>1
  <2> QED
    BY <2>2, <2>3
<1>6. Ring(t, k, b, tc)
  BY <1>3, <1>4, <1>5 DEF Ring
<1>7. ASSUME h[HdrUnit(off, o)].flags = Temporal, Len(tc[o]) < CacheCap
      PROVE  Ring(t, k, b, [tc EXCEPT ![o] = <<off>> \o @])
  <2> DEFINE td == [tc EXCEPT ![o] = <<off>> \o @]
  <2>1. a[o][1] = off \/ a[o][2] = off
    BY <1>7 DEF Ring
  <2>2. a[o][1] # None \/ a[o][2] # None
    BY <2>1, NoneFact
  <2>3. tc[o] = <<>> /\ (a[o][1] = None \/ a[o][2] = None)
    BY <2>2 DEF Ring
  <2>4. b[o][1] = None /\ b[o][2] = None
    <3>1. 1 \in 1 .. 2 /\ 2 \in 1 .. 2
      OBVIOUS
    <3>2. (b[o][1] = a[o][1] \/ b[o][1] = None) /\ (b[o][2] = a[o][2] \/ b[o][2] = None)
      BY <1>1, <3>1
    <3>3. b[o][1] # off /\ b[o][2] # off
      BY <1>2, <3>1
    <3> QED
      BY <2>1, <2>3, <3>2, <3>3
  <2>5. td[o] = <<off>> \o tc[o] /\ (\A i \in Orders : i # o => td[i] = tc[i]) /\ tc[o] \in Seq(Units)
    BY DEF Caches
  <2>6. Len(td[o]) = Len(tc[o]) + 1
    BY <2>5, ConsList
  <2>7. Len(td[o]) = 1 /\ 1 <= CacheCap
    <3>1. Len(tc[o]) = 0
      BY <2>3
    <3> HIDE DEF td
    <3> QED
      BY <1>7, <2>6, <3>1, BuddyAssumption
  <2> HIDE DEF td
  <2>8. ASSUME NEW i \in Orders
        PROVE  /\ b[i][1] = None \/ b[i][2] = None
               /\ b[i][1] # None \/ b[i][2] # None => td[i] = <<>>
               /\ Len(td[i]) <= 1 /\ Len(td[i]) <= CacheCap
    <3>1. CASE i = o
      <4>0. Len(td[i]) = 1 /\ 1 <= CacheCap
        BY <2>7, <3>1, Zenon
      <4> HIDE DEF Unmarked, Drops, Cleared
      <4>1. Len(td[i]) <= 1 /\ Len(td[i]) <= CacheCap
        BY <4>0
      <4> QED
        BY <2>4, <3>1, <4>1, Zenon
    <3>2. CASE i # o
      BY <1>5, <2>5, <3>2
    <3> QED
      BY <3>1, <3>2
  <2>9. Ring(t, k, b, td)
    BY <1>3, <1>4, <2>8 DEF Ring
  <2> QED
    BY <2>9 DEF td
<1> QED
  BY <1>1, <1>6, <1>7 DEF Stored

-----------------------------------------------------------------------------
(* The state of a sheet, and what its operations make of it *)

Charged(s, h, n, m) == /\ n = Cardinality(UnitsIn(Live(s, h)))
                       /\ m = Cardinality(UnitsIn(Gone(s, h)))

Good(s, h, a, tc, n, m) ==
  /\ Sound(s, tc) /\ h \in Hdrs /\ Headers(s, h)
  /\ a \in Actives /\ Ring(s, h, a, tc)
  /\ Charged(s, h, n, m)

\* The counters after a block of order o is handed out.
LEMMA ChargeGrant ==
  ASSUME NEW s, NEW h, NEW t, NEW k, NEW off, NEW o, NEW n, NEW m, Charged(s, h, n, m),
         NEW f, Marked(s, h, t, k, off, o, f), Disjoint(Used(t))
  PROVE  Charged(t, k, n + Pow2[o], m)
<1>1. Disjoint(Used(t)) /\ Live(s, h) \in SUBSET Used(t) /\ <<off, o>> \in Used(t)
  BY DEF Marked, Live
<1>2. <<off, o>> \notin Live(s, h) /\ Fits(<<off, o>>)
  BY DEF Marked, Live
<1>3. Cardinality(UnitsIn(Live(s, h) \cup {<<off, o>>})) = Cardinality(UnitsIn(Live(s, h))) + Pow2[o]
  BY <1>1, <1>2, CountAdd
<1>4. Live(t, k) = Live(s, h) \cup {<<off, o>>} /\ Gone(t, k) = Gone(s, h)
  BY DEF Marked
<1> QED
  BY <1>3, <1>4, Zenon DEF Charged

\* The counters after a live block of order o is taken back.
LEMMA ChargeRelease ==
  ASSUME NEW s, NEW h, NEW t, NEW k, NEW off, NEW o, NEW n, NEW m, Charged(s, h, n, m),
         Unmarked(s, h, t, k, off, o), Disjoint(Used(s))
  PROVE  Charged(t, k, n - Pow2[o], m)
<1>1. Live(s, h) \in SUBSET Used(s) /\ <<off, o>> \in Live(s, h) /\ Fits(<<off, o>>)
  BY DEF Unmarked, Live
<1>3. Cardinality(UnitsIn(Live(s, h) \ {<<off, o>>})) = Cardinality(UnitsIn(Live(s, h))) - Pow2[o]
  BY <1>1, CountRemove
<1>4. Live(t, k) = Live(s, h) \ {<<off, o>>} /\ Gone(t, k) = Gone(s, h)
  BY DEF Unmarked
<1> QED
  BY <1>3, <1>4, Zenon DEF Charged

\* The counters after a live block of order o is tombstoned.
LEMMA ChargeRetire ==
  ASSUME NEW s, NEW h, NEW k, NEW off, NEW o, NEW n, NEW m, Charged(s, h, n, m),
         Retired(s, h, k, off, o), Disjoint(Used(s))
  PROVE  Charged(s, k, n - Pow2[o], m + Pow2[o])
<1>1. /\ Live(s, h) \in SUBSET Used(s) /\ <<off, o>> \in Live(s, h)
      /\ Gone(s, h) \in SUBSET Used(s) /\ <<off, o>> \notin Gone(s, h) /\ <<off, o>> \in Used(s)
      /\ Fits(<<off, o>>)
  BY DEF Retired, Live, Gone
<1>2. Cardinality(UnitsIn(Live(s, h) \ {<<off, o>>})) = Cardinality(UnitsIn(Live(s, h))) - Pow2[o]
  BY <1>1, CountRemove
<1>3. Cardinality(UnitsIn(Gone(s, h) \cup {<<off, o>>})) = Cardinality(UnitsIn(Gone(s, h))) + Pow2[o]
  BY <1>1, CountAdd
<1>4. Live(s, k) = Live(s, h) \ {<<off, o>>} /\ Gone(s, k) = Gone(s, h) \cup {<<off, o>>}
  BY DEF Retired
<1> QED
  BY <1>2, <1>3, <1>4, Zenon DEF Charged

\* A block that is cut from a free list and marked.
LEMMA SplitGrant ==
  ASSUME NEW s, NEW h, NEW a, NEW tc, NEW n, NEW m, Good(s, h, a, tc, n, m),
         NEW from \in Orders, NEW o \in 0 .. from, s.lists[from] # <<>>,
         NEW off, off = Head(s.lists[from]),
         NEW t, t = TakeAndSplit(s, from, o),
         NEW f \in {Alloc, Temporal},
         NEW k, k = [h EXCEPT ![HdrUnit(off, o)] = [order |-> o, flags |-> f]]
  PROVE  /\ Marked(s, h, t, k, off, o, f) /\ Cut(s, tc, from, o, off, t)
         /\ Charged(t, k, n + Pow2[o], m)
<1>1. Sound(s, tc) /\ h \in Hdrs /\ Headers(s, h) /\ Charged(s, h, n, m)
  BY DEF Good
<1>2. Cut(s, tc, from, o, off, t)
  BY <1>1, SplitSound
<1>3. Sound(t, tc) /\ Adds(s, t, off, o) /\ off \in Units /\ o \in Orders
  BY <1>2 DEF Cut
<1>4. \A i \in Orders : s.tag[off] # AllocTag(i)
  BY <1>2, TagFacts DEF Cut
<1>5. Marked(s, h, t, k, off, o, f)
  BY <1>1, <1>3, <1>4, AllocStep
<1>6. Disjoint(Used(t))
  BY <1>3, UsedDisjoint
<1>7. Charged(t, k, n + Pow2[o], m)
  BY <1>1, <1>5, <1>6, ChargeGrant
<1> QED
  BY <1>2, <1>5, <1>7

\* What an operation leaves, from a sheet in state s, h, a, tc, n, m.
PlainDone(s, h, a, tc, n, m, from, o, off, t, k) ==
  /\ Marked(s, h, t, k, off, o, Alloc) /\ Cut(s, tc, from, o, off, t)
  /\ Good(t, k, a, tc, n + Pow2[o], m)

FreshDone(s, h, a, tc, n, m, from, o, off, t, k, q, b) ==
  /\ Marked(s, h, t, k, off, o, Temporal) /\ Cut(s, tc, from, o, off, t)
  /\ Good(t, k, b, tc, n + Pow2[o], m)

CachedDone(s, h, a, tc, n, m, o, off, t, td, k, q, b) ==
  /\ Marked(s, h, t, k, off, o, Temporal) /\ Uncached(s, tc, o, off, t, td)
  /\ Good(t, k, b, td, n + Pow2[o], m)

RetireDone(s, h, a, tc, n, m, off, o, k) ==
  Good(s, k, a, tc, n - Pow2[o], m + Pow2[o]) /\ Retired(s, h, k, off, o)

\* allocate, allocate_exact: a plain block is cut from a free list.
LEMMA GoodPlain ==
  ASSUME NEW s, NEW h, NEW a, NEW tc, NEW n, NEW m, Good(s, h, a, tc, n, m),
         NEW from \in Orders, NEW o \in 0 .. from, s.lists[from] # <<>>,
         NEW off, off = Head(s.lists[from]),
         NEW t, t = TakeAndSplit(s, from, o),
         NEW k, k = [h EXCEPT ![HdrUnit(off, o)] = [order |-> o, flags |-> Alloc]]
  PROVE  PlainDone(s, h, a, tc, n, m, from, o, off, t, k)
<1>1. Alloc \in {Alloc, Temporal}
  OBVIOUS
<1>2. /\ Marked(s, h, t, k, off, o, Alloc) /\ Cut(s, tc, from, o, off, t)
      /\ Charged(t, k, n + Pow2[o], m)
  BY <1>1, SplitGrant
<1>3. a \in Actives /\ Ring(s, h, a, tc)
  BY DEF Good
<1>4. off \in Units /\ o \in Orders /\ Sound(t, tc) /\ k \in Hdrs /\ Headers(t, k)
  BY <1>2 DEF Cut, Marked
<1>5. Ring(t, k, a, tc)
  BY <1>2, <1>3, <1>4, RingPlain
<1> QED
  BY <1>2, <1>3, <1>4, <1>5 DEF Good, PlainDone

\* temporal_allocate without a cached block: a temporal block is cut and becomes
\* the active one.
LEMMA GoodFresh ==
  ASSUME NEW s, NEW h, NEW a, NEW tc, NEW n, NEW m, Good(s, h, a, tc, n, m),
         NEW from \in Orders, NEW o \in 0 .. from, s.lists[from] # <<>>,
         NEW off, off = Head(s.lists[from]),
         NEW t, t = TakeAndSplit(s, from, o),
         NEW k, k = [h EXCEPT ![HdrUnit(off, o)] = [order |-> o, flags |-> Temporal]],
         a[o][1] = None, a[o][2] = None, tc[o] = <<>>,
         NEW q \in 1 .. 2, NEW b, Activated(a, b, o, q, off)
  PROVE  FreshDone(s, h, a, tc, n, m, from, o, off, t, k, q, b)
<1>1. Temporal \in {Alloc, Temporal}
  OBVIOUS
<1>2. /\ Marked(s, h, t, k, off, o, Temporal) /\ Cut(s, tc, from, o, off, t)
      /\ Charged(t, k, n + Pow2[o], m)
  BY <1>1, SplitGrant
<1>3. a \in Actives /\ Ring(s, h, a, tc) /\ tc \in Caches
  BY DEF Good, Sound
<1>4. off \in Units /\ o \in Orders /\ Sound(t, tc) /\ k \in Hdrs /\ Headers(t, k)
  BY <1>2 DEF Cut, Marked
<1>5. Emptied(tc, tc, o)
  BY DEF Emptied
<1>6. Ring(t, k, b, tc) /\ b \in Actives
  BY <1>2, <1>3, <1>4, <1>5, RingActivate
<1> QED
  BY <1>2, <1>4, <1>6 DEF Good, FreshDone

\* temporal_allocate with a cached block: the block leaves the cache and becomes the
\* active one.
LEMMA GoodCached ==
  ASSUME NEW s, NEW h, NEW a, NEW tc, NEW n, NEW m, Good(s, h, a, tc, n, m),
         NEW o \in Orders, tc[o] # <<>>, NEW off, off = Head(tc[o]),
         NEW t, t = [s EXCEPT !.tag[off] = AllocTag(o)],
         NEW td, td = [tc EXCEPT ![o] = Tail(@)],
         NEW k, k = [h EXCEPT ![HdrUnit(off, o)] = [order |-> o, flags |-> Temporal]],
         a[o][1] = None, a[o][2] = None,
         NEW q \in 1 .. 2, NEW b, Activated(a, b, o, q, off)
  PROVE  CachedDone(s, h, a, tc, n, m, o, off, t, td, k, q, b)
<1>1. /\ Sound(s, tc) /\ h \in Hdrs /\ Headers(s, h) /\ Charged(s, h, n, m)
      /\ a \in Actives /\ Ring(s, h, a, tc) /\ tc \in Caches
  BY DEF Good, Sound
<1>2. tc[o] \in Seq(Units) /\ Len(tc[o]) = 1
  <2>1. tc[o] \in Seq(Units)
    BY <1>1 DEF Caches
  <2>2. Len(tc[o]) <= 1
    BY <1>1 DEF Ring
  <2>3. Len(tc[o]) \in Nat /\ Len(tc[o]) # 0
    BY <2>1
  <2>4. \A x \in Nat : x <= 1 /\ x # 0 => x = 1
    OBVIOUS
  <2> QED
    BY <2>1, <2>2, <2>3, <2>4, Zenon
<1>3. IsInjective(tc[o])
  BY <1>2 DEF IsInjective
<1>4. Uncached(s, tc, o, off, t, td)
  BY <1>1, <1>3, UncacheSound
<1>5. Sound(t, td) /\ Adds(s, t, off, o) /\ off \in Units
  BY <1>4 DEF Uncached
<1>6. \A i \in Orders : s.tag[off] # AllocTag(i)
  BY <1>4, TagFacts DEF Uncached
<1>7. Temporal \in {Alloc, Temporal}
  OBVIOUS
<1>8. Marked(s, h, t, k, off, o, Temporal)
  BY <1>1, <1>5, <1>6, <1>7, AllocStep
<1>9. Disjoint(Used(t))
  BY <1>5, UsedDisjoint
<1>10. Charged(t, k, n + Pow2[o], m)
  BY <1>1, <1>8, <1>9, ChargeGrant
<1>11. (\A i \in Orders : i # o => td[i] = tc[i]) /\ td[o] = Tail(tc[o])
  BY <1>1 DEF Caches
<1>12. Tail(tc[o]) = <<>>
  <2>1. Tail(tc[o]) \in Seq(Units) /\ Len(Tail(tc[o])) = Len(tc[o]) - 1
    BY <1>2, <1>3, TailList
  <2>2. \A x : x = 1 => x - 1 = 0
    OBVIOUS
  <2>3. Len(Tail(tc[o])) = 0
    BY <1>2, <2>1, <2>2, Zenon
  <2> QED
    BY <2>1, <2>3, EmptySeq, Zenon
<1>13. Emptied(tc, td, o)
  BY <1>11, <1>12 DEF Emptied
<1>14. Ring(t, k, b, td) /\ b \in Actives
  BY <1>1, <1>5, <1>8, <1>13, RingActivate
<1>15. k \in Hdrs /\ Headers(t, k)
  BY <1>8 DEF Marked
<1> QED
  BY <1>4, <1>5, <1>8, <1>10, <1>14, <1>15 DEF Good, CachedDone

\* tombstone: a live block is marked.
LEMMA GoodRetire ==
  ASSUME NEW s, NEW h, NEW a, NEW tc, NEW n, NEW m, Good(s, h, a, tc, n, m),
         NEW off \in Units, NEW o \in Orders, s.tag[off] = AllocTag(o),
         "tombstone" \notin h[HdrUnit(off, o)].flags,
         NEW k, k = [h EXCEPT ![HdrUnit(off, o)].flags = Tombstone]
  PROVE  RetireDone(s, h, a, tc, n, m, off, o, k)
<1>1. /\ Sound(s, tc) /\ h \in Hdrs /\ Headers(s, h) /\ Charged(s, h, n, m)
      /\ a \in Actives /\ Ring(s, h, a, tc)
  BY DEF Good
<1>2. Retired(s, h, k, off, o)
  BY <1>1, RetireStep
<1>3. Disjoint(Used(s))
  BY <1>1, UsedDisjoint
<1>4. Charged(s, k, n - Pow2[o], m + Pow2[o])
  BY <1>1, <1>2, <1>3, ChargeRetire
<1>5. Ring(s, k, a, tc)
  BY <1>1, <1>2, RingRetire
<1>6. k \in Hdrs /\ Headers(s, k)
  BY <1>2 DEF Retired
<1> QED
  BY <1>1, <1>2, <1>4, <1>5, <1>6 DEF Good, RetireDone

\* deallocate: a live block goes to the cache of its order if it is temporal and
\* there is a slot, else to the free lists.
LEMMA GoodFree ==
  ASSUME NEW s, NEW h, NEW a, NEW tc, NEW n, NEW m, Good(s, h, a, tc, n, m),
         NEW off \in Units, NEW o \in Orders, s.tag[off] = AllocTag(o),
         h[HdrUnit(off, o)].flags \in {Alloc, Temporal},
         NEW b, Cleared(h, a, b, off, o),
         NEW t, NEW td,
         \/ Stored(h, tc, td, off, o) /\ t = [s EXCEPT !.tag[off] = NoTag]
         \/ td = tc /\ t = MergeAndFree(s, off, o),
         NEW k, k = [h EXCEPT ![HdrUnit(off, o)] = Blank]
  PROVE  Good(t, k, b, td, n - Pow2[o], m) /\ Unmarked(s, h, t, k, off, o)
<1>1. /\ Sound(s, tc) /\ h \in Hdrs /\ Headers(s, h) /\ Charged(s, h, n, m)
      /\ a \in Actives /\ Ring(s, h, a, tc) /\ tc \in Caches
  BY DEF Good, Sound
<1>2. "tombstone" \notin h[HdrUnit(off, o)].flags
  BY FlagFacts
<1>3. TakenBack(s, tc, off, o, t, td)
  <2>1. CASE td = tc /\ t = MergeAndFree(s, off, o)
    <3>1. TakenBack(s, tc, off, o, t, tc)
      BY <1>1, <2>1, MergeSound
    <3> QED
      BY <2>1, <3>1
  <2>2. CASE Stored(h, tc, td, off, o) /\ t = [s EXCEPT !.tag[off] = NoTag]
    <3>1. td = [tc EXCEPT ![o] = <<off>> \o @]
      BY <2>2 DEF Stored
    <3> QED
      BY <1>1, <2>2, <3>1, CacheSound
  <2> QED
    BY <2>1, <2>2
<1>4. Sound(t, td) /\ Drops(s, t, off)
  BY <1>3 DEF TakenBack
<1>5. Unmarked(s, h, t, k, off, o)
  BY <1>1, <1>2, <1>4, FreeStep
<1>6. Disjoint(Used(s))
  BY <1>1, UsedDisjoint
<1>7. Charged(t, k, n - Pow2[o], m)
  BY <1>1, <1>5, <1>6, ChargeRelease
<1>8. td = tc \/ Stored(h, tc, td, off, o)
  OBVIOUS
<1>9. Ring(t, k, b, td) /\ b \in Actives
  BY <1>1, <1>5, <1>8, RingFree
<1>10. k \in Hdrs /\ Headers(t, k)
  BY <1>5 DEF Unmarked
<1> QED
  BY <1>4, <1>5, <1>7, <1>9, <1>10 DEF Good

-----------------------------------------------------------------------------
(* The inductive invariant *)

IInv == /\ Good(space, hdr, active, tcache, allocated, tombstoned)
        /\ rotor \in [Orders -> 1 .. 2]
        /\ held \subseteq Units

\* What a step does to the blocks in use, to the holders and to the active slots.
Takes == \E off, o, f : /\ Marked(space, hdr, space', hdr', off, o, f)
                        /\ held' = held \cup {off} /\ Lent' \in {Lent, Lent \cup {off}}
Gives == \E off, o : /\ Unmarked(space, hdr, space', hdr', off, o)
                     /\ off \in held /\ held' = held \ {off} /\ Lent' = Lent \ {off}
Retiring == /\ space' = space
            /\ \E off, o : /\ Retired(space, hdr, hdr', off, o)
                           /\ off \in held /\ held' = held \ {off} /\ Lent' = Lent
Moves == \E s1, h1, new, o, f, off, p :
           /\ Marked(space, hdr, s1, h1, new, o, f) /\ Sound(s1, tcache)
           /\ Unmarked(s1, h1, space', hdr', off, p)
           /\ <<off, p>> \in Live(space, hdr)
           /\ off \in held /\ held' = (held \ {off}) \cup {new} /\ Lent' = Lent \ {off}
Keeps == space' = space /\ hdr' = hdr /\ Lent' = Lent
Lends == Keeps /\ \E off \in Lent : held' = held \cup {off}
Refuses == Keeps /\ \E off \in held : IsTombstoned(off) /\ held' = held \ {off}

\* The blocks in the slots a.
InSlots(a) == {a[o][r] : o \in Orders, r \in 1 .. 2} \ {None}

\* A block that is made active joins the others.
LEMMA SlotsActivated ==
  ASSUME NEW a \in Actives, NEW o \in Orders, NEW q \in 1 .. 2, NEW off \in Units,
         a[o][q] = None, NEW b, Activated(a, b, o, q, off)
  PROVE  InSlots(b) = InSlots(a) \cup {off}
<1>1. /\ \A i \in Orders : i # o => b[i] = a[i]
      /\ b[o][q] = off /\ \A r \in 1 .. 2 : r # q => b[o][r] = a[o][r]
  BY DEF Actives, Activated
<1>2. ASSUME NEW x \in InSlots(b)
      PROVE  x \in InSlots(a) \cup {off}
  <2>1. PICK i \in Orders, r \in 1 .. 2 : x = b[i][r] /\ x # None
    BY <1>2 DEF InSlots
  <2>2. x = off \/ x = a[i][r]
    BY <1>1, <2>1
  <2> QED
    BY <2>1, <2>2 DEF InSlots
<1>3. ASSUME NEW x \in InSlots(a)
      PROVE  x \in InSlots(b)
  <2>1. PICK i \in Orders, r \in 1 .. 2 : x = a[i][r] /\ x # None
    BY <1>3 DEF InSlots
  <2>2. x = b[i][r]
    BY <1>1, <2>1
  <2> QED
    BY <2>1, <2>2 DEF InSlots
<1>4. off \in InSlots(b)
  BY <1>1, NoneFact DEF InSlots
<1> QED
  BY <1>2, <1>3, <1>4

\* A block that is taken back leaves them.
LEMMA SlotsCleared ==
  ASSUME NEW s, NEW h, NEW a \in Actives, NEW tc, Ring(s, h, a, tc),
         NEW off \in Units, NEW o \in Orders, s.tag[off] = AllocTag(o),
         h[HdrUnit(off, o)].flags \in {Alloc, Temporal},
         NEW b, Cleared(h, a, b, off, o)
  PROVE  InSlots(b) = InSlots(a) \ {off}
<1>1. ASSUME NEW i \in Orders, NEW r \in 1 .. 2, a[i][r] = off
      PROVE  i = o /\ h[HdrUnit(off, o)].flags = Temporal
  <2>1. s.tag[off] = AllocTag(i) /\ h[HdrUnit(off, i)].flags \in {Temporal, Tombstone}
    BY <1>1, NoneFact DEF Ring
  <2>2. AllocTag(i) = AllocTag(o)
    BY <2>1
  <2>3. i = o
    BY <2>2, TagFacts
  <2> QED
    BY <2>1, <2>3, FlagFacts
<1>2. ASSUME NEW i \in Orders, NEW r \in 1 .. 2
      PROVE  b[i][r] = IF a[i][r] = off THEN None ELSE a[i][r]
  <2>1. CASE h[HdrUnit(off, o)].flags = Alloc
    <3>1. b = a /\ a[i][r] # off
      BY <1>1, <2>1, FlagFacts DEF Cleared
    <3> QED
      BY <3>1
  <2>2. CASE h[HdrUnit(off, o)].flags # Alloc /\ i = o
    BY <2>2 DEF Cleared, Actives
  <2>3. CASE h[HdrUnit(off, o)].flags # Alloc /\ i # o
    <3>1. b[i] = a[i]
      BY <2>3 DEF Cleared, Actives
    <3>2. a[i][r] # off
      BY <1>1, <2>3
    <3> QED
      BY <3>1, <3>2
  <2> QED
    BY <2>1, <2>2, <2>3
<1>3. ASSUME NEW x \in InSlots(b)
      PROVE  x \in InSlots(a) \ {off}
  <2>1. PICK i \in Orders, r \in 1 .. 2 : x = b[i][r] /\ x # None
    BY <1>3 DEF InSlots
  <2>2. x = a[i][r] /\ x # off
    BY <1>2, <2>1
  <2> QED
    BY <2>1, <2>2 DEF InSlots
<1>4. ASSUME NEW x \in InSlots(a) \ {off}
      PROVE  x \in InSlots(b)
  <2>1. PICK i \in Orders, r \in 1 .. 2 : x = a[i][r] /\ x # None /\ x # off
    BY <1>4 DEF InSlots
  <2>2. x = b[i][r]
    BY <1>2, <2>1
  <2> QED
    BY <2>1, <2>2 DEF InSlots
<1> QED
  BY <1>3, <1>4

\* The slots of a state.
LEMMA LentIs == Lent = InSlots(active) /\ Lent' = InSlots(active')
BY DEF Lent, InSlots

\* A fresh sheet is one free block.
LEMMA InitInv == Init => IInv
<1> SUFFICES ASSUME Init
             PROVE  IInv
  OBVIOUS
<1> DEFINE top == MaxOrder - 1
           T == [u \in Units |-> IF u = 0 THEN FreeTag(top) ELSE NoTag]
           L == [o \in Orders |-> IF o = top THEN <<0>> ELSE <<>>]
<1>1. top \in Orders /\ top \in Nat /\ 0 \in Units /\ Units \subseteq Nat /\ Orders \subseteq Nat
  BY MaxOrderProps, BuddyAssumption DEF Orders, Units
<1>2. Pow2[top] = TopUnits /\ Pow2[top] \in Nat /\ Pow2[top] >= 1
  BY MaxOrderProps DEF TopUnits
<1>3. Fits(<<0, top>>)
  <2>1. Dyadic(0, top)
    <3>1. 0 \in Nat /\ 0 = 0 * Pow2[top]
      BY <1>2
    <3> QED
      BY <3>1 DEF Dyadic
  <2>2. 0 + Pow2[top] <= TopUnits /\ 0 \in Nat
    BY <1>2
  <2> QED
    BY <1>1, <2>1, <2>2, FitsIntro
<1> HIDE DEF top
<1>4. space = [lists |-> L, mask |-> {top}, tag |-> T]
  BY DEF Init, top
<1> HIDE DEF T, L
<1>5. space.lists = L /\ space.mask = {top} /\ space.tag = T
  BY <1>4
<1>6. \A o \in Orders : L[o] \in Seq(Units) /\ IsInjective(L[o])
                        /\ (L[o] # <<>> <=> o = top)
                        /\ \A u : Contains(L[o], u) <=> u = 0 /\ o = top
  <2>1. \A o \in Orders : L[o] = IF o = top THEN <<0>> ELSE <<>>
    BY DEF L
  <2>2. <<0>> \in Seq(Units) /\ <<0>> # <<>> /\ IsInjective(<<0>>) /\ \A u : Contains(<<0>>, u) <=> u = 0
    BY <1>1 DEF IsInjective, Contains
  <2>3. <<>> \in Seq(Units) /\ IsInjective(<<>>) /\ \A u : ~Contains(<<>>, u)
    BY DEF IsInjective, Contains
  <2>4. ASSUME NEW o \in Orders
        PROVE  /\ L[o] \in Seq(Units) /\ IsInjective(L[o]) /\ (L[o] # <<>> <=> o = top)
               /\ \A u : Contains(L[o], u) <=> u = 0 /\ o = top
    <3>1. CASE o = top
      <4>1. L[o] = <<0>>
        BY <2>1, <3>1
      <4> QED
        BY <2>2, <3>1, <4>1, Zenon
    <3>2. CASE o # top
      <4>1. L[o] = <<>>
        BY <2>1, <3>2
      <4> QED
        BY <2>3, <3>2, <4>1, Zenon
    <3> QED
      BY <3>1, <3>2
  <2> QED
    BY <2>4
<1>7. \A u \in Units : T[u] = IF u = 0 THEN FreeTag(top) ELSE NoTag
  BY DEF T
<1>8. FreeTag(top) \in BlockTags /\ NoTag \in BlockTags
  BY <1>1 DEF BlockTags
<1>9. T \in [Units -> BlockTags] /\ L \in [Orders -> Seq(Units)]
  <2>1. L \in [Orders -> Seq(Units)]
    BY <1>6 DEF L
  <2> QED
    BY <1>8, <2>1 DEF T
<1>10. space \in Spaces
  BY <1>1, <1>4, <1>9 DEF Spaces
<1>11. tcache = [o \in Orders |-> <<>>] /\ tcache \in Caches
       /\ \A o \in Orders : tcache[o] = <<>> /\ \A u : ~Contains(tcache[o], u)
  BY DEF Init, Caches, Contains
<1>12. \A u \in Units, o \in Orders : T[u] = FreeTag(o) <=> u = 0 /\ o = top
  <2>1. ASSUME NEW u \in Units, NEW o \in Orders, T[u] = FreeTag(o)
        PROVE  u = 0 /\ o = top
    <3>1. u = 0
      BY <1>7, <2>1, TagFacts
    <3>2. FreeTag(top) = FreeTag(o)
      BY <1>7, <2>1, <3>1
    <3> QED
      BY <3>1, <3>2, TagFacts
  <2> QED
    BY <1>1, <1>7, <2>1
<1>13. \A u \in Units, o \in Orders : T[u] # AllocTag(o)
  BY <1>7, TagFacts
<1>14. Blocks(space, tcache) = {<<0, top>>}
  <2>1. ASSUME NEW p \in Blocks(space, tcache)
        PROVE  p = <<0, top>>
    <3>1. p \in Units \X Orders /\ T[p[1]] = FreeTag(p[2])
      BY <1>5, <1>11, <1>13 DEF Blocks
    <3>2. p[1] = 0 /\ p[2] = top
      BY <1>12, <3>1
    <3> QED
      BY <3>1, <3>2
  <2>2. <<0, top>> \in Blocks(space, tcache)
    BY <1>1, <1>5, <1>12 DEF Blocks
  <2> QED
    BY <2>1, <2>2
<1>15. Partition({<<0, top>>})
  <2>1. ASSUME NEW u \in Nat, u < TopUnits
        PROVE  In(<<0, top>>, u)
    BY <1>2, <2>1 DEF In
  <2> QED
    BY <1>3, <2>1 DEF Partition, Disjoint, Covered
<1>16. Tagged(space) /\ Masked(space) /\ ListedOnce(space) /\ CachedUntagged(space, tcache)
  BY <1>5, <1>6, <1>11, <1>12 DEF Tagged, Masked, ListedOnce, CachedUntagged
<1>17. Apart(space)
  <2>1. ASSUME NEW u \in Units, NEW o \in Orders, o < MaxOrder - 1, space.tag[u] = FreeTag(o)
        PROVE  FALSE
    <3>1. o = top
      BY <1>5, <1>12, <2>1
    <3> QED
      BY <1>1, <2>1, <3>1 DEF top
  <2> QED
    BY <2>1 DEF Apart
<1>18. Sound(space, tcache)
  BY <1>10, <1>11, <1>14, <1>15, <1>16, <1>17 DEF Sound
<1>19. hdr \in Hdrs
  BY <1>1 DEF Init, Hdrs, Blank, Orders
<1>20. Headers(space, hdr) /\ Used(space) = {}
  BY <1>5, <1>13 DEF Headers, Used
<1>21. Live(space, hdr) = {} /\ Gone(space, hdr) = {}
  BY <1>20 DEF Live, Gone
<1>22. Charged(space, hdr, allocated, tombstoned)
  <2>1. UnitsIn({}) = {}
    BY DEF UnitsIn, Covered
  <2>2. Cardinality(UnitsIn({})) = 0
    BY <2>1, FS_EmptySet
  <2> QED
    BY <1>21, <2>2 DEF Charged, Init
<1>23. active \in Actives /\ \A o \in Orders : active[o][1] = None /\ active[o][2] = None
       /\ \A r \in 1 .. 2 : active[o][r] = None
  BY DEF Init, Actives
<1>24. Ring(space, hdr, active, tcache)
  <2>1. \A o \in Orders : Len(tcache[o]) <= 1 /\ Len(tcache[o]) <= CacheCap
    BY <1>11, BuddyAssumption
  <2> QED
    BY <1>5, <1>11, <1>13, <1>23, <2>1 DEF Ring
<1>25. rotor \in [Orders -> 1 .. 2] /\ held \subseteq Units
  BY DEF Init
<1> QED
  BY <1>18, <1>19, <1>20, <1>22, <1>23, <1>24, <1>25 DEF IInv, Good

\* find_free_order finds a list that has a block.
LEMMA FoundOrder ==
  ASSUME IInv, NEW o \in Orders, FindFreeOrder(o) < MaxOrder
  PROVE  /\ FindFreeOrder(o) \in Orders /\ o \in 0 .. FindFreeOrder(o)
         /\ space.lists[FindFreeOrder(o)] # <<>>
<1> DEFINE S == {MaxOrder} \cup {j \in space.mask : j >= o}
<1>1. space.mask \subseteq Orders /\ Masked(space)
  BY DEF IInv, Good, Sound, Spaces
<1>2. MaxOrder \in Nat /\ Orders \subseteq Nat /\ \A j \in Orders : j <= MaxOrder - 1
  BY MaxOrderProps DEF Orders
<1>3. S \in SUBSET Nat /\ S # {}
  BY <1>1, <1>2
<1>4. FindFreeOrder(o) = Min(S)
  BY DEF FindFreeOrder
<1> HIDE DEF S
<1>5. PICK x \in S : \A i \in S : x <= i
  BY <1>3, HasSmallest
<1>6. Min(S) \in S
  BY <1>5 DEF Min
<1>7. FindFreeOrder(o) \in space.mask /\ FindFreeOrder(o) >= o
  BY <1>2, <1>4, <1>6 DEF S
<1>8. FindFreeOrder(o) \in Orders /\ space.lists[FindFreeOrder(o)] # <<>>
  BY <1>1, <1>7 DEF Masked
<1>9. \A f \in Nat, e \in Nat : f >= e => e \in 0 .. f
  OBVIOUS
<1> QED
  BY <1>2, <1>7, <1>8, <1>9, Zenon

\* The slot an activation fills: both slots of the order are empty.
LEMMA SlotFacts ==
  ASSUME IInv, NEW o \in Orders
  PROVE  /\ ActiveSlot(o) \in 1 .. 2 /\ 3 - ActiveSlot(o) \in 1 .. 2
         /\ active[o][ActiveSlot(o)] = None => active[o][1] = None /\ active[o][2] = None
<1>1. rotor[o] \in 1 .. 2
  BY DEF IInv
<1>2. CASE rotor[o] = 1
  BY <1>2 DEF ActiveSlot
<1>3. CASE rotor[o] = 2
  BY <1>3 DEF ActiveSlot
<1> QED
  BY <1>1, <1>2, <1>3

\* The header of a block in use is found through its tag and agrees with it.
LEMMA OwnHeader ==
  ASSUME IInv, NEW off \in Units, IsAllocated(off)
  PROVE  \E o \in Orders : /\ space.tag[off] = AllocTag(o)
                           /\ HdrOf(off) = hdr[HdrUnit(off, o)] /\ HdrOf(off).order = o
                           /\ HdrOf(off).flags \in {Alloc, Temporal, Tombstone}
                           /\ HdrUnit(off, o) = HdrUnit(off, space.tag[off].order)
<1>1. space \in Spaces /\ Sound(space, tcache) /\ hdr \in Hdrs /\ Headers(space, hdr)
  BY DEF IInv, Good, Sound
<1>2. PICK o \in Orders : space.tag[off] = AllocTag(o)
  <2>1. space.tag[off] # NoTag /\ \A i : space.tag[off] # FreeTag(i)
    BY TagFacts DEF IsAllocated
  <2> QED
    BY <1>1, <2>1, TagCases
<1>3. space.tag[off].order = o
  BY <1>2, TagFacts
<1>4. HdrOf(off) = hdr[HdrUnit(off, o)]
  BY <1>3 DEF HdrOf
<1>5. hdr[HdrUnit(off, o)].order = o /\ hdr[HdrUnit(off, o)].flags # {}
  BY <1>1, <1>2 DEF Headers
<1>6. HdrUnit(off, o) \in Units
  BY <1>1, <1>2, UsedFits, HdrInside
<1>7. hdr[HdrUnit(off, o)].flags \in {{}, Alloc, Temporal, Tombstone}
  BY <1>1, <1>6 DEF Hdrs
<1> QED
  BY <1>2, <1>3, <1>4, <1>5, <1>7

\* allocate.
LEMMA AllocateInv ==
  ASSUME IInv, NEW n, Allocate(n)
  PROVE  IInv' /\ Takes
<1>1. PICK o \in Orders :
        /\ FindFreeOrder(o) < MaxOrder
        /\ space' = TakeAndSplit(space, FindFreeOrder(o), o)
        /\ HandOut(Head(space.lists[FindFreeOrder(o)]), o, Alloc)
        /\ UNCHANGED <<active, rotor, tcache>>
  BY DEF Allocate
<1>2. PICK from : from = FindFreeOrder(o)
  OBVIOUS
<1>3. PICK off : off = Head(space.lists[from])
  OBVIOUS
<1>4. from \in Orders /\ o \in 0 .. from /\ space.lists[from] # <<>>
  BY <1>1, <1>2, FoundOrder
<1>5. /\ hdr' = [hdr EXCEPT ![HdrUnit(off, o)] = [order |-> o, flags |-> Alloc]]
      /\ allocated' = allocated + Pow2[o] /\ held' = held \cup {off} /\ tombstoned' = tombstoned
  BY <1>1, <1>2, <1>3 DEF HandOut
<1>6. space' = TakeAndSplit(space, from, o) /\ active' = active /\ tcache' = tcache /\ rotor' = rotor
  BY <1>1, <1>2
<1>7. Good(space, hdr, active, tcache, allocated, tombstoned)
  BY DEF IInv
<1>8. /\ Marked(space, hdr, space', hdr', off, o, Alloc) /\ Cut(space, tcache, from, o, off, space')
      /\ Good(space', hdr', active, tcache, allocated + Pow2[o], tombstoned)
  <2>1. PlainDone(space, hdr, active, tcache, allocated, tombstoned, from, o, off, space', hdr')
    BY <1>3, <1>4, <1>5, <1>6, <1>7, GoodPlain
  <2> QED
    BY <2>1 DEF PlainDone
<1>9. off \in Units
  BY <1>8 DEF Cut
<1>10. Takes
  <2>1. Lent' = Lent
    BY <1>6 DEF Lent
  <2> QED
    BY <1>5, <1>8, <2>1 DEF Takes
<1> QED
  BY <1>5, <1>6, <1>8, <1>9, <1>10 DEF IInv

\* allocate_exact.
LEMMA AllocateExactInv ==
  ASSUME IInv, NEW n, AllocateExact(n)
  PROVE  IInv' /\ Takes
<1>1. PICK o \in Orders :
        /\ space.lists[o] # <<>>
        /\ space' = TakeAndSplit(space, o, o)
        /\ HandOut(Head(space.lists[o]), o, Alloc)
        /\ UNCHANGED <<active, rotor, tcache>>
  BY DEF AllocateExact
<1>3. PICK off : off = Head(space.lists[o])
  OBVIOUS
<1>4. o \in 0 .. o
  BY MaxOrderProps DEF Orders
<1>5. /\ hdr' = [hdr EXCEPT ![HdrUnit(off, o)] = [order |-> o, flags |-> Alloc]]
      /\ allocated' = allocated + Pow2[o] /\ held' = held \cup {off} /\ tombstoned' = tombstoned
  BY <1>1, <1>3 DEF HandOut
<1>6. active' = active /\ tcache' = tcache /\ rotor' = rotor
  BY <1>1
<1>7. Good(space, hdr, active, tcache, allocated, tombstoned)
  BY DEF IInv
<1>8. /\ Marked(space, hdr, space', hdr', off, o, Alloc) /\ Cut(space, tcache, o, o, off, space')
      /\ Good(space', hdr', active, tcache, allocated + Pow2[o], tombstoned)
  <2>1. PlainDone(space, hdr, active, tcache, allocated, tombstoned, o, o, off, space', hdr')
    BY <1>1, <1>3, <1>4, <1>5, <1>7, GoodPlain
  <2> QED
    BY <2>1 DEF PlainDone
<1>9. off \in Units
  BY <1>8 DEF Cut
<1>10. Takes
  <2>1. Lent' = Lent
    BY <1>6 DEF Lent
  <2> QED
    BY <1>5, <1>8, <2>1 DEF Takes
<1> QED
  BY <1>5, <1>6, <1>8, <1>9, <1>10 DEF IInv

\* temporal_allocate, an active block again.
LEMMA TemporalAgainInv ==
  ASSUME IInv, NEW n, TemporalAgain(n)
  PROVE  IInv' /\ Lends
<1>1. PICK o \in Orders :
        /\ active[o][ActiveSlot(o)] # None
        /\ rotor' = [rotor EXCEPT ![o] = 3 - ActiveSlot(o)]
        /\ held' = held \cup {active[o][ActiveSlot(o)]}
        /\ UNCHANGED <<space, hdr, active, tcache, allocated, tombstoned>>
  BY DEF TemporalAgain
<1>2. ActiveSlot(o) \in 1 .. 2 /\ 3 - ActiveSlot(o) \in 1 .. 2
  BY SlotFacts
<1>3. active \in Actives
  BY DEF IInv, Good
<1>4. active[o][ActiveSlot(o)] \in Units
  BY <1>1, <1>2, <1>3, ActiveUnit
<1>5. rotor' \in [Orders -> 1 .. 2]
  BY <1>1, <1>2 DEF IInv
<1>6. Keeps
  BY <1>1 DEF Keeps, Lent
<1>7. active[o][ActiveSlot(o)] \in Lent
  BY <1>1, <1>2 DEF Lent
<1>8. Lends
  BY <1>1, <1>6, <1>7 DEF Lends
<1> QED
  BY <1>1, <1>4, <1>5, <1>8 DEF IInv

\* An activation moves the rotor.
LEMMA ActivateFacts ==
  ASSUME IInv, NEW off, NEW o \in Orders, Activate(off, o)
  PROVE  /\ Activated(active, active', o, ActiveSlot(o), off)
         /\ rotor' \in [Orders -> 1 .. 2]
BY SlotFacts DEF Activate, Activated, IInv

\* temporal_allocate, a cached block.
LEMMA TemporalCachedInv ==
  ASSUME IInv, NEW n, TemporalCached(n)
  PROVE  IInv' /\ Takes
<1>1. PICK o \in Orders :
        /\ active[o][ActiveSlot(o)] = None /\ tcache[o] # <<>>
        /\ tcache' = [tcache EXCEPT ![o] = Tail(@)]
        /\ space' = [space EXCEPT !.tag[Head(tcache[o])] = AllocTag(o)]
        /\ Activate(Head(tcache[o]), o)
        /\ HandOut(Head(tcache[o]), o, Temporal)
  BY DEF TemporalCached
<1>3. PICK off : off = Head(tcache[o])
  OBVIOUS
<1>4. PICK q : q = ActiveSlot(o)
  OBVIOUS
<1>5. /\ hdr' = [hdr EXCEPT ![HdrUnit(off, o)] = [order |-> o, flags |-> Temporal]]
      /\ allocated' = allocated + Pow2[o] /\ held' = held \cup {off} /\ tombstoned' = tombstoned
  BY <1>1, <1>3 DEF HandOut
<1>6. space' = [space EXCEPT !.tag[off] = AllocTag(o)]
  BY <1>1, <1>3
<1>7. Activated(active, active', o, q, off) /\ rotor' \in [Orders -> 1 .. 2]
  BY <1>1, <1>3, <1>4, ActivateFacts
<1>8. q \in 1 .. 2 /\ active[o][1] = None /\ active[o][2] = None
  BY <1>1, <1>4, SlotFacts
<1>9. Good(space, hdr, active, tcache, allocated, tombstoned)
  BY DEF IInv
<1>10. /\ Marked(space, hdr, space', hdr', off, o, Temporal)
       /\ Uncached(space, tcache, o, off, space', tcache')
       /\ Good(space', hdr', active', tcache', allocated + Pow2[o], tombstoned)
  <2>1. CachedDone(space, hdr, active, tcache, allocated, tombstoned, o, off, space', tcache', hdr', q, active')
    BY <1>1, <1>3, <1>5, <1>6, <1>7, <1>8, <1>9, GoodCached
  <2> QED
    BY <2>1 DEF CachedDone
<1>11. off \in Units
  BY <1>10 DEF Uncached
<1>12. Takes
  <2>1. active[o][q] = None /\ active \in Actives
    BY <1>8, <1>9 DEF Good
  <2>2. Lent' = Lent \cup {off}
    BY <1>7, <1>8, <1>11, <2>1, SlotsActivated, LentIs
  <2> QED
    BY <1>5, <1>10, <2>2 DEF Takes
<1> QED
  BY <1>5, <1>7, <1>10, <1>11, <1>12 DEF IInv

\* temporal_allocate, a block cut from a free list.
LEMMA TemporalFreshInv ==
  ASSUME IInv, NEW n, TemporalFresh(n)
  PROVE  IInv' /\ Takes
<1>1. PICK o \in Orders :
        /\ active[o][ActiveSlot(o)] = None /\ tcache[o] = <<>>
        /\ FindFreeOrder(o) < MaxOrder
        /\ space' = TakeAndSplit(space, FindFreeOrder(o), o)
        /\ Activate(Head(space.lists[FindFreeOrder(o)]), o)
        /\ HandOut(Head(space.lists[FindFreeOrder(o)]), o, Temporal)
        /\ UNCHANGED tcache
  BY DEF TemporalFresh
<1>2. PICK from : from = FindFreeOrder(o)
  OBVIOUS
<1>3. PICK off : off = Head(space.lists[from])
  OBVIOUS
<1>4. PICK q : q = ActiveSlot(o)
  OBVIOUS
<1>5. /\ hdr' = [hdr EXCEPT ![HdrUnit(off, o)] = [order |-> o, flags |-> Temporal]]
      /\ allocated' = allocated + Pow2[o] /\ held' = held \cup {off} /\ tombstoned' = tombstoned
  BY <1>1, <1>2, <1>3 DEF HandOut
<1>6. /\ from \in Orders /\ o \in 0 .. from /\ space.lists[from] # <<>>
      /\ space' = TakeAndSplit(space, from, o) /\ tcache' = tcache
  BY <1>1, <1>2, FoundOrder
<1>7. Activated(active, active', o, q, off) /\ rotor' \in [Orders -> 1 .. 2]
  BY <1>1, <1>2, <1>3, <1>4, ActivateFacts
<1>8. q \in 1 .. 2 /\ active[o][1] = None /\ active[o][2] = None
  BY <1>1, <1>4, SlotFacts
<1>9. Good(space, hdr, active, tcache, allocated, tombstoned)
  BY DEF IInv
<1>10. /\ Marked(space, hdr, space', hdr', off, o, Temporal)
       /\ Cut(space, tcache, from, o, off, space')
       /\ Good(space', hdr', active', tcache, allocated + Pow2[o], tombstoned)
  <2>1. FreshDone(space, hdr, active, tcache, allocated, tombstoned, from, o, off, space', hdr', q, active')
    BY <1>1, <1>3, <1>5, <1>6, <1>7, <1>8, <1>9, GoodFresh
  <2> QED
    BY <2>1 DEF FreshDone
<1>11. off \in Units
  BY <1>10 DEF Cut
<1>12. Takes
  <2>1. active[o][q] = None /\ active \in Actives
    BY <1>8, <1>9 DEF Good
  <2>2. Lent' = Lent \cup {off}
    BY <1>7, <1>8, <1>11, <2>1, SlotsActivated, LentIs
  <2> QED
    BY <1>5, <1>10, <2>2 DEF Takes
<1> QED
  BY <1>5, <1>6, <1>7, <1>10, <1>11, <1>12 DEF IInv

\* The part of deallocate after the checks, on free lists s and headers h in which the
\* block is as it was.
LEMMA ReturnGood ==
  ASSUME NEW s, NEW h, NEW n, Good(s, h, active, tcache, n, tombstoned),
         NEW off \in Units, NEW o \in Orders, s.tag[off] = AllocTag(o),
         h[HdrUnit(off, o)] = HdrOf(off), HdrOf(off).flags \in {Alloc, Temporal},
         Return(s, off, o), hdr' = [h EXCEPT ![HdrUnit(off, o)] = Blank]
  PROVE  /\ Good(space', hdr', active', tcache', n - Pow2[o], tombstoned)
         /\ Unmarked(s, h, space', hdr', off, o) /\ Lent' = Lent \ {off}
         /\ tombstoned' = tombstoned /\ rotor' = rotor
<1>1. h[HdrUnit(off, o)].flags \in {Alloc, Temporal}
  OBVIOUS
<1>2. IsTemporal(off) <=> h[HdrUnit(off, o)].flags = Temporal
  BY FlagFacts DEF IsTemporal
<1>3. ~IsTombstoned(off)
  BY FlagFacts DEF IsTombstoned
<1>4. Cleared(h, active, active', off, o)
  BY <1>1, <1>2, FlagFacts DEF Return, Deactivated, Cleared
<1>5. \/ Stored(h, tcache, tcache', off, o) /\ space' = [s EXCEPT !.tag[off] = NoTag]
      \/ tcache' = tcache /\ space' = MergeAndFree(s, off, o)
  BY <1>2 DEF Return, ToCache, Stored
<1>6. tombstoned' = tombstoned /\ rotor' = rotor
  BY <1>3 DEF Return
<1>7. Good(space', hdr', active', tcache', n - Pow2[o], tombstoned) /\ Unmarked(s, h, space', hdr', off, o)
  BY <1>1, <1>4, <1>5, GoodFree
<1>8. Lent' = Lent \ {off}
  <2>1. active \in Actives /\ Ring(s, h, active, tcache)
    BY DEF Good
  <2>2. InSlots(active') = InSlots(active) \ {off}
    BY <1>1, <1>4, <2>1, SlotsCleared
  <2> QED
    BY <2>2, LentIs
<1> QED
  BY <1>6, <1>7, <1>8

\* deallocate.
LEMMA DeallocateInv ==
  ASSUME IInv, NEW off \in held, Deallocate(off)
  PROVE  IInv' /\ Gives
<1>1. off \in Units /\ IsAllocated(off) /\ ~IsTombstoned(off)
  BY DEF IInv, Deallocate, Freeable
<1>2. PICK o \in Orders : /\ space.tag[off] = AllocTag(o)
                          /\ HdrOf(off) = hdr[HdrUnit(off, o)] /\ HdrOf(off).order = o
                          /\ HdrOf(off).flags \in {Alloc, Temporal, Tombstone}
  BY <1>1, OwnHeader
<1>3. HdrOf(off).flags \in {Alloc, Temporal}
  BY <1>1, <1>2, FlagFacts DEF IsTombstoned
<1>4. /\ Return(space, off, o) /\ hdr' = [hdr EXCEPT ![HdrUnit(off, o)] = Blank]
      /\ allocated' = allocated - Pow2[o] /\ held' = held \ {off}
  BY <1>2 DEF Deallocate
<1>5. Good(space, hdr, active, tcache, allocated, tombstoned)
  BY DEF IInv
<1>6. /\ Good(space', hdr', active', tcache', allocated - Pow2[o], tombstoned)
      /\ Unmarked(space, hdr, space', hdr', off, o) /\ Lent' = Lent \ {off}
      /\ tombstoned' = tombstoned /\ rotor' = rotor
  BY <1>1, <1>2, <1>3, <1>4, <1>5, ReturnGood
<1>7. Gives
  BY <1>4, <1>6 DEF Gives
<1> QED
  BY <1>4, <1>6, <1>7 DEF IInv

\* tombstone.
LEMMA TombstoneInv ==
  ASSUME IInv, NEW off \in held, TombstoneBlock(off)
  PROVE  IInv' /\ Retiring
<1>1. off \in Units /\ IsAllocated(off) /\ "alloc" \in HdrOf(off).flags
  BY DEF IInv, TombstoneBlock
<1>2. PICK o \in Orders : /\ space.tag[off] = AllocTag(o)
                          /\ HdrOf(off) = hdr[HdrUnit(off, o)] /\ HdrOf(off).order = o
                          /\ HdrOf(off).flags \in {Alloc, Temporal, Tombstone}
                          /\ HdrUnit(off, o) = HdrUnit(off, space.tag[off].order)
  BY <1>1, OwnHeader
<1>3. "tombstone" \notin hdr[HdrUnit(off, o)].flags
  BY <1>1, <1>2, FlagFacts
<1>4. /\ hdr' = [hdr EXCEPT ![HdrUnit(off, o)].flags = Tombstone]
      /\ allocated' = allocated - Pow2[o] /\ tombstoned' = tombstoned + Pow2[o]
      /\ held' = held \ {off}
  BY <1>2 DEF TombstoneBlock
<1>5. space' = space /\ active' = active /\ rotor' = rotor /\ tcache' = tcache
  BY DEF TombstoneBlock
<1>6. Good(space, hdr, active, tcache, allocated, tombstoned)
  BY DEF IInv
<1>7. /\ Good(space, hdr', active, tcache, allocated - Pow2[o], tombstoned + Pow2[o])
      /\ Retired(space, hdr, hdr', off, o)
  <2>1. RetireDone(space, hdr, active, tcache, allocated, tombstoned, off, o, hdr')
    BY <1>1, <1>2, <1>3, <1>4, <1>6, GoodRetire
  <2> QED
    BY <2>1 DEF RetireDone
<1>8. Retiring
  <2>1. Lent' = Lent
    BY <1>5 DEF Lent
  <2> QED
    BY <1>4, <1>5, <1>7, <2>1 DEF Retiring
<1> QED
  BY <1>4, <1>5, <1>7, <1>8 DEF IInv

\* reallocate to another block.
LEMMA ReallocateInv ==
  ASSUME IInv, NEW off \in held, NEW n, Reallocate(off, n)
  PROVE  IInv' /\ Moves
<1>1. PICK o \in Orders :
        /\ Freeable(off) /\ FindFreeOrder(o) < MaxOrder
        /\ Return(TakeAndSplit(space, FindFreeOrder(o), o), off, HdrOf(off).order)
        /\ hdr' = [hdr EXCEPT ![HdrUnit(Head(space.lists[FindFreeOrder(o)]), o)]
                                  = [order |-> o, flags |-> Alloc],
                              ![HdrUnit(off, HdrOf(off).order)] = Blank]
        /\ allocated' = allocated + Pow2[o] - Pow2[HdrOf(off).order]
        /\ held' = (held \ {off}) \cup {Head(space.lists[FindFreeOrder(o)])}
  BY DEF Reallocate
<1>2. PICK from : from = FindFreeOrder(o)
  OBVIOUS
<1>3. PICK new : new = Head(space.lists[from])
  OBVIOUS
<1>4. PICK s1 : s1 = TakeAndSplit(space, from, o)
  OBVIOUS
<1>5. PICK h1 : h1 = [hdr EXCEPT ![HdrUnit(new, o)] = [order |-> o, flags |-> Alloc]]
  OBVIOUS
<1>6. off \in Units /\ IsAllocated(off) /\ ~IsTombstoned(off)
  BY <1>1 DEF IInv, Freeable
<1>7. PICK p \in Orders : /\ space.tag[off] = AllocTag(p)
                          /\ HdrOf(off) = hdr[HdrUnit(off, p)] /\ HdrOf(off).order = p
                          /\ HdrOf(off).flags \in {Alloc, Temporal, Tombstone}
  BY <1>6, OwnHeader
<1>8. HdrOf(off).flags \in {Alloc, Temporal}
  BY <1>6, <1>7, FlagFacts DEF IsTombstoned
<1>9. from \in Orders /\ o \in 0 .. from /\ space.lists[from] # <<>>
  BY <1>1, <1>2, FoundOrder
<1>10. Good(space, hdr, active, tcache, allocated, tombstoned)
  BY DEF IInv
<1>11. /\ Marked(space, hdr, s1, h1, new, o, Alloc) /\ Cut(space, tcache, from, o, new, s1)
       /\ Good(s1, h1, active, tcache, allocated + Pow2[o], tombstoned)
  <2>1. PlainDone(space, hdr, active, tcache, allocated, tombstoned, from, o, new, s1, h1)
    BY <1>3, <1>4, <1>5, <1>9, <1>10, GoodPlain
  <2> QED
    BY <2>1 DEF PlainDone
<1>12. new \in Units
  BY <1>11 DEF Cut
<1>13. s1.tag[off] = AllocTag(p) /\ h1[HdrUnit(off, p)] = HdrOf(off)
  BY <1>6, <1>7, <1>11 DEF Marked, Adds
<1>14. /\ Return(s1, off, p)
       /\ allocated' = allocated + Pow2[o] - Pow2[p] /\ held' = (held \ {off}) \cup {new}
  BY <1>1, <1>2, <1>3, <1>4, <1>7
<1>15. hdr' = [h1 EXCEPT ![HdrUnit(off, p)] = Blank]
  BY <1>1, <1>2, <1>3, <1>5, <1>7
<1>16. /\ Good(space', hdr', active', tcache', (allocated + Pow2[o]) - Pow2[p], tombstoned)
       /\ Unmarked(s1, h1, space', hdr', off, p) /\ Lent' = Lent \ {off}
       /\ tombstoned' = tombstoned /\ rotor' = rotor
  BY <1>6, <1>8, <1>11, <1>13, <1>14, <1>15, ReturnGood
<1>17. <<off, p>> \in Live(space, hdr)
  BY <1>6, <1>7 DEF Live, Gone, Used, TombAt, IsTombstoned
<1>18. Moves
  <2>1. Sound(s1, tcache)
    BY <1>11 DEF Cut
  <2> QED
    BY <1>11, <1>14, <1>16, <1>17, <2>1 DEF Moves
<1>19. Good(space', hdr', active', tcache', allocated', tombstoned')
  <2>1. allocated \in Nat
    BY <1>10, CountBound DEF Good, Charged
  <2>2. Pow2[o] \in Nat /\ Pow2[p] \in Nat
    BY MaxOrderProps, Pow2Pos DEF Orders
  <2>3. allocated' = (allocated + Pow2[o]) - Pow2[p]
    BY <1>14, <2>1, <2>2
  <2> QED
    BY <1>16, <2>3, Zenon
<1> QED
  BY <1>12, <1>14, <1>16, <1>18, <1>19 DEF IInv

\* The release of a tombstoned block.
LEMMA RefuseInv ==
  ASSUME IInv, NEW off \in held, Refuse(off)
  PROVE  IInv' /\ Refuses
<1>1. /\ space' = space /\ hdr' = hdr /\ active' = active /\ rotor' = rotor /\ tcache' = tcache
      /\ allocated' = allocated /\ tombstoned' = tombstoned
      /\ held' = held \ {off} /\ IsTombstoned(off)
  BY DEF Refuse
<1>2. Keeps
  BY <1>1 DEF Keeps, Lent
<1>3. Refuses
  BY <1>1, <1>2 DEF Refuses
<1> QED
  BY <1>1, <1>3 DEF IInv

\* Nothing happens.
LEMMA IdleInv ==
  ASSUME IInv, UNCHANGED vars
  PROVE  IInv' /\ Keeps /\ held' = held
BY DEF vars, IInv, Keeps, Lent

\* Every step keeps the invariant and is of one of seven forms.
LEMMA StepInv ==
  ASSUME IInv, [Next]_vars
  PROVE  IInv' /\ (Takes \/ Gives \/ Retiring \/ Moves \/ Lends \/ Refuses \/ (Keeps /\ held' = held))
<1>1. CASE UNCHANGED vars
  BY <1>1, IdleInv
<1>2. CASE \E n \in Sizes : \/ Allocate(n) \/ AllocateExact(n)
                            \/ TemporalAgain(n) \/ TemporalCached(n) \/ TemporalFresh(n)
  BY <1>2, AllocateInv, AllocateExactInv, TemporalAgainInv, TemporalCachedInv, TemporalFreshInv
<1>3. CASE \E off \in held : Deallocate(off)
  BY <1>3, DeallocateInv
<1>4. CASE \E off \in held : TombstoneBlock(off)
  BY <1>4, TombstoneInv
<1>5. CASE \E off \in held : Refuse(off)
  BY <1>5, RefuseInv
<1>6. CASE \E off \in held : \E n \in Sizes : Reallocate(off, n)
  BY <1>6, ReallocateInv
<1> QED
  BY <1>1, <1>2, <1>3, <1>4, <1>5, <1>6 DEF Next

\* The invariant holds in every state.
LEMMA Invariance == Spec => []IInv
<1>1. IInv /\ [Next]_vars => IInv'
  BY StepInv
<1> QED
  BY <1>1, InitInv, PTL DEF Spec

-----------------------------------------------------------------------------
(* The blocks of the specification *)

Image(B) == {BlockAt(p[1], p[2]) : p \in B}
Frees(s) == {p \in Units \X Orders : s.tag[p[1]] = FreeTag(p[2])}
Stock(tc) == {p \in Units \X Orders : Contains(tc[p[2]], p[1])}

\* The units of a block.
LEMMA CoversIn ==
  ASSUME NEW u, NEW i, NEW w
  PROVE  /\ Covers(BlockAt(u, i), w) <=> In(<<u, i>>, w)
         /\ BlockAt(u, i).off = u /\ BlockAt(u, i).len = Pow2[i]
BY DEF Covers, BlockAt, In

\* A set of units is the same in both forms.
LEMMA UnitsSame ==
  ASSUME NEW B \in SUBSET (Units \X Orders)
  PROVE  UnitsOf(Image(B)) = UnitsIn(B)
<1>1. ASSUME NEW u \in Units, NEW p \in B
      PROVE  Covers(BlockAt(p[1], p[2]), u) <=> In(p, u)
  <2>1. p = <<p[1], p[2]>>
    OBVIOUS
  <2> QED
    BY <2>1, CoversIn
<1> QED
  BY <1>1 DEF UnitsOf, UnitsIn, Image, Covered

\* The blocks in use, the tombstoned and the live ones.
LEMMA InUseIs ==
  ASSUME IInv
  PROVE  /\ InUse = Image(Used(space)) /\ Dead = Image(Gone(space, hdr))
         /\ InUse \ Dead = Image(Live(space, hdr))
<1>1. ASSUME NEW u \in Units
      PROVE  IsAllocated(u) <=> \E o \in Orders : space.tag[u] = AllocTag(o)
  <2>1. ASSUME NEW o \in Orders, space.tag[u] = AllocTag(o)
        PROVE  IsAllocated(u)
    <3>1. o < MaxOrder
      BY MaxOrderProps DEF Orders
    <3> QED
      BY <2>1, <3>1, TagFacts DEF IsAllocated
  <2> QED
    BY <2>1, OwnHeader
<1>2. ASSUME NEW u \in Units, NEW o \in Orders, space.tag[u] = AllocTag(o)
      PROVE  /\ space.tag[u].order = o
             /\ IsTombstoned(u) <=> TombAt(hdr, <<u, o>>)
  BY <1>2, TagFacts DEF IsTombstoned, HdrOf, TombAt
<1>3. ASSUME NEW p \in Used(space)
      PROVE  /\ p = <<p[1], p[2]>> /\ p[1] \in Units /\ p[2] \in Orders
             /\ IsAllocated(p[1]) /\ space.tag[p[1]].order = p[2]
             /\ BlockAt(p[1], p[2]).off = p[1]
             /\ IsTombstoned(p[1]) <=> TombAt(hdr, p)
  <2>1. p = <<p[1], p[2]>> /\ p[1] \in Units /\ p[2] \in Orders /\ space.tag[p[1]] = AllocTag(p[2])
    BY DEF Used
  <2>2. BlockAt(p[1], p[2]).off = p[1]
    BY DEF BlockAt
  <2>3. IsTombstoned(p[1]) <=> TombAt(hdr, <<p[1], p[2]>>)
    BY <1>2, <2>1
  <2>4. IsTombstoned(p[1]) <=> TombAt(hdr, p)
    BY <2>1, <2>3, Zenon
  <2> QED
    BY <1>1, <1>2, <2>1, <2>2, <2>4
<1>4. ASSUME NEW u \in Units, IsAllocated(u)
      PROVE  \E p \in Used(space) : p[1] = u /\ p[2] = space.tag[u].order
  <2>1. PICK o \in Orders : space.tag[u] = AllocTag(o)
    BY <1>1, <1>4
  <2>2. <<u, o>> \in Used(space) /\ space.tag[u].order = o
    BY <1>2, <2>1 DEF Used
  <2> QED
    BY <2>2
<1>5. InUse = Image(Used(space))
  <2>1. ASSUME NEW b \in InUse
        PROVE  b \in Image(Used(space))
    <3>1. PICK u \in Units : IsAllocated(u) /\ b = BlockAt(u, space.tag[u].order)
      BY DEF InUse
    <3> QED
      BY <1>4, <3>1 DEF Image
  <2>2. ASSUME NEW b \in Image(Used(space))
        PROVE  b \in InUse
    <3>1. PICK p \in Used(space) : b = BlockAt(p[1], p[2])
      BY DEF Image
    <3> QED
      BY <1>3, <3>1 DEF InUse
  <2> QED
    BY <2>1, <2>2
<1>6. ASSUME NEW p \in Used(space)
      PROVE  BlockAt(p[1], p[2]) \in Dead <=> p \in Gone(space, hdr)
  <2>1. BlockAt(p[1], p[2]) \in InUse
    BY <1>5 DEF Image
  <2> QED
    BY <1>3, <2>1 DEF Dead, Gone
<1>7. Dead \subseteq InUse /\ Gone(space, hdr) \subseteq Used(space) /\ Live(space, hdr) \subseteq Used(space)
  BY DEF Dead, Gone, Live
<1>8. \A b : b \in InUse <=> \E p \in Used(space) : b = BlockAt(p[1], p[2])
  BY <1>5 DEF Image
<1>9. Dead = Image(Gone(space, hdr))
  BY <1>6, <1>7, <1>8 DEF Image
<1>10. \A p \in Used(space) : p \in Live(space, hdr) <=> BlockAt(p[1], p[2]) \notin Dead
  BY <1>6 DEF Live
<1>11. InUse \ Dead = Image(Live(space, hdr))
  BY <1>7, <1>8, <1>10 DEF Image
<1> QED
  BY <1>5, <1>9, <1>11

(***************************************************************************)
(* allocated_bytes and tombstoned_bytes are exact for every sheet size,    *)
(* number of orders and cache depth, after any sequence of operations: the *)
(* arena, which unmaps a sheet when used() is zero, never unmaps one that  *)
(* holds a live block.                                                     *)
(***************************************************************************)
THEOREM CountersAreExact == Spec => []CountersExact
<1>1. IInv => CountersExact
  <2> SUFFICES ASSUME IInv
               PROVE  CountersExact
    OBVIOUS
  <2>1. Live(space, hdr) \in SUBSET (Units \X Orders) /\ Gone(space, hdr) \in SUBSET (Units \X Orders)
    BY DEF Live, Gone, Used
  <2>2. UnitsOf(InUse \ Dead) = UnitsIn(Live(space, hdr)) /\ UnitsOf(Dead) = UnitsIn(Gone(space, hdr))
    BY <2>1, InUseIs, UnitsSame
  <2>3. Charged(space, hdr, allocated, tombstoned)
    BY DEF IInv, Good
  <2> QED
    BY <2>2, <2>3 DEF Charged, CountersExact
<1> QED
  BY <1>1, Invariance, PTL

\* The free and the cached blocks.
LEMMA ListedIs ==
  ASSUME IInv
  PROVE  Listed = Image(Frees(space)) /\ Cached = Image(Stock(tcache))
<1>1. space \in Spaces /\ tcache \in Caches /\ Tagged(space)
  BY DEF IInv, Good, Sound
<1>2. \A o \in Orders : space.lists[o] \in Seq(Units) /\ tcache[o] \in Seq(Units)
  BY <1>1 DEF Spaces, Caches
<1>3. ASSUME NEW s \in Seq(Units), NEW u
      PROVE  (u \in ToSet(s) <=> Contains(s, u)) /\ (Contains(s, u) => u \in Units)
  <2>1. DOMAIN s = 1 .. Len(s) /\ \A i \in 1 .. Len(s) : s[i] \in Units
    BY <1>3
  <2> QED
    BY <2>1 DEF ToSet, Contains
<1>4. \A b : b \in Listed <=> \E o \in Orders : \E u \in ToSet(space.lists[o]) : b = BlockAt(u, o)
  BY DEF Listed
<1>5. \A b : b \in Cached <=> \E o \in Orders : \E u \in ToSet(tcache[o]) : b = BlockAt(u, o)
  BY DEF Cached
<1>6. \A u, o : o \in Orders => (u \in ToSet(space.lists[o]) <=> u \in Units /\ <<u, o>> \in Frees(space))
  <2>1. ASSUME NEW u, NEW o \in Orders
        PROVE  u \in ToSet(space.lists[o]) <=> u \in Units /\ <<u, o>> \in Frees(space)
    <3>1. (u \in ToSet(space.lists[o]) <=> Contains(space.lists[o], u))
          /\ (Contains(space.lists[o], u) => u \in Units)
      BY <1>2, <1>3
    <3> QED
      BY <1>1, <3>1 DEF Tagged, Frees
  <2> QED
    BY <2>1
<1>7. \A u, o : o \in Orders => (u \in ToSet(tcache[o]) <=> u \in Units /\ <<u, o>> \in Stock(tcache))
  <2>1. ASSUME NEW u, NEW o \in Orders
        PROVE  u \in ToSet(tcache[o]) <=> u \in Units /\ <<u, o>> \in Stock(tcache)
    <3>1. (u \in ToSet(tcache[o]) <=> Contains(tcache[o], u))
          /\ (Contains(tcache[o], u) => u \in Units)
      BY <1>2, <1>3
    <3> QED
      BY <3>1 DEF Stock
  <2> QED
    BY <2>1
<1>8. \A B \in SUBSET (Units \X Orders) : \A b :
        b \in Image(B) <=> \E o \in Orders : \E u \in Units : <<u, o>> \in B /\ b = BlockAt(u, o)
  <2>1. ASSUME NEW B \in SUBSET (Units \X Orders), NEW b \in Image(B)
        PROVE  \E o \in Orders : \E u \in Units : <<u, o>> \in B /\ b = BlockAt(u, o)
    <3>1. PICK p \in B : b = BlockAt(p[1], p[2])
      BY <2>1 DEF Image
    <3>2. p[1] \in Units /\ p[2] \in Orders /\ <<p[1], p[2]>> \in B
      BY <2>1
    <3> QED
      BY <3>1, <3>2
  <2>2. ASSUME NEW B, NEW b, NEW o, NEW u, <<u, o>> \in B, b = BlockAt(u, o)
        PROVE  b \in Image(B)
    <3>1. PICK p \in B : p = <<u, o>>
      BY <2>2
    <3>2. p[1] = u /\ p[2] = o
      BY <3>1
    <3> QED
      BY <2>2, <3>2 DEF Image
  <2> QED
    BY <2>1, <2>2
<1>9. Frees(space) \in SUBSET (Units \X Orders) /\ Stock(tcache) \in SUBSET (Units \X Orders)
  BY DEF Frees, Stock
<1>10. \A b : b \in Listed <=> b \in Image(Frees(space))
  <2>1. \A b : b \in Image(Frees(space))
                <=> \E o \in Orders : \E u \in Units : <<u, o>> \in Frees(space) /\ b = BlockAt(u, o)
    BY <1>8, <1>9, Zenon
  <2> QED
    BY <1>4, <1>6, <2>1
<1>11. \A b : b \in Cached <=> b \in Image(Stock(tcache))
  <2>1. \A b : b \in Image(Stock(tcache))
                <=> \E o \in Orders : \E u \in Units : <<u, o>> \in Stock(tcache) /\ b = BlockAt(u, o)
    BY <1>8, <1>9, Zenon
  <2> QED
    BY <1>5, <1>7, <2>1
<1> QED
  BY <1>10, <1>11

\* Every variable has its type.
LEMMA InvTypes ==
  ASSUME IInv
  PROVE  TypeOK
<1>1. Good(space, hdr, active, tcache, allocated, tombstoned)
  BY DEF IInv
<1>2. space \in Spaces /\ tcache \in Caches
  BY <1>1 DEF Good, Sound
<1>3. space.lists \in [Orders -> Seq(Units)] /\ space.mask \subseteq Orders /\ space.tag \in [Units -> BlockTags]
  BY <1>2 DEF Spaces
<1>4. \A o \in Orders : Len(tcache[o]) <= CacheCap
  BY <1>1 DEF Good, Ring
<1>5. allocated \in 0 .. Total /\ tombstoned \in 0 .. Total
  <2>1. allocated = Cardinality(UnitsIn(Live(space, hdr))) /\ tombstoned = Cardinality(UnitsIn(Gone(space, hdr)))
    BY <1>1 DEF Good, Charged
  <2>2. allocated \in Nat /\ allocated <= Total /\ tombstoned \in Nat /\ tombstoned <= Total
    BY <2>1, CountBound
  <2> QED
    BY <2>2, BuddyAssumption
<1> QED
  BY <1>1, <1>2, <1>3, <1>4, <1>5 DEF TypeOK, IInv, Good, Hdrs, Actives, Caches

\* How many blocks of a set hold a unit.
LEMMA HoldersAre ==
  ASSUME NEW C, Disjoint(C), NEW B \in SUBSET C, B \in SUBSET (Units \X Orders),
         NEW u \in Nat, NEW q \in C, In(q, u)
  PROVE  /\ q \in B => Cardinality({b \in Image(B) : Covers(b, u)}) = 1
         /\ q \notin B => Cardinality({b \in Image(B) : Covers(b, u)}) = 0
<1>1. ASSUME NEW p \in B
      PROVE  Covers(BlockAt(p[1], p[2]), u) <=> p = q
  <2>1. p = <<p[1], p[2]>>
    OBVIOUS
  <2>2. Covers(BlockAt(p[1], p[2]), u) <=> In(p, u)
    BY <2>1, CoversIn
  <2> QED
    BY <2>2 DEF Disjoint
<1>2. ASSUME q \in B
      PROVE  {b \in Image(B) : Covers(b, u)} = {BlockAt(q[1], q[2])}
  BY <1>1, <1>2 DEF Image
<1>3. ASSUME q \notin B
      PROVE  {b \in Image(B) : Covers(b, u)} = {}
  BY <1>1, <1>3 DEF Image
<1> QED
  BY <1>2, <1>3, FS_Singleton, FS_EmptySet

\* Every unit of the largest block lies in one block.
LEMMA InvTiling ==
  ASSUME IInv
  PROVE  Tiling
<1>1. Sound(space, tcache) /\ Ring(space, hdr, active, tcache) /\ tcache \in Caches
  BY DEF IInv, Good, Sound
<1> DEFINE C == Blocks(space, tcache)
           F == Frees(space)
           S == Stock(tcache)
           W == Used(space)
<1>2. Partition(C) /\ Disjoint(C) /\ ListedOnce(space) /\ CachedUntagged(space, tcache)
  BY <1>1 DEF Sound, Partition
<1>3. /\ F \in SUBSET C /\ S \in SUBSET C /\ W \in SUBSET C
      /\ F \in SUBSET (Units \X Orders) /\ S \in SUBSET (Units \X Orders) /\ W \in SUBSET (Units \X Orders)
      /\ \A p \in C : p \in F \/ p \in S \/ p \in W
  BY DEF Blocks, Frees, Stock, Used
<1>4. \A p \in C : ~(p \in F /\ p \in S) /\ ~(p \in F /\ p \in W) /\ ~(p \in S /\ p \in W)
  BY <1>2, TagFacts DEF Blocks, Frees, Stock, Used, CachedUntagged
<1> HIDE DEF C, F, S, W
<1>5. ASSUME NEW u \in 0 .. (Pow2[MaxOrder - 1] - 1)
      PROVE  Cardinality({b \in Image(F) : Covers(b, u)}) + Cardinality({b \in Image(S) : Covers(b, u)})
               + Cardinality({b \in Image(W) : Covers(b, u)}) = 1
  <2>1. u \in Nat /\ u < TopUnits
    BY MaxOrderProps DEF TopUnits
  <2>2. PICK q \in C : In(q, u)
    BY <1>2, <2>1 DEF Partition, Covered
  <2>3. /\ q \in F => Cardinality({b \in Image(F) : Covers(b, u)}) = 1
        /\ q \notin F => Cardinality({b \in Image(F) : Covers(b, u)}) = 0
    BY <1>2, <1>3, <2>1, <2>2, HoldersAre
  <2>4. /\ q \in S => Cardinality({b \in Image(S) : Covers(b, u)}) = 1
        /\ q \notin S => Cardinality({b \in Image(S) : Covers(b, u)}) = 0
    BY <1>2, <1>3, <2>1, <2>2, HoldersAre
  <2>5. /\ q \in W => Cardinality({b \in Image(W) : Covers(b, u)}) = 1
        /\ q \notin W => Cardinality({b \in Image(W) : Covers(b, u)}) = 0
    BY <1>2, <1>3, <2>1, <2>2, HoldersAre
  <2>6. \/ q \in F /\ q \notin S /\ q \notin W
        \/ q \notin F /\ q \in S /\ q \notin W
        \/ q \notin F /\ q \notin S /\ q \in W
    BY <1>3, <1>4, <2>2
  <2>7. 1 + 0 + 0 = 1 /\ 0 + 1 + 0 = 1 /\ 0 + 0 + 1 = 1
    OBVIOUS
  <2> QED
    BY <2>3, <2>4, <2>5, <2>6, <2>7
<1>6. ASSUME NEW o \in Orders
      PROVE  IsInjective(space.lists[o]) /\ IsInjective(tcache[o])
  <2>1. tcache[o] \in Seq(Units) /\ Len(tcache[o]) <= 1
    BY <1>1 DEF Caches, Ring
  <2>2. IsInjective(tcache[o])
    BY <2>1 DEF IsInjective
  <2> QED
    BY <1>2, <2>2 DEF ListedOnce
<1>7. Listed = Image(F) /\ Cached = Image(S) /\ InUse = Image(W)
  BY ListedIs, InUseIs DEF F, S, W
<1>8. ASSUME NEW u \in 0 .. (Pow2[MaxOrder - 1] - 1)
      PROVE  Cardinality({b \in Listed : Covers(b, u)}) + Cardinality({b \in Cached : Covers(b, u)})
               + Cardinality({b \in InUse : Covers(b, u)}) = 1
  BY <1>5, <1>7
<1> QED
  BY <1>6, <1>8 DEF Tiling

\* Tags, lists, mask and headers agree.
LEMMA InvTables ==
  ASSUME IInv
  PROVE  TablesAgree
<1>1. Tagged(space) /\ Masked(space) /\ Headers(space, hdr)
  BY DEF IInv, Good, Sound
<1>2. ASSUME NEW b \in InUse
      PROVE  HdrOf(b.off).order = space.tag[b.off].order /\ HdrOf(b.off).flags # {}
  <2>1. PICK u \in Units : IsAllocated(u) /\ b = BlockAt(u, space.tag[u].order)
    BY DEF InUse
  <2>2. b.off = u
    BY <2>1 DEF BlockAt
  <2>3. PICK o \in Orders : /\ space.tag[u] = AllocTag(o) /\ HdrOf(u).order = o
                            /\ HdrOf(u).flags \in {Alloc, Temporal, Tombstone}
    BY <2>1, OwnHeader
  <2>4. space.tag[u].order = o
    BY <2>3, TagFacts
  <2> QED
    BY <2>2, <2>3, <2>4, FlagFacts
<1> QED
  BY <1>1, <1>2 DEF TablesAgree, Tagged, Masked

\* The active blocks are in use, one of an order at most.
LEMMA InvActive ==
  ASSUME IInv
  PROVE  ActiveInUse
<1>1. Ring(space, hdr, active, tcache)
  BY DEF IInv, Good
<1>2. ASSUME NEW o \in Orders
      PROVE  Cardinality({r \in 1 .. 2 : active[o][r] # None}) + Len(tcache[o]) <= 1
  <2> DEFINE A == {r \in 1 .. 2 : active[o][r] # None}
  <2>1. /\ active[o][1] = None \/ active[o][2] = None
        /\ active[o][1] # None \/ active[o][2] # None => tcache[o] = <<>>
        /\ Len(tcache[o]) <= 1
    BY <1>1 DEF Ring
  <2>2. \A r : r \in 1 .. 2 <=> r = 1 \/ r = 2
    OBVIOUS
  <2>3. tcache[o] \in Seq(Units)
    BY DEF IInv, Good, Sound, Caches
  <2>4. Len(tcache[o]) \in Nat /\ (tcache[o] = <<>> => Len(tcache[o]) = 0)
    BY <2>3
  <2>5. CASE active[o][1] = None /\ active[o][2] = None
    <3>1. A = {}
      BY <2>2, <2>5
    <3>2. Cardinality(A) = 0
      BY <3>1, FS_EmptySet
    <3> HIDE DEF A
    <3>3. \A x \in Nat : x <= 1 => 0 + x <= 1
      OBVIOUS
    <3>4. Cardinality(A) + Len(tcache[o]) <= 1
      BY <2>1, <2>4, <3>2, <3>3, Zenon
    <3> QED
      BY <3>4 DEF A
  <2>6. CASE ~(active[o][1] = None /\ active[o][2] = None)
    <3>1. A = {1} \/ A = {2}
      BY <2>1, <2>2, <2>6
    <3>2. Cardinality(A) = 1
      BY <3>1, FS_Singleton
    <3>3. Len(tcache[o]) = 0
      BY <2>1, <2>4, <2>6
    <3>4. 1 + 0 <= 1
      OBVIOUS
    <3> QED
      BY <3>2, <3>3, <3>4
  <2> QED
    BY <2>5, <2>6
<1> QED
  BY <1>1, <1>2 DEF ActiveInUse, Ring

(***************************************************************************)
(* For every sheet size, number of orders and cache depth, whatever is     *)
(* allocated, freed, tombstoned and reallocated: splits and merges tile    *)
(* the sheet, and lists, mask, tags, headers and temporal slots describe   *)
(* the same tiling.                                                        *)
(***************************************************************************)
THEOREM SheetIsSound == Spec => []SheetSound
<1>1. IInv => SheetSound
  BY InvTypes, InvTiling, InvTables, InvActive DEF SheetSound
<1> QED
  BY <1>1, Invariance, PTL

-----------------------------------------------------------------------------
(* A request fails only when there is no room *)

\* A free block inside a larger aligned run of free units has a larger free block
\* beside it, or its buddy is free: the second never happens.
LEMMA NoSmallRuns ==
  ASSUME NEW s, NEW tc, Sound(s, tc), NEW o \in Orders, NEW x, Dyadic(x, o),
         \A u \in Nat : x <= u /\ u < x + Pow2[o] => Covered(Frees(s), u)
  PROVE  \E j \in Orders : j >= o /\ s.lists[j] # <<>>
<1> SUFFICES ASSUME \A j \in Orders : j >= o => s.lists[j] = <<>>
             PROVE  FALSE
  OBVIOUS
<1>1. o \in Nat /\ o <= MaxOrder - 1 /\ Orders \subseteq Nat /\ Units \subseteq Nat /\ MaxOrder \in Nat
  BY MaxOrderProps, BuddyAssumption DEF Orders, Units
<1>2. s \in Spaces /\ Tagged(s) /\ Apart(s) /\ Partition(Blocks(s, tc))
  BY DEF Sound
<1>3. Disjoint(Blocks(s, tc)) /\ \A p \in Blocks(s, tc) : Fits(p)
  BY <1>2 DEF Partition
<1>4. ASSUME NEW p \in Frees(s)
      PROVE  /\ p = <<p[1], p[2]>> /\ p[1] \in Units /\ p[2] \in Orders /\ s.tag[p[1]] = FreeTag(p[2])
             /\ Fits(<<p[1], p[2]>>) /\ p \in Blocks(s, tc) /\ p[2] < o
  <2>1. p = <<p[1], p[2]>> /\ p[1] \in Units /\ p[2] \in Orders /\ s.tag[p[1]] = FreeTag(p[2])
    BY DEF Frees
  <2>2. p \in Blocks(s, tc)
    BY DEF Frees, Blocks
  <2>3. s.lists[p[2]] \in Seq(Units) /\ Contains(s.lists[p[2]], p[1])
    BY <1>2, <2>1 DEF Tagged, Spaces
  <2>4. s.lists[p[2]] # <<>>
    BY <2>1, <2>3, EmptyList
  <2>5. ~(p[2] >= o)
    BY <2>1, <2>4
  <2>6. Fits(p)
    BY <1>3, <2>2
  <2>7. p[2] < o
    BY <1>1, <2>1, <2>5
  <2> QED
    BY <2>1, <2>2, <2>6, <2>7
<1> DEFINE J == {j \in Orders : \E p \in Frees(s) : p[2] = j /\ \E u \in Nat : In(p, u) /\ x <= u /\ u < x + Pow2[o]}
<1>5. x \in Nat /\ Pow2[o] \in Nat /\ Pow2[o] >= 1
  BY <1>1, Pow2Pos, DyadicDown
<1>6. J # {} /\ J \in SUBSET Nat
  <2>1. x <= x /\ x < x + Pow2[o]
    BY <1>5
  <2>2. PICK p \in Frees(s) : In(p, x)
    BY <1>5, <2>1 DEF Covered
  <2>3. p[2] \in J
    BY <1>4, <1>5, <2>1, <2>2
  <2> QED
    BY <1>1, <2>3
<1>7. PICK j \in J : \A i \in J : j <= i
  <2> HIDE DEF J
  <2> QED
    BY <1>6, HasSmallest
<1>8. PICK p \in Frees(s), u \in Nat : p[2] = j /\ In(p, u) /\ x <= u /\ u < x + Pow2[o]
  BY <1>7
<1>9. PICK v : v = p[1]
  OBVIOUS
<1>10. /\ p = <<v, j>> /\ v \in Units /\ v \in Nat /\ j \in Orders /\ j \in Nat /\ j < o /\ s.tag[v] = FreeTag(j)
       /\ Fits(<<v, j>>) /\ <<v, j>> \in Blocks(s, tc) /\ v <= u /\ u < v + Pow2[j]
  BY <1>1, <1>4, <1>8, <1>9 DEF In
<1>11. Dyadic(v, j) /\ Pow2[j] \in Nat /\ Pow2[j] >= 1
  BY <1>10, FitsProps
<1>12. j < MaxOrder - 1 /\ j <= o /\ j + 1 <= o /\ j + 1 \in Nat
  BY <1>1, <1>10
\* The parent of the block lies inside the run.
<1> DEFINE y == Buddy(v, j)
           w == At(v, j + 1)
<1>13. At(v, j) = v
  <2>1. v <= v /\ v < v + Pow2[j]
    BY <1>10, <1>11
  <2> QED
    BY <1>10, <1>11, <2>1, AtUnique
<1>14. (w = v /\ y = v + Pow2[j]) \/ (w = y /\ v = y + Pow2[j])
  BY <1>10, <1>13, AtStep
<1>15. y \in Nat /\ Dyadic(y, j)
  BY <1>10, <1>11, BuddyHalves
<1>16. w \in Nat /\ Dyadic(w, j + 1) /\ w <= v /\ v < w + Pow2[j + 1] /\ Pow2[j + 1] = 2 * Pow2[j]
  BY <1>10, <1>12, AtProps, Pow2Def
<1> HIDE DEF y, w
<1>17. w <= u /\ u < w + Pow2[j + 1] /\ w <= y /\ y < w + Pow2[j + 1] /\ y < y + Pow2[j]
  BY <1>10, <1>11, <1>14, <1>15, <1>16
<1>18. x <= w /\ w + Pow2[j + 1] <= x + Pow2[o]
  BY <1>1, <1>8, <1>12, <1>16, <1>17, Nest
<1>19. x <= y /\ y < x + Pow2[o]
  <2>1. Pow2[j + 1] \in Nat
    BY <1>12, Pow2Pos
  <2> QED
    BY <1>5, <1>15, <1>16, <1>17, <1>18, <2>1
\* The block that holds the buddy is no smaller, hence the buddy itself.
<1>20. PICK q \in Frees(s) : In(q, y)
  BY <1>15, <1>19 DEF Covered
<1>21. PICK z, i : z = q[1] /\ i = q[2]
  OBVIOUS
<1>22. /\ q = <<z, i>> /\ z \in Nat /\ i \in Orders /\ i \in Nat /\ s.tag[z] = FreeTag(i) /\ Fits(<<z, i>>)
       /\ <<z, i>> \in Blocks(s, tc) /\ z <= y /\ y < z + Pow2[i]
  BY <1>1, <1>4, <1>20, <1>21 DEF In
<1>23. Dyadic(z, i)
  BY <1>22, FitsProps
<1>24. j <= i
  BY <1>7, <1>15, <1>19, <1>20, <1>21, <1>22
<1>25. CASE i = j
  <2>1. z = At(y, j) /\ y = At(y, j)
    <3>1. y <= y /\ y < y + Pow2[j]
      BY <1>15, <1>17
    <3> QED
      BY <1>10, <1>15, <1>22, <1>23, <1>25, <3>1, AtUnique
  <2>2. s.tag[Buddy(v, j)] = FreeTag(j)
    BY <1>22, <1>25, <2>1 DEF y
  <2> QED
    BY <1>2, <1>10, <1>12, <2>2 DEF Apart
<1>26. CASE i # j
  <2>1. j + 1 <= i
    BY <1>10, <1>22, <1>24, <1>26
  <2>2. z <= w /\ w + Pow2[j + 1] <= z + Pow2[i]
    BY <1>12, <1>15, <1>16, <1>17, <1>22, <1>23, <2>1, Nest
  <2>3. Pow2[i] \in Nat /\ Pow2[j + 1] \in Nat
    BY <1>12, <1>22, Pow2Pos
  <2>4. z <= v /\ v < z + Pow2[i] /\ v <= v /\ v < v + Pow2[j]
    <3>1. \A a, b, c, d, e \in Nat : a <= b /\ b + c <= a + d /\ b <= e /\ e < b + c
                                     => a <= e /\ e < a + d
      OBVIOUS
    <3>2. v \in Nat /\ w \in Nat /\ z \in Nat /\ w <= v /\ v < w + Pow2[j + 1]
      BY <1>10, <1>16, <1>22
    <3>3. z <= v /\ v < z + Pow2[i]
      <4>1. PICK c, d : c = Pow2[j + 1] /\ d = Pow2[i]
        OBVIOUS
      <4>2. c \in Nat /\ d \in Nat /\ z <= w /\ w + c <= z + d /\ w <= v /\ v < w + c
        BY <2>2, <2>3, <3>2, <4>1, Zenon
      <4>3. z <= v /\ v < z + d
        BY <3>1, <3>2, <4>2
      <4> QED
        BY <4>1, <4>3
    <3>4. v <= v /\ v < v + Pow2[j]
      BY <1>10, <1>11
    <3> QED
      BY <3>3, <3>4
  <2>5. In(<<z, i>>, v) /\ In(<<v, j>>, v)
    BY <2>4 DEF In
  <2>6. <<z, i>> = <<v, j>>
    BY <1>3, <1>10, <1>22, <2>5 DEF Disjoint
  <2> QED
    BY <1>26, <2>6
<1> QED
  BY <1>25, <1>26

\* A power of two is larger than its exponent.
LEMMA Pow2Above ==
  ASSUME NEW n \in Nat
  PROVE  n < Pow2[n]
<1> SUFFICES ASSUME ~(n < Pow2[n]) PROVE FALSE
  OBVIOUS
<1> DEFINE S == {i \in Nat : ~(i < Pow2[i])}
<1>1. PICK m \in S : \A i \in S : m <= i
  <2>1. S \in SUBSET Nat /\ n \in S
    OBVIOUS
  <2> HIDE DEF S
  <2> QED
    BY <2>1, HasSmallest
<1>2. m # 0 /\ m \in Nat
  BY Pow2Def
<1>3. m - 1 \in Nat /\ (m - 1) + 1 = m /\ ~(m <= m - 1)
  BY <1>2
<1>4. m - 1 < Pow2[m - 1] /\ Pow2[m - 1] \in Nat
  BY <1>1, <1>3, Pow2Def
<1>5. Pow2[m] = 2 * Pow2[m - 1]
  BY <1>3, Pow2Def
<1> QED
  BY <1>1, <1>2, <1>3, <1>4, <1>5

\* A block of the order that order_for_size returns has the bytes asked for.
LEMMA OrderHolds ==
  ASSUME NEW m \in Nat
  PROVE  OrderForSize(m) \in Nat /\ m <= MinBytes * Pow2[OrderForSize(m)]
<1>1. MinBytes \in Nat /\ MinBytes >= 1
  BY BuddyAssumption
<1>2. PICK units : units = ((m - 1) \div MinBytes) + 1
  OBVIOUS
<1>3. units \in Nat /\ m <= MinBytes * units
  <2>1. PICK q, r : q = (m - 1) \div MinBytes /\ r = (m - 1) % MinBytes
    OBVIOUS
  <2>2. q \in Int /\ r \in 0 .. (MinBytes - 1) /\ m - 1 = MinBytes * q + r
    BY <1>1, <2>1
  <2>3. q >= -1
    <3>1. ASSUME q <= -2
          PROVE  FALSE
      <4>1. PICK d : d = -2 - q
        OBVIOUS
      <4>2. d \in Nat /\ q = -2 - d
        BY <2>2, <3>1, <4>1
      <4>3. MinBytes * q = -(2 * MinBytes) - MinBytes * d /\ MinBytes * d \in Nat
        BY <1>1, <4>2
      <4> QED
        BY <1>1, <2>2, <4>3
    <3> QED
      BY <2>2, <3>1
  <2>4. units = q + 1
    BY <1>2, <2>1
  <2>5. MinBytes * units = MinBytes * q + MinBytes /\ MinBytes * q \in Int
    BY <1>1, <2>2, <2>4
  <2>6. m <= MinBytes * units
    BY <1>1, <2>2, <2>5
  <2> QED
    BY <2>2, <2>3, <2>4, <2>6
<1> DEFINE S == {o \in 0 .. units : Pow2[o] >= units}
<1>4. units \in S /\ S \in SUBSET Nat
  BY <1>3, Pow2Above, Pow2Pos
<1>5. OrderForSize(m) = Min(S)
  BY <1>2 DEF OrderForSize
<1>6. \A o \in S : o \in Nat /\ Pow2[o] >= units
  BY <1>3
<1> HIDE DEF S
<1>7. PICK x \in S : \A i \in S : x <= i
  BY <1>4, HasSmallest
<1>8. Min(S) \in S
  BY <1>7 DEF Min
<1>9. PICK o : o = OrderForSize(m)
  OBVIOUS
<1>10. o \in Nat /\ Pow2[o] >= units /\ Pow2[o] \in Nat
  BY <1>5, <1>6, <1>8, <1>9, Pow2Pos
<1>11. units * MinBytes <= Pow2[o] * MinBytes
  BY <1>1, <1>3, <1>10, MulMono
<1>12. m <= MinBytes * Pow2[o]
  <2>1. PICK c : c = Pow2[o]
    OBVIOUS
  <2>2. c \in Nat /\ units * MinBytes <= c * MinBytes
    BY <1>10, <1>11, <2>1
  <2>3. MinBytes * units = units * MinBytes /\ MinBytes * c = c * MinBytes
        /\ units * MinBytes \in Nat /\ c * MinBytes \in Nat
    BY <1>1, <1>3, <2>2
  <2>4. m <= MinBytes * c
    BY <1>3, <2>2, <2>3
  <2> QED
    BY <2>1, <2>4
<1> QED
  BY <1>9, <1>10, <1>12

\* An order that serves a request has room for it and the header.
LEMMA ServedFits ==
  ASSUME NEW n \in Sizes, NEW o, Serves(n, o)
  PROVE  n + HdrOffset <= MinBytes * Pow2[o]
<1>1. n \in Nat /\ HdrOffset \in Nat /\ UsizeMax \in Nat /\ n <= UsizeMax - HdrOffset
  BY BuddyAssumption DEF Serves
<1>2. n + HdrOffset \in Nat /\ n + HdrOffset < UsizeMax + 1
  BY <1>1
<1>3. (n + HdrOffset) % (UsizeMax + 1) = n + HdrOffset
  BY <1>1, <1>2
<1>4. o = OrderForSize(n + HdrOffset)
  BY <1>3 DEF Serves
<1> QED
  BY <1>2, <1>4, OrderHolds

\* The smallest order of the mask that is large enough is found.
LEMMA InvRoom ==
  ASSUME IInv
  PROVE  RoomIsFound
<1>1. Sound(space, tcache) /\ Masked(space) /\ space.mask \subseteq Orders
  BY DEF IInv, Good, Sound, Spaces
<1>2. ASSUME NEW o \in Orders, NEW k \in 0 .. Total,
             \A u \in Span(k * Pow2[o], o) : \E b \in Listed : Covers(b, u)
      PROVE  FindFreeOrder(o) < MaxOrder
  <2>1. o \in Nat /\ k \in Nat /\ Pow2[o] \in Nat /\ MaxOrder \in Nat /\ Orders \subseteq Nat
    BY MaxOrderProps, Pow2Pos, BuddyAssumption DEF Orders
  <2>2. PICK x : x = k * Pow2[o]
    OBVIOUS
  <2>3. x \in Nat /\ Dyadic(x, o)
    BY <2>1, <2>2 DEF Dyadic
  <2>4. ASSUME NEW u \in Nat, x <= u, u < x + Pow2[o]
        PROVE  Covered(Frees(space), u)
    <3>1. u \in Span(x, o)
      BY <2>1, <2>3, <2>4 DEF Span, HdrUnit
    <3>2. PICK b \in Listed : Covers(b, u)
      BY <1>2, <2>2, <3>1
    <3>3. PICK p \in Frees(space) : b = BlockAt(p[1], p[2])
      BY ListedIs DEF Image
    <3>4. p = <<p[1], p[2]>>
      BY DEF Frees
    <3>5. In(p, u)
      BY <3>2, <3>3, <3>4, CoversIn
    <3> QED
      BY <3>5 DEF Covered
  <2>5. PICK j \in Orders : j >= o /\ space.lists[j] # <<>>
    BY <1>1, <2>3, <2>4, NoSmallRuns
  <2> DEFINE S == {MaxOrder} \cup {i \in space.mask : i >= o}
  <2>6. j \in S /\ S \in SUBSET Nat
    BY <1>1, <2>1, <2>5 DEF Masked
  <2>7. FindFreeOrder(o) = Min(S)
    BY DEF FindFreeOrder
  <2> HIDE DEF S
  <2>8. PICK m \in S : \A i \in S : m <= i
    BY <2>6, HasSmallest
  <2>9. Min(S) \in S /\ \A i \in S : Min(S) <= i
    BY <2>8 DEF Min
  <2>10. Min(S) <= j /\ Min(S) \in Nat
    BY <2>6, <2>9
  <2>11. j < MaxOrder /\ j \in Nat
    BY <2>1 DEF Orders
  <2> QED
    BY <2>1, <2>7, <2>10, <2>11
<1> QED
  BY <1>2, ServedFits DEF RoomIsFound

(***************************************************************************)
(* No two free buddies are ever left apart, so a request that finds no     *)
(* block means that no aligned run of free units is large enough: a sheet  *)
(* never fails a request it has room for.  And a block of the order chosen *)
(* for a request has the bytes asked for, as the sum with the header's     *)
(* size does not wrap.                                                     *)
(***************************************************************************)
THEOREM RoomIsAlwaysFound == Spec => []RoomIsFound
<1>1. IInv => RoomIsFound
  BY InvRoom
<1> QED
  BY <1>1, Invariance, PTL

-----------------------------------------------------------------------------
(* The buddy list implements the block store *)

\* Blocks that share no unit do not overlap, and two forms of a block are one.
LEMMA ImageApart ==
  ASSUME NEW B, Disjoint(B), NEW p \in B, NEW q \in B, p # q, Fits(p), Fits(q)
  PROVE  /\ ~Store!Overlap(BlockAt(p[1], p[2]), BlockAt(q[1], q[2]))
         /\ BlockAt(p[1], p[2]) # BlockAt(q[1], q[2])
<1>1. /\ p[1] \in Nat /\ Pow2[p[2]] \in Nat /\ Pow2[p[2]] >= 1
      /\ q[1] \in Nat /\ Pow2[q[2]] \in Nat /\ Pow2[q[2]] >= 1
  <2>1. p = <<p[1], p[2]>> /\ q = <<q[1], q[2]>>
    BY DEF Fits
  <2>2. Fits(<<p[1], p[2]>>) /\ Fits(<<q[1], q[2]>>)
    BY <2>1
  <2> QED
    BY <2>2, FitsProps
<1>2. \A u \in Nat : ~(In(p, u) /\ In(q, u))
  BY DEF Disjoint
<1>3. p[1] >= q[1] + Pow2[q[2]] \/ q[1] >= p[1] + Pow2[p[2]]
  <2>1. CASE p[1] <= q[1]
    BY <1>1, <1>2, <2>1 DEF In
  <2>2. CASE q[1] <= p[1]
    BY <1>1, <1>2, <2>2 DEF In
  <2> QED
    BY <1>1, <2>1, <2>2
<1>4. ~Store!Overlap(BlockAt(p[1], p[2]), BlockAt(q[1], q[2]))
  BY <1>1, <1>3 DEF Store!Overlap, BlockAt
<1>5. p[1] # q[1]
  BY <1>1, <1>3
<1>6. BlockAt(p[1], p[2]) # BlockAt(q[1], q[2])
  BY <1>5 DEF BlockAt
<1> QED
  BY <1>4, <1>6

\* An aligned block of the sheet is one of the store's.
LEMMA FitsAligned ==
  ASSUME NEW u, NEW o, Fits(<<u, o>>)
  PROVE  BlockAt(u, o) \in Aligned
<1>1. /\ u \in Nat /\ o \in Orders /\ o \in Nat /\ o <= MaxOrder - 1 /\ Dyadic(u, o)
      /\ u + Pow2[o] <= TopUnits /\ Pow2[o] \in Nat /\ Pow2[o] >= 1
  BY FitsProps
<1>2. PICK k \in Nat : u = k * Pow2[o]
  BY <1>1 DEF Dyadic
<1>3. PICK d : d = MaxOrder - 1 - o
  OBVIOUS
<1>4. d \in Nat /\ o + d = MaxOrder - 1
  BY <1>1, <1>3, MaxOrderProps
<1>5. TopUnits = Pow2[d] * Pow2[o] /\ Pow2[d] \in Nat
  BY <1>1, <1>4, Pow2Split, Pow2Pos DEF TopUnits
<1>6. k < Pow2[d]
  <2>1. ASSUME Pow2[d] <= k
        PROVE  FALSE
    <3>1. Pow2[d] * Pow2[o] <= k * Pow2[o]
      BY <1>1, <1>5, <2>1, MulMono
    <3> QED
      BY <1>1, <1>2, <1>5, <3>1, MaxOrderProps
  <2> QED
    BY <1>5, <2>1
<1>7. k \in 0 .. (Pow2[MaxOrder - 1 - o] - 1)
  BY <1>3, <1>5, <1>6
<1> QED
  BY <1>1, <1>2, <1>7 DEF Aligned

ImageStep(C, B, p) ==
  /\ Image(B \cup {p}) = Image(B) \cup {BlockAt(p[1], p[2])}
  /\ Image(B \ {p}) = Image(B) \ {BlockAt(p[1], p[2])}

\* Images of sets that differ in one block.
LEMMA ImageSteps ==
  ASSUME NEW C, Disjoint(C), \A p \in C : Fits(p), NEW B \in SUBSET C, NEW p \in C
  PROVE  ImageStep(C, B, p)
<1>1. ASSUME NEW q \in C, BlockAt(q[1], q[2]) = BlockAt(p[1], p[2])
      PROVE  q = p
  BY <1>1, ImageApart
<1>2. Image(B \cup {p}) = Image(B) \cup {BlockAt(p[1], p[2])}
  BY DEF Image
<1>3. Image(B \ {p}) = Image(B) \ {BlockAt(p[1], p[2])}
  BY <1>1 DEF Image
<1> QED
  BY <1>2, <1>3 DEF ImageStep

\* A block that joins others overlaps none of them.
LEMMA ImageFree ==
  ASSUME NEW C, Disjoint(C), \A q \in C : Fits(q), NEW B \in SUBSET C, NEW p \in C, p \notin B,
         NEW b \in Image(B)
  PROVE  ~Store!Overlap(BlockAt(p[1], p[2]), b)
<1>1. PICK q \in B : b = BlockAt(q[1], q[2])
  BY DEF Image
<1> QED
  BY <1>1, ImageApart

Abs == /\ InUse \ Dead = Image(Live(space, hdr))
       /\ Dead = Image(Gone(space, hdr))

\* The store's variables, before a step and after it.
LEMMA AbsNow == IInv => Abs
BY InUseIs DEF Abs

\* The store's variables after a step.
LEMMA AbsNext == IInv' => Abs'
BY AbsNow, PTL

\* Handing a block out takes it.
LEMMA StoreTakes ==
  ASSUME IInv, Abs, Abs', IInv', Takes
  PROVE  Store!Next
<1>1. PICK off, o, f : /\ Marked(space, hdr, space', hdr', off, o, f)
                       /\ held' = held \cup {off} /\ Lent' \in {Lent, Lent \cup {off}}
  BY DEF Takes
<1>2. PICK s2, h2 : s2 = space' /\ h2 = hdr'
  OBVIOUS
<1>3. PICK p : p = <<off, o>>
  OBVIOUS
<1>4. /\ p \notin Used(space) /\ Fits(p) /\ Used(s2) = Used(space) \cup {p}
      /\ Live(s2, h2) = Live(space, hdr) \cup {p} /\ Gone(s2, h2) = Gone(space, hdr)
  BY <1>1, <1>2, <1>3 DEF Marked
<1>5. Disjoint(Used(s2)) /\ \A q \in Used(s2) : Fits(q)
  <2>1. Sound(s2, tcache')
    BY <1>2 DEF IInv, Good
  <2> QED
    BY <2>1, UsedDisjoint
<1>6. /\ Live(space, hdr) \in SUBSET Used(s2) /\ Gone(space, hdr) \in SUBSET Used(s2) /\ p \in Used(s2)
      /\ p \notin Live(space, hdr) /\ p \notin Gone(space, hdr)
  BY <1>4 DEF Live, Gone
<1>7. PICK b : b = BlockAt(p[1], p[2])
  OBVIOUS
<1>8. b \in Aligned
  BY <1>3, <1>4, <1>7, FitsAligned
<1>9. \A c \in Image(Live(space, hdr)) \cup Image(Gone(space, hdr)) : ~Store!Overlap(b, c)
  BY <1>5, <1>6, <1>7, ImageFree
<1>10. Image(Live(s2, h2)) = Image(Live(space, hdr)) \cup {b}
  <2>1. ImageStep(Used(s2), Live(space, hdr), p)
    BY <1>5, <1>6, ImageSteps
  <2> QED
    BY <1>4, <1>7, <2>1 DEF ImageStep
<1>11. (InUse \ Dead)' = Image(Live(s2, h2)) /\ Dead' = Image(Gone(s2, h2))
  BY <1>2 DEF Abs
<1>12. InUse \ Dead = Image(Live(space, hdr)) /\ Dead = Image(Gone(space, hdr))
  BY DEF Abs
<1>13. (InUse \ Dead)' = (InUse \ Dead) \cup {b} /\ Dead' = Dead
  BY <1>4, <1>10, <1>11, <1>12
<1>14. b.off = off
  BY <1>3, <1>7 DEF BlockAt
<1>15. Store!Take(b)
  BY <1>1, <1>9, <1>12, <1>13, <1>14 DEF Store!Take
<1> QED
  BY <1>8, <1>15 DEF Store!Next

\* Taking a block back gives it.
LEMMA StoreGives ==
  ASSUME IInv, Abs, Abs', Gives
  PROVE  Store!Next
<1>1. PICK off, o : /\ Unmarked(space, hdr, space', hdr', off, o)
                    /\ off \in held /\ held' = held \ {off} /\ Lent' = Lent \ {off}
  BY DEF Gives
<1>2. PICK s2, h2 : s2 = space' /\ h2 = hdr'
  OBVIOUS
<1>3. PICK p : p = <<off, o>>
  OBVIOUS
<1>4. /\ p \in Live(space, hdr)
      /\ Live(s2, h2) = Live(space, hdr) \ {p} /\ Gone(s2, h2) = Gone(space, hdr)
  BY <1>1, <1>2, <1>3 DEF Unmarked
<1>5. Disjoint(Used(space)) /\ \A q \in Used(space) : Fits(q)
  BY UsedDisjoint DEF IInv, Good
<1>6. Live(space, hdr) \in SUBSET Used(space) /\ p \in Used(space)
  BY <1>4 DEF Live
<1>7. PICK b : b = BlockAt(p[1], p[2])
  OBVIOUS
<1>8. b \in Image(Live(space, hdr))
  BY <1>4, <1>7 DEF Image
<1>9. Image(Live(s2, h2)) = Image(Live(space, hdr)) \ {b}
  <2>1. ImageStep(Used(space), Live(space, hdr), p)
    BY <1>5, <1>6, ImageSteps
  <2> QED
    BY <1>4, <1>7, <2>1 DEF ImageStep
<1>10. (InUse \ Dead)' = Image(Live(s2, h2)) /\ Dead' = Image(Gone(s2, h2))
  BY <1>2 DEF Abs
<1>11. InUse \ Dead = Image(Live(space, hdr)) /\ Dead = Image(Gone(space, hdr))
  BY DEF Abs
<1>12. (InUse \ Dead)' = (InUse \ Dead) \ {b} /\ Dead' = Dead /\ b \in InUse \ Dead
  BY <1>4, <1>8, <1>9, <1>10, <1>11
<1>13. b.off = off
  BY <1>3, <1>7 DEF BlockAt
<1>14. Store!Give(b)
  BY <1>1, <1>12, <1>13 DEF Store!Give
<1> QED
  BY <1>12, <1>14 DEF Store!Next

\* Tombstoning a block retires it.
LEMMA StoreRetires ==
  ASSUME IInv, Abs, Abs', Retiring
  PROVE  Store!Next
<1>1. PICK off, o : /\ Retired(space, hdr, hdr', off, o)
                    /\ off \in held /\ held' = held \ {off} /\ Lent' = Lent
  BY DEF Retiring
<1>2. PICK h2 : h2 = hdr'
  OBVIOUS
<1>3. PICK p : p = <<off, o>>
  OBVIOUS
<1>4. /\ p \in Live(space, hdr)
      /\ Live(space, h2) = Live(space, hdr) \ {p} /\ Gone(space, h2) = Gone(space, hdr) \cup {p}
  BY <1>1, <1>2, <1>3 DEF Retired
<1>5. Disjoint(Used(space)) /\ \A q \in Used(space) : Fits(q)
  BY UsedDisjoint DEF IInv, Good
<1>6. /\ Live(space, hdr) \in SUBSET Used(space) /\ p \in Used(space)
      /\ Gone(space, hdr) \in SUBSET Used(space)
  BY <1>4 DEF Live, Gone
<1>7. PICK b : b = BlockAt(p[1], p[2])
  OBVIOUS
<1>8. b \in Image(Live(space, hdr))
  BY <1>4, <1>7 DEF Image
<1>9. Image(Live(space, h2)) = Image(Live(space, hdr)) \ {b}
  <2>1. ImageStep(Used(space), Live(space, hdr), p)
    BY <1>5, <1>6, ImageSteps
  <2> QED
    BY <1>4, <1>7, <2>1 DEF ImageStep
<1>10. Image(Gone(space, h2)) = Image(Gone(space, hdr)) \cup {b}
  <2>1. ImageStep(Used(space), Gone(space, hdr), p)
    BY <1>5, <1>6, ImageSteps
  <2> QED
    BY <1>4, <1>7, <2>1 DEF ImageStep
<1>11. (InUse \ Dead)' = Image(Live(space, h2)) /\ Dead' = Image(Gone(space, h2))
  BY <1>2 DEF Abs, Retiring
<1>12. InUse \ Dead = Image(Live(space, hdr)) /\ Dead = Image(Gone(space, hdr))
  BY DEF Abs
<1>13. (InUse \ Dead)' = (InUse \ Dead) \ {b} /\ Dead' = Dead \cup {b} /\ b \in InUse \ Dead
  BY <1>8, <1>9, <1>10, <1>11, <1>12
<1>14. b.off = off
  BY <1>3, <1>7 DEF BlockAt
<1>15. Store!Retire(b)
  BY <1>1, <1>13, <1>14 DEF Store!Retire
<1> QED
  BY <1>13, <1>15 DEF Store!Next

\* reallocate moves a block.
LEMMA StoreMoves ==
  ASSUME IInv, Abs, Abs', Moves
  PROVE  Store!Next
<1>1. PICK s1, h1, new, o, f, off, i :
        /\ Marked(space, hdr, s1, h1, new, o, f) /\ Sound(s1, tcache)
        /\ Unmarked(s1, h1, space', hdr', off, i)
        /\ <<off, i>> \in Live(space, hdr)
        /\ off \in held /\ held' = (held \ {off}) \cup {new} /\ Lent' = Lent \ {off}
  BY DEF Moves
<1>2. PICK s2, h2 : s2 = space' /\ h2 = hdr'
  OBVIOUS
<1>3. PICK p, q : p = <<new, o>> /\ q = <<off, i>>
  OBVIOUS
<1>4. /\ p \notin Used(space) /\ Fits(p) /\ Used(s1) = Used(space) \cup {p} /\ q \in Live(space, hdr)
      /\ Live(s1, h1) = Live(space, hdr) \cup {p} /\ Gone(s1, h1) = Gone(space, hdr)
      /\ Live(s2, h2) = Live(s1, h1) \ {q} /\ Gone(s2, h2) = Gone(s1, h1)
  BY <1>1, <1>2, <1>3 DEF Marked, Unmarked
<1>5. Disjoint(Used(s1)) /\ \A x \in Used(s1) : Fits(x)
  BY <1>1, UsedDisjoint
<1>6. /\ Live(space, hdr) \in SUBSET Used(s1) /\ Gone(space, hdr) \in SUBSET Used(s1)
      /\ p \in Used(s1) /\ q \in Used(s1) /\ p # q /\ Live(space, hdr) \ {q} \in SUBSET Used(s1)
      /\ p \notin Live(space, hdr) /\ p \notin Gone(space, hdr)
  BY <1>4 DEF Live, Gone
<1>7. PICK b, c : b = BlockAt(q[1], q[2]) /\ c = BlockAt(p[1], p[2])
  OBVIOUS
<1>8. c \in Aligned
  BY <1>3, <1>4, <1>7, FitsAligned
<1>9. \A x \in Image(Live(space, hdr)) \cup Image(Gone(space, hdr)) : ~Store!Overlap(c, x)
  BY <1>5, <1>6, <1>7, ImageFree
<1>10. Live(s2, h2) = (Live(space, hdr) \ {q}) \cup {p}
  BY <1>4, <1>6
<1>11. Image(Live(space, hdr) \ {q}) = Image(Live(space, hdr)) \ {b}
  <2>1. ImageStep(Used(s1), Live(space, hdr), q)
    BY <1>5, <1>6, ImageSteps
  <2> QED
    BY <1>7, <2>1 DEF ImageStep
<1>12. Image((Live(space, hdr) \ {q}) \cup {p}) = Image(Live(space, hdr) \ {q}) \cup {c}
  <2>1. PICK B : B = Live(space, hdr) \ {q}
    OBVIOUS
  <2>2. B \in SUBSET Used(s1)
    BY <1>6, <2>1
  <2>3. ImageStep(Used(s1), B, p)
    BY <1>5, <1>6, <2>2, ImageSteps
  <2> QED
    BY <1>7, <2>1, <2>3 DEF ImageStep
<1>13. b \in Image(Live(space, hdr))
  BY <1>4, <1>7 DEF Image
<1>14. (InUse \ Dead)' = Image(Live(s2, h2)) /\ Dead' = Image(Gone(s2, h2))
  BY <1>2 DEF Abs
<1>15. InUse \ Dead = Image(Live(space, hdr)) /\ Dead = Image(Gone(space, hdr))
  BY DEF Abs
<1>16. (InUse \ Dead)' = ((InUse \ Dead) \ {b}) \cup {c} /\ Dead' = Dead /\ b \in InUse \ Dead
  BY <1>4, <1>10, <1>11, <1>12, <1>13, <1>14, <1>15
<1>17. b.off = off /\ c.off = new
  BY <1>3, <1>7 DEF BlockAt
<1>18. Store!Move(b, c)
  BY <1>1, <1>9, <1>15, <1>16, <1>17 DEF Store!Move
<1> QED
  BY <1>8, <1>16, <1>18 DEF Store!Next

\* Handing an active block out again, and refusing the release of a tombstoned one.
LEMMA StoreKeeps ==
  ASSUME Abs, Abs', Lends \/ Refuses
  PROVE  Store!Next
<1>1. Keeps
  BY DEF Lends, Refuses
<1>2. (InUse \ Dead)' = InUse \ Dead /\ Dead' = Dead /\ Lent' = Lent
  BY <1>1 DEF Keeps, Abs
<1>3. CASE Lends
  <2>1. PICK u \in Lent : held' = held \cup {u}
    BY <1>3 DEF Lends
  <2>2. Store!Again(u)
    BY <1>2, <2>1 DEF Store!Again
  <2> QED
    BY <2>1, <2>2 DEF Store!Next
<1>4. CASE Refuses
  <2>1. PICK u \in held : IsTombstoned(u) /\ held' = held \ {u}
    BY <1>4 DEF Refuses
  <2>2. \A b \in InUse \ Dead : b.off # u
    BY <2>1 DEF Dead
  <2>3. Store!Refuse(u)
    BY <1>2, <2>1, <2>2 DEF Store!Refuse
  <2> QED
    BY <2>1, <2>3 DEF Store!Next
<1> QED
  BY <1>3, <1>4

\* The first state is the store's.
LEMMA StoreInit == Init => Store!Init
<1> SUFFICES ASSUME Init
             PROVE  InUse \ Dead = {} /\ Dead = {} /\ held = {} /\ Lent = {}
  BY DEF Store!Init
<1>1. space.tag = [u \in Units |-> IF u = 0 THEN FreeTag(MaxOrder - 1) ELSE NoTag]
  BY DEF Init
<1>2. \A u \in Units : ~IsAllocated(u)
  BY <1>1, TagFacts DEF IsAllocated
<1>3. InUse = {}
  BY <1>2 DEF InUse
<1>4. held = {} /\ \A o \in Orders, r \in 1 .. 2 : active[o][r] = None
  BY DEF Init
<1>5. Lent = {}
  BY <1>4 DEF Lent
<1> QED
  BY <1>3, <1>4, <1>5 DEF Dead

(***************************************************************************)
(* For every sheet, the buddy list is a block store: whatever order the    *)
(* operations come in, a block that is newly handed out overlaps no block  *)
(* in use and no tombstoned one, a free or a move gives back exactly the   *)
(* block it was asked to, a tombstoned block does not count as in use      *)
(* again, and only blocks of the active slots are handed out a second      *)
(* time.  Such a block may be a tombstoned one: tombstone leaves it in its *)
(* slot.                                                                   *)
(***************************************************************************)
THEOREM BuddyImplementsStore == Spec => ImplementsStore
<1>1. IInv /\ [Next]_vars => [Store!Next]_<<InUse \ Dead, Dead, held, Lent>>
  <2> SUFFICES ASSUME IInv, [Next]_vars
               PROVE  [Store!Next]_<<InUse \ Dead, Dead, held, Lent>>
    OBVIOUS
  <2>1. IInv' /\ (Takes \/ Gives \/ Retiring \/ Moves \/ Lends \/ Refuses \/ (Keeps /\ held' = held))
    BY StepInv
  <2>2. Abs /\ Abs'
    BY <2>1, AbsNow, AbsNext
  <2>3. CASE Keeps /\ held' = held
    <3>1. (InUse \ Dead)' = InUse \ Dead /\ Dead' = Dead /\ Lent' = Lent /\ held' = held
      BY <2>2, <2>3 DEF Keeps, Abs
    <3> QED
      BY <3>1
  <2>4. CASE Takes
    BY <2>1, <2>2, <2>4, StoreTakes
  <2>5. CASE Gives
    BY <2>2, <2>5, StoreGives
  <2>6. CASE Retiring
    BY <2>2, <2>6, StoreRetires
  <2>7. CASE Moves
    BY <2>2, <2>7, StoreMoves
  <2>8. CASE Lends \/ Refuses
    BY <2>2, <2>8, StoreKeeps
  <2> QED
    BY <2>1, <2>3, <2>4, <2>5, <2>6, <2>7, <2>8
<1> QED
  BY <1>1, StoreInit, Invariance, PTL DEF Spec, ImplementsStore, Store!Spec, Store!vars

(***************************************************************************)
(* Whoever holds a block that is not in use got it from launder: a block   *)
(* that allocate handed out is never held again once it is tombstoned.     *)
(***************************************************************************)
THEOREM RetiredPlainStaysOut == Spec => []Store!Kept
<1>1. Store!Init => Store!Kept
  BY DEF Store!Init, Store!Kept
<1>2. Store!Kept /\ [Store!Next]_<<InUse \ Dead, Dead, held, Lent>> => Store!Kept'
  <2> SUFFICES ASSUME Store!Kept, [Store!Next]_<<InUse \ Dead, Dead, held, Lent>>,
                      NEW u \in held'
               PROVE  u \in Lent' \/ \E b \in (InUse \ Dead)' : b.off = u
    BY DEF Store!Kept
  <2>1. PICK U, D : U = InUse \ Dead /\ D = (InUse \ Dead)'
    OBVIOUS
  <2>2. u \in held => u \in Lent \/ \E b \in U : b.off = u
    BY <2>1 DEF Store!Kept
  <2>3. CASE UNCHANGED <<InUse \ Dead, Dead, held, Lent>>
    BY <2>1, <2>2, <2>3
  <2>4. CASE \E b \in Aligned : Store!Take(b)
    BY <2>1, <2>2, <2>4 DEF Store!Take
  <2>5. CASE \E v \in Lent : Store!Again(v)
    BY <2>1, <2>2, <2>5 DEF Store!Again
  <2>6. CASE \E v \in held : Store!Refuse(v)
    BY <2>1, <2>2, <2>6 DEF Store!Refuse
  <2>7. CASE \E b \in InUse \ Dead : Store!Give(b)
    BY <2>1, <2>2, <2>7 DEF Store!Give
  <2>8. CASE \E b \in InUse \ Dead : Store!Retire(b)
    BY <2>1, <2>2, <2>8 DEF Store!Retire
  <2>9. CASE \E b \in InUse \ Dead : \E c \in Aligned : Store!Move(b, c)
    BY <2>1, <2>2, <2>9 DEF Store!Move
  <2> QED
    BY <2>3, <2>4, <2>5, <2>6, <2>7, <2>8, <2>9 DEF Store!Next
<1> QED
  BY <1>1, <1>2, BuddyImplementsStore, PTL DEF ImplementsStore, Store!Spec, Store!vars
=============================================================================
