----------------------------- MODULE TierProofs -----------------------------
(***************************************************************************)
(* The sheets, the index, the space bits, the free cache and the reclaimer *)
(* of a tier agree, for every number and shape of sheets, every size of    *)
(* the cache and every sweep interval.                                     *)
(***************************************************************************)
EXTENDS Tier, FiniteSetTheorems, SequenceTheorems, WellFoundedInduction, TLAPS

\* A nonempty set of natural numbers has a smallest member.
LEMMA HasSmallest ==
  ASSUME NEW S \in SUBSET Nat, S # {}
  PROVE  \E h \in S : \A i \in S : h <= i
<1> DEFINE R == OpToRel(<, Nat)
<1>1. IsWellFoundedOn(R, Nat)
  BY NatLessThanWellFounded
<1>2. PICK x \in S : \A y \in S : ~(<<y, x>> \in R)
  <2> HIDE DEF R
  <2> QED
    BY <1>1, WFMin
<1>3. ASSUME NEW y \in S
      PROVE  x <= y
  <2>1. x \in Nat /\ y \in Nat
    OBVIOUS
  <2>2. ~(y < x)
    BY <1>2, <2>1 DEF OpToRel
  <2> QED
    BY <2>1, <2>2
<1> QED
  BY <1>3

\* A nonempty set of numbers up to k has a largest member.
LEMMA HasLargest ==
  ASSUME NEW k \in Nat, NEW S \in SUBSET (0..k), S # {}
  PROVE  \E h \in S : \A i \in S : i <= h
<1> DEFINE T == {j \in 0..k : k - j \in S}
<1>1. PICK i \in S : TRUE
  OBVIOUS
<1>2. k - i \in T
  <2>1. k - i \in 0..k /\ k - (k - i) = i
    OBVIOUS
  <2> QED
    BY <2>1
<1>3. PICK x \in T : \A y \in T : x <= y
  <2>1. T \in SUBSET Nat
    OBVIOUS
  <2>2. T # {}
    BY <1>2
  <2> HIDE DEF T
  <2> QED
    BY <2>1, <2>2, HasSmallest
<1>4. k - x \in S /\ x \in 0..k
  OBVIOUS
<1>5. ASSUME NEW j \in S
      PROVE  j <= k - x
  <2>1. j \in 0..k /\ k - j \in 0..k /\ k - (k - j) = j
    OBVIOUS
  <2>2. k - j \in T
    BY <2>1
  <2> QED
    BY <1>3, <1>4, <2>1, <2>2
<1> QED
  BY <1>4, <1>5

-----------------------------------------------------------------------------
(* Lists of sheets from which some are taken out *)

\* The positions of l below p that are vacated.
Vacated(l, gone, p) == {q \in DOMAIN l : q < p /\ l[q] \in gone}

\* A position moves down by one exactly behind a vacated one.
LEMMA ShiftStep ==
  ASSUME NEW l \in Seq(Addrs), NEW gone, NEW p \in 1 .. Len(l)
  PROVE  /\ Shift(l, gone, p) \in Int
         /\ Shift(l, gone, p + 1) = IF l[p] \in gone THEN Shift(l, gone, p)
                                                     ELSE Shift(l, gone, p) + 1
<1> DEFINE V == Vacated(l, gone, p)
           W == Vacated(l, gone, p + 1)
<1>1. DOMAIN l = 1 .. Len(l) /\ Len(l) \in Nat /\ p \in Int
  OBVIOUS
<1>2. IsFiniteSet(V) /\ Cardinality(V) \in Nat
  <2>1. V \in SUBSET (1 .. Len(l))
    BY <1>1 DEF Vacated
  <2>2. IsFiniteSet(1 .. Len(l))
    <3>1. 1 \in Int /\ Len(l) \in Int
      BY <1>1
    <3> QED
      BY <3>1, FS_Interval
  <2> HIDE DEF V
  <2> QED
    BY <2>1, <2>2, FS_Subset, FS_CardinalityType
<1>3. CASE l[p] \in gone
  <2>1. W = V \cup {p} /\ p \notin V
    BY <1>1, <1>3 DEF Vacated
  <2> HIDE DEF V, W
  <2>2. Cardinality(W) = Cardinality(V) + 1
    BY <1>2, <2>1, FS_AddElement
  <2>3. (p + 1) - (Cardinality(V) + 1) = p - Cardinality(V) /\ p - Cardinality(V) \in Int
    BY <1>1, <1>2
  <2> QED
    BY <1>3, <2>2, <2>3 DEF V, W, Shift, Vacated
<1>4. CASE l[p] \notin gone
  <2>1. W = V
    BY <1>1, <1>4 DEF Vacated
  <2> HIDE DEF V, W
  <2>2. (p + 1) - Cardinality(V) = p - Cardinality(V) + 1 /\ p - Cardinality(V) \in Int
    BY <1>1, <1>2
  <2> QED
    BY <1>4, <2>1, <2>2 DEF V, W, Shift, Vacated
<1> QED
  BY <1>3, <1>4

\* The first position does not move.
LEMMA ShiftFirst ==
  ASSUME NEW l \in Seq(Addrs), NEW gone
  PROVE  Shift(l, gone, 1) = 1
<1>1. {q \in DOMAIN l : q < 1 /\ l[q] \in gone} = {}
  OBVIOUS
<1>2. Cardinality({q \in DOMAIN l : q < 1 /\ l[q] \in gone}) = 0
  BY <1>1, FS_EmptySet
<1> QED
  BY <1>2 DEF Shift

\* Positions never move past each other, and those that stay keep apart.
LEMMA ShiftUp ==
  ASSUME NEW l \in Seq(Addrs), NEW gone,
         NEW p \in 1 .. (Len(l) + 1), NEW q \in 1 .. (Len(l) + 1), p < q
  PROVE  /\ Shift(l, gone, p) \in Int /\ Shift(l, gone, q) \in Int
         /\ Shift(l, gone, p) <= Shift(l, gone, q)
         /\ l[p] \notin gone => Shift(l, gone, p) < Shift(l, gone, q)
<1> DEFINE S(i) == Shift(l, gone, i)
           Low(i) == S(p) <= S(i) /\ (l[p] \notin gone => S(p) < S(i))
           Bad == {i \in 1 .. (Len(l) + 1) : p < i /\ ~Low(i)}
<1>1. Len(l) \in Nat
  OBVIOUS
<1>2. \A i \in 1 .. (Len(l) + 1) : S(i) \in Int
  <2>0. \A i \in 1 .. Len(l) : /\ S(i) \in Int
                               /\ S(i + 1) = IF l[i] \in gone THEN S(i) ELSE S(i) + 1
    BY ShiftStep
  <2>2. S(1) \in Int
    BY ShiftFirst
  <2>1. \A i \in 1 .. Len(l) : S(i + 1) \in Int
    <3> HIDE DEF S
    <3> QED
      BY <2>0
  <2>3. \A i \in 1 .. (Len(l) + 1) : i = 1 \/ ((i - 1) \in 1 .. Len(l) /\ (i - 1) + 1 = i)
    BY <1>1
  <2> HIDE DEF S
  <2> QED
    BY <2>1, <2>2, <2>3
<1>3. \A i \in 1 .. Len(l) : S(i + 1) = IF l[i] \in gone THEN S(i) ELSE S(i) + 1
  BY ShiftStep
<1> HIDE DEF S
<1>4. Bad = {}
  <2> SUFFICES ASSUME Bad # {}
               PROVE  FALSE
    OBVIOUS
  <2>1. PICK i \in Bad : \A j \in Bad : i <= j
    <3>1. Bad \in SUBSET Nat
      BY <1>1
    <3> HIDE DEF Bad
    <3> QED
      BY <3>1, HasSmallest
  <2>2. i \in 1 .. (Len(l) + 1) /\ p < i /\ ~Low(i)
    OBVIOUS
  <2>3. i - 1 \in 1 .. Len(l) /\ (i - 1) + 1 = i /\ i - 1 \in 1 .. (Len(l) + 1)
    BY <1>1, <2>2
  <2>4. S(i) = IF l[i - 1] \in gone THEN S(i - 1) ELSE S(i - 1) + 1
    BY <1>3, <2>3
  <2>5. S(i) \in Int /\ S(i - 1) \in Int /\ S(p) \in Int
    BY <1>2, <2>2, <2>3
  <2>6. CASE i - 1 = p
    BY <2>2, <2>4, <2>5, <2>6
  <2>7. CASE i - 1 # p
    <3>1. p < i - 1 /\ i - 1 \notin Bad
      BY <1>1, <2>1, <2>2, <2>7
    <3>2. Low(i - 1)
      BY <2>3, <3>1
    <3> QED
      BY <2>2, <2>4, <2>5, <3>2
  <2> QED
    BY <2>6, <2>7
<1>5. Low(q) /\ S(p) \in Int /\ S(q) \in Int
  BY <1>2, <1>4
<1> QED
  BY <1>5 DEF S

\* Every new position is taken by one that stays.
LEMMA ShiftOnto ==
  ASSUME NEW l \in Seq(Addrs), NEW gone, NEW i \in 1 .. (Shift(l, gone, Len(l) + 1) - 1)
  PROVE  \E p \in 1 .. Len(l) : l[p] \notin gone /\ Shift(l, gone, p) = i
<1> DEFINE S(j) == Shift(l, gone, j)
           Past == {j \in 1 .. (Len(l) + 1) : S(j) > i}
<1>1. Len(l) \in Nat /\ S(1) = 1
  BY ShiftFirst
<1>2. \A j \in 1 .. Len(l) : /\ S(j) \in Int
                             /\ S(j + 1) = IF l[j] \in gone THEN S(j) ELSE S(j) + 1
  BY ShiftStep
<1>3. S(Len(l) + 1) \in Int
  <2>1. CASE Len(l) = 0
    BY <1>1, <2>1
  <2>2. CASE Len(l) # 0
    <3>1. Len(l) \in 1 .. Len(l)
      BY <1>1, <2>2
    <3> HIDE DEF S
    <3> QED
      BY <1>2, <3>1
  <2> QED
    BY <2>1, <2>2
<1>4. i \in Int /\ 1 <= i /\ i <= S(Len(l) + 1) - 1
  BY <1>3
<1> HIDE DEF S
<1>5. Len(l) + 1 \in Past
  BY <1>1, <1>3, <1>4
<1>6. PICK j \in Past : \A k \in Past : j <= k
  <2>1. Past \in SUBSET Nat
    BY <1>1
  <2> HIDE DEF Past
  <2> QED
    BY <1>5, <2>1, HasSmallest
<1>7. j \in 1 .. (Len(l) + 1) /\ S(j) > i /\ j # 1
  BY <1>1, <1>4
<1>8. j - 1 \in 1 .. Len(l) /\ (j - 1) + 1 = j /\ j - 1 \in 1 .. (Len(l) + 1) /\ j - 1 \notin Past
  BY <1>1, <1>6, <1>7
<1>9. /\ S(j) = IF l[j - 1] \in gone THEN S(j - 1) ELSE S(j - 1) + 1
      /\ S(j - 1) \in Int /\ ~(S(j - 1) > i)
  BY <1>2, <1>8
<1>10. l[j - 1] \notin gone /\ S(j - 1) = i
  BY <1>4, <1>7, <1>9
<1> QED
  BY <1>8, <1>10 DEF S

\* What is left of a list: the entries that stay, each at its new position.
LEMMA WithoutIs ==
  ASSUME NEW l \in Seq(Addrs), NEW gone
  PROVE  /\ Without(l, gone) \in Seq(Addrs)
         /\ \A p \in DOMAIN l : l[p] \notin gone =>
              /\ Shift(l, gone, p) \in DOMAIN Without(l, gone)
              /\ Without(l, gone)[Shift(l, gone, p)] = l[p]
         /\ \A i \in DOMAIN Without(l, gone) :
              \E p \in DOMAIN l : l[p] \notin gone /\ Shift(l, gone, p) = i
         /\ \A p, q \in DOMAIN l : l[p] \notin gone /\ l[q] \notin gone =>
              (p < q <=> Shift(l, gone, p) < Shift(l, gone, q))
<1> DEFINE S(i) == Shift(l, gone, i)
           m == S(Len(l) + 1) - 1
           W == Without(l, gone)
<1>1. DOMAIN l = 1 .. Len(l) /\ Len(l) \in Nat /\ \A p \in 1 .. Len(l) : l[p] \in Addrs
  OBVIOUS
<1>2. \A p \in 1 .. (Len(l) + 1), q \in 1 .. (Len(l) + 1) : p < q =>
        S(p) \in Int /\ S(q) \in Int /\ S(p) <= S(q) /\ (l[p] \notin gone => S(p) < S(q))
  BY ShiftUp
<1>3. S(1) = 1
  BY ShiftFirst
<1>4. \A i \in 1 .. m : \E p \in 1 .. Len(l) : l[p] \notin gone /\ S(p) = i
  BY ShiftOnto
<1>5. W = [i \in 1 .. m |-> l[CHOOSE p \in DOMAIN l : l[p] \notin gone /\ S(p) = i]]
  BY DEF Without
<1> HIDE DEF S, W
<1>6. m \in Nat
  <2>1. CASE Len(l) = 0
    BY <1>3, <2>1
  <2>2. CASE Len(l) # 0
    <3>1. 1 \in 1 .. (Len(l) + 1) /\ Len(l) + 1 \in 1 .. (Len(l) + 1) /\ 1 < Len(l) + 1
      BY <1>1, <2>2
    <3>2. S(1) \in Int /\ S(Len(l) + 1) \in Int /\ S(1) <= S(Len(l) + 1)
      BY <1>2, <3>1
    <3> QED
      BY <1>3, <3>2
  <2> QED
    BY <1>1, <2>1, <2>2
<1>7. ASSUME NEW p \in 1 .. Len(l), l[p] \notin gone
      PROVE  S(p) \in 1 .. m
  <2>1. p \in 1 .. (Len(l) + 1) /\ Len(l) + 1 \in 1 .. (Len(l) + 1) /\ p < Len(l) + 1
    BY <1>1
  <2>2. S(p) \in Int /\ S(Len(l) + 1) \in Int /\ S(p) < S(Len(l) + 1)
    BY <1>2, <1>7, <2>1
  <2>3. S(p) >= 1
    <3>1. CASE p = 1
      BY <1>3, <3>1
    <3>2. CASE p # 1
      <4>1. 1 \in 1 .. (Len(l) + 1) /\ 1 < p
        BY <1>1, <3>2
      <4> QED
        BY <1>2, <1>3, <2>1, <2>2, <4>1
    <3> QED
      BY <3>1, <3>2
  <2> QED
    BY <2>2, <2>3
<1>8. ASSUME NEW p \in 1 .. Len(l), NEW q \in 1 .. Len(l), l[p] \notin gone, l[q] \notin gone
      PROVE  (p < q <=> S(p) < S(q)) /\ (S(p) = S(q) => p = q)
  <2>1. p \in 1 .. (Len(l) + 1) /\ q \in 1 .. (Len(l) + 1)
    BY <1>1
  <2>2. S(p) \in Int /\ S(q) \in Int
    BY <1>7, <1>8, <1>6
  <2>3. (p < q => S(p) < S(q)) /\ (q < p => S(q) < S(p))
    BY <1>2, <1>8, <2>1
  <2> QED
    BY <2>2, <2>3
<1>9. ASSUME NEW p \in 1 .. Len(l), l[p] \notin gone
      PROVE  W[S(p)] = l[p]
  <2>1. S(p) \in 1 .. m
    BY <1>7, <1>9
  <2> DEFINE c == CHOOSE q \in DOMAIN l : l[q] \notin gone /\ S(q) = S(p)
  <2>2. c \in DOMAIN l /\ l[c] \notin gone /\ S(c) = S(p)
    BY <1>1, <1>9
  <2>3. W[S(p)] = l[c]
    BY <1>5, <2>1
  <2> HIDE DEF c
  <2>4. c = p
    BY <1>1, <1>8, <1>9, <2>2
  <2> QED
    BY <2>3, <2>4
<1>10. W \in Seq(Addrs) /\ DOMAIN W = 1 .. m
  <2>1. ASSUME NEW i \in 1 .. m
        PROVE  W[i] \in Addrs
    <3>1. PICK p \in 1 .. Len(l) : l[p] \notin gone /\ S(p) = i
      BY <1>4
    <3> QED
      BY <1>1, <1>9, <3>1
  <2>2. W = [i \in 1 .. m |-> W[i]]
    BY <1>5
  <2> HIDE DEF m
  <2>3. [i \in 1 .. m |-> W[i]] \in Seq(Addrs)
    BY <1>6, <2>1
  <2> QED
    BY <2>2, <2>3
<1> HIDE DEF m
<1>11. /\ W \in Seq(Addrs)
       /\ \A p \in DOMAIN l : l[p] \notin gone => S(p) \in DOMAIN W /\ W[S(p)] = l[p]
       /\ \A i \in DOMAIN W : \E p \in DOMAIN l : l[p] \notin gone /\ S(p) = i
       /\ \A p, q \in DOMAIN l : l[p] \notin gone /\ l[q] \notin gone => (p < q <=> S(p) < S(q))
  BY <1>1, <1>4, <1>7, <1>8, <1>9, <1>10
<1> QED
  BY <1>11 DEF S, W

-----------------------------------------------------------------------------
(* The invariant *)

\* Chain and index list the same sheets, the index in address order; bits and
\* hint are positions of it.
Registered ==
  /\ ToSet(idx) = Sheets /\ Len(idx) <= MaxSheets
  /\ \A p, q \in DOMAIN idx : p < q => idx[p] < idx[q]
  /\ \A p, q \in DOMAIN chain : chain[p] = chain[q] => p = q
  /\ bits \subseteq DOMAIN idx /\ lastHit \in 0 .. Len(idx)

\* A sheet that is not mapped will be found empty.
Clean ==
  \A a \in Addrs \ Sheets :
    /\ \A k \in Cells(a) : state[<<a, k>>] = "free"
    /\ \A n \in Sizes : active[a][n] = 0

\* launder's slots point to temporal blocks, or to retired ones.
ActiveKept ==
  \A a \in Addrs, n \in Sizes :
    active[a][n] # 0 => state[<<a, active[a][n]>>] \in {"temporal", "tomb"}

\* CacheSound, and a cached block is not one launder handed out.
CacheKept ==
  \A i \in DOMAIN cache :
    /\ cache[i].ptr[1] \in Sheets /\ state[cache[i].ptr] = "alloc"
    /\ cache[i].size <= CapOf(cache[i].ptr)
    /\ cache[i].ptr \notin plain \cup laundered
    /\ \A j \in DOMAIN cache : cache[j].ptr = cache[i].ptr => i = j

\* The inductive invariant of a tier.
TierInv ==
  /\ TypeOK /\ Registered /\ Clean /\ ActiveKept /\ CacheKept
  /\ LiveMapped /\ ExhaustedMeansFull /\ NoLingering

-----------------------------------------------------------------------------
(* Steps of the sheet list and the index *)

\* A block is a sheet's address and a cell of it.
LEMMA BlockParts ==
  /\ \A a \in Addrs : \A k \in Cells(a) :
       <<a, k>> \in Blocks /\ <<a, k>>[1] = a /\ <<a, k>>[2] = k
  /\ \A b \in Blocks : b[1] \in Addrs /\ b[2] \in Cells(b[1]) /\ b = <<b[1], b[2]>>
  BY DEF Blocks

\* Distinct sheets or cells are distinct blocks.
LEMMA BlockApart ==
  \A a, x, k, y : <<a, k>> = <<x, y>> <=> a = x /\ k = y
  OBVIOUS

\* Taking sheets other than the head's out of chain and index.
LEMMA ReclaimEffect ==
  ASSUME TypeOK, Registered, NEW gone \in SUBSET Sheets, NEW pos \in DOMAIN idx,
         chain[1] \notin gone, Reclaim(gone, pos)
  PROVE  /\ idx' \in Seq(Addrs) /\ chain' \in Seq(Addrs)
         /\ Registered' /\ Sheets' = Sheets \ gone
         /\ bits' \subseteq 1 .. MaxSheets /\ lastHit' \in 0 .. MaxSheets
         /\ Sheets # {} => chain'[1] = chain[1]
         /\ \A i \in DOMAIN idx' \ bits' : \E p \in DOMAIN idx \ bits : p # pos /\ idx'[i] = idx[p]
<1> DEFINE S(p) == Shift(idx, gone, p)
           C(p) == Shift(chain, gone, p)
<1>1. /\ chain' = Without(chain, gone) /\ idx' = Without(idx, gone)
      /\ bits' = {S(p) : p \in {q \in bits \cup {pos} : idx[q] \notin gone}}
      /\ lastHit' = IF lastHit = NoHit \/ idx[lastHit] \in gone THEN NoHit ELSE S(lastHit)
  BY DEF Reclaim, Unregister
<1>2. chain \in Seq(Addrs) /\ idx \in Seq(Addrs)
  BY DEF TypeOK
<1>3. /\ idx' \in Seq(Addrs)
      /\ \A p \in DOMAIN idx : idx[p] \notin gone => S(p) \in DOMAIN idx' /\ idx'[S(p)] = idx[p]
      /\ \A i \in DOMAIN idx' : \E p \in DOMAIN idx : idx[p] \notin gone /\ S(p) = i
      /\ \A p, q \in DOMAIN idx : idx[p] \notin gone /\ idx[q] \notin gone =>
           (p < q <=> S(p) < S(q))
  BY <1>1, <1>2, WithoutIs
<1>4. /\ chain' \in Seq(Addrs)
      /\ \A p \in DOMAIN chain : chain[p] \notin gone => C(p) \in DOMAIN chain' /\ chain'[C(p)] = chain[p]
      /\ \A i \in DOMAIN chain' : \E p \in DOMAIN chain : chain[p] \notin gone /\ C(p) = i
      /\ \A p, q \in DOMAIN chain : chain[p] \notin gone /\ chain[q] \notin gone =>
           (p < q <=> C(p) < C(q))
  BY <1>1, <1>2, WithoutIs
<1>5. C(1) = 1
  BY <1>2, ShiftFirst
<1> HIDE DEF S, C
<1>6. /\ DOMAIN idx = 1 .. Len(idx) /\ DOMAIN chain = 1 .. Len(chain)
      /\ DOMAIN idx' = 1 .. Len(idx') /\ DOMAIN chain' = 1 .. Len(chain')
      /\ Len(idx) \in Nat /\ Len(chain) \in Nat /\ Len(idx') \in Nat /\ Len(chain') \in Nat
  BY <1>2, <1>3, <1>4
<1>7. Sheets' = Sheets \ gone
  BY <1>4 DEF Sheets, ToSet
<1>8. ToSet(idx') = ToSet(idx) \ gone
  BY <1>3 DEF ToSet
<1>9. ASSUME NEW i \in DOMAIN idx', NEW j \in DOMAIN idx', i < j
      PROVE  idx'[i] < idx'[j]
  <2>1. PICK p \in DOMAIN idx : idx[p] \notin gone /\ S(p) = i
    BY <1>3
  <2>2. PICK q \in DOMAIN idx : idx[q] \notin gone /\ S(q) = j
    BY <1>3
  <2>3. p < q
    BY <1>3, <1>9, <2>1, <2>2
  <2> QED
    BY <1>3, <2>1, <2>2, <2>3 DEF Registered
<1>10. ASSUME NEW i \in DOMAIN chain', NEW j \in DOMAIN chain', chain'[i] = chain'[j]
       PROVE  i = j
  <2>1. PICK p \in DOMAIN chain : chain[p] \notin gone /\ C(p) = i
    BY <1>4
  <2>2. PICK q \in DOMAIN chain : chain[q] \notin gone /\ C(q) = j
    BY <1>4
  <2>3. chain[p] = chain[q]
    BY <1>4, <1>10, <2>1, <2>2
  <2> QED
    BY <2>1, <2>2, <2>3 DEF Registered
<1>11. Len(idx') <= Len(idx)
  <2>1. CASE Len(idx') = 0
    BY <1>6, <2>1
  <2>2. CASE Len(idx') # 0
    <3> DEFINE f == [i \in 1 .. Len(idx') |-> CHOOSE p \in DOMAIN idx : idx[p] \notin gone /\ S(p) = i]
    <3>1. \A i \in 1 .. Len(idx') : f[i] \in 1 .. Len(idx) /\ S(f[i]) = i
      BY <1>3, <1>6
    <3>2. f \in Injection(1 .. Len(idx'), 1 .. Len(idx))
      <4>1. f \in [1 .. Len(idx') -> 1 .. Len(idx)]
        BY <3>1
      <4> HIDE DEF f
      <4> QED
        BY <3>1, <4>1 DEF Injection, IsInjective
    <3>3. \A n \in Nat : IsFiniteSet(1 .. n) /\ Cardinality(1 .. n) = n
      <4> SUFFICES ASSUME NEW n \in Nat
                   PROVE  IsFiniteSet(1 .. n) /\ Cardinality(1 .. n) = n
        OBVIOUS
      <4>1. 1 \in Int /\ n \in Int
        OBVIOUS
      <4>2. /\ IsFiniteSet(1 .. n)
            /\ Cardinality(1 .. n) = IF 1 > n THEN 0 ELSE n - 1 + 1
        BY <4>1, FS_Interval
      <4> QED
        BY <4>2
    <3> HIDE DEF f
    <3>4. Cardinality(1 .. Len(idx')) <= Cardinality(1 .. Len(idx))
      BY <1>6, <3>2, <3>3, FS_Injection
    <3> QED
      BY <1>6, <3>3, <3>4
  <2> QED
    BY <2>1, <2>2
<1>12. bits' \subseteq DOMAIN idx' /\ lastHit' \in 0 .. Len(idx')
  <2>1. \A q \in bits \cup {pos} : q \in DOMAIN idx
    BY DEF Registered
  <2>2. bits' \subseteq DOMAIN idx'
    BY <1>1, <1>3, <2>1
  <2>3. lastHit # NoHit => lastHit \in DOMAIN idx
    BY <1>6 DEF Registered, NoHit
  <2> QED
    BY <1>1, <1>3, <1>6, <2>2, <2>3 DEF NoHit
<1>13. Registered'
  <2>1. Len(idx') <= MaxSheets
    BY <1>6, <1>11, TierAssumption DEF Registered
  <2> QED
    BY <1>7, <1>8, <1>9, <1>10, <1>12, <2>1 DEF Registered
<1>14. bits' \subseteq 1 .. MaxSheets /\ lastHit' \in 0 .. MaxSheets
  BY <1>6, <1>12, <1>13, TierAssumption DEF Registered
<1>15. Sheets # {} => chain'[1] = chain[1]
  <2>1. Sheets # {} => 1 \in DOMAIN chain
    BY <1>6 DEF Sheets, ToSet
  <2> QED
    BY <1>4, <1>5, <2>1
<1>16. ASSUME NEW i \in DOMAIN idx' \ bits'
       PROVE  \E p \in DOMAIN idx \ bits : p # pos /\ idx'[i] = idx[p]
  <2>1. PICK p \in DOMAIN idx : idx[p] \notin gone /\ S(p) = i
    BY <1>3
  <2>2. p \notin bits \cup {pos}
    BY <1>1, <2>1
  <2> QED
    BY <1>3, <2>1, <2>2
<1> QED
  BY <1>3, <1>4, <1>7, <1>13, <1>14, <1>15, <1>16

\* Addresses are compared as numbers.
LEMMA AddrsAreNumbers == \A a \in Addrs : a \in Nat
  BY TierAssumption

\* What InsertAt puts where.
LEMMA InsertAtIs ==
  ASSUME NEW l \in Seq(Addrs), NEW c \in 0 .. Len(l), NEW a \in Addrs
  PROVE  LET w == InsertAt(l, 1 + c, a)
         IN /\ w \in Seq(Addrs) /\ Len(w) = Len(l) + 1
            /\ \A p \in 1 .. c : w[p] = l[p]
            /\ w[c + 1] = a
            /\ \A p \in (c + 2) .. (Len(l) + 1) : w[p] = l[p - 1]
<1> DEFINE x == SubSeq(l, 1, c)
           y == SubSeq(l, c + 1, Len(l))
           v == x \o <<a>>
           w == v \o y
<1>1. Len(l) \in Nat /\ c \in Nat /\ c <= Len(l)
  OBVIOUS
<1>2. x \in Seq(Addrs) /\ Len(x) = c /\ \A p \in 1 .. c : x[p] = l[p]
  BY <1>1
<1>3. y \in Seq(Addrs) /\ Len(y) = Len(l) - c /\ \A p \in 1 .. (Len(l) - c) : y[p] = l[c + p]
  BY <1>1
<1>4. <<a>> \in Seq(Addrs) /\ Len(<<a>>) = 1 /\ <<a>>[1] = a
  OBVIOUS
<1> HIDE DEF x, y
<1>5. v \in Seq(Addrs) /\ Len(v) = c + 1 /\ v[c + 1] = a /\ \A p \in 1 .. c : v[p] = l[p]
  BY <1>1, <1>2, <1>4
<1> HIDE DEF v
<1>6. w \in Seq(Addrs) /\ Len(w) = Len(l) + 1
  <2>1. w \in Seq(Addrs)
    BY <1>3, <1>5
  <2>2. Len(w) = Len(v) + Len(y)
    BY <1>3, <1>5, ConcatProperties
  <2> QED
    BY <1>1, <1>3, <1>5, <2>1, <2>2
<1>7. \A p \in 1 .. (c + 1) : w[p] = v[p]
  BY <1>1, <1>3, <1>5
<1>8. \A p \in (c + 2) .. (Len(l) + 1) : w[p] = l[p - 1]
  <2> SUFFICES ASSUME NEW p \in (c + 2) .. (Len(l) + 1)
               PROVE  w[p] = l[p - 1]
    OBVIOUS
  <2>1. p \in 1 .. (Len(v) + Len(y)) /\ p > Len(v) /\ p - Len(v) \in 1 .. (Len(l) - c)
    BY <1>1, <1>3, <1>5
  <2>2. w[p] = y[p - Len(v)]
    BY <1>3, <1>5, <2>1, ConcatProperties
  <2>3. c + (p - Len(v)) = p - 1
    BY <1>1, <1>5
  <2> QED
    BY <1>3, <2>1, <2>2, <2>3
<1>9. InsertAt(l, 1 + c, a) = w
  <2>1. (1 + c) - 1 = c /\ 1 + c = c + 1
    BY <1>1
  <2> QED
    BY <2>1 DEF InsertAt, w, v, x, y
<1> HIDE DEF w
<1> QED
  BY <1>1, <1>5, <1>6, <1>7, <1>8, <1>9

\* The entries below a in a sorted list come first; their number is where a goes.
LEMMA SlotOf ==
  ASSUME NEW l \in Seq(Addrs), \A p, q \in DOMAIN l : p < q => l[p] < l[q],
         NEW a \in Addrs, \A p \in DOMAIN l : l[p] # a
  PROVE  LET c == Cardinality({p \in DOMAIN l : l[p] < a})
         IN /\ c \in 0 .. Len(l)
            /\ \A p \in 1 .. c : l[p] < a
            /\ \A p \in (c + 1) .. Len(l) : a < l[p]
<1> DEFINE B == {p \in DOMAIN l : l[p] < a}
           c == Cardinality(B)
<1>1. /\ DOMAIN l = 1 .. Len(l) /\ Len(l) \in Nat /\ a \in Nat
      /\ \A p \in 1 .. Len(l) : l[p] \in Nat
  <2>1. DOMAIN l = 1 .. Len(l) /\ Len(l) \in Nat /\ \A p \in 1 .. Len(l) : l[p] \in Addrs
    OBVIOUS
  <2> QED
    BY <2>1, AddrsAreNumbers
<1>2. \E h \in 0 .. Len(l) : B = 1 .. h
  <2>1. CASE B = {}
    <3>1. B = 1 .. 0 /\ 0 \in 0 .. Len(l)
      BY <1>1, <2>1
    <3> QED
      BY <3>1
  <2>2. CASE B # {}
    <3>1. B \in SUBSET (0 .. Len(l))
      BY <1>1
    <3>2. PICK h \in B : \A i \in B : i <= h
      <4> HIDE DEF B
      <4> QED
        BY <1>1, <2>2, <3>1, HasLargest
    <3>3. h \in 1 .. Len(l) /\ l[h] < a
      BY <1>1
    <3>4. ASSUME NEW i \in 1 .. h
          PROVE  i \in B
      <4>1. i \in 1 .. Len(l) /\ (i = h \/ i < h)
        BY <1>1, <3>3
      <4>2. i < h => l[i] < l[h]
        BY <1>1, <3>3, <4>1
      <4>3. l[i] < a
        BY <1>1, <3>3, <4>1, <4>2
      <4> QED
        BY <1>1, <4>1, <4>3
    <3>5. B = 1 .. h
      BY <1>1, <3>1, <3>2, <3>3, <3>4
    <3> QED
      BY <1>1, <3>3, <3>5
  <2> QED
    BY <2>1, <2>2
<1>3. PICK h \in 0 .. Len(l) : B = 1 .. h
  BY <1>2
<1>4. c = h
  <2>1. 1 \in Int /\ h \in Int
    BY <1>1
  <2>2. Cardinality(1 .. h) = IF 1 > h THEN 0 ELSE h - 1 + 1
    BY <2>1, FS_Interval
  <2>3. Cardinality(1 .. h) = h
    BY <1>1, <2>2
  <2> QED
    BY <1>3, <2>3
<1>5. \A p \in 1 .. h : l[p] < a
  BY <1>3
<1>6. ASSUME NEW p \in (h + 1) .. Len(l)
      PROVE  a < l[p]
  <2>1. p \in 1 .. Len(l) /\ p \notin 1 .. h
    BY <1>1
  <2>2. ~(l[p] < a) /\ l[p] # a
    BY <1>1, <1>3, <2>1
  <2> QED
    BY <1>1, <2>1, <2>2
<1> QED
  BY <1>4, <1>5, <1>6

\* Registering a new sheet keeps the index sorted and clears all other bits.
LEMMA ExpandEffect ==
  ASSUME TypeOK, Registered, NEW a \in Addrs, Expand(a)
  PROVE  /\ idx' \in Seq(Addrs) /\ chain' \in Seq(Addrs)
         /\ Registered' /\ Sheets' = Sheets \cup {a} /\ a \notin Sheets
         /\ bits' \subseteq 1 .. MaxSheets /\ lastHit' \in 0 .. MaxSheets
         /\ Sheets # {} => chain'[1] = chain[1]
         /\ \A i \in DOMAIN idx' \ bits' : \E p \in DOMAIN idx : idx'[i] = idx[p]
<1> DEFINE c == Cardinality({p \in DOMAIN idx : idx[p] < a})
<1>1. /\ Len(idx) < MaxSheets /\ a \notin Sheets /\ chain' = Append(chain, a)
      /\ idx' = InsertAt(idx, 1 + c, a) /\ bits' = {1 + c} /\ lastHit' = 1 + c
  BY DEF Expand, Register
<1>2. chain \in Seq(Addrs) /\ idx \in Seq(Addrs)
  BY DEF TypeOK
<1>3. \A p \in DOMAIN idx : idx[p] # a
  BY <1>1 DEF Registered, ToSet
<1>4. /\ c \in 0 .. Len(idx)
      /\ \A p \in 1 .. c : idx[p] < a
      /\ \A p \in (c + 1) .. Len(idx) : a < idx[p]
  BY <1>2, <1>3, SlotOf DEF Registered
<1> HIDE DEF c
<1>5. /\ idx' \in Seq(Addrs) /\ Len(idx') = Len(idx) + 1
      /\ \A p \in 1 .. c : idx'[p] = idx[p]
      /\ idx'[c + 1] = a
      /\ \A p \in (c + 2) .. (Len(idx) + 1) : idx'[p] = idx[p - 1]
  BY <1>1, <1>2, <1>4, InsertAtIs
<1>6. /\ chain' \in Seq(Addrs) /\ Len(chain') = Len(chain) + 1
      /\ \A p \in 1 .. Len(chain) : chain'[p] = chain[p]
      /\ chain'[Len(chain) + 1] = a
  BY <1>1, <1>2
<1>7. /\ DOMAIN idx = 1 .. Len(idx) /\ DOMAIN chain = 1 .. Len(chain)
      /\ DOMAIN idx' = 1 .. (Len(idx) + 1) /\ DOMAIN chain' = 1 .. (Len(chain) + 1)
      /\ Len(idx) \in Nat /\ Len(chain) \in Nat /\ c \in Nat /\ c <= Len(idx)
  BY <1>2, <1>4, <1>5, <1>6
<1>8. \A i \in DOMAIN idx' : \/ i \in 1 .. c
                             \/ i = c + 1
                             \/ i \in (c + 2) .. (Len(idx) + 1) /\ i - 1 \in (c + 1) .. Len(idx)
  BY <1>7
<1>9. Sheets' = Sheets \cup {a}
  <2>1. \A i \in DOMAIN chain' : i \in DOMAIN chain \/ i = Len(chain) + 1
    BY <1>7
  <2>2. \A i \in DOMAIN chain : i \in DOMAIN chain'
    BY <1>7
  <2>3. Len(chain) + 1 \in DOMAIN chain'
    BY <1>7
  <2> QED
    BY <1>6, <1>7, <2>1, <2>2, <2>3 DEF Sheets, ToSet
<1>10. ToSet(idx') = ToSet(idx) \cup {a}
  <2>1. ASSUME NEW x \in ToSet(idx')
        PROVE  x \in ToSet(idx) \cup {a}
    <3>1. PICK i \in DOMAIN idx' : x = idx'[i]
      BY DEF ToSet
    <3>2. CASE i \in 1 .. c
      <4>1. i \in DOMAIN idx /\ x = idx[i]
        BY <1>5, <1>7, <3>1, <3>2
      <4> QED
        BY <4>1 DEF ToSet
    <3>3. CASE i = c + 1
      BY <1>5, <3>1, <3>3
    <3>4. CASE i \in (c + 2) .. (Len(idx) + 1) /\ i - 1 \in (c + 1) .. Len(idx)
      <4>1. i - 1 \in DOMAIN idx /\ x = idx[i - 1]
        BY <1>5, <1>7, <3>1, <3>4
      <4> QED
        BY <4>1 DEF ToSet
    <3> QED
      BY <1>8, <3>2, <3>3, <3>4
  <2>2. ASSUME NEW p \in DOMAIN idx
        PROVE  idx[p] \in ToSet(idx')
    <3>1. CASE p \in 1 .. c
      <4>1. p \in DOMAIN idx' /\ idx'[p] = idx[p]
        BY <1>5, <1>7, <3>1
      <4> QED
        BY <4>1 DEF ToSet
    <3>2. CASE p \notin 1 .. c
      <4>1. p + 1 \in (c + 2) .. (Len(idx) + 1) /\ (p + 1) - 1 = p /\ p + 1 \in DOMAIN idx'
        BY <1>7, <3>2
      <4>2. idx'[p + 1] = idx[p]
        BY <1>5, <4>1
      <4> QED
        BY <4>1, <4>2 DEF ToSet
    <3> QED
      BY <3>1, <3>2
  <2>3. a \in ToSet(idx')
    <3>1. c + 1 \in DOMAIN idx'
      BY <1>7
    <3> QED
      BY <1>5, <3>1 DEF ToSet
  <2> QED
    BY <2>1, <2>2, <2>3 DEF ToSet
<1>11. ASSUME NEW i \in DOMAIN idx', NEW j \in DOMAIN idx', i < j
       PROVE  idx'[i] < idx'[j]
  <2>1. /\ a \in Nat
        /\ \A p \in DOMAIN idx : idx[p] \in Nat
        /\ \A p, q \in DOMAIN idx : p < q => idx[p] < idx[q]
    <3>1. \A p \in DOMAIN idx : idx[p] \in Addrs
      BY <1>2
    <3> QED
      BY <3>1, AddrsAreNumbers DEF Registered
  <2>2. CASE j \in 1 .. c
    <3>1. i \in 1 .. c /\ i \in DOMAIN idx /\ j \in DOMAIN idx
      BY <1>7, <1>11, <2>2
    <3> QED
      BY <1>5, <1>11, <2>1, <2>2, <3>1
  <2>3. CASE j = c + 1
    <3>1. i \in 1 .. c
      BY <1>7, <1>11, <2>3
    <3> QED
      BY <1>4, <1>5, <2>3, <3>1
  <2>4. CASE j \in (c + 2) .. (Len(idx) + 1) /\ j - 1 \in (c + 1) .. Len(idx)
    <3>0. idx'[j] = idx[j - 1] /\ a < idx[j - 1] /\ j - 1 \in DOMAIN idx
      BY <1>4, <1>5, <1>7, <2>4
    <3>1. CASE i \in 1 .. c
      <4>1. idx'[i] = idx[i] /\ i \in DOMAIN idx /\ i < j - 1
        BY <1>5, <1>7, <2>4, <3>1
      <4> QED
        BY <2>1, <3>0, <4>1
    <3>2. CASE i = c + 1
      BY <1>5, <3>0, <3>2
    <3>3. CASE i \in (c + 2) .. (Len(idx) + 1) /\ i - 1 \in (c + 1) .. Len(idx)
      <4>1. idx'[i] = idx[i - 1] /\ i - 1 \in DOMAIN idx /\ i - 1 < j - 1
        BY <1>5, <1>7, <1>11, <2>4, <3>3
      <4> QED
        BY <2>1, <3>0, <4>1
    <3> QED
      BY <1>8, <3>1, <3>2, <3>3
  <2> QED
    BY <1>8, <2>2, <2>3, <2>4
<1>12. ASSUME NEW i \in DOMAIN chain', NEW j \in DOMAIN chain', chain'[i] = chain'[j]
       PROVE  i = j
  <2>1. \A p \in DOMAIN chain : chain[p] # a
    BY <1>1 DEF Sheets, ToSet
  <2>2. \A p \in DOMAIN chain' : p \in DOMAIN chain \/ p = Len(chain) + 1
    BY <1>7
  <2> QED
    BY <1>6, <1>7, <1>12, <2>1, <2>2 DEF Registered
<1>13. Registered'
  <2>1. Len(idx') <= MaxSheets /\ bits' \subseteq DOMAIN idx' /\ lastHit' \in 0 .. Len(idx')
    BY <1>1, <1>5, <1>7, TierAssumption
  <2> QED
    BY <1>9, <1>10, <1>11, <1>12, <2>1 DEF Registered
<1>14. bits' \subseteq 1 .. MaxSheets /\ lastHit' \in 0 .. MaxSheets
  BY <1>1, <1>7, TierAssumption
<1>15. Sheets # {} => chain'[1] = chain[1]
  <2>1. Sheets # {} => 1 \in 1 .. Len(chain)
    BY <1>7 DEF Sheets, ToSet
  <2> QED
    BY <1>6, <2>1
<1>16. ASSUME NEW i \in DOMAIN idx' \ bits'
       PROVE  \E p \in DOMAIN idx : idx'[i] = idx[p]
  <2>1. i # c + 1
    BY <1>1, <1>7
  <2>2. CASE i \in 1 .. c
    BY <1>5, <1>7, <2>2
  <2>3. CASE i \in (c + 2) .. (Len(idx) + 1) /\ i - 1 \in (c + 1) .. Len(idx)
    <3>1. i - 1 \in DOMAIN idx /\ idx'[i] = idx[i - 1]
      BY <1>5, <1>7, <2>3
    <3> QED
      BY <3>1
  <2> QED
    BY <1>8, <2>1, <2>2, <2>3
<1> QED
  BY <1>1, <1>5, <1>6, <1>9, <1>13, <1>14, <1>15, <1>16

-----------------------------------------------------------------------------
(* Layer one: the index *)

\* The parts of TypeOK: the lists and bits; the blocks and their holders.
Listed ==
  /\ chain \in Seq(Addrs) /\ idx \in Seq(Addrs)
  /\ bits \subseteq 1 .. MaxSheets /\ lastHit \in 0 .. MaxSheets
BlockStates == [Blocks -> {"free", "parked", "alloc", "temporal", "tomb"}]
Slots == {act \in [Addrs -> [Sizes -> Nat]] :
            \A a \in Addrs, n \in Sizes : act[a][n] \in Cells(a) \cup {0}}
Holding ==
  /\ state \in BlockStates /\ active \in Slots
  /\ plain \subseteq Blocks /\ laundered \subseteq Blocks
Counting ==
  /\ cache \in Seq(Entries) /\ Len(cache) <= CacheSlots
  /\ deallocs \in 0 .. SweepInterval

\* TypeOK is its parts.
LEMMA TypeParts == TypeOK <=> Listed /\ Holding /\ Counting
  BY DEF TypeOK, Listed, Holding, Counting, BlockStates, Slots

\* Cells are numbered from one.
LEMMA CellsAreNumbers == \A a \in Addrs : \A k \in Cells(a) : k \in Nat /\ k # 0
<1> SUFFICES ASSUME NEW a \in Addrs, NEW k \in Cells(a)
             PROVE  k \in Nat /\ k # 0
  OBVIOUS
<1>1. Cap[a] \in Seq(Nat \ {0})
  BY TierAssumption
<1>2. DOMAIN Cap[a] = 1 .. Len(Cap[a]) /\ Len(Cap[a]) \in Nat
  BY <1>1
<1> QED
  BY <1>2 DEF Cells

\* A block is as large as its cell.
LEMMA CapIsNumber == \A b \in Blocks : CapOf(b) \in Nat
<1> SUFFICES ASSUME NEW b \in Blocks
             PROVE  CapOf(b) \in Nat
  OBVIOUS
<1>1. b[1] \in Addrs /\ b[2] \in DOMAIN Cap[b[1]]
  BY BlockParts DEF Cells
<1>2. Cap[b[1]] \in Seq(Nat \ {0})
  BY <1>1, TierAssumption
<1> QED
  BY <1>1, <1>2 DEF CapOf

\* __bucket_insert serves from a position that can, and clears only bits of
\* positions that cannot.
LEMMA PickIs ==
  ASSUME TypeOK, NEW offers \in SUBSET bits, offers # {}
  PROVE  /\ Pick(offers) \in offers
         /\ BitsAfter(offers) \subseteq bits
         /\ \A p \in bits \ BitsAfter(offers) : p \notin offers
<1>1. bits \in SUBSET Nat
  BY TierAssumption DEF TypeOK
<1>2. PICK m \in offers : \A p \in offers : m <= p
  <2>1. offers \in SUBSET Nat
    BY <1>1
  <2> QED
    BY <2>1, HasSmallest
<1>3. Min(offers) \in offers /\ \A p \in offers : Min(offers) <= p
  BY <1>2 DEF Min
<1>4. \A p \in offers : p \in Nat
  BY <1>1
<1>5. CASE lastHit \in offers
  BY <1>5 DEF Pick, BitsAfter
<1>6. CASE lastHit \notin offers
  <2>1. Pick(offers) = Min(offers)
    BY <1>6 DEF Pick
  <2>2. \A p \in offers : ~(p < Pick(offers))
    BY <1>3, <1>4, <2>1
  <2> QED
    BY <1>3, <1>6, <2>1, <2>2 DEF BitsAfter
<1> QED
  BY <1>5, <1>6

\* Handing out a block keeps the types.
LEMMA MarkTyped ==
  ASSUME Holding, NEW a \in Addrs, NEW k \in Cells(a), Mark(a, k)
  PROVE  Holding'
<1>1. <<a, k>> \in Blocks
  BY BlockParts
<1>2. state' \in BlockStates
  BY DEF Holding, Mark, BlockStates
<1> QED
  BY <1>1, <1>2 DEF Holding, Mark

\* So does handing one out to a caller of launder.
LEMMA TemporalMarkTyped ==
  ASSUME Holding, NEW a \in Addrs, NEW n \in Sizes, NEW k \in Cells(a), TemporalMark(a, n, k)
  PROVE  Holding'
<1>1. <<a, k>> \in Blocks /\ k \in Nat
  BY BlockParts, CellsAreNumbers
<1>2. plain' \subseteq Blocks /\ laundered' \subseteq Blocks
  BY <1>1 DEF Holding, TemporalMark
<1>3. CASE active[a][n] # 0
  BY <1>2, <1>3 DEF Holding, TemporalMark
<1>4. CASE ~(active[a][n] # 0)
  <2>1. /\ state' = [state EXCEPT ![<<a, k>>] = "temporal"]
        /\ active' = [active EXCEPT ![a][n] = k]
    BY <1>4 DEF TemporalMark
  <2>2. state' \in BlockStates
    BY <2>1 DEF Holding, BlockStates
  <2>3. active' \in [Addrs -> [Sizes -> Nat]]
    BY <1>1, <2>1 DEF Holding, Slots
  <2>4. \A x \in Addrs, m \in Sizes : active'[x][m] \in Cells(x) \cup {0}
    BY <2>1 DEF Holding, Slots
  <2> QED
    BY <1>2, <2>2, <2>3, <2>4 DEF Holding, Slots
<1> QED
  BY <1>3, <1>4

\* A free keeps the types.
LEMMA FreedTyped ==
  ASSUME Holding, NEW s \in BlockStates, NEW act \in Slots, NEW gone, NEW b,
         state' = Fresh(s, gone), active' = FreshActive(act, gone), LetGo(b)
  PROVE  Holding'
<1>1. state' \in BlockStates
  BY DEF Fresh, BlockStates
<1>2. active' \in Slots
  BY DEF FreshActive, Slots
<1> QED
  BY <1>1, <1>2 DEF Holding, LetGo

\* A linked sheet is found in the index.
LEMMA PosOfIs ==
  ASSUME Registered, NEW a \in Sheets
  PROVE  PosOf(a) \in DOMAIN idx /\ idx[PosOf(a)] = a
<1>1. \E p \in DOMAIN idx : idx[p] = a
  BY DEF Registered, ToSet
<1> QED
  BY <1>1 DEF PosOf

-----------------------------------------------------------------------------
(* What a free does, whichever way it goes *)

\* Freeing b leaves the block states s and the slots act, then the sheets in
\* gone, all of them drained, are unmapped.
Released(b, s, act, gone) ==
  /\ \A x \in gone : Drained(s, x)
  /\ Reclaim(gone, PosOf(b[1])) /\ state' = Fresh(s, gone) /\ active' = FreshActive(act, gone)
  /\ LetGo(b) /\ cache' = cache /\ deallocs' \in 0 .. SweepInterval
  /\ \A x \in Blocks : x # b => s[x] = state[x]
  /\ s[b] \notin {"alloc", "temporal"}
  /\ \A a \in Addrs, n \in Sizes : act[a][n] \in {active[a][n], 0}
  /\ \A n \in Sizes : act[b[1]][n] = b[2] => s = Tombed(b)
  /\ Drained(s, b[1]) /\ b[1] \notin gone => ~MostlyTomb(s, b[1]) /\ s = Tombed(b)

\* What a caller frees is a block of a mapped sheet.
LEMMA HeldIs ==
  ASSUME TypeOK, NEW b \in Held
  PROVE  /\ b \in Blocks /\ b \in plain \cup laundered
         /\ b[1] \in Sheets /\ b[1] \in Addrs /\ b[2] \in Cells(b[1])
<1>1. b \in Blocks /\ b \in plain \cup laundered /\ b[1] \in Sheets
  BY DEF Held, TypeOK
<1> QED
  BY <1>1, BlockParts

\* A tombstone, with the accounting that follows it.
LEMMA TombReleases ==
  ASSUME TypeOK, NEW b \in Held,
         LetGo(b), UNCHANGED cache, TombstoneAccounting(Tombed(b), b[1])
  PROVE  \E s \in BlockStates, act \in Slots, gone \in SUBSET Sheets : Released(b, s, act, gone)
<1>0. b \in Blocks /\ b[1] \in Sheets
  BY HeldIs
<1> DEFINE now(s) == Drained(s, b[1]) /\ MostlyTomb(s, b[1])
           sweep(s) == ~now(s) /\ deallocs + 1 >= SweepInterval
           out(s) == IF now(s) THEN {b[1]}
                     ELSE IF sweep(s) THEN {x \in Sheets : Drained(s, x) /\ MostlyTomb(s, x)} ELSE {}
<1>1. state \in BlockStates /\ active \in Slots /\ deallocs \in 0 .. SweepInterval
  BY TypeParts DEF Holding, Counting
<1>2. Tombed(b) \in BlockStates
  BY <1>0, <1>1 DEF Tombed, BlockStates
<1>3. PICK s \in BlockStates : s = Tombed(b)
  BY <1>2
<1>4. /\ Reclaim(out(s), PosOf(b[1]))
      /\ state' = Fresh(s, out(s)) /\ active' = FreshActive(active, out(s))
      /\ deallocs' = IF now(s) THEN deallocs ELSE IF sweep(s) THEN 0 ELSE deallocs + 1
  BY <1>3 DEF TombstoneAccounting
<1>5. deallocs' \in 0 .. SweepInterval
  BY <1>1, <1>4, TierAssumption
<1>6. /\ out(s) \in SUBSET Sheets /\ \A x \in out(s) : Drained(s, x)
      /\ Drained(s, b[1]) /\ b[1] \notin out(s) => ~MostlyTomb(s, b[1])
  BY <1>0
<1>7. /\ \A x \in Blocks : x # b => s[x] = state[x]
      /\ s[b] \notin {"alloc", "temporal"}
  BY <1>0, <1>1, <1>3 DEF Tombed, IsBlockAllocated, BlockStates
<1>8. PICK gone \in SUBSET Sheets : gone = out(s)
  BY <1>6
<1> HIDE DEF out, now, sweep
<1>9. PICK act \in Slots : act = active
  BY <1>1
<1>10. Released(b, s, act, gone)
  BY <1>3, <1>4, <1>5, <1>6, <1>7, <1>8, <1>9 DEF Released
<1> QED
  BY <1>10

\* An unmark, with the look at its sheet that follows it.
LEMMA UnmarkReleases ==
  ASSUME TypeOK, NEW b \in Held, LetGo(b), UNCHANGED cache, NEW left \in {"free", "parked"},
         ReclaimEmpty([state EXCEPT ![b] = left], b[1],
                      [active EXCEPT ![b[1]] =
                         [n \in Sizes |-> IF @[n] = b[2] THEN 0 ELSE @[n]]])
  PROVE  \E s \in BlockStates, act \in Slots, gone \in SUBSET Sheets : Released(b, s, act, gone)
<1>0. b \in Blocks /\ b[1] \in Sheets /\ b[1] \in Addrs /\ b[2] \in Cells(b[1])
  BY HeldIs
<1>1. state \in BlockStates /\ active \in Slots /\ deallocs \in 0 .. SweepInterval
  BY TypeParts DEF Holding, Counting
<1>2. [state EXCEPT ![b] = left] \in BlockStates
  BY <1>0, <1>1 DEF BlockStates
<1>3. PICK s \in BlockStates : s = [state EXCEPT ![b] = left]
  BY <1>2
<1> DEFINE A == [active EXCEPT ![b[1]] = [n \in Sizes |-> IF @[n] = b[2] THEN 0 ELSE @[n]]]
<1>4. A \in Slots
  <2>1. A \in [Addrs -> [Sizes -> Nat]]
    BY <1>0, <1>1 DEF Slots
  <2>2. \A a \in Addrs, n \in Sizes : A[a][n] \in Cells(a) \cup {0}
    BY <1>0, <1>1 DEF Slots
  <2> QED
    BY <2>1, <2>2 DEF Slots
<1>5. PICK act \in Slots : act = A
  BY <1>4
<1>6. \A a \in Addrs, n \in Sizes : act[a][n] \in {active[a][n], 0}
  BY <1>0, <1>1, <1>5 DEF Slots
<1>7. \A n \in Sizes : act[b[1]][n] # b[2]
  <2>1. b[2] # 0
    BY <1>0, CellsAreNumbers
  <2> QED
    BY <1>0, <1>1, <1>5, <2>1 DEF Slots
<1> DEFINE out == {x \in {b[1]} : Drained(s, x)}
<1>8. /\ Reclaim(out, PosOf(b[1]))
      /\ state' = Fresh(s, out) /\ active' = FreshActive(act, out) /\ deallocs' = deallocs
  BY <1>3, <1>5 DEF ReclaimEmpty
<1>9. /\ \A x \in Blocks : x # b => s[x] = state[x]
      /\ s[b] \notin {"alloc", "temporal"}
  BY <1>0, <1>1, <1>3 DEF BlockStates
<1>10. PICK gone \in SUBSET Sheets : gone = out
  BY <1>0
<1>11. (\A x \in gone : Drained(s, x)) /\ ~(Drained(s, b[1]) /\ b[1] \notin gone)
  BY <1>10
<1> HIDE DEF A, out
<1>12. Released(b, s, act, gone)
  BY <1>1, <1>6, <1>7, <1>8, <1>9, <1>10, <1>11 DEF Released
<1> QED
  BY <1>12

\* Either way of removing a block.
LEMMA RemoveReleases ==
  ASSUME TypeOK, NEW b \in Held, TierRemove(b)
  PROVE  \E s \in BlockStates, act \in Slots, gone \in SUBSET Sheets : Released(b, s, act, gone)
<1>1. CASE TombTier /\ TombstoneAccounting(Tombed(b), b[1])
  BY <1>1, TombReleases DEF TierRemove
<1>2. CASE \E left \in (IF state[b] = "temporal" THEN {"free", "parked"} ELSE {"free"}) :
             ReclaimEmpty([state EXCEPT ![b] = left], b[1],
                          [active EXCEPT ![b[1]] =
                             [n \in Sizes |-> IF @[n] = b[2] THEN 0 ELSE @[n]]])
  <2>1. PICK left \in {"free", "parked"} :
             ReclaimEmpty([state EXCEPT ![b] = left], b[1],
                          [active EXCEPT ![b[1]] =
                             [n \in Sizes |-> IF @[n] = b[2] THEN 0 ELSE @[n]]])
    BY <1>2
  <2> QED
    BY <2>1, UnmarkReleases DEF TierRemove
<1> QED
  BY <1>1, <1>2 DEF TierRemove

\* The lists after a free.
LEMMA ReleasedLists ==
  ASSUME TypeOK, Registered, NEW b \in Held, NEW s \in BlockStates, NEW act \in Slots,
         NEW gone \in SUBSET Sheets, Released(b, s, act, gone)
  PROVE  /\ TypeOK' /\ Registered' /\ Sheets' = Sheets \ gone /\ chain'[1] = chain[1]
         /\ \A i \in DOMAIN idx' \ bits' : \E p \in DOMAIN idx \ bits : idx[p] # b[1] /\ idx'[i] = idx[p]
<1>1. b[1] \in Sheets
  BY HeldIs
<1>2. PosOf(b[1]) \in DOMAIN idx /\ idx[PosOf(b[1])] = b[1]
  BY <1>1, PosOfIs
<1>3. PICK pos \in DOMAIN idx : pos = PosOf(b[1])
  BY <1>2
<1>4. chain[1] \notin gone
  BY DEF Released, Drained
<1>5. /\ idx' \in Seq(Addrs) /\ chain' \in Seq(Addrs)
      /\ Registered' /\ Sheets' = Sheets \ gone
      /\ bits' \subseteq 1 .. MaxSheets /\ lastHit' \in 0 .. MaxSheets
      /\ Sheets # {} => chain'[1] = chain[1]
      /\ \A i \in DOMAIN idx' \ bits' : \E p \in DOMAIN idx \ bits : p # pos /\ idx'[i] = idx[p]
  BY <1>3, <1>4, ReclaimEffect DEF Released
<1>6. \A p \in DOMAIN idx : p # pos => idx[p] # b[1]
  <2> SUFFICES ASSUME NEW p \in DOMAIN idx, p # pos, idx[p] = idx[pos]
               PROVE  FALSE
    BY <1>2, <1>3
  <2>1. idx \in Seq(Addrs) /\ idx[p] \in Addrs
    BY DEF TypeOK
  <2>2. idx[p] \in Nat /\ p \in Nat /\ pos \in Nat
    BY <2>1, AddrsAreNumbers
  <2>3. p < pos \/ pos < p
    BY <2>2
  <2>4. idx[p] < idx[pos] \/ idx[pos] < idx[p]
    BY <2>3 DEF Registered
  <2> QED
    BY <2>2, <2>4
<1>7. Holding'
  BY TypeParts, FreedTyped DEF Released
<1>8. Counting'
  BY TypeParts DEF Released, Counting
<1>9. TypeOK'
  BY <1>5, <1>7, <1>8 DEF TypeOK, Listed, Holding, Counting, BlockStates, Slots
<1> QED
  BY <1>1, <1>5, <1>6, <1>9

-----------------------------------------------------------------------------
(* The free cache *)

\* The newest entry that is large enough is an entry.
LEMMA ProbeIs ==
  ASSUME TypeOK, NEW n, Probe(n) # {}
  PROVE  Max(Probe(n)) \in DOMAIN cache /\ cache[Max(Probe(n))] \in Entries
<1>1. cache \in Seq(Entries)
  BY DEF TypeOK
<1>2. DOMAIN cache = 1 .. Len(cache) /\ Len(cache) \in Nat
  BY <1>1
<1>3. Probe(n) \in SUBSET (0 .. Len(cache)) /\ Probe(n) \in SUBSET DOMAIN cache
  BY <1>2 DEF Probe
<1>4. PICK h \in Probe(n) : \A i \in Probe(n) : i <= h
  BY <1>2, <1>3, HasLargest
<1>5. \A i \in Probe(n) : h >= i
  BY <1>2, <1>3, <1>4
<1>6. Max(Probe(n)) \in Probe(n)
  BY <1>4, <1>5 DEF Max
<1> QED
  BY <1>1, <1>3, <1>6

\* pop_at: every entry that is left was another one's.
LEMMA PopAtIs ==
  ASSUME NEW i \in DOMAIN cache, cache \in Seq(Entries)
  PROVE  /\ PopAt(i) \in Seq(Entries) /\ Len(PopAt(i)) = Len(cache) - 1
         /\ \A j \in 1 .. (Len(cache) - 1) :
              PopAt(i)[j] = cache[IF j = i THEN Len(cache) ELSE j]
<1> DEFINE c == [cache EXCEPT ![i] = cache[Len(cache)]]
<1>1. Len(cache) \in Nat /\ DOMAIN cache = 1 .. Len(cache) /\ Len(cache) # 0 /\ Len(cache) \in 1 .. Len(cache)
  OBVIOUS
<1>2. cache[Len(cache)] \in Entries
  BY <1>1
<1>3. c \in Seq(Entries) /\ Len(c) = Len(cache)
  BY <1>1, <1>2
<1>4. \A j \in 1 .. Len(cache) : c[j] = cache[IF j = i THEN Len(cache) ELSE j]
  BY <1>1
<1> HIDE DEF c
<1>5. /\ SubSeq(c, 1, Len(cache) - 1) \in Seq(Entries)
      /\ Len(SubSeq(c, 1, Len(cache) - 1)) = Len(cache) - 1
      /\ \A j \in 1 .. (Len(cache) - 1) : SubSeq(c, 1, Len(cache) - 1)[j] = c[j]
  BY <1>1, <1>3
<1>6. PopAt(i) = SubSeq(c, 1, Len(cache) - 1)
  BY DEF PopAt, c
<1> QED
  BY <1>1, <1>4, <1>5, <1>6

\* The size a sized free caches.
LEMMA MinOfTwo ==
  ASSUME NEW x \in Nat, NEW y \in Nat
  PROVE  Min({x, y}) \in Nat /\ Min({x, y}) <= y
<1>1. CASE x <= y
  <2>1. x \in {x, y} /\ \A z \in {x, y} : x <= z
    BY <1>1
  <2>2. Min({x, y}) \in {x, y} /\ \A z \in {x, y} : Min({x, y}) <= z
    BY <2>1 DEF Min
  <2> QED
    BY <2>2
<1>2. CASE ~(x <= y)
  <2>1. y \in {x, y} /\ \A z \in {x, y} : y <= z
    BY <1>2
  <2>2. Min({x, y}) \in {x, y} /\ \A z \in {x, y} : Min({x, y}) <= z
    BY <2>1 DEF Min
  <2> QED
    BY <2>2
<1> QED
  BY <1>1, <1>2

\* Pushing a block on the cache.
LEMMA CachePushIs ==
  ASSUME TypeOK, NEW b \in Blocks, NEW n \in Nat, CachePush(b, n), Room
  PROVE  /\ TypeOK' /\ Len(cache') = Len(cache) + 1
         /\ cache'[Len(cache) + 1] = [ptr |-> b, size |-> n]
         /\ \A i \in 1 .. Len(cache) : cache'[i] = cache[i]
<1>1. PICK e \in Entries : e = [ptr |-> b, size |-> n]
  BY DEF Entries
<1>2. cache \in Seq(Entries) /\ Len(cache) \in Nat
  BY DEF TypeOK
<1>3. cache' = Append(cache, e)
  BY <1>1 DEF CachePush
<1>4. /\ cache' \in Seq(Entries) /\ Len(cache') = Len(cache) + 1
      /\ cache'[Len(cache) + 1] = e
      /\ \A i \in 1 .. Len(cache) : cache'[i] = cache[i]
  BY <1>2, <1>3
<1>5. Len(cache') <= CacheSlots
  BY <1>2, <1>4, TierAssumption DEF Room
<1>6. TypeOK'
  BY <1>4, <1>5 DEF TypeOK, CachePush, LetGo
<1> QED
  BY <1>1, <1>4, <1>6

-----------------------------------------------------------------------------
(* The index stays exact *)

\* Taking an entry from the cache keeps the types.
LEMMA PushCachedTyped ==
  ASSUME TypeOK, NEW n \in Sizes, PushCached(n)
  PROVE  TypeOK'
<1>1. cache \in Seq(Entries) /\ Len(cache) \in Nat /\ Len(cache) <= CacheSlots
  BY DEF TypeOK
<1>2. PICK i \in DOMAIN cache : i = Max(Probe(n)) /\ cache[i] \in Entries
  BY ProbeIs DEF PushCached
<1>3. PICK c \in Seq(Entries) : c = PopAt(i) /\ Len(c) = Len(cache) - 1
  BY <1>1, PopAtIs
<1>4. cache' = c /\ plain' = plain \cup {cache[i].ptr}
  BY <1>2, <1>3 DEF PushCached
<1>5. cache' \in Seq(Entries) /\ Len(cache') <= CacheSlots
  BY <1>1, <1>3, <1>4, TierAssumption
<1>6. plain' \subseteq Blocks
  BY <1>2, <1>4 DEF TypeOK, Entries
<1> QED
  BY <1>5, <1>6 DEF TypeOK, PushCached

\* What insertion into a registered sheet does to the lists.
LEMMA InsertLists ==
  ASSUME TypeOK, Registered, NEW offers \in SUBSET bits, offers # {},
         bits' = BitsAfter(offers), lastHit' = Pick(offers), UNCHANGED <<chain, idx>>
  PROVE  /\ Listed' /\ Registered' /\ Sheets' = Sheets /\ Pick(offers) \in offers
         /\ Pick(offers) \in DOMAIN idx /\ idx[Pick(offers)] \in Sheets /\ idx[Pick(offers)] \in Addrs
         /\ \A i \in DOMAIN idx' \ bits' : i \in DOMAIN idx /\ i \notin offers /\ idx'[i] = idx[i]
<1>1. /\ Pick(offers) \in offers /\ BitsAfter(offers) \subseteq bits
      /\ \A p \in bits \ BitsAfter(offers) : p \notin offers
  BY PickIs
<1>2. idx \in Seq(Addrs) /\ DOMAIN idx = 1 .. Len(idx) /\ Len(idx) \in Nat
  BY DEF TypeOK
<1>3. Pick(offers) \in DOMAIN idx
  BY <1>1 DEF Registered
<1>4. idx[Pick(offers)] \in Sheets /\ idx[Pick(offers)] \in Addrs
  BY <1>2, <1>3 DEF Registered, ToSet
<1>5. Sheets' = Sheets
  BY DEF Sheets
<1>6. bits' \subseteq bits /\ lastHit' \in DOMAIN idx
  BY <1>1, <1>3
<1>7. Registered'
  BY <1>2, <1>5, <1>6 DEF Registered
<1>8. Listed'
  <2>1. lastHit' \in 0 .. MaxSheets
    BY <1>2, <1>6, TierAssumption DEF Registered
  <2> QED
    BY <1>6, <2>1 DEF Listed, TypeOK
<1> QED
  BY <1>1, <1>3, <1>4, <1>5, <1>7, <1>8

\* Only positions with a set bit are asked.
LEMMA OffersAre ==
  ASSUME NEW n
  PROVE  Offers(n) \in SUBSET bits /\ TemporalOffers(n) \in SUBSET bits
  BY DEF Offers, TemporalOffers

\* Every step keeps the types and the index.
LEMMA IndexStep ==
  ASSUME TypeOK, Registered, [Next]_vars
  PROVE  TypeOK' /\ Registered'
<1>0. Listed /\ Holding /\ Counting
  BY TypeParts
<1>p. Listed' /\ Holding' /\ Counting' => TypeOK'
  BY DEF TypeOK, Listed, Holding, Counting, BlockStates, Slots
<1>l. UNCHANGED <<chain, idx, bits, lastHit>> => Listed' /\ Registered'
  BY <1>0 DEF Listed, Registered, Sheets
<1>c. UNCHANGED <<cache, deallocs>> => Counting'
  BY <1>0 DEF Counting
<1>1. ASSUME NEW n \in Sizes, PushCached(n)
      PROVE  TypeOK' /\ Registered'
  BY <1>1, <1>l, PushCachedTyped DEF PushCached
<1>2. ASSUME NEW n \in Sizes, PushInsert(n)
      PROVE  TypeOK' /\ Registered'
  <2>1. /\ Listed' /\ Registered' /\ Counting' /\ idx[Pick(Offers(n))] \in Addrs
    BY <1>2, <1>c, InsertLists, OffersAre DEF PushInsert
  <2>2. PICK a \in Addrs : a = idx[Pick(Offers(n))]
    BY <2>1
  <2>3. PICK k \in Fitting(a, n) : Mark(a, k)
    BY <1>2, <2>2 DEF PushInsert
  <2>4. k \in Cells(a)
    BY DEF Fitting
  <2> QED
    BY <1>0, <1>p, <2>1, <2>3, <2>4, MarkTyped
<1>3. ASSUME NEW n \in Sizes, PushExpand(n)
      PROVE  TypeOK' /\ Registered'
  <2>1. PICK a \in Addrs : Expand(a) /\ \E k \in Fitting(a, n) : Mark(a, k)
    BY <1>3 DEF PushExpand
  <2>2. PICK k \in Fitting(a, n) : Mark(a, k)
    BY <2>1
  <2>3. k \in Cells(a)
    BY DEF Fitting
  <2>4. Listed' /\ Registered' /\ Counting'
    BY <1>3, <1>c, <2>1, ExpandEffect DEF Listed, PushExpand
  <2> QED
    BY <1>0, <1>p, <2>2, <2>3, <2>4, MarkTyped
<1>4. ASSUME NEW n \in Sizes, Launder(n)
      PROVE  TypeOK' /\ Registered'
  <2>1. /\ Listed' /\ Registered' /\ Counting' /\ idx[Pick(TemporalOffers(n))] \in Addrs
    BY <1>4, <1>c, InsertLists, OffersAre DEF Launder
  <2>2. PICK a \in Addrs : a = idx[Pick(TemporalOffers(n))]
    BY <2>1
  <2>3. PICK k \in Cells(a) : TemporalMark(a, n, k)
    BY <1>4, <2>2 DEF Launder
  <2> QED
    BY <1>0, <1>p, <2>1, <2>3, TemporalMarkTyped
<1>5. ASSUME NEW n \in Sizes, LaunderExpand(n)
      PROVE  TypeOK' /\ Registered'
  <2>1. PICK a \in Addrs : Expand(a) /\ \E k \in Cells(a) : TemporalMark(a, n, k)
    BY <1>5 DEF LaunderExpand
  <2>2. PICK k \in Cells(a) : TemporalMark(a, n, k)
    BY <2>1
  <2>3. Listed' /\ Registered' /\ Counting'
    BY <1>5, <1>c, <2>1, ExpandEffect DEF Listed, LaunderExpand
  <2> QED
    BY <1>0, <1>p, <2>2, <2>3, TemporalMarkTyped
<1>6. ASSUME NEW n \in Sizes, ExpandFail(n)
      PROVE  TypeOK' /\ Registered'
  BY <1>6 DEF ExpandFail, TypeOK, Registered, Sheets
<1>7. ASSUME NEW b \in Held, TierRemove(b)
      PROVE  TypeOK' /\ Registered'
  BY <1>7, RemoveReleases, ReleasedLists
<1>8. ASSUME NEW b \in Held, TsPop(b)
      PROVE  TypeOK' /\ Registered'
  BY <1>8, TombReleases, ReleasedLists DEF TsPop
<1>9. ASSUME NEW b \in Held, PopPtr(b)
      PROVE  TypeOK' /\ Registered'
  <2>1. CASE state[b] # "temporal" /\ Room
    <3>1. CachePush(b, CapOf(b))
      BY <1>9, <2>1 DEF PopPtr
    <3>2. b \in Blocks /\ CapOf(b) \in Nat
      BY HeldIs, CapIsNumber
    <3> QED
      BY <1>l, <2>1, <3>1, <3>2, CachePushIs DEF CachePush
  <2>2. CASE ~(state[b] # "temporal" /\ Room)
    BY <1>7, <1>9, <2>2 DEF PopPtr
  <2> QED
    BY <2>1, <2>2
<1>10. ASSUME NEW b \in Held, NEW n \in Sizes, PopSized(b, n)
       PROVE  TypeOK' /\ Registered'
  <2>1. CASE Room
    <3>1. CachePush(b, Min({n, CapOf(b)}))
      BY <1>10, <2>1 DEF PopSized
    <3>2. b \in Blocks /\ CapOf(b) \in Nat /\ n \in Nat
      BY HeldIs, CapIsNumber, TierAssumption
    <3>3. Min({n, CapOf(b)}) \in Nat
      BY <3>2, MinOfTwo
    <3> QED
      BY <1>l, <2>1, <3>1, <3>2, <3>3, CachePushIs DEF CachePush
  <2>2. CASE ~Room
    BY <1>7, <1>10, <2>2 DEF PopSized
  <2> QED
    BY <2>1, <2>2
<1>11. ASSUME NEW b \in Held, Refuse(b)
       PROVE  TypeOK' /\ Registered'
  BY <1>11, <1>l DEF Refuse, LetGo, TypeOK
<1>12. CASE UNCHANGED vars
  BY <1>12 DEF vars, TypeOK, Registered, Sheets
<1> QED
  BY <1>1, <1>2, <1>3, <1>4, <1>5, <1>6, <1>8, <1>9, <1>10, <1>11, <1>12 DEF Next

\* The initial state.
LEMMA IndexInit == Init => TypeOK /\ Registered
<1> SUFFICES ASSUME Init
             PROVE  TypeOK /\ Registered
  OBVIOUS
<1>1. chain = <<>> /\ idx = <<>> /\ bits = {} /\ lastHit = 0 /\ cache = <<>> /\ deallocs = 0
  BY DEF Init, NoHit
<1>2. state \in BlockStates /\ active \in Slots /\ plain = {} /\ laundered = {}
  BY DEF Init, BlockStates, Slots
<1>3. Listed /\ Counting
  BY <1>1, TierAssumption DEF Listed, Counting
<1>4. Registered
  BY <1>1, TierAssumption DEF Registered, Sheets, ToSet
<1> QED
  BY <1>2, <1>3, <1>4, TypeParts DEF Holding

\* A list without repetitions is as long as its set of entries.
LEMMA LengthIsSize ==
  ASSUME NEW l \in Seq(Addrs), \A p, q \in DOMAIN l : l[p] = l[q] => p = q
  PROVE  Cardinality(ToSet(l)) = Len(l)
<1>1. DOMAIN l = 1 .. Len(l) /\ Len(l) \in Nat
  OBVIOUS
<1>2. l \in Bijection(1 .. Len(l), ToSet(l))
  <2>1. l \in [1 .. Len(l) -> ToSet(l)]
    BY <1>1 DEF ToSet
  <2>2. \A y \in ToSet(l) : \E p \in 1 .. Len(l) : l[p] = y
    BY <1>1 DEF ToSet
  <2> QED
    BY <1>1, <2>1, <2>2 DEF Bijection, Injection, IsInjective, Surjection
<1>3. 1 \in Int /\ Len(l) \in Int
  BY <1>1
<1>4. /\ IsFiniteSet(1 .. Len(l))
      /\ Cardinality(1 .. Len(l)) = IF 1 > Len(l) THEN 0 ELSE Len(l) - 1 + 1
  BY <1>3, FS_Interval
<1>5. Cardinality(1 .. Len(l)) = Len(l)
  BY <1>1, <1>4
<1>6. Cardinality(ToSet(l)) = Cardinality(1 .. Len(l))
  <2>1. ExistsBijection(1 .. Len(l), ToSet(l))
    BY <1>2 DEF ExistsBijection
  <2> QED
    BY <1>4, <2>1, FS_Bijection
<1> QED
  BY <1>5, <1>6

\* The first layer of the invariant gives IndexExact.
LEMMA RegisteredIsExact ==
  ASSUME TypeOK, Registered
  PROVE  IndexExact
<1>1. idx \in Seq(Addrs) /\ chain \in Seq(Addrs)
  BY DEF TypeOK
<1>2. \A p, q \in DOMAIN idx : idx[p] = idx[q] => p = q
  <2> SUFFICES ASSUME NEW p \in DOMAIN idx, NEW q \in DOMAIN idx, idx[p] = idx[q], p # q
               PROVE  FALSE
    OBVIOUS
  <2>1. idx[p] \in Addrs
    BY <1>1
  <2>2. p \in Nat /\ q \in Nat /\ idx[p] \in Nat
    BY <1>1, <2>1, AddrsAreNumbers
  <2>3. p < q \/ q < p
    BY <2>2
  <2>4. idx[p] < idx[q] \/ idx[q] < idx[p]
    BY <2>3 DEF Registered
  <2> QED
    BY <2>2, <2>4
<1>3. Cardinality(ToSet(idx)) = Len(idx)
  BY <1>1, <1>2, LengthIsSize
<1>4. Cardinality(ToSet(chain)) = Len(chain)
  BY <1>1, LengthIsSize DEF Registered
<1>5. ToSet(idx) = ToSet(chain)
  BY DEF Registered, Sheets
<1> QED
  BY <1>3, <1>4, <1>5 DEF IndexExact, Registered

(***************************************************************************)
(* The index of a tier lists each linked sheet once, in address order, and *)
(* its space bits are positions of it, through every register_sheet,       *)
(* unregister and sweep, whatever the callers free and how.                *)
(***************************************************************************)
THEOREM IndexIsExact == Spec => []IndexExact
<1>1. Init => TypeOK /\ Registered
  BY IndexInit
<1>2. TypeOK /\ Registered /\ [Next]_vars => TypeOK' /\ Registered'
  BY IndexStep
<1>3. TypeOK /\ Registered => IndexExact
  BY RegisteredIsExact
<1> QED
  BY <1>1, <1>2, <1>3, PTL DEF Spec

-----------------------------------------------------------------------------
(* Layer two: the blocks.  Each part of the invariant depends on the       *)
(* mapped sheets and on what the states of their blocks were.              *)

\* What the invariant asks of a sheet other than the head's.
Reusable(s, a) == ~MostlyTomb(s, a) /\ \E k \in Cells(a) : s[<<a, k>>] = "tomb"

\* Sheets whose blocks are in the same states are alike.
LEMMA SheetAlike ==
  ASSUME NEW s, NEW t, NEW a \in Addrs, \A k \in Cells(a) : s[<<a, k>>] = t[<<a, k>>]
  PROVE  /\ Used(s, a) = Used(t, a) /\ (MostlyTomb(s, a) <=> MostlyTomb(t, a))
         /\ (Reusable(s, a) <=> Reusable(t, a))
<1>1. Used(s, a) = Used(t, a)
  BY DEF Used
<1>2. {k \in Cells(a) : s[<<a, k>>] = "tomb"} = {k \in Cells(a) : t[<<a, k>>] = "tomb"}
  OBVIOUS
<1>3. MostlyTomb(s, a) <=> MostlyTomb(t, a)
  BY <1>2 DEF MostlyTomb
<1> QED
  BY <1>1, <1>3 DEF Reusable

\* A block is handed out: the sheets after it, sheet a among them, are the ones
\* before and at most a more; a cleared bit was or is right.
Grown(a) ==
  /\ Sheets \subseteq Sheets' /\ Sheets' \subseteq Sheets \cup {a} /\ a \in Sheets'
  /\ Sheets # {} => chain'[1] = chain[1]
  /\ \A i \in DOMAIN idx' \ bits' : \E n \in Sizes : Fitting(idx'[i], n) = {}
  /\ cache' = cache

\* Handing out a block of sheet a that was not in use.
LEMMA HandOutKeeps ==
  ASSUME TierInv, TypeOK', Registered', NEW a \in Addrs, Grown(a),
         NEW k \in Cells(a), NEW v \in {"alloc", "temporal"},
         state[<<a, k>>] \in {"free", "parked"}, state' = [state EXCEPT ![<<a, k>>] = v]
  PROVE  /\ ExhaustedMeansFull' /\ NoLingering'
         /\ \A x \in Blocks : state[x] \in {"alloc", "temporal", "tomb"} => state'[x] = state[x]
         /\ \A x \in Addrs \ Sheets' : \A j \in Cells(x) : state'[<<x, j>>] = "free"
         /\ state'[<<a, k>>] = v
<1>1. <<a, k>> \in Blocks /\ state \in BlockStates
  BY BlockParts, TypeParts DEF TierInv, Holding
<1>2. state'[<<a, k>>] = v /\ \A x \in Blocks : x # <<a, k>> => state'[x] = state[x]
  BY <1>1 DEF BlockStates
<1>3. \A x \in Addrs : x # a => \A j \in Cells(x) : state'[<<x, j>>] = state[<<x, j>>]
  <2> SUFFICES ASSUME NEW x \in Addrs, x # a, NEW j \in Cells(x)
               PROVE  state'[<<x, j>>] = state[<<x, j>>]
    OBVIOUS
  <2>1. <<x, j>> \in Blocks /\ <<x, j>> # <<a, k>>
    BY BlockParts, BlockApart
  <2> QED
    BY <1>2, <2>1
<1>4. ExhaustedMeansFull'
  <2> SUFFICES ASSUME NEW i \in DOMAIN idx' \ bits'
               PROVE  \E n \in Sizes : Fitting(idx[i], n)' = {}
    BY DEF ExhaustedMeansFull
  <2>1. idx' \in Seq(Addrs)
    BY DEF TypeOK
  <2>2. PICK x \in Addrs : x = idx'[i]
    BY <2>1
  <2>3. PICK n \in Sizes : Fitting(x, n) = {}
    BY <2>2 DEF Grown
  <2>4. ASSUME NEW j \in Cells(x), state'[<<x, j>>] = "free"
        PROVE  state[<<x, j>>] = "free"
    <3>1. <<x, j>> \in Blocks
      BY BlockParts
    <3> QED
      BY <1>2, <2>4, <3>1
  <2>5. {j \in Cells(x) : Cap[x][j] >= n /\ state'[<<x, j>>] = "free"} = {}
    BY <2>3, <2>4 DEF Fitting
  <2> QED
    BY <2>2, <2>5 DEF Fitting, Cells
<1>5. NoLingering'
  <2> SUFFICES ASSUME NEW x \in Sheets', x # chain'[1], Used(state', x) = {}
               PROVE  Reusable(state', x)
    BY DEF NoLingering, Reusable
  <2>1. x # a
    <3>1. k \in Used(state', a)
      BY <1>2 DEF Used
    <3> QED
      BY <3>1
  <2>2. x \in Sheets /\ chain'[1] = chain[1]
    BY <2>1 DEF Grown
  <2>3. x \in Addrs
    BY <2>2 DEF TierInv, TypeOK, Sheets, ToSet
  <2>4. \A j \in Cells(x) : state'[<<x, j>>] = state[<<x, j>>]
    BY <1>3, <2>1, <2>3
  <2>5. /\ Used(state', x) = Used(state, x)
        /\ (Reusable(state', x) <=> Reusable(state, x))
    BY <2>3, <2>4, SheetAlike
  <2> QED
    BY <2>2, <2>5 DEF TierInv, NoLingering, Reusable
<1>6. ASSUME NEW x \in Addrs \ Sheets', NEW j \in Cells(x)
      PROVE  state'[<<x, j>>] = "free"
  <2>1. x # a /\ x \notin Sheets
    BY DEF Grown
  <2> QED
    BY <1>3, <2>1 DEF TierInv, Clean
<1>7. ASSUME NEW x \in Blocks, state[x] \in {"alloc", "temporal", "tomb"}
      PROVE  state'[x] = state[x]
  BY <1>2, <1>7
<1> QED
  BY <1>2, <1>4, <1>5, <1>6, <1>7

\* What the cache holds.
LEMMA CacheEntry ==
  ASSUME TierInv, NEW i \in DOMAIN cache
  PROVE  /\ cache[i].ptr \in Blocks /\ cache[i].ptr[1] \in Sheets /\ state[cache[i].ptr] = "alloc"
         /\ cache[i].size <= CapOf(cache[i].ptr)
         /\ cache[i].ptr \notin plain \cup laundered
         /\ \A j \in DOMAIN cache : cache[j].ptr = cache[i].ptr => i = j
<1>1. cache \in Seq(Entries)
  BY DEF TierInv, TypeOK
<1>2. cache[i] \in Entries
  BY <1>1
<1>3. cache[i].ptr \in Blocks
  BY <1>2 DEF Entries
<1> QED
  BY <1>3 DEF TierInv, CacheKept

\* The cache is not disturbed by a step that leaves its blocks where they are.
LEMMA CacheStays ==
  ASSUME TierInv, cache' = cache, NEW out,
         \A i \in DOMAIN cache : /\ cache[i].ptr[1] \in Sheets' /\ state'[cache[i].ptr] = "alloc"
                                 /\ cache[i].ptr # out,
         plain' \cup laundered' \subseteq (plain \cup laundered) \cup {out}
  PROVE  CacheKept'
<1> SUFFICES ASSUME NEW i \in DOMAIN cache
             PROVE  /\ cache[i].ptr[1] \in Sheets' /\ state'[cache[i].ptr] = "alloc"
                    /\ cache[i].size <= CapOf(cache[i].ptr)
                    /\ cache[i].ptr \notin plain' \cup laundered'
                    /\ \A j \in DOMAIN cache : cache[j].ptr = cache[i].ptr => i = j
  BY DEF CacheKept, CapOf
<1> QED
  BY CacheEntry

\* What launder's slots point to.
LEMMA SlotBlock ==
  ASSUME TierInv, NEW a \in Addrs, NEW n \in Sizes, active[a][n] # 0
  PROVE  /\ a \in Sheets /\ active[a][n] \in Cells(a) /\ <<a, active[a][n]>> \in Blocks
         /\ state[<<a, active[a][n]>>] \in {"temporal", "tomb"}
<1>1. active[a][n] \in Cells(a)
  BY DEF TierInv, TypeOK
<1>2. a \in Sheets
  BY DEF TierInv, Clean
<1> QED
  BY <1>1, <1>2, BlockParts DEF TierInv, ActiveKept

\* mark: a block goes to the caller of push.
LEMMA MarkKeeps ==
  ASSUME TierInv, TypeOK', Registered', NEW a \in Addrs, Grown(a),
         NEW n, NEW k \in Fitting(a, n), Mark(a, k)
  PROVE  TierInv'
<1>1. /\ k \in Cells(a) /\ state[<<a, k>>] = "free" /\ <<a, k>> \in Blocks /\ <<a, k>>[1] = a
      /\ state' = [state EXCEPT ![<<a, k>>] = "alloc"]
      /\ plain' = plain \cup {<<a, k>>} /\ active' = active /\ laundered' = laundered
  BY BlockParts DEF Fitting, Mark
<1>2. /\ ExhaustedMeansFull' /\ NoLingering'
      /\ \A x \in Blocks : state[x] \in {"alloc", "temporal", "tomb"} => state'[x] = state[x]
      /\ \A x \in Addrs \ Sheets' : \A j \in Cells(x) : state'[<<x, j>>] = "free"
      /\ state'[<<a, k>>] = "alloc"
  BY <1>1, HandOutKeeps
<1>3. Sheets \subseteq Sheets' /\ a \in Sheets' /\ cache' = cache
  BY DEF Grown
<1>4. Clean'
  <2>1. \A x \in Addrs \ Sheets', m \in Sizes : active'[x][m] = 0
    BY <1>1, <1>3 DEF TierInv, Clean
  <2> QED
    BY <1>2, <2>1 DEF Clean, Cells
<1>5. ActiveKept'
  <2> SUFFICES ASSUME NEW x \in Addrs, NEW m \in Sizes, active[x][m] # 0
               PROVE  state'[<<x, active[x][m]>>] \in {"temporal", "tomb"}
    BY <1>1 DEF ActiveKept
  <2> QED
    BY <1>2, SlotBlock
<1>6. CacheKept'
  <2>1. \A i \in DOMAIN cache : /\ cache[i].ptr[1] \in Sheets' /\ state'[cache[i].ptr] = "alloc"
                                /\ cache[i].ptr # <<a, k>>
    BY <1>1, <1>2, <1>3, CacheEntry
  <2> QED
    BY <1>1, <1>3, <2>1, CacheStays
<1>7. LiveMapped'
  <2>1. \A x \in plain : x \in Blocks /\ x[1] \in Sheets /\ state[x] = "alloc"
    BY DEF TierInv, LiveMapped, TypeOK
  <2>2. \A x \in plain' : x[1] \in Sheets' /\ state'[x] = "alloc"
    BY <1>1, <1>2, <1>3, <2>1
  <2> QED
    BY <2>2 DEF LiveMapped
<1> QED
  BY <1>2, <1>4, <1>5, <1>6, <1>7 DEF TierInv

\* temporal_mark: a block goes, again or anew, to the caller of launder.
LEMMA TemporalMarkKeeps ==
  ASSUME TierInv, TypeOK', Registered', NEW a \in Addrs, Grown(a),
         NEW n \in Sizes, NEW k \in Cells(a), TemporalMark(a, n, k)
  PROVE  TierInv'
<1>1. /\ <<a, k>> \in Blocks /\ <<a, k>>[1] = a
      /\ laundered' = laundered \cup {<<a, k>>} /\ plain' = plain
  BY BlockParts DEF TemporalMark
<1>2. /\ Sheets \subseteq Sheets' /\ Sheets' \subseteq Sheets \cup {a} /\ a \in Sheets' /\ cache' = cache
      /\ Sheets # {} => chain'[1] = chain[1]
  BY DEF Grown
<1>3. \A x \in plain : x \in Blocks /\ x[1] \in Sheets /\ state[x] = "alloc"
  BY DEF TierInv, LiveMapped, TypeOK
<1>4. CASE active[a][n] # 0
  <2>1. k = active[a][n] /\ state' = state /\ active' = active
    BY <1>4 DEF TemporalMark
  <2>2. a \in Sheets /\ state[<<a, k>>] \in {"temporal", "tomb"}
    BY <1>4, <2>1, SlotBlock
  <2>3. Sheets' = Sheets /\ chain'[1] = chain[1]
    BY <1>2, <2>2
  <2>4. Clean' /\ ActiveKept' /\ LiveMapped'
    BY <1>1, <1>3, <2>1, <2>3 DEF TierInv, Clean, ActiveKept, LiveMapped, Cells
  <2>5. NoLingering'
    BY <2>1, <2>3 DEF TierInv, NoLingering
  <2>6. ExhaustedMeansFull'
    BY <2>1 DEF Grown, ExhaustedMeansFull, Fitting
  <2>7. CacheKept'
    <3>1. \A i \in DOMAIN cache : /\ cache[i].ptr[1] \in Sheets' /\ state'[cache[i].ptr] = "alloc"
                                  /\ cache[i].ptr # <<a, k>>
      BY <2>1, <2>2, <2>3, CacheEntry
    <3> QED
      BY <1>1, <1>2, <3>1, CacheStays
  <2> QED
    BY <2>4, <2>5, <2>6, <2>7 DEF TierInv
<1>5. CASE ~(active[a][n] # 0)
  <2>1. /\ state[<<a, k>>] \in {"free", "parked"}
        /\ state' = [state EXCEPT ![<<a, k>>] = "temporal"]
        /\ active' = [active EXCEPT ![a][n] = k]
    BY <1>5 DEF TemporalMark, FittingTemporal
  <2>2. /\ ExhaustedMeansFull' /\ NoLingering'
        /\ \A x \in Blocks : state[x] \in {"alloc", "temporal", "tomb"} => state'[x] = state[x]
        /\ \A x \in Addrs \ Sheets' : \A j \in Cells(x) : state'[<<x, j>>] = "free"
        /\ state'[<<a, k>>] = "temporal"
    BY <2>1, HandOutKeeps
  <2>3. /\ active'[a][n] = k
        /\ \A x \in Addrs, m \in Sizes : ~(x = a /\ m = n) => active'[x][m] = active[x][m]
    BY <2>1 DEF TierInv, TypeOK
  <2>4. Clean'
    <3>1. \A x \in Addrs \ Sheets', m \in Sizes : active'[x][m] = 0
      BY <1>2, <2>3 DEF TierInv, Clean
    <3> QED
      BY <2>2, <3>1 DEF Clean, Cells
  <2>5. ActiveKept'
    <3> SUFFICES ASSUME NEW x \in Addrs, NEW m \in Sizes, active'[x][m] # 0
                 PROVE  state'[<<x, active'[x][m]>>] \in {"temporal", "tomb"}
      BY DEF ActiveKept
    <3>1. CASE x = a /\ m = n
      BY <2>2, <2>3, <3>1
    <3>2. CASE ~(x = a /\ m = n)
      BY <2>2, <2>3, <3>2, SlotBlock
    <3> QED
      BY <3>1, <3>2
  <2>6. CacheKept'
    <3>1. \A i \in DOMAIN cache : /\ cache[i].ptr[1] \in Sheets' /\ state'[cache[i].ptr] = "alloc"
                                  /\ cache[i].ptr # <<a, k>>
      BY <1>2, <2>1, <2>2, CacheEntry
    <3> QED
      BY <1>1, <1>2, <3>1, CacheStays
  <2>7. LiveMapped'
    <3>1. \A x \in plain' : x[1] \in Sheets' /\ state'[x] = "alloc"
      BY <1>1, <1>2, <1>3, <2>2
    <3> QED
      BY <3>1 DEF LiveMapped
  <2> QED
    BY <2>2, <2>4, <2>5, <2>6, <2>7 DEF TierInv
<1> QED
  BY <1>4, <1>5

\* A free, with the sheets that it lets go.
LEMMA ReleasedKeeps ==
  ASSUME TierInv, NEW b \in Held, NEW s \in BlockStates, NEW act \in Slots,
         NEW gone \in SUBSET Sheets, Released(b, s, act, gone)
  PROVE  TierInv'
<1>1. /\ b \in Blocks /\ b \in plain \cup laundered /\ b[1] \in Sheets /\ b[1] \in Addrs
      /\ b[2] \in Cells(b[1]) /\ b = <<b[1], b[2]>>
  BY HeldIs, BlockParts DEF TierInv
<1>2. /\ TypeOK' /\ Registered' /\ Sheets' = Sheets \ gone /\ chain'[1] = chain[1]
      /\ \A i \in DOMAIN idx' \ bits' :
           \E p \in DOMAIN idx \ bits : idx[p] # b[1] /\ idx'[i] = idx[p]
  BY ReleasedLists DEF TierInv
<1>3. /\ \A x \in Blocks : x # b => s[x] = state[x]
      /\ s[b] \notin {"alloc", "temporal"}
      /\ \A x \in Blocks : state'[x] = IF x[1] \in gone THEN "free" ELSE s[x]
      /\ \A x \in Addrs : active'[x] = IF x \in gone THEN [n \in Sizes |-> 0] ELSE act[x]
      /\ plain' = plain \ {b} /\ laundered' = laundered \ {b} /\ cache' = cache
      /\ \A x \in gone : x # chain[1] /\ Used(s, x) = {}
  BY DEF Released, Fresh, FreshActive, LetGo, Drained
<1>4. \A x \in Addrs : x # b[1] => \A k \in Cells(x) : s[<<x, k>>] = state[<<x, k>>]
  <2> SUFFICES ASSUME NEW x \in Addrs, x # b[1], NEW k \in Cells(x)
               PROVE  s[<<x, k>>] = state[<<x, k>>]
    OBVIOUS
  <2>1. <<x, k>> \in Blocks /\ <<x, k>> # b
    BY <1>1, BlockParts, BlockApart
  <2> QED
    BY <1>3, <2>1
<1>5. \A x \in Addrs : \A k \in Cells(x) :
        state'[<<x, k>>] = IF x \in gone THEN "free" ELSE s[<<x, k>>]
  BY <1>3, BlockParts
<1>6. ASSUME NEW x \in Blocks, x # b, x[1] \in Sheets, state[x] = "alloc"
      PROVE  x[1] \in Sheets' /\ state'[x] = "alloc"
  <2>1. s[x] = "alloc"
    BY <1>3, <1>6
  <2>2. x[2] \in Used(s, x[1])
    <3>1. x[2] \in Cells(x[1]) /\ x = <<x[1], x[2]>>
      BY BlockParts
    <3> QED
      BY <2>1, <3>1 DEF Used
  <2>3. x[1] \notin gone
    BY <1>3, <2>2
  <2> QED
    BY <1>2, <1>3, <1>6, <2>1, <2>3
<1>7. Clean'
  <2> SUFFICES ASSUME NEW x \in Addrs \ Sheets'
               PROVE  /\ \A k \in Cells(x) : state'[<<x, k>>] = "free"
                      /\ \A n \in Sizes : active'[x][n] = 0
    BY DEF Clean, Cells
  <2>1. CASE x \in gone
    BY <1>3, <1>5, <2>1
  <2>2. CASE x \notin gone
    <3>1. x \notin Sheets /\ x # b[1]
      BY <1>1, <1>2, <2>2
    <3>2. \A k \in Cells(x) : s[<<x, k>>] = "free"
      BY <1>4, <3>1 DEF TierInv, Clean
    <3>3. \A n \in Sizes : act[x][n] = 0
      BY <3>1 DEF TierInv, Clean, Released
    <3> QED
      BY <1>3, <1>5, <2>2, <3>2, <3>3
  <2> QED
    BY <2>1, <2>2
<1>8. ActiveKept'
  <2> SUFFICES ASSUME NEW x \in Addrs, NEW n \in Sizes, active'[x][n] # 0
               PROVE  state'[<<x, active'[x][n]>>] \in {"temporal", "tomb"}
    BY DEF ActiveKept
  <2>1. x \notin gone /\ active'[x][n] = act[x][n]
    BY <1>3
  <2>2. PICK k \in Nat : k = act[x][n]
    BY DEF Slots
  <2>3. k # 0 /\ k = active[x][n]
    BY <2>1, <2>2 DEF Released
  <2>4. k \in Cells(x) /\ <<x, k>> \in Blocks /\ state[<<x, k>>] \in {"temporal", "tomb"}
    BY <2>3, SlotBlock
  <2>5. s[<<x, k>>] \in {"temporal", "tomb"}
    <3>1. CASE <<x, k>> = b
      <4>1. x = b[1] /\ k = b[2]
        BY <1>1, <3>1, BlockParts, <2>4
      <4>2. s = Tombed(b)
        BY <2>2, <4>1 DEF Released
      <4>3. s[b] = "tomb"
        BY <1>1, <1>3, <2>4, <3>1, <4>2 DEF Tombed, TierInv, TypeOK
      <4> QED
        BY <3>1, <4>3
    <3>2. CASE <<x, k>> # b
      BY <1>3, <2>4, <3>2
    <3> QED
      BY <3>1, <3>2
  <2>6. state'[<<x, k>>] = s[<<x, k>>]
    BY <1>5, <2>1, <2>4
  <2> QED
    BY <2>1, <2>2, <2>5, <2>6
<1>9. CacheKept'
  <2>1. \A i \in DOMAIN cache : cache[i].ptr # b
    BY <1>1, CacheEntry
  <2>2. \A i \in DOMAIN cache : /\ cache[i].ptr[1] \in Sheets' /\ state'[cache[i].ptr] = "alloc"
                                /\ cache[i].ptr # b
    BY <1>6, <2>1, CacheEntry
  <2> QED
    BY <1>3, <2>2, CacheStays
<1>10. LiveMapped'
  <2>1. \A x \in plain : x \in Blocks /\ x[1] \in Sheets /\ state[x] = "alloc"
    BY DEF TierInv, LiveMapped, TypeOK
  <2>2. \A x \in plain' : x[1] \in Sheets' /\ state'[x] = "alloc"
    BY <1>3, <1>6, <2>1
  <2> QED
    BY <2>2 DEF LiveMapped
<1>11. ExhaustedMeansFull'
  <2> SUFFICES ASSUME NEW i \in DOMAIN idx' \ bits'
               PROVE  \E n \in Sizes : Fitting(idx[i], n)' = {}
    BY DEF ExhaustedMeansFull
  <2>1. PICK p \in DOMAIN idx \ bits : idx[p] # b[1] /\ idx'[i] = idx[p]
    BY <1>2
  <2>2. idx'[i] \in Sheets' /\ idx'[i] \in Addrs
    BY <1>2 DEF Registered, ToSet, TypeOK
  <2>3. PICK x \in Addrs : x = idx[p] /\ x = idx'[i] /\ x \in Sheets'
    BY <2>1, <2>2
  <2>4. x \notin gone /\ x # b[1]
    BY <1>2, <2>1, <2>3
  <2>5. PICK n \in Sizes : Fitting(x, n) = {}
    BY <2>3 DEF TierInv, ExhaustedMeansFull
  <2>6. {j \in Cells(x) : Cap[x][j] >= n /\ state'[<<x, j>>] = "free"} = {}
    BY <1>4, <1>5, <2>4, <2>5 DEF Fitting
  <2> QED
    BY <2>3, <2>6 DEF Fitting, Cells
<1>12. NoLingering'
  <2> SUFFICES ASSUME NEW x \in Sheets', x # chain'[1], Used(state', x) = {}
               PROVE  Reusable(state', x)
    BY DEF NoLingering, Reusable
  <2>1. x \in Sheets /\ x \notin gone /\ x # chain[1]
    BY <1>2
  <2>2. x \in Addrs
    BY <2>1 DEF TierInv, TypeOK, Sheets, ToSet
  <2>3. \A k \in Cells(x) : state'[<<x, k>>] = s[<<x, k>>]
    BY <1>5, <2>1, <2>2
  <2>4. Used(state', x) = Used(s, x) /\ (Reusable(state', x) <=> Reusable(s, x))
    BY <2>2, <2>3, SheetAlike
  <2>5. Used(s, x) = {}
    BY <2>4
  <2>6. CASE x # b[1]
    <3>1. Used(s, x) = Used(state, x) /\ (Reusable(s, x) <=> Reusable(state, x))
      BY <1>4, <2>2, <2>6, SheetAlike
    <3> QED
      BY <2>1, <2>4, <2>5, <3>1 DEF TierInv, NoLingering, Reusable
  <2>7. CASE x = b[1]
    <3>1. ~MostlyTomb(s, x) /\ s = Tombed(b)
      BY <2>1, <2>5, <2>7 DEF Released, Drained
    <3>2. CASE IsBlockAllocated(b)
      <4>1. s[b] = "tomb"
        BY <1>1, <3>1, <3>2 DEF Tombed, TierInv, TypeOK
      <4>2. \E k \in Cells(x) : s[<<x, k>>] = "tomb"
        BY <1>1, <2>7, <4>1
      <4> QED
        BY <2>4, <3>1, <4>2 DEF Reusable
    <3>3. CASE ~IsBlockAllocated(b)
      <4>1. s = state
        BY <3>1, <3>3 DEF Tombed
      <4> QED
        BY <2>1, <2>4, <2>5, <4>1 DEF TierInv, NoLingering, Reusable
    <3> QED
      BY <3>2, <3>3
  <2> QED
    BY <2>6, <2>7
<1> QED
  BY <1>2, <1>7, <1>8, <1>9, <1>10, <1>11, <1>12 DEF TierInv

\* Steps of the cache and its callers alone.
LEMMA SheetsStay ==
  ASSUME TierInv, UNCHANGED <<chain, idx, bits, lastHit, state, active>>
  PROVE  Clean' /\ ActiveKept' /\ ExhaustedMeansFull' /\ NoLingering' /\ Sheets' = Sheets
<1>1. Sheets' = Sheets
  BY DEF Sheets
<1>2. Clean' /\ ActiveKept'
  BY <1>1 DEF TierInv, Clean, ActiveKept, Cells
<1>3. ExhaustedMeansFull'
  BY DEF TierInv, ExhaustedMeansFull, Fitting, Cells
<1>4. NoLingering'
  BY <1>1 DEF TierInv, NoLingering
<1> QED
  BY <1>1, <1>2, <1>3, <1>4

\* push served from the cache: the entry leaves it, and only this one.
LEMMA PushCachedKeeps ==
  ASSUME TierInv, TypeOK', Registered', NEW n \in Sizes, PushCached(n)
  PROVE  TierInv'
<1>1. cache \in Seq(Entries) /\ Len(cache) \in Nat /\ DOMAIN cache = 1 .. Len(cache)
  BY DEF TierInv, TypeOK
<1>2. PICK i \in DOMAIN cache : i = Max(Probe(n))
  BY ProbeIs DEF PushCached, TierInv
<1>3. PICK c \in Seq(Entries) :
        /\ c = PopAt(i) /\ Len(c) = Len(cache) - 1
        /\ \A j \in 1 .. (Len(cache) - 1) : c[j] = cache[IF j = i THEN Len(cache) ELSE j]
  BY <1>1, PopAtIs
<1>4. PICK b \in Blocks : b = cache[i].ptr
  BY CacheEntry
<1>5. cache' = c /\ plain' = plain \cup {b} /\ laundered' = laundered
  BY <1>2, <1>3, <1>4 DEF PushCached
<1>6. UNCHANGED <<chain, idx, bits, lastHit, state, active>>
  BY DEF PushCached
<1>7. Clean' /\ ActiveKept' /\ ExhaustedMeansFull' /\ NoLingering' /\ Sheets' = Sheets
  BY <1>6, SheetsStay
<1>8. LiveMapped'
  <2>1. b[1] \in Sheets /\ state[b] = "alloc"
    BY <1>4, CacheEntry
  <2>2. \A x \in plain' : x[1] \in Sheets' /\ state'[x] = "alloc"
    BY <1>5, <1>6, <1>7, <2>1 DEF TierInv, LiveMapped
  <2> QED
    BY <2>2 DEF LiveMapped
<1>9. CacheKept'
  <2> DEFINE from(j) == IF j = i THEN Len(cache) ELSE j
  <2>1. \A j \in DOMAIN cache' : /\ j \in 1 .. (Len(cache) - 1) /\ from(j) \in DOMAIN cache
                                 /\ from(j) # i /\ cache'[j] = cache[from(j)]
    BY <1>1, <1>3, <1>5
  <2>2. \A j, l \in DOMAIN cache' : from(j) = from(l) => j = l
    BY <1>1, <1>3, <1>5
  <2> HIDE DEF from
  <2> SUFFICES ASSUME NEW j \in DOMAIN cache'
               PROVE  /\ cache'[j].ptr[1] \in Sheets' /\ state'[cache'[j].ptr] = "alloc"
                      /\ cache'[j].size <= CapOf(cache'[j].ptr)
                      /\ cache'[j].ptr \notin plain' \cup laundered'
                      /\ \A l \in DOMAIN cache' : cache'[l].ptr = cache'[j].ptr => j = l
    BY DEF CacheKept, CapOf
  <2>3. PICK f \in DOMAIN cache : f = from(j) /\ f # i /\ cache'[j] = cache[f]
    BY <2>1
  <2>4. /\ cache[f].ptr[1] \in Sheets /\ state[cache[f].ptr] = "alloc"
        /\ cache[f].size <= CapOf(cache[f].ptr)
        /\ cache[f].ptr \notin plain \cup laundered
        /\ \A l \in DOMAIN cache : cache[l].ptr = cache[f].ptr => f = l
    BY CacheEntry
  <2>5. cache[f].ptr # b
    BY <1>4, <2>3, <2>4
  <2>6. ASSUME NEW l \in DOMAIN cache', cache'[l].ptr = cache'[j].ptr
        PROVE  j = l
    <3>1. from(l) \in DOMAIN cache /\ cache[from(l)].ptr = cache[f].ptr
      BY <2>1, <2>3, <2>6
    <3>2. from(l) = from(j)
      BY <2>3, <2>4, <3>1
    <3> QED
      BY <2>2, <3>2
  <2> QED
    BY <1>5, <1>6, <1>7, <2>3, <2>4, <2>5, <2>6
<1> QED
  BY <1>7, <1>8, <1>9 DEF TierInv

\* A freed block goes on the cache instead of to its sheet.
LEMMA CachePushKeeps ==
  ASSUME TierInv, TypeOK', Registered', NEW b \in Held, NEW n \in Nat, n <= CapOf(b),
         state[b] = "alloc", Room, CachePush(b, n)
  PROVE  TierInv'
<1>1. b \in Blocks /\ b \in plain \cup laundered /\ b[1] \in Sheets
  BY HeldIs DEF TierInv
<1>2. /\ Len(cache') = Len(cache) + 1
      /\ cache'[Len(cache) + 1] = [ptr |-> b, size |-> n]
      /\ \A i \in 1 .. Len(cache) : cache'[i] = cache[i]
  BY <1>1, CachePushIs DEF TierInv
<1>3. /\ Len(cache) \in Nat /\ DOMAIN cache = 1 .. Len(cache) /\ DOMAIN cache' = 1 .. (Len(cache) + 1)
  BY <1>2 DEF TierInv, TypeOK
<1>4. plain' = plain \ {b} /\ laundered' = laundered \ {b}
      /\ UNCHANGED <<chain, idx, bits, lastHit, state, active>>
  BY DEF CachePush, LetGo
<1>5. Clean' /\ ActiveKept' /\ ExhaustedMeansFull' /\ NoLingering' /\ Sheets' = Sheets
  BY <1>4, SheetsStay
<1>6. LiveMapped'
  BY <1>4, <1>5 DEF TierInv, LiveMapped
<1>7. CacheKept'
  <2>1. \A i \in DOMAIN cache' : (i \in DOMAIN cache /\ cache'[i] = cache[i]) \/ i = Len(cache) + 1
    BY <1>2, <1>3
  <2>2. cache'[Len(cache) + 1].ptr = b /\ cache'[Len(cache) + 1].size = n
    BY <1>2
  <2>3. \A i \in DOMAIN cache : cache[i].ptr # b
    BY <1>1, CacheEntry
  <2> SUFFICES ASSUME NEW j \in DOMAIN cache'
               PROVE  /\ cache'[j].ptr[1] \in Sheets' /\ state'[cache'[j].ptr] = "alloc"
                      /\ cache'[j].size <= CapOf(cache'[j].ptr)
                      /\ cache'[j].ptr \notin plain' \cup laundered'
                      /\ \A l \in DOMAIN cache' : cache'[l].ptr = cache'[j].ptr => j = l
    BY DEF CacheKept, CapOf
  <2>4. CASE j \in DOMAIN cache /\ cache'[j] = cache[j]
    <3>1. /\ cache[j].ptr[1] \in Sheets /\ state[cache[j].ptr] = "alloc"
          /\ cache[j].size <= CapOf(cache[j].ptr)
          /\ cache[j].ptr \notin plain \cup laundered
          /\ \A l \in DOMAIN cache : cache[l].ptr = cache[j].ptr => j = l
      BY <2>4, CacheEntry
    <3>2. \A l \in DOMAIN cache' : cache'[l].ptr = cache'[j].ptr => j = l
      BY <2>1, <2>2, <2>3, <2>4, <3>1
    <3> QED
      BY <1>4, <1>5, <2>4, <3>1, <3>2
  <2>5. CASE j = Len(cache) + 1
    <3>1. \A l \in DOMAIN cache' : cache'[l].ptr = cache'[j].ptr => j = l
      BY <2>1, <2>2, <2>3, <2>5
    <3> QED
      BY <1>1, <1>4, <1>5, <2>2, <2>5, <3>1
  <2> QED
    BY <2>1, <2>4, <2>5
<1> QED
  BY <1>5, <1>6, <1>7 DEF TierInv

\* What there is for a request where no sheet offers anything.
LEMMA NoOffers ==
  ASSUME TierInv, NEW n \in Sizes, Offers(n) = {} \/ TemporalOffers(n) = {}
  PROVE  \A p \in DOMAIN idx : \E m \in Sizes : Fitting(idx[p], m) = {}
<1> SUFFICES ASSUME NEW p \in DOMAIN idx
             PROVE  \E m \in Sizes : Fitting(idx[p], m) = {}
  OBVIOUS
<1>1. CASE p \notin bits
  BY <1>1 DEF TierInv, ExhaustedMeansFull
<1>2. CASE p \in bits
  <2>1. Fitting(idx[p], n) \subseteq FittingTemporal(idx[p], n)
    BY DEF Fitting, FittingTemporal
  <2>2. Fitting(idx[p], n) = {}
    BY <1>2, <2>1 DEF Offers, TemporalOffers
  <2> QED
    BY <2>2
<1> QED
  BY <1>1, <1>2

\* A sheet that has been registered serves.
LEMMA ExpandGrown ==
  ASSUME TierInv, NEW a \in Addrs, Expand(a), cache' = cache, NEW n \in Sizes,
         Offers(n) = {} \/ TemporalOffers(n) = {}
  PROVE  Grown(a)
<1>1. /\ Sheets' = Sheets \cup {a} /\ (Sheets # {} => chain'[1] = chain[1])
      /\ \A i \in DOMAIN idx' \ bits' : \E p \in DOMAIN idx : idx'[i] = idx[p]
  BY ExpandEffect DEF TierInv
<1>2. ASSUME NEW i \in DOMAIN idx' \ bits'
      PROVE  \E m \in Sizes : Fitting(idx'[i], m) = {}
  <2>1. PICK p \in DOMAIN idx : idx'[i] = idx[p]
    BY <1>1
  <2>2. PICK m \in Sizes : Fitting(idx[p], m) = {}
    BY NoOffers
  <2> QED
    BY <2>1, <2>2
<1> QED
  BY <1>1, <1>2 DEF Grown

\* So does a sheet that offered; the bits lost are those of sheets that did not.
LEMMA InsertGrown ==
  ASSUME TierInv, NEW n \in Sizes, NEW offers \in SUBSET bits, offers # {},
         \A p \in bits \ offers : Fitting(idx[p], n) = {},
         bits' = BitsAfter(offers), lastHit' = Pick(offers), UNCHANGED <<chain, idx, cache>>
  PROVE  idx[Pick(offers)] \in Addrs /\ Grown(idx[Pick(offers)])
<1>1. /\ Sheets' = Sheets /\ Pick(offers) \in offers
      /\ idx[Pick(offers)] \in Sheets /\ idx[Pick(offers)] \in Addrs
      /\ \A i \in DOMAIN idx' \ bits' : i \in DOMAIN idx /\ i \notin offers /\ idx'[i] = idx[i]
  BY InsertLists DEF TierInv
<1>2. ASSUME NEW i \in DOMAIN idx' \ bits'
      PROVE  \E m \in Sizes : Fitting(idx'[i], m) = {}
  <2>1. i \in DOMAIN idx /\ i \notin offers /\ idx'[i] = idx[i]
    BY <1>1
  <2>2. \E m \in Sizes : Fitting(idx[i], m) = {}
    BY <2>1 DEF TierInv, ExhaustedMeansFull
  <2> QED
    BY <2>1, <2>2
<1> QED
  BY <1>1, <1>2 DEF Grown

-----------------------------------------------------------------------------
(* The invariant holds where callers free with a size only what push gave  *)
(* them                                                                    *)

\* The invariant holds of an empty tier.
LEMMA TierInit == Init => TierInv
<1> SUFFICES ASSUME Init
             PROVE  TierInv
  OBVIOUS
<1>1. TypeOK /\ Registered
  BY IndexInit
<1>2. Clean
  <2>1. \A a \in Addrs : \A k \in Cells(a) : <<a, k>> \in Blocks
    BY BlockParts
  <2> QED
    BY <2>1 DEF Init, Clean
<1>3. ActiveKept /\ CacheKept /\ LiveMapped
  BY DEF Init, ActiveKept, CacheKept, LiveMapped
<1>4. Sheets = {} /\ DOMAIN idx = {}
  BY DEF Init, Sheets, ToSet
<1>5. ExhaustedMeansFull /\ NoLingering
  BY <1>4 DEF ExhaustedMeansFull, NoLingering
<1> QED
  BY <1>1, <1>2, <1>3, <1>5 DEF TierInv

\* Every step keeps the invariant.
LEMMA TierStep ==
  ASSUME ~SizedLaunder, TierInv, [Next]_vars
  PROVE  TierInv'
<1>0. TypeOK' /\ Registered'
  BY IndexStep DEF TierInv
<1>1. ASSUME NEW n \in Sizes, PushCached(n)
      PROVE  TierInv'
  BY <1>0, <1>1, PushCachedKeeps
<1>2. ASSUME NEW n \in Sizes, PushInsert(n)
      PROVE  TierInv'
  <2>1. \A p \in bits \ Offers(n) : Fitting(idx[p], n) = {}
    BY DEF Offers
  <2>2. idx[Pick(Offers(n))] \in Addrs /\ Grown(idx[Pick(Offers(n))])
    BY <1>2, <2>1, InsertGrown, OffersAre DEF PushInsert
  <2>3. PICK a \in Addrs : a = idx[Pick(Offers(n))] /\ Grown(a)
    BY <2>2
  <2>4. PICK k \in Fitting(a, n) : Mark(a, k)
    BY <1>2, <2>3 DEF PushInsert
  <2> QED
    BY <1>0, <2>3, <2>4, MarkKeeps
<1>3. ASSUME NEW n \in Sizes, PushExpand(n)
      PROVE  TierInv'
  <2>1. PICK a \in Addrs : Expand(a) /\ \E k \in Fitting(a, n) : Mark(a, k)
    BY <1>3 DEF PushExpand
  <2>2. PICK k \in Fitting(a, n) : Mark(a, k)
    BY <2>1
  <2>3. Grown(a)
    BY <1>3, <2>1, ExpandGrown DEF PushExpand
  <2> QED
    BY <1>0, <2>2, <2>3, MarkKeeps
<1>4. ASSUME NEW n \in Sizes, Launder(n)
      PROVE  TierInv'
  <2>1. \A p \in bits \ TemporalOffers(n) : Fitting(idx[p], n) = {}
    BY DEF TemporalOffers, FittingTemporal, Fitting
  <2>2. idx[Pick(TemporalOffers(n))] \in Addrs /\ Grown(idx[Pick(TemporalOffers(n))])
    BY <1>4, <2>1, InsertGrown, OffersAre DEF Launder
  <2>3. PICK a \in Addrs : a = idx[Pick(TemporalOffers(n))] /\ Grown(a)
    BY <2>2
  <2>4. PICK k \in Cells(a) : TemporalMark(a, n, k)
    BY <1>4, <2>3 DEF Launder
  <2> QED
    BY <1>0, <2>3, <2>4, TemporalMarkKeeps
<1>5. ASSUME NEW n \in Sizes, LaunderExpand(n)
      PROVE  TierInv'
  <2>1. PICK a \in Addrs : Expand(a) /\ \E k \in Cells(a) : TemporalMark(a, n, k)
    BY <1>5 DEF LaunderExpand
  <2>2. PICK k \in Cells(a) : TemporalMark(a, n, k)
    BY <2>1
  <2>3. Grown(a)
    BY <1>5, <2>1, ExpandGrown DEF LaunderExpand
  <2> QED
    BY <1>0, <2>2, <2>3, TemporalMarkKeeps
<1>6. ASSUME NEW n \in Sizes, ExpandFail(n)
      PROVE  TierInv'
  <2>1. bits' = {} /\ UNCHANGED <<chain, idx, lastHit, state, active, cache, plain, laundered>>
    BY <1>6 DEF ExpandFail
  <2>2. \A p \in DOMAIN idx : \E m \in Sizes : Fitting(idx[p], m) = {}
    BY <1>6, NoOffers DEF ExpandFail
  <2>3. ExhaustedMeansFull'
    BY <2>1, <2>2 DEF ExhaustedMeansFull, Fitting, Cells
  <2>4. Sheets' = Sheets
    BY <2>1 DEF Sheets
  <2>5. Clean' /\ ActiveKept' /\ CacheKept' /\ LiveMapped'
    BY <2>1, <2>4 DEF TierInv, Clean, ActiveKept, CacheKept, LiveMapped, Cells, CapOf
  <2>6. NoLingering'
    BY <2>1, <2>4 DEF TierInv, NoLingering
  <2> QED
    BY <1>0, <2>3, <2>5, <2>6 DEF TierInv
<1>7. ASSUME NEW b \in Held, TierRemove(b)
      PROVE  TierInv'
  BY <1>7, RemoveReleases, ReleasedKeeps DEF TierInv
<1>8. ASSUME NEW b \in Held, TsPop(b)
      PROVE  TierInv'
  BY <1>8, TombReleases, ReleasedKeeps DEF TsPop, TierInv
<1>9. ASSUME NEW b \in Held, PopPtr(b)
      PROVE  TierInv'
  <2>1. CASE state[b] # "temporal" /\ Room
    <3>1. CachePush(b, CapOf(b)) /\ state[b] = "alloc"
      BY <1>9, <2>1 DEF PopPtr, Refused, IsBlockAllocated
    <3>2. CapOf(b) \in Nat /\ CapOf(b) <= CapOf(b)
      BY HeldIs, CapIsNumber DEF TierInv
    <3> QED
      BY <1>0, <2>1, <3>1, <3>2, CachePushKeeps
  <2>2. CASE ~(state[b] # "temporal" /\ Room)
    BY <1>7, <1>9, <2>2 DEF PopPtr
  <2> QED
    BY <2>1, <2>2
<1>10. ASSUME NEW b \in Held, NEW n \in Sizes, b \in plain \/ SizedLaunder, PopSized(b, n)
       PROVE  TierInv'
  <2>1. CASE Room
    <3>1. CachePush(b, Min({n, CapOf(b)}))
      BY <1>10, <2>1 DEF PopSized
    <3>2. CapOf(b) \in Nat /\ n \in Nat
      BY HeldIs, CapIsNumber, TierAssumption DEF TierInv
    <3>3. Min({n, CapOf(b)}) \in Nat /\ Min({n, CapOf(b)}) <= CapOf(b)
      BY <3>2, MinOfTwo
    <3>4. PICK m \in Nat : m = Min({n, CapOf(b)})
      BY <3>3
    <3>5. state[b] = "alloc"
      BY <1>10 DEF TierInv, LiveMapped
    <3> QED
      BY <1>0, <2>1, <3>1, <3>3, <3>4, <3>5, CachePushKeeps
  <2>2. CASE ~Room
    BY <1>7, <1>10, <2>2 DEF PopSized
  <2> QED
    BY <2>1, <2>2
<1>11. ASSUME NEW b \in Held, Refuse(b)
       PROVE  TierInv'
  <2>1. /\ plain' = plain \ {b} /\ laundered' = laundered \ {b} /\ cache' = cache
        /\ UNCHANGED <<chain, idx, bits, lastHit, state, active>>
    BY <1>11 DEF Refuse, LetGo
  <2>2. Clean' /\ ActiveKept' /\ ExhaustedMeansFull' /\ NoLingering' /\ Sheets' = Sheets
    BY <2>1, SheetsStay
  <2>3. LiveMapped' /\ CacheKept'
    BY <2>1, <2>2 DEF TierInv, LiveMapped, CacheKept, CapOf
  <2> QED
    BY <1>0, <2>2, <2>3 DEF TierInv
<1>12. CASE UNCHANGED vars
  <2>1. /\ plain' = plain /\ laundered' = laundered /\ cache' = cache
        /\ UNCHANGED <<chain, idx, bits, lastHit, state, active>>
    BY <1>12 DEF vars
  <2>2. Clean' /\ ActiveKept' /\ ExhaustedMeansFull' /\ NoLingering' /\ Sheets' = Sheets
    BY <2>1, SheetsStay
  <2>3. LiveMapped' /\ CacheKept'
    BY <2>1, <2>2 DEF TierInv, LiveMapped, CacheKept, CapOf
  <2> QED
    BY <1>0, <2>2, <2>3 DEF TierInv
<1> QED
  BY <1>1, <1>2, <1>3, <1>4, <1>5, <1>6, <1>8, <1>9, <1>10, <1>11, <1>12 DEF Next

\* The invariant holds always.
LEMMA TierKept ==
  ASSUME ~SizedLaunder
  PROVE  Spec => []TierInv
<1>1. Init => TierInv
  BY TierInit
<1>2. TierInv /\ [Next]_vars => TierInv'
  BY TierStep
<1> QED
  BY <1>1, <1>2, PTL DEF Spec

(***************************************************************************)
(* A sheet whose space bit is clear could not serve some request, although *)
(* bits move with every sheet that is registered or unregistered: a search *)
(* that skips it misses nothing it should have found.                      *)
(***************************************************************************)
THEOREM SpaceBitsAreRight ==
  ASSUME ~SizedLaunder
  PROVE  Spec => []ExhaustedMeansFull
<1>1. TierInv => ExhaustedMeansFull
  BY DEF TierInv
<1> QED
  BY <1>1, TierKept, PTL

(***************************************************************************)
(* The free cache holds each block once, allocated, held by nobody and on  *)
(* a mapped sheet, with a size it really has.                              *)
(***************************************************************************)
THEOREM CacheIsSound ==
  ASSUME ~SizedLaunder
  PROVE  Spec => []CacheSound
<1>1. TierInv => CacheSound
  BY DEF TierInv, CacheKept, CacheSound, IsBlockAllocated
<1> QED
  BY <1>1, TierKept, PTL

(***************************************************************************)
(* No free, retire or sweep unmaps a sheet on which an allocation lives,   *)
(* nor changes the state of its block.                                     *)
(***************************************************************************)
THEOREM LiveStaysMapped ==
  ASSUME ~SizedLaunder
  PROVE  Spec => []LiveMapped
<1>1. TierInv => LiveMapped
  BY DEF TierInv
<1> QED
  BY <1>1, TierKept, PTL

(***************************************************************************)
(* The release that drains a sheet decides about it at once: a drained     *)
(* sheet stays only because most of it has never been tombstoned.          *)
(***************************************************************************)
THEOREM NothingLingers ==
  ASSUME ~SizedLaunder
  PROVE  Spec => []NoLingering
<1>1. TierInv => NoLingering
  BY DEF TierInv
<1> QED
  BY <1>1, TierKept, PTL
=============================================================================
