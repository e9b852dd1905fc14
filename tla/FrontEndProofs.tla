------------------------- MODULE FrontEndProofs -------------------------
(***************************************************************************)
(* Theorems about what a caller of the allocator meets first: the registry *)
(* of external ranges, the public calls over it, and the doctor's ledger.  *)
(*                                                                         *)
(* Registry: RegistrySound is inductive as it stands.  The fast path of    *)
(* register_external needs three of its parts together: the counter says   *)
(* that no slot is in use (CountsExact), so no mark is above zero          *)
(* (MarksCover), so resetting the head page loses nothing.                 *)
(*                                                                         *)
(* Public calls: the inductive invariant ApiInv says what the memory of a  *)
(* block that is held looks like to the calls that read it back (Sheet,    *)
(* Handle, Kept), and Beyond that no registered range lies in the sheet.   *)
(*                                                                         *)
(* Ledger: LedgerInv says that every probe ends at its record, that the    *)
(* counters count, and which reports are still to come.  Refilling a table *)
(* is a recursive function, followed slot by slot (Carried).               *)
(***************************************************************************)
EXTENDS PublicApi, DoctorLedger, WellFoundedInduction, FiniteSetTheorems, TLAPS

\* A nonempty set of natural numbers has a smallest member.
LEMMA HasSmallest ==
  ASSUME NEW S \in SUBSET Nat, S # {}
  PROVE  \E h \in S : \A i \in S : h <= i
<1> DEFINE R == OpToRel(<, Nat)
<1>1. IsWellFoundedOn(R, Nat)
  BY NatLessThanWellFounded
<1>2. PICK x \in S : \A y \in S : ~(<<y, x>> \in R)
  <2> HIDE DEF R
  <2> QED
    BY <1>1, WFMin
<1>3. ASSUME NEW y \in S
      PROVE  x <= y
  <2>1. x \in Nat /\ y \in Nat
    OBVIOUS
  <2>2. ~(y < x)
    BY <1>2, <2>1 DEF OpToRel
  <2> QED
    BY <2>1, <2>2
<1> QED
  BY <1>3

\* A nonempty set of numbers up to k has a largest member.
LEMMA HasLargest ==
  ASSUME NEW k \in Nat, NEW S \in SUBSET (0..k), S # {}
  PROVE  \E h \in S : \A i \in S : i <= h
<1> DEFINE T == {j \in 0..k : k - j \in S}
<1>1. PICK i \in S : TRUE
  OBVIOUS
<1>2. k - i \in T
  <2>1. k - i \in 0..k /\ k - (k - i) = i
    OBVIOUS
  <2> QED
    BY <2>1
<1>3. PICK x \in T : \A y \in T : x <= y
  <2>1. T \in SUBSET Nat
    OBVIOUS
  <2>2. T # {}
    BY <1>2
  <2> HIDE DEF T
  <2> QED
    BY <2>1, <2>2, HasSmallest
<1>4. k - x \in S /\ x \in 0..k
  OBVIOUS
<1>5. ASSUME NEW j \in S
      PROVE  j <= k - x
  <2>1. j \in 0..k /\ k - j \in 0..k /\ k - (k - j) = j
    OBVIOUS
  <2>2. k - j \in T
    BY <2>1
  <2> QED
    BY <1>3, <1>4, <2>1, <2>2
<1> QED
  BY <1>4, <1>5

AllSlots == PageIds \X Index
Filled(p) == {i \in Index : slot[p][i] # Null}

\* What callers pass are addresses and lengths.
LEMMA Arguments ==
  ASSUME NEW b \in Bases, NEW n \in Lens, Bounds(b, n)
  PROVE  /\ b \in 1..Top /\ n \in 1..Top /\ b + n <= Top /\ (b + n) % (Top + 1) = b + n
         /\ [base |-> b, len |-> n] \in RangeRec /\ [base |-> b, len |-> n] # Null
<1>1. b \in 0..Top /\ n \in 0..Top /\ Top \in Nat
  BY RegistryAssumption
<1>2. b \in 1..Top /\ n \in 1..Top /\ b + n <= Top
  BY <1>1 DEF Bounds
<1>3. (b + n) % (Top + 1) = b + n
  BY <1>1, <1>2
<1> QED
  BY <1>2, <1>3 DEF RangeRec, Null

\* A trimmed mark lies below the slot that is emptied and covers what is left.
LEMMA TrimmedCovers ==
  ASSUME TypeOK, NEW c \in AllSlots, c[2] = high_water[c[1]]
  PROVE  /\ Trimmed(c) \in 0..Capacity /\ Trimmed(c) < c[2]
         /\ \A i \in Index : Trimmed(c) < i /\ i < c[2] => slot[c[1]][i] = Null
         /\ Trimmed(c) > 0 => slot[c[1]][Trimmed(c)] # Null
<1> DEFINE p == c[1]
           Good(h) == /\ h < c[2] /\ \A i \in Index : h < i /\ i < c[2] => slot[p][i] = Null
                      /\ h > 0 => slot[p][h] # Null
           S == {h \in 0..(c[2] - 1) : h > 0 => slot[p][h] # Null}
<1>1. c[2] \in Nat /\ c[2] >= 1 /\ c[2] <= Capacity /\ Capacity \in Nat
  BY RegistryAssumption DEF AllSlots, Index
<1>2. S \in SUBSET (0..(c[2] - 1)) /\ c[2] - 1 \in Nat /\ 0 \in S
  BY <1>1
<1>3. PICK h \in S : \A i \in S : i <= h
  <2> HIDE DEF S
  <2> QED
    BY <1>2, HasLargest
<1>4. h \in 0..Capacity /\ Good(h)
  <2>1. h \in 0..Capacity /\ h < c[2]
    BY <1>1
  <2>2. ASSUME NEW i \in Index, h < i, i < c[2], slot[p][i] # Null
        PROVE  FALSE
    <3>1. i \in 0..(c[2] - 1)
      BY <1>1, <2>2 DEF Index
    <3>2. i \in S
      BY <3>1, <2>2
    <3>3. i \in Nat /\ h \in Nat /\ i <= h
      BY <3>1, <3>2, <1>3, <2>1
    <3> QED
      BY <3>3, <2>2
  <2> QED
    BY <2>1, <2>2
<1>5. Trimmed(c) = CHOOSE x \in 0..Capacity : Good(x)
  BY DEF Trimmed
<1> HIDE DEF Good
<1>6. Trimmed(c) \in 0..Capacity /\ Good(Trimmed(c))
  BY <1>4, <1>5
<1> QED
  BY <1>6 DEF Good

\* The slots are finitely many, and so are those in use.
LEMMA Finite ==
  ASSUME TypeOK
  PROVE  IsFiniteSet(Occupied) /\ \A p \in PageIds : IsFiniteSet(Filled(p))
<1>1. IsFiniteSet(PageIds) /\ IsFiniteSet(Index)
  BY RegistryAssumption, FS_Interval DEF PageIds, Index
<1>2. IsFiniteSet(PageIds \X Index)
  BY <1>1, FS_Product
<1>3. Occupied \in SUBSET (PageIds \X Index)
  BY DEF Occupied
<1>4. IsFiniteSet(Occupied)
  BY <1>2, <1>3, FS_Subset
<1>5. ASSUME NEW p \in PageIds
      PROVE  IsFiniteSet(Filled(p))
  <2>1. Filled(p) \in SUBSET Index
    BY DEF Filled
  <2> QED
    BY <1>1, <2>1, FS_Subset
<1> QED
  BY <1>4, <1>5

\* Filling a vacant slot counts one more, on its page and in all.
LEMMA FillCounts ==
  ASSUME TypeOK, CountsExact, NEW c \in AllSlots, NEW r \in RangeRec, At(c) = Null,
         slot' = [slot EXCEPT ![c[1]][c[2]] = r],
         used' = [used EXCEPT ![c[1]] = @ + 1], count' = count + 1
  PROVE  CountsExact' /\ used' \in [PageIds -> 0..Capacity] /\ count' \in Nat
<1> DEFINE p == c[1]
           i == c[2]
<1>1. p \in PageIds /\ i \in Index /\ c = <<p, i>> /\ r # Null
  BY DEF AllSlots, RangeRec, Null
<1>2. /\ slot'[p] = [slot[p] EXCEPT ![i] = r]
      /\ \A q \in PageIds : q # p => slot'[q] = slot[q]
  BY <1>1 DEF TypeOK
<1>3. Filled(p)' = Filled(p) \cup {i} /\ i \notin Filled(p)
  BY <1>1, <1>2 DEF Filled, TypeOK, At
<1>4. \A q \in PageIds : q # p => Filled(q)' = Filled(q)
  BY <1>2 DEF Filled
<1>5. \A d \in AllSlots : At(d)' = IF d = c THEN r ELSE At(d)
  <2> SUFFICES ASSUME NEW d \in AllSlots PROVE At(d)' = IF d = c THEN r ELSE At(d)
    OBVIOUS
  <2>1. d[1] \in PageIds /\ d[2] \in Index /\ d = <<d[1], d[2]>>
    BY DEF AllSlots
  <2> QED
    BY <1>1, <1>2, <2>1 DEF At, TypeOK
<1>6. Occupied' = Occupied \cup {c} /\ c \notin Occupied
  BY <1>1, <1>5 DEF Occupied, AllSlots
<1>7. IsFiniteSet(Occupied) /\ \A q \in PageIds : IsFiniteSet(Filled(q))
  BY Finite
<1>8. Cardinality(Occupied') = Cardinality(Occupied) + 1
  BY <1>6, <1>7, FS_AddElement
<1>9. Cardinality(Filled(p)') = Cardinality(Filled(p)) + 1
  BY <1>1, <1>3, <1>7, FS_AddElement
<1>10. \A q \in PageIds : used[q] = Cardinality(Filled(q))
  BY DEF CountsExact, Filled
<1>11. \A q \in PageIds : used'[q] = Cardinality(Filled(q)')
  BY <1>1, <1>4, <1>9, <1>10 DEF TypeOK
<1>12. CountsExact'
  BY <1>8, <1>11 DEF CountsExact, Filled
<1>13. Cardinality(Filled(p)') <= Capacity
  <2>1. IsFiniteSet(Index) /\ Cardinality(Index) = Capacity
    BY RegistryAssumption, FS_Interval DEF Index
  <2>2. Filled(p)' \in SUBSET Index
    BY DEF Filled
  <2> QED
    BY <2>1, <2>2, FS_Subset
<1>14. used' \in [PageIds -> 0..Capacity]
  <2>1. used[p] \in 0..Capacity /\ used'[p] = used[p] + 1
    BY <1>1 DEF TypeOK
  <2>2. used'[p] \in 0..Capacity
    BY <1>1, <1>11, <1>13, <2>1, RegistryAssumption
  <2> QED
    BY <1>1, <2>1, <2>2 DEF TypeOK
<1>15. count' \in Nat
  BY DEF TypeOK
<1> QED
  BY <1>12, <1>14, <1>15

\* Emptying a slot in use counts one less.
LEMMA ClearCounts ==
  ASSUME TypeOK, CountsExact, NEW c \in AllSlots, At(c) # Null,
         slot' = [slot EXCEPT ![c[1]][c[2]] = Null],
         used' = [used EXCEPT ![c[1]] = @ - 1], count' = count - 1
  PROVE  CountsExact' /\ used' \in [PageIds -> 0..Capacity] /\ count' \in Nat
<1> DEFINE p == c[1]
           i == c[2]
<1>1. p \in PageIds /\ i \in Index /\ c = <<p, i>>
  BY DEF AllSlots
<1>2. /\ slot'[p] = [slot[p] EXCEPT ![i] = Null]
      /\ \A q \in PageIds : q # p => slot'[q] = slot[q]
  BY <1>1 DEF TypeOK
<1>3. Filled(p)' = Filled(p) \ {i} /\ i \in Filled(p)
  BY <1>1, <1>2 DEF Filled, TypeOK, At
<1>4. \A q \in PageIds : q # p => Filled(q)' = Filled(q)
  BY <1>2 DEF Filled
<1>5. \A d \in AllSlots : At(d)' = IF d = c THEN Null ELSE At(d)
  <2> SUFFICES ASSUME NEW d \in AllSlots PROVE At(d)' = IF d = c THEN Null ELSE At(d)
    OBVIOUS
  <2>1. d[1] \in PageIds /\ d[2] \in Index /\ d = <<d[1], d[2]>>
    BY DEF AllSlots
  <2> QED
    BY <1>1, <1>2, <2>1 DEF At, TypeOK
<1>6. Occupied' = Occupied \ {c} /\ c \in Occupied
  BY <1>1, <1>5 DEF Occupied, AllSlots
<1>7. IsFiniteSet(Occupied) /\ \A q \in PageIds : IsFiniteSet(Filled(q))
  BY Finite
<1>8. Cardinality(Occupied') = Cardinality(Occupied) - 1
  BY <1>6, <1>7, FS_RemoveElement
<1>9. Cardinality(Filled(p)') = Cardinality(Filled(p)) - 1 /\ Cardinality(Filled(p)') \in Nat
  <2>1. IsFiniteSet(Filled(p)')
    BY <1>1, <1>3, <1>7, FS_RemoveElement
  <2>2. Cardinality(Filled(p)') \in Nat
    BY <2>1, FS_CardinalityType
  <2>3. Cardinality(Filled(p) \ {i}) = Cardinality(Filled(p)) - 1
    BY <1>1, <1>3, <1>7, FS_RemoveElement
  <2> QED
    BY <1>3, <2>2, <2>3
<1>10. \A q \in PageIds : used[q] = Cardinality(Filled(q))
  BY DEF CountsExact, Filled
<1>11. \A q \in PageIds : used'[q] = Cardinality(Filled(q)')
  BY <1>1, <1>4, <1>9, <1>10 DEF TypeOK
<1>12. CountsExact'
  BY <1>8, <1>11 DEF CountsExact, Filled
<1>13. used' \in [PageIds -> 0..Capacity]
  <2>1. used[p] \in 0..Capacity /\ used'[p] = used[p] - 1 /\ used'[p] \in Nat
    BY <1>1, <1>9, <1>11 DEF TypeOK
  <2>2. used'[p] \in 0..Capacity
    BY <2>1, RegistryAssumption
  <2> QED
    BY <1>1, <2>2 DEF TypeOK
<1>14. count' \in Nat
  <2>1. IsFiniteSet(Occupied')
    BY <1>6, <1>7, FS_RemoveElement
  <2>2. Cardinality(Occupied') \in Nat
    BY <2>1, FS_CardinalityType
  <2> QED
    BY <1>12, <2>2 DEF CountsExact
<1> QED
  BY <1>12, <1>13, <1>14

\* Every slot in use is scanned.
LEMMA ScansAll ==
  ASSUME TypeOK, MarksCover
  PROVE  Occupied \subseteq Scanned
BY DEF Occupied, Scanned, MarksCover, At

\* What filling a vacant slot c of page c[1] with range r does to the slots: the
\* ranges gain r and stay disjoint if r meets none of them.
LEMMA FillDisjoint ==
  ASSUME TypeOK, Disjoint, NEW c \in AllSlots, NEW r \in RangeRec, At(c) = Null,
         slot' = [slot EXCEPT ![c[1]][c[2]] = r],
         \A d \in Occupied : r.base + r.len <= At(d).base \/ At(d).base + At(d).len <= r.base
  PROVE  /\ Disjoint' /\ slot' \in [PageIds -> [Index -> RangeRec \cup {Null}]]
         /\ Occupied' = Occupied \cup {c}
         /\ \A d \in AllSlots : At(d)' = IF d = c THEN r ELSE At(d)
<1>1. c[1] \in PageIds /\ c[2] \in Index /\ c = <<c[1], c[2]>> /\ r # Null
  BY DEF AllSlots, RangeRec, Null
<1>2. \A d \in AllSlots : At(d)' = IF d = c THEN r ELSE At(d)
  <2> SUFFICES ASSUME NEW d \in AllSlots PROVE At(d)' = IF d = c THEN r ELSE At(d)
    OBVIOUS
  <2>1. d[1] \in PageIds /\ d[2] \in Index /\ d = <<d[1], d[2]>>
    BY DEF AllSlots
  <2> QED
    BY <1>1, <2>1 DEF At, TypeOK
<1>3. Occupied' = Occupied \cup {c} /\ Occupied \subseteq AllSlots
  BY <1>1, <1>2 DEF Occupied, AllSlots
<1>4. slot' \in [PageIds -> [Index -> RangeRec \cup {Null}]]
  BY <1>1 DEF TypeOK
<1>5. Disjoint'
  <2> SUFFICES ASSUME NEW x \in Occupied', NEW y \in Occupied', x # y
               PROVE  At(x)'.base + At(x)'.len <= At(y)'.base \/ At(y)'.base + At(y)'.len <= At(x)'.base
    BY DEF Disjoint
  <2>1. x \in AllSlots /\ y \in AllSlots
    BY <1>3
  <2>2. CASE x = c
    BY <2>1, <2>2, <1>2, <1>3
  <2>3. CASE y = c
    BY <2>1, <2>3, <1>2, <1>3
  <2>4. CASE x # c /\ y # c
    BY <2>1, <2>4, <1>2, <1>3 DEF Disjoint
  <2> QED
    BY <2>2, <2>3, <2>4
<1> QED
  BY <1>2, <1>3, <1>4, <1>5

\* Emptying a slot.
LEMMA ClearDisjoint ==
  ASSUME TypeOK, Disjoint, NEW c \in AllSlots,
         slot' = [slot EXCEPT ![c[1]][c[2]] = Null]
  PROVE  /\ Disjoint' /\ slot' \in [PageIds -> [Index -> RangeRec \cup {Null}]]
         /\ Occupied' = Occupied \ {c}
         /\ \A d \in AllSlots : At(d)' = IF d = c THEN Null ELSE At(d)
<1>1. c[1] \in PageIds /\ c[2] \in Index /\ c = <<c[1], c[2]>>
  BY DEF AllSlots
<1>2. \A d \in AllSlots : At(d)' = IF d = c THEN Null ELSE At(d)
  <2> SUFFICES ASSUME NEW d \in AllSlots PROVE At(d)' = IF d = c THEN Null ELSE At(d)
    OBVIOUS
  <2>1. d[1] \in PageIds /\ d[2] \in Index /\ d = <<d[1], d[2]>>
    BY DEF AllSlots
  <2> QED
    BY <1>1, <2>1 DEF At, TypeOK
<1>3. Occupied' = Occupied \ {c} /\ Occupied \subseteq AllSlots
  BY <1>1, <1>2 DEF Occupied, AllSlots
<1>4. slot' \in [PageIds -> [Index -> RangeRec \cup {Null}]]
  BY <1>1 DEF TypeOK
<1>5. Disjoint'
  BY <1>2, <1>3 DEF Disjoint
<1> QED
  BY <1>2, <1>3, <1>4, <1>5

-----------------------------------------------------------------------------
(* One lemma for registering into a slot, one for clearing a slot *)

\* A range that goes into a vacant slot, below the mark or just above it.
LEMMA StoreSound ==
  ASSUME RegistrySound, NEW b \in Bases, NEW n \in Lens, Bounds(b, n),
         NEW c \in AllSlots, At(c) = Null, NEW hw \in 0..Capacity,
         Store(c, b, n, hw), used' = [used EXCEPT ![c[1]] = @ + 1],
         count' = count + 1, answer' = TRUE,
         \A d \in Occupied : ~Hits(b, n, At(d)),
         n_pages' \in 0..MaxPages, n_pages' >= n_pages, c[1] <= n_pages',
         \/ c[2] <= high_water[c[1]] /\ hw = high_water[c[1]]
         \/ c[2] = hw /\ high_water[c[1]] < hw
  PROVE  RegistrySound' /\ Registered!Add(b, n)
<1> DEFINE r == [base |-> b, len |-> n]
<1>1. TypeOK /\ MarksCover /\ CountsExact /\ Disjoint
  BY DEF RegistrySound
<1>2. /\ b \in 1..Top /\ n \in 1..Top /\ b + n <= Top /\ (b + n) % (Top + 1) = b + n
      /\ r \in RangeRec /\ r # Null /\ Top \in Nat
  BY Arguments, RegistryAssumption
<1>3. slot' = [slot EXCEPT ![c[1]][c[2]] = r] /\ high_water' = [high_water EXCEPT ![c[1]] = hw]
  BY DEF Store
<1>4. \A d \in Occupied : At(d) \in RangeRec /\ At(d) # Null
  BY <1>1 DEF Occupied, At, TypeOK
<1>5. \A d \in Occupied : b + n <= At(d).base \/ At(d).base + At(d).len <= b
  <2> SUFFICES ASSUME NEW d \in Occupied PROVE b + n <= At(d).base \/ At(d).base + At(d).len <= b
    OBVIOUS
  <2>1. At(d).base \in Nat /\ At(d).len \in Nat /\ b \in Nat /\ n \in Nat
    BY <1>2, <1>4 DEF RangeRec
  <2>2. ~(b < At(d).base + At(d).len /\ At(d).base < b + n)
    BY <1>2, <1>4 DEF Hits
  <2> QED
    BY <2>1, <2>2
<1>6. /\ Disjoint' /\ slot' \in [PageIds -> [Index -> RangeRec \cup {Null}]]
      /\ Occupied' = Occupied \cup {c}
      /\ \A d \in AllSlots : At(d)' = IF d = c THEN r ELSE At(d)
  <2>1. r.base = b /\ r.len = n
    OBVIOUS
  <2> HIDE DEF r
  <2> QED
    BY <1>1, <1>2, <1>3, <1>5, <2>1, FillDisjoint
<1>7. CountsExact' /\ used' \in [PageIds -> 0..Capacity] /\ count' \in Nat
  <2> HIDE DEF r
  <2> QED
    BY <1>1, <1>2, <1>3, FillCounts
<1>8. c[1] \in PageIds /\ c[2] \in Index /\ c = <<c[1], c[2]>>
  BY DEF AllSlots
<1>9. TypeOK'
  BY <1>1, <1>3, <1>6, <1>7, <1>8 DEF TypeOK
<1>10. MarksCover'
  <2> SUFFICES ASSUME NEW p \in PageIds
               PROVE  /\ \A i \in Index : slot'[p][i] # Null => p \in Pages' /\ i <= high_water'[p]
                      /\ high_water'[p] > 0 => slot'[p][high_water'[p]] # Null
    BY DEF MarksCover
  <2>0. n_pages \in Nat /\ n_pages' \in Nat /\ c[1] \in Nat /\ c[1] >= 1 /\ c[2] \in Nat /\ hw \in Nat
        /\ high_water[p] \in Nat
    <3>1. n_pages \in Nat /\ high_water[p] \in 0..Capacity
      BY <1>1, RegistryAssumption DEF TypeOK
    <3>2. n_pages' \in Nat /\ high_water[p] \in Nat /\ hw \in Nat
      BY <3>1, RegistryAssumption
    <3>3. c[1] \in Nat /\ c[1] >= 1 /\ c[2] \in Nat
      BY <1>8, RegistryAssumption DEF PageIds, Index
    <3> QED
      BY <3>1, <3>2, <3>3
  <2>1. CASE p # c[1]
    <3>1. slot'[p] = slot[p] /\ high_water'[p] = high_water[p]
      BY <2>1, <1>1, <1>3, <1>8 DEF TypeOK
    <3> QED
      BY <3>1, <1>1, <2>0 DEF MarksCover, Pages
  <2>2. CASE p = c[1]
    <3>1. /\ slot'[p][c[2]] = r /\ high_water'[p] = hw
          /\ \A i \in Index : i # c[2] => slot'[p][i] = slot[p][i]
      BY <2>2, <1>1, <1>3, <1>8 DEF TypeOK
    <3>2. p \in Pages'
      BY <2>0, <2>2 DEF Pages
    <3>3. high_water[p] <= hw /\ c[2] <= hw
      BY <2>0, <2>2
    <3>4. \A i \in Index : slot[p][i] # Null => i <= hw
      BY <1>1, <2>0, <3>3 DEF MarksCover, Index
    <3>5. hw > 0 => slot'[p][hw] # Null
      <4>1. CASE hw = c[2]
        BY <3>1, <4>1, <1>2
      <4>2. CASE hw # c[2] /\ hw > 0
        <5>1. hw = high_water[p] /\ hw \in Index
          BY <2>0, <2>2, <4>2 DEF Index
        <5>2. slot[p][hw] # Null
          BY <5>1, <4>2, <1>1 DEF MarksCover
        <5> QED
          BY <5>1, <5>2, <3>1, <4>2
      <4> QED
        BY <4>1, <4>2
    <3> QED
      BY <3>1, <3>2, <3>3, <3>4, <3>5
  <2> QED
    BY <2>1, <2>2
<1>11. Registered!Add(b, n)
  <2>1. {At(d)' : d \in Occupied'} = {At(d) : d \in Occupied} \cup {r}
    <3>1. c \notin Occupied /\ Occupied \subseteq AllSlots
      BY DEF Occupied, AllSlots
    <3> QED
      BY <3>1, <1>6
  <2>2. b > 0 /\ n > 0 /\ b + n <= Top
    BY <1>2
  <2>3. ASSUME NEW s \in {At(d) : d \in Occupied}
        PROVE  ~(b < s.base + s.len /\ s.base < b + n)
    <3>1. PICK d \in Occupied : s = At(d)
      OBVIOUS
    <3>2. s.base \in Nat /\ s.len \in Nat /\ b \in Nat /\ n \in Nat
      BY <3>1, <1>2, <1>4 DEF RangeRec
    <3> QED
      BY <3>1, <3>2, <1>5
  <2> QED
    BY <2>1, <2>2, <2>3 DEF Registered!Add, Registered!Admissible, Registered!Valid, Registered!Overlap
<1> QED
  BY <1>6, <1>7, <1>9, <1>10, <1>11 DEF RegistrySound

\* A slot in use that is emptied, with a mark that still covers the page.
LEMMA ClearSound ==
  ASSUME RegistrySound, NEW b \in Bases, NEW n \in Lens,
         NEW c \in AllSlots, At(c) = [base |-> b, len |-> n], b > 0,
         NEW hw \in 0..Capacity, Clear(c, hw), hw <= high_water[c[1]],
         \A i \in Index : slot[c[1]][i] # Null /\ i # c[2] => i <= hw,
         hw > 0 => hw # c[2] /\ slot[c[1]][hw] # Null
  PROVE  RegistrySound' /\ Registered!Remove(b, n)
<1>1. TypeOK /\ MarksCover /\ CountsExact /\ Disjoint
  BY DEF RegistrySound
<1>2. /\ slot' = [slot EXCEPT ![c[1]][c[2]] = Null]
      /\ high_water' = [high_water EXCEPT ![c[1]] = hw]
      /\ used' = [used EXCEPT ![c[1]] = @ - 1]
      /\ count' = count - 1 /\ answer' = TRUE /\ n_pages' = n_pages
  BY DEF Clear
<1>3. c[1] \in PageIds /\ c[2] \in Index /\ c = <<c[1], c[2]>>
  BY DEF AllSlots
<1>4. At(c) # Null /\ c \in Occupied
  <2>1. b # 0
    BY RegistryAssumption
  <2> QED
    BY <2>1, <1>3 DEF Null, Occupied
<1>5. /\ Disjoint' /\ slot' \in [PageIds -> [Index -> RangeRec \cup {Null}]]
      /\ Occupied' = Occupied \ {c}
      /\ \A d \in AllSlots : At(d)' = IF d = c THEN Null ELSE At(d)
  BY <1>1, <1>2, ClearDisjoint
<1>6. CountsExact' /\ used' \in [PageIds -> 0..Capacity] /\ count' \in Nat
  BY <1>1, <1>2, <1>4, ClearCounts
<1>7. TypeOK'
  BY <1>1, <1>2, <1>3, <1>5, <1>6 DEF TypeOK
<1>8. MarksCover'
  <2> SUFFICES ASSUME NEW p \in PageIds
               PROVE  /\ \A i \in Index : slot'[p][i] # Null => p \in Pages' /\ i <= high_water'[p]
                      /\ high_water'[p] > 0 => slot'[p][high_water'[p]] # Null
    BY DEF MarksCover
  <2>1. Pages' = Pages
    BY <1>2 DEF Pages
  <2>2. CASE p # c[1]
    <3>1. slot'[p] = slot[p] /\ high_water'[p] = high_water[p]
      BY <2>2, <1>1, <1>2, <1>3 DEF TypeOK
    <3> QED
      BY <3>1, <2>1, <1>1 DEF MarksCover
  <2>3. CASE p = c[1]
    <3>1. /\ slot'[p][c[2]] = Null /\ high_water'[p] = hw
          /\ \A i \in Index : i # c[2] => slot'[p][i] = slot[p][i]
      BY <2>3, <1>1, <1>2, <1>3 DEF TypeOK
    <3>2. \A i \in Index : slot'[p][i] # Null => p \in Pages /\ i <= hw
      BY <3>1, <2>3, <1>1 DEF MarksCover
    <3>3. hw > 0 => slot'[p][hw] # Null
      BY <3>1, <2>3 DEF Index
    <3> QED
      BY <3>1, <3>2, <3>3, <2>1
  <2> QED
    BY <2>2, <2>3
<1>9. Registered!Remove(b, n)
  <2> DEFINE r == [base |-> b, len |-> n]
  <2>1. Occupied \subseteq AllSlots
    BY DEF Occupied, AllSlots
  <2>2. ASSUME NEW d \in Occupied, d # c
        PROVE  At(d) # r
    <3>1. At(d) \in RangeRec /\ At(c) \in RangeRec
      BY <1>1, <1>4 DEF Occupied, At, TypeOK
    <3>2. \/ At(c).base + At(c).len <= At(d).base
          \/ At(d).base + At(d).len <= At(c).base
      BY <1>1, <1>4, <2>2 DEF Disjoint
    <3>3. At(d) # At(c)
      BY <3>1, <3>2 DEF RangeRec
    <3> QED
      BY <3>3
  <2>3. {At(d)' : d \in Occupied'} = {At(d) : d \in Occupied} \ {r}
    <3> HIDE DEF r
    <3> SUFFICES ASSUME At(c) = r PROVE {At(d)' : d \in Occupied'} = {At(d) : d \in Occupied} \ {r}
      BY DEF r
    <3> QED
      BY <2>1, <2>2, <1>4, <1>5
  <2>4. r \in {At(d) : d \in Occupied}
    BY <1>4
  <2> QED
    BY <2>3, <2>4, <1>2 DEF Registered!Remove
<1> QED
  BY <1>5, <1>6, <1>7, <1>8, <1>9 DEF RegistrySound

-----------------------------------------------------------------------------
\* An empty registry is sound and is the empty set of ranges.
LEMMA InitSound == Init => RegistrySound /\ Registered!Init
<1> SUFFICES ASSUME Init PROVE RegistrySound /\ Registered!Init
  OBVIOUS
<1>1. TypeOK
  BY RegistryAssumption DEF Init, TypeOK
<1>2. MarksCover
  BY DEF Init, MarksCover
<1>3. Occupied = {} /\ \A p \in PageIds : {i \in Index : slot[p][i] # Null} = {}
  BY DEF Init, Occupied, At
<1>4. CountsExact
  BY <1>3, FS_EmptySet DEF Init, CountsExact
<1>5. Disjoint
  BY <1>3 DEF Disjoint
<1>6. Registered!Init
  BY <1>3 DEF Registered!Init, Init
<1> QED
  BY <1>1, <1>2, <1>4, <1>5, <1>6 DEF RegistrySound

\* Every call keeps the representation and is a step of the set of ranges.
LEMMA StepSound ==
  ASSUME RegistrySound, Next
  PROVE  RegistrySound' /\ Registered!Next
<1>0. TypeOK /\ MarksCover /\ CountsExact /\ Disjoint
  BY DEF RegistrySound
<1>1. Occupied \subseteq Scanned /\ Scanned \subseteq AllSlots
  <2>1. Pages \subseteq PageIds
    BY <1>0, RegistryAssumption DEF Pages, PageIds, TypeOK
  <2> QED
    BY <1>0, <2>1, ScansAll DEF Scanned, AllSlots
<1>2. PICK b \in Bases, n \in Lens : register_external(b, n) \/ unregister_external(b, n)
  BY DEF Next
<1>3. ASSUME Refuse
      PROVE  RegistrySound' /\ Registered!Refuse
  <2>1. Occupied' = Occupied /\ \A d : At(d)' = At(d)
    BY <1>3 DEF Refuse, Occupied, At
  <2>2. TypeOK'
    BY <1>0, <1>3 DEF Refuse, TypeOK
  <2>3. MarksCover'
    BY <1>0, <1>3 DEF Refuse, MarksCover, Pages
  <2>4. CountsExact'
    BY <1>0, <1>3, <2>1 DEF Refuse, CountsExact
  <2>5. Disjoint'
    BY <1>0, <2>1 DEF Disjoint
  <2>6. Registered!Refuse
    BY <1>3, <2>1 DEF Refuse, Registered!Refuse
  <2> QED
    BY <2>2, <2>3, <2>4, <2>5, <2>6 DEF RegistrySound
<1>4. CASE RegisterHead(b, n)
  <2> DEFINE c == <<n_pages, 1>>
  <2>1. n_pages \in PageIds /\ 1 \in Index /\ c \in AllSlots /\ c[1] = n_pages /\ c[2] = 1
    BY <1>4, <1>0, RegistryAssumption DEF RegisterHead, TypeOK, PageIds, Index, AllSlots
  <2>2. IsFiniteSet(Occupied) /\ Cardinality(Occupied) = 0
    BY <1>0, <1>4, Finite DEF CountsExact, RegisterHead
  <2>3. Occupied = {}
    BY <2>2, FS_EmptySet
  <2>4. At(c) = Null
    BY <2>1, <2>3 DEF Occupied, AllSlots
  <2>5. \A i \in Index : slot[n_pages][i] = Null
    <3> SUFFICES ASSUME NEW i \in Index PROVE slot[n_pages][i] = Null
      OBVIOUS
    <3>1. <<n_pages, i>> \in PageIds \X Index
      BY <2>1
    <3> QED
      BY <3>1, <2>3 DEF Occupied, At
  <2>6. high_water[n_pages] = 0
    <3>1. high_water[n_pages] \in 0..Capacity
      BY <1>0, <2>1 DEF TypeOK
    <3>2. ASSUME high_water[n_pages] > 0 PROVE FALSE
      BY <3>1, <3>2, <2>1, <2>5, <1>0, RegistryAssumption DEF MarksCover, Index
    <3> QED
      BY <3>1, <3>2
  <2>7. used[n_pages] = 0
    <3>1. {i \in Index : slot[n_pages][i] # Null} = {}
      BY <2>5
    <3> QED
      BY <3>1, <2>1, <1>0, FS_EmptySet DEF CountsExact
  <2>8. used' = [used EXCEPT ![c[1]] = @ + 1] /\ count' = count + 1 /\ answer' = TRUE /\ n_pages' = n_pages
    <3>1. /\ used' = [used EXCEPT ![n_pages] = 1]
          /\ count = 0 /\ count' = 1 /\ answer' = TRUE /\ n_pages' = n_pages
      BY <1>4 DEF RegisterHead
    <3>2. [used EXCEPT ![n_pages] = 1] = [used EXCEPT ![n_pages] = used[n_pages] + 1]
      BY <2>7
    <3>3. c[1] = n_pages
      BY <2>1
    <3> HIDE DEF c
    <3> QED
      BY <3>1, <3>2, <3>3
  <2>9. 1 \in 0..Capacity /\ n_pages' \in 0..MaxPages /\ n_pages' >= n_pages /\ c[1] <= n_pages'
    BY <1>0, <2>1, <2>8, RegistryAssumption DEF TypeOK, Index
  <2>10. Store(c, b, n, 1) /\ Bounds(b, n)
    BY <1>4 DEF RegisterHead
  <2>11. c[2] = 1 /\ high_water[c[1]] < 1
    BY <2>1, <2>6
  <2> HIDE DEF c
  <2>12. RegistrySound' /\ Registered!Add(b, n)
    BY <2>1, <2>3, <2>4, <2>8, <2>9, <2>10, <2>11, StoreSound
  <2> QED
    BY <2>12 DEF Registered!Next
<1>5. ASSUME SlowPath(b, n)
      PROVE  Bounds(b, n) /\ \A d \in Occupied : ~Hits(b, n, At(d))
  BY <1>1, <1>5 DEF SlowPath
<1>6. CASE RegisterVacant(b, n)
  <2>1. PICK c \in Vacant : Enter(c, b, n, high_water[c[1]])
    BY <1>6 DEF RegisterVacant
  <2>2. c \in AllSlots /\ At(c) = Null /\ c[2] <= high_water[c[1]] /\ c[1] \in Pages
    BY <1>1 DEF Vacant, Scanned
  <2>3. high_water[c[1]] \in 0..Capacity
    BY <1>0, <2>2 DEF TypeOK, AllSlots
  <2>4. n_pages' \in 0..MaxPages /\ n_pages' >= n_pages /\ c[1] <= n_pages'
    BY <1>0, <1>6, <2>2, RegistryAssumption DEF RegisterVacant, TypeOK, Pages
  <2>5. SlowPath(b, n)
    BY <1>6 DEF RegisterVacant
  <2>6. RegistrySound' /\ Registered!Add(b, n)
    BY <2>1, <2>2, <2>3, <2>4, <2>5, <1>5, StoreSound DEF Enter
  <2> QED
    BY <2>6 DEF Registered!Next
<1>7. CASE RegisterTail(b, n)
  <2>1. PICK c \in TailVacant : Enter(c, b, n, c[2])
    BY <1>7 DEF RegisterTail
  <2>2. c \in AllSlots /\ c[1] \in Pages /\ c[2] = high_water[c[1]] + 1 /\ c[2] \in Index
    BY <1>0, RegistryAssumption DEF TailVacant, AllSlots, Pages, PageIds, TypeOK
  <2>3. high_water[c[1]] \in Nat /\ c[2] \in 0..Capacity /\ high_water[c[1]] < c[2]
    BY <1>0, <2>2, RegistryAssumption DEF TypeOK, AllSlots, Index
  <2>4. At(c) = Null
    BY <1>0, <2>2, <2>3 DEF MarksCover, At, AllSlots
  <2>5. n_pages' \in 0..MaxPages /\ n_pages' >= n_pages /\ c[1] <= n_pages'
    BY <1>0, <1>7, <2>2, RegistryAssumption DEF RegisterTail, TypeOK, Pages
  <2>6. SlowPath(b, n)
    BY <1>7 DEF RegisterTail
  <2>7. RegistrySound' /\ Registered!Add(b, n)
    BY <2>1, <2>2, <2>3, <2>4, <2>5, <2>6, <1>5, StoreSound DEF Enter
  <2> QED
    BY <2>7 DEF Registered!Next
<1>8. CASE RegisterPage(b, n)
  <2> DEFINE c == <<n_pages + 1, 1>>
  <2>1. /\ n_pages + 1 \in PageIds /\ 1 \in Index /\ c \in AllSlots /\ c[1] = n_pages + 1 /\ c[2] = 1
        /\ n_pages' = n_pages + 1 /\ n_pages' \in 0..MaxPages /\ n_pages' >= n_pages /\ c[1] <= n_pages'
    BY <1>8, <1>0, RegistryAssumption DEF RegisterPage, TypeOK, PageIds, Index, AllSlots
  <2>2. n_pages + 1 \notin Pages
    BY <1>0, RegistryAssumption DEF Pages, TypeOK
  <2>3. \A i \in Index : slot[n_pages + 1][i] = Null
    BY <1>0, <2>1, <2>2 DEF MarksCover
  <2>4. At(c) = Null
    BY <2>1, <2>3 DEF At
  <2>5. high_water[n_pages + 1] \in 0..Capacity
    BY <1>0, <2>1 DEF TypeOK
  <2>6. ~(high_water[n_pages + 1] > 0)
    BY <1>0, <2>1, <2>3, <2>5, RegistryAssumption DEF MarksCover, Index
  <2>7. Enter(c, b, n, 1) /\ SlowPath(b, n)
    BY <1>8 DEF RegisterPage
  <2>8. 1 \in 0..Capacity /\ c[2] = 1 /\ high_water[c[1]] < 1
    BY <2>1, <2>5, <2>6, RegistryAssumption DEF Index
  <2> HIDE DEF c
  <2>9. RegistrySound' /\ Registered!Add(b, n)
    BY <2>1, <2>4, <2>7, <2>8, <1>5, StoreSound DEF Enter
  <2> QED
    BY <2>9 DEF Registered!Next
<1>9. CASE RegisterRefused(b, n) \/ UnregisterRefused(b, n)
  BY <1>3, <1>9 DEF RegisterRefused, UnregisterRefused, Registered!Next
<1>10. CASE UnregisterHead(b, n)
  <2> DEFINE c == <<n_pages, 1>>
             hw == IF high_water[n_pages] = 1 THEN 0 ELSE high_water[n_pages]
  <2>1. n_pages \in PageIds /\ 1 \in Index /\ c \in AllSlots /\ c[1] = n_pages /\ c[2] = 1
    BY <1>10, <1>0, RegistryAssumption DEF UnregisterHead, AtHead, TypeOK, PageIds, Index, AllSlots
  <2>2. b > 0 /\ slot[n_pages][1].base = b /\ slot[n_pages][1].len = n /\ Clear(c, hw)
    BY <1>10 DEF UnregisterHead, AtHead
  <2>3. slot[n_pages][1] \in RangeRec \cup {Null}
    BY <1>0, <2>1 DEF TypeOK
  <2>4. At(c) = [base |-> b, len |-> n]
    BY <2>1, <2>2, <2>3 DEF At, RangeRec, Null
  <2>5. high_water[n_pages] \in 0..Capacity
    BY <1>0, <2>1 DEF TypeOK
  <2>6. hw \in 0..Capacity /\ hw <= high_water[c[1]]
    BY <2>1, <2>5, RegistryAssumption
  <2>7. \A i \in Index : slot[c[1]][i] # Null /\ i # c[2] => i <= hw
    BY <1>0, <2>1, <2>5 DEF MarksCover, Index
  <2>8. hw > 0 => hw # c[2] /\ slot[c[1]][hw] # Null
    BY <1>0, <2>1, <2>5 DEF MarksCover
  <2> HIDE DEF c, hw
  <2>9. RegistrySound' /\ Registered!Remove(b, n)
    BY <2>1, <2>2, <2>4, <2>6, <2>7, <2>8, ClearSound
  <2> QED
    BY <2>9 DEF Registered!Next
<1>11. CASE UnregisterSlow(b, n)
  <2>1. PICK c \in Matching(b) : At(c).len = n /\ Clear(c, Trimmed(c))
    BY <1>11 DEF UnregisterSlow
  <2>2. b > 0
    BY <1>11 DEF UnregisterSlow
  <2>3. c \in AllSlots /\ At(c).base = b /\ c[2] <= high_water[c[1]]
    BY <1>1 DEF Matching, Scanned
  <2>4. At(c) = [base |-> b, len |-> n]
    <3>1. At(c) \in RangeRec \cup {Null}
      BY <1>0, <2>3 DEF At, AllSlots, TypeOK
    <3> QED
      BY <3>1, <2>1, <2>3 DEF RangeRec, Null
  <2>5. high_water[c[1]] \in 0..Capacity /\ c[1] \in PageIds /\ c[2] \in Index /\ c[2] \in Nat
    BY <1>0, <2>3 DEF TypeOK, AllSlots, Index
  <2>6. CASE c[2] = high_water[c[1]]
    <3>1. /\ Trimmed(c) \in 0..Capacity /\ Trimmed(c) < c[2]
          /\ \A i \in Index : Trimmed(c) < i /\ i < c[2] => slot[c[1]][i] = Null
          /\ Trimmed(c) > 0 => slot[c[1]][Trimmed(c)] # Null
      BY <1>0, <2>3, <2>6, TrimmedCovers
    <3> DEFINE hw == Trimmed(c)
    <3> HIDE DEF hw
    <3>2. /\ hw \in 0..Capacity /\ hw <= high_water[c[1]]
          /\ hw > 0 => hw # c[2] /\ slot[c[1]][hw] # Null
      BY <3>1, <2>5, <2>6, RegistryAssumption DEF hw
    <3>3. ASSUME NEW i \in Index, slot[c[1]][i] # Null, i # c[2]
          PROVE  i <= hw
      <4>1. i <= c[2]
        BY <1>0, <2>5, <2>6, <3>3 DEF MarksCover
      <4>2. i \in Nat /\ hw \in Nat /\ ~(hw < i /\ i < c[2])
        BY <3>1, <3>2, <3>3 DEF hw, Index
      <4> QED
        BY <4>1, <4>2, <3>3, <2>5
    <3>4. Clear(c, hw)
      BY <2>1 DEF hw
    <3>5. RegistrySound' /\ Registered!Remove(b, n)
      BY <2>2, <2>3, <2>4, <3>2, <3>3, <3>4, ClearSound
    <3> QED
      BY <3>5 DEF Registered!Next
  <2>7. CASE c[2] # high_water[c[1]]
    <3> DEFINE hw == high_water[c[1]]
    <3>1. Trimmed(c) = hw
      BY <2>7 DEF Trimmed
    <3>2. /\ hw \in 0..Capacity /\ hw <= high_water[c[1]]
          /\ hw > 0 => hw # c[2] /\ slot[c[1]][hw] # Null
      BY <1>0, <2>5, <2>7, RegistryAssumption DEF MarksCover
    <3>3. \A i \in Index : slot[c[1]][i] # Null /\ i # c[2] => i <= hw
      BY <1>0, <2>5 DEF MarksCover
    <3>4. Clear(c, hw)
      BY <2>1, <3>1
    <3> HIDE DEF hw
    <3>5. RegistrySound' /\ Registered!Remove(b, n)
      BY <2>2, <2>3, <2>4, <3>2, <3>3, <3>4, ClearSound
    <3> QED
      BY <3>5 DEF Registered!Next
  <2> QED
    BY <2>6, <2>7
<1> QED
  BY <1>2, <1>4, <1>6, <1>7, <1>8, <1>9, <1>10, <1>11 DEF register_external, unregister_external

\* A step that changes nothing.
LEMMA StutterSound ==
  ASSUME RegistrySound, UNCHANGED vars
  PROVE  RegistrySound' /\ UNCHANGED <<{At(c) : c \in Occupied}, answer>>
BY DEF vars, RegistrySound, TypeOK, MarksCover, CountsExact, Disjoint, Occupied, At, Pages

\* Marks, counters and slots of the registry agree and its ranges are disjoint
\* after any sequence of register and unregister calls (external.hpp), for any
\* page capacity and any number of pages.
THEOREM RegistryIsSound == Spec => []RegistrySound
<1>1. Init => RegistrySound
  BY InitSound
<1>2. RegistrySound /\ [Next]_vars => RegistrySound'
  BY StepSound, StutterSound
<1> QED
  BY <1>1, <1>2, PTL DEF Spec

\* register_external and unregister_external implement RangeSet: each call adds
\* or removes exactly one range and says so, or changes nothing and refuses.
THEOREM RegistryImplementsSet == Spec => ImplementsRangeSet
<1>1. Init => Registered!Init
  BY InitSound
<1>2. RegistrySound /\ [Next]_vars => [Registered!Next]_<<{At(c) : c \in Occupied}, answer>>
  BY StepSound, StutterSound
<1> QED
  BY <1>1, <1>2, RegistryIsSound, PTL DEF Spec, ImplementsRangeSet, Registered!Spec

\* is_present, within and query_size answer from exactly the ranges that are
\* registered: the scans up to the marks miss none and see nothing else.
THEOREM QueriesAreExact == Spec => []QueriesSeeAll
<1>1. ASSUME RegistrySound
      PROVE  QueriesSeeAll
  <2>0. TypeOK /\ MarksCover /\ Disjoint /\ Top \in Nat
    BY <1>1, RegistryAssumption DEF RegistrySound
  <2>1. Occupied \subseteq Scanned /\ Scanned \subseteq AllSlots
    <3>1. Pages \subseteq PageIds
      BY <2>0, RegistryAssumption DEF Pages, PageIds, TypeOK
    <3> QED
      BY <2>0, <3>1, ScansAll DEF Scanned, AllSlots
  <2>2. Occupied = {c \in Scanned : At(c) # Null}
    BY <2>1 DEF Occupied, AllSlots
  <2>3. \A c \in Occupied : At(c) \in RangeRec
    BY <2>0 DEF Occupied, At, TypeOK
  <2>4. ASSUME NEW a \in 1..Top
        PROVE  Matching(a) = {c \in Occupied : At(c).base = a}
    BY <2>2, <2>4 DEF Matching, Null
  <2>5. ASSUME NEW c \in Occupied
        PROVE  external_query_size(At(c).base) = At(c).len
    <3>1. At(c).base \in 1..Top /\ At(c).len \in 1..Top
      BY <2>3 DEF RangeRec
    <3>2. Matching(At(c).base) = {d \in Occupied : At(d).base = At(c).base}
      BY <2>4, <3>1
    <3>3. ASSUME NEW d \in Occupied, At(d).base = At(c).base, d # c
          PROVE  FALSE
      <4>1. At(d).len \in 1..Top
        BY <2>3 DEF RangeRec
      <4>2. At(c).base + At(c).len <= At(d).base \/ At(d).base + At(d).len <= At(c).base
        BY <2>0, <3>3 DEF Disjoint
      <4> QED
        BY <3>1, <3>3, <4>1, <4>2
    <3>4. Matching(At(c).base) = {c}
      BY <3>2, <3>3
    <3>5. \A d \in {c} : IsFirst(d, {c})
      BY DEF IsFirst
    <3>6. (CHOOSE d \in {c} : IsFirst(d, {c})) = c
      BY <3>5
    <3>7. external_is_present(At(c).base)
      BY <3>1, <3>4 DEF external_is_present
    <3>8. external_query_size(At(c).base)
            = At(CHOOSE d \in Matching(At(c).base) : IsFirst(d, Matching(At(c).base))).len
      BY <3>7 DEF external_query_size
    <3> QED
      BY <3>4, <3>6, <3>8, Zenon
  <2>6. ASSUME NEW a \in 1..Top
        PROVE  external_is_present(a) <=> \E c \in Occupied : At(c).base = a
    BY <2>4, <2>6 DEF external_is_present
  <2>7. ASSUME NEW a \in 1..Top
        PROVE  external_within(a) <=> \E c \in Occupied : a \in At(c).base .. (At(c).base + At(c).len - 1)
    <3>1. ASSUME NEW c \in Occupied
          PROVE  (a >= At(c).base /\ a - At(c).base < At(c).len)
                   <=> a \in At(c).base .. (At(c).base + At(c).len - 1)
      <4>1. At(c).base \in 1..Top /\ At(c).len \in 1..Top
        BY <2>3 DEF RangeRec
      <4> QED
        BY <4>1, <2>0
    <3>2. a > 0
      BY <2>7
    <3>3. external_within(a) <=> \E c \in Occupied : a >= At(c).base /\ a - At(c).base < At(c).len
      BY <2>2, <3>2 DEF external_within
    <3> QED
      BY <3>1, <3>3
  <2> QED
    BY <2>5, <2>6, <2>7 DEF QueriesSeeAll
<1> QED
  BY <1>1, RegistryIsSound, PTL

-----------------------------------------------------------------------------
(* The public API *)

\* No range is registered in the sheet: mark_at refuses its addresses.
Beyond == \A c \in AllSlots : At(c).base \notin Cells

\* None of the three cases in which words left in memory mislead a call: the
\* unwritten end of a buddy block, realloc of an over-aligned pointer to zero,
\* and aligned_free in a build that does not clear memory.
NoException ==
  /\ Kind = "tlsf"
  /\ \A z \in BOOLEAN : "realloc0" \notin Ways[z]
  /\ "aligned_free" \notin Ways[FALSE]

Block == {b \in [off : Cells, len : Nat] : b.len >= 2 /\ b.off + b.len <= Units + 1}
ClearOf(b, c) == b.off + b.len <= c.off \/ c.off + c.len <= b.off

Mems == [blocks : SUBSET Block, lo : [Cells -> {"free", "set"}], hi : [Cells -> Nat]]

\* Blocks in use lie apart, and the last bytes of their headers are no prefix.
Sheet(m) ==
  /\ m \in Mems
  /\ \A b, c \in m.blocks : b # c => ClearOf(b, c)
  /\ \A b \in m.blocks : m.hi[b.off] = NoRaw

\* What a caller holds: a pointer into the user part of its block, with room
\* for what was asked, and if it is over-aligned for the prefix.
Handles == [ptr : Nat, blk : Block, n : Nat \ {0}, aligned : BOOLEAN]
Handle(h) ==
  /\ h \in Handles
  /\ h.ptr + UnitsOf(h.n) <= h.blk.off + h.blk.len
  /\ ~h.aligned => h.ptr = h.blk.off + 1
  /\ h.aligned => /\ (h.ptr - 1) % Align = 0
                  /\ h.blk.off + 2 <= h.ptr /\ h.ptr <= h.blk.off + h.blk.len

\* The prefix names the block and, in a build that clears memory, does not pass
\* for a header in use.
Kept(m, h) ==
  h.aligned => m.hi[h.ptr - 1] = h.blk.off + 1 /\ (zeroes => m.lo[h.ptr - 1] = "free")

\* Callers hold each block in use once.
Held(m, S) ==
  /\ \A h \in S : Handle(h) /\ h.blk \in m.blocks /\ Kept(m, h)
  /\ \A b \in m.blocks : \E h \in S : h.blk = b
  /\ \A g, h \in S : g.blk = h.blk => g = h

ApiInv == zeroes \in BOOLEAN /\ Sheet(mem) /\ Held(mem, held)

\* Quotient and remainder.
LEMMA DivMod ==
  ASSUME NEW C \in Nat \ {0}, NEW t \in Nat
  PROVE  /\ t = C * (t \div C) + (t % C)
         /\ t \div C \in Nat
         /\ t % C \in 0 .. (C - 1)
  OBVIOUS

\* Different multiples lie apart.
LEMMA MulGap ==
  ASSUME NEW C \in Nat \ {0}, NEW a \in Int, NEW b \in Int, a < b
  PROVE  C * a + C <= C * b
  OBVIOUS

\* A multiple has no remainder.
LEMMA MulMod ==
  ASSUME NEW C \in Nat \ {0}, NEW q \in Nat
  PROVE  (C * q) % C = 0
<1> DEFINE t == C * q
<1>1. t \in Nat /\ t = C * q
  OBVIOUS
<1> HIDE DEF t
<1>2. t = C * (t \div C) + (t % C) /\ t \div C \in Nat /\ t % C \in 0 .. (C - 1)
  BY <1>1, DivMod
<1>3. ~(t \div C < q) /\ ~(q < t \div C)
  BY <1>1, <1>2, MulGap
<1>4. t \div C = q
  <2> DEFINE d == t \div C
  <2>1. d \in Nat /\ ~(d < q) /\ ~(q < d)
    BY <1>2, <1>3
  <2> HIDE DEF d
  <2>2. d = q
    BY <2>1
  <2> QED
    BY <2>2 DEF d
<1>5. t % C = 0
  BY <1>1, <1>2, <1>4
<1> QED
  BY <1>5 DEF t

\* A call of the API that reaches the registry is a call of the registry.
LEMMA ApiStepIsCall ==
  ASSUME RegistrySound, Beyond, ApiNext
  PROVE  Next \/ UNCHANGED vars
<1>1. CASE \E n \in Sizes, w \in BOOLEAN : Balloc(n, w) \/ AlignedBalloc(n, w)
  BY <1>1 DEF Balloc, AlignedBalloc
<1>2. CASE \E h \in held, way \in Ways[zeroes] : Release(h, way)
  BY <1>2 DEF Release
<1>3. CASE \E h \in held, n \in Sizes : Realloc(h, n) \/ CRealloc(h, n)
  BY <1>3 DEF Realloc, CRealloc
<1>4. ASSUME NEW b \in Bases, NEW n \in Lens, Matching(b) = {}, Refuse
      PROVE  Next
  <2>1. UnregisterRefused(b, n)
    BY <1>4 DEF UnregisterRefused
  <2> QED
    BY <2>1 DEF Next, unregister_external
<1>5. ASSUME NEW b \in Bases, NEW n \in Lens, MarkAt(b, n)
      PROVE  Next
  <2>1. CASE has_provenance(b)
    <3>1. Scanned \subseteq AllSlots
      BY RegistryAssumption DEF Scanned, AllSlots, Pages, PageIds, RegistrySound, TypeOK
    <3>2. Matching(b) = {}
      BY <2>1, <3>1 DEF Matching, Beyond, has_provenance
    <3> QED
      BY <1>4, <1>5, <2>1, <3>2 DEF MarkAt
  <2>2. CASE ~has_provenance(b)
    BY <1>5, <2>2 DEF MarkAt, Next
  <2> QED
    BY <2>1, <2>2
<1>6. ASSUME NEW b \in Bases, NEW n \in Lens, UnmarkAt(b, n)
      PROVE  Next
  <2>1. CASE external_is_present(b)
    BY <1>6, <2>1 DEF UnmarkAt, Next
  <2>2. CASE ~external_is_present(b)
    <3>1. b > 0
      BY <1>6, RegistryAssumption DEF UnmarkAt
    <3>2. Matching(b) = {}
      BY <2>2, <3>1 DEF external_is_present
    <3> QED
      BY <1>4, <1>6, <2>2, <3>2 DEF UnmarkAt
  <2> QED
    BY <2>1, <2>2
<1> QED
  BY <1>1, <1>2, <1>3, <1>5, <1>6 DEF ApiNext

\* Registering an address outside the sheet keeps the ranges outside.
LEMMA StoreBeyond ==
  ASSUME RegistrySound, Beyond, NEW c \in AllSlots, NEW r, r.base \notin Cells,
         slot' = [slot EXCEPT ![c[1]][c[2]] = r]
  PROVE  Beyond'
<1>1. slot \in [PageIds -> [Index -> RangeRec \cup {Null}]]
  BY DEF RegistrySound, TypeOK
<1>2. ASSUME NEW d \in AllSlots
      PROVE  At(d)' = IF d = c THEN r ELSE At(d)
  <2>1. c = <<c[1], c[2]>> /\ d = <<d[1], d[2]>> /\ c[1] \in PageIds /\ c[2] \in Index /\ d[1] \in PageIds /\ d[2] \in Index
    BY DEF AllSlots
  <2> QED
    BY <1>1, <2>1 DEF At
<1> QED
  BY <1>2 DEF Beyond

\* Every call keeps the ranges outside the sheet.
LEMMA ApiBeyond ==
  ASSUME RegistrySound, Beyond, ApiNext
  PROVE  Beyond'
<1>1. ASSUME UNCHANGED slot
      PROVE  Beyond'
  BY <1>1 DEF Beyond, At
<1>2. Scanned \subseteq AllSlots /\ TailVacant \subseteq AllSlots
  BY RegistryAssumption DEF Scanned, TailVacant, AllSlots, Pages, PageIds, RegistrySound, TypeOK
<1>3. /\ n_pages > 0 => <<n_pages, 1>> \in AllSlots
      /\ n_pages < MaxPages => <<n_pages + 1, 1>> \in AllSlots
  BY RegistryAssumption DEF AllSlots, PageIds, Index, RegistrySound, TypeOK
<1>4. ASSUME NEW b \in Bases, NEW n \in Lens, b \notin Cells, register_external(b, n)
      PROVE  Beyond'
  <2>1. [base |-> b, len |-> n].base \notin Cells
    BY <1>4
  <2>2. ASSUME NEW c \in AllSlots, NEW hw, Store(c, b, n, hw)
        PROVE  Beyond'
    BY <2>1, <2>2, StoreBeyond DEF Store
  <2>3. ASSUME RegisterHead(b, n) PROVE Beyond'
    BY <1>3, <2>2, <2>3 DEF RegisterHead
  <2>4. ASSUME RegisterVacant(b, n) PROVE Beyond'
    BY <1>2, <2>2, <2>4 DEF RegisterVacant, Vacant, Enter
  <2>5. ASSUME RegisterTail(b, n) PROVE Beyond'
    BY <1>2, <2>2, <2>5 DEF RegisterTail, Enter
  <2>6. ASSUME RegisterPage(b, n) PROVE Beyond'
    BY <1>3, <2>2, <2>6 DEF RegisterPage, Enter
  <2>7. ASSUME RegisterRefused(b, n) PROVE Beyond'
    BY <1>1, <2>7 DEF RegisterRefused, Refuse
  <2> QED
    BY <1>4, <2>3, <2>4, <2>5, <2>6, <2>7 DEF register_external
<1>5. ASSUME NEW b \in Bases, NEW n \in Lens, unregister_external(b, n)
      PROVE  Beyond'
  <2>1. Null.base \notin Cells
    BY ApiAssumption DEF Null, Cells
  <2>2. ASSUME NEW c \in AllSlots, NEW hw, Clear(c, hw)
        PROVE  Beyond'
    BY <2>1, <2>2, StoreBeyond DEF Clear
  <2>3. ASSUME UnregisterHead(b, n) PROVE Beyond'
    BY <1>3, <2>2, <2>3 DEF UnregisterHead, AtHead
  <2>4. ASSUME UnregisterSlow(b, n) PROVE Beyond'
    BY <1>2, <2>2, <2>4 DEF UnregisterSlow, Matching
  <2>5. ASSUME UnregisterRefused(b, n) PROVE Beyond'
    BY <1>1, <2>5 DEF UnregisterRefused, Refuse
  <2> QED
    BY <1>5, <2>3, <2>4, <2>5 DEF unregister_external
<1>6. ASSUME Refuse PROVE Beyond'
  BY <1>1, <1>6 DEF Refuse
<1>7. ASSUME NEW b \in Bases, NEW n \in Lens, MarkAt(b, n) \/ UnmarkAt(b, n)
      PROVE  Beyond'
  BY <1>4, <1>5, <1>6, <1>7 DEF MarkAt, UnmarkAt, has_provenance
<1>8. ASSUME UNCHANGED vars PROVE Beyond'
  BY <1>1, <1>8 DEF vars
<1>9. CASE \E n \in Sizes, w \in BOOLEAN : Balloc(n, w) \/ AlignedBalloc(n, w)
  BY <1>8, <1>9 DEF Balloc, AlignedBalloc
<1>10. CASE \E h \in held, way \in Ways[zeroes] : Release(h, way)
  BY <1>8, <1>10 DEF Release
<1>11. CASE \E h \in held, n \in Sizes : Realloc(h, n) \/ CRealloc(h, n)
  BY <1>8, <1>11 DEF Realloc, CRealloc
<1> QED
  BY <1>7, <1>9, <1>10, <1>11 DEF ApiNext

\* The registry of a program is sound and has no range in the sheet.
LEMMA ApiRegistry == ApiSpec => [](RegistrySound /\ Beyond)
<1>1. ApiInit => RegistrySound /\ Beyond
  <2> SUFFICES ASSUME ApiInit PROVE RegistrySound /\ Beyond
    OBVIOUS
  <2>1. RegistrySound
    BY InitSound DEF ApiInit
  <2>2. \A c \in AllSlots : At(c) = Null
    BY DEF ApiInit, Init, AllSlots, At
  <2> QED
    BY <2>1, <2>2, ApiAssumption DEF Beyond, Null, Cells
<1>2. RegistrySound /\ Beyond /\ [ApiNext]_<<vars, apiVars>> => (RegistrySound /\ Beyond)'
  <2> SUFFICES ASSUME RegistrySound, Beyond, [ApiNext]_<<vars, apiVars>> PROVE (RegistrySound /\ Beyond)'
    OBVIOUS
  <2>1. CASE ApiNext
    BY <2>1, ApiStepIsCall, ApiBeyond, StepSound, StutterSound
  <2>2. CASE UNCHANGED <<vars, apiVars>>
    BY <2>2, StutterSound DEF Beyond, At, vars
  <2> QED
    BY <2>1, <2>2
<1> QED
  BY <1>1, <1>2, PTL DEF ApiSpec

(***************************************************************************)
(* Seen through its variables alone, the registry under mark_at, unmark_at *)
(* and all other calls behaves as under register_external and              *)
(* unregister_external: what is proved above of the registry holds of the  *)
(* program.                                                                *)
(***************************************************************************)
THEOREM ApiUsesRegistry == ApiSpec => Spec
<1>1. ApiInit => Init
  BY DEF ApiInit
<1>2. RegistrySound /\ Beyond /\ [ApiNext]_<<vars, apiVars>> => [Next]_vars
  BY ApiStepIsCall
<1> QED
  BY <1>1, <1>2, ApiRegistry, PTL DEF ApiSpec, Spec

\* The units of blocks in use.
LEMMA TakenIs ==
  ASSUME NEW m, m \in Mems, NEW u
  PROVE  u \in Taken(m) <=> \E b \in m.blocks : u \in Nat /\ b.off <= u /\ u < b.off + b.len
<1>1. \A b \in m.blocks : u \in Span(b) <=> u \in Nat /\ b.off <= u /\ u < b.off + b.len
  <2> SUFFICES ASSUME NEW b \in m.blocks
               PROVE  u \in Span(b) <=> u \in Nat /\ b.off <= u /\ u < b.off + b.len
    OBVIOUS
  <2>1. b.off \in Nat /\ b.len \in Nat
    BY ApiAssumption DEF Mems, Block, Cells
  <2> QED
    BY <2>1 DEF Span
<1> QED
  BY <1>1 DEF Taken

\* The free units from a free unit on are an interval.
LEMMA GapIs ==
  ASSUME NEW m, m \in Mems, NEW u \in Cells \ Taken(m)
  PROVE  /\ Cardinality(Gap(m, u)) \in Nat
         /\ \A k \in Nat : k < Cardinality(Gap(m, u)) => u + k \in Cells \ Taken(m)
<1>1. u \in Nat /\ u >= 1 /\ u <= Units /\ Units \in Nat
  BY ApiAssumption DEF Cells
<1>2. Gap(m, u) \in SUBSET (0 .. Units)
  BY <1>1 DEF Gap, Cells
<1>3. u \in Gap(m, u)
  <2>1. u .. u = {u}
    BY <1>1
  <2> QED
    BY <1>1, <2>1 DEF Gap
<1>4. PICK w \in Gap(m, u) : \A v \in Gap(m, u) : v <= w
  BY <1>1, <1>2, <1>3, HasLargest
<1>5. w \in Cells /\ w \in Nat /\ u <= w /\ w <= Units /\ u .. w \cap Taken(m) = {}
  BY <1>1 DEF Gap, Cells
<1>6. Gap(m, u) = u .. w
  <2>1. ASSUME NEW v \in u .. w PROVE v \in Gap(m, u)
    <3>1. v \in Cells /\ u <= v /\ u .. v \subseteq u .. w
      BY <1>1, <1>5, <2>1 DEF Cells
    <3> QED
      BY <1>5, <3>1 DEF Gap
  <2>2. ASSUME NEW v \in Gap(m, u) PROVE v \in u .. w
    <3>1. v \in Cells /\ u <= v /\ v <= w
      BY <1>4 DEF Gap
    <3> QED
      BY <1>1, <1>5, <3>1 DEF Cells
  <2> QED
    BY <2>1, <2>2
<1>7. Cardinality(u .. w) = w - u + 1
  BY <1>1, <1>5, FS_Interval
<1>8. ASSUME NEW k \in Nat, k < w - u + 1
      PROVE  u + k \in Cells \ Taken(m)
  <2>1. u + k \in u .. w /\ u + k \in Cells
    BY <1>1, <1>5, <1>8 DEF Cells
  <2> QED
    BY <1>5, <2>1
<1> QED
  BY <1>1, <1>5, <1>6, <1>7, <1>8

\* A block that find_free may hand out is large enough and clear of the others.
LEMMA CandidateIs ==
  ASSUME Kind = "tlsf", NEW m, m \in Mems, NEW n \in Nat, NEW b \in Candidates(m, n)
  PROVE  b \in Block /\ b.len >= n + 1 /\ \A c \in m.blocks : ClearOf(b, c)
<1> DEFINE need == Max({n + 1, 2})
           cut(u) == IF Cardinality(Gap(m, u)) - need < 2 THEN Cardinality(Gap(m, u)) ELSE need
<1>1. need \in Nat /\ need >= n + 1 /\ need >= 2
  <2>1. \E x \in {n + 1, 2} : \A y \in {n + 1, 2} : x >= y
    <3>1. CASE n + 1 >= 2
      BY <3>1
    <3>2. CASE ~(n + 1 >= 2)
      BY <3>2
    <3> QED
      BY <3>1, <3>2
  <2>2. need \in {n + 1, 2} /\ \A y \in {n + 1, 2} : need >= y
    BY <2>1 DEF Max
  <2> QED
    BY <2>2
<1> HIDE DEF need
<1>2. PICK u \in GapStarts(m) : Cardinality(Gap(m, u)) >= need /\ b = [off |-> u, len |-> cut(u)]
  BY DEF Candidates, need
<1>3. u \in Cells \ Taken(m)
  BY DEF GapStarts
<1> DEFINE g == Cardinality(Gap(m, u))
<1>4. g \in Nat /\ \A k \in Nat : k < g => u + k \in Cells \ Taken(m)
  BY <1>3, GapIs
<1>5. g >= need /\ b.off = u /\ b.len = (IF g - need < 2 THEN g ELSE need) /\ b = [off |-> u, len |-> b.len]
  BY <1>2
<1> HIDE DEF g
<1>6. b.len \in Nat /\ b.len >= need /\ b.len <= g
  BY <1>1, <1>4, <1>5
<1>7. u \in Nat /\ u >= 1 /\ u <= Units /\ Units \in Nat
  BY <1>3, ApiAssumption DEF Cells
<1>8. b.off + b.len <= Units + 1
  <2>1. u + (b.len - 1) \in Cells
    BY <1>1, <1>4, <1>6
  <2> QED
    BY <1>5, <1>6, <1>7, <2>1 DEF Cells
<1>9. b \in Block
  <2>1. b \in [off : Cells, len : Nat]
    BY <1>3, <1>5, <1>6
  <2> QED
    BY <1>1, <1>6, <1>8, <2>1 DEF Block
<1>10. ASSUME NEW c \in m.blocks
       PROVE  ClearOf(b, c)
  <2>1. c.off \in Nat /\ c.len \in Nat /\ c.len >= 2
    BY ApiAssumption DEF Mems, Block, Cells
  <2>2. ASSUME c.off <= u, u < c.off + c.len PROVE FALSE
    BY <1>3, <1>7, <2>2, TakenIs
  <2>3. ASSUME u <= c.off, c.off < u + b.len PROVE FALSE
    <3>1. c.off - u \in Nat /\ c.off - u < g /\ u + (c.off - u) = c.off
      BY <1>4, <1>6, <1>7, <2>1, <2>3
    <3>2. c.off \notin Taken(m)
      BY <1>4, <3>1
    <3>3. c.off <= c.off /\ c.off < c.off + c.len
      BY <2>1
    <3> QED
      BY <2>1, <3>2, <3>3, TakenIs
  <2> QED
    BY <1>5, <1>6, <1>7, <2>1, <2>2, <2>3 DEF ClearOf
<1> QED
  BY <1>1, <1>6, <1>9, <1>10

\* A unit of a block in use is a cell.
LEMMA BlockCells ==
  ASSUME NEW b \in Block
  PROVE  /\ b.off \in Nat /\ b.off >= 1 /\ b.len \in Nat /\ b.len >= 2 /\ b.off \in Cells
         /\ \A u \in Nat : b.off <= u /\ u < b.off + b.len => u \in Cells
         /\ Units \in Nat /\ b.off + b.len <= Units + 1
BY ApiAssumption DEF Block, Cells

\* t has what m has in the blocks B.
Same(m, t, B) ==
  \A c \in B : \A u \in Nat : c.off <= u /\ u < c.off + c.len => t.lo[u] = m.lo[u] /\ t.hi[u] = m.hi[u]

\* t is m with block b handed out, its user part cleared below p in a build that clears.
Added(m, t, b, p) ==
  /\ t \in Mems /\ t.blocks = m.blocks \cup {b}
  /\ Same(m, t, m.blocks)
  /\ t.hi[b.off] = NoRaw
  /\ zeroes => \A u \in Nat : b.off < u /\ u < p => t.lo[u] = "free"

\* t is m without block b.
Dropped(m, t, b) ==
  /\ t \in Mems /\ t.blocks = m.blocks \ {b}
  /\ Same(m, t, t.blocks)

\* Where the allocator writes when it hands out b.
LEMMA TakeAdds ==
  ASSUME Kind = "tlsf", NEW m, Sheet(m), NEW b \in Block, \A c \in m.blocks : ClearOf(b, c)
  PROVE  /\ Take(m, b) \in Mems /\ Take(m, b).blocks = m.blocks \cup {b}
         /\ Same(m, Take(m, b), m.blocks) /\ Take(m, b).hi[b.off] = NoRaw
<1> DEFINE hdrs == {b.off} \cup ({b.off + b.len} \cap (Cells \ Taken(m)))
           lo == [u \in Cells |-> IF u = b.off THEN "set" ELSE IF u \in hdrs THEN "free" ELSE m.lo[u]]
           hi == [u \in Cells |-> IF u \in hdrs THEN NoRaw ELSE m.hi[u]]
           t == [blocks |-> m.blocks \cup {b}, lo |-> lo, hi |-> hi]
<1>1. Take(m, b) = t
  BY Zenon DEF Take
<1>2. m \in Mems
  BY DEF Sheet
<1>3. m.blocks \in SUBSET Block /\ m.lo \in [Cells -> {"free", "set"}] /\ m.hi \in [Cells -> Nat]
  BY <1>2 DEF Mems
<1>4. lo \in [Cells -> {"free", "set"}] /\ hi \in [Cells -> Nat]
  BY <1>3 DEF NoRaw
<1>5. hi[b.off] = NoRaw
  BY BlockCells
<1>6. ASSUME NEW c \in m.blocks, NEW u \in Nat, c.off <= u, u < c.off + c.len
      PROVE  lo[u] = m.lo[u] /\ hi[u] = m.hi[u]
  <2>1. c \in Block /\ u \in Cells
    BY <1>3, <1>6, BlockCells
  <2>2. u \in Taken(m)
    BY <1>2, <1>6, TakenIs
  <2>3. u # b.off
    <3>1. ClearOf(b, c) /\ b.off \in Nat /\ b.len \in Nat /\ b.len >= 2 /\ c.off \in Nat /\ c.len \in Nat
      BY <2>1, BlockCells
    <3> QED
      BY <1>6, <3>1 DEF ClearOf
  <2> QED
    BY <2>1, <2>2, <2>3
<1> HIDE DEF lo, hi
<1>7. t \in Mems
  BY <1>3, <1>4 DEF Mems
<1>8. t.lo = lo /\ t.hi = hi /\ t.blocks = m.blocks \cup {b}
  OBVIOUS
<1>9. Same(m, t, m.blocks)
  BY <1>6, <1>8 DEF Same
<1> HIDE DEF t
<1> QED
  BY <1>1, <1>5, <1>7, <1>8, <1>9

\* Writing some units of block b in a sheet where it was handed out.
LEMMA WriteAdds ==
  ASSUME NEW m, Sheet(m), NEW b \in Block, \A c \in m.blocks : ClearOf(b, c),
         NEW t, t \in Mems, t.blocks = m.blocks \cup {b}, Same(m, t, m.blocks),
         NEW r, r \in Mems, r.blocks = t.blocks,
         \A u \in Cells : u < b.off \/ b.off + b.len <= u => r.lo[u] = t.lo[u] /\ r.hi[u] = t.hi[u]
  PROVE  Same(m, r, m.blocks)
<1> SUFFICES ASSUME NEW c \in m.blocks, NEW u \in Nat, c.off <= u, u < c.off + c.len
             PROVE  r.lo[u] = m.lo[u] /\ r.hi[u] = m.hi[u]
  BY DEF Same
<1>1. c \in Block
  BY DEF Sheet, Mems
<1>2. u \in Cells /\ c.off \in Nat /\ c.len \in Nat /\ b.off \in Nat /\ b.len \in Nat
  BY <1>1, BlockCells
<1>3. u < b.off \/ b.off + b.len <= u
  BY <1>2 DEF ClearOf
<1> QED
  BY <1>2, <1>3 DEF Same

\* push: a block is handed out, cleared if the build does.
LEMMA GrantedAdds ==
  ASSUME Kind = "tlsf", NEW m, Sheet(m), NEW b \in Block, \A c \in m.blocks : ClearOf(b, c)
  PROVE  Added(m, Granted(m, b), b, b.off + b.len)
<1> DEFINE t == Take(m, b)
           lo == [u \in Cells |-> IF u \in UserPtr(b) .. LastUser(b) THEN "free" ELSE t.lo[u]]
           hi == [u \in Cells |-> IF u \in UserPtr(b) .. LastUser(b) THEN NoRaw ELSE t.hi[u]]
           r == [t EXCEPT !.lo = lo, !.hi = hi]
<1>1. t \in Mems /\ t.blocks = m.blocks \cup {b} /\ Same(m, t, m.blocks) /\ t.hi[b.off] = NoRaw
  BY TakeAdds
<1>2. Granted(m, b) = IF zeroes THEN r ELSE t
  BY Zenon DEF Granted
<1> HIDE DEF t
<1>3. CASE ~zeroes
  BY <1>1, <1>2, <1>3 DEF Added
<1>4. CASE zeroes
  <2>1. b.off \in Nat /\ b.len \in Nat /\ UserPtr(b) = b.off + 1 /\ LastUser(b) = b.off + b.len - 1
        /\ b.off \in Cells
    BY BlockCells DEF UserPtr, LastUser
  <2>2. lo \in [Cells -> {"free", "set"}] /\ hi \in [Cells -> Nat]
    BY <1>1 DEF Mems, NoRaw
  <2>3. \A u \in Nat : b.off < u /\ u < b.off + b.len => lo[u] = "free"
    BY <2>1, BlockCells
  <2>4. hi[b.off] = NoRaw
    BY <1>1, <2>1
  <2>5. \A u \in Cells : u < b.off \/ b.off + b.len <= u => lo[u] = t.lo[u] /\ hi[u] = t.hi[u]
    BY <2>1, ApiAssumption DEF Cells
  <2> HIDE DEF lo, hi
  <2>6. r \in Mems /\ r.blocks = t.blocks /\ r.lo = lo /\ r.hi = hi
    BY <1>1, <2>2 DEF Mems
  <2> HIDE DEF r
  <2>7. Same(m, r, m.blocks)
    <3>1. \A u \in Cells : u < b.off \/ b.off + b.len <= u => r.lo[u] = t.lo[u] /\ r.hi[u] = t.hi[u]
      BY <2>5, <2>6
    <3> QED
      BY <1>1, <2>6, <3>1, WriteAdds
  <2> QED
    BY <1>1, <1>2, <1>4, <2>3, <2>4, <2>6, <2>7 DEF Added
<1> QED
  BY <1>3, <1>4

\* The caller writes from p on, or does not.
LEMMA WrittenAdds ==
  ASSUME Kind = "tlsf", NEW m, Sheet(m), NEW b \in Block, \A c \in m.blocks : ClearOf(b, c),
         NEW t, NEW q \in Nat, NEW p \in Nat, Added(m, t, b, q), p <= q, b.off < p, p <= b.off + b.len, NEW w \in BOOLEAN
  PROVE  /\ Added(m, Written(t, b, p, w), b, p)
         /\ \A u \in Cells : u < p => Written(t, b, p, w).hi[u] = t.hi[u]
<1> DEFINE lo == [u \in Cells |-> IF u \in p .. LastUser(b) THEN "set" ELSE t.lo[u]]
           hi == [u \in Cells |-> IF u \in p .. LastUser(b) THEN NoRaw ELSE t.hi[u]]
           r == [t EXCEPT !.lo = lo, !.hi = hi]
<1>1. t \in Mems /\ t.blocks = m.blocks \cup {b} /\ Same(m, t, m.blocks) /\ t.hi[b.off] = NoRaw
      /\ (zeroes => \A u \in Nat : b.off < u /\ u < q => t.lo[u] = "free")
  BY DEF Added
<1>2. Written(t, b, p, w) = IF w THEN r ELSE t
  BY Zenon DEF Written, Fill
<1>3. CASE ~w
  BY <1>1, <1>2, <1>3 DEF Added
<1>4. CASE w
  <2>1. b.off \in Nat /\ b.len \in Nat /\ LastUser(b) = b.off + b.len - 1 /\ b.off \in Cells
        /\ \A u \in Nat : b.off < u /\ u < p => (u \in Cells \/ b.off + b.len <= u)
    BY BlockCells DEF LastUser
  <2>2. lo \in [Cells -> {"free", "set"}] /\ hi \in [Cells -> Nat]
    BY <1>1 DEF Mems, NoRaw
  <2>3. \A u \in Cells : u < p => lo[u] = t.lo[u] /\ hi[u] = t.hi[u]
    BY <2>1, ApiAssumption DEF Cells
  <2>4. \A u \in Cells : u < b.off \/ b.off + b.len <= u => lo[u] = t.lo[u] /\ hi[u] = t.hi[u]
    BY <2>1, ApiAssumption DEF Cells
  <2> HIDE DEF lo, hi
  <2>5. r \in Mems /\ r.blocks = t.blocks /\ r.lo = lo /\ r.hi = hi
    BY <1>1, <2>2 DEF Mems
  <2> HIDE DEF r
  <2>6. Same(m, r, m.blocks)
    <3>1. \A u \in Cells : u < b.off \/ b.off + b.len <= u => r.lo[u] = t.lo[u] /\ r.hi[u] = t.hi[u]
      BY <2>4, <2>5
    <3> QED
      BY <1>1, <2>5, <3>1, WriteAdds
  <2>7. r.hi[b.off] = NoRaw
    BY <1>1, <2>1, <2>3, <2>5
  <2>8. ASSUME zeroes, p <= b.off + b.len
        PROVE  \A u \in Nat : b.off < u /\ u < p => r.lo[u] = "free"
    BY <1>1, <2>1, <2>3, <2>5, <2>8
  <2> QED
    BY <1>1, <1>2, <1>4, <2>3, <2>5, <2>6, <2>7, <2>8 DEF Added
<1> QED
  BY <1>3, <1>4

\* Memory t with the prefix of p written.
Prefixed(t, p, v) == [t EXCEPT !.hi[p - 1] = v]

\* The prefix of an over-aligned pointer lies in the user part of its block.
LEMMA PrefixAdds ==
  ASSUME NEW m, Sheet(m), NEW b \in Block, \A c \in m.blocks : ClearOf(b, c),
         NEW t, NEW p \in Nat, NEW q, Added(m, t, b, q),
         b.off + 2 <= p, p <= b.off + b.len, NEW v \in Nat
  PROVE  Added(m, Prefixed(t, p, v), b, q) /\ Prefixed(t, p, v).hi[p - 1] = v
<1> DEFINE hi == [t.hi EXCEPT ![p - 1] = v]
           r == Prefixed(t, p, v)
<1>1. t \in Mems /\ t.blocks = m.blocks \cup {b} /\ Same(m, t, m.blocks) /\ t.hi[b.off] = NoRaw
      /\ (zeroes => \A u \in Nat : b.off < u /\ u < q => t.lo[u] = "free")
  BY DEF Added
<1>2. b.off \in Nat /\ b.len \in Nat /\ b.off \in Cells /\ p - 1 \in Cells /\ p - 1 # b.off /\ p - 1 \in Nat
  BY BlockCells
<1>3. hi \in [Cells -> Nat] /\ hi[p - 1] = v /\ \A u \in Cells : u # p - 1 => hi[u] = t.hi[u]
  BY <1>1, <1>2 DEF Mems
<1> HIDE DEF hi
<1>4. r \in Mems /\ r.blocks = t.blocks /\ r.lo = t.lo /\ r.hi = hi
  BY <1>1, <1>3 DEF Mems, hi, Prefixed
<1> HIDE DEF r
<1>5. \A u \in Cells : u < b.off \/ b.off + b.len <= u => r.lo[u] = t.lo[u] /\ r.hi[u] = t.hi[u]
  <2> SUFFICES ASSUME NEW u \in Cells, u < b.off \/ b.off + b.len <= u PROVE hi[u] = t.hi[u]
    BY <1>4
  <2>1. u # p - 1
    BY <1>2, ApiAssumption DEF Cells
  <2> QED
    BY <1>3, <2>1
<1>6. Same(m, r, m.blocks)
  BY <1>1, <1>4, <1>5, WriteAdds
<1>7. Added(m, r, b, q) /\ r.hi[p - 1] = v
  BY <1>1, <1>2, <1>3, <1>4, <1>6 DEF Added
<1> QED
  BY <1>7 DEF r

\* coalesce_and_free writes in no block that stays in use.
LEMMA GiveDrops ==
  ASSUME Kind = "tlsf", NEW m, Sheet(m), NEW b \in m.blocks
  PROVE  Dropped(m, Give(m, b), b)
<1> DEFINE rest == [m EXCEPT !.blocks = @ \ {b}]
           S == {u \in GapStarts(rest) : u <= b.off}
           first == Max(S)
           t == [rest EXCEPT !.lo[first] = "free", !.hi[first] = NoRaw]
<1>1. Give(m, b) = t
  BY Zenon DEF Give
<1>2. m \in Mems /\ b \in Block /\ \A c \in m.blocks : c # b => ClearOf(b, c)
  BY DEF Sheet, Mems
<1>3. rest \in Mems /\ rest.blocks = m.blocks \ {b} /\ rest.lo = m.lo /\ rest.hi = m.hi
  BY <1>2 DEF Mems
<1> HIDE DEF rest
<1>4. b.off \in Nat /\ b.off >= 1 /\ b.len \in Nat /\ b.len >= 2 /\ b.off \in Cells /\ Units \in Nat /\ b.off <= Units
  BY <1>2, BlockCells
<1>5. b.off \notin Taken(rest)
  <2> SUFFICES ASSUME b.off \in Taken(rest) PROVE FALSE
    OBVIOUS
  <2>1. PICK c \in rest.blocks : c.off <= b.off /\ b.off < c.off + c.len
    BY <1>3, TakenIs
  <2>2. ClearOf(b, c) /\ c \in Block
    BY <1>2, <1>3, <2>1 DEF Mems
  <2>3. c.off \in Nat /\ c.len \in Nat
    BY <2>2, BlockCells
  <2> QED
    BY <1>4, <2>1, <2>2, <2>3 DEF ClearOf
<1> DEFINE G == {v \in Cells : v <= b.off /\ v .. b.off \cap Taken(rest) = {}}
<1>6. PICK g \in G : \A v \in G : g <= v
  <2>1. b.off .. b.off = {b.off}
    BY <1>4
  <2>2. b.off \in G
    BY <1>4, <1>5, <2>1
  <2>3. G \in SUBSET Nat
    BY DEF Cells
  <2> HIDE DEF G
  <2> QED
    BY <2>2, <2>3, HasSmallest
<1>7. g \in Cells /\ g \in Nat /\ g >= 1 /\ g <= b.off /\ g .. b.off \cap Taken(rest) = {}
  BY <1>4 DEF Cells
<1>8. g \in S
  <2>1. g \in g .. b.off
    BY <1>4, <1>7
  <2>2. g \notin Taken(rest)
    BY <1>7, <2>1
  <2>3. ASSUME g # 1, (g - 1) \notin Taken(rest) PROVE FALSE
    <3>1. g - 1 \in Cells /\ g - 1 <= b.off
      BY <1>4, <1>7, <2>3 DEF Cells
    <3>2. (g - 1) .. b.off = {g - 1} \cup (g .. b.off)
      BY <1>4, <1>7
    <3>3. g - 1 \in G
      BY <1>7, <2>3, <3>1, <3>2
    <3>4. g <= g - 1
      BY <1>6, <3>3
    <3> QED
      BY <1>7, <3>4
  <2> QED
    BY <1>7, <2>2, <2>3 DEF GapStarts
<1>9. first \in Cells \ Taken(rest)
  <2>1. S \in SUBSET (0 .. b.off)
    BY <1>4 DEF GapStarts, Cells
  <2> HIDE DEF S
  <2>2. \E x \in S : \A y \in S : y <= x
    BY <1>4, <1>8, <2>1, HasLargest
  <2>3. \E x \in S : \A y \in S : x >= y
    <3>1. PICK x \in S : \A y \in S : y <= x
      BY <2>2
    <3>2. \A y \in S : x >= y
      BY <1>4, <2>1, <3>1
    <3> QED
      BY <3>2
  <2>4. Max(S) \in S
    BY <2>3 DEF Max
  <2> QED
    BY <2>4 DEF S, GapStarts
<1> HIDE DEF first
<1>10. t \in Mems /\ t.blocks = m.blocks \ {b}
       /\ t.lo = [m.lo EXCEPT ![first] = "free"] /\ t.hi = [m.hi EXCEPT ![first] = NoRaw]
  BY <1>3, <1>9 DEF Mems, NoRaw
<1> HIDE DEF t
<1>11. ASSUME NEW c \in t.blocks, NEW u \in Nat, c.off <= u, u < c.off + c.len
       PROVE  t.lo[u] = m.lo[u] /\ t.hi[u] = m.hi[u]
  <2>1. u \in Taken(rest)
    BY <1>3, <1>10, <1>11, TakenIs
  <2>2. u \in Cells
    BY <1>2, <1>10, <1>11, BlockCells DEF Mems
  <2> QED
    BY <1>2, <1>9, <1>10, <2>1, <2>2 DEF Mems
<1>12. Dropped(m, t, b)
  BY <1>10, <1>11 DEF Dropped, Same
<1> QED
  BY <1>1, <1>12

\* A pointer that names a block in use names no other.
LEMMA NamedIs ==
  ASSUME Kind = "tlsf", NEW m, Sheet(m), NEW b \in m.blocks
  PROVE  Named(m, b.off + 1) = {b} /\ Pop(m, b.off + 1) = Give(m, b)
<1>1. \A c \in m.blocks : UserPtr(c) = c.off + 1 /\ c.off \in Nat /\ c.len \in Nat /\ c.len >= 2
  BY BlockCells DEF Sheet, Mems, UserPtr
<1>2. ASSUME NEW c \in m.blocks, UserPtr(c) = b.off + 1 PROVE c = b
  <2> SUFFICES ASSUME c # b PROVE FALSE
    OBVIOUS
  <2>1. ClearOf(b, c)
    BY DEF Sheet
  <2> QED
    BY <1>1, <1>2, <2>1 DEF ClearOf
<1>3. {c \in m.blocks : UserPtr(c) = b.off + 1} = {b}
  BY <1>1, <1>2
<1>4. Named(m, b.off + 1) = {b}
  BY <1>3 DEF Named
<1>5. (CHOOSE c \in m.blocks : UserPtr(c) = b.off + 1) = b
  <2>1. \E c \in m.blocks : UserPtr(c) = b.off + 1
    BY <1>1
  <2>2. (CHOOSE c \in m.blocks : UserPtr(c) = b.off + 1) \in m.blocks
        /\ UserPtr(CHOOSE c \in m.blocks : UserPtr(c) = b.off + 1) = b.off + 1
    BY <2>1
  <2> QED
    BY <1>2, <2>2
<1>6. Named(m, b.off + 1) \subseteq m.blocks /\ Named(m, b.off + 1) # {}
  BY <1>4
<1> QED
  BY <1>4, <1>5, <1>6, Zenon DEF Pop

\* A block handed out, with its holder.
LEMMA HeldAdds ==
  ASSUME NEW m, Sheet(m), NEW S, Held(m, S), NEW b \in Block, \A c \in m.blocks : ClearOf(b, c),
         NEW t, NEW p, Added(m, t, b, p), NEW g, Handle(g), g.blk = b, Kept(t, g)
  PROVE  Sheet(t) /\ Held(t, S \cup {g}) /\ b \notin m.blocks
<1>1. t \in Mems /\ t.blocks = m.blocks \cup {b} /\ Same(m, t, m.blocks) /\ t.hi[b.off] = NoRaw
  BY DEF Added
<1>2. \A c \in m.blocks : c \in Block
  BY DEF Sheet, Mems
<1>3. b \notin m.blocks
  <2> SUFFICES ASSUME b \in m.blocks PROVE FALSE
    OBVIOUS
  <2>1. ClearOf(b, b) /\ b.off \in Nat /\ b.len \in Nat /\ b.len >= 2
    BY BlockCells
  <2> QED
    BY <2>1 DEF ClearOf
<1>4. \A c, d \in t.blocks : c # d => ClearOf(c, d)
  BY <1>1 DEF Sheet, ClearOf
<1>5. \A c \in t.blocks : t.hi[c.off] = NoRaw
  <2> SUFFICES ASSUME NEW c \in m.blocks PROVE t.hi[c.off] = NoRaw
    BY <1>1
  <2>1. c.off \in Nat /\ c.off <= c.off /\ c.off < c.off + c.len
    BY <1>2, BlockCells
  <2> QED
    BY <1>1, <2>1 DEF Same, Sheet
<1>6. ASSUME NEW h \in S PROVE Handle(h) /\ h.blk \in t.blocks /\ Kept(t, h)
  <2>1. Handle(h) /\ h.blk \in m.blocks /\ Kept(m, h)
    BY DEF Held
  <2>2. Kept(t, h)
    <3> SUFFICES ASSUME h.aligned PROVE t.hi[h.ptr - 1] = m.hi[h.ptr - 1] /\ t.lo[h.ptr - 1] = m.lo[h.ptr - 1]
      BY <2>1 DEF Kept
    <3>1. h.ptr \in Nat /\ h.blk.off \in Nat /\ h.blk.len \in Nat
      BY <1>2, <2>1, BlockCells DEF Handle, Handles
    <3>2. h.ptr - 1 \in Nat /\ h.blk.off <= h.ptr - 1 /\ h.ptr - 1 < h.blk.off + h.blk.len
      BY <2>1, <3>1 DEF Handle
    <3> QED
      BY <1>1, <2>1, <3>2 DEF Same
  <2> QED
    BY <1>1, <2>1, <2>2
<1>7. \A c \in t.blocks : \E h \in S \cup {g} : h.blk = c
  BY <1>1 DEF Held
<1>8. \A h \in S : h.blk # g.blk
  BY <1>3 DEF Held
<1>9. \A h, k \in S \cup {g} : h.blk = k.blk => h = k
  BY <1>8 DEF Held
<1>10. g.blk \in t.blocks
  BY <1>1
<1> QED
  BY <1>1, <1>3, <1>4, <1>5, <1>6, <1>7, <1>9, <1>10 DEF Sheet, Held

\* A block given back by its holder.
LEMMA HeldDrops ==
  ASSUME NEW m, Sheet(m), NEW S, Held(m, S), NEW g \in S, NEW t, Dropped(m, t, g.blk)
  PROVE  Sheet(t) /\ Held(t, S \ {g})
<1>1. t \in Mems /\ t.blocks = m.blocks \ {g.blk} /\ Same(m, t, t.blocks)
  BY DEF Dropped
<1>2. \A c \in t.blocks : c \in Block /\ c \in m.blocks
  BY <1>1 DEF Mems
<1>3. \A c, d \in t.blocks : c # d => ClearOf(c, d)
  BY <1>2 DEF Sheet
<1>4. \A c \in t.blocks : t.hi[c.off] = NoRaw
  <2> SUFFICES ASSUME NEW c \in t.blocks PROVE t.hi[c.off] = NoRaw
    OBVIOUS
  <2>1. c.off \in Nat /\ c.off <= c.off /\ c.off < c.off + c.len
    BY <1>2, BlockCells
  <2> QED
    BY <1>1, <1>2, <2>1 DEF Same, Sheet
<1>5. ASSUME NEW h \in S \ {g} PROVE Handle(h) /\ h.blk \in t.blocks /\ Kept(t, h)
  <2>1. Handle(h) /\ h.blk \in m.blocks /\ Kept(m, h) /\ h.blk # g.blk
    BY DEF Held
  <2>2. h.blk \in t.blocks
    BY <1>1, <2>1
  <2>3. Kept(t, h)
    <3> SUFFICES ASSUME h.aligned PROVE t.hi[h.ptr - 1] = m.hi[h.ptr - 1] /\ t.lo[h.ptr - 1] = m.lo[h.ptr - 1]
      BY <2>1 DEF Kept
    <3>1. h.ptr \in Nat /\ h.blk.off \in Nat /\ h.blk.len \in Nat
      BY <1>2, <2>1, <2>2, BlockCells DEF Handle, Handles
    <3>2. h.ptr - 1 \in Nat /\ h.blk.off <= h.ptr - 1 /\ h.ptr - 1 < h.blk.off + h.blk.len
      BY <2>1, <3>1 DEF Handle
    <3> QED
      BY <1>1, <2>2, <3>2 DEF Same
  <2> QED
    BY <2>1, <2>2, <2>3
<1>6. \A c \in t.blocks : \E h \in S \ {g} : h.blk = c
  BY <1>1 DEF Held
<1>7. \A h, k \in S \ {g} : h.blk = k.blk => h = k
  BY DEF Held
<1> QED
  BY <1>1, <1>3, <1>4, <1>5, <1>6, <1>7 DEF Sheet, Held

\* Over-aligned pointers: behind the raw pointer, by the alignment at most.
LEMMA AlignedPtrIs ==
  ASSUME NEW b \in Block
  PROVE  /\ AlignedPtr(b.off + 1) \in Nat /\ (AlignedPtr(b.off + 1) - 1) % Align = 0
         /\ b.off + 2 <= AlignedPtr(b.off + 1) /\ AlignedPtr(b.off + 1) <= b.off + 1 + Align
<1> DEFINE o == b.off
           q == o \div Align
           p == AlignedPtr(o + 1)
<1>1. o \in Nat /\ Align \in Nat \ {0}
  BY BlockCells, ApiAssumption
<1>2. o = Align * q + (o % Align) /\ q \in Nat /\ o % Align \in 0 .. (Align - 1)
  BY <1>1, DivMod
<1>3. p = 1 + Align * (q + 1)
  <2>1. (o + 1) - 1 = o
    BY <1>1
  <2>2. p = 1 + Align * (((o + 1) - 1) \div Align + 1)
    BY Zenon DEF AlignedPtr
  <2> QED
    BY <2>1, <2>2, Zenon
<1> HIDE DEF p, q, o
<1>4. Align * (q + 1) = Align * q + Align /\ Align * q \in Nat
  BY <1>1, <1>2
<1>5. p \in Nat /\ o + 2 <= p /\ p <= o + 1 + Align /\ p - 1 = Align * (q + 1)
  BY <1>1, <1>2, <1>3, <1>4
<1>6. (Align * (q + 1)) % Align = 0
  BY <1>1, <1>2, MulMod
<1> QED
  BY <1>5, <1>6 DEF p, o

\* The base that free and realloc find for a pointer callers hold.
LEMMA BaseIs ==
  ASSUME Kind = "tlsf", ApiInv, NEW h \in held
  PROVE  /\ AlignedBaseOf(mem, h.ptr) = IF h.aligned THEN h.blk.off + 1 ELSE NoRaw
         /\ FreeTarget(mem, h.ptr) = h.blk.off + 1
         /\ h.blk.off + 1 \in Cells /\ is_present(mem, h.blk.off + 1)
         /\ h.blk.off + 1 # NoRaw /\ h.blk \in mem.blocks /\ Handle(h)
<1>1. Sheet(mem) /\ Handle(h) /\ h.blk \in mem.blocks /\ Kept(mem, h)
  BY DEF ApiInv, Held
<1>2. h.blk \in Block /\ h.ptr \in Nat /\ h.aligned \in BOOLEAN
  BY <1>1 DEF Handle, Handles
<1>3. h.blk.off \in Nat /\ h.blk.off >= 1 /\ h.blk.len \in Nat /\ h.blk.len >= 2 /\ h.blk.off + 1 \in Cells
  BY <1>2, BlockCells
<1>4. is_present(mem, h.blk.off + 1)
  <2>1. Named(mem, h.blk.off + 1) = {h.blk}
    BY <1>1, NamedIs
  <2> QED
    BY <1>3, <2>1 DEF is_present
<1>5. h.blk.off + 1 # NoRaw
  BY <1>3 DEF NoRaw
<1>6. CASE h.aligned
  <2>1. mem.hi[h.ptr - 1] = h.blk.off + 1 /\ h.blk.off + 2 <= h.ptr
    BY <1>1, <1>6 DEF Kept, Handle
  <2>2. h.ptr > 1 /\ h.blk.off + 1 < h.ptr
    BY <1>2, <1>3, <2>1
  <2>3. AlignedBaseOf(mem, h.ptr) = h.blk.off + 1
    BY <1>4, <1>5, <2>1, <2>2 DEF AlignedBaseOf
  <2> QED
    BY <1>1, <1>3, <1>4, <1>5, <1>6, <2>3 DEF FreeTarget
<1>7. CASE ~h.aligned
  <2>1. h.ptr = h.blk.off + 1
    BY <1>1, <1>7 DEF Handle
  <2>2. h.ptr - 1 = h.blk.off
    BY <1>3, <2>1
  <2>3. mem.hi[h.ptr - 1] = NoRaw
    BY <1>1, <2>2 DEF Sheet
  <2>4. AlignedBaseOf(mem, h.ptr) = NoRaw
    BY <2>3 DEF AlignedBaseOf
  <2> QED
    BY <1>1, <1>3, <1>4, <1>5, <1>7, <2>1, <2>4 DEF FreeTarget
<1> QED
  BY <1>2, <1>6, <1>7

\* aligned_free does not take an over-aligned pointer for a block in a build
\* that clears memory.
LEMMA AlignedIsAbsent ==
  ASSUME Kind = "tlsf", ApiInv, RegistrySound, Beyond, zeroes, NEW h \in held, h.aligned
  PROVE  ~is_present(mem, h.ptr)
<1>1. Sheet(mem) /\ Handle(h) /\ h.blk \in mem.blocks /\ Kept(mem, h)
  BY DEF ApiInv, Held
<1>2. h.blk \in Block /\ h.ptr \in Nat
  BY <1>1 DEF Handle, Handles
<1>3. h.blk.off \in Nat /\ h.blk.len \in Nat /\ Units \in Nat /\ h.blk.off + h.blk.len <= Units + 1
  BY <1>2, BlockCells
<1>4. h.blk.off + 2 <= h.ptr /\ h.ptr <= h.blk.off + h.blk.len /\ mem.lo[h.ptr - 1] = "free"
  BY <1>1 DEF Handle, Kept
<1>5. ASSUME NEW c \in mem.blocks, UserPtr(c) = h.ptr PROVE FALSE
  <2>1. c \in Block
    BY <1>1 DEF Sheet, Mems
  <2>2. c.off \in Nat /\ c.len \in Nat /\ c.len >= 2 /\ c.off + 1 = h.ptr
    BY <1>5, <2>1, BlockCells DEF UserPtr
  <2>3. c # h.blk
    BY <1>3, <1>4, <2>2
  <2>4. ClearOf(h.blk, c)
    BY <1>1, <2>3 DEF Sheet
  <2> QED
    BY <1>2, <1>3, <1>4, <2>2, <2>4 DEF ClearOf
<1>6. Named(mem, h.ptr) = {}
  <2>1. {c \in mem.blocks : UserPtr(c) = h.ptr} = {}
    BY <1>5
  <2> QED
    BY <1>4, <2>1 DEF Named
<1>7. h.ptr \in Cells
  <2>1. h.ptr + UnitsOf(h.n) <= h.blk.off + h.blk.len /\ h.n \in Nat \ {0}
    BY <1>1 DEF Handle, Handles
  <2>2. UnitsOf(h.n) \in Nat /\ UnitsOf(h.n) >= 1
    BY <2>1 DEF UnitsOf
  <2> QED
    BY <1>2, <1>3, <1>4, <2>1, <2>2 DEF Cells
<1>8. ~external_is_present(h.ptr)
  <2>1. Scanned \subseteq AllSlots
    BY RegistryAssumption DEF Scanned, AllSlots, Pages, PageIds, RegistrySound, TypeOK
  <2> QED
    BY <1>7, <2>1 DEF external_is_present, Matching, Beyond
<1> QED
  BY <1>6, <1>8 DEF is_present

\* Every documented way to give a pointer back reaches the pointer's own block.
LEMMA TargetIs ==
  ASSUME NoException, ApiInv, RegistrySound, Beyond, NEW h \in held, NEW way \in Ways[zeroes],
         h.aligned => way # "dealloc"
  PROVE  Target(way, h) = h.blk.off + 1
<1>1. /\ AlignedBaseOf(mem, h.ptr) = IF h.aligned THEN h.blk.off + 1 ELSE NoRaw
      /\ FreeTarget(mem, h.ptr) = h.blk.off + 1
      /\ is_present(mem, h.blk.off + 1) /\ Handle(h)
  BY BaseIs DEF NoException
<1>2. ~h.aligned => h.ptr = h.blk.off + 1
  BY <1>1 DEF Handle
<1>3. zeroes \in BOOLEAN /\ Kept(mem, h)
  BY DEF ApiInv, Held
<1>4. way \in {"dealloc", "free", "aligned_free", "aligned_dealloc"} /\ (way = "aligned_free" => zeroes)
  BY <1>3, ApiAssumption DEF NoException
<1>5. CASE way = "free"
  BY <1>1, <1>5 DEF Target
<1>6. CASE way = "aligned_free"
  <2>1. h.aligned => ~is_present(mem, h.ptr)
    BY <1>4, <1>6, AlignedIsAbsent DEF NoException
  <2>2. AlignedFreeTarget(mem, h.ptr) = h.blk.off + 1
    BY <1>1, <1>2, <2>1 DEF AlignedFreeTarget
  <2> QED
    BY <1>6, <2>2 DEF Target
<1>7. CASE way = "aligned_dealloc"
  <2>1. AlignedDeallocTarget(mem, h) = h.blk.off + 1
    BY <1>2, <1>3 DEF AlignedDeallocTarget, Kept
  <2> QED
    BY <1>7, <2>1 DEF Target
<1>8. CASE way = "dealloc"
  BY <1>2, <1>8 DEF Target
<1> QED
  BY <1>4, <1>5, <1>6, <1>7, <1>8

\* The sheet with a plain block handed out, written or not.
LEMMA PlainAdds ==
  ASSUME Kind = "tlsf", NEW m, Sheet(m), NEW S, Held(m, S), NEW n \in Nat \ {0}, NEW w \in BOOLEAN,
         NEW b \in Candidates(m, UnitsOf(n))
  PROVE  LET t == Written(Granted(m, b), b, UserPtr(b), w)
         IN Sheet(t) /\ Held(t, S \cup {Plain(b, n)}) /\ b \notin m.blocks
<1> DEFINE t == Written(Granted(m, b), b, UserPtr(b), w)
           g == Plain(b, n)
<1>1. UnitsOf(n) \in Nat /\ UnitsOf(n) >= 1
  BY DEF UnitsOf
<1>2. b \in Block /\ b.len >= UnitsOf(n) + 1 /\ \A c \in m.blocks : ClearOf(b, c)
  BY <1>1, CandidateIs DEF Sheet
<1>3. b.off \in Nat /\ b.len \in Nat /\ b.len >= 2 /\ UserPtr(b) = b.off + 1
  BY <1>2, BlockCells DEF UserPtr
<1>4. Added(m, Granted(m, b), b, b.off + b.len)
  BY <1>2, GrantedAdds
<1>5. Added(m, t, b, UserPtr(b))
  <2>1. UserPtr(b) \in Nat /\ b.off + b.len \in Nat /\ UserPtr(b) <= b.off + b.len /\ b.off < UserPtr(b)
    BY <1>3
  <2> QED
    BY <1>2, <1>4, <2>1, WrittenAdds
<1>6. g \in Handles /\ g.ptr = b.off + 1 /\ g.blk = b /\ g.n = n /\ ~g.aligned
  BY <1>2, <1>3 DEF Plain, Handles
<1> HIDE DEF g, t
<1>7. Handle(g) /\ Kept(t, g)
  BY <1>1, <1>2, <1>3, <1>6 DEF Handle, Kept
<1>8. Sheet(t) /\ Held(t, S \cup {g}) /\ b \notin m.blocks
  BY <1>2, <1>5, <1>6, <1>7, HeldAdds
<1> QED
  BY <1>8 DEF g, t

\* The sheet with an over-aligned block handed out.
LEMMA AlignedAdds ==
  ASSUME Kind = "tlsf", NEW m, Sheet(m), NEW S, Held(m, S), NEW n \in Nat \ {0}, NEW w \in BOOLEAN,
         NEW b \in Candidates(m, AlignedUnits(n))
  PROVE  LET p == AlignedPtr(UserPtr(b))
             t == Written([Granted(m, b) EXCEPT !.hi[p - 1] = UserPtr(b)], b, p, w)
         IN Sheet(t) /\ Held(t, S \cup {[ptr |-> p, blk |-> b, n |-> n, aligned |-> TRUE]})
<1> DEFINE p == AlignedPtr(UserPtr(b))
           r == [Granted(m, b) EXCEPT !.hi[p - 1] = UserPtr(b)]
           t == Written(r, b, p, w)
           g == [ptr |-> p, blk |-> b, n |-> n, aligned |-> TRUE]
<1>1. AlignedUnits(n) \in Nat /\ AlignedUnits(n) >= Align + UnitsOf(n) /\ UnitsOf(n) \in Nat /\ UnitsOf(n) >= 1
      /\ Align \in Nat
  BY ApiAssumption DEF UnitsOf, AlignedUnits
<1>2. b \in Block /\ b.len >= AlignedUnits(n) + 1 /\ \A c \in m.blocks : ClearOf(b, c)
  BY <1>1, CandidateIs DEF Sheet
<1>3. b.off \in Nat /\ b.len \in Nat /\ b.len >= 2 /\ UserPtr(b) = b.off + 1 /\ UserPtr(b) \in Nat
  BY <1>2, BlockCells DEF UserPtr
<1>4. p \in Nat /\ (p - 1) % Align = 0 /\ b.off + 2 <= p /\ p <= b.off + 1 + Align
  BY <1>2, <1>3, AlignedPtrIs
<1> HIDE DEF p
<1>5. p + UnitsOf(n) <= b.off + b.len /\ p <= b.off + b.len /\ b.off < p /\ p - 1 < p /\ b.off + b.len \in Nat
      /\ b.off < p - 1 /\ p - 1 \in Nat
  BY <1>1, <1>2, <1>3, <1>4
<1>6. Added(m, Granted(m, b), b, b.off + b.len)
  BY <1>2, GrantedAdds
<1>7. Added(m, r, b, b.off + b.len) /\ r.hi[p - 1] = UserPtr(b)
  <2> DEFINE v == UserPtr(b)
             s == Granted(m, b)
             q == b.off + b.len
  <2>1. r = Prefixed(s, p, v)
    BY Zenon DEF Prefixed
  <2>2. Added(m, s, b, q) /\ v \in Nat
    BY <1>3, <1>6
  <2>3. b \in Block /\ (\A c \in m.blocks : ClearOf(b, c)) /\ p \in Nat /\ b.off + 2 <= p /\ p <= b.off + b.len
    BY <1>2, <1>4, <1>5
  <2> HIDE DEF r, s, v, q
  <2>4. Added(m, Prefixed(s, p, v), b, q) /\ Prefixed(s, p, v).hi[p - 1] = v
    BY <2>2, <2>3, PrefixAdds
  <2>5. Added(m, r, b, q) /\ r.hi[p - 1] = v
    BY <2>1, <2>4
  <2> QED
    BY <2>5 DEF q, v
<1> HIDE DEF r
<1>8. Added(m, t, b, p) /\ \A u \in Cells : u < p => t.hi[u] = r.hi[u]
  BY <1>2, <1>4, <1>5, <1>7, WrittenAdds
<1> HIDE DEF t
<1>9. p - 1 \in Cells
  <2>1. p - 1 \in Nat /\ b.off <= p - 1 /\ p - 1 < b.off + b.len
    BY <1>3, <1>4, <1>5
  <2> QED
    BY <1>2, <2>1, BlockCells
<1>10. t.hi[p - 1] = b.off + 1 /\ (zeroes => t.lo[p - 1] = "free")
  BY <1>3, <1>5, <1>7, <1>8, <1>9 DEF Added
<1>11. g \in Handles /\ g.ptr = p /\ g.blk = b /\ g.n = n /\ g.aligned = TRUE
  BY <1>2, <1>4 DEF Handles
<1> HIDE DEF g
<1>12. Handle(g) /\ Kept(t, g)
  BY <1>4, <1>5, <1>10, <1>11 DEF Handle, Kept
<1>13. Sheet(t) /\ Held(t, S \cup {g})
  BY <1>2, <1>8, <1>11, <1>12, HeldAdds
<1> QED
  BY <1>13 DEF g, t, r, p

\* The block of a pointer that is given back leaves the sheet.
LEMMA PopDrops ==
  ASSUME Kind = "tlsf", NEW m, Sheet(m), NEW S, Held(m, S), NEW h \in S
  PROVE  Sheet(Pop(m, h.blk.off + 1)) /\ Held(Pop(m, h.blk.off + 1), S \ {h})
<1>1. h.blk \in m.blocks
  BY DEF Held
<1>2. Pop(m, h.blk.off + 1) = Give(m, h.blk)
  BY <1>1, NamedIs
<1>3. Dropped(m, Give(m, h.blk), h.blk)
  BY <1>1, GiveDrops
<1> QED
  BY <1>2, <1>3, HeldDrops

\* A plain block that realloc leaves where it is has room for the new size.
LEMMA StaysHeld ==
  ASSUME Kind = "tlsf", ApiInv, NEW h \in held, NEW n \in Nat \ {0},
         AlignedBaseOf(mem, h.ptr) = NoRaw, 2 * UserSize(h.blk) >= n
  PROVE  Held(mem, (held \ {h}) \cup {[h EXCEPT !.n = n]})
<1> DEFINE g == [h EXCEPT !.n = n]
<1>1. Handle(h) /\ h.blk \in mem.blocks /\ ~h.aligned
  BY BaseIs
<1>2. h \in Handles
  BY <1>1 DEF Handle
<1>3. g \in Handles /\ g.ptr = h.ptr /\ g.blk = h.blk /\ g.n = n /\ g.aligned = h.aligned
  BY <1>2 DEF Handles
<1> HIDE DEF g
<1>4. h.blk \in Block /\ h.blk.off \in Nat /\ h.blk.len \in Nat
  BY <1>2, BlockCells DEF Handles
<1>5. UserSize(h.blk) = h.blk.len - 1
  BY <1>4 DEF UserSize, LastUser, UserPtr
<1>6. UnitsOf(n) \in Nat /\ UnitsOf(n) <= h.blk.len - 1
  BY <1>4, <1>5 DEF UnitsOf
<1>7. Handle(g) /\ g.blk \in mem.blocks /\ Kept(mem, g)
  BY <1>1, <1>3, <1>4, <1>6 DEF Handle, Kept
<1>8. \A b \in mem.blocks : \E k \in (held \ {h}) \cup {g} : k.blk = b
  BY <1>3 DEF ApiInv, Held
<1>9. \A k \in held \ {h} : k.blk # g.blk
  BY <1>3 DEF ApiInv, Held
<1>10. Held(mem, (held \ {h}) \cup {g})
  BY <1>7, <1>8, <1>9 DEF ApiInv, Held
<1> QED
  BY <1>10 DEF g

\* Every call keeps the invariant.
LEMMA ApiStep ==
  ASSUME NoException, ApiInv, RegistrySound, Beyond, ApiNext
  PROVE  ApiInv'
<1>1. Kind = "tlsf" /\ zeroes \in BOOLEAN /\ Sheet(mem) /\ Held(mem, held) /\ \A n \in Sizes : n \in Nat \ {0}
  BY ApiAssumption DEF NoException, ApiInv
<1>2. ASSUME UNCHANGED zeroes, NEW m, NEW S, mem' = m, held' = S, Sheet(m), Held(m, S)
      PROVE  ApiInv'
  BY <1>1, <1>2 DEF ApiInv, Sheet, Held, Kept
<1>3. ASSUME NEW n \in Sizes, NEW w \in BOOLEAN, Balloc(n, w)
      PROVE  ApiInv'
  <2>1. PICK b \in Candidates(mem, UnitsOf(n)) :
             /\ mem' = Written(Granted(mem, b), b, UserPtr(b), w) /\ held' = held \cup {Plain(b, n)}
    BY <1>3 DEF Balloc
  <2>2. Sheet(Written(Granted(mem, b), b, UserPtr(b), w))
        /\ Held(Written(Granted(mem, b), b, UserPtr(b), w), held \cup {Plain(b, n)})
    BY <1>1, PlainAdds
  <2> QED
    BY <1>2, <1>3, <2>1, <2>2 DEF Balloc
<1>4. ASSUME NEW n \in Sizes, NEW w \in BOOLEAN, AlignedBalloc(n, w)
      PROVE  ApiInv'
  <2> DEFINE p(b) == AlignedPtr(UserPtr(b))
             t(b) == Written([Granted(mem, b) EXCEPT !.hi[p(b) - 1] = UserPtr(b)], b, p(b), w)
             g(b) == [ptr |-> p(b), blk |-> b, n |-> n, aligned |-> TRUE]
  <2>1. PICK b \in Candidates(mem, AlignedUnits(n)) : mem' = t(b) /\ held' = held \cup {g(b)}
    BY <1>4, Zenon DEF AlignedBalloc
  <2>2. Sheet(t(b)) /\ Held(t(b), held \cup {g(b)})
    BY <1>1, AlignedAdds
  <2>3. UNCHANGED zeroes
    BY <1>4 DEF AlignedBalloc
  <2> HIDE DEF t, g
  <2> QED
    BY <1>2, <2>1, <2>2, <2>3
<1>5. ASSUME NEW h \in held, NEW way \in Ways[zeroes], Release(h, way)
      PROVE  ApiInv'
  <2>1. Target(way, h) = h.blk.off + 1
    BY <1>5, TargetIs DEF Release
  <2>2. Sheet(Pop(mem, h.blk.off + 1)) /\ Held(Pop(mem, h.blk.off + 1), held \ {h})
    BY <1>1, PopDrops
  <2> QED
    BY <1>2, <1>5, <2>1, <2>2 DEF Release
<1>9. ASSUME NEW h \in held, NEW n \in Sizes, CRealloc(h, n)
      PROVE  ApiInv'
  <2>1. PICK b \in Candidates(mem, UnitsOf(n)) :
             /\ mem' = Pop(Fill(Granted(mem, b), b, UserPtr(b)), FreeTarget(mem, h.ptr))
             /\ held' = (held \ {h}) \cup {Plain(b, n)}
    BY <1>9 DEF CRealloc
  <2> DEFINE t == Fill(Granted(mem, b), b, UserPtr(b))
             S == held \cup {Plain(b, n)}
  <2>2. Written(Granted(mem, b), b, UserPtr(b), TRUE) = t
    BY Zenon DEF Written
  <2>3. Sheet(t) /\ Held(t, S) /\ b \notin mem.blocks
    <3> DEFINE r == Written(Granted(mem, b), b, UserPtr(b), TRUE)
    <3>1. Sheet(r) /\ Held(r, S) /\ b \notin mem.blocks
      BY <1>1, PlainAdds
    <3> QED
      BY <2>2, <3>1, Zenon
  <2>4. FreeTarget(mem, h.ptr) = h.blk.off + 1 /\ h.blk \in mem.blocks
    BY <1>1, BaseIs
  <2> HIDE DEF t
  <2>5. Sheet(Pop(t, h.blk.off + 1)) /\ Held(Pop(t, h.blk.off + 1), S \ {h})
    BY <1>1, <2>3, PopDrops
  <2>6. Plain(b, n) # h
    <3>1. Plain(b, n).blk = b
      BY DEF Plain
    <3> QED
      BY <2>3, <2>4, <3>1
  <2>7. S \ {h} = (held \ {h}) \cup {Plain(b, n)}
    BY <2>6
  <2>8. mem' = Pop(t, h.blk.off + 1) /\ held' = S \ {h} /\ UNCHANGED zeroes
    BY <1>9, <2>1, <2>4, <2>7 DEF t, CRealloc
  <2> QED
    BY <1>2, <2>5, <2>8
<1>6. ASSUME NEW h \in held, NEW n \in Sizes, Realloc(h, n)
      PROVE  ApiInv'
  <2> DEFINE stays == AlignedBaseOf(mem, h.ptr) = NoRaw /\ 2 * UserSize(h.blk) >= n /\ n > UserSize(h.blk)
  <2>1. CASE /\ stays
             /\ held' = (held \ {h}) \cup {[h EXCEPT !.n = n]}
             /\ UNCHANGED <<zeroes, mem>>
    <3>1. Held(mem, (held \ {h}) \cup {[h EXCEPT !.n = n]})
      BY <1>1, <2>1, StaysHeld
    <3> QED
      BY <1>1, <1>2, <2>1, <3>1
  <2>2. CASE CRealloc(h, n)
    BY <1>9, <2>2
  <2> QED
    BY <1>6, <2>1, <2>2 DEF Realloc
<1>7. ASSUME UNCHANGED apiVars PROVE ApiInv'
  BY <1>1, <1>2, <1>7 DEF apiVars
<1>8. ASSUME NEW b \in Bases, NEW n \in Lens, MarkAt(b, n) \/ UnmarkAt(b, n)
      PROVE  ApiInv'
  BY <1>7, <1>8 DEF MarkAt, UnmarkAt
<1> QED
  BY <1>3, <1>4, <1>5, <1>6, <1>8, <1>9 DEF ApiNext

\* Nothing is held at first.
LEMMA ApiFirst == ApiInit => ApiInv
<1> SUFFICES ASSUME ApiInit PROVE ApiInv
  OBVIOUS
<1> DEFINE m == [blocks |-> {}, lo |-> [u \in Cells |-> "free"], hi |-> [u \in Cells |-> NoRaw]]
<1>1. m \in Mems /\ m.blocks = {}
  BY DEF Mems, NoRaw
<1>2. mem = m /\ held = {} /\ zeroes \in BOOLEAN
  BY Zenon DEF ApiInit
<1> HIDE DEF m
<1> QED
  BY <1>1, <1>2 DEF ApiInv, Sheet, Held

\* The invariant holds always.
LEMMA ApiInvariance == ASSUME NoException PROVE ApiSpec => []ApiInv
<1>1. ApiInv /\ RegistrySound /\ Beyond /\ [ApiNext]_<<vars, apiVars>> => ApiInv'
  <2> SUFFICES ASSUME ApiInv, RegistrySound, Beyond, [ApiNext]_<<vars, apiVars>> PROVE ApiInv'
    OBVIOUS
  <2>1. CASE ApiNext
    BY <2>1, ApiStep
  <2>2. CASE UNCHANGED <<vars, apiVars>>
    BY <2>2 DEF ApiInv, Sheet, Held, Kept, apiVars
  <2> QED
    BY <2>1, <2>2
<1> QED
  BY <1>1, ApiFirst, ApiRegistry, PTL DEF ApiSpec

(***************************************************************************)
(* For every sheet, alignment, set of sizes and registry, free, realloc,   *)
(* dealloc, aligned_dealloc and, where memory is cleared, aligned_free act *)
(* on the block of the pointer they are given, whatever stale words and    *)
(* caller data they read: the blocks in use are those callers hold.        *)
(***************************************************************************)
THEOREM ReleasesResolve == ASSUME NoException PROVE ApiSpec => []ReleasesOwn
<1>1. ApiInv => ReleasesOwn
  <2> SUFFICES ASSUME ApiInv PROVE ReleasesOwn
    OBVIOUS
  <2>1. Sheet(mem) /\ Held(mem, held)
    BY DEF ApiInv
  <2>2. mem.blocks = {h.blk : h \in held}
    BY <2>1 DEF Held
  <2>3. ASSUME NEW g \in held, NEW h \in held, g # h PROVE Span(g.blk) \cap Span(h.blk) = {}
    <3>1. g.blk \in mem.blocks /\ h.blk \in mem.blocks /\ g.blk # h.blk
      BY <2>1, <2>3 DEF Held
    <3>2. ClearOf(g.blk, h.blk) /\ g.blk \in Block /\ h.blk \in Block
      BY <2>1, <3>1 DEF Sheet, Mems
    <3>3. g.blk.off \in Nat /\ g.blk.len \in Nat /\ h.blk.off \in Nat /\ h.blk.len \in Nat
      BY <3>2, BlockCells
    <3> QED
      BY <3>2, <3>3 DEF ClearOf, Span
  <2> QED
    BY <2>2, <2>3 DEF ReleasesOwn
<1> QED
  BY <1>1, ApiInvariance, PTL

(***************************************************************************)
(* Under the same condition every pointer of aligned_balloc is aligned,    *)
(* its prefix and the bytes asked for lie in its block, and the prefix is  *)
(* not overwritten by callers or by the allocator while it is held.        *)
(***************************************************************************)
THEOREM PrefixesSurvive == ASSUME NoException PROVE ApiSpec => []PrefixIntact
<1>1. ApiInv => PrefixIntact
  <2> SUFFICES ASSUME ApiInv, NEW h \in held
               PROVE  /\ h.ptr + UnitsOf(h.n) - 1 <= LastUser(h.blk)
                      /\ h.aligned => /\ (h.ptr - 1) % Align = 0
                                      /\ h.ptr - 1 >= UserPtr(h.blk)
                                      /\ mem.hi[h.ptr - 1] = UserPtr(h.blk)
    BY DEF PrefixIntact
  <2>1. Handle(h) /\ Kept(mem, h)
    BY DEF ApiInv, Held
  <2>2. h.ptr \in Nat /\ h.n \in Nat /\ h.blk \in Block
    BY <2>1 DEF Handle, Handles
  <2>3. h.blk.off \in Nat /\ h.blk.len \in Nat /\ UnitsOf(h.n) \in Nat
    BY <2>2, BlockCells DEF UnitsOf
  <2>4. UserPtr(h.blk) = h.blk.off + 1 /\ LastUser(h.blk) = h.blk.off + h.blk.len - 1
    BY DEF NoException, UserPtr, LastUser
  <2> QED
    BY <2>1, <2>2, <2>3, <2>4 DEF Handle, Kept
<1> QED
  BY <1>1, ApiInvariance, PTL

-----------------------------------------------------------------------------
(* The doctor's ledger *)

Rec == [key : Keys \cup {NoKey}, state : RecStates]

\* The fields of __doctor_state that the model keeps.
Fields(d) ==
  /\ DOMAIN d = {"tab", "cap", "occupied", "n_live", "n_freed", "failed"}
  /\ d.cap \in Nat /\ d.occupied \in Nat /\ d.n_live \in Nat /\ d.n_freed \in Nat /\ d.failed \in BOOLEAN
  /\ d.cap = 0 => d.tab = <<>>
  /\ d.cap > 0 => d.tab \in [0 .. d.cap - 1 -> Rec]

SlotsOf(d) == 0 .. d.cap - 1
Of(d, T) == {i \in SlotsOf(d) : d.tab[i].state \in T}
InUseStates == RecStates \ {"empty"}

\* A probe for the key of a record ends at the record.
Reached(d) == \A i \in SlotsOf(d) : d.tab[i].state # "empty" => d.tab[i].key \in Keys /\ SlotFor(d, d.tab[i].key) = i

Table(d) == Fields(d) /\ Reached(d)

\* The counters, and how far n_freed may be off.
Counted(d) ==
  /\ d.occupied = Cardinality(Of(d, InUseStates))
  /\ d.n_live = Cardinality(Of(d, {"live"}))
  /\ d.n_freed >= Cardinality(Of(d, {"freed", "tombstoned"}))
  /\ ~Rescue => d.n_freed = Cardinality(Of(d, {"freed", "tombstoned"}))

Sane(d) == Table(d) /\ Counted(d)


\* A multiple and a rest are taken apart again.
LEMMA RestIs ==
  ASSUME NEW C \in Nat \ {0}, NEW q \in Nat, NEW r \in 0 .. (C - 1)
  PROVE  (C * q + r) % C = r
<1> DEFINE t == C * q + r
<1>1. t \in Nat /\ t = C * q + r
  OBVIOUS
<1> HIDE DEF t
<1> DEFINE d == t \div C
<1>2. t = C * d + (t % C) /\ d \in Nat /\ t % C \in 0 .. (C - 1)
  BY <1>1, DivMod
<1> HIDE DEF d
<1>3. ~(d < q) /\ ~(q < d)
  BY <1>1, <1>2, MulGap
<1>4. d = q
  BY <1>2, <1>3
<1>5. t % C = r
  BY <1>1, <1>2, <1>4
<1> QED
  BY <1>5 DEF t

\* A probe that goes on long enough comes to every slot.
LEMMA ProbeVisits ==
  ASSUME NEW d, d.cap \in Nat \ {0}, NEW k \in Keys, NEW i \in SlotsOf(d)
  PROVE  \E j \in 0 .. d.cap - 1 : Slot(d, k, j) = i
<1> DEFINE c == d.cap
           h == Hash[k]
           r == h % c
           q == h \div c
<1>1. c \in Nat \ {0} /\ h \in Nat /\ i \in 0 .. c - 1
  BY LedgerAssumption DEF SlotsOf
<1>2. h = c * q + r /\ q \in Nat /\ r \in 0 .. (c - 1)
  BY <1>1, DivMod
<1> HIDE DEF c, h, r, q
<1>3. CASE r <= i
  <2>1. i - r \in 0 .. c - 1 /\ h + (i - r) = c * q + i
    <3>1. c * q \in Nat
      BY <1>1, <1>2
    <3> QED
      BY <1>1, <1>2, <1>3, <3>1
  <2>2. (c * q + i) % c = i
    BY <1>1, <1>2, RestIs
  <2>3. Slot(d, k, i - r) = i
    BY <2>1, <2>2 DEF Slot, c, h
  <2> QED
    BY <2>1, <2>3 DEF c
<1>4. CASE ~(r <= i)
  <2>1. c * (q + 1) = c * q + c /\ c * q \in Nat
    BY <1>1, <1>2
  <2>2. i + c - r \in 0 .. c - 1 /\ h + (i + c - r) = c * (q + 1) + i
    BY <1>1, <1>2, <1>4, <2>1
  <2>3. (c * (q + 1) + i) % c = i
    BY <1>1, <1>2, RestIs
  <2>4. Slot(d, k, i + c - r) = i
    BY <2>2, <2>3 DEF Slot, c, h
  <2> QED
    BY <2>2, <2>4 DEF c
<1> QED
  BY <1>1, <1>2, <1>3, <1>4

\* Slots are slots.
LEMMA SlotIs ==
  ASSUME NEW d, d.cap \in Nat \ {0}, NEW k \in Keys, NEW j \in 0 .. d.cap - 1
  PROVE  Slot(d, k, j) \in SlotsOf(d)
<1>1. Hash[k] + j \in Nat
  BY LedgerAssumption
<1>2. (Hash[k] + j) % d.cap \in 0 .. (d.cap - 1)
  BY <1>1, DivMod
<1> QED
  BY <1>2 DEF Slot, SlotsOf

\* Where the slot is that stops a probe.
Ends(d, k, i) == d.tab[i].key = k \/ d.tab[i].state = "empty"

\* The probe for a key stops at the first slot that ends it.
LEMMA ProbeStops ==
  ASSUME NEW d, d.cap \in Nat \ {0}, NEW k \in Keys, Stops(d, k) # {}
  PROVE  \E j \in 0 .. d.cap - 1 : /\ SlotFor(d, k) = Slot(d, k, j) /\ Ends(d, k, Slot(d, k, j))
                                   /\ j = Min(Stops(d, k))
                                   /\ \A l \in 0 .. d.cap - 1 : Ends(d, k, Slot(d, k, l)) => j <= l
<1>1. Stops(d, k) \in SUBSET Nat /\ \A j : j \in Stops(d, k) <=> j \in 0 .. d.cap - 1 /\ Ends(d, k, Slot(d, k, j))
  BY DEF Stops, Ends
<1>2. PICK x \in Stops(d, k) : \A y \in Stops(d, k) : x <= y
  BY <1>1, HasSmallest
<1>3. Min(Stops(d, k)) \in Stops(d, k) /\ \A y \in Stops(d, k) : Min(Stops(d, k)) <= y
  BY <1>2 DEF Min
<1> QED
  BY <1>1, <1>3 DEF SlotFor

\* A slot that ends the probe first is the slot of the key.
LEMMA FirstIs ==
  ASSUME NEW d, d.cap \in Nat \ {0}, NEW k \in Keys, NEW j \in 0 .. d.cap - 1, Ends(d, k, Slot(d, k, j)),
         \A l \in 0 .. d.cap - 1 : Ends(d, k, Slot(d, k, l)) => j <= l
  PROVE  SlotFor(d, k) = Slot(d, k, j) /\ Stops(d, k) # {}
<1>1. j \in Stops(d, k)
  BY DEF Stops, Ends
<1>2. PICK m \in 0 .. d.cap - 1 : /\ SlotFor(d, k) = Slot(d, k, m) /\ Ends(d, k, Slot(d, k, m))
                                  /\ \A l \in 0 .. d.cap - 1 : Ends(d, k, Slot(d, k, l)) => m <= l
  BY <1>1, ProbeStops
<1>3. m <= j /\ j <= m /\ m \in Nat /\ j \in Nat
  BY <1>2
<1>4. m = j
  BY <1>3
<1> QED
  BY <1>1, <1>2, <1>4

\* A slot that would end the probe shows that it ends.
LEMMA StopsAt ==
  ASSUME NEW d, d.cap \in Nat \ {0}, NEW k \in Keys, NEW i \in SlotsOf(d), Ends(d, k, i)
  PROVE  Stops(d, k) # {}
<1>1. PICK j \in 0 .. d.cap - 1 : Slot(d, k, j) = i
  BY ProbeVisits
<1> QED
  BY <1>1 DEF Stops, Ends

\* The slot of a key ends its probe.
LEMMA SlotForIs ==
  ASSUME NEW d, d.cap \in Nat \ {0}, NEW k \in Keys, Stops(d, k) # {}
  PROVE  SlotFor(d, k) \in SlotsOf(d) /\ Ends(d, k, SlotFor(d, k))
BY ProbeStops, SlotIs

\* StateOf tells the state of the record.
LEMMA StateIs ==
  ASSUME NEW d, Table(d), NEW k \in Keys
  PROVE  /\ StateOf(d, k) \in RecStates
         /\ \A s \in InUseStates : StateOf(d, k) = s <=> \E i \in SlotsOf(d) : d.tab[i].key = k /\ d.tab[i].state = s
<1>1. d.cap \in Nat /\ (d.cap > 0 => d.tab \in [0 .. d.cap - 1 -> Rec])
  BY DEF Table, Fields
<1>2. CASE d.cap = 0
  <2>1. StateOf(d, k) = "empty" /\ SlotsOf(d) = {}
    BY <1>2 DEF StateOf, SlotsOf
  <2> QED
    BY <2>1 DEF RecStates, InUseStates
<1>3. CASE d.cap # 0 /\ Stops(d, k) = {}
  <2>1. StateOf(d, k) = "empty"
    BY <1>3 DEF StateOf
  <2>2. \A i \in SlotsOf(d) : d.tab[i].key # k
    BY <1>1, <1>3, StopsAt DEF Ends
  <2> QED
    BY <2>1, <2>2 DEF RecStates, InUseStates
<1>4. CASE d.cap # 0 /\ Stops(d, k) # {}
  <2>1. StateOf(d, k) = d.tab[SlotFor(d, k)].state /\ SlotFor(d, k) \in SlotsOf(d) /\ Ends(d, k, SlotFor(d, k))
    BY <1>1, <1>4, SlotForIs DEF StateOf
  <2>2. \A i \in SlotsOf(d) : d.tab[i] \in Rec
    BY <1>1, <1>4 DEF SlotsOf
  <2>3. StateOf(d, k) \in RecStates
    BY <2>1, <2>2 DEF Rec
  <2>4. ASSUME NEW s \in InUseStates, StateOf(d, k) = s
        PROVE  \E i \in SlotsOf(d) : d.tab[i].key = k /\ d.tab[i].state = s
    BY <2>1, <2>4 DEF Ends, InUseStates
  <2>5. ASSUME NEW s \in InUseStates, NEW i \in SlotsOf(d), d.tab[i].key = k, d.tab[i].state = s
        PROVE  StateOf(d, k) = s
    <3>1. SlotFor(d, k) = i
      BY <2>5 DEF Table, Reached, InUseStates
    <3> QED
      BY <2>1, <2>5, <3>1
  <2> QED
    BY <2>3, <2>4, <2>5
<1> QED
  BY <1>2, <1>3, <1>4

\* Two tables that hold the same records of a key tell the same of it.
LEMMA SameState ==
  ASSUME NEW d, Table(d), NEW e, Table(e), NEW k \in Keys,
         \A s \in InUseStates : (\E i \in SlotsOf(d) : d.tab[i].key = k /\ d.tab[i].state = s)
                                  <=> (\E i \in SlotsOf(e) : e.tab[i].key = k /\ e.tab[i].state = s)
  PROVE  StateOf(e, k) = StateOf(d, k)
<1>1. StateOf(d, k) \in RecStates /\ StateOf(e, k) \in RecStates
  BY StateIs
<1>2. \A s \in InUseStates : StateOf(d, k) = s <=> StateOf(e, k) = s
  BY StateIs
<1> QED
  BY <1>1, <1>2 DEF InUseStates

\* The slots of a table are finitely many.
LEMMA OfFinite ==
  ASSUME NEW d, d.cap \in Nat, NEW T
  PROVE  /\ IsFiniteSet(SlotsOf(d)) /\ Cardinality(SlotsOf(d)) = d.cap
         /\ IsFiniteSet(Of(d, T)) /\ Cardinality(Of(d, T)) \in Nat /\ Cardinality(Of(d, T)) <= d.cap
<1>1. IsFiniteSet(SlotsOf(d)) /\ Cardinality(SlotsOf(d)) = d.cap
  <2>1. d.cap - 1 \in Int /\ (0 > d.cap - 1 <=> d.cap = 0) /\ (d.cap - 1) - 0 + 1 = d.cap
    OBVIOUS
  <2>2. ASSUME NEW b \in Int
        PROVE  IsFiniteSet(0 .. b) /\ Cardinality(0 .. b) = IF 0 > b THEN 0 ELSE b - 0 + 1
    <3>1. 0 \in Int
      OBVIOUS
    <3> QED
      BY <3>1, FS_Interval, Zenon
  <2> QED
    BY <2>1, <2>2 DEF SlotsOf
<1>2. Of(d, T) \subseteq SlotsOf(d)
  BY DEF Of
<1>3. IsFiniteSet(Of(d, T)) /\ Cardinality(Of(d, T)) <= d.cap
  BY <1>1, <1>2, FS_Subset
<1>4. Cardinality(Of(d, T)) \in Nat
  BY <1>3, FS_CardinalityType
<1> QED
  BY <1>1, <1>3, <1>4

\* While a slot is empty, every probe ends.
LEMMA Room ==
  ASSUME NEW d, Fields(d), Cardinality(Of(d, InUseStates)) < d.cap, NEW k \in Keys
  PROVE  d.cap \in Nat \ {0} /\ Stops(d, k) # {}
<1>1. d.cap \in Nat
  BY DEF Fields
<1>2. Of(d, InUseStates) # SlotsOf(d)
  <2>1. Cardinality(SlotsOf(d)) = d.cap
    BY <1>1, OfFinite
  <2> QED
    BY <1>1, <2>1
<1>3. PICK i \in SlotsOf(d) : i \notin Of(d, InUseStates)
  BY <1>2 DEF Of
<1>4. d.cap \in Nat \ {0}
  BY <1>1, <1>3 DEF SlotsOf
<1>5. d.tab[i] \in Rec
  BY <1>3, <1>4 DEF Fields, SlotsOf
<1>6. d.tab[i].state = "empty"
  BY <1>3, <1>5 DEF Of, InUseStates, Rec
<1> QED
  BY <1>3, <1>4, <1>6, StopsAt DEF Ends

\* e is d with a record of key k in state st at the slot of k.
Put(d, e, k, st) ==
  /\ Fields(e) /\ e.cap = d.cap
  /\ e.tab = [d.tab EXCEPT ![SlotFor(d, k)] = [key |-> k, state |-> st]]

\* What the slots hold after a record was written.
LEMMA PutSlots ==
  ASSUME NEW d, Table(d), d.cap # 0, NEW k \in Keys, Stops(d, k) # {}, NEW st, NEW e, Put(d, e, k, st)
  PROVE  /\ d.cap \in Nat \ {0} /\ SlotsOf(e) = SlotsOf(d) /\ SlotFor(d, k) \in SlotsOf(d)
         /\ e.tab[SlotFor(d, k)] = [key |-> k, state |-> st]
         /\ \A i \in SlotsOf(d) : i # SlotFor(d, k) => e.tab[i] = d.tab[i]
         /\ Ends(d, k, SlotFor(d, k))
         /\ \A l, j : Slot(e, l, j) = Slot(d, l, j)
<1>1. d.cap \in Nat \ {0} /\ d.tab \in [0 .. d.cap - 1 -> Rec]
  BY DEF Table, Fields
<1>2. SlotFor(d, k) \in SlotsOf(d) /\ Ends(d, k, SlotFor(d, k))
  BY <1>1, SlotForIs
<1>3. SlotsOf(e) = SlotsOf(d) /\ \A l, j : Slot(e, l, j) = Slot(d, l, j)
  BY DEF Put, SlotsOf, Slot
<1> DEFINE s == SlotFor(d, k)
<1>4. e.tab = [d.tab EXCEPT ![s] = [key |-> k, state |-> st]] /\ s \in 0 .. d.cap - 1
  BY <1>2 DEF Put, SlotsOf
<1> HIDE DEF s
<1>5. e.tab[s] = [key |-> k, state |-> st] /\ \A i \in 0 .. d.cap - 1 : i # s => e.tab[i] = d.tab[i]
  BY <1>1, <1>4
<1> QED
  BY <1>1, <1>2, <1>3, <1>5 DEF s, SlotsOf

\* Writing a record at the slot of its key lets every probe reach its record.
LEMMA PutReaches ==
  ASSUME NEW d, Table(d), d.cap # 0, NEW k \in Keys, Stops(d, k) # {}, NEW st \in InUseStates,
         NEW e, Put(d, e, k, st)
  PROVE  Table(e)
<1> DEFINE s == SlotFor(d, k)
<1>1. /\ d.cap \in Nat \ {0} /\ SlotsOf(e) = SlotsOf(d) /\ s \in SlotsOf(d)
      /\ e.tab[s] = [key |-> k, state |-> st]
      /\ \A i \in SlotsOf(d) : i # s => e.tab[i] = d.tab[i]
      /\ Ends(d, k, s)
      /\ \A l, j : Slot(e, l, j) = Slot(d, l, j)
  BY PutSlots
<1>2. e.cap = d.cap /\ Fields(e)
  BY DEF Put
<1>3. st # "empty"
  BY DEF InUseStates
<1>4. SlotFor(e, k) = s
  <2>1. PICK j \in 0 .. d.cap - 1 : /\ s = Slot(d, k, j)
                                    /\ \A l \in 0 .. d.cap - 1 : Ends(d, k, Slot(d, k, l)) => j <= l
    BY <1>1, ProbeStops
  <2> HIDE DEF s
  <2>2. ASSUME NEW l \in 0 .. e.cap - 1, Ends(e, k, Slot(e, k, l))
        PROVE  j <= l
    <3>1. Slot(d, k, l) \in SlotsOf(d)
      BY <1>1, <1>2, SlotIs
    <3>2. Ends(d, k, Slot(d, k, l))
      BY <1>1, <2>2, <3>1 DEF Ends
    <3> QED
      BY <1>2, <2>1, <3>2
  <2>3. Ends(e, k, Slot(e, k, j))
    BY <1>1, <2>1 DEF Ends
  <2>4. SlotFor(e, k) = Slot(e, k, j)
    BY <1>1, <1>2, <2>2, <2>3, FirstIs
  <2> QED
    BY <1>1, <2>1, <2>4
<1> HIDE DEF s
<1>5. ASSUME NEW i \in SlotsOf(e), e.tab[i].state # "empty", i # s
      PROVE  e.tab[i].key \in Keys /\ SlotFor(e, e.tab[i].key) = i
  <2> DEFINE m == d.tab[i].key
  <2>1. e.tab[i] = d.tab[i] /\ d.tab[i].state # "empty"
    BY <1>1, <1>5
  <2>2. m \in Keys /\ SlotFor(d, m) = i
    BY <1>1, <2>1 DEF Table, Reached
  <2>3. m # k
    BY <1>5, <2>2 DEF s
  <2>4. Stops(d, m) # {}
    BY <1>1, <2>2, StopsAt DEF Ends
  <2> HIDE DEF m
  <2>5. PICK j \in 0 .. d.cap - 1 : /\ i = Slot(d, m, j) /\ Ends(d, m, Slot(d, m, j))
                                    /\ \A l \in 0 .. d.cap - 1 : Ends(d, m, Slot(d, m, l)) => j <= l
    BY <1>1, <2>2, <2>4, ProbeStops
  <2>6. ASSUME NEW l \in 0 .. e.cap - 1, Ends(e, m, Slot(e, m, l))
        PROVE  j <= l
    <3>1. Slot(d, m, l) \in SlotsOf(d)
      BY <1>1, <1>2, <2>2, SlotIs
    <3>2. Slot(d, m, l) # s
      BY <1>1, <1>3, <2>3, <2>6 DEF Ends
    <3>3. Ends(d, m, Slot(d, m, l))
      BY <1>1, <2>6, <3>1, <3>2 DEF Ends
    <3> QED
      BY <1>2, <2>5, <3>3
  <2>7. Ends(e, m, Slot(e, m, j))
    BY <1>1, <1>5, <2>1, <2>5 DEF Ends
  <2>8. SlotFor(e, m) = Slot(e, m, j)
    BY <1>1, <1>2, <2>2, <2>6, <2>7, FirstIs
  <2>9. SlotFor(e, m) = i
    BY <1>1, <2>5, <2>8
  <2> QED
    BY <2>1, <2>2, <2>9 DEF m
<1>6. e.tab[s].key \in Keys /\ SlotFor(e, e.tab[s].key) = s
  BY <1>1, <1>4
<1>7. Reached(e)
  BY <1>5, <1>6 DEF Reached
<1> QED
  BY <1>2, <1>7 DEF Table

\* No other record has the key that is written.
LEMMA PutAlone ==
  ASSUME NEW d, Table(d), d.cap # 0, NEW k \in Keys, NEW i \in SlotsOf(d), d.tab[i].state # "empty", d.tab[i].key = k
  PROVE  i = SlotFor(d, k)
BY DEF Table, Reached

\* Writing a record changes what is told of its key and of no other.
LEMMA PutStates ==
  ASSUME NEW d, Table(d), d.cap # 0, NEW k \in Keys, Stops(d, k) # {}, NEW st \in InUseStates,
         NEW e, Put(d, e, k, st)
  PROVE  /\ StateOf(e, k) = st
         /\ \A l \in Keys : l # k => StateOf(e, l) = StateOf(d, l)
         /\ \A l \in Keys, t \in InUseStates : l # k =>
              ((\E i \in SlotsOf(e) : e.tab[i].key = l /\ e.tab[i].state = t)
                <=> (\E i \in SlotsOf(d) : d.tab[i].key = l /\ d.tab[i].state = t))
<1> DEFINE s == SlotFor(d, k)
<1>1. /\ SlotsOf(e) = SlotsOf(d) /\ s \in SlotsOf(d)
      /\ e.tab[s] = [key |-> k, state |-> st]
      /\ \A i \in SlotsOf(d) : i # s => e.tab[i] = d.tab[i]
      /\ Ends(d, k, s)
  BY PutSlots
<1>2. Table(e)
  BY PutReaches
<1> HIDE DEF s
<1>3. StateOf(e, k) = st
  <2>1. e.tab[s].key = k /\ e.tab[s].state = st
    BY <1>1
  <2> QED
    BY <1>1, <1>2, <2>1, StateIs
<1>4. ASSUME NEW l \in Keys, l # k, NEW t \in InUseStates
      PROVE  (\E i \in SlotsOf(e) : e.tab[i].key = l /\ e.tab[i].state = t)
                <=> (\E i \in SlotsOf(d) : d.tab[i].key = l /\ d.tab[i].state = t)
  <2>1. \A i \in SlotsOf(d) : e.tab[i].key = l /\ e.tab[i].state = t <=> d.tab[i].key = l /\ d.tab[i].state = t
    <3>1. ~(e.tab[s].key = l)
      BY <1>1, <1>4
    <3>2. ~(d.tab[s].key = l /\ d.tab[s].state = t)
      BY <1>1, <1>4 DEF Ends, InUseStates
    <3> QED
      BY <1>1, <3>1, <3>2
  <2> QED
    BY <1>1, <2>1
<1>5. ASSUME NEW l \in Keys, l # k
      PROVE  StateOf(e, l) = StateOf(d, l)
  BY <1>2, <1>4, <1>5, SameState
<1> QED
  BY <1>3, <1>4, <1>5

\* Writing a record moves one slot from the states it was in to the new one.
LEMMA PutCounts ==
  ASSUME NEW d, Table(d), d.cap # 0, NEW k \in Keys, Stops(d, k) # {}, NEW st \in InUseStates,
         NEW e, Put(d, e, k, st), NEW T
  PROVE  /\ Cardinality(Of(d, T)) \in Nat
         /\ Cardinality(Of(e, T)) = Cardinality(Of(d, T))
                                      + (IF st \in T THEN 1 ELSE 0)
                                      - (IF d.tab[SlotFor(d, k)].state \in T THEN 1 ELSE 0)
<1> DEFINE s == SlotFor(d, k)
           D == Of(d, T)
           E == Of(e, T)
<1>1. /\ SlotsOf(e) = SlotsOf(d) /\ s \in SlotsOf(d) /\ d.cap \in Nat
      /\ e.tab[s] = [key |-> k, state |-> st]
      /\ \A i \in SlotsOf(d) : i # s => e.tab[i] = d.tab[i]
  BY PutSlots
<1>2. IsFiniteSet(D) /\ Cardinality(D) \in Nat
  BY <1>1, OfFinite
<1> HIDE DEF s
<1>3. e.tab[s].state = st
  BY <1>1
<1>4. /\ s \in E <=> st \in T
      /\ s \in D <=> d.tab[s].state \in T
      /\ \A i : i # s => (i \in D <=> i \in E)
  BY <1>1, <1>3 DEF Of
<1> HIDE DEF D, E
<1>5. CASE st \in T /\ d.tab[s].state \in T
  <2>1. E = D
    BY <1>4, <1>5
  <2> QED
    BY <1>2, <1>5, <2>1 DEF D, E, s
<1>6. CASE st \notin T /\ d.tab[s].state \notin T
  <2>1. E = D
    BY <1>4, <1>6
  <2> QED
    BY <1>2, <1>6, <2>1 DEF D, E, s
<1>7. CASE st \in T /\ d.tab[s].state \notin T
  <2>1. E = D \cup {s} /\ s \notin D
    BY <1>4, <1>7
  <2>2. Cardinality(E) = Cardinality(D) + 1
    BY <1>2, <2>1, FS_AddElement
  <2> QED
    BY <1>2, <1>7, <2>2 DEF D, E, s
<1>8. CASE st \notin T /\ d.tab[s].state \in T
  <2>1. E = D \ {s} /\ s \in D
    BY <1>4, <1>8
  <2>2. Cardinality(E) = Cardinality(D) - 1
    BY <1>2, <2>1, FS_RemoveElement
  <2> QED
    BY <1>2, <1>8, <2>2 DEF D, E, s
<1> QED
  BY <1>5, <1>6, <1>7, <1>8

\* What the slot before position n does to the table that is being filled.
FillStep(d, kept, n, x) == IF d.tab[n - 1].state \in kept THEN Insert(x, d.tab[n - 1]) ELSE x

\* h holds the tables after each of the first N slots.
Filling(d, cap, kept, N, h) ==
  /\ h = [i \in 0 .. N |-> h[i]] /\ h[0] = Blank(d, cap)
  /\ \A n \in 1 .. N : h[n] = FillStep(d, kept, n, h[n - 1])

\* A table can be filled from any number of slots.
LEMMA FillingExists ==
  ASSUME NEW d, NEW cap, NEW kept, NEW N \in Nat
  PROVE  \E h : Filling(d, cap, kept, N, h)
<1> DEFINE F(n, h) == Filling(d, cap, kept, n, h)
<1> SUFFICES ASSUME \A h : ~F(N, h)
             PROVE  FALSE
  OBVIOUS
<1> DEFINE S == {n \in Nat : \A h : ~F(n, h)}
<1>1. PICK m \in S : \A i \in S : m <= i
  <2>1. S \in SUBSET Nat /\ N \in S
    <3> HIDE DEF F
    <3> QED
      OBVIOUS
  <2> HIDE DEF S
  <2> QED
    BY <2>1, HasSmallest
<1>2. m # 0
  <2> SUFFICES ASSUME m = 0 PROVE FALSE
    OBVIOUS
  <2>1. F(0, [i \in 0 .. 0 |-> Blank(d, cap)])
    BY DEF Filling
  <2> HIDE DEF F
  <2> QED
    BY <2>1
<1>3. PICK h : F(m - 1, h)
  <2>1. m - 1 \in Nat /\ ~(m <= m - 1)
    BY <1>2
  <2> HIDE DEF F
  <2> QED
    BY <1>1, <2>1
<1> DEFINE g == [i \in 0 .. m |-> IF i = m THEN FillStep(d, kept, m, h[m - 1]) ELSE h[i]]
<1>4. F(m, g)
  <2>1. m \in Nat /\ m - 1 \in Nat
    BY <1>2
  <2>2. h[0] = Blank(d, cap) /\ \A n \in 1 .. m - 1 : h[n] = FillStep(d, kept, n, h[n - 1])
    BY <1>3 DEF Filling
  <2>3. g = [i \in 0 .. m |-> g[i]]
    OBVIOUS
  <2>4. g[0] = Blank(d, cap)
    BY <1>2, <2>1, <2>2
  <2>5. ASSUME NEW n \in 1 .. m
        PROVE  g[n] = FillStep(d, kept, n, g[n - 1])
    <3>1. n \in 0 .. m /\ n - 1 \in 0 .. m /\ n - 1 # m
      BY <2>1
    <3>2. g[n - 1] = h[n - 1]
      BY <3>1
    <3>3. CASE n = m
      BY <3>1, <3>2, <3>3
    <3>4. CASE n # m
      <4>1. n \in 1 .. m - 1
        BY <2>1, <3>4
      <4>2. g[n] = h[n]
        BY <3>1, <3>4
      <4> QED
        BY <2>2, <3>2, <4>1, <4>2
    <3> QED
      BY <3>3, <3>4
  <2> HIDE DEF g
  <2> QED
    BY <2>3, <2>4, <2>5 DEF Filling
<1> HIDE DEF F, g
<1> QED
  BY <1>1, <1>4

\* Refill is the last of those tables.
LEMMA RefillIs ==
  ASSUME NEW d, d.cap \in Nat, NEW cap, NEW kept
  PROVE  \E h : Filling(d, cap, kept, d.cap, h) /\ Refill(d, cap, kept) = h[d.cap]
<1> DEFINE P(f) == f = [n \in 0 .. d.cap |->
                          IF n = 0 THEN Blank(d, cap)
                          ELSE IF d.tab[n - 1].state \in kept THEN Insert(f[n - 1], d.tab[n - 1])
                          ELSE f[n - 1]]
           c == CHOOSE f : P(f)
<1>1. PICK g : Filling(d, cap, kept, d.cap, g)
  BY FillingExists
<1>2. P(g)
  <2> DEFINE body(n) == IF n = 0 THEN Blank(d, cap)
                        ELSE IF d.tab[n - 1].state \in kept THEN Insert(g[n - 1], d.tab[n - 1])
                        ELSE g[n - 1]
  <2>1. ASSUME NEW n \in 0 .. d.cap
        PROVE  g[n] = body(n)
    <3>1. CASE n = 0
      BY <1>1, <3>1 DEF Filling
    <3>2. CASE n # 0
      <4>1. n \in 1 .. d.cap
        BY <3>2
      <4>2. g[n] = FillStep(d, kept, n, g[n - 1])
        BY <1>1, <4>1 DEF Filling
      <4> QED
        BY <3>2, <4>2 DEF FillStep
    <3> QED
      BY <3>1, <3>2
  <2>2. g = [n \in 0 .. d.cap |-> g[n]]
    BY <1>1 DEF Filling
  <2>3. [n \in 0 .. d.cap |-> g[n]] = [n \in 0 .. d.cap |-> body(n)]
    <3> HIDE DEF body
    <3> QED
      BY <2>1
  <2>4. g = [n \in 0 .. d.cap |-> body(n)]
    BY <2>2, <2>3, Zenon
  <2> QED
    BY <2>4, Zenon
<1>3. P(c)
  <2> HIDE DEF P
  <2> QED
    BY <1>2
<1>4. Refill(d, cap, kept) = c[d.cap]
  BY DEF Refill
<1> HIDE DEF c
<1>5. ASSUME NEW n \in 0 .. d.cap
      PROVE  c[n] = IF n = 0 THEN Blank(d, cap) ELSE FillStep(d, kept, n, c[n - 1])
  BY <1>3 DEF FillStep
<1>6. c = [n \in 0 .. d.cap |-> c[n]]
  BY <1>3
<1> HIDE DEF P
<1>7. c[0] = Blank(d, cap)
  BY <1>5
<1>8. ASSUME NEW n \in 1 .. d.cap
      PROVE  c[n] = FillStep(d, kept, n, c[n - 1])
  BY <1>5
<1> QED
  BY <1>4, <1>6, <1>7, <1>8 DEF Filling

\* Among the first n slots, those in one of the states.
FirstOf(d, n, T) == {i \in 0 .. n - 1 : d.tab[i].state \in T}

\* x holds the records of the first n slots of d that are kept.
Carried(d, cap, kept, n, x) ==
  /\ Table(x) /\ x.cap = cap
  /\ x.n_live = d.n_live /\ x.n_freed = d.n_freed /\ x.failed = d.failed
  /\ x.occupied = Cardinality(Of(x, InUseStates))
  /\ \A l \in Keys, t \in InUseStates :
       (\E i \in SlotsOf(x) : x.tab[i].key = l /\ x.tab[i].state = t)
         <=> (t \in kept /\ \E i \in 0 .. n - 1 : d.tab[i].key = l /\ d.tab[i].state = t)
  /\ \A T \in SUBSET InUseStates : Cardinality(Of(x, T)) = Cardinality(FirstOf(d, n, T \cap kept))

\* Filling begins with a table of no records.
LEMMA BlankCarries ==
  ASSUME NEW d, Table(d), NEW cap \in Nat \ {0}, NEW kept
  PROVE  Carried(d, cap, kept, 0, Blank(d, cap))
<1> DEFINE x == Blank(d, cap)
<1>1. DOMAIN d = {"tab", "cap", "occupied", "n_live", "n_freed", "failed"}
  BY DEF Table, Fields
<1>2. /\ x.tab = [i \in 0 .. cap - 1 |-> Empty] /\ x.cap = cap /\ x.occupied = 0
      /\ x.n_live = d.n_live /\ x.n_freed = d.n_freed /\ x.failed = d.failed
      /\ DOMAIN x = DOMAIN d
  BY <1>1 DEF Blank
<1> HIDE DEF x
<1>3. Empty \in Rec /\ Empty.state = "empty"
  BY DEF Empty, Rec, RecStates
<1>4. x.tab \in [0 .. cap - 1 -> Rec]
  BY <1>2, <1>3
<1>5. Fields(x)
  <2>2. d.n_live \in Nat /\ d.n_freed \in Nat /\ d.failed \in BOOLEAN
    BY DEF Table, Fields
  <2>3. x.cap \in Nat /\ x.occupied \in Nat /\ x.n_live \in Nat /\ x.n_freed \in Nat /\ x.failed \in BOOLEAN
    <3>1. x.cap \in Nat /\ x.occupied \in Nat /\ x.n_live \in Nat /\ x.n_freed \in Nat
      BY <1>2, <2>2
    <3>2. x.failed \in BOOLEAN
      BY <1>2, <2>2, Zenon
    <3> QED
      BY <3>1, <3>2, Zenon
  <2> QED
    BY <1>1, <1>2, <1>4, <2>3 DEF Fields
<1>6. \A i \in SlotsOf(x) : x.tab[i].state = "empty"
  BY <1>2, <1>3 DEF SlotsOf
<1>7. Reached(x)
  BY <1>6 DEF Reached
<1>8. ASSUME NEW T \in SUBSET InUseStates
      PROVE  Of(x, T) = {} /\ FirstOf(d, 0, T \cap kept) = {}
  BY <1>6 DEF Of, InUseStates, FirstOf
<1>9. Cardinality({}) = 0
  BY FS_EmptySet
<1>10. ASSUME NEW T \in SUBSET InUseStates
       PROVE  Cardinality(Of(x, T)) = Cardinality(FirstOf(d, 0, T \cap kept))
  BY <1>8
<1>11. x.occupied = Cardinality(Of(x, InUseStates))
  BY <1>2, <1>8, <1>9
<1>12. \A l \in Keys, t \in InUseStates : ~\E i \in SlotsOf(x) : x.tab[i].key = l /\ x.tab[i].state = t
  BY <1>6 DEF InUseStates
<1> QED
  BY <1>2, <1>5, <1>7, <1>10, <1>11, <1>12 DEF Carried, Table, x

\* The first slots, one slot further.
LEMMA FirstOfStep ==
  ASSUME NEW d, NEW n \in Nat \ {0}, NEW T
  PROVE  /\ IsFiniteSet(FirstOf(d, n - 1, T)) /\ Cardinality(FirstOf(d, n - 1, T)) \in Nat
         /\ Cardinality(FirstOf(d, n - 1, T)) <= n - 1
         /\ Cardinality(FirstOf(d, n, T)) = Cardinality(FirstOf(d, n - 1, T)) + IF d.tab[n - 1].state \in T THEN 1 ELSE 0
<1> DEFINE A == FirstOf(d, n - 1, T)
           B == FirstOf(d, n, T)
           q == n - 1
<1>1. /\ q \in Nat /\ n = q + 1
      /\ A = {i \in 0 .. q - 1 : d.tab[i].state \in T}
      /\ B = {i \in 0 .. q : d.tab[i].state \in T}
  BY DEF FirstOf
<1> HIDE DEF q
<1>2. 0 .. q = (0 .. q - 1) \cup {q} /\ q \notin 0 .. q - 1
  BY <1>1
<1>3. IsFiniteSet(0 .. q - 1) /\ Cardinality(0 .. q - 1) = q
  <2>1. [cap |-> q].cap = q
    OBVIOUS
  <2> QED
    BY <1>1, <2>1, OfFinite DEF SlotsOf
<1>4. A \subseteq 0 .. q - 1
  BY <1>1
<1>5. IsFiniteSet(A) /\ Cardinality(A) <= q
  BY <1>3, <1>4, FS_Subset
<1>6. Cardinality(A) \in Nat
  BY <1>5, FS_CardinalityType
<1>7. CASE d.tab[q].state \in T
  <2>1. B = A \cup {q} /\ q \notin A
    BY <1>1, <1>2, <1>7
  <2>2. Cardinality(B) = Cardinality(A) + 1
    BY <1>5, <2>1, FS_AddElement
  <2> QED
    BY <1>5, <1>6, <1>7, <2>2 DEF q
<1>8. CASE d.tab[q].state \notin T
  <2>1. B = A
    BY <1>1, <1>2, <1>8
  <2> HIDE DEF A, B
  <2>2. Cardinality(B) = Cardinality(A) + 0
    BY <1>6, <2>1
  <2> QED
    BY <1>5, <1>6, <1>8, <2>2 DEF q, A, B
<1> QED
  BY <1>7, <1>8

\* Inserting a record whose key the table does not have.
LEMMA InsertIs ==
  ASSUME NEW x, Table(x), NEW r \in Rec, r.key \in Keys, r.state \in InUseStates,
         Cardinality(Of(x, InUseStates)) < x.cap,
         \A i \in SlotsOf(x) : x.tab[i].key = r.key => x.tab[i].state = "empty"
  PROVE  /\ x.cap \in Nat \ {0} /\ Stops(x, r.key) # {}
         /\ Put(x, Insert(x, r), r.key, r.state) /\ x.tab[SlotFor(x, r.key)].state = "empty"
         /\ Insert(x, r).occupied = x.occupied + 1 /\ Insert(x, r).n_live = x.n_live
         /\ Insert(x, r).n_freed = x.n_freed /\ Insert(x, r).failed = x.failed
<1> DEFINE k == r.key
           s == SlotFor(x, k)
           e == Insert(x, r)
<1>1. Fields(x)
  BY DEF Table
<1>2. x.cap \in Nat \ {0} /\ Stops(x, k) # {}
  BY <1>1, Room
<1>3. s \in SlotsOf(x) /\ Ends(x, k, s)
  BY <1>2, SlotForIs
<1>4. x.tab[s].state = "empty"
  BY <1>3 DEF Ends
<1>5. r = [key |-> k, state |-> r.state]
  BY DEF Rec
<1> HIDE DEF s
<1>6. /\ e.tab = [x.tab EXCEPT ![s] = r] /\ e.cap = x.cap /\ e.occupied = x.occupied + 1
      /\ e.n_live = x.n_live /\ e.n_freed = x.n_freed /\ e.failed = x.failed /\ DOMAIN e = DOMAIN x
  BY <1>1 DEF Fields, Insert, s
<1> HIDE DEF e
<1>7. x.tab \in [0 .. x.cap - 1 -> Rec]
  BY <1>1, <1>2 DEF Fields
<1>8. e.tab \in [0 .. e.cap - 1 -> Rec]
  BY <1>3, <1>6, <1>7 DEF SlotsOf
<1>9. /\ e.cap \in Nat /\ e.occupied \in Nat /\ e.n_live \in Nat /\ e.n_freed \in Nat
  BY <1>1, <1>6 DEF Fields
<1>10. e.failed \in BOOLEAN
  <2>1. x.failed \in BOOLEAN
    BY <1>1 DEF Fields
  <2> QED
    BY <1>6, <2>1, Zenon
<1>11. DOMAIN e = {"tab", "cap", "occupied", "n_live", "n_freed", "failed"}
  BY <1>1, <1>6 DEF Fields
<1>12. e.cap # 0
  BY <1>2, <1>6
<1>13. Fields(e)
  BY <1>8, <1>9, <1>10, <1>11, <1>12 DEF Fields
<1>14. Put(x, e, k, r.state)
  BY <1>5, <1>6, <1>13, Zenon DEF Put, s
<1> QED
  BY <1>2, <1>4, <1>6, <1>14 DEF s, e

\* One more slot.
LEMMA FillStepCarries ==
  ASSUME NEW d, Table(d), NEW cap \in Nat, d.cap <= cap, NEW kept \in SUBSET InUseStates,
         NEW n \in 1 .. d.cap, NEW x, Carried(d, cap, kept, n - 1, x)
  PROVE  Carried(d, cap, kept, n, FillStep(d, kept, n, x))
<1> DEFINE q == n - 1
           r == d.tab[q]
<1>1. d.cap \in Nat \ {0} /\ d.tab \in [0 .. d.cap - 1 -> Rec]
  BY DEF Table, Fields
<1>2. q \in 0 .. d.cap - 1 /\ n \in Nat \ {0} /\ q \in SlotsOf(d) /\ q \in Nat
  BY <1>1 DEF SlotsOf
<1>3. r \in Rec
  BY <1>1, <1>2
<1>4. 0 .. n - 1 = (0 .. q - 1) \cup {q} /\ q \notin 0 .. q - 1 /\ 0 .. q - 1 \subseteq SlotsOf(d)
  BY <1>1, <1>2 DEF SlotsOf
<1>5. /\ Table(x) /\ x.cap = cap
      /\ x.n_live = d.n_live /\ x.n_freed = d.n_freed /\ x.failed = d.failed
      /\ x.occupied = Cardinality(Of(x, InUseStates))
      /\ \A l \in Keys, t \in InUseStates :
           (\E i \in SlotsOf(x) : x.tab[i].key = l /\ x.tab[i].state = t)
             <=> (t \in kept /\ \E i \in 0 .. q - 1 : d.tab[i].key = l /\ d.tab[i].state = t)
      /\ \A T \in SUBSET InUseStates : Cardinality(Of(x, T)) = Cardinality(FirstOf(d, q, T \cap kept))
  BY DEF Carried
<1>6. ASSUME NEW T
      PROVE  /\ Cardinality(FirstOf(d, q, T)) \in Nat /\ Cardinality(FirstOf(d, q, T)) <= q
             /\ Cardinality(FirstOf(d, n, T)) = Cardinality(FirstOf(d, q, T)) + IF r.state \in T THEN 1 ELSE 0
  BY <1>2, FirstOfStep
<1> DEFINE e == FillStep(d, kept, n, x)
<1>7. CASE r.state \notin kept
  <2>1. e = x
    BY <1>7 DEF FillStep
  <2> HIDE DEF e, r, q
  <2>2. ASSUME NEW T \in SUBSET InUseStates
        PROVE  Cardinality(Of(x, T)) = Cardinality(FirstOf(d, n, T \cap kept))
    <3>1. r.state \notin T \cap kept
      BY <1>7
    <3> QED
      BY <1>5, <1>6, <3>1
  <2>3. ASSUME NEW l \in Keys, NEW t \in InUseStates
        PROVE  (\E i \in SlotsOf(x) : x.tab[i].key = l /\ x.tab[i].state = t)
                 <=> (t \in kept /\ \E i \in 0 .. n - 1 : d.tab[i].key = l /\ d.tab[i].state = t)
    BY <1>4, <1>5, <1>7 DEF r
  <2>4. Carried(d, cap, kept, n, x)
    BY <1>5, <2>2, <2>3 DEF Carried
  <2> QED
    BY <2>1, <2>4 DEF e
<1>8. CASE r.state \in kept
  <2> DEFINE k == r.key
             st == r.state
  <2>1. st \in InUseStates /\ st # "empty"
    BY <1>8 DEF InUseStates
  <2>2. k \in Keys /\ SlotFor(d, k) = q
    BY <1>2, <2>1 DEF Table, Reached
  <2>3. e = Insert(x, r)
    BY <1>8 DEF FillStep
  <2> HIDE DEF e, r, q
  <2>4. ASSUME NEW i \in 0 .. q - 1, NEW t \in InUseStates, d.tab[i].key = k, d.tab[i].state = t
        PROVE  FALSE
    <3>1. SlotFor(d, k) = i
      BY <1>4, <2>4 DEF Table, Reached, InUseStates
    <3> QED
      BY <1>4, <2>2, <2>4, <3>1
  <2>5. \A i \in SlotsOf(x) : x.tab[i].key = k => x.tab[i].state = "empty"
    <3> SUFFICES ASSUME NEW i \in SlotsOf(x), x.tab[i].key = k, x.tab[i].state # "empty"
                 PROVE  FALSE
      OBVIOUS
    <3>1. x.tab[i] \in Rec
      BY <1>5 DEF Table, Fields, SlotsOf
    <3>2. x.tab[i].state \in InUseStates
      BY <3>1 DEF Rec, InUseStates
    <3> QED
      BY <1>5, <2>2, <2>4, <3>2
  <2>6. Cardinality(Of(x, InUseStates)) < x.cap
    <3>1. Cardinality(Of(x, InUseStates)) = Cardinality(FirstOf(d, q, InUseStates \cap kept))
      BY <1>5
    <3>2. Cardinality(FirstOf(d, q, InUseStates \cap kept)) <= q /\ Cardinality(FirstOf(d, q, InUseStates \cap kept)) \in Nat
      BY <1>6
    <3> QED
      BY <1>1, <1>2, <1>5, <3>1, <3>2
  <2> HIDE DEF k, st
  <2>7. /\ x.cap \in Nat \ {0} /\ Stops(x, k) # {}
        /\ Put(x, e, k, st) /\ x.tab[SlotFor(x, k)].state = "empty"
        /\ e.occupied = x.occupied + 1 /\ e.n_live = x.n_live
        /\ e.n_freed = x.n_freed /\ e.failed = x.failed
    <3> USE DEF k, st
    <3> QED
      BY <1>3, <1>5, <2>1, <2>2, <2>3, <2>5, <2>6, InsertIs
  <2>8. Table(e) /\ e.cap = cap
    <3>1. e.cap = x.cap
      BY <2>7 DEF Put
    <3> QED
      BY <1>5, <2>1, <2>2, <2>7, <3>1, PutReaches
  <2>9. ASSUME NEW T \in SUBSET InUseStates
        PROVE  /\ Cardinality(Of(x, T)) \in Nat
               /\ Cardinality(Of(e, T)) = Cardinality(Of(x, T)) + IF st \in T THEN 1 ELSE 0
    <3>1. x.tab[SlotFor(x, k)].state \notin T
      BY <2>7 DEF InUseStates
    <3>2. /\ Cardinality(Of(x, T)) \in Nat
          /\ Cardinality(Of(e, T)) = Cardinality(Of(x, T))
                                       + (IF st \in T THEN 1 ELSE 0)
                                       - (IF x.tab[SlotFor(x, k)].state \in T THEN 1 ELSE 0)
      BY <1>5, <2>1, <2>2, <2>7, PutCounts
    <3> QED
      BY <3>1, <3>2
  <2>10. ASSUME NEW T \in SUBSET InUseStates
         PROVE  Cardinality(Of(e, T)) = Cardinality(FirstOf(d, n, T \cap kept))
    <3>1. st \in T <=> r.state \in T \cap kept
      BY <1>8 DEF st
    <3>2. Cardinality(Of(x, T)) = Cardinality(FirstOf(d, q, T \cap kept))
      BY <1>5
    <3> QED
      BY <1>6, <2>9, <3>1, <3>2
  <2>11. e.occupied = Cardinality(Of(e, InUseStates))
    BY <1>5, <2>1, <2>7, <2>9
  <2>12. /\ StateOf(e, k) = st
         /\ \A l \in Keys, t \in InUseStates : l # k =>
              ((\E i \in SlotsOf(e) : e.tab[i].key = l /\ e.tab[i].state = t)
                <=> (\E i \in SlotsOf(x) : x.tab[i].key = l /\ x.tab[i].state = t))
    BY <1>5, <2>1, <2>2, <2>7, PutStates
  <2>13. ASSUME NEW l \in Keys, NEW t \in InUseStates
         PROVE  (\E i \in SlotsOf(e) : e.tab[i].key = l /\ e.tab[i].state = t)
                  <=> (t \in kept /\ \E i \in 0 .. n - 1 : d.tab[i].key = l /\ d.tab[i].state = t)
    <3>1. CASE l = k
      <4>1. (\E i \in SlotsOf(e) : e.tab[i].key = l /\ e.tab[i].state = t) <=> t = st
        BY <2>2, <2>8, <2>12, <3>1, StateIs
      <4>2. (t \in kept /\ \E i \in 0 .. n - 1 : d.tab[i].key = l /\ d.tab[i].state = t) <=> t = st
        BY <1>4, <1>8, <2>4, <3>1 DEF k, st, r
      <4> QED
        BY <4>1, <4>2
    <3>2. CASE l # k
      <4>1. (\E i \in 0 .. n - 1 : d.tab[i].key = l /\ d.tab[i].state = t)
              <=> (\E i \in 0 .. q - 1 : d.tab[i].key = l /\ d.tab[i].state = t)
        BY <1>4, <3>2 DEF k, r
      <4> QED
        BY <1>5, <2>12, <3>2, <4>1
    <3> QED
      BY <3>1, <3>2
  <2>14. e.n_live = d.n_live /\ e.n_freed = d.n_freed /\ e.failed = d.failed
    BY <1>5, <2>7, Zenon
  <2>15. Carried(d, cap, kept, n, e)
    BY <2>8, <2>10, <2>11, <2>13, <2>14 DEF Carried
  <2> QED
    BY <2>15 DEF e
<1> QED
  BY <1>7, <1>8

\* Refill carries over the records that are kept, and nothing else.
LEMMA RefillCarries ==
  ASSUME NEW d, Table(d), NEW cap \in Nat \ {0}, d.cap <= cap, NEW kept \in SUBSET InUseStates
  PROVE  Carried(d, cap, kept, d.cap, Refill(d, cap, kept))
<1>1. d.cap \in Nat
  BY DEF Table, Fields
<1>2. PICK h : Filling(d, cap, kept, d.cap, h) /\ Refill(d, cap, kept) = h[d.cap]
  BY <1>1, RefillIs
<1> SUFFICES ASSUME ~Carried(d, cap, kept, d.cap, h[d.cap])
             PROVE  FALSE
  BY <1>2
<1> DEFINE S == {n \in 0 .. d.cap : ~Carried(d, cap, kept, n, h[n])}
<1>3. S \in SUBSET Nat /\ S # {}
  <2>1. d.cap \in S
    BY <1>1
  <2> QED
    BY <1>1, <2>1
<1>4. PICK n \in S : \A i \in S : n <= i
  <2> HIDE DEF S
  <2> QED
    BY <1>3, HasSmallest
<1>5. n # 0
  BY <1>2, BlankCarries DEF Filling
<1>6. n \in 1 .. d.cap /\ n - 1 \in 0 .. d.cap /\ ~(n <= n - 1)
  BY <1>1, <1>5
<1>7. Carried(d, cap, kept, n - 1, h[n - 1])
  BY <1>4, <1>6
<1>8. h[n] = FillStep(d, kept, n, h[n - 1])
  BY <1>2, <1>6 DEF Filling
<1>9. Carried(d, cap, kept, n, h[n])
  BY <1>6, <1>7, <1>8, FillStepCarries
<1> QED
  BY <1>9

\* The same, in terms of what probes and counters tell.
LEMMA RefillKeeps ==
  ASSUME NEW d, Table(d), NEW cap \in Nat \ {0}, d.cap <= cap, NEW kept \in SUBSET InUseStates, NEW e,
         e = Refill(d, cap, kept)
  PROVE  /\ Table(e) /\ e.cap = cap
         /\ e.n_live = d.n_live /\ e.n_freed = d.n_freed /\ e.failed = d.failed
         /\ e.occupied = Cardinality(Of(e, InUseStates))
         /\ \A k \in Keys, t \in InUseStates : StateOf(e, k) = t <=> t \in kept /\ StateOf(d, k) = t
         /\ \A T \in SUBSET InUseStates : Cardinality(Of(e, T)) = Cardinality(Of(d, T \cap kept))
<1>1. Carried(d, cap, kept, d.cap, e)
  BY RefillCarries
<1>2. ASSUME NEW T
      PROVE  FirstOf(d, d.cap, T) = Of(d, T)
  BY DEF FirstOf, Of, SlotsOf
<1>3. Table(e)
  BY <1>1 DEF Carried
<1>4. ASSUME NEW k \in Keys, NEW t \in InUseStates
      PROVE  StateOf(e, k) = t <=> t \in kept /\ StateOf(d, k) = t
  <2>1. StateOf(e, k) = t <=> \E i \in SlotsOf(e) : e.tab[i].key = k /\ e.tab[i].state = t
    BY <1>3, StateIs
  <2>2. StateOf(d, k) = t <=> \E i \in SlotsOf(d) : d.tab[i].key = k /\ d.tab[i].state = t
    BY StateIs
  <2>3. (\E i \in SlotsOf(e) : e.tab[i].key = k /\ e.tab[i].state = t)
          <=> (t \in kept /\ \E i \in 0 .. d.cap - 1 : d.tab[i].key = k /\ d.tab[i].state = t)
    BY <1>1 DEF Carried
  <2> QED
    BY <2>1, <2>2, <2>3 DEF SlotsOf
<1> QED
  BY <1>1, <1>2, <1>4 DEF Carried

\* e may replace d: it is in order, has the same live records and does not
\* forget a failure.
Succeeds(d, e) ==
  /\ Sane(e)
  /\ \A k \in Keys : StateOf(e, k) = "live" <=> StateOf(d, k) = "live"
  /\ d.failed = TRUE => e.failed = TRUE

\* The table has room, or a mapping has failed.
Fits(d) == d.failed = TRUE \/ (d.cap # 0 /\ d.occupied < d.cap)

\* A table replaces itself, and what replaces its successor.
LEMMA SucceedsChain ==
  /\ \A d : Sane(d) => Succeeds(d, d)
  /\ \A d, e, g : Succeeds(d, e) /\ Succeeds(e, g) => Succeeds(d, g)
BY DEF Succeeds

\* Tables with the same slots tell the same.
LEMMA SameTable ==
  ASSUME NEW d, NEW e, e.tab = d.tab, e.cap = d.cap
  PROVE  /\ SlotsOf(e) = SlotsOf(d)
         /\ \A T : Of(e, T) = Of(d, T)
         /\ \A k : SlotFor(e, k) = SlotFor(d, k) /\ StateOf(e, k) = StateOf(d, k)
         /\ Reached(d) => Reached(e)
<1>1. SlotsOf(e) = SlotsOf(d) /\ \A T : Of(e, T) = Of(d, T)
  BY DEF SlotsOf, Of
<1>2. \A k : Stops(e, k) = Stops(d, k) /\ SlotFor(e, k) = SlotFor(d, k)
  BY DEF SlotFor, Stops, Slot
<1>3. \A k : StateOf(e, k) = StateOf(d, k)
  BY <1>2 DEF StateOf
<1>4. Reached(d) => Reached(e)
  BY <1>1, <1>2 DEF Reached
<1> QED
  BY <1>1, <1>2, <1>3, <1>4

\* A mapping that fails changes nothing but the flag.
LEMMA FailedIs ==
  ASSUME NEW d, Sane(d), NEW e, e = [d EXCEPT !.failed = TRUE]
  PROVE  Succeeds(d, e) /\ e.failed = TRUE /\ e.cap = d.cap /\ e.occupied = d.occupied
<1>1. Fields(d) /\ Table(d)
  BY DEF Sane, Table
<1>2. /\ e.tab = d.tab /\ e.cap = d.cap /\ e.occupied = d.occupied
      /\ e.n_live = d.n_live /\ e.n_freed = d.n_freed /\ e.failed = TRUE /\ DOMAIN e = DOMAIN d
  BY <1>1 DEF Fields
<1>3. Fields(e)
  <2>1. TRUE \in BOOLEAN
    OBVIOUS
  <2> QED
    BY <1>1, <1>2, <2>1 DEF Fields
<1>4. /\ \A T : Of(e, T) = Of(d, T)
      /\ \A k : StateOf(e, k) = StateOf(d, k)
      /\ Reached(d) => Reached(e)
  BY <1>2, SameTable
<1>6. Reached(e)
  BY <1>1, <1>4 DEF Table
<1>7. Counted(e)
  BY <1>2, <1>4 DEF Sane, Counted
<1> QED
  BY <1>2, <1>3, <1>4, <1>6, <1>7 DEF Succeeds, Sane, Table

\* A larger table.
LEMMA RehashIs ==
  ASSUME NEW d, Sane(d), NEW cap \in Nat, d.cap < cap, NEW e \in Rehash(d, cap)
  PROVE  Succeeds(d, e) /\ Fits(e)
<1>1. Table(d) /\ Counted(d) /\ d.cap \in Nat
  BY DEF Sane, Table, Fields
<1>2. e = Refill(d, cap, InUseStates) \/ e = [d EXCEPT !.failed = TRUE]
  BY DEF Rehash, Mapped, InUseStates
<1>3. CASE e = Refill(d, cap, InUseStates)
  <2>1. /\ Table(e) /\ e.cap = cap
        /\ e.n_live = d.n_live /\ e.n_freed = d.n_freed /\ e.failed = d.failed
        /\ e.occupied = Cardinality(Of(e, InUseStates))
        /\ \A k \in Keys, t \in InUseStates : StateOf(e, k) = t <=> t \in InUseStates /\ StateOf(d, k) = t
        /\ \A T \in SUBSET InUseStates : Cardinality(Of(e, T)) = Cardinality(Of(d, T \cap InUseStates))
    BY <1>1, <1>3, RefillKeeps
  <2>2. "live" \in InUseStates /\ {"live"} \subseteq InUseStates /\ {"freed", "tombstoned"} \subseteq InUseStates
    BY DEF InUseStates, RecStates
  <2>3. \A T \in SUBSET InUseStates : T \cap InUseStates = T
    OBVIOUS
  <2>4. \A T \in SUBSET InUseStates : Cardinality(Of(e, T)) = Cardinality(Of(d, T))
    BY <2>1, <2>3
  <2>5. Counted(e)
    BY <1>1, <2>1, <2>2, <2>4 DEF Counted
  <2>6. Succeeds(d, e)
    BY <2>1, <2>2, <2>5 DEF Succeeds, Sane
  <2>7. Cardinality(Of(d, InUseStates)) \in Nat /\ Cardinality(Of(d, InUseStates)) <= d.cap
    BY <1>1, OfFinite
  <2>8. e.cap # 0 /\ e.occupied < e.cap
    BY <1>1, <2>1, <2>4, <2>7
  <2> QED
    BY <2>6, <2>8 DEF Fits
<1>4. CASE e = [d EXCEPT !.failed = TRUE]
  BY <1>4, FailedIs DEF Fits
<1> QED
  BY <1>2, <1>3, <1>4

\* A table without the records that are not live.
LEMMA EvictedIs ==
  ASSUME NEW d, Sane(d), d.cap # 0, NEW e \in Mapped(d, Evicted(d))
  PROVE  Succeeds(d, e) /\ e.cap = d.cap
<1>1. Table(d) /\ Counted(d) /\ d.cap \in Nat \ {0}
  BY DEF Sane, Table, Fields
<1>2. CASE e = Evicted(d)
  <2> DEFINE x == Refill(d, d.cap, {"live"})
  <2>1. "live" \in InUseStates /\ {"live"} \subseteq InUseStates /\ {"freed", "tombstoned"} \subseteq InUseStates
    BY DEF InUseStates, RecStates
  <2>2. /\ Table(x) /\ x.cap = d.cap
        /\ x.n_live = d.n_live /\ x.failed = d.failed
        /\ x.occupied = Cardinality(Of(x, InUseStates))
        /\ \A k \in Keys, t \in InUseStates : StateOf(x, k) = t <=> t \in {"live"} /\ StateOf(d, k) = t
        /\ \A T \in SUBSET InUseStates : Cardinality(Of(x, T)) = Cardinality(Of(d, T \cap {"live"}))
    BY <1>1, <2>1, RefillKeeps
  <2> HIDE DEF x
  <2>3. e = [x EXCEPT !.n_freed = 0] /\ Fields(x)
    BY <1>2, <2>2 DEF Evicted, x, Table
  <2>4. /\ e.tab = x.tab /\ e.cap = x.cap /\ e.occupied = x.occupied
        /\ e.n_live = x.n_live /\ e.n_freed = 0 /\ e.failed = x.failed /\ DOMAIN e = DOMAIN x
    BY <2>3 DEF Fields
  <2>5. Fields(e)
    <3>1. e.failed \in BOOLEAN
      BY <2>3, <2>4 DEF Fields
    <3> QED
      BY <2>3, <2>4, <3>1 DEF Fields
  <2>6. /\ \A T : Of(e, T) = Of(x, T)
        /\ \A k : StateOf(e, k) = StateOf(x, k)
        /\ Reached(x) => Reached(e)
    BY <2>4, SameTable
  <2>8. Reached(e)
    BY <2>2, <2>6 DEF Table
  <2>10. Cardinality(Of(x, {"freed", "tombstoned"})) = 0
    <3>1. {"freed", "tombstoned"} \cap {"live"} = {}
      OBVIOUS
    <3>2. Of(d, {}) = {}
      BY DEF Of
    <3>3. Cardinality({}) = 0
      BY FS_EmptySet
    <3> QED
      BY <2>1, <2>2, <3>1, <3>2, <3>3
  <2>11. Cardinality(Of(x, {"live"})) = d.n_live
    BY <1>1, <2>1, <2>2 DEF Counted
  <2>12. Counted(e)
    BY <2>2, <2>4, <2>6, <2>10, <2>11 DEF Counted
  <2> QED
    BY <2>1, <2>2, <2>4, <2>5, <2>6, <2>8, <2>12 DEF Succeeds, Sane, Table
<1>3. CASE e = [d EXCEPT !.failed = TRUE]
  BY <1>3, FailedIs
<1> QED
  BY <1>2, <1>3 DEF Mapped

\* Growth gives a table that has room, or reports that it could not.
LEMMA GrowIs ==
  ASSUME NEW d, Sane(d), d.failed = TRUE \/ d.cap # 0, NEW g \in Grow(d)
  PROVE  Succeeds(d, g) /\ Fits(g)
<1>1. ASSUME NEW e, Sane(e), ~Loaded(e)
      PROVE  Fits(e)
  <2>1. e.cap \in Nat /\ e.occupied \in Nat
    BY <1>1 DEF Sane, Table, Fields
  <2>2. ~(e.occupied * 10 >= e.cap * 7)
    BY <1>1 DEF Loaded
  <2> QED
    BY <2>1, <2>2 DEF Fits
<1>2. CASE d.cap = 0 \/ ~Loaded(d)
  <2>1. g = d
    BY <1>2 DEF Grow
  <2>2. Succeeds(d, g)
    BY <2>1, SucceedsChain
  <2>3. Fits(d)
    <3>1. CASE d.cap # 0
      BY <1>1, <1>2, <3>1
    <3>2. CASE d.cap = 0
      BY <3>2 DEF Fits
    <3> QED
      BY <3>1, <3>2
  <2> QED
    BY <2>1, <2>2, <2>3, Zenon
<1>3. CASE d.cap # 0 /\ Loaded(d)
  <2> DEFINE D == IF 2 * d.cap > MaxRecords /\ d.occupied > d.n_live THEN Mapped(d, Evicted(d)) ELSE {d}
  <2>1. PICK e \in D : g \in IF Loaded(e) THEN Rehash(e, 2 * e.cap) ELSE {e}
    BY <1>3 DEF Grow
  <2>2. Succeeds(d, e) /\ e.cap = d.cap
    <3>1. CASE e = d
      BY <3>1, SucceedsChain
    <3>2. CASE e \in Mapped(d, Evicted(d))
      BY <1>3, <3>2, EvictedIs
    <3> QED
      BY <2>1, <3>1, <3>2
  <2> HIDE DEF D
  <2>3. Sane(e) /\ e.cap \in Nat \ {0}
    <3>1. Sane(e)
      BY <2>2 DEF Succeeds
    <3> QED
      BY <1>3, <2>2, <3>1 DEF Sane, Table, Fields
  <2>4. CASE Loaded(e)
    <3>1. g \in Rehash(e, 2 * e.cap)
      BY <2>1, <2>4
    <3>2. 2 * e.cap \in Nat /\ e.cap < 2 * e.cap
      BY <2>3
    <3>3. Succeeds(e, g) /\ Fits(g)
      BY <2>3, <3>1, <3>2, RehashIs
    <3> QED
      BY <2>2, <3>3, SucceedsChain
  <2>5. CASE ~Loaded(e)
    <3>1. g = e
      BY <2>1, <2>5
    <3> QED
      BY <1>1, <2>2, <2>3, <2>5, <3>1
  <2> QED
    BY <2>4, <2>5
<1> QED
  BY <1>2, <1>3

\* The table that record_alloc looks for a slot in.
LEMMA PreparedIs ==
  ASSUME NEW d, Sane(d), NEW g \in UNION {Grow(e) : e \in Ensure(d)}
  PROVE  Succeeds(d, g) /\ Fits(g)
<1>1. PICK e \in Ensure(d) : g \in Grow(e)
  OBVIOUS
<1>2. Succeeds(d, e) /\ (e.failed = TRUE \/ e.cap # 0)
  <2>1. CASE d.cap = 0
    <3>1. e \in Rehash(d, InitCap)
      BY <1>1, <2>1 DEF Ensure
    <3>2. InitCap \in Nat /\ d.cap < InitCap
      BY <2>1, LedgerAssumption
    <3> QED
      BY <3>1, <3>2, RehashIs DEF Fits
  <2>2. CASE d.cap # 0
    BY <1>1, <2>2, SucceedsChain DEF Ensure
  <2> QED
    BY <2>1, <2>2
<1>3. Sane(e)
  BY <1>2 DEF Succeeds
<1>4. Succeeds(e, g) /\ Fits(g)
  BY <1>1, <1>2, <1>3, GrowIs
<1> QED
  BY <1>2, <1>4, SucceedsChain

\* e is d with a record written at the slot of its key, and new counters.
Rewrites(d, e, k, st) ==
  /\ e.tab = [d.tab EXCEPT ![SlotFor(d, k)] = [key |-> k, state |-> st]]
  /\ e.cap = d.cap /\ e.failed = d.failed /\ DOMAIN e = DOMAIN d
  /\ e.occupied \in Nat /\ e.n_live \in Nat /\ e.n_freed \in Nat

\* A record written at the slot of its key, seen through the counters.
LEMMA WriteIs ==
  ASSUME NEW d, Sane(d), d.cap # 0, NEW k \in Keys, Stops(d, k) # {}, NEW st \in InUseStates, NEW e,
         Rewrites(d, e, k, st)
  PROVE  /\ Table(e) /\ StateOf(e, k) = st
         /\ \A l \in Keys : l # k => StateOf(e, l) = StateOf(d, l)
         /\ d.tab[SlotFor(d, k)].state \in RecStates
         /\ \A T : /\ Cardinality(Of(d, T)) \in Nat
                   /\ d.tab[SlotFor(d, k)].state \in T => Cardinality(Of(d, T)) > 0
                   /\ Cardinality(Of(e, T)) = Cardinality(Of(d, T))
                                      + (IF st \in T THEN 1 ELSE 0)
                                      - (IF d.tab[SlotFor(d, k)].state \in T THEN 1 ELSE 0)
<1> DEFINE s == SlotFor(d, k)
<1>1. Table(d) /\ Fields(d)
  BY DEF Sane, Table
<1>2. d.cap \in Nat \ {0} /\ d.tab \in [0 .. d.cap - 1 -> Rec]
  BY <1>1 DEF Fields
<1>3. s \in SlotsOf(d)
  BY <1>2, SlotForIs
<1>4. d.tab[s] \in Rec
  BY <1>2, <1>3 DEF SlotsOf
<1>5. d.tab[s].state \in RecStates
  BY <1>4 DEF Rec
<1>6. [key |-> k, state |-> st] \in Rec
  BY DEF Rec, InUseStates
<1>7. Put(d, e, k, st)
  <2> HIDE DEF s
  <2>1. e.tab \in [0 .. e.cap - 1 -> Rec]
    <3>1. e.tab = [d.tab EXCEPT ![s] = [key |-> k, state |-> st]] /\ s \in 0 .. d.cap - 1
      BY <1>3 DEF s, SlotsOf, Rewrites
    <3>2. e.cap = d.cap
      BY DEF Rewrites
    <3> QED
      BY <1>2, <1>6, <3>1, <3>2
  <2>2. e.failed \in BOOLEAN
    <3>1. d.failed \in BOOLEAN
      BY <1>1 DEF Fields
    <3> QED
      BY <3>1, Zenon DEF Rewrites
  <2>3. DOMAIN e = {"tab", "cap", "occupied", "n_live", "n_freed", "failed"}
    BY <1>1 DEF Fields, Rewrites
  <2>4. Fields(e)
    BY <1>2, <2>1, <2>2, <2>3 DEF Fields, Rewrites
  <2> QED
    BY <2>4 DEF Put, Rewrites
<1>8. Table(e)
  BY <1>1, <1>7, PutReaches
<1>9. StateOf(e, k) = st /\ \A l \in Keys : l # k => StateOf(e, l) = StateOf(d, l)
  BY <1>1, <1>7, PutStates
<1>10. ASSUME NEW T
       PROVE  /\ Cardinality(Of(d, T)) \in Nat
              /\ Cardinality(Of(e, T)) = Cardinality(Of(d, T))
                                      + (IF st \in T THEN 1 ELSE 0)
                                      - (IF d.tab[SlotFor(d, k)].state \in T THEN 1 ELSE 0)
  BY <1>1, <1>7, PutCounts
<1>11. ASSUME NEW T, d.tab[s].state \in T
       PROVE  Cardinality(Of(d, T)) > 0
  <2>1. s \in Of(d, T)
    BY <1>3, <1>11 DEF Of
  <2>2. IsFiniteSet(Of(d, T)) /\ Cardinality(Of(d, T)) \in Nat
    BY <1>2, OfFinite
  <2>3. Cardinality(Of(d, T)) # 0
    BY <2>1, <2>2, FS_EmptySet
  <2> QED
    BY <2>2, <2>3
<1> QED
  BY <1>5, <1>8, <1>9, <1>10, <1>11

\* What a report about key k may do to the table.
Reports(d, e, k) ==
  /\ Sane(e)
  /\ \A l \in Keys : l # k => (StateOf(e, l) = "live" <=> StateOf(d, l) = "live")
  /\ d.failed = TRUE => e.failed = TRUE

\* record_alloc's write.
LEMMA EnterIs ==
  ASSUME NEW d, Sane(d), Fits(d), NEW k \in Keys, NEW e, e = DrEnter(d, k)
  PROVE  Reports(d, e, k) /\ (StateOf(e, k) = "live" \/ e.failed = TRUE)
<1>1. Table(d) /\ Fields(d) /\ Counted(d)
  BY DEF Sane, Table
<1>2. CASE d.cap = 0 \/ Stops(d, k) = {}
  <2>1. e = d
    BY <1>2 DEF DrEnter
  <2>2. d.failed = TRUE
    <3> SUFFICES ASSUME d.failed # TRUE
                 PROVE  FALSE
      OBVIOUS
    <3>1. d.cap # 0 /\ d.occupied < d.cap
      BY DEF Fits
    <3>2. Cardinality(Of(d, InUseStates)) < d.cap
      BY <1>1, <3>1 DEF Counted
    <3>3. Stops(d, k) # {}
      BY <1>1, <3>2, Room
    <3> QED
      BY <1>2, <3>1, <3>3
  <2> QED
    BY <2>1, <2>2 DEF Reports
<1>3. CASE d.cap # 0 /\ Stops(d, k) # {}
  <2> DEFINE s == SlotFor(d, k)
             was == d.tab[s].state
  <2>1. e = [d EXCEPT !.tab[s] = [key |-> k, state |-> "live"],
                      !.occupied = IF was = "empty" THEN @ + 1 ELSE @,
                      !.n_freed = IF was \in {"freed", "tombstoned"} /\ @ > 0 THEN @ - 1 ELSE @,
                      !.n_live = IF was # "live" THEN @ + 1 ELSE @]
    BY <1>3 DEF DrEnter
  <2> HIDE DEF s, was
  <2>2. /\ e.tab = [d.tab EXCEPT ![s] = [key |-> k, state |-> "live"]]
        /\ e.cap = d.cap /\ e.failed = d.failed /\ DOMAIN e = DOMAIN d
        /\ e.occupied = (IF was = "empty" THEN d.occupied + 1 ELSE d.occupied)
        /\ e.n_freed = (IF was \in {"freed", "tombstoned"} /\ d.n_freed > 0 THEN d.n_freed - 1 ELSE d.n_freed)
        /\ e.n_live = (IF was # "live" THEN d.n_live + 1 ELSE d.n_live)
    BY <1>1, <2>1 DEF Fields
  <2>3. d.occupied \in Nat /\ d.n_freed \in Nat /\ d.n_live \in Nat
    BY <1>1 DEF Fields
  <2>4. e.occupied \in Nat /\ e.n_live \in Nat /\ e.n_freed \in Nat
    BY <2>2, <2>3
  <2>5. "live" \in InUseStates
    BY DEF InUseStates, RecStates
  <2>6. /\ Table(e) /\ StateOf(e, k) = "live"
        /\ \A l \in Keys : l # k => StateOf(e, l) = StateOf(d, l)
        /\ was \in RecStates
        /\ \A T : /\ Cardinality(Of(d, T)) \in Nat
                  /\ was \in T => Cardinality(Of(d, T)) > 0
                  /\ Cardinality(Of(e, T)) = Cardinality(Of(d, T))
                                     + (IF "live" \in T THEN 1 ELSE 0) - (IF was \in T THEN 1 ELSE 0)
    <3>1. Rewrites(d, e, k, "live")
      BY <2>2, <2>4 DEF Rewrites, s
    <3> USE DEF s, was
    <3> QED
      BY <1>3, <2>5, <3>1, WriteIs
  <2>7. e.occupied = Cardinality(Of(e, InUseStates))
    <3>1. was \in InUseStates <=> was # "empty"
      BY <2>6 DEF InUseStates
    <3> QED
      BY <1>1, <2>2, <2>3, <2>5, <2>6, <3>1 DEF Counted
  <2>8. e.n_live = Cardinality(Of(e, {"live"}))
    BY <1>1, <2>2, <2>3, <2>6 DEF Counted
  <2>9. /\ e.n_freed >= Cardinality(Of(e, {"freed", "tombstoned"}))
        /\ ~Rescue => e.n_freed = Cardinality(Of(e, {"freed", "tombstoned"}))
    <3> DEFINE Fr == {"freed", "tombstoned"}
               c == Cardinality(Of(d, Fr))
    <3>1. /\ d.n_freed >= c /\ (~Rescue => d.n_freed = c)
      BY <1>1 DEF Counted
    <3>2. /\ c \in Nat /\ (was \in Fr => c > 0)
          /\ Cardinality(Of(e, Fr)) = c - (IF was \in Fr THEN 1 ELSE 0)
      BY <2>6
    <3> HIDE DEF c
    <3> QED
      BY <2>2, <2>3, <3>1, <3>2
  <2> QED
    BY <2>2, <2>6, <2>7, <2>8, <2>9 DEF Reports, Sane, Counted
<1> QED
  BY <1>2, <1>3

\* A record that is there keeps its key when its state is written.
LEMMA Restate ==
  ASSUME NEW d, Table(d), NEW k \in Keys, StateOf(d, k) # "empty", NEW st
  PROVE  /\ d.cap # 0 /\ Stops(d, k) # {} /\ d.tab[SlotFor(d, k)].state = StateOf(d, k)
         /\ [d.tab[SlotFor(d, k)] EXCEPT !.state = st] = [key |-> k, state |-> st]
<1> DEFINE s == SlotFor(d, k)
<1>1. d.cap # 0 /\ Stops(d, k) # {} /\ d.tab[s].state = StateOf(d, k)
  BY DEF StateOf
<1>2. d.cap \in Nat \ {0} /\ d.tab \in [0 .. d.cap - 1 -> Rec]
  BY <1>1 DEF Table, Fields
<1>3. s \in SlotsOf(d) /\ Ends(d, k, s)
  BY <1>1, <1>2, SlotForIs
<1>4. d.tab[s] \in Rec /\ d.tab[s].key = k
  BY <1>1, <1>2, <1>3 DEF SlotsOf, Ends
<1> HIDE DEF s
<1> DEFINE r == d.tab[s]
<1>5. r = [key |-> k, state |-> r.state]
  BY <1>4 DEF Rec
<1> HIDE DEF r
<1>6. [r EXCEPT !.state = st] = [key |-> k, state |-> st]
  BY <1>5
<1> QED
  BY <1>1, <1>6 DEF s, r

\* __mark_free_locked
LEMMA MarkFreeIs ==
  ASSUME NEW d, Sane(d), NEW k \in Keys, NEW to \in {"freed", "tombstoned"}, NEW e, e = MarkFree(d, k, to)
  PROVE  Reports(d, e, k) /\ StateOf(e, k) # "live" /\ (StateOf(d, k) # "live" => e = d)
<1>1. Table(d) /\ Fields(d) /\ Counted(d)
  BY DEF Sane, Table
<1>2. CASE StateOf(d, k) # "live"
  <2>1. e = d
    BY <1>2 DEF MarkFree
  <2> QED
    BY <1>2, <2>1 DEF Reports
<1>3. CASE StateOf(d, k) = "live"
  <2> DEFINE s == SlotFor(d, k)
             was == d.tab[s].state
  <2>1. /\ d.cap # 0 /\ Stops(d, k) # {} /\ was = "live"
        /\ [d.tab[s] EXCEPT !.state = to] = [key |-> k, state |-> to]
    BY <1>1, <1>3, Restate
  <2>2. e = [d EXCEPT !.tab[s].state = to,
                      !.n_live = IF @ > 0 THEN @ - 1 ELSE @, !.n_freed = @ + 1]
    BY <1>3 DEF MarkFree
  <2> HIDE DEF s, was
  <2>3. /\ e.tab = [d.tab EXCEPT ![s] = [d.tab[s] EXCEPT !.state = to]]
        /\ e.cap = d.cap /\ e.failed = d.failed /\ DOMAIN e = DOMAIN d
        /\ e.occupied = d.occupied /\ e.n_freed = d.n_freed + 1
        /\ e.n_live = (IF d.n_live > 0 THEN d.n_live - 1 ELSE d.n_live)
    BY <1>1, <2>2 DEF Fields
  <2>4. e.tab = [d.tab EXCEPT ![s] = [key |-> k, state |-> to]]
    BY <2>1, <2>3, Zenon
  <2>5. d.occupied \in Nat /\ d.n_freed \in Nat /\ d.n_live \in Nat
    BY <1>1 DEF Fields
  <2>6. e.occupied \in Nat /\ e.n_live \in Nat /\ e.n_freed \in Nat
    BY <2>3, <2>5
  <2>7. to \in InUseStates /\ "live" \in InUseStates
    BY DEF InUseStates, RecStates
  <2>8. /\ Table(e) /\ StateOf(e, k) = to
        /\ \A l \in Keys : l # k => StateOf(e, l) = StateOf(d, l)
        /\ \A T : /\ Cardinality(Of(d, T)) \in Nat
                  /\ was \in T => Cardinality(Of(d, T)) > 0
                  /\ Cardinality(Of(e, T)) = Cardinality(Of(d, T))
                                     + (IF to \in T THEN 1 ELSE 0) - (IF was \in T THEN 1 ELSE 0)
    <3>1. Rewrites(d, e, k, to)
      BY <2>3, <2>4, <2>6 DEF Rewrites, s
    <3> USE DEF s, was
    <3> QED
      BY <2>1, <2>7, <3>1, WriteIs
  <2>9. e.occupied = Cardinality(Of(e, InUseStates))
    BY <1>1, <2>1, <2>3, <2>5, <2>7, <2>8 DEF Counted
  <2>10. e.n_live = Cardinality(Of(e, {"live"}))
    BY <1>1, <2>1, <2>3, <2>5, <2>8 DEF Counted
  <2>11. Cardinality(Of(e, {"freed", "tombstoned"})) = Cardinality(Of(d, {"freed", "tombstoned"})) + 1
    BY <2>1, <2>8
  <2>12. Counted(e)
    BY <1>1, <2>3, <2>5, <2>8, <2>9, <2>10, <2>11 DEF Counted
  <2>13. to # "live"
    OBVIOUS
  <2> QED
    BY <1>3, <2>3, <2>8, <2>12, <2>13 DEF Reports, Sane
<1> QED
  BY <1>2, <1>3

\* __quarantine_locked
LEMMA QuarantineIs ==
  ASSUME NEW d, Sane(d), Rescue, NEW k \in Keys, NEW e, e = Quarantine(d, k)
  PROVE  Reports(d, e, k) /\ StateOf(e, k) # "live"
<1>1. Table(d) /\ Fields(d) /\ Counted(d)
  BY DEF Sane, Table
<1>2. CASE StateOf(d, k) = "empty"
  <2>1. e = d
    BY <1>2 DEF Quarantine
  <2> QED
    BY <1>2, <2>1 DEF Reports
<1>3. CASE StateOf(d, k) # "empty"
  <2> DEFINE s == SlotFor(d, k)
             was == d.tab[s].state
  <2>1. /\ d.cap # 0 /\ Stops(d, k) # {} /\ was = StateOf(d, k)
        /\ [d.tab[s] EXCEPT !.state = "quarantined"] = [key |-> k, state |-> "quarantined"]
    BY <1>1, <1>3, Restate
  <2>2. e = [d EXCEPT !.tab[s].state = "quarantined",
                      !.n_live = IF was = "live" /\ @ > 0 THEN @ - 1 ELSE @]
    <3>1. e = [d EXCEPT !.tab[s].state = "quarantined",
                        !.n_live = IF StateOf(d, k) = "live" /\ @ > 0 THEN @ - 1 ELSE @]
      BY <1>3 DEF Quarantine
    <3> HIDE DEF s, was
    <3> QED
      BY <2>1, <3>1
  <2> HIDE DEF s, was
  <2>3. /\ e.tab = [d.tab EXCEPT ![s] = [d.tab[s] EXCEPT !.state = "quarantined"]]
        /\ e.cap = d.cap /\ e.failed = d.failed /\ DOMAIN e = DOMAIN d
        /\ e.occupied = d.occupied /\ e.n_freed = d.n_freed
        /\ e.n_live = (IF was = "live" /\ d.n_live > 0 THEN d.n_live - 1 ELSE d.n_live)
    BY <1>1, <2>2 DEF Fields
  <2>4. e.tab = [d.tab EXCEPT ![s] = [key |-> k, state |-> "quarantined"]]
    BY <2>1, <2>3, Zenon
  <2>5. d.occupied \in Nat /\ d.n_freed \in Nat /\ d.n_live \in Nat
    BY <1>1 DEF Fields
  <2>6. e.occupied \in Nat /\ e.n_live \in Nat /\ e.n_freed \in Nat
    BY <2>3, <2>5
  <2>7. "quarantined" \in InUseStates /\ was \in InUseStates
    BY <1>1, <1>3, <2>1, StateIs DEF InUseStates, RecStates
  <2>8. /\ Table(e) /\ StateOf(e, k) = "quarantined"
        /\ \A l \in Keys : l # k => StateOf(e, l) = StateOf(d, l)
        /\ \A T : /\ Cardinality(Of(d, T)) \in Nat
                  /\ was \in T => Cardinality(Of(d, T)) > 0
                  /\ Cardinality(Of(e, T)) = Cardinality(Of(d, T))
                                     + (IF "quarantined" \in T THEN 1 ELSE 0) - (IF was \in T THEN 1 ELSE 0)
    <3>1. Rewrites(d, e, k, "quarantined")
      BY <2>3, <2>4, <2>6 DEF Rewrites, s
    <3> USE DEF s, was
    <3> QED
      BY <2>1, <2>7, <3>1, WriteIs
  <2>9. e.occupied = Cardinality(Of(e, InUseStates))
    BY <1>1, <2>3, <2>5, <2>7, <2>8 DEF Counted
  <2>10. e.n_live = Cardinality(Of(e, {"live"}))
    BY <1>1, <2>3, <2>5, <2>8 DEF Counted
  <2>11. /\ Cardinality(Of(e, {"freed", "tombstoned"})) <= Cardinality(Of(d, {"freed", "tombstoned"}))
         /\ Cardinality(Of(e, {"freed", "tombstoned"})) \in Int /\ Cardinality(Of(d, {"freed", "tombstoned"})) \in Int
    BY <2>8
  <2>12. Counted(e)
    BY <1>1, <2>3, <2>5, <2>9, <2>10, <2>11 DEF Counted
  <2> QED
    BY <2>3, <2>8, <2>12 DEF Reports, Sane
<1> QED
  BY <1>2, <1>3

\* record_alloc as a whole.
LEMMA RecordAllocIs ==
  ASSUME NEW d, Sane(d), NEW k \in Keys, NEW e \in record_alloc(d, k)
  PROVE  Reports(d, e, k) /\ (StateOf(e, k) = "live" \/ e.failed = TRUE)
<1>1. PICK g \in UNION {Grow(x) : x \in Ensure(d)} : e = DrEnter(g, k)
  BY DEF record_alloc
<1>2. Succeeds(d, g) /\ Fits(g)
  BY PreparedIs
<1>3. Sane(g)
  BY <1>2 DEF Succeeds
<1>4. Reports(g, e, k) /\ (StateOf(e, k) = "live" \/ e.failed = TRUE)
  BY <1>1, <1>2, <1>3, EnterIs
<1> QED
  BY <1>2, <1>4 DEF Reports, Succeeds

Statuses == {"avail", "taken", "held", "popped", "routed", "queued", "retired", "leaked", "spoiled"}

\* LedgerTruth for a table and the places of the blocks.
Truth(d, s) ==
  \A k \in Keys : /\ s[k] = "held" => StateOf(d, k) = "live" \/ d.failed = TRUE
                  /\ StateOf(d, k) = "live" => s[k] \in {"held", "popped"}

\* It is what the property says of the ledger's table.
LEMMA TruthIs ==
  ASSUME NEW d, Sane(d), NEW s
  PROVE  Truth(d, s) <=> \A k \in Keys : /\ s[k] = "held" => StateOf(d, k) = "live" \/ d.failed
                                         /\ StateOf(d, k) = "live" => s[k] \in {"held", "popped"}
<1>1. d.failed \in BOOLEAN
  BY DEF Sane, Table, Fields
<1>2. d.failed <=> d.failed = TRUE
  BY <1>1, Zenon
<1> QED
  BY <1>2, Zenon DEF Truth

\* A report about the block that moves.
LEMMA TruthMoves ==
  ASSUME NEW d, NEW e, NEW s \in [Keys -> Statuses], Truth(d, s), NEW k \in Keys, NEW new, Reports(d, e, k),
         new = "held" => StateOf(e, k) = "live" \/ e.failed = TRUE,
         StateOf(e, k) = "live" => new \in {"held", "popped"}
  PROVE  Truth(e, [s EXCEPT ![k] = new])
<1> DEFINE f == [s EXCEPT ![k] = new]
<1>1. f[k] = new /\ \A l \in Keys : l # k => f[l] = s[l]
  OBVIOUS
<1> HIDE DEF f
<1>2. ASSUME NEW l \in Keys
      PROVE  /\ f[l] = "held" => StateOf(e, l) = "live" \/ e.failed = TRUE
             /\ StateOf(e, l) = "live" => f[l] \in {"held", "popped"}
  <2>1. CASE l = k
    BY <1>1, <2>1
  <2>2. CASE l # k
    <3>1. f[l] = s[l]
      BY <1>1, <2>2
    <3>2. (StateOf(e, l) = "live" <=> StateOf(d, l) = "live") /\ (d.failed = TRUE => e.failed = TRUE)
      BY <2>2 DEF Reports
    <3>3. /\ s[l] = "held" => StateOf(d, l) = "live" \/ d.failed = TRUE
          /\ StateOf(d, l) = "live" => s[l] \in {"held", "popped"}
      BY DEF Truth
    <3> QED
      BY <3>1, <3>2, <3>3
  <2> QED
    BY <2>1, <2>2
<1> QED
  BY <1>2 DEF Truth, f

\* The invariant, for values of the variables: the table is in order and tells
\* the truth, and every call under way is about a block of its own and will
\* report what became of it.
LedgerHolds(d, s, b) ==
  /\ Sane(d) /\ Truth(d, s) /\ s \in [Keys -> Statuses] /\ b \in [Threads -> [key : Keys \cup {NoKey}, to : RecStates]]
  /\ \A t \in Threads : b[t] # Idle =>
       /\ b[t].key \in Keys
       /\ \/ s[b[t].key] = "taken"
          \/ s[b[t].key] \in {"popped", "routed"} /\ b[t].to \in {"freed", "tombstoned"}
  /\ \A t, u \in Threads : t # u /\ b[t] # Idle /\ b[u] # Idle => b[t].key # b[u].key

\* A call begins.
LEMMA CallBegins ==
  ASSUME NEW d, NEW e, NEW s, NEW b, LedgerHolds(d, s, b), NEW t \in Threads, NEW k \in Keys, NEW new \in Statuses,
         NEW to \in RecStates, Reports(d, e, k), b[t] = Idle,
         s[k] \notin {"taken", "popped", "routed"},
         new = "taken" \/ (new \in {"popped", "routed"} /\ to \in {"freed", "tombstoned"}),
         StateOf(e, k) = "live" => new = "popped"
  PROVE  LedgerHolds(e, [s EXCEPT ![k] = new], [b EXCEPT ![t] = [key |-> k, to |-> to]])
<1> DEFINE f == [s EXCEPT ![k] = new]
           c == [b EXCEPT ![t] = [key |-> k, to |-> to]]
<1>1. s \in [Keys -> Statuses] /\ b \in [Threads -> [key : Keys \cup {NoKey}, to : RecStates]] /\ Truth(d, s)
  BY DEF LedgerHolds
<1>2. Truth(e, f)
  BY <1>1, TruthMoves
<1>3. Sane(e)
  BY DEF Reports
<1>4. f \in [Keys -> Statuses] /\ f[k] = new /\ \A l \in Keys : l # k => f[l] = s[l]
  BY <1>1
<1>5. /\ c \in [Threads -> [key : Keys \cup {NoKey}, to : RecStates]]
      /\ c[t] = [key |-> k, to |-> to] /\ \A u \in Threads : u # t => c[u] = b[u]
  BY <1>1
<1> HIDE DEF f, c
<1>6. c[t].key = k /\ c[t].to = to
  BY <1>5
<1>7. ASSUME NEW u \in Threads, u # t, b[u] # Idle
      PROVE  b[u].key \in Keys /\ b[u].key # k
  BY <1>7 DEF LedgerHolds
<1>8. ASSUME NEW u \in Threads, c[u] # Idle
      PROVE  /\ c[u].key \in Keys
             /\ \/ f[c[u].key] = "taken"
                \/ f[c[u].key] \in {"popped", "routed"} /\ c[u].to \in {"freed", "tombstoned"}
  <2>1. CASE u = t
    BY <1>4, <1>6, <2>1
  <2>2. CASE u # t
    <3>1. c[u] = b[u] /\ b[u] # Idle
      BY <1>5, <1>8, <2>2
    <3>2. b[u].key \in Keys /\ b[u].key # k
      BY <1>7, <2>2, <3>1
    <3>3. f[b[u].key] = s[b[u].key]
      BY <1>4, <3>2
    <3>4. \/ s[b[u].key] = "taken"
          \/ s[b[u].key] \in {"popped", "routed"} /\ b[u].to \in {"freed", "tombstoned"}
      BY <3>1 DEF LedgerHolds
    <3> QED
      BY <3>1, <3>2, <3>3, <3>4
  <2> QED
    BY <2>1, <2>2
<1>9. ASSUME NEW u \in Threads, NEW v \in Threads, u # v, c[u] # Idle, c[v] # Idle
      PROVE  c[u].key # c[v].key
  <2>1. CASE u = t
    <3>1. c[v] = b[v]
      BY <1>5, <1>9, <2>1
    <3> QED
      BY <1>6, <1>7, <1>9, <2>1, <3>1
  <2>2. CASE v = t
    <3>1. c[u] = b[u]
      BY <1>5, <1>9, <2>2
    <3> QED
      BY <1>6, <1>7, <1>9, <2>2, <3>1
  <2>3. CASE u # t /\ v # t
    <3>1. c[u] = b[u] /\ c[v] = b[v]
      BY <1>5, <2>3
    <3> QED
      BY <1>9, <3>1 DEF LedgerHolds
  <2> QED
    BY <2>1, <2>2, <2>3
<1>10. LedgerHolds(e, f, c)
  BY <1>2, <1>3, <1>4, <1>5, <1>8, <1>9 DEF LedgerHolds
<1> QED
  BY <1>10 DEF f, c

\* A block moves that no call is about, or no call any more.
LEMMA BlockMoves ==
  ASSUME NEW d, NEW e, NEW s, NEW b, NEW c, LedgerHolds(d, s, b), NEW k \in Keys, NEW new \in Statuses,
         Reports(d, e, k),
         c \in [Threads -> [key : Keys \cup {NoKey}, to : RecStates]],
         \A u \in Threads : c[u] # Idle => c[u] = b[u] /\ b[u].key # k,
         new = "held" => StateOf(e, k) = "live" \/ e.failed = TRUE,
         StateOf(e, k) = "live" => new = "held"
  PROVE  LedgerHolds(e, [s EXCEPT ![k] = new], c)
<1> DEFINE f == [s EXCEPT ![k] = new]
<1>1. s \in [Keys -> Statuses] /\ Truth(d, s)
  BY DEF LedgerHolds
<1>2. Truth(e, f)
  BY <1>1, TruthMoves
<1>3. Sane(e)
  BY DEF Reports
<1>4. f \in [Keys -> Statuses] /\ f[k] = new /\ \A l \in Keys : l # k => f[l] = s[l]
  BY <1>1
<1> HIDE DEF f
<1>5. ASSUME NEW u \in Threads, c[u] # Idle
      PROVE  /\ c[u].key \in Keys
             /\ \/ f[c[u].key] = "taken"
                \/ f[c[u].key] \in {"popped", "routed"} /\ c[u].to \in {"freed", "tombstoned"}
  <2>1. c[u] = b[u] /\ b[u] # Idle /\ b[u].key # k
    BY <1>5
  <2>2. /\ b[u].key \in Keys
        /\ \/ s[b[u].key] = "taken"
           \/ s[b[u].key] \in {"popped", "routed"} /\ b[u].to \in {"freed", "tombstoned"}
    BY <2>1 DEF LedgerHolds
  <2>3. f[b[u].key] = s[b[u].key]
    BY <1>4, <2>1, <2>2
  <2> QED
    BY <2>1, <2>2, <2>3
<1>6. ASSUME NEW u \in Threads, NEW v \in Threads, u # v, c[u] # Idle, c[v] # Idle
      PROVE  c[u].key # c[v].key
  <2>1. c[u] = b[u] /\ c[v] = b[v] /\ b[u] # Idle /\ b[v] # Idle
    BY <1>6
  <2> QED
    BY <1>6, <2>1 DEF LedgerHolds
<1>7. LedgerHolds(e, f, c)
  BY <1>2, <1>3, <1>4, <1>5, <1>6 DEF LedgerHolds
<1> QED
  BY <1>7 DEF f

LedgerInv == LedgerHolds(dr, status, busy)

\* Reporting nothing.
LEMMA NoReport ==
  ASSUME NEW d, Sane(d), NEW k
  PROVE  Reports(d, d, k)
BY DEF Reports

\* The first state.
LEMMA LedgerInit ==
  ASSUME DrInit
  PROVE  LedgerInv
<1>1. /\ dr.tab = <<>> /\ dr.cap = 0 /\ dr.occupied = 0 /\ dr.n_live = 0 /\ dr.n_freed = 0 /\ dr.failed = FALSE
      /\ DOMAIN dr = {"tab", "cap", "occupied", "n_live", "n_freed", "failed"}
  BY DEF DrInit
<1>2. status \in [Keys -> Statuses] /\ \A k \in Keys : status[k] = "avail"
  BY DEF DrInit, Statuses
<1>3. busy \in [Threads -> [key : Keys \cup {NoKey}, to : RecStates]] /\ \A t \in Threads : busy[t] = Idle
  BY DEF DrInit, Idle, RecStates
<1>4. Fields(dr)
  <2>1. dr.failed \in BOOLEAN
    BY <1>1, Zenon
  <2> QED
    BY <1>1, <2>1 DEF Fields
<1>5. SlotsOf(dr) = {} /\ \A T : Of(dr, T) = {}
  BY <1>1 DEF SlotsOf, Of
<1>6. Reached(dr)
  BY <1>5 DEF Reached
<1>7. Counted(dr)
  <2>1. Cardinality({}) = 0
    BY FS_EmptySet
  <2>2. /\ Cardinality(Of(dr, InUseStates)) = 0 /\ Cardinality(Of(dr, {"live"})) = 0
        /\ Cardinality(Of(dr, {"freed", "tombstoned"})) = 0
    BY <1>5, <2>1
  <2> QED
    BY <1>1, <2>2 DEF Counted
<1>8. \A k \in Keys : StateOf(dr, k) = "empty"
  BY <1>1 DEF StateOf
<1>9. Truth(dr, status)
  BY <1>2, <1>8 DEF Truth
<1> QED
  BY <1>2, <1>3, <1>4, <1>6, <1>7, <1>9 DEF LedgerInv, LedgerHolds, Sane, Table

\* What the invariant says of a block that is not held.
LEMMA NotLive ==
  ASSUME LedgerInv, NEW k \in Keys, status[k] \notin {"held", "popped"}
  PROVE  StateOf(dr, k) # "live"
BY DEF LedgerInv, LedgerHolds, Truth

\* Calls that begin.
LEMMA BeginKeeps ==
  ASSUME LedgerInv, NEW t \in Threads, NEW k \in Keys, NEW from, NEW new \in Statuses, NEW to \in RecStates,
         Begin(t, k, from, new, to), status[k] \notin {"taken", "popped", "routed"}, Reports(dr, dr', k),
         new = "taken" \/ (new \in {"popped", "routed"} /\ to \in {"freed", "tombstoned"}),
         StateOf(dr', k) = "live" => new = "popped"
  PROVE  LedgerInv'
<1>1. /\ busy[t] = Idle /\ status[k] \notin {"taken", "popped", "routed"}
      /\ status' = [status EXCEPT ![k] = new] /\ busy' = [busy EXCEPT ![t] = [key |-> k, to |-> to]]
  BY DEF Begin
<1>2. LedgerHolds(dr, status, busy)
  BY DEF LedgerInv
<1>3. LedgerHolds(dr', [status EXCEPT ![k] = new], [busy EXCEPT ![t] = [key |-> k, to |-> to]])
  BY <1>1, <1>2, CallBegins
<1>4. LedgerHolds(dr', status', busy')
  BY <1>1, <1>3, Zenon
<1> QED
  BY <1>4 DEF LedgerInv

\* Calls that end.
LEMMA EndKeeps ==
  ASSUME LedgerInv, NEW t \in Threads, NEW from, NEW new \in Statuses, End(t, from, new),
         Reports(dr, dr', busy[t].key),
         new = "held" => StateOf(dr', busy[t].key) = "live" \/ dr'.failed = TRUE,
         StateOf(dr', busy[t].key) = "live" => new = "held"
  PROVE  LedgerInv'
<1> DEFINE k == busy[t].key
           c == [busy EXCEPT ![t] = Idle]
<1>1. /\ busy[t] # Idle /\ status' = [status EXCEPT ![k] = new] /\ busy' = c
  BY DEF End
<1>2. LedgerHolds(dr, status, busy)
  BY DEF LedgerInv
<1>3. k \in Keys /\ busy \in [Threads -> [key : Keys \cup {NoKey}, to : RecStates]]
  BY <1>1, <1>2 DEF LedgerHolds
<1>4. Idle \in [key : Keys \cup {NoKey}, to : RecStates]
  BY DEF Idle, RecStates
<1>5. c \in [Threads -> [key : Keys \cup {NoKey}, to : RecStates]] /\ c[t] = Idle
      /\ \A u \in Threads : u # t => c[u] = busy[u]
  BY <1>3, <1>4
<1> HIDE DEF c
<1>6. \A u \in Threads : c[u] # Idle => c[u] = busy[u] /\ busy[u].key # k
  BY <1>1, <1>2, <1>5 DEF LedgerHolds
<1> HIDE DEF k
<1>7. LedgerHolds(dr', [status EXCEPT ![k] = new], c)
  <2>1. /\ Reports(dr, dr', k)
        /\ new = "held" => StateOf(dr', k) = "live" \/ dr'.failed = TRUE
        /\ StateOf(dr', k) = "live" => new = "held"
    BY DEF k
  <2> QED
    BY <1>2, <1>3, <1>5, <1>6, <2>1, BlockMoves
<1>8. LedgerHolds(dr', status', busy')
  BY <1>1, <1>7, Zenon
<1> QED
  BY <1>8 DEF LedgerInv

\* Blocks that move outside calls.
LEMMA MoveKeeps ==
  ASSUME LedgerInv, NEW k \in Keys, NEW new \in Statuses, status' = [status EXCEPT ![k] = new], busy' = busy,
         status[k] \notin {"taken", "popped", "routed"}, Reports(dr, dr', k), new # "held", StateOf(dr', k) # "live"
  PROVE  LedgerInv'
<1>1. LedgerHolds(dr, status, busy)
  BY DEF LedgerInv
<1>2. \A u \in Threads : busy[u] # Idle => busy[u] = busy[u] /\ busy[u].key # k
  BY <1>1 DEF LedgerHolds
<1>3. busy \in [Threads -> [key : Keys \cup {NoKey}, to : RecStates]]
  BY <1>1 DEF LedgerHolds
<1>4. LedgerHolds(dr', [status EXCEPT ![k] = new], busy)
  BY <1>1, <1>2, <1>3, BlockMoves
<1>5. LedgerHolds(dr', status', busy')
  BY <1>4, Zenon
<1> QED
  BY <1>5 DEF LedgerInv

\* Every step preserves the invariant.
LEMMA LedgerStep ==
  ASSUME LedgerInv, DrNext
  PROVE  LedgerInv'
<1>1. LedgerHolds(dr, status, busy) /\ Sane(dr) /\ status \in [Keys -> Statuses]
  BY DEF LedgerInv, LedgerHolds
<1>2. {"avail", "taken", "held", "popped", "routed", "queued", "retired", "leaked", "spoiled"} \subseteq Statuses
  BY DEF Statuses
<1>3. {"live", "freed", "tombstoned"} \subseteq RecStates
  BY DEF RecStates
<1>4. ASSUME NEW k \in Keys, Push(k)
      PROVE  LedgerInv'
  <2>1. Begin(Owner[k], k, {"avail"}, "taken", "live") /\ dr' = dr
    BY <1>4 DEF Push
  <2>2. Owner[k] \in Threads
    BY LedgerAssumption
  <2>3. status[k] = "avail"
    BY <2>1 DEF Begin
  <2>4. Reports(dr, dr', k) /\ StateOf(dr', k) # "live"
    BY <1>1, <2>1, <2>3, NoReport, NotLive
  <2>5. status[k] \notin {"taken", "popped", "routed"} /\ "taken" \in Statuses /\ "live" \in RecStates
    BY <1>2, <1>3, <2>3
  <2> QED
    BY <2>1, <2>2, <2>4, <2>5, BeginKeeps
<1>5. ASSUME NEW k \in Keys, Drain(k)
      PROVE  LedgerInv'
  <2>1. /\ status[k] \in {"queued", "retired"} /\ status' = [status EXCEPT ![k] = "avail"] /\ busy' = busy
        /\ dr' = IF status[k] = "retired" THEN MarkFree(dr, k, "tombstoned") ELSE dr
    BY <1>5 DEF Drain
  <2>2. StateOf(dr, k) # "live"
    BY <2>1, NotLive
  <2>3. dr' = dr
    BY <2>1, <2>2 DEF MarkFree
  <2>4. Reports(dr, dr', k) /\ StateOf(dr', k) # "live"
    BY <1>1, <2>2, <2>3, NoReport
  <2> QED
    BY <1>2, <2>1, <2>4, MoveKeeps
<1>6. ASSUME NEW k \in Keys, DropDuplicate(k)
      PROVE  LedgerInv'
  <2>1. Rescue /\ status[k] = "avail" /\ dr' = Quarantine(dr, k) /\ status' = status /\ busy' = busy
    BY <1>6 DEF DropDuplicate
  <2>2. Reports(dr, dr', k) /\ StateOf(dr', k) # "live"
    BY <1>1, <2>1, QuarantineIs
  <2>3. status' = [status EXCEPT ![k] = "avail"]
    BY <1>1, <2>1
  <2> QED
    BY <1>2, <2>1, <2>2, <2>3, MoveKeeps
<1>7. ASSUME NEW k \in Keys, NEW new \in {"leaked", "spoiled"}, BadCall(k, new)
      PROVE  LedgerInv'
  <2>1. /\ Rescue /\ status[k] \in {"held", "spoiled"} /\ dr' = Quarantine(dr, k)
        /\ status' = [status EXCEPT ![k] = new] /\ busy' = busy
    BY <1>7 DEF BadCall
  <2>2. Reports(dr, dr', k) /\ StateOf(dr', k) # "live"
    BY <1>1, <2>1, QuarantineIs
  <2>3. new \in Statuses /\ new # "held"
    BY <1>2
  <2> QED
    BY <2>1, <2>2, <2>3, MoveKeeps
<1>8. ASSUME NEW t \in Threads, RecordAlloc(t)
      PROVE  LedgerInv'
  <2>1. End(t, "taken", "held") /\ dr' \in record_alloc(dr, busy[t].key)
    BY <1>8 DEF RecordAlloc
  <2>2. busy[t].key \in Keys
    BY <1>1, <2>1 DEF End, LedgerHolds
  <2>3. Reports(dr, dr', busy[t].key) /\ (StateOf(dr', busy[t].key) = "live" \/ dr'.failed = TRUE)
    BY <1>1, <2>1, <2>2, RecordAllocIs
  <2>4. "held" \in Statuses
    BY <1>2
  <2> QED
    BY <2>1, <2>3, <2>4, EndKeeps
<1>9. ASSUME NEW t \in Threads, RecordFree(t)
      PROVE  LedgerInv'
  <2>1. End(t, "popped", "avail") /\ dr' = MarkFree(dr, busy[t].key, busy[t].to)
    BY <1>9 DEF RecordFree
  <2>2. busy[t].key \in Keys /\ busy[t].to \in {"freed", "tombstoned"}
    BY <1>1, <2>1 DEF End, LedgerHolds
  <2>3. Reports(dr, dr', busy[t].key) /\ StateOf(dr', busy[t].key) # "live"
    BY <1>1, <2>1, <2>2, MarkFreeIs
  <2>4. "avail" \in Statuses
    BY <1>2
  <2> QED
    BY <2>1, <2>3, <2>4, EndKeeps
<1>10. ASSUME NEW t \in Threads, RemotePush(t)
       PROVE  LedgerInv'
  <2> DEFINE new == IF busy[t].to = "tombstoned" THEN "retired" ELSE "queued"
  <2>1. End(t, "routed", new) /\ dr' = dr
    BY <1>10 DEF RemotePush
  <2>2. busy[t].key \in Keys /\ status[busy[t].key] = "routed"
    BY <1>1, <2>1 DEF End, LedgerHolds
  <2>3. Reports(dr, dr', busy[t].key) /\ StateOf(dr', busy[t].key) # "live"
    BY <1>1, <2>1, <2>2, NoReport, NotLive
  <2>4. new \in Statuses /\ new # "held"
    BY <1>2
  <2> HIDE DEF new
  <2> QED
    BY <2>1, <2>3, <2>4, EndKeeps
<1>11. ASSUME NEW k \in Keys, NEW to \in {"freed", "tombstoned"}, DrPop(k, to)
       PROVE  LedgerInv'
  <2>1. Begin(Owner[k], k, {"held", "spoiled"}, "popped", to) /\ dr' = dr
    BY <1>11 DEF DrPop
  <2>2. Owner[k] \in Threads /\ to \in RecStates /\ "popped" \in Statuses
    BY <1>2, <1>3, LedgerAssumption
  <2>3. Reports(dr, dr', k)
    BY <1>1, <2>1, NoReport
  <2>4. status[k] \notin {"taken", "popped", "routed"}
    BY <2>1 DEF Begin
  <2> QED
    BY <2>1, <2>2, <2>3, <2>4, BeginKeeps
<1>12. ASSUME NEW t \in Threads, NEW k \in Keys, NEW to \in {"freed", "tombstoned"}, RouteRemote(t, k, to)
       PROVE  LedgerInv'
  <2>1. Begin(t, k, {"held", "spoiled"}, "routed", to) /\ dr' = MarkFree(dr, k, to)
    BY <1>12 DEF RouteRemote
  <2>2. to \in RecStates /\ "routed" \in Statuses
    BY <1>2, <1>3
  <2>3. Reports(dr, dr', k) /\ StateOf(dr', k) # "live"
    BY <1>1, <2>1, MarkFreeIs
  <2>4. status[k] \notin {"taken", "popped", "routed"}
    BY <2>1 DEF Begin
  <2> QED
    BY <2>1, <2>2, <2>3, <2>4, BeginKeeps
<1>13. ASSUME NEW k \in Keys, DropBadFree(k) \/ ReallocFails(k)
       PROVE  LedgerInv'
  BY <1>7, <1>13 DEF DropBadFree, ReallocFails
<1> QED
  BY <1>4, <1>5, <1>6, <1>8, <1>9, <1>10, <1>11, <1>12, <1>13 DEF DrNext

\* The invariant holds of every state.
LEMMA LedgerAlways == DrSpec => []LedgerInv
<1>1. DrInit => LedgerInv
  BY LedgerInit
<1>2. LedgerInv /\ [DrNext]_drVars => LedgerInv'
  <2>1. ASSUME LedgerInv, UNCHANGED drVars
        PROVE  LedgerInv'
    BY <2>1 DEF drVars, LedgerInv
  <2> QED
    BY <2>1, LedgerStep
<1> QED
  BY <1>1, <1>2, PTL DEF DrSpec

\* Records and Having are the slots in those states.
LEMMA RecordsAre ==
  ASSUME Sane(dr)
  PROVE  /\ Records = Of(dr, InUseStates)
         /\ Having({"live"}) = Of(dr, {"live"})
         /\ Having({"freed", "tombstoned"}) = Of(dr, {"freed", "tombstoned"})
<1>1. DOMAIN dr.tab = SlotsOf(dr)
  <2>1. CASE dr.cap = 0
    BY <2>1 DEF Sane, Table, Fields, SlotsOf
  <2>2. CASE dr.cap # 0
    BY <2>2 DEF Sane, Table, Fields, SlotsOf
  <2> QED
    BY <2>1, <2>2
<1>2. \A i \in SlotsOf(dr) : dr.tab[i].state \in RecStates
  BY DEF Sane, Table, Fields, SlotsOf, Rec
<1>3. Records = Of(dr, InUseStates)
  BY <1>1, <1>2 DEF Records, Of, InUseStates
<1> QED
  BY <1>1, <1>3 DEF Having, Of, Records

\* After any sequence of growths and evictions, of any size of table and with
\* any collisions, the probe of every record's key ends at that record.
THEOREM ProbesAlwaysReach == DrSpec => []ProbesReach
<1>1. LedgerInv => ProbesReach
  <2> SUFFICES ASSUME LedgerInv
               PROVE  ProbesReach
    OBVIOUS
  <2>1. Sane(dr) /\ status \in [Keys -> Statuses] /\ busy \in [Threads -> [key : Keys \cup {NoKey}, to : RecStates]]
    BY DEF LedgerInv, LedgerHolds
  <2>2. DrTypeOK
    BY <2>1 DEF DrTypeOK, Sane, Table, Fields, Rec, Statuses
  <2>3. \A i \in Records : dr.tab[i].key \in Keys /\ SlotFor(dr, dr.tab[i].key) = i
    BY <2>1, RecordsAre DEF Sane, Table, Reached, Of, InUseStates
  <2> QED
    BY <2>2, <2>3 DEF ProbesReach
<1> QED
  BY <1>1, LedgerAlways, PTL

\* The counters that trigger growth and eviction count the records of the
\* table; n_freed is exact unless a rescue handler took a freed record away.
THEOREM LedgerCountersAreExact == DrSpec => []CountersExact
<1>1. LedgerInv => CountersExact
  BY RecordsAre DEF LedgerInv, LedgerHolds, Sane, Counted, CountersExact
<1> QED
  BY <1>1, LedgerAlways, PTL

\* What leaks() and is_tracked() read is true across threads.
THEOREM LedgerTellsTruth == DrSpec => []LedgerTruth
<1>1. LedgerInv => LedgerTruth
  BY TruthIs DEF LedgerInv, LedgerHolds, LedgerTruth
<1> QED
  BY <1>1, LedgerAlways, PTL
=============================================================================
