----------------------------- MODULE BuddyList -----------------------------
(***************************************************************************)
(* The buddy allocator of the medium, large and huge sheets                *)
(* (free_list.hpp, __buddy_list), used by one thread at a time.            *)
(*                                                                         *)
(* Offsets count minimum blocks (Min bytes); a block of order o has 2^o of *)
(* them, is found by the tag at its first unit and keeps its header in its *)
(* last one.  A free list is the sequence of its nodes, head first.  The   *)
(* cold cache has no slots in this build (__cold_cap = 0) and is left out. *)
(***************************************************************************)
EXTENDS Integers, Sequences, SequencesExt, FiniteSetsExt

CONSTANTS
  MinBytes,     \* Min
  HdrOffset,    \* __hdr_offset
  UsizeMax,     \* numeric_limits<usize>::max()
  Total,        \* tag_count: minimum blocks of the sheet
  Mx,           \* Mx: orders the object has lists for
  CacheCap,     \* __cache_cap
  Sizes,        \* byte sizes requested
  MaxInUse,     \* bound: blocks in use at a time
  None          \* nullptr

ASSUME BuddyAssumption == /\ Total \in Nat \ {0} /\ Mx \in Nat \ {0}
                          /\ CacheCap \in Nat
                          /\ MinBytes \in Nat \ {0} /\ HdrOffset \in Nat
                          /\ Sizes \subseteq Nat /\ UsizeMax \in Nat /\ MaxInUse \in Nat
                          /\ None \notin Nat

\* The units of a block of order n.
Pow2[n \in Nat] == IF n = 0 THEN 1 ELSE 2 * Pow2[n - 1]

\* max_order: orders 0 .. MaxOrder - 1 exist.
MaxOrder == Min({Mx, 1 + Max({k \in 0 .. Total : Pow2[k] <= Total})})
Orders == 0 .. (MaxOrder - 1)
Units == 0 .. (Total - 1)

VARIABLES
  space,        \* [lists, mask, tag]: free_lists, free_mask, block_tags
  hdr,          \* the block_header in the last unit of a block: [order, flags]
  active,       \* active[o][r]: temporal block handed out again and again
  rotor,        \* active_rotor[o]
  tcache,       \* tcache[o]: freed temporal blocks, newest first
  allocated, tombstoned,   \* allocated_bytes and tombstoned_bytes, in units
  held          \* history: blocks the callers hold

vars == <<space, hdr, active, rotor, tcache, allocated, tombstoned, held>>

FreeTag(o) == [kind |-> "free", order |-> o]
AllocTag(o) == [kind |-> "alloc", order |-> o]
NoTag == [kind |-> "none", order |-> 127]

Alloc == {"alloc"}
Temporal == {"alloc", "temporal"}
Tombstone == {"tombstone"}

\* What memory outside the headers of blocks in use holds does not matter: every
\* reader asks is_allocated first.
Blank == [order |-> 0, flags |-> {}]

HdrUnit(off, o) == off + Pow2[o] - 1
Span(off, o) == off .. HdrUnit(off, o)
HdrOf(off) == hdr[HdrUnit(off, space.tag[off].order)]    \* hdr_of_tagged

\* The whole sheet is one free block of the largest order; what a size that
\* is no power of two leaves behind it is never used.
Init ==
  /\ space = [lists |-> [o \in Orders |-> IF o = MaxOrder - 1 THEN <<0>> ELSE <<>>],
              mask |-> {MaxOrder - 1},
              tag |-> [u \in Units |-> IF u = 0 THEN FreeTag(MaxOrder - 1) ELSE NoTag]]
  /\ hdr = [u \in Units |-> Blank]
  /\ active = [o \in Orders |-> <<None, None>>]
  /\ rotor = [o \in Orders |-> 1]
  /\ tcache = [o \in Orders |-> <<>>]
  /\ allocated = 0 /\ tombstoned = 0
  /\ held = {}

-----------------------------------------------------------------------------
(* The free lists *)

OrderForSize(n) ==
  LET units == ((n - 1) \div MinBytes) + 1
  IN Min({o \in 0 .. units : Pow2[o] >= units})

FindFreeOrder(o) == Min({MaxOrder} \cup {j \in space.mask : j >= o})

\* Mutant of Serves: the request is not compared with the largest usize.
ServesUnchecked(n, o) == o = OrderForSize((n + HdrOffset) % (UsizeMax + 1))

\* The order that serves a request of n bytes, none if the sum would wrap; the
\* sum is the machine's.
Serves(n, o) ==
  /\ n <= UsizeMax - HdrOffset
  /\ o = OrderForSize((n + HdrOffset) % (UsizeMax + 1))

\* __take_and_split, then the tag of the block that stays: the head of list
\* `from' is cut down to order o, the right halves are listed on the way.
TakeAndSplit(s, from, o) ==
  LET off == Head(s.lists[from])
      halves == o .. (from - 1)
  IN [lists |-> [j \in Orders |->
                   IF j \in halves THEN <<off + Pow2[j]>> \o s.lists[j]
                   ELSE IF j = from THEN Tail(s.lists[j]) ELSE s.lists[j]],
      mask |-> (IF Len(s.lists[from]) = 1 THEN s.mask \ {from} ELSE s.mask) \cup halves,
      tag |-> [u \in Units |->
                 IF u = off THEN AllocTag(o)
                 ELSE IF \E j \in halves : u = off + Pow2[j]
                 THEN FreeTag(CHOOSE j \in halves : u = off + Pow2[j]) ELSE s.tag[u]]]

Buddy(off, o) == IF (off \div Pow2[o]) % 2 = 0 THEN off + Pow2[o] ELSE off - Pow2[o]

\* The block of order j that holds unit off.
At(off, j) == off - (off % Pow2[j])

\* Mutant of Joins: the two halves of the sheet never join.
JoinsShort(s, off, j) ==
  /\ j < MaxOrder - 2
  /\ s.tag[Buddy(At(off, j), j)] = FreeTag(j)
  /\ Contains(s.lists[j], Buddy(At(off, j), j))

\* At order j the block that holds off finds its buddy tagged free, and listed.
Joins(s, off, j) ==
  /\ j < MaxOrder - 1
  /\ s.tag[Buddy(At(off, j), j)] = FreeTag(j)
  /\ Contains(s.lists[j], Buddy(At(off, j), j))

\* The order at which the joining of a block of order o ends.
MergeTop(s, off, o) == Min({j \in o .. (MaxOrder - 1) : ~Joins(s, off, j)})

\* Mutant of MergeAndFree: the bit of an emptied list stays set.
MergeAndFreeKeepBit(s, off, o) ==
  LET top == MergeTop(s, off, o)
      joined == o .. (top - 1)
      buddy(j) == Buddy(At(off, j), j)
      interior == {Max({At(off, j), buddy(j)}) : j \in joined}
  IN [lists |-> [j \in Orders |->
                   IF j \in joined THEN RemoveFirst(s.lists[j], buddy(j))
                   ELSE IF j = top THEN <<At(off, top)>> \o s.lists[j] ELSE s.lists[j]],
      mask |-> s.mask \cup {top},
      tag |-> [u \in Units |-> IF u = At(off, top) THEN FreeTag(top)
                               ELSE IF u \in interior THEN NoTag ELSE s.tag[u]]]

\* __merge_and_free: at each order from o upwards the block joins its buddy if
\* that is tagged free and leaves its list; the result is listed.
MergeAndFree(s, off, o) ==
  LET top == MergeTop(s, off, o)
      joined == o .. (top - 1)
      buddy(j) == Buddy(At(off, j), j)
      rest(j) == RemoveFirst(s.lists[j], buddy(j))
      interior == {Max({At(off, j), buddy(j)}) : j \in joined}
  IN [lists |-> [j \in Orders |->
                   IF j \in joined THEN rest(j)
                   ELSE IF j = top THEN <<At(off, top)>> \o s.lists[j] ELSE s.lists[j]],
      mask |-> (s.mask \ {j \in joined : rest(j) = <<>>}) \cup {top},
      tag |-> [u \in Units |-> IF u = At(off, top) THEN FreeTag(top)
                               ELSE IF u \in interior THEN NoTag ELSE s.tag[u]]]

-----------------------------------------------------------------------------
(* allocate, temporal_allocate, allocate_exact; a request that finds no    *)
(* order or no free block returns null and changes nothing                 *)

\* The header and the counters of a block of order o that is handed out.
HandOut(off, o, flags) ==
  /\ Cardinality({u \in Units : space.tag[u].kind = "alloc"}) < MaxInUse
  /\ hdr' = [hdr EXCEPT ![HdrUnit(off, o)] = [order |-> o, flags |-> flags]]
  /\ allocated' = allocated + Pow2[o]
  /\ held' = held \cup {off}
  /\ UNCHANGED tombstoned

Allocate(n) ==
  \E o \in Orders :
    /\ Serves(n, o) /\ FindFreeOrder(o) < MaxOrder
    /\ space' = TakeAndSplit(space, FindFreeOrder(o), o)
    /\ HandOut(Head(space.lists[FindFreeOrder(o)]), o, Alloc)
    /\ UNCHANGED <<active, rotor, tcache>>

\* n is a block size as it is, header included, and only its own list serves.
AllocateExact(n) ==
  \E o \in Orders :
    /\ n = MinBytes * Pow2[o] /\ space.lists[o] # <<>>
    /\ space' = TakeAndSplit(space, o, o)
    /\ HandOut(Head(space.lists[o]), o, Alloc)
    /\ UNCHANGED <<active, rotor, tcache>>

\* The slot the rotor is at, or the other one if that is empty.
ActiveSlot(o) == IF active[o][rotor[o]] = None THEN 3 - rotor[o] ELSE rotor[o]

\* Mutant of TemporalAgain: the header is marked as on the other two paths.
TemporalAgainMarked(n) ==
  \E o \in Orders :
    LET off == active[o][ActiveSlot(o)]
    IN /\ Serves(n, o) /\ off # None
       /\ rotor' = [rotor EXCEPT ![o] = 3 - ActiveSlot(o)]
       /\ held' = held \cup {off}
       /\ hdr' = [hdr EXCEPT ![HdrUnit(off, o)].flags = Temporal]
       /\ IF "tombstone" \in hdr[HdrUnit(off, o)].flags
          THEN allocated' = allocated + Pow2[o] /\ tombstoned' = tombstoned - Pow2[o]
          ELSE UNCHANGED <<allocated, tombstoned>>
       /\ UNCHANGED <<space, active, tcache>>

\* An active block is handed out again as it is, whatever its flags say.
TemporalAgain(n) ==
  \E o \in Orders :
    /\ Serves(n, o) /\ active[o][ActiveSlot(o)] # None
    /\ rotor' = [rotor EXCEPT ![o] = 3 - ActiveSlot(o)]
    /\ held' = held \cup {active[o][ActiveSlot(o)]}
    /\ UNCHANGED <<space, hdr, active, tcache, allocated, tombstoned>>

\* A block becomes the active one of its order.
Activate(off, o) ==
  /\ active' = [active EXCEPT ![o][ActiveSlot(o)] = off]
  /\ rotor' = [rotor EXCEPT ![o] = 3 - ActiveSlot(o)]

TemporalCached(n) ==
  \E o \in Orders :
    /\ Serves(n, o) /\ active[o][ActiveSlot(o)] = None /\ tcache[o] # <<>>
    /\ tcache' = [tcache EXCEPT ![o] = Tail(@)]
    /\ space' = [space EXCEPT !.tag[Head(tcache[o])] = AllocTag(o)]
    /\ Activate(Head(tcache[o]), o)
    /\ HandOut(Head(tcache[o]), o, Temporal)

TemporalFresh(n) ==
  \E o \in Orders :
    /\ Serves(n, o) /\ active[o][ActiveSlot(o)] = None /\ tcache[o] = <<>>
    /\ FindFreeOrder(o) < MaxOrder
    /\ space' = TakeAndSplit(space, FindFreeOrder(o), o)
    /\ Activate(Head(space.lists[FindFreeOrder(o)]), o)
    /\ HandOut(Head(space.lists[FindFreeOrder(o)]), o, Temporal)
    /\ UNCHANGED tcache

-----------------------------------------------------------------------------
(* deallocate, tombstone, reallocate *)

IsAllocated(off) == space.tag[off].kind = "alloc" /\ space.tag[off].order < MaxOrder
IsTombstoned(off) == "tombstone" \in HdrOf(off).flags
IsTemporal(off) == "temporal" \in HdrOf(off).flags

\* The active slot of a temporal block is emptied.
Deactivated(off, o) ==
  IF ~IsTemporal(off) THEN active
  ELSE [active EXCEPT ![o] = [r \in 1 .. 2 |-> IF @[r] = off THEN None ELSE @[r]]]

\* A temporal block goes to the cache of its order while there is a slot.
ToCache(off, o) == IsTemporal(off) /\ Len(tcache[o]) < CacheCap

\* The part of deallocate after the checks, on free lists s.
Return(s, off, o) ==
  /\ active' = Deactivated(off, o)
  /\ IF ToCache(off, o)
     THEN /\ tcache' = [tcache EXCEPT ![o] = <<off>> \o @]
          /\ space' = [s EXCEPT !.tag[off] = NoTag]
     ELSE /\ space' = MergeAndFree(s, off, o)
          /\ UNCHANGED tcache
  /\ tombstoned' = IF IsTombstoned(off) THEN tombstoned - Pow2[o] ELSE tombstoned
  /\ UNCHANGED rotor

\* The header of a block gives its order; the arena has refused tombstoned
\* blocks before it calls (arena.hpp, __tier_remove_at, __cache_push_or_remove).
Freeable(off) ==
  /\ IsAllocated(off) /\ HdrOf(off).order < MaxOrder /\ HdrOf(off).flags # {}
  /\ ~IsTombstoned(off)

Deallocate(off) ==
  /\ Freeable(off)
  /\ Return(space, off, HdrOf(off).order)
  /\ hdr' = [hdr EXCEPT ![HdrUnit(off, HdrOf(off).order)] = Blank]
  /\ allocated' = allocated - Pow2[HdrOf(off).order]
  /\ held' = held \ {off}

\* Mutant of TombstoneBlock: tombstoned_bytes is not charged.
TombstoneBlockFree(off) ==
  /\ IsAllocated(off) /\ HdrOf(off).order < MaxOrder
  /\ "alloc" \in HdrOf(off).flags
  /\ hdr' = [hdr EXCEPT ![HdrUnit(off, space.tag[off].order)].flags = Tombstone]
  /\ allocated' = allocated - Pow2[HdrOf(off).order]
  /\ held' = held \ {off}
  /\ UNCHANGED <<space, active, rotor, tcache, tombstoned>>

\* The flags word is overwritten; the temporal bit goes with it, and the block
\* stays in the active ring.
TombstoneBlock(off) ==
  /\ IsAllocated(off) /\ HdrOf(off).order < MaxOrder
  /\ "alloc" \in HdrOf(off).flags
  /\ hdr' = [hdr EXCEPT ![HdrUnit(off, space.tag[off].order)].flags = Tombstone]
  /\ allocated' = allocated - Pow2[HdrOf(off).order]
  /\ tombstoned' = tombstoned + Pow2[HdrOf(off).order]
  /\ held' = held \ {off}
  /\ UNCHANGED <<space, active, rotor, tcache>>

\* A release of a tombstoned block is refused as a double free.
Refuse(off) ==
  /\ IsTombstoned(off)
  /\ held' = held \ {off}
  /\ UNCHANGED <<space, hdr, active, rotor, tcache, allocated, tombstoned>>

\* The usable bytes of a block.
LenOf(off) == MinBytes * Pow2[HdrOf(off).order] - HdrOffset

\* A request that neither fits nor fills half of the block moves it.
Reallocate(off, n) ==
  \E o \in Orders :
    LET from == FindFreeOrder(o)
        new == Head(space.lists[from])
    IN /\ Freeable(off)
       /\ n > 0 /\ ~(LenOf(off) >= n /\ n > LenOf(off) \div 2)
       /\ Serves(n, o) /\ from < MaxOrder
       /\ Return(TakeAndSplit(space, from, o), off, HdrOf(off).order)
       /\ hdr' = [hdr EXCEPT ![HdrUnit(new, o)] = [order |-> o, flags |-> Alloc],
                             ![HdrUnit(off, HdrOf(off).order)] = Blank]
       /\ allocated' = allocated + Pow2[o] - Pow2[HdrOf(off).order]
       /\ held' = (held \ {off}) \cup {new}

-----------------------------------------------------------------------------
Next ==
  \/ \E n \in Sizes : \/ Allocate(n) \/ AllocateExact(n)
                      \/ TemporalAgain(n) \/ TemporalCached(n) \/ TemporalFresh(n)
  \/ \E off \in held : \/ Deallocate(off) \/ TombstoneBlock(off) \/ Refuse(off)
                       \/ \E n \in Sizes : Reallocate(off, n)

Spec == Init /\ [][Next]_vars

-----------------------------------------------------------------------------
BlockTags == {FreeTag(o) : o \in Orders} \cup {AllocTag(o) : o \in Orders} \cup {NoTag}

\* Every variable ranges over the values its C++ type and the sheet allow.
TypeOK ==
  /\ space.lists \in [Orders -> Seq(Units)]
  /\ space.mask \subseteq Orders
  /\ space.tag \in [Units -> BlockTags]
  /\ hdr \in [Units -> [order : Orders, flags : {{}, Alloc, Temporal, Tombstone}]]
  /\ active \in [Orders -> [1 .. 2 -> Units \cup {None}]]
  /\ rotor \in [Orders -> 1 .. 2]
  /\ tcache \in [Orders -> Seq(Units)]
  /\ \A o \in Orders : Len(tcache[o]) <= CacheCap
  /\ allocated \in 0 .. Total /\ tombstoned \in 0 .. Total
  /\ held \subseteq Units

\* The blocks the allocator knows of, as [off, len].
BlockAt(off, o) == [off |-> off, len |-> Pow2[o]]
Listed == UNION {{BlockAt(off, o) : off \in ToSet(space.lists[o])} : o \in Orders}
Cached == UNION {{BlockAt(off, o) : off \in ToSet(tcache[o])} : o \in Orders}
InUse == {BlockAt(off, space.tag[off].order) : off \in {u \in Units : IsAllocated(u)}}
Dead == {b \in InUse : IsTombstoned(b.off)}

Covers(b, u) == b.off <= u /\ u < b.off + b.len
UnitsOf(S) == {u \in Units : \E b \in S : Covers(b, u)}

(***************************************************************************)
(* Splits and merges lose nothing and share nothing: every unit of the     *)
(* largest block lies in exactly one block, listed once, cached once or in *)
(* use (free_list.hpp, __take_and_split and __merge_and_free).             *)
(***************************************************************************)
Tiling ==
  /\ \A u \in 0 .. (Pow2[MaxOrder - 1] - 1) :
       Cardinality({b \in Listed : Covers(b, u)}) + Cardinality({b \in Cached : Covers(b, u)})
         + Cardinality({b \in InUse : Covers(b, u)}) = 1
  /\ \A o \in Orders : IsInjective(space.lists[o]) /\ IsInjective(tcache[o])

(***************************************************************************)
(* The side tables tell the truth: a block is tagged free at an order iff  *)
(* it is on that list, a mask bit is set iff its list has a block, and the *)
(* header of a block in use agrees with its tag (the checks of             *)
(* __doctor_walk, free_list.hpp:905-1015).                                 *)
(***************************************************************************)
TablesAgree ==
  /\ \A u \in Units, o \in Orders : space.tag[u] = FreeTag(o) <=> Contains(space.lists[o], u)
  /\ \A o \in Orders : o \in space.mask <=> space.lists[o] # <<>>
  /\ \A b \in InUse : /\ HdrOf(b.off).order = space.tag[b.off].order
                      /\ HdrOf(b.off).flags # {}

(***************************************************************************)
(* A request fails only when there is no room, and gets what it asked for: *)
(* the order chosen for a size has room for it and the header, also at the *)
(* end of usize, and if an aligned run of 2^o listed units exists,         *)
(* find_free_order finds a block for it, because no two free buddies are   *)
(* ever left apart.                                                        *)
(***************************************************************************)
RoomIsFound ==
  /\ \A n \in Sizes, o \in Orders : Serves(n, o) => n + HdrOffset <= MinBytes * Pow2[o]
  /\ \A o \in Orders, k \in 0 .. Total :
       (\A u \in Span(k * Pow2[o], o) : \E b \in Listed : Covers(b, u)) => FindFreeOrder(o) < MaxOrder

(***************************************************************************)
(* used() and tombstoned(), which decide when the arena unmaps a sheet,    *)
(* are the units in the live and in the tombstoned blocks, which is the    *)
(* sum of their sizes as the blocks are disjoint (Tiling); used() = 0      *)
(* therefore means that no block of the sheet is live.                     *)
(***************************************************************************)
CountersExact ==
  /\ allocated = Cardinality(UnitsOf(InUse \ Dead))
  /\ tombstoned = Cardinality(UnitsOf(Dead))

(***************************************************************************)
(* The temporal ring never points at memory that is free or of another     *)
(* order, and an order has one temporal block at most, active or cached:   *)
(* temporal_allocate makes one only when both slots and the cache are      *)
(* empty.                                                                  *)
(***************************************************************************)
ActiveInUse ==
  \A o \in Orders :
    /\ \A r \in 1 .. 2 : active[o][r] # None => space.tag[active[o][r]] = AllocTag(o)
    /\ Cardinality({r \in 1 .. 2 : active[o][r] # None}) + Len(tcache[o]) <= 1

\* The five representations of the sheet agree: tags, lists, mask, headers and
\* temporal slots describe one tiling.
SheetSound == TypeOK /\ Tiling /\ TablesAgree /\ ActiveInUse

\* The blocks of the active slots.
Lent == {active[o][r] : o \in Orders, r \in 1 .. 2} \ {None}

(***************************************************************************)
(* The buddy list implements the abstract block store: new blocks overlap  *)
(* nothing in use or tombstoned, and only a block of an active slot is     *)
(* handed out again, even a tombstoned one (free_list.hpp, allocate,       *)
(* temporal_allocate, deallocate, tombstone, reallocate).                  *)
(***************************************************************************)
Aligned == UNION {{BlockAt(k * Pow2[o], o) : k \in 0 .. (Pow2[MaxOrder - 1 - o] - 1)} : o \in Orders}
Store == INSTANCE BlockStore
           WITH Blocks <- Aligned, used <- InUse \ Dead, dead <- Dead, held <- held, lent <- Lent
ImplementsStore == Store!Spec
=============================================================================
