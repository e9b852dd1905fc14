------------------------------ MODULE TlsfList ------------------------------
(***************************************************************************)
(* The two-level segregated fit allocator of the precise and small sheets  *)
(* (cache_list.hpp, __tlsf_list), used by one thread at a time.            *)
(*                                                                         *)
(* Offsets and block sizes count allocation units (__block_align bytes).   *)
(* Unit 0 is the start sentinel, units 1 .. Total the data region, unit    *)
(* Total + 1 the end sentinel.  A header sits in the first unit of its     *)
(* block.  A free list is the sequence of its nodes, head first; a class   *)
(* is a pair <<fi, si>>.                                                   *)
(***************************************************************************)
EXTENDS Integers, Sequences, SequencesExt, FiniteSetsExt

CONSTANTS
  BlockAlign,   \* __block_align in bytes
  SlLog2,       \* __sl_log2
  FlLimit,      \* __fl_count: first-level rows the object has
  UsizeMax,     \* numeric_limits<usize>::max()
  Total,        \* total, in units
  Sizes,        \* byte sizes requested
  MaxInUse,     \* bound: blocks in use at a time
  None          \* nullptr

ASSUME TlsfAssumption == /\ BlockAlign \in Nat \ {0} /\ SlLog2 \in Nat /\ FlLimit \in Nat \ {0}
                         /\ Total \in Nat /\ Total >= 2 /\ MaxInUse \in Nat
                         /\ Sizes \subseteq Nat \ {0} /\ UsizeMax \in Nat
                         /\ None \notin Nat

\* 2 to the power of n.
Pow2[n \in Nat] == IF n = 0 THEN 1 ELSE 2 * Pow2[n - 1]

MinUnits == 2                   \* __min_block

VARIABLES
  pool,         \* [hdr, lists, sl, fl]: headers, heads and links, both bitmaps
  active,       \* temporal_active[class]: the two slots
  rotor,        \* temporal_rotor[class]: 1 or 2
  allocated, tombstoned,        \* allocated_bytes, tombstoned_bytes, in units
  held          \* history: the largest size callers asked for at a block they hold

vars == <<pool, active, rotor, allocated, tombstoned, held>>

Units == 0 .. (Total + 1)
EndSentinel == Total + 1

Free == {}
Alloc == {"alloc"}
Temporal == {"alloc", "temporal"}
Tombstone == {"tombstone"}

\* Memory that is no header any more is never read as one.
Blank == [bsize |-> 0, flags |-> Free, prev |-> None]

-----------------------------------------------------------------------------
(* Size classes *)

Fls(v) == CHOOSE k \in 0 .. v : Pow2[k] <= v /\ v < Pow2[k + 1]

FlShift == Fls(MinUnits * BlockAlign)
FlCount == Max({1, Min({FlLimit, Fls(Total * BlockAlign) - FlShift + 1})})   \* fl_count

ClassOfBytes(b) ==
  <<Fls(b) - FlShift, (b \div Pow2[Fls(b) - SlLog2]) % Pow2[SlLog2]>>

MappingInsert(units) == ClassOfBytes(units * BlockAlign)

\* Mutant of MappingSearch: a whole step is added.
MappingSearchFar(units) ==
  LET b == units * BlockAlign
  IN ClassOfBytes((b + Pow2[Fls(b) - SlLog2]) % (UsizeMax + 1))

\* Rounded up, so that every block of the class is large enough; the sum is the
\* machine's.
MappingSearch(units) ==
  LET b == units * BlockAlign
  IN ClassOfBytes((b + Pow2[Fls(b) - SlLog2] - 1) % (UsizeMax + 1))

Classes == (0 .. FlCount - 1) \X (0 .. Pow2[SlLog2] - 1)

\* Mutant of AdjustedBlockSize: the header is forgotten.
AdjustedBlockSizeBare(n) ==
  IF n > UsizeMax - 2 * BlockAlign - (BlockAlign - 1) THEN 0
  ELSE Max({MinUnits, (n + BlockAlign - 1) \div BlockAlign})

\* adjusted_block_size: header, slack and rounding, 0 if that would wrap.
AdjustedBlockSize(n) ==
  IF n > UsizeMax - 2 * BlockAlign - (BlockAlign - 1) THEN 0
  ELSE Max({MinUnits, (n + 2 * BlockAlign + BlockAlign - 1) \div BlockAlign})

(***************************************************************************)
(* The unit is a power of two and the smallest block is no smaller than    *)
(* the number of classes of a row (the constants and static_asserts of     *)
(* __tlsf_list); a pool has no more rows than the object, as               *)
(* __impl_init_memory refuses pools of 4 GiB; and neither a pool nor a     *)
(* size that a tier sends here is near the end of usize.                   *)
(***************************************************************************)
ASSUME SheetAssumption == /\ BlockAlign = Pow2[Fls(BlockAlign)] /\ SlLog2 <= FlShift
                          /\ Fls(Total * BlockAlign) < FlShift + FlLimit
                          /\ 2 * Total * BlockAlign <= UsizeMax + 1
                          /\ \A n \in Sizes : 2 * AdjustedBlockSize(n) * BlockAlign <= UsizeMax + 1

LenOf(p, b) == (p.hdr[b].bsize - 1) * BlockAlign         \* usable bytes of a block
NextPhys(p, b) == b + p.hdr[b].bsize

-----------------------------------------------------------------------------
(* Free lists and bitmaps *)

FlInsert(p, b) ==
  LET c == MappingInsert(p.hdr[b].bsize)
  IN [p EXCEPT !.lists[c] = <<b>> \o @, !.hdr[b].flags = Free,
               !.fl = @ \cup {c[1]}, !.sl = @ \cup {c}]

\* fl_remove, and the removal of a head that find_free does itself.
FlRemove(p, b) ==
  LET c == MappingInsert(p.hdr[b].bsize)
      rest == RemoveFirst(p.lists[c], b)
      sl == IF rest = <<>> THEN p.sl \ {c} ELSE p.sl
  IN [p EXCEPT !.lists[c] = rest, !.sl = sl,
               !.fl = IF \E d \in sl : d[1] = c[1] THEN @ ELSE @ \ {c[1]}]

\* The head of the first non-empty class from the rounded-up one on.
FindFree(p, units) ==
  LET c == MappingSearch(units)
      row == {d \in p.sl : d[1] = c[1] /\ d[2] >= c[2]}
      above == {f \in p.fl : f > c[1]}
      next == {d \in p.sl : d[1] = Min(above)}
      first(S) == CHOOSE d \in S : \A e \in S : d[2] <= e[2]
  IN IF c[1] >= FlCount \/ (row = {} /\ above = {}) THEN None
     ELSE Head(p.lists[first(IF row # {} THEN row ELSE next)])

\* Mutant of TrySplit: the block behind is not told of the remainder.
TrySplitNoLink(p, b, units) ==
  LET remain == p.hdr[b].bsize - units
  IN IF remain < MinUnits THEN p
     ELSE FlInsert([p EXCEPT !.hdr[b].bsize = units,
                             !.hdr[b + units] = [bsize |-> remain, flags |-> Free, prev |-> b]],
                   b + units)

\* What is left over becomes a block of its own if it is large enough.
TrySplit(p, b, units) ==
  LET remain == p.hdr[b].bsize - units
  IN IF remain < MinUnits THEN p
     ELSE FlInsert([p EXCEPT !.hdr[b].bsize = units,
                             !.hdr[b + units] = [bsize |-> remain, flags |-> Free, prev |-> b],
                             !.hdr[b + units + remain].prev = b + units],
                   b + units)

\* Joined with a free block behind, then with a free block before.
CoalesceAndFree(p, b) ==
  LET next == NextPhys(p, b)
      p1 == IF p.hdr[next].flags # Free THEN p
            ELSE [FlRemove(p, next) EXCEPT !.hdr[b].bsize = @ + p.hdr[next].bsize,
                                           !.hdr[next] = Blank]
      prev == p1.hdr[b].prev
      back == prev # None /\ p1.hdr[prev].flags = Free
      p2 == IF ~back THEN p1
            ELSE [FlRemove(p1, prev) EXCEPT !.hdr[prev].bsize = @ + p1.hdr[b].bsize,
                                            !.hdr[b] = Blank]
      whole == IF back THEN prev ELSE b
  IN FlInsert([p2 EXCEPT !.hdr[NextPhys(p2, whole)].prev = whole], whole)

\* __impl_init_memory: two sentinels and one free block.
EmptyPool ==
  LET sentinel(prev) == [bsize |-> 1, flags |-> Alloc, prev |-> prev]
  IN FlInsert([hdr |-> [u \in Units |-> CASE u = 0 -> sentinel(None)
                                          [] u = EndSentinel -> sentinel(1)
                                          [] u = 1 -> [bsize |-> Total, flags |-> Free, prev |-> 0]
                                          [] OTHER -> Blank],
               lists |-> [c \in Classes |-> <<>>], sl |-> {}, fl |-> {}], 1)

Init ==
  /\ pool = EmptyPool
  /\ active = [c \in Classes |-> <<None, None>>]
  /\ rotor = [c \in Classes |-> 1]
  /\ allocated = 0 /\ tombstoned = 0
  /\ held = [u \in Units |-> 0]

-----------------------------------------------------------------------------
(* allocate, temporal_allocate, allocate_exact; a request that wraps or    *)
(* finds no block returns null and changes nothing                         *)

InUse == {u \in Units \ {0, EndSentinel} : pool.hdr[u].flags # Free}

\* Pool p after block b was taken off its list; n bytes were asked for.
HandOut(p, b, n, flags) ==
  /\ Cardinality(InUse) < MaxInUse
  /\ pool' = [p EXCEPT !.hdr[b].flags = flags]
  /\ allocated' = allocated + p.hdr[b].bsize
  /\ held' = [held EXCEPT ![b] = n]
  /\ UNCHANGED tombstoned

\* find_free and try_split for a request of n bytes.
Carve(n, flags) ==
  LET needed == AdjustedBlockSize(n)
      b == FindFree(pool, needed)
  IN /\ needed > 0 /\ b # None
     /\ HandOut(TrySplit(FlRemove(pool, b), b, needed), b, n, flags)

Allocate(n) == Carve(n, Alloc) /\ UNCHANGED <<active, rotor>>

\* n is a block size as it is, header included; only its own class serves it,
\* and the block is not split.
AllocateExact(n) ==
  LET c == ClassOfBytes(n)
      b == Head(pool.lists[c])
  IN /\ n >= MinUnits * BlockAlign /\ n = Pow2[Fls(n)]
     /\ c \in Classes /\ pool.lists[c] # <<>>
     /\ HandOut(FlRemove(pool, b), b, n - BlockAlign, Alloc)
     /\ UNCHANGED <<active, rotor>>

ActiveSlot(c) == IF active[c][rotor[c]] = None THEN 3 - rotor[c] ELSE rotor[c]

\* Mutant of TemporalAgain: the flags are set as on the other path.
TemporalAgainMarked(n) ==
  LET c == MappingSearch(AdjustedBlockSize(n))
      b == active[c][ActiveSlot(c)]
  IN /\ AdjustedBlockSize(n) > 0 /\ c \in Classes /\ b # None
     /\ rotor' = [rotor EXCEPT ![c] = 3 - ActiveSlot(c)]
     /\ held' = [held EXCEPT ![b] = Max({@, n})]
     /\ pool' = [pool EXCEPT !.hdr[b].flags = Temporal]
     /\ UNCHANGED <<active, allocated, tombstoned>>

\* The active block of the request's class is handed out again as it is,
\* whatever its flags and its size.
TemporalAgain(n) ==
  LET c == MappingSearch(AdjustedBlockSize(n))
      b == active[c][ActiveSlot(c)]
  IN /\ AdjustedBlockSize(n) > 0 /\ c \in Classes /\ b # None
     /\ rotor' = [rotor EXCEPT ![c] = 3 - ActiveSlot(c)]
     /\ held' = [held EXCEPT ![b] = Max({@, n})]
     /\ UNCHANGED <<pool, active, allocated, tombstoned>>

\* A request of a class beyond the table has no block either.
TemporalFresh(n) ==
  LET c == MappingSearch(AdjustedBlockSize(n))
  IN /\ AdjustedBlockSize(n) > 0 /\ c \in Classes /\ active[c][ActiveSlot(c)] = None
     /\ Carve(n, Temporal)
     /\ active' = [active EXCEPT ![c][rotor[c]] = FindFree(pool, AdjustedBlockSize(n))]
     /\ rotor' = [rotor EXCEPT ![c] = 3 - @]

-----------------------------------------------------------------------------
(* deallocate, tombstone, reallocate *)

IsTombstoned(b) == "tombstone" \in pool.hdr[b].flags

\* __clear_temporal_class: the slots of the class that serves a size.
Slots(units) == {s \in Classes \X {1, 2} : s[1] = MappingSearch(units)}

\* Mutant of ClearTemporal: only the class of the block's own size is searched.
ClearTemporalOnce(b, units) ==
  LET mine == {s \in Slots(units) : active[s[1]][s[2]] = b}
  IN [c \in Classes |-> [r \in {1, 2} |-> IF <<c, r>> \in mine THEN None ELSE active[c][r]]]

\* The block was registered under the size that was needed, which is its own
\* or, when the remainder was too small to split, one unit less.
ClearTemporal(b, units) ==
  LET at(u) == {s \in Slots(u) : active[s[1]][s[2]] = b}
      mine == IF at(units) # {} \/ units <= MinUnits THEN at(units) ELSE at(units - 1)
  IN [c \in Classes |-> [r \in {1, 2} |-> IF <<c, r>> \in mine THEN None ELSE active[c][r]]]

\* The arena has asked is_block_allocated, which refuses tombstoned blocks.
Freeable(b) == pool.hdr[b].flags # Free /\ ~IsTombstoned(b)

\* deallocate after its checks, on pool p; extra units were allocated before.
Return(p, b, extra) ==
  /\ pool' = CoalesceAndFree(p, b)
  /\ active' = IF "temporal" \in p.hdr[b].flags THEN ClearTemporal(b, p.hdr[b].bsize) ELSE active
  /\ allocated' = allocated + extra - p.hdr[b].bsize
  /\ UNCHANGED <<rotor, tombstoned>>

Deallocate(b) ==
  /\ Freeable(b)
  /\ Return(pool, b, 0)
  /\ held' = [held EXCEPT ![b] = 0]

\* Mutant of TombstoneBlock: used() is not lowered.
TombstoneBlockUsed(b) ==
  /\ "alloc" \in pool.hdr[b].flags
  /\ pool' = [pool EXCEPT !.hdr[b].flags = Tombstone]
  /\ tombstoned' = tombstoned + pool.hdr[b].bsize
  /\ held' = [held EXCEPT ![b] = 0]
  /\ UNCHANGED <<active, rotor, allocated>>

\* The flags are overwritten, temporal bit included; the active slot stays.
TombstoneBlock(b) ==
  /\ "alloc" \in pool.hdr[b].flags
  /\ pool' = [pool EXCEPT !.hdr[b].flags = Tombstone]
  /\ allocated' = allocated - pool.hdr[b].bsize
  /\ tombstoned' = tombstoned + pool.hdr[b].bsize
  /\ held' = [held EXCEPT ![b] = 0]
  /\ UNCHANGED <<active, rotor>>

\* The arena refuses the release of a tombstoned block.
Refuse(b) ==
  /\ IsTombstoned(b)
  /\ held' = [held EXCEPT ![b] = 0]
  /\ UNCHANGED <<pool, active, rotor, allocated, tombstoned>>

\* A request that neither fits nor fills half of the block moves it.
Reallocate(b, n) ==
  LET needed == AdjustedBlockSize(n)
      new == FindFree(pool, needed)
      p == TrySplit(FlRemove(pool, new), new, needed)
  IN /\ Freeable(b)
     /\ ~(LenOf(pool, b) >= n /\ n > LenOf(pool, b) \div 2)
     /\ needed > 0 /\ new # None
     /\ Return([p EXCEPT !.hdr[new].flags = Alloc], b, p.hdr[new].bsize)
     /\ held' = [held EXCEPT ![b] = 0, ![new] = n]

-----------------------------------------------------------------------------
(* The doctor's walk in a rescue build: it follows the sizes, sets every   *)
(* back-link it finds wrong (that of the end sentinel is only reported),   *)
(* and recomputes the bits from the heads                                  *)

Heads(p) == {u \in Units : p.hdr[u].bsize > 0}

\* Mutant of DoctorWalk: the first-level bits are computed before the second.
DoctorWalkEarly(p) ==
  [p EXCEPT !.hdr = [u \in Units |->
                       IF u \in Heads(p) \ {0, EndSentinel}
                       THEN [p.hdr[u] EXCEPT !.prev = CHOOSE b \in Heads(p) : NextPhys(p, b) = u]
                       ELSE p.hdr[u]],
            !.sl = {c \in Classes : p.lists[c] # <<>>},
            !.fl = {c[1] : c \in p.sl}]

DoctorWalk(p) ==
  LET sl == {c \in Classes : p.lists[c] # <<>>}
  IN [p EXCEPT !.hdr = [u \in Units |->
                          IF u \in Heads(p) \ {0, EndSentinel}
                          THEN [p.hdr[u] EXCEPT !.prev = CHOOSE b \in Heads(p) : NextPhys(p, b) = u]
                          ELSE p.hdr[u]],
               !.sl = sl, !.fl = {c[1] : c \in sl}]

-----------------------------------------------------------------------------
Next ==
  \/ \E n \in Sizes : \/ Allocate(n) \/ AllocateExact(n)
                      \/ TemporalAgain(n) \/ TemporalFresh(n)
  \/ \E b \in Units : /\ held[b] > 0
                      /\ \/ Deallocate(b) \/ TombstoneBlock(b) \/ Refuse(b)
                         \/ \E n \in Sizes : Reallocate(b, n)

Spec == Init /\ [][Next]_vars

-----------------------------------------------------------------------------
Headers == [bsize : 0 .. Total, flags : {Free, Alloc, Temporal, Tombstone},
            prev : Units \cup {None}]

\* Every variable ranges over the values its C++ type and the sheet allow.
TypeOK ==
  /\ pool.hdr \in [Units -> Headers]
  /\ pool.lists \in [Classes -> Seq(Units)]
  /\ pool.sl \subseteq Classes /\ pool.fl \subseteq 0 .. FlCount - 1
  /\ active \in [Classes -> [1 .. 2 -> Units \cup {None}]]
  /\ rotor \in [Classes -> 1 .. 2]
  /\ allocated \in 0 .. Total /\ tombstoned \in 0 .. Total
  /\ held \in [Units -> Nat]

FreeBlocks == {u \in Heads(pool) : pool.hdr[u].flags = Free}

(***************************************************************************)
(* The physical chain: the headers lie end to end from one sentinel to the *)
(* other, each names its predecessor, and no two neighbours are both free  *)
(* (the first half of __doctor_walk; a broken back-link would make a later *)
(* free merge with memory that is in use).                                 *)
(***************************************************************************)
Chain ==
  /\ {0, 1, EndSentinel} \subseteq Heads(pool)
  /\ \A b \in {0, EndSentinel} : pool.hdr[b].bsize = 1 /\ pool.hdr[b].flags = Alloc
  /\ \A b \in Heads(pool) \ {EndSentinel} :
       /\ NextPhys(pool, b) \in Heads(pool)
       /\ \A u \in (b + 1) .. (NextPhys(pool, b) - 1) : u \notin Heads(pool)
       /\ pool.hdr[NextPhys(pool, b)].prev = b
       /\ ~({b, NextPhys(pool, b)} \subseteq FreeBlocks)

(***************************************************************************)
(* Lists and bitmaps tell the truth about the chain: a free block is on    *)
(* the list of its class once, nothing else is on a list, and both levels  *)
(* of bits say which lists have a block (the second half of                *)
(* __doctor_walk).                                                         *)
(***************************************************************************)
ListsAgree ==
  /\ \A c \in Classes : /\ IsInjective(pool.lists[c])
                        /\ ToSet(pool.lists[c]) = {b \in FreeBlocks : MappingInsert(pool.hdr[b].bsize) = c}
  /\ pool.sl = {c \in Classes : pool.lists[c] # <<>>}
  /\ pool.fl = {c[1] : c \in pool.sl}

\* Headers, back-links, lists and bitmaps describe one sequence of blocks.
PoolSound == TypeOK /\ Chain /\ ListsAgree

(***************************************************************************)
(* A request is refused only if every free block is smaller than the size  *)
(* rounded up to a multiple of the width of its class, so an exact fit at  *)
(* a class boundary is found; what find_free returns is large enough       *)
(* (cache_list.hpp, mapping_search and find_free).                         *)
(***************************************************************************)
RoomIsFound ==
  \A n \in Sizes :
    LET needed == AdjustedBlockSize(n)
        bytes == needed * BlockAlign
        step == Pow2[Fls(bytes) - SlLog2]
        rounded == ((bytes + step - 1) \div step) * step
        b == FindFree(pool, needed)
    IN needed > 0 =>
         IF b = None THEN \A f \in FreeBlocks : pool.hdr[f].bsize * BlockAlign < rounded
                     ELSE pool.hdr[b].bsize >= needed

(***************************************************************************)
(* used() and tombstoned(), which decide when the arena unmaps a sheet,    *)
(* are the units in the live and in the tombstoned blocks, which is the    *)
(* sum of their sizes as blocks are disjoint (Chain).                      *)
(***************************************************************************)
UnitsOf(S) == {u \in Units : \E b \in S : b <= u /\ u < NextPhys(pool, b)}
CountersExact ==
  /\ allocated = Cardinality(UnitsOf({b \in InUse : ~IsTombstoned(b)}))
  /\ tombstoned = Cardinality(UnitsOf({b \in InUse : IsTombstoned(b)}))

(***************************************************************************)
(* The temporal slots never point at memory that was freed: the two        *)
(* classes __clear_temporal looks into are enough, although the class a    *)
(* block was registered under is not that of its size.                     *)
(***************************************************************************)
ActiveInUse ==
  /\ \A c \in Classes, r \in {1, 2} : active[c][r] # None => active[c][r] \in InUse
  /\ \A c \in Classes : None \in {active[c][1], active[c][2]}

(***************************************************************************)
(* A caller may write as many bytes as it asked for: no size that was      *)
(* granted at a block exceeds the bytes the block has.                     *)
(***************************************************************************)
GrantFits == \A b \in Units : held[b] > 0 => held[b] <= LenOf(pool, b)

(***************************************************************************)
(* The doctor's walk changes nothing in a sound sheet and undoes any       *)
(* single damage to a back-link of a block or to a bit of either bitmap.   *)
(***************************************************************************)
WalkRestores ==
  LET flip(S, x) == (S \ {x}) \cup ({x} \ S)
  IN /\ DoctorWalk(pool) = pool
     /\ \A b \in Heads(pool) \ {0, EndSentinel}, u \in Units :
          DoctorWalk([pool EXCEPT !.hdr[b].prev = u]) = pool
     /\ \A c \in Classes : /\ DoctorWalk([pool EXCEPT !.sl = flip(@, c)]) = pool
                           /\ DoctorWalk([pool EXCEPT !.fl = flip(@, c[1])]) = pool

(***************************************************************************)
(* The TLSF list implements the abstract block store: new blocks overlap   *)
(* nothing in use or tombstoned, and only a block of a temporal slot is    *)
(* handed out again, even a tombstoned one (cache_list.hpp, allocate,      *)
(* temporal_allocate, deallocate, tombstone, reallocate).                  *)
(***************************************************************************)
AsBlock(b) == [off |-> b, len |-> pool.hdr[b].bsize]
Lent == {active[c][r] : c \in Classes, r \in 1 .. 2} \ {None}
Store == INSTANCE BlockStore
           WITH Blocks <- [off : 1 .. Total, len : MinUnits .. Total],
                used <- {AsBlock(b) : b \in {u \in InUse : ~IsTombstoned(u)}},
                dead <- {AsBlock(b) : b \in {u \in InUse : IsTombstoned(u)}},
                held <- {u \in Units : held[u] > 0}, lent <- Lent
ImplementsStore == Store!Spec
=============================================================================
