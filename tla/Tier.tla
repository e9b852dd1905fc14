-------------------------------- MODULE Tier --------------------------------
(***************************************************************************)
(* One size tier of an arena (arena.hpp, __tier and the functions that     *)
(* take one): the sheets of the tier, their sorted index with the space    *)
(* bits and the last-hit hint, the tier's free cache (tcache.hpp), and the *)
(* accounting that unmaps drained sheets.  An arena has one user at a      *)
(* time, so every public operation is one step.                            *)
(*                                                                         *)
(* A sheet is known by its address.  Its allocator is seen through what    *)
(* BlockStore promises and BuddyList implements: blocks of fixed sizes,    *)
(* the k-th of the sheet at a of Cap[a][k] units, each free or in use;     *)
(* which fitting one is handed out is left open.  A block is <<a, k>>.     *)
(* The build is the default one: no redzones, no global launder, no        *)
(* persistent mode.                                                        *)
(***************************************************************************)
EXTENDS Integers, Sequences, SequencesExt, FiniteSetsExt

CONSTANTS
  Addrs,          \* addresses a sheet can be carved at
  Cap,            \* Cap[a]: units of each block of the sheet at a
  Sizes,          \* units requested
  MaxSheets,      \* __max_sheets
  CacheSlots,     \* __cache_slots
  SweepInterval,  \* __default_tombstone_sweep_interval
  TombTier,       \* tomb_for<>: frees tombstone (large and huge tiers)
  SizedLaunder    \* callers free laundered blocks with their size, too

ASSUME TierAssumption == /\ Addrs \subseteq Nat \ {0} /\ IsFiniteSet(Addrs)
                         /\ Cap \in [Addrs -> Seq(Nat \ {0})] /\ Sizes \subseteq Nat \ {0}
                         /\ \A a \in Addrs, n \in Sizes : \E k \in DOMAIN Cap[a] : Cap[a][k] >= n
                         /\ MaxSheets \in Nat \ {0} /\ CacheSlots \in Nat
                         /\ SweepInterval \in Nat \ {0}
                         /\ TombTier \in BOOLEAN /\ SizedLaunder \in BOOLEAN

Cells(a) == DOMAIN Cap[a]
Blocks == UNION {{a} \X Cells(a) : a \in Addrs}
CapOf(b) == Cap[b[1]][b[2]]
Entries == [ptr : Blocks, size : Nat]                   \* __tcache_chunk
NoHit == 0

VARIABLES
  chain,        \* the linked list of sheets; its first one is the head node's
  idx,          \* __idx: the sheets in address order
  bits,         \* __space_mask: the positions believed to have space
  lastHit,      \* __last_hit: a position of idx or NoHit
  state,        \* each block: "free", "parked", "alloc", "temporal", "tomb"
  active,       \* active[a][n]: cell that sheet a hands out for temporal size n, or 0
  cache,        \* __cache: [ptr, size], the newest last
  deallocs,     \* __dealloc_count
  plain,        \* history: blocks the callers hold from push
  laundered     \* history: blocks they hold from launder

vars == <<chain, idx, bits, lastHit, state, active, cache, deallocs, plain, laundered>>

Init ==
  /\ chain = <<>> /\ idx = <<>> /\ bits = {} /\ lastHit = NoHit
  /\ state = [b \in Blocks |-> "free"]
  /\ active = [a \in Addrs |-> [n \in Sizes |-> 0]]
  /\ cache = <<>> /\ deallocs = 0
  /\ plain = {} /\ laundered = {}

Sheets == ToSet(chain)
Cached(b) == \E i \in DOMAIN cache : cache[i].ptr = b
PosOf(a) == CHOOSE p \in DOMAIN idx : idx[p] = a        \* find_range

-----------------------------------------------------------------------------
(* __bucket_insert: the last hit first, then the set bits in order; a      *)
(* sheet that fails loses its bit                                          *)

\* The position whose sheet serves, of those that could, and the bits it leaves.
Pick(offers) == IF lastHit \in offers THEN lastHit ELSE Min(offers)
BitsAfter(offers) ==
  IF lastHit \in offers THEN bits ELSE bits \ ({p \in bits : p < Pick(offers)} \cup {lastHit})

\* mark(n): any free block that is large enough.
Fitting(a, n) == {k \in Cells(a) : Cap[a][k] >= n /\ state[<<a, k>>] = "free"}
Offers(n) == {p \in bits : Fitting(idx[p], n) # {}}

\* temporal_mark(n): the active block again, else a parked or free one.
FittingTemporal(a, n) == {k \in Cells(a) : Cap[a][k] >= n /\ state[<<a, k>>] \in {"free", "parked"}}
TemporalOffers(n) == {p \in bits : active[idx[p]][n] # 0 \/ FittingTemporal(idx[p], n) # {}}

\* Sheet a hands out cell k.
Mark(a, k) ==
  /\ state' = [state EXCEPT ![<<a, k>>] = "alloc"]
  /\ plain' = plain \cup {<<a, k>>}
  /\ UNCHANGED <<active, laundered>>

TemporalMark(a, n, k) ==
  /\ IF active[a][n] # 0 THEN k = active[a][n] /\ UNCHANGED <<state, active>>
     ELSE /\ k \in FittingTemporal(a, n)
          /\ state' = [state EXCEPT ![<<a, k>>] = "temporal"]
          /\ active' = [active EXCEPT ![a][n] = k]
  /\ laundered' = laundered \cup {<<a, k>>}
  /\ UNCHANGED plain

-----------------------------------------------------------------------------
(* push and launder *)

\* probe_ge: the newest entry that is large enough.
Probe(n) == {i \in DOMAIN cache : cache[i].size >= n}

\* Mutant of PopAt: the last entry goes, not the one that is handed out.
PopAtLast(i) == SubSeq(cache, 1, Len(cache) - 1)

\* pop_at: the last entry fills the hole.
PopAt(i) == SubSeq([cache EXCEPT ![i] = cache[Len(cache)]], 1, Len(cache) - 1)

PushCached(n) ==
  /\ Probe(n) # {}
  /\ cache' = PopAt(Max(Probe(n)))
  /\ plain' = plain \cup {cache[Max(Probe(n))].ptr}
  /\ UNCHANGED <<chain, idx, bits, lastHit, state, active, deallocs, laundered>>

PushInsert(n) ==
  LET pos == Pick(Offers(n))
  IN /\ Probe(n) = {} /\ Offers(n) # {}
     /\ bits' = BitsAfter(Offers(n)) /\ lastHit' = pos
     /\ \E k \in Fitting(idx[pos], n) : Mark(idx[pos], k)
     /\ UNCHANGED <<chain, idx, cache, deallocs>>

Launder(n) ==
  LET pos == Pick(TemporalOffers(n))
  IN /\ TemporalOffers(n) # {}
     /\ bits' = BitsAfter(TemporalOffers(n)) /\ lastHit' = pos
     /\ \E k \in Cells(idx[pos]) : TemporalMark(idx[pos], n, k)
     /\ UNCHANGED <<chain, idx, cache, deallocs>>

\* Mutant of Register: the index is not kept in address order.
RegisterAtEnd(a) == idx' = Append(idx, a) /\ bits' = {Len(idx) + 1} /\ lastHit' = Len(idx) + 1

\* register_sheet in address order; the retry then finds this sheet, every
\* other bit being clear.
Register(a) ==
  LET pos == 1 + Cardinality({p \in DOMAIN idx : idx[p] < a})
  IN idx' = InsertAt(idx, pos, a) /\ bits' = {pos} /\ lastHit' = pos

\* A new sheet is linked at the tail and registered.
Expand(a) ==
  /\ Len(idx) < MaxSheets /\ a \notin Sheets
  /\ chain' = Append(chain, a) /\ Register(a)

PushExpand(n) ==
  /\ Probe(n) = {} /\ Offers(n) = {}
  /\ \E a \in Addrs : Expand(a) /\ \E k \in Fitting(a, n) : Mark(a, k)
  /\ UNCHANGED <<cache, deallocs>>

LaunderExpand(n) ==
  /\ TemporalOffers(n) = {}
  /\ \E a \in Addrs : Expand(a) /\ \E k \in Cells(a) : TemporalMark(a, n, k)
  /\ UNCHANGED <<cache, deallocs>>

\* Both fail if there is no memory or no index slot; the bits stay cleared.
ExpandFail(n) ==
  /\ chain # <<>> /\ bits # {}
  /\ \/ Probe(n) = {} /\ Offers(n) = {}
     \/ TemporalOffers(n) = {}
  /\ bits' = {}
  /\ UNCHANGED <<chain, idx, lastHit, state, active, cache, deallocs, plain, laundered>>

-----------------------------------------------------------------------------
(* Reclaiming sheets.  The operators speak of the block states s after the *)
(* free at hand.                                                           *)

\* used(): the cells it counts; it is zero if there are none.
Used(s, a) == {k \in Cells(a) : s[<<a, k>>] \in {"alloc", "temporal"}}

\* More than half of the units are tombstoned.
Units(a, ks) == MapThenSumSet(LAMBDA k : Cap[a][k], ks)
MostlyTomb(s, a) ==
  2 * Units(a, {k \in Cells(a) : s[<<a, k>>] = "tomb"}) > Units(a, Cells(a))

\* Mutant of Drained: used() is not asked.
DrainedAnyway(s, a) == a # chain[1]

Drained(s, a) == a # chain[1] /\ Used(s, a) = {}

\* Where position p of list l moves to when the sheets in gone leave it, and
\* the list that is left.
Shift(l, gone, p) == p - Cardinality({q \in DOMAIN l : q < p /\ l[q] \in gone})
Without(l, gone) ==
  [i \in 1 .. (Shift(l, gone, Len(l) + 1) - 1) |->
     l[CHOOSE p \in DOMAIN l : l[p] \notin gone /\ Shift(l, gone, p) = i]]

\* Mutant of Unregister: the sheet at pos is not marked available.
UnregisterNoMark(gone, pos) ==
  /\ idx' = Without(idx, gone)
  /\ bits' = {Shift(idx, gone, p) : p \in {q \in bits : idx[q] \notin gone}}
  /\ lastHit' = IF lastHit = NoHit \/ idx[lastHit] \in gone THEN NoHit ELSE Shift(idx, gone, lastHit)

\* unregister of the sheets in gone; the sheet at pos has been marked available
\* before.
Unregister(gone, pos) ==
  /\ idx' = Without(idx, gone)
  /\ bits' = {Shift(idx, gone, p) : p \in {q \in bits \cup {pos} : idx[q] \notin gone}}
  /\ lastHit' = IF lastHit = NoHit \/ idx[lastHit] \in gone THEN NoHit ELSE Shift(idx, gone, lastHit)

\* reset, unlink_node and unregister of the sheets in gone.
Reclaim(gone, pos) ==
  chain' = Without(chain, gone) /\ Unregister(gone, pos)

\* What a later carve of a reclaimed address finds.
Fresh(s, gone) == [b \in Blocks |-> IF b[1] \in gone THEN "free" ELSE s[b]]
FreshActive(act, gone) == [a \in Addrs |-> IF a \in gone THEN [n \in Sizes |-> 0] ELSE act[a]]

\* __try_reclaim_empty after a free into sheet a.
ReclaimEmpty(s, a, act) ==
  LET gone == {x \in {a} : Drained(s, x)}
  IN /\ Reclaim(gone, PosOf(a))
     /\ state' = Fresh(s, gone) /\ active' = FreshActive(act, gone)
     /\ UNCHANGED deallocs

\* Mutant of TombstoneAccounting: only the sweep unmaps.
TombstoneAccountingLazy(s, a) ==
  LET sweep == deallocs + 1 >= SweepInterval
      gone == IF sweep THEN {x \in Sheets : Drained(s, x) /\ MostlyTomb(s, x)} ELSE {}
  IN /\ Reclaim(gone, PosOf(a))
     /\ state' = Fresh(s, gone) /\ active' = FreshActive(active, gone)
     /\ deallocs' = IF sweep THEN 0 ELSE deallocs + 1

\* __tombstone_accounting after a tombstone in sheet a: unmap it at once, or
\* count, and sweep all sheets when the interval is over.
TombstoneAccounting(s, a) ==
  LET now == Drained(s, a) /\ MostlyTomb(s, a)
      sweep == ~now /\ deallocs + 1 >= SweepInterval
      gone == IF now THEN {a}
              ELSE IF sweep THEN {x \in Sheets : Drained(s, x) /\ MostlyTomb(s, x)} ELSE {}
  IN /\ Reclaim(gone, PosOf(a))
     /\ state' = Fresh(s, gone) /\ active' = FreshActive(active, gone)
     /\ deallocs' = IF now THEN deallocs ELSE IF sweep THEN 0 ELSE deallocs + 1

-----------------------------------------------------------------------------
(* pop and ts_pop *)

IsBlockAllocated(b) == state[b] \in {"alloc", "temporal"}

\* The caller lets go of b, however it got it.
LetGo(b) == plain' = plain \ {b} /\ laundered' = laundered \ {b}

\* try_tombstone: the flags are replaced, the active slot keeps the block.
Tombed(b) == IF IsBlockAllocated(b) THEN [state EXCEPT ![b] = "tomb"] ELSE state

\* __tier_remove_impl: unmark or tombstone, then look after the sheet.  A freed
\* temporal block leaves its active slot; a buddy sheet parks it for launder.
TierRemove(b) ==
  /\ LetGo(b) /\ UNCHANGED cache
  /\ \/ TombTier /\ TombstoneAccounting(Tombed(b), b[1])
     \/ /\ ~TombTier
        /\ \E left \in (IF state[b] = "temporal" THEN {"free", "parked"} ELSE {"free"}) :
             ReclaimEmpty([state EXCEPT ![b] = left], b[1],
                          [active EXCEPT ![b[1]] =
                             [n \in Sizes |-> IF @[n] = b[2] THEN 0 ELSE @[n]]])

\* Push b on the free cache; the sheet still counts it as allocated.
CachePush(b, n) ==
  /\ cache' = Append(cache, [ptr |-> b, size |-> n])
  /\ LetGo(b)
  /\ UNCHANGED <<chain, idx, bits, lastHit, state, active, deallocs>>

Room == Len(cache) < CacheSlots

\* A free that the guards turn away: handle_double_free.
Refused(b) == ~IsBlockAllocated(b) \/ Cached(b)
Refuse(b) ==
  /\ Refused(b) /\ LetGo(b)
  /\ UNCHANGED <<chain, idx, bits, lastHit, state, active, cache, deallocs>>

\* __tier_remove_at: a free by address.
PopPtr(b) ==
  /\ ~Refused(b)
  /\ IF state[b] # "temporal" /\ Room THEN CachePush(b, CapOf(b)) ELSE TierRemove(b)

\* __cache_push_or_remove: a free with a size; it does not ask is_temporal.
PopSized(b, n) ==
  /\ ~Refused(b)
  /\ IF Room THEN CachePush(b, Min({n, CapOf(b)})) ELSE TierRemove(b)

\* __tier_tombstone: the result of try_tombstone is not looked at.
TsPop(b) ==
  /\ LetGo(b) /\ UNCHANGED cache
  /\ TombstoneAccounting(Tombed(b), b[1])

-----------------------------------------------------------------------------
\* A pointer whose sheet is gone belongs to no tier: pop returns false.
Held == {b \in plain \cup laundered : b[1] \in Sheets}

Next ==
  \/ \E n \in Sizes : \/ PushCached(n) \/ PushInsert(n) \/ PushExpand(n)
                      \/ Launder(n) \/ LaunderExpand(n) \/ ExpandFail(n)
  \/ \E b \in Held : \/ PopPtr(b) \/ TsPop(b) \/ Refuse(b)
                     \/ \E n \in Sizes : (b \in plain \/ SizedLaunder) /\ PopSized(b, n)

Spec == Init /\ [][Next]_vars

-----------------------------------------------------------------------------
\* Every variable ranges over the values its C++ type allows.
TypeOK ==
  /\ chain \in Seq(Addrs) /\ idx \in Seq(Addrs)
  /\ bits \subseteq 1 .. MaxSheets /\ lastHit \in 0 .. MaxSheets
  /\ state \in [Blocks -> {"free", "parked", "alloc", "temporal", "tomb"}]
  /\ active \in [Addrs -> [Sizes -> Nat]]
  /\ \A a \in Addrs, n \in Sizes : active[a][n] \in Cells(a) \cup {0}
  /\ cache \in Seq(Entries) /\ Len(cache) <= CacheSlots
  /\ deallocs \in 0 .. SweepInterval
  /\ plain \subseteq Blocks /\ laundered \subseteq Blocks

(***************************************************************************)
(* The binary search of find_range works: the index lists each linked      *)
(* sheet once, in address order, through every expansion and every sheet   *)
(* that is unregistered (register_sheet, unregister, unlink_node).         *)
(***************************************************************************)
IndexExact ==
  /\ TypeOK
  /\ ToSet(idx) = ToSet(chain) /\ Len(idx) = Len(chain) /\ Len(idx) <= MaxSheets
  /\ \A p, q \in DOMAIN idx : p < q => idx[p] < idx[q]
  /\ bits \subseteq DOMAIN idx

(***************************************************************************)
(* A cleared space bit is never wrong about a sheet: there is a request it *)
(* could not serve, although bits move with every insertion and removal    *)
(* (__mask_insert, __mask_remove, mark_exhausted, mark_available).         *)
(***************************************************************************)
ExhaustedMeansFull ==
  \A p \in DOMAIN idx \ bits : \E n \in Sizes : Fitting(idx[p], n) = {}

(***************************************************************************)
(* The free cache holds a block once, that its sheet still counts as used, *)
(* so the sheet cannot be unmapped under it; that nobody holds; and that   *)
(* is as large as the entry says (tcache.hpp, arena.hpp:1122-1167).        *)
(***************************************************************************)
CacheSound ==
  \A i \in DOMAIN cache :
    LET b == cache[i].ptr
    IN /\ b[1] \in Sheets /\ IsBlockAllocated(b)
       /\ cache[i].size <= CapOf(b)
       /\ b \notin plain \cup laundered
       /\ \A j \in DOMAIN cache : cache[j].ptr = b => i = j

(***************************************************************************)
(* No sheet is unmapped while a plain allocation, one that did not come    *)
(* from launder, lives on it: not by a free, a retire, nor a sweep of the  *)
(* whole tier; and its block stays allocated.                              *)
(***************************************************************************)
LiveMapped ==
  \A b \in plain : b[1] \in Sheets /\ state[b] = "alloc"

(***************************************************************************)
(* A sheet without live blocks does not linger because it was not looked   *)
(* at again: it is unmapped by the release that drained it unless most of  *)
(* it is reusable, so that the periodic sweep has nothing left to find     *)
(* (__tombstone_accounting, __try_reclaim_empty).                          *)
(***************************************************************************)
NoLingering ==
  \A a \in Sheets : a # chain[1] /\ Used(state, a) = {} =>
    ~MostlyTomb(state, a) /\ \E k \in Cells(a) : state[<<a, k>>] = "tomb"

(***************************************************************************)
(* A block that launder keeps handing out is no other allocation: it is    *)
(* shared only "until that block is freed" (abcmalloc_stress.cpp:651-652). *)
(* Not an invariant where SizedLaunder lets callers free it with its size. *)
(***************************************************************************)
OneHolder == plain \cap laundered = {}

(***************************************************************************)
(* In a tombstoning tier memory that was freed does not go to a new        *)
(* allocation while its sheet is mapped (config_amd64.hpp:192-193,         *)
(* README.md:143).  Not kept by a tier that has cache slots as well.       *)
(***************************************************************************)
FreedNotReused == [][TombTier => \A b \in plain' \ plain : state[b] = "free"]_vars
=============================================================================
