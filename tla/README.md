# A TLA+ verification of abcmalloc

abcmalloc is a header-only memory allocator (`src/src/*.hpp`). Every thread owns
an *arena*; memory is carved out of one large address-space reservation in
*sheets*; an arena keeps its sheets in five size *tiers*; inside a sheet a TLSF
or a buddy allocator hands out blocks. A block that is freed by another thread
travels back to its arena through a lock-free queue. This directory models that
machinery, checks it with TLC on small instances, and proves with TLAPS, for all
instances, every safety property that the passing runs check, some under a named
condition without which the code is wrong (section 5).
Paths such as `arena.hpp:1466` are relative to `src/src/`.

## 1. The system: inventory

| Part | State | Operations | Talks to |
|---|---|---|---|
| Arena pool (`tapi.hpp`) | owner tid per slot, slot counter, overflow stack of arenas, `__tls_arena` | `__claim_arena_slow`, `__release_tls_arena`, thread death | kernel (tids, `tgkill`), the arenas |
| Remote-free ring (`mpsc_free.hpp`) | cells with a tag, tail, head | `push`, `pop`, `drain` | used by remote frees |
| Remote frees (`arena.hpp:1466-1536`, `tapi.hpp:219-248`) | ring, overflow LIFO embedded in the freed blocks | `__remote_push`, `__remote_drain`, `__maybe_drain`, routing | ring, tiers of the owning arena |
| Reservation and owner table (`va_reserve.hpp`, `sheet_header.hpp`) | base, bump offset, free runs, owner per granule | carve, release, register, unregister | kernel (`mmap`), sheets |
| Sheets outside the reservation (`sheet_header.hpp:45-101`) | insert-only list of ranges, live counter | `__oor_insert`, `__oor_retire`, `__oor_owner_of` | kernel, routing of frees |
| Tiers (`arena.hpp`, `tcache.hpp`, `book.hpp`) | sheet list, sorted index, space bits, last-hit hint, free cache, sweep counter | `push`, `launder`, `pop`, `ts_pop`, expansion, reclaim, sweep | block allocators, reservation |
| Buddy allocator (`free_list.hpp`) | tags, tail headers, free lists and mask, temporal ring and cache, counters | allocate, temporal and exact allocate, free, tombstone, reallocate | tiers |
| TLSF allocator (`cache_list.hpp`) | boundary tags, two-level bitmap, temporal ring | the same | tiers |
| Public API (`malloc.hpp`, `malloc-c.hpp`) | little of its own; it reads prefixes and headers back from memory | `alloc`, `aligned_alloc`, `dealloc`, `free`, `aligned_free`, `realloc`, `mark_at`, `launder`, `retire`, `freeze`, `relinquish` | routing, arena, registry |
| External registry (`external.hpp`) | pages of caller-owned ranges, marks, counters | register, unregister, queries | public API |
| Doctor (`doctor.hpp`) | hash table with one record per pointer, counters | reports of allocations and frees, quarantine, repair of a TLSF sheet | arenas, routing, public API, TLSF |
| Hardening, OOM probe, predictor, statistics, inspection, configuration | counters, constants | read-only or byte-level | all |

What is hard here: claims of arenas race with exits, deaths and reused tids;
producers of the ring race with each other and with the drain, and when the ring
is full the overflow list lives in the freed memory; carving and releasing race
over granules and the owner table; positions in a tier's index are shared by the
bits, the hint and the loop that is unmapping sheets; a cached block is free for
the tier and allocated for its sheet; the buddy allocator keeps five
representations of the same tiling and the TLSF allocator four of its chain;
`free` decides from 16 bytes of memory what kind of pointer it was given; and the
doctor hears of an operation at another moment than the arena carries it out. `PROJECT.json` lists these hazards line by
line with the properties that would catch them.

## 2. The modules

| Module | Models | Role |
|---|---|---|
| `MpscFreeQueue` | `mpsc_free.hpp` | every atomic access of `push` and `pop` is a step |
| `FreeOrder` | what the ring promises | accepted frees come out once, in ticket order |
| `MpscFreeQueueProofs` | | theorems about the ring |
| `RemoteFree` | `arena.hpp:1466-1536` | composes the ring (`INSTANCE MpscFreeQueue`) with the overflow list, the drain and the callers |
| `RemoteDelivery` | what remote frees promise | one release per free, as requested |
| `RemoteFreeProofs` | | theorems about remote frees; uses those about the ring |
| `ArenaPool` | `tapi.hpp` | every access to a shared owner word is a step |
| `ArenaPoolProofs` | | theorems about the pool |
| `VaReserve` | `va_reserve.hpp`, owner table | locked sections are steps, unlocked accesses are steps |
| `OorSheets` | `sheet_header.hpp:45-101` | list walks are step by step |
| `SheetMappingProofs` | | theorems about the reservation and the list |
| `BuddyList` | `free_list.hpp` | one step per operation (an arena has one user) |
| `BuddyListProofs` | | theorems about the buddy allocator |
| `TlsfList` | `cache_list.hpp` | the same for the precise and small tiers |
| `TlsfListProofs` | | theorems about the TLSF allocator |
| `BlockStore` | what a block allocator promises | disjoint blocks are taken, given back, retired; only a lent one is handed out twice |
| `Tier` | `arena.hpp`, `tcache.hpp`, `book.hpp` | one step per public operation |
| `TierProofs` | | theorems about a tier |
| `ExternalRegistry` | `external.hpp` | one step per operation (all under one lock) |
| `RangeSet` | what the registry promises | a set of disjoint ranges |
| `PublicApi` | `malloc.hpp`, `malloc-c.hpp` | extends the registry; one thread's calls, over the words of memory they read |
| `DoctorLedger` | `doctor.hpp` | a report is one step under the lock, the operation it reports another |
| `FrontEndProofs` | | theorems about the registry, the public API and the ledger |
| `MC*` | | constants for TLC |

Each operator named *Mutant of X* is a plausible wrong version of X that no
specification uses; replacing X by it makes the property named in
`PROJECT.json` fail, which shows that the property depends on that code.

### MpscFreeQueue, FreeOrder

`seq`, `payload`, `tail`, `head` are the members of the class; `pc`, `myTail`,
`item` the locals of each running `push`; `log` and `delivered` are history.
`PushReadSeq` is the load of the tag and the three-way test of `diff`, `PushCas`
and `PushCasFail` the weak exchange (spurious failure included), `PushWrite` and
`PushPublish` the payload and the release store, `PushGiveUp` the return of
`false`. `PopCheck` and `PopAdvance` are the two shared accesses of `pop`.
Tickets are unbounded naturals; the code's `usize` wraps after 2^64 pushes,
which is left out. The template admits a capacity of 1
(`requires(N > 0 ...)`), where a published cell is taken for a free one: the
theorems assume a capacity of at least 2, and the only instance has 64.

### RemoteFree, RemoteDelivery

A block is held by a thread, in flight, or back in the arena. A free enters
`Ring!PushBegin`; if the ring turns out full, `OvfLoad`/`OvfLink`/`OvfRetry` are
the push on the LIFO, with `next` and `size` stored in the block itself (they
become `Garbage` when the block is released, so that reading them too late is
visible). The owner runs `MaybeDrain`, empties the ring, swaps the list out and
walks it. The size word carries the retire request (`__remote_tombstone_size`).

### ArenaPool

A thread is an incarnation with a tid; `Spawn` and `Die` are the environment
(external), and `Die` may strike at any step. The four passes of
`__claim_arena_slow` (released slots, slots of the dead, a new slot, overflow
nodes) are loops over `i` with the limit read before, one step per access. `lim`,
`seen` and `i` are the values that may be stale. `Tid` is a constant function:
injective in `MCArenaPool.cfg` (`ReusedTids` in `MCArenaPool` is one that is not).

### VaReserve, OorSheets

Offsets count granules. Carving tries the free runs (best fit from the end, as in
`__va_reuse`), then the bump offset with its compare-exchange, then commits with
an `mmap` that can fail. Registering and unregistering write the table one
granule at a time. `leaked` is history: granules no list will hand out again. In
`OorSheets` the kernel chooses any unmapped range, so a range may reappear under
another size; nodes are never removed, only their owner is cleared. Names that both
modules need have the prefix `Oor` in the second (the code's `__oor_`), so that one
module of proofs extends both.

### BuddyList, TlsfList, BlockStore

Units are minimal blocks. `space` holds tags, lists and mask, which
`__take_and_split` and `__merge_and_free` change together; `hdr` is the header
word at the end of each block, garbage left by former blocks included; `active`,
`rotor`, `tcache` are the temporal machinery; `held` is what callers may still
free. Sizes are bytes with a small `UsizeMax` so that the overflow check of
`allocate` matters: `Serves` adds the header with the machine's sum, so without the
check a large request would wrap to a small order (`ServesUnchecked`, with which
`RoomIsFound` fails). The guard `Freeable` is the one all callers apply
(`arena.hpp:1115-1120`).

`BlockStore` is what both allocators promise. Under the refinement mappings, blocks
in use that are not tombstoned are `used`, tombstoned ones `dead`, `held` is what
callers hold, and `lent` are the blocks in launder's slots. A block that is newly
handed out (`Take`, `Move`) overlaps no used and no dead one. `Again` hands out a
block a second time and needs a lent one, which `Retire` leaves lent: this is
how `launder` returns a retired block (section 5). The release of such a block is
`Refuse`. `Kept` follows: whoever holds a block that is not in use got it from
`launder`.

In `TlsfList`, `pool` holds the headers (`bsize`, `flags`, `prev` of every unit
that begins a block, sentinels included), the free lists and both bitmaps;
`active` and `rotor` are the two temporal slots of each class. `MappingInsert`
and `MappingSearch` keep the byte arithmetic of the code, so the number of units
in a class grows with the size as it does there. `DoctorWalk` is the repair that
the doctor runs on a sheet. `held` remembers the largest size a caller asked for.
`SheetAssumption` is what `cache_list.hpp:53-66` fixes by constants and
`static_assert`s (a unit that is a power of two, a smallest block that is no
smaller than the columns of a row) and what its callers guarantee: pools are
smaller than 4 GiB, and no tier sends a size in the upper half of `usize`, where the
sum in `mapping_search` would wrap.

### Tier

A sheet is seen through what `BlockStore` promises: blocks of fixed sizes,
different from sheet to sheet, of which any fitting one may be handed out.
`chain` is the linked list (its first sheet sits in the tier's head node and is
never unmapped), `idx` the sorted index, `bits` and `lastHit` positions in it.
`PushCached`/`PushInsert`/`PushExpand`/`ExpandFail` are the outcomes of `push`,
the `Launder` actions those of `launder`, `PopPtr`, `PopSized` and `TsPop` the
releases, each with the accounting it ends in. The build is the default one: no
redzones, no global launder mode, no persistent mode. `plain` and `laundered` are
history: what callers hold.

### ExternalRegistry, RangeSet

`slot`, `high_water`, `used`, `count` are the members of the pages and the global
count. `RegisterHead` and `UnregisterHead` are the fast paths, the others the scan;
`Trimmed` is the loop that lowers a mark over empty slots. Sums of a base and a
length are the machine's, `% (Top + 1)`. The refinement forgets pages, marks and
counters: `RangeSet` has a set of ranges and the answer of the last call.

### PublicApi

The arena is one sheet whose allocator is seen through what it does to memory: of
each unit the model keeps what its first 16 bytes say when read as a TLSF header
and what its last 16 say when read as the prefix of an over-aligned pointer. Stale
contents therefore stay, as they do in the program. `zeroes` is the build switch
`__default_zero_on_alloc`, and `Ways` names the release calls that are checked in
each of the two builds (section 5 says which are left out and why). `Realloc` is
`abc::realloc`, which may stay in its block; `CRealloc` is the C
`realloc` (`malloc-c.hpp:50-80`), which always allocates, copies and frees.

### DoctorLedger

`dr` is the table with its counters, `busy[t]` the call that thread `t` is in,
`status` where a block is on its way through the arena. `Push`/`RecordAlloc`,
`DrPop`/`RecordFree` and `RouteRemote`/`RemotePush` are the two halves of each call
in the order of the code; `Drain` is the owner's release of a remote free;
`DropDuplicate`, `DropBadFree` and `ReallocFails` are the calls a rescue build
survives. Every `mmap` of the table may fail (`failed` is history). A block belongs to
one arena for good (`Owner`), and `Push` takes a block that nobody holds: a range that
is carved again by another arena and a second `launder` of an active block, which
reports a live record once more, are outside the model.

## 3. What is checked

| Run | Instance | States | Shows |
|---|---|---|---|
| `ring` | 2 producers, 2 cells, 4 tickets | 50 k | `RingInv`, `FullOnlyWhenFull`, refinement of `FreeOrder`, `PushReturns` (even if the owner never drains), `AllDelivered` |
| `remote` | 2 threads, 4 blocks, ring of 2, 4 frees | 388 k | a free is in one place (`InOnePlace`), refinement of `RemoteDelivery` |
| `remote_fair` | 3 blocks | 13 k | every remote free is released (`EventuallyReleased`) |
| `reservation` | 2 threads, 3 granules, sheets of 1-2 | 235 k | granules partitioned and sheets mapped (`CarvesSound`), `OwnerTableExact`, one reservation and no dropped run (`NothingLost`) |
| `oor` | 2 arenas, 3 addresses, 3 nodes | 766 k | never a foreign owner (`NeverForeign`), counter exact and one live node per sheet (`ListSound`) |
| `pool` | 3 threads, 1 slot, 2 overflow nodes | 550 k | `SingleOwner`, `PoolInv`, a claim ends (`ClaimReturns`) |
| `buddy` | 9 units, 4 orders, sizes at the order boundaries and near overflow | 45 k | tiling and agreement of the tables (`SheetSound`), `RoomIsFound`, `CountersExact`, refinement of `BlockStore` |
| `tlsf` | 13 units of 32 bytes, two columns per row | 17 k | chain, lists and bitmaps agree (`PoolSound`), `RoomIsFound`, `CountersExact`, temporal slots name blocks in use (`ActiveInUse`), blocks are large enough (`GrantFits`), the doctor's walk changes nothing on a sound pool (`WalkRestores`), refinement of `BlockStore` |
| `tlsf_launder` | 160 units, the code's 16 columns | violation | see section 5 |
| `tier` | 3 sheets of unequal size, 2 cache slots, sweep every 3 | 639 k | index, bits and hint (`IndexExact`, `ExhaustedMeansFull`), cache (`CacheSound`), mapping (`LiveMapped`); no drained sheet lingers (`NoLingering`) |
| `api` | 7 units, alignment of 2, sizes of 16 and 48 bytes, registry of one page with two slots | 151 k | `RegistrySound`, `QueriesSeeAll`, refinement of `RangeSet`; each release acts on the pointer's own block (`ReleasesOwn`), prefixes survive (`PrefixIntact`) |
| `doctor` | 2 threads, 3 keys that collide, first table of 4, cap of 4 records | 101 k | every record is found (`ProbesReach`), `CountersExact`, the ledger tells the truth across threads (`LedgerTruth`) |

Where an invariant is a conjunction (`CarvesSound`, `ListSound`, `SheetSound`,
`PoolSound`, `RegistrySound`), its parts are definitions of their own in the module,
the type invariant among them; the types of the ring and the pool are proved.

Why the bounds are enough to be interesting. Two cells and four tickets give two
laps, so that a producer can sleep through a whole lap. In `remote` two frees fill the ring, a third becomes an overflow node, and a fourth,
whose producer already found the ring full, is pushed while the owner walks the list
that holds the third; `remote_fair` has three frees and at most one such node.
Three granules with sheets of one and two give splitting, swap-removal and a
full reservation. One pool slot forces the third thread into the overflow nodes,
and two nodes let one be recovered while the other is pushed. Nine units are no
power of two, so the last block has no buddy; `MaxInUse = 3` bounds the blocks
callers hold. Three sheets let one in the middle of the index disappear under
bits and hint on both sides. Thirteen units give the TLSF pool rows of different
width, blocks that are split and blocks that are taken whole. In `api` the highest
ranges end at `Top`, where sums wrap, one begins inside the sheet, and
a third range meets a full registry; registries of several pages are the matter of
the proofs in section 4, which hold for any number. A first table of four slots grows at the
third record and evicts as soon as `MaxRecords` is reached. Deadlock is not checked where the bound on tickets,
frees or nodes ends every behaviour, or where callers may simply stop.

Two invariants deserve a remark. `NoLingering` shows that the periodic sweep of
tombstoned sheets finds nothing, since the release that drained a sheet has
already looked at it. `RoomIsFound` says of a buddy sheet that the order a request is
served from fits it, also at the top of `usize`, and that a request for which there is
an aligned free run of that order is never refused; of a TLSF sheet, that a
refused request finds every free block smaller than its size rounded up to a multiple
of its class step (a block that fits exactly on a class boundary must be found,
a smaller one in the same class may be missed, as `mapping_search` intends).
`CountersExact` of `doctor` runs with `Rescue = TRUE`, where `n_freed` may be too high;
that it is exact without rescue is left to `LedgerCountersAreExact`.

### Fairness

`PushFairness`: a thread inside `push` is scheduled, and a compare-exchange that
could succeed again and again does at last (the loops are lock-free, not
wait-free, so strong fairness of the exchange is needed). `PopFairness`: the owner
keeps coming back to `__current_arena`, which drains; it is an assumption of
`AllDelivered` and `EventuallyReleased` only. `ClaimReturns` assumes nothing but
that the claiming thread itself runs: all its loops are bounded or make progress
whenever an exchange fails.

## 4. What is proved

All theorems hold for every value of the constants that meets the named `ASSUME`s.
TLC evaluates those on every run, and each inductive invariant named here was
checked on an instance of its run before it was proved.

**Ring** (`MpscFreeQueueProofs`)

- `TypeCorrect`, `RingSafe`: `Spec => []TypeOK` and `Spec => []RingInv` for any set
  of producers and any capacity of at least 2. `RingInv` is inductive together
  with `TypeOK`: `Bounds` (at most a capacity of open tickets), `Claims` (a held
  ticket's cell still carries it), `Window` (each open ticket is published or
  held), `FreeCells` (each ticket of the next lap finds its cell free), `Stale`
  (a tag that matched an old ticket never goes back), `Cover` and `History`. The
  arithmetic of `tail & __mask` is isolated in the lemmas `ModUnique`, `IdxLap`
  and `IdxApart`; one lemma per step that moves the ring follows.
- `FullIsFull`: `push` returns false only if all cells are taken, from `Stale`,
  `Cover` and `Window`.
- `RingImplementsOrder`: the ring implements `FreeOrder`.

**Remote frees** (`RemoteFreeProofs`)

- `UsesRing`: seen through the ring's variables alone, a behaviour of `RemoteFree` is
  a behaviour of `MpscFreeQueue`, where a push that goes on to the overflow list
  counts as having returned. The proof module of the ring is instantiated there,
  so `RingSafe` holds inside `RemoteFree` without being proved again.
- `FreesInOnePlace`: `Spec => []InOnePlace`. The strengthening `RemoteInv` says that
  what pushes, ring and drain callback carry has been freed (`Travelling`), that
  the overflow list and the list being walked are lists, given as functions from
  positions to blocks (`Lists`), that their nodes hold the size asked for
  (`Nodes`), that no block is in two of the five places (`Apart`), and that each
  block in flight is in one (`Found`). The lists are needed because the
  links are memory of the freed blocks: a push is right only if its block is on
  neither list, and the walk only if nobody writes behind it. That the recursive
  search along `next` finds exactly the positions of such a function (`ChainIs`)
  is proved by looking at a smallest position where it would not.
- `FreesAreDelivered`: every step is a step of `RemoteDelivery` or a stutter.
- Assumed: a ring of at least 2 cells, finitely many blocks, and names (of threads,
  of the null link) that are told apart from the other values of a variable.

**Arena pool** (`ArenaPoolProofs`)

- `PoolSafe`: `PoolInv` is inductive. Its core is that the owner word of an arena
  in use is its user's tid (`OwnerWord`) and that a tid probed dead stays dead
  (`Evidence`); the latter needs distinct tids, an explicit hypothesis of the
  theorem.
- `OneOwner`, `AdoptsBuilt`: single ownership and no use of an unbuilt arena.

**Reservation** (`SheetMappingProofs`)

- `CarvingIsSound`, `TableIsExact`: `Spec => []CarvesSound` and
  `Spec => []OwnerTableExact` for any size of the reservation and any number of
  threads. The inductive invariant `VaInv` consists of `Shape` (the types), `Working`
  (the limits of an operation under way), `Partition` (each granule below the
  cursor is in exactly one of a free run, a sheet, an operation under way and what
  has leaked, as inequalities between offsets), `Mapped` and `Registered` (what
  registering and unregistering have written so far, granule by granule).
- `NothingIsLost`: one reservation is published for good, and a free-run array
  with a slot per granule is never full when a run comes back. The latter is a
  pigeonhole: distinct runs have distinct first granules, and the granules of the
  run being returned belong to none of them.

**Sheets outside the reservation** (`SheetMappingProofs`)

- `ListIsSound`, `OwnersNotForeign`: `OorSpec => []ListSound` and
  `OorSpec => []NeverForeign` for any number of arenas and nodes. `OorInv` is `Core`
  (mapped sheets are apart, a live node's sheet is mapped and has no second one, a
  walk under way knows where it is) and `Counted` (the counter lags behind by the
  inserts and retirements under way). The counter needs finitely many arenas.

**Buddy allocator** (`BuddyListProofs`)

- `SheetIsSound`, `RoomIsAlwaysFound`, `CountersAreExact`: the three invariants of the
  run `buddy`, for every sheet size, number of orders, cache depth and set of
  sizes. A block is a pair of an offset and an order. The inductive invariant
  `IInv` consists of `Sound`: listed, cached and used blocks partition the sheet
  into aligned blocks (`Partition`), lists, mask and tags agree on them (`Tagged`,
  `Masked`, `ListedOnce`, `CachedUntagged`), and no two free buddies are left apart
  (`Apart`, without which a merge could stop too early and `RoomIsFound` fail);
  `Headers`: the word at the end of a used block is its own, although former blocks
  leave garbage in other places; `Ring`: the temporal slots name exactly the
  temporal blocks, and a class with an active block caches none; `Charged`: the
  counters count units.
- The splitting loop and the merging loop are each one replacement in the partition:
  a block by the pieces that cover the same units, or the other way round
  (`Replace`, `SplitSound`, `MergeSound`). That a block and its buddies up to the
  order where merging ends lie end to end is shown by looking at the smallest order
  where they would not (`JoinedUnits`). `Pow2` is a recursive function whose equations
  are proved first (`Pow2Def`).
- `RoomIsAlwaysFound` has a second part: what `Serves` admits fits its order, as no sum
  wraps.
- `BuddyImplementsStore`: every step is a step of `BlockStore` or a stutter; only a
  lent block is handed out a second time. `RetiredPlainStaysOut` is `Kept` for this
  sheet: a retired block that did not come from `launder` is never held again.

**TLSF allocator** (`TlsfListProofs`)

- `PoolIsSound`, `RoomOfAClassIsFound`, `TlsfCountersAreExact`, `SlotsAreInUse`,
  `WalkAlwaysRestores`: five invariants of the run `tlsf`, for every pool, unit, number of
  columns and set of sizes that `SheetAssumption` admits. The inductive invariant `IInv`
  consists of `Sound`: the headers are a doubly linked list of adjacent blocks from
  one sentinel to the other (`Linked`), no two free blocks are neighbours (`Merged`),
  and each free block is once in the list of its class, with both bitmaps saying which
  lists are not empty (`Shelved`); `Slotted`: a temporal slot names a temporal or
  retired block that was cut for a request of the slot's class and is at most one
  unit larger, and no block has two slots; `Charged`: the counters count units; and
  `Holders`: callers hold blocks in use.
- `Linked` is stated without reachability (each block's successor and predecessor are
  blocks, and none begins in between), so no induction along the chain is needed. A
  split and a join of two blocks are one relation each between the header tables
  before and after (`Cut`, `Fuse`). A join passes through a pool that is not sound:
  the block being released is in no list while its neighbours are taken out of theirs.
  `Open` describes that pool.
- The classes: truncation in `mapping_insert` and rounding up in `mapping_search` are
  compared through the quotient by a block's grain, the width of the columns of its
  row (`Grain`, `Place`). From this follow that `find_free` returns only blocks that
  are large enough and refuses only if there is none of the rounded size. That size is
  the request rounded up to a multiple of the step (`RoundUp`); sizes from one multiple
  to the next share a class, also where a new row begins (`OneClass`), so that a block
  of the rounded size or more is in a class that the search reaches. `SlotsAreInUse`
  rests on the same lemmas: a block of one unit more than its request is at most
  one class away, which is why clearing two classes is enough.
- `NarrowGrantsFit`: `Spec => []GrantFits` if `Narrow` holds: sizes that share a search
  class differ by one unit at most. `Narrow` is true of the sizes of the run `tlsf` and
  false of those of `tlsf_launder`, which shows that it cannot be dropped (section 5).
  `PlainGrantsFit`: blocks that did not come from `temporal_allocate` have the bytes
  asked for whatever the sizes are.
- `TlsfImplementsStore`: every step is a step of `BlockStore` or a stutter; only a lent
  block is handed out a second time. The steps are first brought to seven forms
  (`Takes`, `Lends`, `Gives`, `Retires`, `Moves`, `Refuses`, `Keeps`); `Moves` is
  `reallocate`, which allocates before it releases. `RetiredPlainStaysGone` is `Kept`
  for this sheet.
- In the invariants of the run the counters are compared with sets of units: as blocks
  are disjoint (`Chain`), that is the sum of their sizes.

**Tier** (`TierProofs`)

- `IndexIsExact`: `Spec => []IndexExact`, whatever is freed and how. Types and
  `Registered` (chain and index have the same sheets, the index is strictly
  sorted, bits and hint are positions of it) are inductive. `unregister` of several
  sheets is `Without`, and the lemmas `ShiftStep` to `WithoutIs` show that `Shift`
  maps the positions that stay one to one and in order onto the new ones.
- `SpaceBitsAreRight`, `CacheIsSound`, `LiveStaysMapped`, `NothingLingers`: the other
  four invariants of the run `tier`, for any sheets, cache and sweep interval and
  for both kinds of tier. `TierInv` adds `Clean` (an address that is not mapped will
  be found empty), `ActiveKept` (launder's slots point to temporal or retired
  blocks) and the stronger `CacheKept` (a cached block is a plain one): without
  them a slot or a cache entry could name a block that another caller gets. All
  frees, by address, by size and by tombstone, are brought to one form
  (`Released`), for which the invariant is shown once.
- The last four have the hypothesis `~SizedLaunder`: callers free with a size only
  what `push` returned. It is the condition under which the code is right: section 5
  (`arena.hpp:1164`) shows what happens otherwise.

**External registry** (`FrontEndProofs`)

- `RegistryIsSound`: `RegistrySound` is inductive as it stands: `MarksCover` (each
  taken slot lies below its page's mark), `CountsExact` (`used` and `count` are
  cardinalities) and `Disjoint`. It holds for every capacity and number of pages.
  The fast path of `register_external`, which resets the head page, needs
  `CountsExact`: a count of zero means there is nothing to lose. The trimming of a
  mark needs the largest taken slot of a page, which `HasLargest` gets from the
  well-founded order of the naturals; the counters need the theorems on the
  cardinality of finite sets.
- `RegistryImplementsSet`: every step of the registry is a step of `RangeSet` or a
  stutter. `QueriesAreExact`: scans up to the marks miss nothing.

**Public API** (`FrontEndProofs`)

- `ApiUsesRegistry`: through the registry's variables alone, a behaviour of the API is
  one of the registry, so the theorems above hold of the registry in use.
- `ReleasesResolve`, `PrefixesSurvive`: `ReleasesOwn` and `PrefixIntact` for every sheet,
  alignment, set of sizes and registry. The difficulty is that freed memory keeps its
  words, so that a call may read a prefix or a header that nobody wrote for it. The
  inductive invariant `ApiInv` says what the calls can rely on: blocks lie apart and
  the last bytes of a header are no prefix (`Sheet`), a held pointer and the bytes
  asked for lie behind its header and prefix (`Handle`), the prefix of an over-aligned
  pointer names its block and, where memory is cleared, does not pass for a header
  (`Kept`); and no registered range lies in the sheet (`Beyond`), as the queries
  would otherwise divert a `free`.
- Both have the hypothesis `NoException`: a TLSF sheet, no `realloc` of an over-aligned
  pointer to zero, and no `aligned_free` in a build that does not clear memory. These
  are the three cases of section 5 in which the code does go wrong; the run leaves them
  out through the same constants.

**Ledger** (`FrontEndProofs`)

- `ProbesAlwaysReach`, `LedgerCountersAreExact`, `LedgerTellsTruth`: the three invariants
  of the run `doctor`, for any hash, table sizes, keys and threads, with and without
  rescue. In the inductive invariant `LedgerInv` the table is `Sane` (every probe ends at
  its record, counters count), `Truth` relates it to where the blocks are, and each
  call under way is about a block of its own.
- Every report writes one record at the slot its probe stops at. `PutReaches` shows that
  no other probe is cut short or prolonged by that: a slot that ends a probe can only
  be the empty one or the one with the key. `Room` shows that a probe ends while the
  counter is below the capacity; `GrowIs` and `PreparedIs`, that it is whenever
  `record_alloc` looks for a slot, unless a mapping has failed.
- Growth and eviction refill a table from the slots of the old one, a recursive function.
  That it exists, and that after `n` slots it holds exactly the kept records of those
  (`Carried`), is shown at a smallest `n` where it would not.

Only model-checked: liveness under fairness (`PushReturns`, `AllDelivered`,
`EventuallyReleased`, `ClaimReturns`), which is out of the prover's reach, and the
violation of section 5.

## 5. Where the code and its documents disagree

**`tlsf_launder`** (`cache_list.hpp:468`): `temporal_allocate` returns the active
block of the request's class without comparing sizes. From 1 KiB on a class is
wider than a unit, so `launder(2016)` and then `launder(2112)` get one block, too
small for the second. `PROJECT.json` quotes the test that says otherwise.

Other observations have no run of their own. The first four are violations that
the given change to a configuration shows.

- `sheet_header.hpp:98`: `__oor_owner_of` stops at the first node that contains the
  address even if it is retired. A retired node of an overlapping range hides a
  live one, and a remote free of such a block is carried out in the wrong arena
  (`EveryAddressOwned` as an invariant of `MCOorSheets.cfg`).
- `tapi.hpp:165`: between the liveness probe and the exchange the kernel may give
  the dead tid to a new thread that takes the same arena: two owners
  (`Tid <- ReusedTids` and `Threads = {m, t1, t2, t4}` in `MCArenaPool.cfg`).
- `arena.hpp:1164`: a laundered block freed *with its size* is put on the free
  cache (the sizeless path asks `is_temporal_block`, this one does not), so that a
  plain allocation and a later `launder` get the same block (`SizedLaunder = TRUE`
  and `OneHolder` in `MCTier.cfg`).
- `arena.hpp:1129`: the large tier tombstones, but its free cache hands a freed
  block out again at once (`TombTier = TRUE` and `FreedNotReused`).
- `malloc.hpp:697`: `aligned_free` asks first whether the word before the pointer is
  a block header. In a build that does not clear memory, stale bytes there can pass
  for one; such builds check `aligned_free` no further. In the same way the last 16
  bytes of a buddy block are never written, so a stale prefix there can mislead
  `free` of the next block (`Kind = "buddy"`).
- `malloc.hpp:622`: `abc::realloc(p, 0)` takes an over-aligned pointer as it is and
  does not find its block.
- `malloc.hpp:647`: in a rescue build a `realloc` that finds no memory quarantines a
  block its caller keeps: `LedgerTruth` excepts it (`spoiled`).
- `doctor.hpp`: the comment that `__remote_release` re-reports a remote free later is
  true of retirements only; `record_free` of a sheet that was unmapped by the same
  release may come after its range was carved again; `on_corruption` has no caller.
- `cache_list.hpp`: a block merged into its predecessor keeps the flags of a block
  in use; nothing reads them through the chain, `aligned_free` above may.
- `arena.hpp:1363`: `freeze` leaves the space bit and the hint of a frozen sheet;
  `arena.hpp:2039`: `reset_page` leaves an index entry for a released sheet;
  `arena.hpp:929`: `launder` of at most 512 bytes allocates from the small tier but
  expands the precise one.
- `free_list.hpp:751`, `cache_list.hpp:468`: `tombstone` leaves a temporal block in its
  active slot, in both allocators, so `launder` after `retire` returns the retired
  block, and its sheet may be unmapped while it is held. The comment in
  `src/tests/rigor/abcmalloc_stress.cpp:611-613` asks for the contrary: "after retire,
  future alloc must not collide with the retired region until the underlying page is
  unmapped". The models do what the code does: the step is `BlockStore`'s `Again`
  of a dead block, `ImplementsStore` and `Kept` confine it to blocks that `launder`
  returned, and `LiveMapped` speaks of plain blocks. Blocks of `allocate` do keep the
  promise (`RetiredPlainStaysOut`, `RetiredPlainStaysGone`).
- The two-entry temporal ring never holds two blocks. A 32-bit build, whose free-run
  array is capped at 1024, forgets runs beyond that.

## 6. Not modelled

- `freeze` and `relinquish` (`reset_page`) of the arena, and the routing between
  tiers: `Tier` has one tier and its four main operations. `resize` is a `push`
  followed by a `pop` by the one user of the arena, both of which `Tier` has.
- `aligned_resize` and `aligned_launder`; the C++ wrappers that only forward; the
  overflow check of `calloc` and the argument checks of `posix_memalign`, which refuse
  a call before it reaches the allocator.
- The metadata tier, which hands out list nodes from a tier of the same kind, and
  the slab cache, which no tier instantiates.
- Redzones, scrubbing and canaries: byte contents that only abort the process.
- The predictor and the OOM probe: they choose how much to map; the models let any
  mapping fail instead.
- Inspection, statistics, printing, configuration: read-only or compile-time.
- Validation of corrupted links in the block allocators: the models start from sound
  memory and callers that free what they hold.
- Memory orders: the models are sequentially consistent; the acquire and release
  pairs of the code order the payload and its tag, which is what the models rely on.

## 7. Plan

1. `Tier`: `freeze`, `relinquish`; a composition of two tiers for the
   routing of `launder`; the metadata tier over `VaReserve`.
2. `DoctorLedger` together with `RemoteFree`, which has the same drain.
3. Proofs: the public API over the interface of `BlockStore` instead of one sheet of
   its own, so that it covers both kinds of sheet at once.
