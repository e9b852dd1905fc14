----------------------------- MODULE OorSheets -----------------------------
(***************************************************************************)
(* Sheets outside the reservation (sheet_header.hpp, __oor_sheet).  If the *)
(* reservation is exhausted a sheet comes from the system allocator, and   *)
(* its owner is kept on a lock-free, insert-only list whose nodes are      *)
(* re-used when the same range is mapped again.                            *)
(*                                                                         *)
(* nodes[k] is the k-th node ever pushed; the list runs from the newest to *)
(* nodes[1], so a walker's cursor is a node number that counts down.       *)
(* Names that VaReserve has too carry the prefix of the code, Oor, so that *)
(* SheetMappingProofs can extend both.                                     *)
(***************************************************************************)
EXTENDS Integers, Sequences, FiniteSets

CONSTANTS
  Arenas,
  Top,          \* bound: addresses outside the reservation are 0 .. Top - 1
  MaxNodes,     \* bound: nodes the system allocator is asked for
  NoArena       \* nullptr

ASSUME OorAssumption == /\ Top \in Nat \ {0} /\ MaxNodes \in Nat
                        /\ NoArena \notin Arenas /\ IsFiniteSet(Arenas)

VARIABLES
  nodes,        \* the list: [lo, hi, owner]
  live,         \* __oor_live
  mapped,       \* ranges the kernel has handed out: [owner, lo, hi]
  tracked,      \* ranges whose registration has finished and was not skipped
  place, cur,   \* each arena: place, cursor,
  mine          \*   the range it works on

oorVars == <<nodes, live, mapped, tracked, place, cur, mine>>

Ranges == {r \in [lo : 0 .. (Top - 1), hi : 1 .. Top] : r.lo < r.hi}
Addrs(r) == r.lo .. (r.hi - 1)

OorInit ==
  /\ nodes = <<>> /\ live = 0
  /\ mapped = {} /\ tracked = {}
  /\ place = [a \in Arenas |-> "idle"]
  /\ cur = [a \in Arenas |-> 0]
  /\ mine = [a \in Arenas |-> [lo |-> 0, hi |-> 1]]

OorGoto(a, from, to) == place[a] = from /\ place' = [place EXCEPT ![a] = to]

\* Mutant of Matches: the ends are not compared.
MatchesLow(a, k) == nodes[k].lo = mine[a].lo

\* Does node k describe exactly the range arena a works on?
Matches(a, k) == nodes[k].lo = mine[a].lo /\ nodes[k].hi = mine[a].hi

-----------------------------------------------------------------------------
\* sys_allocator::alloc (external): any range that overlaps no mapped one;
\* then __oor_insert starts at the head of the list.
Insert(a, r) ==
  /\ \A m \in mapped : Addrs(m) \cap Addrs(r) = {}
  /\ OorGoto(a, "idle", "scan")
  /\ mapped' = mapped \cup {[owner |-> a, lo |-> r.lo, hi |-> r.hi]}
  /\ mine' = [mine EXCEPT ![a] = r]
  /\ cur' = [cur EXCEPT ![a] = Len(nodes)]
  /\ UNCHANGED <<nodes, live, tracked>>

\* One node of the scan: claim a dead node of the same range, or go on.
InsertReuse(a) ==
  /\ cur[a] > 0 /\ Matches(a, cur[a]) /\ nodes[cur[a]].owner = NoArena
  /\ OorGoto(a, "scan", "count")
  /\ nodes' = [nodes EXCEPT ![cur[a]].owner = a]
  /\ UNCHANGED <<live, mapped, tracked, cur, mine>>

InsertSkip(a) ==
  /\ place[a] = "scan" /\ cur[a] > 0
  /\ ~(Matches(a, cur[a]) /\ nodes[cur[a]].owner = NoArena)
  /\ cur' = [cur EXCEPT ![a] = @ - 1]
  /\ UNCHANGED <<nodes, live, mapped, tracked, place, mine>>

\* No node to reuse: push a new one at the head (the CAS that succeeds).
InsertPush(a) ==
  /\ cur[a] = 0 /\ Len(nodes) < MaxNodes
  /\ OorGoto(a, "scan", "count")
  /\ nodes' = Append(nodes, [lo |-> mine[a].lo, hi |-> mine[a].hi, owner |-> a])
  /\ UNCHANGED <<live, mapped, tracked, cur, mine>>

\* No memory for a node: the sheet stays untracked.
InsertNoMemory(a) ==
  /\ cur[a] = 0
  /\ OorGoto(a, "scan", "idle")
  /\ UNCHANGED <<nodes, live, mapped, tracked, cur, mine>>

InsertCount(a) ==
  /\ OorGoto(a, "count", "idle")
  /\ live' = live + 1
  /\ tracked' = tracked \cup {[owner |-> a, lo |-> mine[a].lo, hi |-> mine[a].hi]}
  /\ UNCHANGED <<nodes, mapped, cur, mine>>

-----------------------------------------------------------------------------
\* Mutant of Retire: the list is not updated.
RetireNever(a, m) ==
  /\ m.owner = a
  /\ OorGoto(a, "idle", "unmap")
  /\ mine' = [mine EXCEPT ![a] = [lo |-> m.lo, hi |-> m.hi]]
  /\ tracked' = tracked \ {m}
  /\ UNCHANGED <<nodes, live, mapped, cur>>

\* __impl_release of such a sheet: __oor_retire, nothing to do if none is live.
Retire(a, m) ==
  /\ m.owner = a
  /\ OorGoto(a, "idle", IF live = 0 THEN "unmap" ELSE "find")
  /\ mine' = [mine EXCEPT ![a] = [lo |-> m.lo, hi |-> m.hi]]
  /\ cur' = [cur EXCEPT ![a] = Len(nodes)]
  /\ tracked' = tracked \ {m}
  /\ UNCHANGED <<nodes, live, mapped>>

\* The live node of this very range: clear its owner.
RetireClear(a) ==
  /\ cur[a] > 0 /\ Matches(a, cur[a]) /\ nodes[cur[a]].owner # NoArena
  /\ OorGoto(a, "find", "uncount")
  /\ nodes' = [nodes EXCEPT ![cur[a]].owner = NoArena]
  /\ UNCHANGED <<live, mapped, tracked, cur, mine>>

RetireSkip(a) ==
  /\ cur[a] > 0 /\ ~(Matches(a, cur[a]) /\ nodes[cur[a]].owner # NoArena)
  /\ place[a] = "find"
  /\ cur' = [cur EXCEPT ![a] = @ - 1]
  /\ UNCHANGED <<nodes, live, mapped, tracked, place, mine>>

RetireAbsent(a) ==
  /\ cur[a] = 0
  /\ OorGoto(a, "find", "unmap")
  /\ UNCHANGED <<nodes, live, mapped, tracked, cur, mine>>

RetireCount(a) ==
  /\ OorGoto(a, "uncount", "unmap")
  /\ live' = live - 1
  /\ UNCHANGED <<nodes, mapped, tracked, cur, mine>>

\* sys_allocator::dealloc (external): only now may the range be reused.
OorUnmap(a) ==
  /\ OorGoto(a, "unmap", "idle")
  /\ mapped' = mapped \ {[owner |-> a, lo |-> mine[a].lo, hi |-> mine[a].hi]}
  /\ UNCHANGED <<nodes, live, tracked, cur, mine>>

-----------------------------------------------------------------------------
OorStep(a) ==
  \/ InsertReuse(a) \/ InsertSkip(a) \/ InsertPush(a) \/ InsertNoMemory(a) \/ InsertCount(a)
  \/ RetireClear(a) \/ RetireSkip(a) \/ RetireAbsent(a) \/ RetireCount(a) \/ OorUnmap(a)

OorNext ==
  \E a \in Arenas :
    OorStep(a) \/ (\E r \in Ranges : Insert(a, r)) \/ (\E m \in mapped : Retire(a, m))

OorSpec == OorInit /\ [][OorNext]_oorVars

-----------------------------------------------------------------------------
\* __oor_owner_of: the owner in the first node, from the newest, that contains x.
OwnerOf(x) ==
  LET hits == {k \in DOMAIN nodes : x \in Addrs(nodes[k])}
  IN  IF live = 0 \/ hits = {} THEN NoArena
      ELSE nodes[CHOOSE k \in hits : \A j \in hits : j <= k].owner

\* Types of the list, the counter and the operations in progress.
OorTypeOK ==
  /\ nodes \in Seq([lo : 0 .. (Top - 1), hi : 1 .. Top, owner : Arenas \cup {NoArena}])
  /\ live \in 0 .. MaxNodes
  /\ tracked \subseteq mapped
  /\ place \in [Arenas -> {"idle", "scan", "count", "find", "uncount", "unmap"}]
  /\ cur \in [Arenas -> 0 .. MaxNodes]
  /\ mine \in [Arenas -> Ranges]

(***************************************************************************)
(* A lookup of an address in a tracked sheet never names a wrong arena: at *)
(* worst it finds nobody (__oor_owner_of; a free would otherwise be queued *)
(* on an arena that does not know the block).                              *)
(***************************************************************************)
NeverForeign ==
  \A s \in tracked : \A x \in Addrs(s) : OwnerOf(x) \in {s.owner, NoArena}

(***************************************************************************)
(* The empty probe is safe: live counts the nodes with an owner, apart     *)
(* from the operations between their list update and their counter update, *)
(* so it is positive while some tracked sheet exists.                      *)
(***************************************************************************)
LiveCount ==
  /\ live = Cardinality({k \in DOMAIN nodes : nodes[k].owner # NoArena})
            - Cardinality({a \in Arenas : place[a] = "count"})
            + Cardinality({a \in Arenas : place[a] = "uncount"})
  /\ tracked # {} => live > 0

(***************************************************************************)
(* Every tracked sheet is named by exactly one live node, whichever arenas *)
(* raced for dead nodes of the same range.                                 *)
(***************************************************************************)
OneLiveNode ==
  \A s \in tracked :
    Cardinality({k \in DOMAIN nodes : /\ nodes[k].lo = s.lo /\ nodes[k].hi = s.hi
                                      /\ nodes[k].owner = s.owner}) = 1

\* The list and its counter, under racing inserts and retires.
ListSound == OorTypeOK /\ LiveCount /\ OneLiveNode

(***************************************************************************)
(* What arena.hpp:2188 checks of every sheet in an index: each address of  *)
(* it is owned by its arena.  For sheets outside the reservation the list  *)
(* does not deliver this: a dead node of a different but overlapping range *)
(* hides the live one behind it.                                           *)
(***************************************************************************)
EveryAddressOwned ==
  \A s \in tracked : \A x \in Addrs(s) : OwnerOf(x) = s.owner
=============================================================================
