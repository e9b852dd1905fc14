----------------------------- MODULE RemoteFree -----------------------------
(***************************************************************************)
(* Cross-thread frees of one arena (arena.hpp, __remote_push,              *)
(* __remote_drain, __remote_release): the bounded ring of MpscFreeQueue,   *)
(* the unbounded overflow list whose nodes live inside the freed blocks,   *)
(* and the owner thread, which drains both whenever it touches its arena.  *)
(*                                                                         *)
(* Ownership of the arena does not change here; see ArenaPool.             *)
(***************************************************************************)
EXTENDS Integers, Sequences, FiniteSets

CONSTANTS
  Producers,    \* threads other than the owner
  Blocks,       \* blocks of this arena
  Sizes,        \* size arguments of frees; Tombstone is one of them
  Tombstone,    \* __remote_tombstone_size: the free is a retire()
  Capacity,     \* ring capacity (64 in the code)
  MaxFrees,     \* bound: frees started in one behaviour
  None,         \* nullptr
  Garbage       \* the bytes of a block its user or the free list wrote

ASSUME FreesAssumption == /\ Tombstone \in Sizes
                          /\ None \notin Blocks /\ Garbage \notin Blocks
                          /\ None \notin [ptr : Blocks, size : Sizes]
                          /\ IsFiniteSet(Blocks)
                          /\ Capacity \in Nat /\ Capacity >= 2
                          /\ MaxFrees \in Nat
                          /\ Producers \cap {"flight", "arena", "retired"} = {}

VARIABLES
  seq, payload, tail, head, pc, myTail, item, cpc, out, log, delivered,
                       \* the ring, see MpscFreeQueue
  ovf,                 \* __remote_ovf
  next, size,          \* the __remote_ovf_node inside each block
  myHead,              \* `head' of each overflow push in progress
  opc, nd,             \* the owner: where it is in __remote_drain, and `nd'
  holder, asked, got, answers, frees    \* block ownership and history

ringVars == <<seq, payload, tail, head, pc, myTail, item, cpc, out, log, delivered>>
ovfVars == <<ovf, next, size, myHead>>
blockVars == <<holder, asked, got, answers, frees>>
vars == <<ringVars, ovfVars, opc, nd, blockVars>>

Frees == [ptr : Blocks, size : Sizes]
Ring == INSTANCE MpscFreeQueue WITH Items <- Frees, NoItem <- None, MaxTickets <- MaxFrees

Init ==
  /\ Ring!Init
  /\ ovf = None
  /\ next = [b \in Blocks |-> Garbage] /\ size = [b \in Blocks |-> Garbage]
  /\ myHead = [p \in Producers |-> None]
  /\ opc = "idle" /\ nd = None
  /\ holder = [b \in Blocks |-> "arena"]
  /\ asked = [b \in Blocks |-> None] /\ got = [b \in Blocks |-> None]
  /\ answers = 0 /\ frees = 0

-----------------------------------------------------------------------------
(* __remote_push on a freeing thread *)

\* __route_dealloc / __route_retire found a foreign owner: push to its ring.
RemotePush(p, b, sz) ==
  /\ holder[b] = p /\ frees < MaxFrees
  /\ Ring!PushBegin(p, [ptr |-> b, size |-> sz])
  /\ holder' = [holder EXCEPT ![b] = "flight"]
  /\ asked' = [asked EXCEPT ![b] = sz]
  /\ got' = [got EXCEPT ![b] = None]
  /\ frees' = frees + 1
  /\ UNCHANGED <<ovfVars, opc, nd, answers>>

RingPush(p) ==
  /\ \/ Ring!PushReadSeq(p) \/ Ring!PushCas(p) \/ Ring!PushCasFail(p)
     \/ Ring!PushReload(p) \/ Ring!PushWrite(p) \/ Ring!PushPublish(p)
  /\ UNCHANGED <<ovfVars, opc, nd, blockVars>>

\* The ring was full: build the node inside the block, load the list head.
OvfLoad(p) ==
  /\ pc[p] = "full"
  /\ pc' = [pc EXCEPT ![p] = "link"]
  /\ size' = [size EXCEPT ![item[p].ptr] = item[p].size]
  /\ myHead' = [myHead EXCEPT ![p] = ovf]
  /\ UNCHANGED <<seq, payload, tail, head, myTail, item, cpc, out, log, delivered,
                 ovf, next, opc, nd, blockVars>>

\* nd->next = head, then the compare-exchange installs the node ...
OvfLink(p) ==
  /\ pc[p] = "link" /\ ovf = myHead[p]
  /\ next' = [next EXCEPT ![item[p].ptr] = myHead[p]]
  /\ ovf' = item[p].ptr
  /\ pc' = [pc EXCEPT ![p] = "idle"]
  /\ UNCHANGED <<seq, payload, tail, head, myTail, item, cpc, out, log, delivered,
                 size, myHead, opc, nd, blockVars>>

\* ... or fails, spuriously too, and refreshes the local head.
OvfRetry(p) ==
  /\ pc[p] = "link"
  /\ next' = [next EXCEPT ![item[p].ptr] = myHead[p]]
  /\ myHead' = [myHead EXCEPT ![p] = ovf]
  /\ UNCHANGED <<ringVars, ovf, size, opc, nd, blockVars>>

-----------------------------------------------------------------------------
(* The owner thread *)

\* Mutant of RemoteRelease: a retire is carried out as a free.
RemoteReleaseNoRetire(b, sz) ==
  /\ holder' = [holder EXCEPT ![b] = "arena"]
  /\ got' = [got EXCEPT ![b] = sz]
  /\ answers' = answers + 1
  /\ next' = [next EXCEPT ![b] = Garbage]
  /\ size' = [size EXCEPT ![b] = Garbage]
  /\ UNCHANGED <<asked, frees>>

(***************************************************************************)
(* __remote_release(p, sz): a tombstone request retires the block, every   *)
(* other frees it; either way the allocator now owns the block's bytes.    *)
(***************************************************************************)
RemoteRelease(b, sz) ==
  /\ holder' = [holder EXCEPT ![b] = IF sz = Tombstone THEN "retired" ELSE "arena"]
  /\ got' = [got EXCEPT ![b] = sz]
  /\ answers' = answers + 1
  /\ next' = [next EXCEPT ![b] = Garbage]
  /\ size' = [size EXCEPT ![b] = Garbage]
  /\ UNCHANGED <<asked, frees>>

\* Mutant of MaybeDrain: only the ring is looked at.
MaybeDrainRingOnly ==
  /\ opc = "idle"
  /\ tail # head
  /\ opc' = "ring"
  /\ UNCHANGED <<ringVars, ovfVars, nd, blockVars>>

\* __maybe_drain, on every entry of the owner into its arena.
MaybeDrain ==
  /\ opc = "idle"
  /\ tail # head \/ ovf # None
  /\ opc' = "ring"
  /\ UNCHANGED <<ringVars, ovfVars, nd, blockVars>>

DrainPop ==
  /\ opc = "ring"
  /\ \/ Ring!PopCheck /\ UNCHANGED opc
     \/ Ring!PopAdvance /\ opc' = "release"
  /\ UNCHANGED <<ovfVars, nd, blockVars>>

\* The callback of drain releases the payload pop returned.
DrainRelease ==
  /\ opc = "release" /\ opc' = "ring"
  /\ RemoteRelease(out.ptr, out.size)
  /\ UNCHANGED <<ringVars, ovf, myHead, nd>>

\* Mutant of DrainTake: the list head is read and not exchanged.
DrainTakeLoad ==
  /\ opc = "ring" /\ cpc = "check" /\ seq[Ring!Idx(head)] # head + 1
  /\ opc' = (IF ovf = None THEN "idle" ELSE "walk")
  /\ nd' = ovf
  /\ UNCHANGED <<ringVars, ovfVars, blockVars>>

\* pop returned false: look at the overflow list and take all of it.
DrainTake ==
  /\ opc = "ring" /\ cpc = "check" /\ seq[Ring!Idx(head)] # head + 1
  /\ opc' = (IF ovf = None THEN "idle" ELSE "walk")
  /\ nd' = ovf
  /\ ovf' = None
  /\ UNCHANGED <<ringVars, next, size, myHead, blockVars>>

\* One node: next and size are read out before the release reuses the bytes.
DrainWalk ==
  /\ opc = "walk" /\ nd # None
  /\ RemoteRelease(nd, size[nd])
  /\ nd' = next[nd]
  /\ UNCHANGED <<ringVars, ovf, myHead, opc>>

DrainEnd ==
  /\ opc = "walk" /\ nd = None /\ opc' = "idle"
  /\ UNCHANGED <<ringVars, ovfVars, nd, blockVars>>

\* The owner allocates a free block and passes it to thread p.
Alloc(p, b) ==
  /\ opc = "idle" /\ holder[b] = "arena"
  /\ holder' = [holder EXCEPT ![b] = p]
  /\ UNCHANGED <<ringVars, ovfVars, opc, nd, asked, got, answers, frees>>

-----------------------------------------------------------------------------
PushStep(p) == RingPush(p) \/ OvfLoad(p) \/ OvfLink(p) \/ OvfRetry(p)
DrainStep == DrainPop \/ DrainRelease \/ DrainTake \/ DrainWalk \/ DrainEnd

Next ==
  \/ \E p \in Producers :
       PushStep(p) \/ \E b \in Blocks : Alloc(p, b) \/ \E sz \in Sizes : RemotePush(p, b, sz)
  \/ MaybeDrain \/ DrainStep

Spec == Init /\ [][Next]_vars

(***************************************************************************)
(* Fairness: threads inside a free keep running and no compare-exchange    *)
(* fails for ever; the owner comes back to its arena again and again.      *)
(***************************************************************************)
FairSpec ==
  /\ Spec
  /\ \A p \in Producers : /\ WF_vars(PushStep(p))
                          /\ SF_vars(OvfLink(p))
                          /\ SF_vars(Ring!PushCas(p) /\ UNCHANGED <<ovfVars, opc, nd, blockVars>>)
  /\ WF_vars(MaybeDrain) /\ WF_vars(DrainStep)

-----------------------------------------------------------------------------
\* Types of the overflow list, the owner's position and the block ownership.
TypeOK ==
  /\ ovf \in Blocks \cup {None}
  /\ next \in [Blocks -> Blocks \cup {None, Garbage}]
  /\ size \in [Blocks -> Sizes \cup {Garbage}]
  /\ myHead \in [Producers -> Blocks \cup {None}]
  /\ opc \in {"idle", "ring", "release", "walk"}
  /\ nd \in Blocks \cup {None}
  /\ holder \in [Blocks -> Producers \cup {"flight", "arena", "retired"}]
  /\ asked \in [Blocks -> Sizes \cup {None}]
  /\ got \in [Blocks -> Sizes \cup {None}]
  /\ answers \in 0 .. MaxFrees /\ frees \in 0 .. MaxFrees

\* The blocks on the list that starts at x.
Chain(x) ==
  LET reach[n \in 0 .. Cardinality(Blocks)] ==
        IF n = 0 THEN {x} ELSE reach[n - 1] \cup {next[b] : b \in reach[n - 1] \cap Blocks}
  IN  reach[Cardinality(Blocks)] \cap Blocks

\* Where the free of block b is at this moment.
Places(b) ==
  {<<"push", p>> : p \in {q \in Producers : pc[q] # "idle" /\ item[q].ptr = b}}
  \cup {<<"cell", t>> : t \in {u \in head .. (tail - 1) :
                                 seq[Ring!Idx(u)] = u + 1 /\ payload[Ring!Idx(u)].ptr = b}}
  \cup {x \in {<<"popped", 0>>} : opc = "release" /\ out.ptr = b}
  \cup {x \in {<<"list", 0>>} : b \in Chain(ovf)}
  \cup {x \in {<<"walk", 0>>} : opc = "walk" /\ b \in Chain(nd)}

(***************************************************************************)
(* Between ring, overflow list, half-done pushes and the walk, a freed     *)
(* block is in exactly one place until it is released, and in none before  *)
(* or after (__remote_push, __remote_drain).                               *)
(***************************************************************************)
InOnePlace ==
  /\ TypeOK
  /\ \A b \in Blocks : Cardinality(Places(b)) = IF holder[b] = "flight" THEN 1 ELSE 0

\* Remote frees implement RemoteDelivery: one release per free, with the
\* size that was asked for, never of a block that somebody still holds.
Delivery == INSTANCE RemoteDelivery WITH Threads <- Producers
ImplementsDelivery == Delivery!Spec

(***************************************************************************)
(* Every block freed from another thread is released at last, although the *)
(* ring may be full and the free go to the overflow list.                  *)
(***************************************************************************)
EventuallyReleased ==
  \A b \in Blocks : holder[b] = "flight" ~> holder[b] # "flight"
=============================================================================
