--------------------------- MODULE MpscFreeQueue ---------------------------
(***************************************************************************)
(* __mpsc_free_queue<N> (mpsc_free.hpp): the bounded multi-producer,       *)
(* single-consumer ring through which threads return blocks to the arena   *)
(* that owns them.  Every shared access of push and pop is a step of its   *)
(* own; accesses to private data are folded into the next shared one.      *)
(*                                                                         *)
(* log and delivered are history variables: the accepted payloads in       *)
(* ticket order, and the payloads pop has returned.                        *)
(***************************************************************************)
EXTENDS Integers, Sequences

CONSTANTS
  Producers,    \* threads that free blocks of this arena
  Items,        \* __mpsc_free_payload values
  NoItem,       \* the content of a payload nobody has written yet
  Capacity,     \* N, the template parameter
  MaxTickets    \* bound: no push starts once this many tickets are taken

\* requires(N > 0 and (N & (N - 1)) == 0); "& __mask" is "% Capacity" there.
ASSUME CapacityAssumption == Capacity \in Nat \ {0}
ASSUME ItemsAssumption == NoItem \notin Items
ASSUME TicketsAssumption == MaxTickets \in Nat

VARIABLES
  seq, payload,        \* __cells[i].seq and __cells[i].payload
  tail, head,          \* __tail (shared) and __head (consumer's own)
  pc, myTail, item,    \* each push in progress: its place, `tail', its argument
  cpc, out,            \* pop in progress: its place and `out'
  log, delivered       \* history

cellVars == <<seq, payload, tail, head>>
pushVars == <<pc, myTail, item>>
popVars  == <<cpc, out>>
vars == <<seq, payload, tail, head, pc, myTail, item, cpc, out, log, delivered>>

Cells == 0 .. (Capacity - 1)
Idx(t) == t % Capacity

Init ==
  /\ seq = [c \in Cells |-> c]
  /\ payload = [c \in Cells |-> NoItem]
  /\ tail = 0 /\ head = 0
  /\ pc = [p \in Producers |-> "idle"]
  /\ myTail = [p \in Producers |-> 0]
  /\ item = [p \in Producers |-> NoItem]
  /\ cpc = "check" /\ out = NoItem
  /\ log = <<>> /\ delivered = <<>>

-----------------------------------------------------------------------------
(* push(p, sz) *)

At(p, from, to) == pc[p] = from /\ pc' = [pc EXCEPT ![p] = to]

\* Call: the first relaxed load of __tail.
PushBegin(p, it) ==
  /\ tail < MaxTickets
  /\ At(p, "idle", "seq")
  /\ item' = [item EXCEPT ![p] = it]
  /\ myTail' = [myTail EXCEPT ![p] = tail]
  /\ UNCHANGED <<seq, payload, tail, head, cpc, out, log, delivered>>

\* Mutants of PushReadSeq: the sign of the tag difference is confused; a full
\* ring is retried.
PushReadSeqSign(p) ==
  /\ \/ seq[Idx(myTail[p])] = myTail[p] /\ At(p, "seq", "cas")
     \/ seq[Idx(myTail[p])] > myTail[p] /\ At(p, "seq", "full")
     \/ seq[Idx(myTail[p])] < myTail[p] /\ At(p, "seq", "load")
  /\ UNCHANGED <<seq, payload, tail, head, myTail, item, cpc, out, log, delivered>>

PushReadSeqSpin(p) ==
  /\ \/ seq[Idx(myTail[p])] = myTail[p] /\ At(p, "seq", "cas")
     \/ seq[Idx(myTail[p])] # myTail[p] /\ At(p, "seq", "load")
  /\ UNCHANGED <<seq, payload, tail, head, myTail, item, cpc, out, log, delivered>>

\* Load the cell's tag: equal to the ticket, behind it, or ahead of it.
PushReadSeq(p) ==
  /\ \/ seq[Idx(myTail[p])] = myTail[p] /\ At(p, "seq", "cas")
     \/ seq[Idx(myTail[p])] < myTail[p] /\ At(p, "seq", "full")
     \/ seq[Idx(myTail[p])] > myTail[p] /\ At(p, "seq", "load")
  /\ UNCHANGED <<seq, payload, tail, head, myTail, item, cpc, out, log, delivered>>

\* compare_exchange_weak on __tail succeeds: the ticket is taken.
PushCas(p) ==
  /\ tail = myTail[p]
  /\ At(p, "cas", "write")
  /\ tail' = tail + 1
  /\ log' = Append(log, item[p])
  /\ UNCHANGED <<seq, payload, head, myTail, item, cpc, out, delivered>>

\* ... or fails, because __tail moved or spuriously.
PushCasFail(p) ==
  /\ At(p, "cas", "load")
  /\ UNCHANGED <<seq, payload, tail, head, myTail, item, cpc, out, log, delivered>>

\* The reload of __tail after a failed CAS or a tag from a later lap.
PushReload(p) ==
  /\ At(p, "load", "seq")
  /\ myTail' = [myTail EXCEPT ![p] = tail]
  /\ UNCHANGED <<seq, payload, tail, head, item, cpc, out, log, delivered>>

\* The two plain stores of the payload.
PushWrite(p) ==
  /\ At(p, "write", "publish")
  /\ payload' = [payload EXCEPT ![Idx(myTail[p])] = item[p]]
  /\ UNCHANGED <<seq, tail, head, myTail, item, cpc, out, log, delivered>>

\* Mutant of PushPublish: the tag is stored without the increment.
PushPublishOldTag(p) ==
  /\ At(p, "publish", "idle")
  /\ seq' = [seq EXCEPT ![Idx(myTail[p])] = myTail[p]]
  /\ UNCHANGED <<payload, tail, head, myTail, item, cpc, out, log, delivered>>

\* The release store of the tag; push returns true.
PushPublish(p) ==
  /\ At(p, "publish", "idle")
  /\ seq' = [seq EXCEPT ![Idx(myTail[p])] = myTail[p] + 1]
  /\ UNCHANGED <<payload, tail, head, myTail, item, cpc, out, log, delivered>>

\* push has returned false; the caller goes on without the ring.
PushGiveUp(p) ==
  /\ At(p, "full", "idle")
  /\ UNCHANGED <<seq, payload, tail, head, myTail, item, cpc, out, log, delivered>>

-----------------------------------------------------------------------------
(* pop(out), as drain calls it again and again *)

\* Mutant of PopCheck: __tail is consulted instead of the cell's tag.
PopCheckTail ==
  /\ cpc = "check"
  /\ head < tail
  /\ out' = payload[Idx(head)]
  /\ cpc' = "advance"
  /\ UNCHANGED <<seq, payload, tail, head, pc, myTail, item, log, delivered>>

\* The tag says the head cell is published: copy its payload out.
PopCheck ==
  /\ cpc = "check"
  /\ seq[Idx(head)] = head + 1
  /\ out' = payload[Idx(head)]
  /\ cpc' = "advance"
  /\ UNCHANGED <<seq, payload, tail, head, pc, myTail, item, log, delivered>>

\* Hand the cell to the next lap, step __head, return true.
PopAdvance ==
  /\ cpc = "advance"
  /\ seq' = [seq EXCEPT ![Idx(head)] = head + Capacity]
  /\ head' = head + 1
  /\ delivered' = Append(delivered, out)
  /\ cpc' = "check"
  /\ UNCHANGED <<payload, tail, pc, myTail, item, out, log>>

-----------------------------------------------------------------------------
PushStep(p) ==
  \/ PushReadSeq(p) \/ PushCas(p) \/ PushCasFail(p) \/ PushReload(p)
  \/ PushWrite(p) \/ PushPublish(p) \/ PushGiveUp(p)

Next ==
  \/ \E p \in Producers : PushStep(p) \/ \E it \in Items : PushBegin(p, it)
  \/ PopCheck \/ PopAdvance

Spec == Init /\ [][Next]_vars

(***************************************************************************)
(* Fairness.  A thread inside push keeps being scheduled, and a CAS that   *)
(* could succeed again and again does so at last; the owner keeps calling  *)
(* drain.  PushFairness alone leaves the owner free never to drain.        *)
(***************************************************************************)
PushFairness ==
  \A p \in Producers : /\ WF_vars(PushReadSeq(p) \/ PushReload(p) \/ PushWrite(p)
                                  \/ PushPublish(p) \/ PushGiveUp(p))
                       /\ WF_vars(PushCas(p) \/ PushCasFail(p))
                       /\ SF_vars(PushCas(p))
PopFairness == WF_vars(PopCheck \/ PopAdvance)

FairSpec == Spec /\ PushFairness

-----------------------------------------------------------------------------
Places == {"idle", "seq", "cas", "load", "write", "publish", "full"}

\* Every variable ranges over the values its C++ type and the protocol allow.
TypeOK ==
  /\ seq \in [Cells -> Nat]
  /\ payload \in [Cells -> Items \cup {NoItem}]
  /\ tail \in Nat /\ head \in Nat
  /\ pc \in [Producers -> Places]
  /\ myTail \in [Producers -> Nat]
  /\ item \in [Producers -> Items \cup {NoItem}]
  /\ \A p \in Producers : pc[p] # "idle" => item[p] \in Items
  /\ cpc \in {"check", "advance"}
  /\ out \in Items \cup {NoItem}
  /\ log \in Seq(Items)
  /\ delivered \in Seq(Items \cup {NoItem})

\* p holds ticket myTail[p] and has not published it.
Holds(p) == pc[p] \in {"write", "publish"}

Bounds == head <= tail /\ tail <= head + Capacity

\* A claimed cell still carries its ticket, and no two pushes hold one ticket.
Claims ==
  /\ \A p \in Producers : Holds(p) =>
       /\ head <= myTail[p] /\ myTail[p] < tail
       /\ seq[Idx(myTail[p])] = myTail[p]
       /\ log[myTail[p] + 1] = item[p]
       /\ pc[p] = "publish" => payload[Idx(myTail[p])] = item[p]
  /\ \A p, q \in Producers :
       Holds(p) /\ Holds(q) /\ myTail[p] = myTail[q] => p = q

\* Every ticket between head and tail is either published or being written.
Window ==
  \A t \in head .. (tail - 1) :
    \/ seq[Idx(t)] = t + 1 /\ payload[Idx(t)] = log[t + 1]
    \/ seq[Idx(t)] = t /\ \E p \in Producers : Holds(p) /\ myTail[p] = t

\* Every ticket of the coming lap finds its cell free.
FreeCells == \A t \in tail .. (head + Capacity - 1) : seq[Idx(t)] = t

\* A stale ticket is at most tail, and a tag that matched it never goes back.
Stale ==
  /\ \A p \in Producers : myTail[p] <= tail
  /\ \A p \in Producers : pc[p] = "cas" => seq[Idx(myTail[p])] >= myTail[p]

\* Each cell serves one ticket of the window head .. head + Capacity - 1.
Cover == \A c \in Cells : \E t \in head .. (head + Capacity - 1) : Idx(t) = c

History ==
  /\ Len(log) = tail /\ Len(delivered) = head
  /\ \A i \in 1 .. head : delivered[i] = log[i]
  /\ cpc = "advance" => /\ head < tail
                        /\ seq[Idx(head)] = head + 1
                        /\ out = log[head + 1]

(***************************************************************************)
(* The inductive invariant of push and pop: cell tags, tickets and the     *)
(* history fit together, so no payload is overwritten before pop copied it *)
(* (mpsc_free.hpp, push and pop).                                          *)
(***************************************************************************)
RingInv ==
  Bounds /\ Claims /\ Window /\ FreeCells /\ Stale /\ Cover /\ History

(***************************************************************************)
(* A push that has read a tag older than its ticket returns false; at that *)
(* moment every cell really is taken, although the ticket it compares with *)
(* may be long out of date (push, the `diff < 0' branch).                  *)
(***************************************************************************)
FullOnlyWhenFull ==
  [][\A p \in Producers : pc[p] = "seq" /\ pc'[p] = "full"
       => tail - head >= Capacity]_vars

\* The ring implements the ordered exactly-once hand-over of FreeOrder: what
\* drain receives is what the pushes stored, in ticket order, none twice.
Order == INSTANCE FreeOrder
ImplementsOrder == Order!Spec

(***************************************************************************)
(* A push finishes even if the owner never drains again ("never spin       *)
(* here", tapi.hpp:231): on a full ring it returns instead of waiting.     *)
(***************************************************************************)
PushReturns == \A p \in Producers : pc[p] # "idle" ~> pc[p] = "idle"

\* Every accepted free reaches the owner as long as the owner drains.
AllDelivered ==
  PopFairness => \A n \in 1 .. MaxTickets : Len(log) >= n ~> Len(delivered) >= n
=============================================================================
