----------------------------- MODULE ArenaPool -----------------------------
(***************************************************************************)
(* Which thread owns which arena (tapi.hpp): a thread claims an arena on   *)
(* its first allocation, returns it when it exits, and takes over arenas   *)
(* of threads that died without returning theirs.  Every access to a       *)
(* shared owner word, to the pool and to the overflow list is a step.      *)
(*                                                                         *)
(* Arenas 0 .. MaxArenas - 1 are the pool slots; MaxArenas + k is the      *)
(* arena of the k-th overflow node (k from 0), newest first on the list.   *)
(***************************************************************************)
EXTENDS Integers, FiniteSets

CONSTANTS
  Threads,      \* thread incarnations
  Initial,      \* the initial thread, whose tid is the pid
  Tid,          \* kernel thread id of each thread; ids may be reused
  MaxArenas,    \* __max_arenas (64)
  MaxNodes,     \* bound: overflow nodes created
  Fresh, Free,  \* owner words 0 and __arena_slot_free (-1)
  None          \* nullptr

Tids == {Tid[t] : t \in Threads}

ASSUME PoolAssumption == /\ Initial \in Threads
                         /\ MaxArenas \in Nat /\ MaxNodes \in Nat
                         /\ Fresh \notin Tids /\ Free \notin Tids /\ Fresh # Free
                         /\ None \notin Nat

VARIABLES
  life,         \* "unborn", "alive" or "dead"
  owner,        \* __arena_owner[i], and the owner word of each overflow node
  built,        \* slots with __arena_pool[i] # nullptr
  poolNext,     \* __arena_pool_next
  nodes,        \* overflow nodes pushed so far
  tls,          \* __tls_arena of each thread
  pc, i, lim, seen   \* each thread: place, loop index, loop limit, owner read

vars == <<life, owner, built, poolNext, nodes, tls, pc, i, lim, seen>>

Slots == 0 .. (MaxArenas - 1)
Arenas == 0 .. (MaxArenas + MaxNodes - 1)

Init ==
  /\ life = [t \in Threads |-> IF t = Initial THEN "alive" ELSE "unborn"]
  /\ owner = [a \in Arenas |-> Fresh]
  /\ built = {}
  /\ poolNext = 0 /\ nodes = 0
  /\ tls = [t \in Threads |-> None]
  /\ pc = [t \in Threads |-> "run"]
  /\ i = [t \in Threads |-> 0]
  /\ lim = [t \in Threads |-> 0]
  /\ seen = [t \in Threads |-> Fresh]

Goto(t, from, to) == life[t] = "alive" /\ pc[t] = from /\ pc' = [pc EXCEPT ![t] = to]

\* __owner_alive: the kernel knows a thread of this id.
OwnerAlive(id) == \E t \in Threads : life[t] = "alive" /\ Tid[t] = id

Limit == IF poolNext > MaxArenas THEN MaxArenas ELSE poolNext

-----------------------------------------------------------------------------
(* The environment: threads appear and die (external) *)

\* The kernel gives a new thread an id that no living thread has.
Spawn(t) ==
  /\ life[t] = "unborn" /\ ~OwnerAlive(Tid[t])
  /\ life' = [life EXCEPT ![t] = "alive"]
  /\ UNCHANGED <<owner, built, poolNext, nodes, tls, pc, i, lim, seen>>

\* A thread ends, with or without having run the exit hook, at any point.
Die(t) ==
  /\ life[t] = "alive" /\ t # Initial
  /\ life' = [life EXCEPT ![t] = "dead"]
  /\ UNCHANGED <<owner, built, poolNext, nodes, tls, pc, i, lim, seen>>

-----------------------------------------------------------------------------
(* __claim_arena_slow; index i[t] is the slot or node looked at *)

Claim(t) ==
  /\ tls[t] = None
  /\ Goto(t, "run", "free_slot")
  /\ i' = [i EXCEPT ![t] = 0] /\ lim' = [lim EXCEPT ![t] = Limit]
  /\ UNCHANGED <<life, owner, built, poolNext, nodes, tls, seen>>

\* First pass: compare-exchange a released slot.
TakeFreeSlot(t) ==
  /\ i[t] < lim[t] /\ owner[i[t]] = Free
  /\ Goto(t, "free_slot", "adopt")
  /\ owner' = [owner EXCEPT ![i[t]] = Tid[t]]
  /\ UNCHANGED <<life, built, poolNext, nodes, tls, i, lim, seen>>

SkipFreeSlot(t) ==
  /\ i[t] < lim[t] /\ owner[i[t]] # Free
  /\ Goto(t, "free_slot", "free_slot")
  /\ i' = [i EXCEPT ![t] = @ + 1]
  /\ UNCHANGED <<life, owner, built, poolNext, nodes, tls, lim, seen>>

EndFreeSlots(t) ==
  /\ i[t] >= lim[t]
  /\ Goto(t, "free_slot", "dead_slot")
  /\ i' = [i EXCEPT ![t] = 0] /\ lim' = [lim EXCEPT ![t] = Limit]
  /\ UNCHANGED <<life, owner, built, poolNext, nodes, tls, seen>>

\* Second pass: read the slot and its owner word, skip what is not a tid.
ReadSlot(t) ==
  /\ i[t] < lim[t]
  /\ seen' = [seen EXCEPT ![t] = owner[i[t]]]
  /\ IF i[t] \notin built \/ owner[i[t]] \in {Fresh, Free, Tid[t]}
     THEN Goto(t, "dead_slot", "dead_slot") /\ i' = [i EXCEPT ![t] = @ + 1]
     ELSE Goto(t, "dead_slot", "probe_slot") /\ UNCHANGED i
  /\ UNCHANGED <<life, owner, built, poolNext, nodes, tls, lim>>

\* tgkill(pid, owner, 0).
ProbeSlot(t) ==
  /\ IF OwnerAlive(seen[t])
     THEN Goto(t, "probe_slot", "dead_slot") /\ i' = [i EXCEPT ![t] = @ + 1]
     ELSE Goto(t, "probe_slot", "take_slot") /\ UNCHANGED i
  /\ UNCHANGED <<life, owner, built, poolNext, nodes, tls, lim, seen>>

\* Mutant of TakeDeadSlot: a store instead of a compare-exchange.
TakeDeadSlotBlind(t) ==
  /\ Goto(t, "take_slot", "adopt")
  /\ owner' = [owner EXCEPT ![i[t]] = Tid[t]]
  /\ UNCHANGED <<life, built, poolNext, nodes, tls, i, lim, seen>>

\* The compare-exchange from the owner word that was read.
TakeDeadSlot(t) ==
  /\ IF owner[i[t]] = seen[t]
     THEN /\ Goto(t, "take_slot", "adopt")
          /\ owner' = [owner EXCEPT ![i[t]] = Tid[t]]
          /\ UNCHANGED i
     ELSE /\ Goto(t, "take_slot", "dead_slot")
          /\ i' = [i EXCEPT ![t] = @ + 1]
          /\ UNCHANGED owner
  /\ UNCHANGED <<life, built, poolNext, nodes, tls, lim, seen>>

\* Third pass: load __arena_pool_next.
EndDeadSlots(t) ==
  /\ i[t] >= lim[t]
  /\ Goto(t, "dead_slot", "new_slot")
  /\ i' = [i EXCEPT ![t] = poolNext]
  /\ UNCHANGED <<life, owner, built, poolNext, nodes, tls, lim, seen>>

\* Mutant of TakeNewSlot: a failed exchange does not reload the counter.
TakeNewSlotNoReload(t) ==
  /\ i[t] < MaxArenas
  /\ IF poolNext = i[t]
     THEN Goto(t, "new_slot", "build") /\ poolNext' = poolNext + 1
     ELSE Goto(t, "new_slot", "new_slot") /\ UNCHANGED poolNext
  /\ UNCHANGED <<life, owner, built, nodes, tls, i, lim, seen>>

\* A new slot: bump the counter (a failed exchange reloads it) ...
TakeNewSlot(t) ==
  /\ i[t] < MaxArenas
  /\ IF poolNext = i[t]
     THEN Goto(t, "new_slot", "build") /\ poolNext' = poolNext + 1 /\ UNCHANGED i
     ELSE Goto(t, "new_slot", "new_slot") /\ i' = [i EXCEPT ![t] = poolNext] /\ UNCHANGED poolNext
  /\ UNCHANGED <<life, owner, built, nodes, tls, lim, seen>>

\* ... construct the arena and store the pool pointer ...
Build(t) ==
  /\ Goto(t, "build", "own")
  /\ built' = built \cup {i[t]}
  /\ UNCHANGED <<life, owner, poolNext, nodes, tls, i, lim, seen>>

\* ... store the owner word and return the arena.
Own(t) ==
  /\ Goto(t, "own", "run")
  /\ owner' = [owner EXCEPT ![i[t]] = Tid[t]]
  /\ tls' = [tls EXCEPT ![t] = i[t]]
  /\ UNCHANGED <<life, built, poolNext, nodes, i, lim, seen>>

\* Fourth pass: the overflow nodes, from the newest.
EndNewSlots(t) ==
  /\ i[t] >= MaxArenas
  /\ Goto(t, "new_slot", "node")
  /\ i' = [i EXCEPT ![t] = MaxArenas + nodes - 1]
  /\ UNCHANGED <<life, owner, built, poolNext, nodes, tls, lim, seen>>

\* The owner word: free at once, a foreign tid only after a probe.
ReadNode(t) ==
  /\ i[t] >= MaxArenas
  /\ seen' = [seen EXCEPT ![t] = owner[i[t]]]
  /\ CASE owner[i[t]] = Free -> Goto(t, "node", "take_node") /\ UNCHANGED i
       [] owner[i[t]] \in {Fresh, Tid[t]} -> Goto(t, "node", "node") /\ i' = [i EXCEPT ![t] = @ - 1]
       [] OTHER -> Goto(t, "node", "probe_node") /\ UNCHANGED i
  /\ UNCHANGED <<life, owner, built, poolNext, nodes, tls, lim>>

ProbeNode(t) ==
  /\ IF OwnerAlive(seen[t])
     THEN Goto(t, "probe_node", "node") /\ i' = [i EXCEPT ![t] = @ - 1]
     ELSE Goto(t, "probe_node", "take_node") /\ UNCHANGED i
  /\ UNCHANGED <<life, owner, built, poolNext, nodes, tls, lim, seen>>

\* Mutant of TakeNode: a store instead of a compare-exchange.
TakeNodeBlind(t) ==
  /\ Goto(t, "take_node", "adopt")
  /\ owner' = [owner EXCEPT ![i[t]] = Tid[t]]
  /\ UNCHANGED <<life, built, poolNext, nodes, tls, i, lim, seen>>

\* The compare-exchange on the word of an overflow node.
TakeNode(t) ==
  /\ IF owner[i[t]] = seen[t]
     THEN /\ Goto(t, "take_node", "adopt")
          /\ owner' = [owner EXCEPT ![i[t]] = Tid[t]]
          /\ UNCHANGED i
     ELSE /\ Goto(t, "take_node", "node")
          /\ i' = [i EXCEPT ![t] = @ - 1]
          /\ UNCHANGED owner
  /\ UNCHANGED <<life, built, poolNext, nodes, tls, lim, seen>>

\* Nothing to recycle: a new node, owned before it is pushed.
PushNode(t) ==
  /\ i[t] < MaxArenas /\ nodes < MaxNodes
  /\ Goto(t, "node", "run")
  /\ owner' = [owner EXCEPT ![MaxArenas + nodes] = Tid[t]]
  /\ nodes' = nodes + 1
  /\ tls' = [tls EXCEPT ![t] = MaxArenas + nodes]
  /\ UNCHANGED <<life, built, poolNext, i, lim, seen>>

\* An arena that had an owner is drained, then becomes the thread's.
Adopt(t) ==
  /\ Goto(t, "adopt", "run")
  /\ tls' = [tls EXCEPT ![t] = i[t]]
  /\ UNCHANGED <<life, owner, built, poolNext, nodes, i, lim, seen>>

-----------------------------------------------------------------------------
(* __release_tls_arena, from the exit hook and the thread_local destructor *)

\* The initial thread only drains, which changes nothing here.  Others look
\* at the owner word of their arena and drain it while it is theirs.
ReleaseArena(t) ==
  /\ tls[t] # None /\ t # Initial
  /\ Goto(t, "run", IF owner[tls[t]] = Tid[t] THEN "giveback" ELSE "forget")
  /\ UNCHANGED <<life, owner, built, poolNext, nodes, tls, i, lim, seen>>

GiveBack(t) ==
  /\ Goto(t, "giveback", "forget")
  /\ owner' = [owner EXCEPT ![tls[t]] = Free]
  /\ UNCHANGED <<life, built, poolNext, nodes, tls, i, lim, seen>>

\* The thread may allocate again and then claims anew.
Forget(t) ==
  /\ Goto(t, "forget", "run")
  /\ tls' = [tls EXCEPT ![t] = None]
  /\ UNCHANGED <<life, owner, built, poolNext, nodes, i, lim, seen>>

-----------------------------------------------------------------------------
Step(t) ==
  \/ TakeFreeSlot(t) \/ SkipFreeSlot(t) \/ EndFreeSlots(t)
  \/ ReadSlot(t) \/ ProbeSlot(t) \/ TakeDeadSlot(t) \/ EndDeadSlots(t)
  \/ TakeNewSlot(t) \/ Build(t) \/ Own(t) \/ EndNewSlots(t)
  \/ ReadNode(t) \/ ProbeNode(t) \/ TakeNode(t) \/ PushNode(t)
  \/ Adopt(t) \/ GiveBack(t) \/ Forget(t)

Next ==
  \E t \in Threads : Spawn(t) \/ Die(t) \/ Claim(t) \/ ReleaseArena(t) \/ Step(t)

Spec == Init /\ [][Next]_vars

\* One thread, any but the initial one, keeps running while it is inside the
\* allocator; the others may stop anywhere.
Runner == CHOOSE t \in Threads : t # Initial
FairSpec == Spec /\ WF_vars(Step(Runner))

-----------------------------------------------------------------------------
Places == {"run", "free_slot", "dead_slot", "probe_slot", "take_slot", "new_slot",
           "build", "own", "node", "probe_node", "take_node", "adopt",
           "giveback", "forget"}

\* Types of the pool, the owner words and every claim in progress.
TypeOK ==
  /\ life \in [Threads -> {"unborn", "alive", "dead"}]
  /\ owner \in [Arenas -> Tids \cup {Fresh, Free}]
  /\ built \subseteq Slots
  /\ poolNext \in 0 .. MaxArenas /\ nodes \in 0 .. MaxNodes
  /\ tls \in [Threads -> Arenas \cup {None}]
  /\ pc \in [Threads -> Places]
  /\ i \in [Threads -> Int] /\ lim \in [Threads -> Nat]
  /\ seen \in [Threads -> Tids \cup {Fresh, Free}]

\* Thread t works on arena a: it may drain it, allocate and free in it.
Uses(t, a) ==
  /\ life[t] = "alive"
  /\ \/ tls[t] = a /\ pc[t] # "forget"
     \/ i[t] = a /\ pc[t] \in {"adopt", "build", "own"}

(***************************************************************************)
(* No two threads work on one arena: the tiers take no lock and the remote *)
(* ring admits one consumer, so all of arena.hpp rests on this, however    *)
(* claims, exits, deaths and take-overs interleave.                        *)
(***************************************************************************)
SingleOwner ==
  \A t, u \in Threads : \A a \in Arenas : Uses(t, a) /\ Uses(u, a) => t = u

\* An arena that is taken over has been constructed: the first pass uses
\* __arena_pool[i] without a null test.
AdoptedIsBuilt ==
  \A t \in Threads : pc[t] = "adopt" /\ i[t] \in Slots => i[t] \in built

\* t is constructing a slot that has no owner word yet.
Building(t) == pc[t] \in {"build", "own"}

\* The owner word of an arena in use is the tid of its user.
OwnerWord ==
  \A t \in Threads : \A a \in Arenas :
    Uses(t, a) /\ ~Building(t) => owner[a] = Tid[t]

\* A slot under construction is below the counter, unowned, and one thread's.
Construction ==
  /\ \A t \in Threads : Building(t) => /\ i[t] \in Slots /\ i[t] < poolNext
                                       /\ owner[i[t]] = Fresh
                                       /\ pc[t] = "own" => i[t] \in built
  /\ \A t, u \in Threads : Building(t) /\ Building(u) /\ i[t] = i[u] => t = u

\* Arenas not handed out yet are unowned; owned slots are constructed.
Unused ==
  /\ \A a \in Slots : a >= poolNext => owner[a] = Fresh
  /\ \A a \in Arenas : a >= MaxArenas + nodes => owner[a] = Fresh
  /\ \A a \in Slots : owner[a] # Fresh => a \in built

\* A tid in an owner word or read from one belongs to a thread that has lived,
\* and one that was probed dead stays dead.
Evidence ==
  /\ \A u \in Threads : life[u] = "unborn" =>
       (\A a \in Arenas : owner[a] # Tid[u]) /\ (\A t \in Threads : seen[t] # Tid[u])
  /\ \A t, u \in Threads :
       pc[t] \in {"take_slot", "take_node"} /\ seen[t] = Tid[u] => life[u] = "dead"

\* Places fix what tls and the loop index can be.
Shape ==
  \A t \in Threads :
    /\ life[t] = "unborn" => pc[t] = "run" /\ tls[t] = None
    /\ pc[t] \notin {"run", "giveback", "forget"} => tls[t] = None
    /\ pc[t] \in {"giveback", "forget"} => tls[t] # None
    /\ pc[t] \in {"free_slot", "dead_slot"} => i[t] >= 0
    /\ pc[t] \in {"free_slot", "dead_slot", "probe_slot", "take_slot"} => lim[t] <= poolNext
    /\ pc[t] \in {"probe_slot", "take_slot"} =>
         i[t] \in Slots /\ i[t] < poolNext /\ seen[t] \notin {Fresh, Free}
    /\ pc[t] = "new_slot" => i[t] >= 0
    /\ pc[t] = "node" => i[t] < MaxArenas + nodes
    /\ pc[t] \in {"probe_node", "take_node"} =>
         i[t] >= MaxArenas /\ i[t] < MaxArenas + nodes /\ seen[t] # Fresh
    /\ pc[t] = "adopt" => /\ i[t] \in Slots => i[t] < poolNext
                          /\ i[t] >= 0 /\ i[t] < MaxArenas + nodes
                          /\ owner[i[t]] # Fresh

(***************************************************************************)
(* The inductive invariant behind single ownership: the owner word of an   *)
(* arena in use is its user's tid, slots under construction belong to one  *)
(* thread, and a tid read from an owner word and probed dead cannot come   *)
(* back (which is where distinct tids are needed; tapi.hpp:164-167).       *)
(***************************************************************************)
PoolInv == OwnerWord /\ Construction /\ Unused /\ Evidence /\ Shape

\* A claim ends with an arena even if every other thread stops half-way: no
\* loop of __claim_arena_slow waits for another thread.
ClaimReturns ==
  pc[Runner] = "free_slot" ~> tls[Runner] # None \/ life[Runner] = "dead"
=============================================================================
