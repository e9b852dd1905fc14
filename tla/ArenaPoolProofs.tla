-------------------------- MODULE ArenaPoolProofs --------------------------
(***************************************************************************)
(* Single ownership of arenas (tapi.hpp), for any number of threads, slots *)
(* and overflow nodes, provided that no two threads ever share a tid.      *)
(* Without that proviso the claim protocol is wrong: see ReusedTids in     *)
(* MCArenaPool.                                                            *)
(***************************************************************************)
EXTENDS ArenaPool, TLAPS

TidsDistinct == \A t, u \in Threads : Tid[t] = Tid[u] => t = u

IInv == TypeOK /\ PoolInv

\* Elementary facts about thread ids and arena numbers.
LEMMA Basics ==
  /\ \A t \in Threads : Tid[t] \in Tids /\ Tid[t] # Fresh /\ Tid[t] # Free
  /\ \A x \in Tids : \E u \in Threads : x = Tid[u]
  /\ Fresh # Free /\ None \notin Arenas /\ Slots \subseteq Arenas
  /\ MaxArenas \in Nat /\ MaxNodes \in Nat
  BY PoolAssumption DEF Tids, Slots, Arenas

\* The initial state: one thread, no arena.
LEMMA InitInv == Init => IInv
<1> SUFFICES ASSUME Init
             PROVE  IInv
  OBVIOUS
<1>1. TypeOK
  BY Basics, PoolAssumption DEF Init, TypeOK, Places
<1>2. PoolInv
  BY Basics, PoolAssumption
  DEF Init, PoolInv, OwnerWord, Construction, Unused, Evidence, Shape, Uses, Building
<1> QED
  BY <1>1, <1>2 DEF IInv

ClaimPlaces == {"free_slot", "dead_slot", "probe_slot", "take_slot", "new_slot",
                "node", "probe_node", "take_node"}

\* A step of a claim that only moves the claimer's own place, index, limit
\* and last read word, and leaves them fitting the new place.
Local(t) ==
  /\ life[t] = "alive" /\ tls[t] = None /\ pc[t] \in ClaimPlaces \cup {"run"}
  /\ UNCHANGED <<life, owner, built, poolNext, nodes, tls>>
  /\ pc' = [pc EXCEPT ![t] = pc'[t]] /\ pc'[t] \in ClaimPlaces
  /\ i' = [i EXCEPT ![t] = i'[t]] /\ i'[t] \in Int
  /\ lim' = [lim EXCEPT ![t] = lim'[t]] /\ lim'[t] \in Nat
  /\ seen' = [seen EXCEPT ![t] = seen'[t]] /\ seen'[t] \in Tids \cup {Fresh, Free}
  /\ pc'[t] \in {"free_slot", "dead_slot"} => i'[t] >= 0
  /\ pc'[t] \in {"free_slot", "dead_slot", "probe_slot", "take_slot"} => lim'[t] <= poolNext
  /\ pc'[t] \in {"probe_slot", "take_slot"} =>
       i'[t] \in Slots /\ i'[t] < poolNext /\ seen'[t] \notin {Fresh, Free}
  /\ pc'[t] = "new_slot" => i'[t] >= 0
  /\ pc'[t] = "node" => i'[t] < MaxArenas + nodes
  /\ pc'[t] \in {"probe_node", "take_node"} =>
       i'[t] >= MaxArenas /\ i'[t] < MaxArenas + nodes /\ seen'[t] # Fresh
  /\ \A u \in Threads : life[u] = "unborn" => seen'[t] # Tid[u]
  /\ \A u \in Threads :
       pc'[t] \in {"take_slot", "take_node"} /\ seen'[t] = Tid[u] => life[u] = "dead"

\* Such a step keeps the invariant.
LEMMA LocalStep ==
  ASSUME IInv, NEW t \in Threads, Local(t)
  PROVE  IInv'
<1> USE DEF IInv, Local
<1>0. TypeOK /\ Shape
  BY DEF PoolInv
<1>1. TypeOK'
  BY DEF TypeOK, Places, ClaimPlaces
<1>2. \A u \in Threads : Building(u)' <=> Building(u)
  BY DEF Building, ClaimPlaces, TypeOK
<1>3. \A u \in Threads, a \in Arenas : Uses(u, a)' <=> Uses(u, a)
  BY Basics DEF Uses, ClaimPlaces, TypeOK
<1>4. OwnerWord'
  BY <1>2, <1>3 DEF PoolInv, OwnerWord
<1>5. Construction'
  <2>1. \A u \in Threads : Building(u) => u # t /\ i'[u] = i[u] /\ pc'[u] = pc[u]
    BY DEF Building, ClaimPlaces, TypeOK
  <2> QED
    BY <1>2, <2>1 DEF PoolInv, Construction
<1>6. Unused'
  BY DEF PoolInv, Unused
<1>7. Evidence'
  BY DEF PoolInv, Evidence, TypeOK
<1>8. Shape'
  <2> SUFFICES ASSUME NEW u \in Threads
               PROVE  Shape!(u)'
    BY DEF Shape
  <2>1. CASE u = t
    BY <2>1 DEF TypeOK, ClaimPlaces
  <2>2. CASE u # t
    <3>1. pc'[u] = pc[u] /\ i'[u] = i[u] /\ lim'[u] = lim[u] /\ seen'[u] = seen[u]
      BY <2>2 DEF TypeOK
    <3> QED
      BY <3>1 DEF PoolInv, Shape
  <2> QED
    BY <2>1, <2>2
<1> QED
  BY <1>1, <1>4, <1>5, <1>6, <1>7, <1>8 DEF PoolInv

\* The steps of a claim that change no shared word, and the compare-exchanges
\* that fail.
LEMMA SearchPreserves ==
  ASSUME IInv, NEW t \in Threads,
         \/ Claim(t) \/ SkipFreeSlot(t) \/ EndFreeSlots(t) \/ ReadSlot(t)
         \/ ProbeSlot(t) \/ EndDeadSlots(t) \/ EndNewSlots(t)
         \/ ReadNode(t) \/ ProbeNode(t)
         \/ TakeDeadSlot(t) /\ owner[i[t]] # seen[t]
         \/ TakeNewSlot(t) /\ poolNext # i[t]
         \/ TakeNode(t) /\ owner[i[t]] # seen[t]
  PROVE  IInv'
<1> SUFFICES Local(t)
  BY LocalStep
<1> USE DEF Goto, ClaimPlaces
<1>a. TypeOK /\ Shape!(t) /\ Basics!:
  BY Basics DEF IInv, PoolInv, Shape
<1>b. Limit \in Nat /\ Limit <= poolNext /\ Limit <= MaxArenas
  BY <1>a DEF TypeOK, Limit
<1>c. \A u \in Threads : life[u] = "unborn" =>
        (\A a \in Arenas : owner[a] # Tid[u]) /\ seen[t] # Tid[u]
  BY DEF IInv, PoolInv, Evidence
<1>d. \A u \in Threads : Tid[u] = seen[t] /\ ~OwnerAlive(seen[t]) => life[u] = "dead"
  BY <1>a, <1>c DEF OwnerAlive, TypeOK
<1>1. CASE Claim(t)
  BY <1>1, <1>a, <1>b, <1>c DEF Claim, TypeOK, Local
<1>2. CASE SkipFreeSlot(t)
  BY <1>2, <1>a, <1>c DEF SkipFreeSlot, TypeOK, Local
<1>3. CASE EndFreeSlots(t)
  BY <1>3, <1>a, <1>b, <1>c DEF EndFreeSlots, TypeOK, Local
<1>4. CASE ReadSlot(t)
  <2>1. i[t] \in Slots /\ i[t] < poolNext /\ i[t] \in Arenas
    BY <1>4, <1>a DEF ReadSlot, TypeOK, Slots
  <2>2. CASE i[t] \notin built \/ owner[i[t]] \in {Fresh, Free, Tid[t]}
    BY <1>4, <1>a, <1>c, <2>1, <2>2 DEF ReadSlot, TypeOK, Local, Slots
  <2>3. CASE ~(i[t] \notin built \/ owner[i[t]] \in {Fresh, Free, Tid[t]})
    BY <1>4, <1>a, <1>c, <2>1, <2>3 DEF ReadSlot, TypeOK, Local, Slots
  <2> QED
    BY <2>2, <2>3
<1>5. CASE ProbeSlot(t)
  <2>1. CASE OwnerAlive(seen[t])
    BY <1>5, <1>a, <1>c, <2>1 DEF ProbeSlot, TypeOK, Local, Slots
  <2>2. CASE ~OwnerAlive(seen[t])
    BY <1>5, <1>a, <1>c, <1>d, <2>2 DEF ProbeSlot, TypeOK, Local, Slots
  <2> QED
    BY <2>1, <2>2
<1>6. CASE EndDeadSlots(t)
  BY <1>6, <1>a, <1>c DEF EndDeadSlots, TypeOK, Local
<1>7. CASE EndNewSlots(t)
  BY <1>7, <1>a, <1>c DEF EndNewSlots, TypeOK, Local
<1>8. CASE ReadNode(t)
  <2>1. i[t] \in Arenas /\ i[t] >= MaxArenas /\ i[t] < MaxArenas + nodes
    BY <1>8, <1>a DEF ReadNode, TypeOK, Arenas
  <2>2. CASE owner[i[t]] = Free
    BY <1>8, <1>a, <1>c, <2>1, <2>2 DEF ReadNode, TypeOK, Local
  <2>3. CASE owner[i[t]] \in {Fresh, Tid[t]}
    BY <1>8, <1>a, <1>c, <2>1, <2>3 DEF ReadNode, TypeOK, Local
  <2>4. CASE owner[i[t]] \notin {Free, Fresh, Tid[t]}
    BY <1>8, <1>a, <1>c, <2>1, <2>4 DEF ReadNode, TypeOK, Local
  <2> QED
    BY <2>2, <2>3, <2>4
<1>9. CASE ProbeNode(t)
  <2>1. CASE OwnerAlive(seen[t])
    BY <1>9, <1>a, <1>c, <2>1 DEF ProbeNode, TypeOK, Local
  <2>2. CASE ~OwnerAlive(seen[t])
    BY <1>9, <1>a, <1>c, <1>d, <2>2 DEF ProbeNode, TypeOK, Local
  <2> QED
    BY <2>1, <2>2
<1>10. CASE TakeDeadSlot(t) /\ owner[i[t]] # seen[t]
  BY <1>10, <1>a, <1>c DEF TakeDeadSlot, TypeOK, Local, Slots
<1>11. CASE TakeNewSlot(t) /\ poolNext # i[t]
  BY <1>11, <1>a, <1>c DEF TakeNewSlot, TypeOK, Local
<1>12. CASE TakeNode(t) /\ owner[i[t]] # seen[t]
  BY <1>12, <1>a, <1>c DEF TakeNode, TypeOK, Local
<1> QED
  BY <1>1, <1>2, <1>3, <1>4, <1>5, <1>6, <1>7, <1>8, <1>9, <1>10, <1>11, <1>12

\* Single ownership follows from the invariant when tids are distinct.
LEMMA Exclusive ==
  ASSUME TidsDistinct, IInv
  PROVE  SingleOwner
<1> SUFFICES ASSUME NEW t \in Threads, NEW u \in Threads, NEW a \in Arenas,
                    Uses(t, a), Uses(u, a)
             PROVE  t = u
  BY DEF SingleOwner
<1>1. \A v \in Threads : Building(v) /\ Uses(v, a) => a = i[v] /\ owner[a] = Fresh
  BY Basics DEF IInv, PoolInv, Shape, Construction, Building, Uses
<1>2. \A v \in Threads : ~Building(v) /\ Uses(v, a) => owner[a] = Tid[v]
  BY DEF IInv, PoolInv, OwnerWord
<1>3. CASE Building(t) /\ Building(u)
  BY <1>1, <1>3 DEF IInv, PoolInv, Construction
<1>4. CASE ~Building(t) /\ ~Building(u)
  BY <1>2, <1>4 DEF TidsDistinct
<1>5. CASE Building(t) /\ ~Building(u)
  BY <1>1, <1>2, <1>5, Basics
<1>6. CASE ~Building(t) /\ Building(u)
  BY <1>1, <1>2, <1>6, Basics
<1> QED
  BY <1>3, <1>4, <1>5, <1>6

\* A compare-exchange that takes over arena i[t], whose owner word was free
\* or a dead thread's tid.
Taking(t) ==
  /\ life[t] = "alive" /\ tls[t] = None
  /\ pc[t] \in {"free_slot", "take_slot", "take_node"}
  /\ i[t] \in Arenas /\ (i[t] \in Slots => i[t] < poolNext) /\ i[t] < MaxArenas + nodes
  /\ owner[i[t]] # Fresh
  /\ \A u \in Threads : owner[i[t]] = Tid[u] => life[u] = "dead"
  /\ owner' = [owner EXCEPT ![i[t]] = Tid[t]]
  /\ pc' = [pc EXCEPT ![t] = "adopt"]
  /\ UNCHANGED <<life, built, poolNext, nodes, tls, i, lim, seen>>

\* It keeps the invariant.
LEMMA TakeStep ==
  ASSUME TidsDistinct, IInv, NEW t \in Threads, Taking(t)
  PROVE  IInv'
<1> USE DEF Taking
<1>a. TypeOK /\ PoolInv
  BY DEF IInv
<1>b. pc'[t] = "adopt" /\ \A u \in Threads : u # t => pc'[u] = pc[u]
  BY <1>a DEF TypeOK
<1>c. \A a \in Arenas : owner'[a] = IF a = i[t] THEN Tid[t] ELSE owner[a]
  BY <1>a DEF TypeOK
<1>d. \A u \in Threads : Building(u)' => Building(u) /\ u # t
  BY <1>b DEF Building
<1>1. TypeOK'
  BY <1>a, Basics DEF TypeOK, Places
<1>2. OwnerWord'
  <2> SUFFICES ASSUME NEW u \in Threads, NEW a \in Arenas, Uses(u, a)', ~Building(u)'
               PROVE  owner'[a] = Tid[u]
    BY DEF OwnerWord
  <2>1. CASE u = t
    BY <1>b, <1>c, <2>1, Basics DEF Uses
  <2>2. CASE u # t
    <3>1. Uses(u, a) /\ ~Building(u) /\ life[u] = "alive"
      BY <1>b, <2>2 DEF Uses, Building
    <3>2. owner[a] = Tid[u]
      BY <1>a, <3>1 DEF PoolInv, OwnerWord
    <3> QED
      BY <1>c, <3>1, <3>2
  <2> QED
    BY <2>1, <2>2
<1>3. Construction'
  <2>1. \A u \in Threads : Building(u) => i[u] \in Slots /\ i[u] < poolNext
             /\ owner[i[u]] = Fresh /\ (pc[u] = "own" => i[u] \in built)
    BY <1>a DEF PoolInv, Construction
  <2>2. \A u, v \in Threads : Building(u) /\ Building(v) /\ i[u] = i[v] => u = v
    BY <1>a DEF PoolInv, Construction
  <2> QED
    BY <1>b, <1>c, <1>d, <2>1, <2>2, Basics DEF Construction
<1>4. Unused'
  BY <1>a, <1>c, Basics DEF PoolInv, Unused, TypeOK, Arenas, Slots
<1>5. Evidence'
  <2>1. \A u \in Threads : life[u] = "unborn" => Tid[u] # Tid[t]
    BY DEF TidsDistinct
  <2> QED
    BY <1>a, <1>b, <1>c, <2>1 DEF PoolInv, Evidence
<1>6. Shape'
  <2> SUFFICES ASSUME NEW u \in Threads
               PROVE  Shape!(u)'
    BY DEF Shape
  <2>1. CASE u = t
    BY <1>b, <1>c, <2>1, Basics DEF Arenas
  <2>2. CASE u # t
    <3>1. Shape!(u)
      BY <1>a DEF PoolInv, Shape
    <3>2. pc'[u] = "adopt" => i[u] \in Arenas
      BY <1>a, <1>b, <2>2, <3>1, Basics DEF Arenas, TypeOK
    <3> QED
      BY <1>b, <1>c, <2>2, <3>1, <3>2, Basics
  <2> QED
    BY <2>1, <2>2
<1> QED
  BY <1>1, <1>2, <1>3, <1>4, <1>5, <1>6 DEF IInv, PoolInv

\* Taking a released slot, a dead thread's slot, or an overflow node.
LEMMA TakePreserves ==
  ASSUME TidsDistinct, IInv, NEW t \in Threads,
         \/ TakeFreeSlot(t)
         \/ TakeDeadSlot(t) /\ owner[i[t]] = seen[t]
         \/ TakeNode(t) /\ owner[i[t]] = seen[t]
  PROVE  IInv'
<1> SUFFICES Taking(t)
  BY TakeStep
<1>a. TypeOK /\ Shape!(t) /\ Basics!:
  BY Basics DEF IInv, PoolInv, Shape
<1>b. \A u \in Threads : pc[t] \in {"take_slot", "take_node"} /\ seen[t] = Tid[u]
                          => life[u] = "dead"
  BY DEF IInv, PoolInv, Evidence
<1> USE DEF Goto, Taking, Slots, Arenas, TypeOK
<1>1. CASE TakeFreeSlot(t)
  BY <1>1, <1>a DEF TakeFreeSlot
<1>2. CASE TakeDeadSlot(t) /\ owner[i[t]] = seen[t]
  BY <1>2, <1>a, <1>b DEF TakeDeadSlot
<1>3. CASE TakeNode(t) /\ owner[i[t]] = seen[t]
  BY <1>3, <1>a, <1>b DEF TakeNode
<1> QED
  BY <1>1, <1>2, <1>3

\* Threads appear and die.
LEMMA LifePreserves ==
  ASSUME TidsDistinct, IInv, NEW t \in Threads, Spawn(t) \/ Die(t)
  PROVE  IInv'
<1>a. TypeOK /\ PoolInv
  BY DEF IInv
<1>b. /\ UNCHANGED <<owner, built, poolNext, nodes, tls, pc, i, lim, seen>>
      /\ \A u \in Threads : u # t => life'[u] = life[u]
      /\ \/ life[t] = "unborn" /\ life'[t] = "alive"
         \/ life[t] = "alive" /\ life'[t] = "dead"
  BY <1>a DEF Spawn, Die, TypeOK
<1>1. TypeOK'
  BY <1>a DEF TypeOK, Spawn, Die
<1>2. \A u \in Threads, a \in Arenas : Uses(u, a)' => Uses(u, a)
  BY <1>a, <1>b, Basics DEF Uses, PoolInv, Shape
<1>3. OwnerWord'
  BY <1>a, <1>b, <1>2 DEF PoolInv, OwnerWord, Building
<1>4. Construction' /\ Unused'
  BY <1>a, <1>b DEF PoolInv, Construction, Unused, Building
<1>5. Evidence'
  BY <1>a, <1>b DEF PoolInv, Evidence
<1>6. Shape'
  BY <1>a, <1>b DEF PoolInv, Shape
<1> QED
  BY <1>1, <1>3, <1>4, <1>5, <1>6 DEF IInv, PoolInv

\* A new slot: the counter, the construction, the owner word.
LEMMA BuildPreserves ==
  ASSUME TidsDistinct, IInv, NEW t \in Threads,
         \/ TakeNewSlot(t) /\ poolNext = i[t]
         \/ Build(t)
         \/ Own(t)
  PROVE  IInv'
<1>a. TypeOK /\ PoolInv
  BY DEF IInv
<1>b. Shape!(t) /\ tls[t] = None /\ life[t] = "alive"
  BY <1>a DEF PoolInv, Shape, TakeNewSlot, Build, Own, Goto
<1> USE DEF Goto
<1>1. CASE TakeNewSlot(t) /\ poolNext = i[t]
  <2>1. /\ i[t] \in Slots /\ poolNext' = i[t] + 1 /\ owner[i[t]] = Fresh
        /\ pc'[t] = "build" /\ \A u \in Threads : u # t => pc'[u] = pc[u]
        /\ UNCHANGED <<life, owner, built, nodes, tls, i, lim, seen>>
    BY <1>a, <1>b, <1>1, Basics DEF TakeNewSlot, TypeOK, PoolInv, Unused, Slots
  <2>2. TypeOK'
    BY <1>a, <1>1, <2>1, Basics DEF TypeOK, Slots, Places, TakeNewSlot
  <2>3. OwnerWord'
    BY <1>a, <1>b, <2>1, Basics DEF PoolInv, OwnerWord, Uses, Building
  <2>4. Construction'
    BY <1>a, <1>1, <2>1, Basics DEF PoolInv, Construction, Building, Slots, TypeOK
  <2>5. Unused' /\ Evidence'
    BY <1>a, <1>1, <2>1, Basics DEF PoolInv, Unused, Evidence, TypeOK, Slots
  <2>6. Shape'
    BY <1>a, <1>b, <1>1, <2>1, Basics DEF PoolInv, Shape, TypeOK, Slots
  <2> QED
    BY <2>2, <2>3, <2>4, <2>5, <2>6 DEF IInv, PoolInv
<1>2. CASE Build(t)
  <2>1. /\ i[t] \in Slots /\ built' = built \cup {i[t]}
        /\ pc[t] = "build"
        /\ pc'[t] = "own" /\ \A u \in Threads : u # t => pc'[u] = pc[u]
        /\ UNCHANGED <<life, owner, poolNext, nodes, tls, i, lim, seen>>
    BY <1>a, <1>2 DEF Build, TypeOK, PoolInv, Construction, Building
  <2>2. TypeOK'
    BY <1>a, <1>2, <2>1 DEF TypeOK, Places, Build
  <2>3. OwnerWord'
    BY <1>a, <1>b, <2>1, Basics DEF PoolInv, OwnerWord, Uses, Building
  <2>4. Construction'
    BY <1>a, <2>1 DEF PoolInv, Construction, Building
  <2>5. Unused' /\ Evidence'
    BY <1>a, <2>1 DEF PoolInv, Unused, Evidence
  <2>6. Shape'
    BY <1>a, <1>b, <2>1 DEF PoolInv, Shape
  <2> QED
    BY <2>2, <2>3, <2>4, <2>5, <2>6 DEF IInv, PoolInv
<1>3. CASE Own(t)
  <2>1. /\ i[t] \in Slots /\ i[t] \in Arenas /\ i[t] < poolNext /\ i[t] \in built
        /\ pc[t] = "own" /\ owner[i[t]] = Fresh /\ Building(t)
    BY <1>a, <1>3, Basics DEF Own, TypeOK, PoolInv, Construction, Building
  <2>2. /\ \A a \in Arenas : owner'[a] = IF a = i[t] THEN Tid[t] ELSE owner[a]
        /\ tls'[t] = i[t] /\ \A u \in Threads : u # t => tls'[u] = tls[u]
        /\ pc'[t] = "run" /\ \A u \in Threads : u # t => pc'[u] = pc[u]
        /\ UNCHANGED <<life, built, poolNext, nodes, i, lim, seen>>
    BY <1>a, <1>3, <2>1 DEF Own, TypeOK
  <2>3. TypeOK'
    BY <1>a, <1>3, <2>1, Basics DEF TypeOK, Places, Own
  <2>4. OwnerWord'
    <3>1. \A a \in Arenas : Uses(t, a)' => a = i[t]
      BY <2>2 DEF Uses
    <3>2. \A u \in Threads : \A a \in Arenas :
             u # t /\ Uses(u, a)' /\ ~Building(u)' => owner[a] = Tid[u]
      BY <1>a, <2>2 DEF PoolInv, OwnerWord, Uses, Building
    <3> QED
      BY <2>1, <2>2, <3>1, <3>2, Basics DEF OwnerWord
  <2>5. Construction'
    <3>1. \A u \in Threads : Building(u)' => Building(u) /\ u # t
      BY <2>2 DEF Building
    <3>2. \A u \in Threads : Building(u)' => i[u] # i[t] /\ i[u] \in Arenas
      BY <1>a, <2>1, <3>1, Basics DEF PoolInv, Construction
    <3> QED
      BY <1>a, <2>2, <3>1, <3>2 DEF PoolInv, Construction
  <2>6. Unused'
    BY <1>a, <2>1, <2>2, Basics DEF PoolInv, Unused, TypeOK, Slots
  <2>7. Evidence'
    <3>1. \A u \in Threads : life[u] = "unborn" => Tid[u] # Tid[t]
      BY <1>b DEF TidsDistinct
    <3> QED
      BY <1>a, <2>2, <3>1 DEF PoolInv, Evidence
  <2>8. Shape'
    <3> SUFFICES ASSUME NEW u \in Threads
                 PROVE  Shape!(u)'
      BY DEF Shape
    <3>1. CASE u = t
      BY <1>b, <2>1, <2>2, <3>1, Basics
    <3>2. CASE u # t
      <4>1. Shape!(u)
        BY <1>a DEF PoolInv, Shape
      <4>2. pc[u] = "adopt" => i[u] \in Arenas
        BY <1>a, <4>1, Basics DEF TypeOK, Arenas
      <4> QED
        BY <2>2, <3>2, <4>1, <4>2, Basics
    <3> QED
      BY <3>1, <3>2
  <2> QED
    BY <2>3, <2>4, <2>5, <2>6, <2>7, <2>8 DEF IInv, PoolInv
<1> QED
  BY <1>1, <1>2, <1>3

\* A new overflow node.
LEMMA PushPreserves ==
  ASSUME TidsDistinct, IInv, NEW t \in Threads, PushNode(t)
  PROVE  IInv'
<1> DEFINE a0 == MaxArenas + nodes
<1>a. TypeOK /\ PoolInv
  BY DEF IInv
<1>b. Shape!(t) /\ tls[t] = None /\ life[t] = "alive" /\ pc[t] = "node"
  BY <1>a DEF PoolInv, Shape, PushNode, Goto
<1>1. a0 \in Arenas /\ a0 \notin Slots /\ owner[a0] = Fresh
  BY <1>a, Basics DEF PushNode, PoolInv, Unused, TypeOK, Arenas, Slots
<1>2. /\ \A a \in Arenas : owner'[a] = IF a = a0 THEN Tid[t] ELSE owner[a]
      /\ tls'[t] = a0 /\ \A u \in Threads : u # t => tls'[u] = tls[u]
      /\ pc'[t] = "run" /\ \A u \in Threads : u # t => pc'[u] = pc[u]
      /\ nodes' = nodes + 1
      /\ UNCHANGED <<life, built, poolNext, i, lim, seen>>
  BY <1>a, <1>1 DEF PushNode, Goto, TypeOK
<1>3. TypeOK'
  BY <1>a, <1>1, Basics DEF PushNode, Goto, TypeOK, Places
<1>4. OwnerWord'
  <2>1. \A a \in Arenas : Uses(t, a)' => a = a0
    BY <1>2 DEF Uses
  <2>2. \A u \in Threads : \A a \in Arenas :
           u # t /\ Uses(u, a)' /\ ~Building(u)' => owner[a] = Tid[u]
    BY <1>a, <1>2 DEF PoolInv, OwnerWord, Uses, Building
  <2> QED
    BY <1>1, <1>2, <2>1, <2>2, Basics DEF OwnerWord
<1>5. Construction'
  <2>1. \A u \in Threads : Building(u)' => Building(u) /\ u # t
    BY <1>2 DEF Building
  <2>2. \A u \in Threads : Building(u)' => i[u] # a0 /\ i[u] \in Arenas
    BY <1>a, <1>1, <2>1, Basics DEF PoolInv, Construction
  <2> QED
    BY <1>a, <1>2, <2>1, <2>2 DEF PoolInv, Construction
<1>6. Unused'
  <2>1. \A a \in Slots : owner'[a] = owner[a]
    BY <1>1, <1>2, Basics
  <2>2. \A a \in Arenas : a >= MaxArenas + nodes' => a # a0 /\ a >= MaxArenas + nodes
    BY <1>a, <1>2, Basics DEF TypeOK, Arenas
  <2> QED
    BY <1>a, <1>2, <2>1, <2>2 DEF PoolInv, Unused
<1>7. Evidence'
  <2>1. \A u \in Threads : life[u] = "unborn" => Tid[u] # Tid[t]
    BY <1>b DEF TidsDistinct
  <2> QED
    BY <1>a, <1>2, <2>1 DEF PoolInv, Evidence
<1>8. Shape'
  <2> SUFFICES ASSUME NEW u \in Threads
               PROVE  Shape!(u)'
    BY DEF Shape
  <2>1. CASE u = t
    BY <1>b, <1>2, <2>1
  <2>2. CASE u # t
    <3>1. Shape!(u)
      BY <1>a DEF PoolInv, Shape
    <3>2. pc[u] = "adopt" => i[u] \in Arenas
      BY <1>a, <3>1, Basics DEF TypeOK, Arenas
    <3>3. i[u] \in Int /\ nodes \in Nat
      BY <1>a DEF TypeOK
    <3> QED
      BY <1>2, <2>2, <3>1, <3>2, <3>3, Basics
  <2> QED
    BY <2>1, <2>2
<1> QED
  BY <1>3, <1>4, <1>5, <1>6, <1>7, <1>8 DEF IInv, PoolInv

\* The end of a take-over.
LEMMA AdoptPreserves ==
  ASSUME IInv, NEW t \in Threads, Adopt(t)
  PROVE  IInv'
<1>a. TypeOK /\ PoolInv
  BY DEF IInv
<1>b. Shape!(t) /\ tls[t] = None /\ life[t] = "alive" /\ pc[t] = "adopt"
  BY <1>a DEF PoolInv, Shape, Adopt, Goto
<1>1. i[t] \in Arenas
  BY <1>a, <1>b, Basics DEF TypeOK, Arenas
<1>2. /\ tls'[t] = i[t] /\ \A u \in Threads : u # t => tls'[u] = tls[u]
      /\ pc'[t] = "run" /\ \A u \in Threads : u # t => pc'[u] = pc[u]
      /\ UNCHANGED <<life, owner, built, poolNext, nodes, i, lim, seen>>
  BY <1>a DEF Adopt, Goto, TypeOK
<1>3. TypeOK'
  BY <1>a, <1>1 DEF Adopt, Goto, TypeOK, Places
<1>4. \A u \in Threads : Building(u)' <=> Building(u)
  BY <1>b, <1>2 DEF Building
<1>5. \A u \in Threads, a \in Arenas : Uses(u, a)' => Uses(u, a)
  BY <1>b, <1>2 DEF Uses
<1>6. OwnerWord'
  BY <1>a, <1>2, <1>4, <1>5 DEF PoolInv, OwnerWord
<1>7. Construction' /\ Unused' /\ Evidence'
  BY <1>a, <1>2, <1>4 DEF PoolInv, Construction, Unused, Evidence, Building
<1>8. Shape'
  BY <1>a, <1>b, <1>2 DEF PoolInv, Shape
<1> QED
  BY <1>3, <1>6, <1>7, <1>8 DEF IInv, PoolInv

\* The exit of a thread: look, give back, forget.
LEMMA ReleasePreserves ==
  ASSUME TidsDistinct, IInv, NEW t \in Threads,
         ReleaseArena(t) \/ GiveBack(t) \/ Forget(t)
  PROVE  IInv'
<1>a. TypeOK /\ PoolInv
  BY DEF IInv
<1>b. Shape!(t) /\ life[t] = "alive" /\ tls[t] \in Arenas
  BY <1>a DEF PoolInv, Shape, ReleaseArena, GiveBack, Forget, Goto, TypeOK
<1> USE DEF Goto
<1>1. CASE ReleaseArena(t)
  <2>1. /\ pc[t] = "run" /\ tls[t] # None
        /\ pc'[t] \in {"giveback", "forget"} /\ \A u \in Threads : u # t => pc'[u] = pc[u]
        /\ UNCHANGED <<life, owner, built, poolNext, nodes, tls, i, lim, seen>>
    BY <1>a, <1>1 DEF ReleaseArena, TypeOK
  <2>2. TypeOK'
    BY <1>a, <1>1 DEF ReleaseArena, TypeOK, Places
  <2>3. OwnerWord'
    BY <1>a, <2>1 DEF PoolInv, OwnerWord, Uses, Building
  <2>4. Construction' /\ Unused' /\ Evidence'
    BY <1>a, <2>1 DEF PoolInv, Construction, Unused, Evidence, Building
  <2>5. Shape'
    BY <1>a, <1>b, <2>1 DEF PoolInv, Shape
  <2> QED
    BY <2>2, <2>3, <2>4, <2>5 DEF IInv, PoolInv
<1>2. CASE GiveBack(t)
  <2>1. /\ pc[t] = "giveback" /\ Uses(t, tls[t]) /\ ~Building(t)
    BY <1>a, <1>b, <1>2 DEF GiveBack, Uses, Building
  <2>2. owner[tls[t]] = Tid[t]
    BY <1>a, <1>b, <2>1 DEF PoolInv, OwnerWord
  <2>3. /\ \A a \in Arenas : owner'[a] = IF a = tls[t] THEN Free ELSE owner[a]
        /\ pc'[t] = "forget" /\ \A u \in Threads : u # t => pc'[u] = pc[u]
        /\ UNCHANGED <<life, built, poolNext, nodes, tls, i, lim, seen>>
    BY <1>a, <1>2 DEF GiveBack, TypeOK
  <2>4. TypeOK'
    BY <1>a, <1>2 DEF GiveBack, TypeOK, Places
  <2>5. \A u \in Threads : \A a \in Arenas :
           Uses(u, a)' => u # t /\ Uses(u, a) /\ (Building(u)' <=> Building(u))
    BY <2>3 DEF Uses, Building
  <2>6. OwnerWord'
    <3> SUFFICES ASSUME NEW u \in Threads, NEW a \in Arenas, Uses(u, a)', ~Building(u)'
                 PROVE  owner'[a] = Tid[u]
      BY DEF OwnerWord
    <3>1. owner[a] = Tid[u] /\ u # t
      BY <1>a, <2>5 DEF PoolInv, OwnerWord
    <3> QED
      BY <2>2, <2>3, <3>1 DEF TidsDistinct
  <2>7. Construction'
    <3>1. \A u \in Threads : Building(u)' => Building(u)
      BY <2>3 DEF Building
    <3>2. \A u \in Threads : Building(u)' => i[u] # tls[t] /\ i[u] \in Arenas
      BY <1>a, <2>2, <3>1, Basics DEF PoolInv, Construction
    <3> QED
      BY <1>a, <2>3, <3>1, <3>2 DEF PoolInv, Construction
  <2>8. Unused'
    BY <1>a, <1>b, <2>2, <2>3, Basics DEF PoolInv, Unused
  <2>9. Evidence'
    BY <1>a, <2>3, Basics DEF PoolInv, Evidence
  <2>10. Shape'
    <3> SUFFICES ASSUME NEW u \in Threads
                 PROVE  Shape!(u)'
      BY DEF Shape
    <3>1. Shape!(u)
      BY <1>a DEF PoolInv, Shape
    <3>2. pc[u] = "adopt" => i[u] \in Arenas
      BY <1>a, <3>1, Basics DEF TypeOK, Arenas
    <3>3. CASE u = t
      BY <1>b, <2>1, <2>3, <3>1, <3>3
    <3>4. CASE u # t
      BY <2>3, <3>1, <3>2, <3>4, Basics
    <3> QED
      BY <3>3, <3>4
  <2> QED
    BY <2>4, <2>6, <2>7, <2>8, <2>9, <2>10 DEF IInv, PoolInv
<1>3. CASE Forget(t)
  <2>1. /\ pc[t] = "forget" /\ tls'[t] = None /\ \A u \in Threads : u # t => tls'[u] = tls[u]
        /\ pc'[t] = "run" /\ \A u \in Threads : u # t => pc'[u] = pc[u]
        /\ UNCHANGED <<life, owner, built, poolNext, nodes, i, lim, seen>>
    BY <1>a, <1>3 DEF Forget, TypeOK
  <2>2. TypeOK'
    BY <1>a, <1>3 DEF Forget, TypeOK, Places
  <2>3. OwnerWord'
    BY <1>a, <2>1, Basics DEF PoolInv, OwnerWord, Uses, Building
  <2>4. Construction' /\ Unused' /\ Evidence'
    BY <1>a, <2>1 DEF PoolInv, Construction, Unused, Evidence, Building
  <2>5. Shape'
    BY <1>a, <1>b, <2>1 DEF PoolInv, Shape
  <2> QED
    BY <2>2, <2>3, <2>4, <2>5 DEF IInv, PoolInv
<1> QED
  BY <1>1, <1>2, <1>3

\* Every step keeps the invariant.
LEMMA NextPreserves ==
  ASSUME TidsDistinct, IInv, [Next]_vars
  PROVE  IInv'
<1>1. CASE UNCHANGED vars
  BY <1>1 DEF vars, IInv, TypeOK, PoolInv, OwnerWord, Construction, Unused, Evidence,
              Shape, Uses, Building
<1>2. CASE Next
  <2> PICK t \in Threads : Spawn(t) \/ Die(t) \/ Claim(t) \/ ReleaseArena(t) \/ Step(t)
    BY <1>2 DEF Next
  <2> QED
    BY SearchPreserves, TakePreserves, LifePreserves, BuildPreserves, PushPreserves,
       AdoptPreserves, ReleasePreserves DEF Step
<1> QED
  BY <1>1, <1>2

\* The inductive invariant behind the claim protocol of tapi.hpp, whatever
\* claims, exits, deaths and take-overs interleave.
THEOREM PoolSafe ==
  ASSUME TidsDistinct
  PROVE  Spec => [](TypeOK /\ PoolInv)
<1>1. Init => IInv
  BY InitInv
<1>2. IInv /\ [Next]_vars => IInv'
  BY NextPreserves
<1> QED
  BY <1>1, <1>2, PTL DEF Spec, IInv

\* No two threads ever work on one arena.
THEOREM OneOwner ==
  ASSUME TidsDistinct
  PROVE  Spec => []SingleOwner
<1>1. TypeOK /\ PoolInv => SingleOwner
  BY Exclusive DEF IInv
<1> QED
  BY <1>1, PoolSafe, PTL

\* __claim_arena_slow drains __arena_pool[i] without a null test; the slot
\* it took over is constructed.
THEOREM AdoptsBuilt ==
  ASSUME TidsDistinct
  PROVE  Spec => []AdoptedIsBuilt
<1>1. TypeOK /\ PoolInv => AdoptedIsBuilt
  BY DEF AdoptedIsBuilt, PoolInv, Shape, Unused
<1> QED
  BY <1>1, PoolSafe, PTL
=============================================================================
