------------------------ MODULE MpscFreeQueueProofs ------------------------
(***************************************************************************)
(* The ring of mpsc_free.hpp is correct for every number of producers and  *)
(* every capacity of at least two cells.  (With one cell it is not.)       *)
(***************************************************************************)
EXTENDS MpscFreeQueue, TLAPS

-----------------------------------------------------------------------------
(* Arithmetic of the index computation `t & __mask'. *)

\* Quotient and remainder of the index computation.
LEMMA DivMod ==
  ASSUME NEW C \in Nat \ {0}, NEW t \in Nat
  PROVE  /\ t = C * (t \div C) + (t % C)
         /\ t \div C \in Nat
         /\ t % C \in 0 .. (C - 1)
  OBVIOUS

\* Multiples of the capacity of two different laps are a capacity apart.
LEMMA MulGap ==
  ASSUME NEW C \in Nat \ {0}, NEW a \in Int, NEW b \in Int, a < b
  PROVE  C * a + C <= C * b
  OBVIOUS

\* Later laps do not start earlier.
LEMMA MulMono ==
  ASSUME NEW C \in Nat \ {0}, NEW a \in Int, NEW b \in Int, a <= b
  PROVE  C * a <= C * b
  OBVIOUS

\* A ticket is determined by its lap and its index.
LEMMA ModUnique ==
  ASSUME NEW C \in Nat \ {0}, NEW q \in Nat, NEW r \in 0 .. (C - 1)
  PROVE  (C * q + r) % C = r
<1> DEFINE t == C * q + r
<1>1. t \in Nat /\ t = C * q + r
  OBVIOUS
<1> HIDE DEF t
<1>2. /\ t = C * (t \div C) + (t % C)
      /\ t \div C \in Nat
      /\ t % C \in 0 .. (C - 1)
  BY <1>1, DivMod
<1>3. ~(t \div C < q)
  BY <1>1, <1>2, MulGap
<1>4. ~(q < t \div C)
  BY <1>1, <1>2, MulGap
<1>5. t \div C = q
  <2>1. t \div C \in Nat
    BY <1>2
  <2> QED
    BY <2>1, <1>3, <1>4
<1>6. t % C = r
  BY <1>1, <1>2, <1>5
<1> QED
  BY <1>6 DEF t

\* Every ticket indexes a cell.
LEMMA IdxCell ==
  ASSUME NEW t \in Nat
  PROVE  Idx(t) \in Cells
  BY CapacityAssumption, DivMod DEF Idx, Cells

\* The first lap visits the cells in order.
LEMMA IdxFirst ==
  ASSUME NEW c \in Cells
  PROVE  Idx(c) = c
<1>1. c \in 0 .. (Capacity - 1) /\ Capacity * 0 + c = c
  BY CapacityAssumption DEF Cells
<1>2. (Capacity * 0 + c) % Capacity = c
  BY <1>1, CapacityAssumption, ModUnique
<1> QED
  BY <1>1, <1>2 DEF Idx

\* A lap later the same cell comes round.
LEMMA IdxLap ==
  ASSUME NEW t \in Nat
  PROVE  Idx(t + Capacity) = Idx(t)
<1> DEFINE q == t \div Capacity
           r == t % Capacity
<1>1. t = Capacity * q + r /\ q \in Nat /\ r \in 0 .. (Capacity - 1)
  BY CapacityAssumption, DivMod
<1> HIDE DEF q, r
<1>2. t + Capacity = Capacity * (q + 1) + r
  BY <1>1, CapacityAssumption
<1>3. (Capacity * (q + 1) + r) % Capacity = r
  BY <1>1, CapacityAssumption, ModUnique
<1> QED
  BY <1>2, <1>3 DEF r, Idx

\* Two tickets of one cell are at least a lap apart.
LEMMA IdxApart ==
  ASSUME NEW s \in Nat, NEW t \in Nat, Idx(s) = Idx(t), s < t
  PROVE  s + Capacity <= t
<1> DEFINE a == s \div Capacity
           b == t \div Capacity
           r == s % Capacity
<1>1. /\ s = Capacity * a + r /\ a \in Nat /\ r \in 0 .. (Capacity - 1)
      /\ t = Capacity * b + r /\ b \in Nat
  BY CapacityAssumption, DivMod DEF Idx
<1> HIDE DEF a, b, r
<1>2. CASE a < b
  BY <1>1, <1>2, CapacityAssumption, MulGap
<1>3. CASE ~(a < b)
  BY <1>1, <1>3, CapacityAssumption, MulMono
<1> QED
  BY <1>2, <1>3

-----------------------------------------------------------------------------
(* Type correctness *)

\* The type invariant of the ring's state and of every push and pop in flight.
THEOREM TypeCorrect == Spec => []TypeOK
<1> USE CapacityAssumption
<1>1. Init => TypeOK
  BY DEF Init, TypeOK, Cells, Places
<1>2. TypeOK /\ [Next]_vars => TypeOK'
  <2> SUFFICES ASSUME TypeOK, [Next]_vars
               PROVE  TypeOK'
    OBVIOUS
  <2>1. /\ Idx(head) \in Cells
        /\ \A p \in Producers : Idx(myTail[p]) \in Cells
    BY IdxCell DEF TypeOK
  <2>2. ASSUME NEW p \in Producers, NEW it \in Items, PushBegin(p, it)
        PROVE  TypeOK'
    BY <2>2 DEF TypeOK, PushBegin, At, Places
  <2>3. ASSUME NEW p \in Producers, PushReadSeq(p)
        PROVE  TypeOK'
    BY <2>3 DEF TypeOK, PushReadSeq, At, Places
  <2>4. ASSUME NEW p \in Producers, PushCas(p)
        PROVE  TypeOK'
    <3>1. item[p] \in Items
      BY <2>4 DEF TypeOK, PushCas, At
    <3>2. log' \in Seq(Items)
      BY <2>4, <3>1 DEF TypeOK, PushCas
    <3> QED
      BY <2>4, <3>2 DEF TypeOK, PushCas, At, Places
  <2>5. ASSUME NEW p \in Producers, PushCasFail(p) \/ PushReload(p) \/ PushGiveUp(p)
        PROVE  TypeOK'
    BY <2>5 DEF TypeOK, PushCasFail, PushReload, PushGiveUp, At, Places
  <2>6. ASSUME NEW p \in Producers, PushWrite(p)
        PROVE  TypeOK'
    BY <2>1, <2>6 DEF TypeOK, PushWrite, At, Places
  <2>10. ASSUME NEW p \in Producers, PushPublish(p)
         PROVE  TypeOK'
    BY <2>1, <2>10 DEF TypeOK, PushPublish, At, Places
  <2>7. CASE PopCheck
    BY <2>1, <2>7 DEF TypeOK, PopCheck
  <2>8. CASE PopAdvance
    BY <2>1, <2>8 DEF TypeOK, PopAdvance
  <2>9. CASE UNCHANGED vars
    BY <2>9 DEF TypeOK, vars
  <2> QED
    BY <2>2, <2>3, <2>4, <2>5, <2>6, <2>7, <2>8, <2>9, <2>10 DEF Next, PushStep
<1> QED
  BY <1>1, <1>2, PTL DEF Spec

-----------------------------------------------------------------------------
(* The inductive invariant, one lemma per step that moves the ring *)

\* Taking a ticket: the cell is free and nobody else holds that ticket.
LEMMA CasPreserves ==
  ASSUME Capacity >= 2, TypeOK, RingInv, NEW p \in Producers, PushCas(p)
  PROVE  RingInv'
<1> DEFINE k == Idx(tail)
<1> USE CapacityAssumption
<1>1. /\ pc[p] = "cas" /\ myTail[p] = tail
      /\ pc' = [pc EXCEPT ![p] = "write"]
      /\ tail' = tail + 1
      /\ log' = Append(log, item[p])
      /\ item[p] \in Items
      /\ UNCHANGED <<seq, payload, head, myTail, item, cpc, out, delivered>>
  BY DEF PushCas, At, TypeOK
<1>2. /\ Len(log) = tail /\ Len(log') = tail + 1
      /\ log'[tail + 1] = item[p]
      /\ \A i \in 1 .. tail : log'[i] = log[i]
  <2>1. log \in Seq(Items) /\ Len(log) = tail
    BY DEF TypeOK, RingInv, History
  <2> QED
    BY <1>1, <2>1
<1>3. seq[k] >= tail
  BY <1>1 DEF RingInv, Stale
<1>4. tail < head + Capacity
  <2> SUFFICES ASSUME tail = head + Capacity
               PROVE  FALSE
    BY DEF RingInv, Bounds, TypeOK
  <2>1. k = Idx(head) /\ head \in head .. (tail - 1)
    BY IdxLap DEF TypeOK
  <2>2. seq[k] = head + 1 \/ seq[k] = head
    BY <2>1 DEF RingInv, Window
  <2> QED
    BY <1>3, <2>2 DEF TypeOK
<1>5. seq[k] = tail
  BY <1>4 DEF RingInv, FreeCells, Bounds, TypeOK
<1>6. Bounds'
  BY <1>1, <1>4 DEF RingInv, Bounds, TypeOK
<1>7. Claims'
  <2>1. ASSUME NEW q \in Producers, Holds(q)'
        PROVE  /\ head' <= myTail'[q] /\ myTail'[q] < tail'
               /\ seq'[Idx(myTail'[q])] = myTail'[q]
               /\ log'[myTail'[q] + 1] = item'[q]
               /\ pc'[q] = "publish" => payload'[Idx(myTail'[q])] = item'[q]
    <3>1. CASE q = p
      BY <1>1, <1>2, <1>5, <3>1 DEF RingInv, Bounds, TypeOK
    <3>2. CASE q # p
      <4>1. Holds(q) /\ pc'[q] = pc[q]
        BY <1>1, <2>1, <3>2 DEF Holds, TypeOK
      <4>2. /\ head <= myTail[q] /\ myTail[q] < tail
            /\ seq[Idx(myTail[q])] = myTail[q]
            /\ log[myTail[q] + 1] = item[q]
            /\ pc[q] = "publish" => payload[Idx(myTail[q])] = item[q]
        BY <4>1 DEF RingInv, Claims
      <4>3. log'[myTail[q] + 1] = log[myTail[q] + 1]
        BY <1>2, <4>2 DEF TypeOK
      <4> QED
        BY <1>1, <4>1, <4>2, <4>3 DEF TypeOK
    <3> QED
      BY <3>1, <3>2
  <2>2. ASSUME NEW q \in Producers, NEW r \in Producers,
               Holds(q)', Holds(r)', myTail'[q] = myTail'[r]
        PROVE  q = r
    <3>1. \A s \in Producers \ {p} : Holds(s)' => Holds(s) /\ myTail[s] < tail
      BY <1>1 DEF Holds, RingInv, Claims, TypeOK
    <3>2. myTail[p] = tail
      BY <1>1
    <3> QED
      BY <1>1, <2>2, <3>1, <3>2 DEF RingInv, Claims, TypeOK
  <2> QED
    BY <2>1, <2>2 DEF Claims
<1>8. Window'
  <2> SUFFICES ASSUME NEW t \in head .. tail
               PROVE  \/ seq[Idx(t)] = t + 1 /\ payload[Idx(t)] = log'[t + 1]
                      \/ seq[Idx(t)] = t /\ \E q \in Producers : Holds(q)' /\ myTail[q] = t
    <3>1. head' .. (tail' - 1) = head .. tail
      BY <1>1 DEF TypeOK
    <3> QED
      BY <1>1, <3>1 DEF Window
  <2>1. CASE t = tail
    BY <1>1, <1>5, <2>1 DEF Holds, TypeOK
  <2>2. CASE t < tail
    <3>1. t \in head .. (tail - 1)
      BY <2>2 DEF TypeOK
    <3>2. \A q \in Producers : Holds(q) => Holds(q)'
      BY <1>1 DEF Holds, TypeOK
    <3>3. log'[t + 1] = log[t + 1]
      BY <1>2, <3>1 DEF TypeOK
    <3> QED
      BY <3>1, <3>2, <3>3 DEF RingInv, Window
  <2> QED
    BY <2>1, <2>2 DEF TypeOK
<1>9. FreeCells'
  BY <1>1 DEF RingInv, FreeCells, TypeOK
<1>10. Stale'
  BY <1>1 DEF RingInv, Stale, TypeOK
<1>11. Cover'
  BY <1>1 DEF RingInv, Cover
<1>12. History'
  <2>1. ASSUME NEW i \in 1 .. head
        PROVE  delivered'[i] = log'[i]
    <3>1. i \in 1 .. tail
      BY DEF RingInv, Bounds, TypeOK
    <3>2. delivered[i] = log[i]
      BY DEF RingInv, History
    <3> QED
      BY <1>1, <1>2, <3>1, <3>2
  <2>2. head < tail => log'[head + 1] = log[head + 1]
    BY <1>2 DEF TypeOK
  <2>3. Len(log') = tail' /\ Len(delivered') = head'
    BY <1>1, <1>2 DEF RingInv, History
  <2>4. cpc = "advance" => /\ head < tail
                           /\ seq[Idx(head)] = head + 1
                           /\ out = log[head + 1]
    BY DEF RingInv, History
  <2>5. cpc' = "advance" => /\ head' < tail'
                            /\ seq'[Idx(head')] = head' + 1
                            /\ out' = log'[head' + 1]
    <3>1. head' = head /\ seq' = seq /\ out' = out /\ cpc' = cpc
      BY <1>1
    <3>2. head < tail => head < tail'
      BY <1>1 DEF TypeOK
    <3> QED
      BY <2>2, <2>4, <3>1, <3>2
  <2> QED
    BY <1>1, <2>1, <2>3, <2>5 DEF History
<1> QED
  BY <1>6, <1>7, <1>8, <1>9, <1>10, <1>11, <1>12 DEF RingInv

\* Steps of a push that holds no ticket before or after leave the ring alone.
LEMMA LocalPreserves ==
  ASSUME TypeOK, RingInv, NEW p \in Producers, ~Holds(p), ~Holds(p)',
         \A q \in Producers \ {p} : pc'[q] = pc[q] /\ myTail'[q] = myTail[q]
                                                /\ item'[q] = item[q],
         pc'[p] = "cas" => seq[Idx(myTail'[p])] >= myTail'[p],
         myTail'[p] <= tail,
         UNCHANGED <<seq, payload, tail, head, cpc, out, log, delivered>>
  PROVE  RingInv'
<1>1. \A q \in Producers : Holds(q)' <=> Holds(q)
  BY DEF Holds
<1>2. Claims'
  BY <1>1 DEF RingInv, Claims
<1>3. Window'
  <2> SUFFICES ASSUME NEW t \in head .. (tail - 1)
               PROVE  \/ seq[Idx(t)] = t + 1 /\ payload[Idx(t)] = log[t + 1]
                      \/ seq[Idx(t)] = t /\ \E q \in Producers : Holds(q)' /\ myTail'[q] = t
    BY DEF Window
  <2> QED
    BY <1>1 DEF RingInv, Window
<1>4. Stale'
  BY DEF RingInv, Stale
<1> QED
  BY <1>2, <1>3, <1>4 DEF RingInv, Bounds, FreeCells, Cover, History

\* Writing the payload of a held ticket touches no other ticket's cell.
LEMMA WritePreserves ==
  ASSUME TypeOK, RingInv, NEW p \in Producers, PushWrite(p)
  PROVE  RingInv'
<1> DEFINE m == myTail[p]
<1> USE CapacityAssumption
<1>1. /\ pc[p] = "write"
      /\ pc' = [pc EXCEPT ![p] = "publish"]
      /\ payload' = [payload EXCEPT ![Idx(m)] = item[p]]
      /\ UNCHANGED <<seq, tail, head, myTail, item, cpc, out, log, delivered>>
  BY DEF PushWrite, At
<1>2. \A q \in Producers : Holds(q)' <=> Holds(q)
  BY <1>1 DEF Holds, TypeOK
<1>3. /\ Holds(p) /\ head <= m /\ m < tail /\ seq[Idx(m)] = m
      /\ log[m + 1] = item[p] /\ m \in Nat /\ Idx(m) \in Cells
  BY <1>1, IdxCell DEF Holds, RingInv, Claims, TypeOK
<1>4. \A t \in head .. (tail - 1) : t # m => Idx(t) # Idx(m)
  BY <1>3, IdxApart DEF RingInv, Bounds, TypeOK
<1>5. Claims'
  <2>1. ASSUME NEW q \in Producers, Holds(q)
        PROVE  /\ head <= myTail[q] /\ myTail[q] < tail
               /\ seq[Idx(myTail[q])] = myTail[q]
               /\ log[myTail[q] + 1] = item[q]
               /\ pc'[q] = "publish" => payload'[Idx(myTail[q])] = item[q]
    <3>1. /\ head <= myTail[q] /\ myTail[q] < tail
          /\ seq[Idx(myTail[q])] = myTail[q]
          /\ log[myTail[q] + 1] = item[q]
          /\ pc[q] = "publish" => payload[Idx(myTail[q])] = item[q]
      BY <2>1 DEF RingInv, Claims
    <3>2. CASE q = p
      BY <1>1, <1>3, <3>1, <3>2 DEF TypeOK
    <3>3. CASE q # p
      <4>1. myTail[q] # m /\ pc'[q] = pc[q]
        BY <1>1, <1>3, <2>1, <3>3 DEF RingInv, Claims, TypeOK
      <4>2. Idx(myTail[q]) # Idx(m) /\ Idx(myTail[q]) \in Cells
        BY <1>4, <3>1, <4>1, IdxCell DEF TypeOK
      <4> QED
        BY <1>1, <3>1, <4>1, <4>2 DEF TypeOK
    <3> QED
      BY <3>2, <3>3
  <2>2. \A q, r \in Producers :
          Holds(q) /\ Holds(r) /\ myTail[q] = myTail[r] => q = r
    BY DEF RingInv, Claims
  <2> QED
    BY <1>1, <1>2, <2>1, <2>2 DEF Claims
<1>6. Window'
  <2> SUFFICES ASSUME NEW t \in head .. (tail - 1)
               PROVE  \/ seq[Idx(t)] = t + 1 /\ payload'[Idx(t)] = log[t + 1]
                      \/ seq[Idx(t)] = t /\ \E q \in Producers : Holds(q)' /\ myTail[q] = t
    BY <1>1 DEF Window
  <2>1. CASE t = m
    BY <1>2, <1>3, <2>1
  <2>2. CASE t # m
    <3>1. payload'[Idx(t)] = payload[Idx(t)]
      BY <1>1, <1>4, <2>2, IdxCell DEF TypeOK
    <3> QED
      BY <1>2, <3>1 DEF RingInv, Window
  <2> QED
    BY <2>1, <2>2
<1>7. Stale'
  BY <1>1 DEF RingInv, Stale, TypeOK
<1> QED
  BY <1>1, <1>5, <1>6, <1>7 DEF RingInv, Bounds, FreeCells, Cover, History

\* Publishing a held ticket turns exactly its cell into a readable one.
LEMMA PublishPreserves ==
  ASSUME TypeOK, RingInv, NEW p \in Producers, PushPublish(p)
  PROVE  RingInv'
<1> DEFINE m == myTail[p]
<1> USE CapacityAssumption
<1>1. /\ pc[p] = "publish"
      /\ pc' = [pc EXCEPT ![p] = "idle"]
      /\ seq' = [seq EXCEPT ![Idx(m)] = m + 1]
      /\ UNCHANGED <<payload, tail, head, myTail, item, cpc, out, log, delivered>>
  BY DEF PushPublish, At
<1>2. /\ ~Holds(p)'
      /\ \A q \in Producers \ {p} : (Holds(q)' <=> Holds(q)) /\ pc'[q] = pc[q]
  BY <1>1 DEF Holds, TypeOK
<1>3. /\ Holds(p) /\ head <= m /\ m < tail /\ seq[Idx(m)] = m
      /\ log[m + 1] = item[p] /\ payload[Idx(m)] = item[p]
      /\ m \in Nat /\ Idx(m) \in Cells
  BY <1>1, IdxCell DEF Holds, RingInv, Claims, TypeOK
<1>4. \A t \in head .. (head + Capacity - 1) : t # m => Idx(t) # Idx(m)
  BY <1>3, IdxApart DEF RingInv, Bounds, TypeOK
<1>5. \A t \in head .. (head + Capacity - 1) : t # m => seq'[Idx(t)] = seq[Idx(t)]
  BY <1>1, <1>4, IdxCell DEF TypeOK
<1>6. seq'[Idx(m)] = m + 1
  BY <1>1, <1>3 DEF TypeOK
<1>7. Claims'
  <2>1. ASSUME NEW q \in Producers \ {p}, Holds(q)
        PROVE  seq'[Idx(myTail[q])] = myTail[q]
    <3>1. /\ head <= myTail[q] /\ myTail[q] < tail
          /\ seq[Idx(myTail[q])] = myTail[q]
          /\ myTail[q] # m
      BY <1>3, <2>1 DEF RingInv, Claims
    <3>2. myTail[q] \in head .. (head + Capacity - 1)
      BY <3>1 DEF RingInv, Bounds, TypeOK
    <3> QED
      BY <1>5, <3>1, <3>2
  <2> QED
    BY <1>1, <1>2, <2>1 DEF RingInv, Claims
<1>8. Window'
  <2> SUFFICES ASSUME NEW t \in head .. (tail - 1)
               PROVE  \/ seq'[Idx(t)] = t + 1 /\ payload[Idx(t)] = log[t + 1]
                      \/ seq'[Idx(t)] = t /\ \E q \in Producers : Holds(q)' /\ myTail[q] = t
    BY <1>1 DEF Window
  <2>1. CASE t = m
    BY <1>3, <1>6, <2>1
  <2>2. CASE t # m
    <3>1. seq'[Idx(t)] = seq[Idx(t)]
      BY <1>5, <2>2 DEF RingInv, Bounds, TypeOK
    <3>2. \A q \in Producers : Holds(q) /\ myTail[q] = t => Holds(q)'
      BY <1>2, <2>2
    <3> QED
      BY <3>1, <3>2 DEF RingInv, Window
  <2> QED
    BY <2>1, <2>2
<1>9. FreeCells'
  <2> SUFFICES ASSUME NEW t \in tail .. (head + Capacity - 1)
               PROVE  seq'[Idx(t)] = t
    BY <1>1 DEF FreeCells
  <2>1. t # m /\ t \in head .. (head + Capacity - 1)
    BY <1>3 DEF RingInv, Bounds, TypeOK
  <2> QED
    BY <1>5, <2>1 DEF RingInv, FreeCells
<1>10. Stale'
  <2>1. ASSUME NEW q \in Producers, pc'[q] = "cas"
        PROVE  seq'[Idx(myTail[q])] >= myTail[q]
    <3>1. seq[Idx(myTail[q])] >= myTail[q]
      BY <1>1, <1>2, <2>1 DEF RingInv, Stale, TypeOK
    <3>2. Idx(myTail[q]) \in Cells
      BY IdxCell DEF TypeOK
    <3> QED
      BY <1>1, <1>3, <1>6, <3>1, <3>2 DEF TypeOK
  <2> QED
    BY <1>1, <2>1 DEF RingInv, Stale
<1>11. History'
  <2>1. cpc = "advance" => seq'[Idx(head)] = head + 1
    <3> SUFFICES ASSUME cpc = "advance"
                 PROVE  seq'[Idx(head)] = head + 1
      OBVIOUS
    <3>1. seq[Idx(head)] = head + 1 /\ head # m /\ head \in head .. (head + Capacity - 1)
      BY <1>3 DEF RingInv, History, TypeOK
    <3> QED
      BY <1>5, <3>1
  <2> QED
    BY <1>1, <2>1 DEF RingInv, History
<1> QED
  BY <1>1, <1>7, <1>8, <1>9, <1>10, <1>11 DEF RingInv, Bounds, Cover

\* Handing the head cell to the next lap frees exactly one ticket.
LEMMA AdvancePreserves ==
  ASSUME TypeOK, RingInv, PopAdvance
  PROVE  RingInv'
<1> USE CapacityAssumption
<1>1. /\ cpc = "advance" /\ cpc' = "check"
      /\ seq' = [seq EXCEPT ![Idx(head)] = head + Capacity]
      /\ head' = head + 1
      /\ delivered' = Append(delivered, out)
      /\ UNCHANGED <<payload, tail, pc, myTail, item, out, log>>
  BY DEF PopAdvance
<1>2. /\ head < tail /\ seq[Idx(head)] = head + 1 /\ out = log[head + 1]
      /\ Idx(head) \in Cells
  BY <1>1, IdxCell DEF RingInv, History, TypeOK
<1>3. \A q \in Producers : Holds(q)' <=> Holds(q)
  BY <1>1 DEF Holds
<1>4. \A t \in (head + 1) .. (head + Capacity - 1) :
        Idx(t) # Idx(head) /\ seq'[Idx(t)] = seq[Idx(t)]
  BY <1>1, IdxApart, IdxCell DEF TypeOK
<1>5. seq'[Idx(head)] = head + Capacity /\ Idx(head + Capacity) = Idx(head)
  BY <1>1, <1>2, IdxLap DEF TypeOK
<1>6. Bounds'
  BY <1>1, <1>2 DEF RingInv, Bounds, TypeOK
<1>7. Claims'
  <2>1. ASSUME NEW q \in Producers, Holds(q)
        PROVE  head + 1 <= myTail[q] /\ seq'[Idx(myTail[q])] = myTail[q]
    <3>1. head <= myTail[q] /\ myTail[q] < tail /\ seq[Idx(myTail[q])] = myTail[q]
      BY <2>1 DEF RingInv, Claims
    <3>2. myTail[q] # head
      BY <1>2, <3>1 DEF TypeOK
    <3>3. myTail[q] \in (head + 1) .. (head + Capacity - 1)
      BY <3>1, <3>2 DEF RingInv, Bounds, TypeOK
    <3> QED
      BY <1>4, <3>1, <3>3
  <2> QED
    BY <1>1, <1>3, <2>1 DEF RingInv, Claims
<1>8. Window'
  <2> SUFFICES ASSUME NEW t \in (head + 1) .. (tail - 1)
               PROVE  \/ seq'[Idx(t)] = t + 1 /\ payload[Idx(t)] = log[t + 1]
                      \/ seq'[Idx(t)] = t /\ \E q \in Producers : Holds(q)' /\ myTail[q] = t
    BY <1>1 DEF Window
  <2>1. t \in head .. (tail - 1) /\ t \in (head + 1) .. (head + Capacity - 1)
    BY DEF RingInv, Bounds, TypeOK
  <2> QED
    BY <1>3, <1>4, <2>1 DEF RingInv, Window
<1>9. FreeCells'
  <2> SUFFICES ASSUME NEW t \in tail .. (head + Capacity)
               PROVE  seq'[Idx(t)] = t
    <3>1. tail' .. (head' + Capacity - 1) = tail .. (head + Capacity)
      BY <1>1 DEF TypeOK
    <3> QED
      BY <3>1 DEF FreeCells
  <2>1. CASE t = head + Capacity
    BY <1>5, <2>1
  <2>2. CASE t # head + Capacity
    <3>1. /\ t \in tail .. (head + Capacity - 1)
          /\ t \in (head + 1) .. (head + Capacity - 1)
      BY <1>2, <2>2 DEF RingInv, Bounds, TypeOK
    <3> QED
      BY <1>4, <3>1 DEF RingInv, FreeCells
  <2> QED
    BY <2>1, <2>2
<1>10. Stale'
  <2>1. ASSUME NEW q \in Producers, pc[q] = "cas"
        PROVE  seq'[Idx(myTail[q])] >= myTail[q]
    <3>1. seq[Idx(myTail[q])] >= myTail[q] /\ Idx(myTail[q]) \in Cells
      BY <2>1, IdxCell DEF RingInv, Stale, TypeOK
    <3> QED
      BY <1>1, <1>2, <3>1 DEF TypeOK
  <2> QED
    BY <1>1, <2>1 DEF RingInv, Stale
<1>11. Cover'
  <2> SUFFICES ASSUME NEW c \in Cells
               PROVE  \E t \in (head + 1) .. (head + Capacity) : Idx(t) = c
    <3>1. head' .. (head' + Capacity - 1) = (head + 1) .. (head + Capacity)
      BY <1>1 DEF TypeOK
    <3> QED
      BY <3>1 DEF Cover
  <2>1. PICK t \in head .. (head + Capacity - 1) : Idx(t) = c
    BY DEF RingInv, Cover
  <2>2. CASE t = head
    BY <1>5, <2>1, <2>2 DEF TypeOK
  <2>3. CASE t # head
    BY <2>1, <2>3 DEF TypeOK
  <2> QED
    BY <2>2, <2>3
<1>12. History'
  <2>1. /\ Len(delivered') = head + 1
        /\ delivered'[head + 1] = out
        /\ \A i \in 1 .. head : delivered'[i] = delivered[i]
    <3>1. delivered \in Seq(Items \cup {NoItem}) /\ Len(delivered) = head
      BY DEF TypeOK, RingInv, History
    <3> QED
      BY <1>1, <3>1
  <2>2. \A i \in 1 .. (head + 1) : delivered'[i] = log[i]
    BY <1>2, <2>1 DEF RingInv, History, TypeOK
  <2> QED
    BY <1>1, <2>1, <2>2 DEF RingInv, History
<1> QED
  BY <1>6, <1>7, <1>8, <1>9, <1>10, <1>11, <1>12 DEF RingInv

\* The freshly constructed ring: every cell waits for its first-lap ticket.
LEMMA InitRing == Init => RingInv
<1> SUFFICES ASSUME Init
             PROVE  RingInv
  OBVIOUS
<1> USE CapacityAssumption DEF Init
<1>1. Bounds /\ Window /\ Claims
  BY DEF Bounds, Window, Claims, Holds
<1>2. FreeCells
  BY IdxFirst DEF FreeCells, Cells
<1>3. Stale
  BY DEF Stale
<1>4. Cover
  BY IdxFirst DEF Cover, Cells
<1>5. History
  BY DEF History
<1> QED
  BY <1>1, <1>2, <1>3, <1>4, <1>5 DEF RingInv

\* Every step of push and pop keeps the ring invariant.
LEMMA NextPreserves ==
  ASSUME Capacity >= 2, TypeOK, RingInv, [Next]_vars
  PROVE  RingInv'
<1>1. ASSUME NEW p \in Producers, NEW it \in Items, PushBegin(p, it)
      PROVE  RingInv'
  <2>1. /\ ~Holds(p) /\ ~Holds(p)'
        /\ \A q \in Producers \ {p} : pc'[q] = pc[q] /\ myTail'[q] = myTail[q]
                                               /\ item'[q] = item[q]
        /\ pc'[p] # "cas" /\ myTail'[p] <= tail
        /\ UNCHANGED <<seq, payload, tail, head, cpc, out, log, delivered>>
    BY <1>1 DEF PushBegin, At, Holds, TypeOK
  <2> QED
    BY <2>1, LocalPreserves
<1>2. ASSUME NEW p \in Producers,
             PushReadSeq(p) \/ PushCasFail(p) \/ PushReload(p) \/ PushGiveUp(p)
      PROVE  RingInv'
  <2>1. /\ ~Holds(p) /\ ~Holds(p)'
        /\ \A q \in Producers \ {p} : pc'[q] = pc[q] /\ myTail'[q] = myTail[q]
                                               /\ item'[q] = item[q]
        /\ UNCHANGED <<seq, payload, tail, head, cpc, out, log, delivered>>
    BY <1>2 DEF PushReadSeq, PushCasFail, PushReload, PushGiveUp, At, Holds, TypeOK
  <2>2. myTail'[p] <= tail
    BY <1>2 DEF PushReadSeq, PushCasFail, PushReload, PushGiveUp, RingInv, Stale, TypeOK
  <2>3. pc'[p] = "cas" => seq[Idx(myTail'[p])] >= myTail'[p]
    BY <1>2 DEF PushReadSeq, PushCasFail, PushReload, PushGiveUp, At, TypeOK
  <2> QED
    BY <2>1, <2>2, <2>3, LocalPreserves
<1>3. ASSUME NEW p \in Producers, PushCas(p) \/ PushWrite(p) \/ PushPublish(p)
      PROVE  RingInv'
  BY <1>3, CasPreserves, WritePreserves, PublishPreserves
<1>4. CASE PopCheck
  <2>1. /\ cpc' = "advance" /\ seq[Idx(head)] = head + 1
        /\ out' = payload[Idx(head)]
        /\ UNCHANGED <<seq, payload, tail, head, pc, myTail, item, log, delivered>>
    BY <1>4 DEF PopCheck
  <2>2. head < tail
    <3> SUFFICES ASSUME head = tail
                 PROVE  FALSE
      BY DEF RingInv, Bounds, TypeOK
    <3>1. head \in tail .. (head + Capacity - 1)
      BY CapacityAssumption DEF TypeOK
    <3> QED
      BY <2>1, <3>1 DEF RingInv, FreeCells, TypeOK
  <2>3. payload[Idx(head)] = log[head + 1]
    <3>1. head \in head .. (tail - 1)
      BY <2>2 DEF TypeOK
    <3> QED
      BY <2>1, <3>1 DEF RingInv, Window, TypeOK
  <2>4. \A q \in Producers : Holds(q)' <=> Holds(q)
    BY <2>1 DEF Holds
  <2>5. Claims' /\ Window'
    BY <2>1, <2>4 DEF RingInv, Claims, Window
  <2> QED
    BY <2>1, <2>2, <2>3, <2>5
    DEF RingInv, Bounds, FreeCells, Stale, Cover, History
<1>5. CASE PopAdvance
  BY <1>5, AdvancePreserves
<1>6. CASE UNCHANGED vars
  BY <1>6
  DEF vars, RingInv, Bounds, Claims, Window, FreeCells, Stale, Cover, History, Holds
<1> QED
  BY <1>1, <1>2, <1>3, <1>4, <1>5, <1>6 DEF Next, PushStep

-----------------------------------------------------------------------------
(***************************************************************************)
(* push and pop keep tags, tickets and payloads consistent: no payload is  *)
(* overwritten before it is copied out and no ticket is held twice.        *)
(***************************************************************************)
THEOREM RingSafe ==
  ASSUME Capacity >= 2
  PROVE  Spec => []RingInv
<1>1. TypeOK /\ RingInv /\ [Next]_vars => RingInv'
  BY NextPreserves
<1> QED
  BY InitRing, TypeCorrect, <1>1, PTL DEF Spec

\* push gives up only on a ring with no free cell, however stale its ticket.
THEOREM FullIsFull ==
  ASSUME Capacity >= 2
  PROVE  Spec => FullOnlyWhenFull
<1>1. ASSUME TypeOK, RingInv, [Next]_vars, NEW p \in Producers,
             pc[p] = "seq", pc'[p] = "full"
      PROVE  tail - head >= Capacity
  <2> DEFINE m == myTail[p]
  <2>1. seq[Idx(m)] < m /\ m <= tail /\ m \in Nat
    <3>1. PushReadSeq(p)
      BY <1>1
      DEF Next, PushStep, PushBegin, PushReadSeq, PushCas, PushCasFail, PushReload,
          PushWrite, PushPublish, PushGiveUp, PopCheck, PopAdvance, At, vars, TypeOK
    <3> QED
      BY <1>1, <3>1 DEF PushReadSeq, At, RingInv, Stale, TypeOK
  <2> SUFFICES ASSUME tail < head + Capacity
               PROVE  FALSE
    BY <1>1, CapacityAssumption DEF TypeOK
  <2>2. PICK t \in head .. (head + Capacity - 1) : Idx(t) = Idx(m)
    BY <1>1, <2>1, IdxCell DEF RingInv, Cover
  <2>3. seq[Idx(t)] >= t
    <3>1. t < tail => t \in head .. (tail - 1)
      BY <1>1 DEF TypeOK
    <3>2. t >= tail => t \in tail .. (head + Capacity - 1)
      BY <1>1 DEF TypeOK
    <3> QED
      BY <1>1, <3>1, <3>2 DEF RingInv, Window, FreeCells, TypeOK
  <2>4. t < m
    BY <1>1, <2>1, <2>2, <2>3, CapacityAssumption, IdxCell DEF TypeOK
  <2>5. t + Capacity <= m
    BY <1>1, <2>1, <2>2, <2>4, IdxApart DEF TypeOK
  <2> QED
    BY <1>1, <2>1, <2>2, <2>5, CapacityAssumption DEF TypeOK
<1>2. TypeOK /\ RingInv /\ [Next]_vars
        => [\A p \in Producers : pc[p] = "seq" /\ pc'[p] = "full"
              => tail - head >= Capacity]_vars
  BY <1>1
<1> QED
  BY <1>2, TypeCorrect, RingSafe, PTL DEF Spec, FullOnlyWhenFull

\* The ring hands the owner every accepted free once, in ticket order.
THEOREM RingImplementsOrder ==
  ASSUME Capacity >= 2
  PROVE  Spec => ImplementsOrder
<1>1. Init => Order!Init
  BY DEF Init, Order!Init
<1>2. TypeOK /\ RingInv /\ [Next]_vars => [Order!Next]_(Order!vars)
  <2> SUFFICES ASSUME TypeOK, RingInv, [Next]_vars
               PROVE  Order!Next \/ UNCHANGED <<log, delivered>>
    BY DEF Order!vars
  <2>1. ASSUME NEW p \in Producers, PushCas(p)
        PROVE  Order!Next
    <3>1. item[p] \in Items
      BY <2>1 DEF PushCas, At, TypeOK
    <3> QED
      BY <2>1, <3>1 DEF PushCas, Order!Next, Order!Accept
  <2>2. CASE PopAdvance
    <3>1. Len(delivered) = head /\ Len(log) = tail /\ head < tail /\ out = log[head + 1]
      BY <2>2 DEF PopAdvance, RingInv, History
    <3> QED
      BY <2>2, <3>1 DEF PopAdvance, Order!Next, Order!Deliver
  <2> QED
    BY <2>1, <2>2
    DEF Next, PushStep, PushBegin, PushReadSeq, PushCasFail, PushReload,
        PushWrite, PushPublish, PushGiveUp, PopCheck, vars
<1> QED
  BY <1>1, <1>2, TypeCorrect, RingSafe, PTL DEF Spec, ImplementsOrder, Order!Spec
=============================================================================
