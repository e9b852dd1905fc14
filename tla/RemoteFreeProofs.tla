-------------------------- MODULE RemoteFreeProofs --------------------------
(***************************************************************************)
(* A free of another thread's block is never lost, never carried out twice *)
(* and never carried out the wrong way, for every number of threads and    *)
(* blocks and every ring of at least two cells.                            *)
(*                                                                         *)
(* The ring of an arena goes through the steps of MpscFreeQueue, so what   *)
(* is proved there holds here.  What is new is the overflow list, whose    *)
(* nodes lie inside the blocks themselves, and the owner's drain of both.  *)
(***************************************************************************)
EXTENDS RemoteFree, FiniteSetTheorems, WellFoundedInduction, TLAPS

\* A nonempty set of natural numbers has a smallest member.
LEMMA HasSmallest ==
  ASSUME NEW S \in SUBSET Nat, S # {}
  PROVE  \E h \in S : \A i \in S : h <= i
<1> DEFINE R == OpToRel(<, Nat)
<1>1. IsWellFoundedOn(R, Nat)
  BY NatLessThanWellFounded
<1>2. PICK x \in S : \A y \in S : ~(<<y, x>> \in R)
  <2> HIDE DEF R
  <2> QED
    BY <1>1, WFMin
<1>3. ASSUME NEW y \in S
      PROVE  x <= y
  <2>1. x \in Nat /\ y \in Nat
    OBVIOUS
  <2>2. ~(y < x)
    BY <1>2, <2>1 DEF OpToRel
  <2> QED
    BY <2>1, <2>2
<1> QED
  BY <1>3


-----------------------------------------------------------------------------
(* Linked lists inside blocks *)

\* f[n], f[n-1], ..., f[1] are the nodes of the list at x; f[0] is nullptr.
Linked(nx, x, n, f) ==
  /\ f[0] = None /\ f[n] = x
  /\ \A i \in 1 .. n : f[i] \in Blocks /\ nx[f[i]] = f[i - 1]
  /\ \A i, j \in 1 .. n : f[i] = f[j] => i = j

\* L is the set of nodes of the null-terminated list that starts at x.
IsList(nx, x, L) ==
  \E n \in Nat : \E f \in [0 .. n -> Blocks \cup {None}] :
    Linked(nx, x, n, f) /\ L = {f[i] : i \in 1 .. n}

\* The null pointer is the empty list ...
LEMMA ListEmpty ==
  ASSUME NEW nx
  PROVE  IsList(nx, None, {})
<1> DEFINE f == [i \in 0 .. 0 |-> None]
<1>1. 0 \in Nat /\ f \in [0 .. 0 -> Blocks \cup {None}] /\ f[0] = None /\ 1 .. 0 = {}
  OBVIOUS
<1>2. Linked(nx, None, 0, f) /\ {} = {f[i] : i \in 1 .. 0}
  BY <1>1 DEF Linked
<1> QED
  BY <1>1, <1>2 DEF IsList

\* ... and the only list that starts with it.
LEMMA ListOfNone ==
  ASSUME NEW nx, NEW L, IsList(nx, None, L)
  PROVE  L = {}
<1>0. PICK n \in Nat : \E f \in [0 .. n -> Blocks \cup {None}] :
        Linked(nx, None, n, f) /\ L = {f[i] : i \in 1 .. n}
  BY DEF IsList
<1>1. PICK f \in [0 .. n -> Blocks \cup {None}] :
        Linked(nx, None, n, f) /\ L = {f[i] : i \in 1 .. n}
  BY <1>0
<1>2. n = 0
  BY <1>1, FreesAssumption DEF Linked
<1> QED
  BY <1>1, <1>2

\* The list depends only on the pointers inside its nodes.
LEMMA ListKeep ==
  ASSUME NEW nx, NEW ny, NEW x, NEW L, IsList(nx, x, L), \A b \in L : ny[b] = nx[b]
  PROVE  IsList(ny, x, L)
<1>0. PICK n \in Nat : \E f \in [0 .. n -> Blocks \cup {None}] :
        Linked(nx, x, n, f) /\ L = {f[i] : i \in 1 .. n}
  BY DEF IsList
<1>1. PICK f \in [0 .. n -> Blocks \cup {None}] :
        Linked(nx, x, n, f) /\ L = {f[i] : i \in 1 .. n}
  BY <1>0
<1>2. \A i \in 1 .. n : ny[f[i]] = nx[f[i]]
  BY <1>1
<1>3. Linked(ny, x, n, f)
  BY <1>1, <1>2 DEF Linked
<1> QED
  BY <1>1, <1>3 DEF IsList

\* Linking a block in front of a list it is not on.
LEMMA ListPush ==
  ASSUME NEW nx \in [Blocks -> Blocks \cup {None, Garbage}], NEW x, NEW L,
         IsList(nx, x, L), NEW b \in Blocks, b \notin L, nx[b] = x
  PROVE  IsList(nx, b, L \cup {b})
<1>0. PICK n \in Nat : \E f \in [0 .. n -> Blocks \cup {None}] :
        Linked(nx, x, n, f) /\ L = {f[i] : i \in 1 .. n}
  BY DEF IsList
<1>1. PICK f \in [0 .. n -> Blocks \cup {None}] :
        Linked(nx, x, n, f) /\ L = {f[i] : i \in 1 .. n}
  BY <1>0
<1> DEFINE g == [i \in 0 .. (n + 1) |-> IF i = n + 1 THEN b ELSE f[i]]
<1>2. n + 1 \in Nat /\ g \in [0 .. (n + 1) -> Blocks \cup {None}]
  OBVIOUS
<1>3. g[n + 1] = b /\ \A i \in 0 .. n : g[i] = f[i]
  OBVIOUS
<1>4. \A i \in 1 .. n : f[i] # b
  BY <1>1
<1> HIDE DEF g
<1>5. Linked(nx, b, n + 1, g)
  <2>1. g[0] = None
    BY <1>1, <1>3 DEF Linked
  <2>2. ASSUME NEW i \in 1 .. (n + 1)
        PROVE  g[i] \in Blocks /\ nx[g[i]] = g[i - 1]
    <3>1. CASE i = n + 1
      BY <1>1, <1>3, <3>1 DEF Linked
    <3>2. CASE i # n + 1
      <4>1. i \in 1 .. n /\ i - 1 \in 0 .. n /\ i \in 0 .. n
        BY <3>2
      <4> QED
        BY <1>1, <1>3, <4>1 DEF Linked
    <3> QED
      BY <3>1, <3>2
  <2>3. ASSUME NEW i \in 1 .. (n + 1), NEW j \in 1 .. (n + 1), g[i] = g[j]
        PROVE  i = j
    <3>1. \A k \in 1 .. (n + 1) : k # n + 1 => k \in 1 .. n /\ g[k] = f[k]
      BY <1>3
    <3> QED
      BY <1>1, <1>3, <1>4, <2>3, <3>1 DEF Linked
  <2> QED
    BY <1>3, <2>1, <2>2, <2>3 DEF Linked
<1>6. L \cup {b} = {g[i] : i \in 1 .. (n + 1)}
  <2>1. \A i \in 1 .. (n + 1) : i = n + 1 \/ (i \in 1 .. n /\ g[i] = f[i])
    BY <1>3
  <2>2. \A i \in 1 .. n : i \in 1 .. (n + 1) /\ g[i] = f[i]
    BY <1>3
  <2>3. n + 1 \in 1 .. (n + 1)
    OBVIOUS
  <2> QED
    BY <1>1, <1>3, <2>1, <2>2, <2>3
<1> QED
  BY <1>2, <1>5, <1>6 DEF IsList

\* Stepping over the first node.
LEMMA ListPop ==
  ASSUME NEW nx, NEW x, NEW L, IsList(nx, x, L), x # None
  PROVE  /\ x \in L /\ x \in Blocks /\ nx[x] \in Blocks \cup {None}
         /\ IsList(nx, nx[x], L \ {x})
<1>0. PICK n \in Nat : \E f \in [0 .. n -> Blocks \cup {None}] :
        Linked(nx, x, n, f) /\ L = {f[i] : i \in 1 .. n}
  BY DEF IsList
<1>1. PICK f \in [0 .. n -> Blocks \cup {None}] :
        Linked(nx, x, n, f) /\ L = {f[i] : i \in 1 .. n}
  BY <1>0
<1>2. n # 0 /\ n \in 1 .. n /\ n - 1 \in Nat /\ n - 1 \in 0 .. n
  <2>1. n # 0
    BY <1>1 DEF Linked
  <2> QED
    BY <2>1
<1>3. x = f[n] /\ x \in L /\ x \in Blocks /\ nx[x] = f[n - 1]
  BY <1>1, <1>2 DEF Linked
<1> DEFINE g == [i \in 0 .. (n - 1) |-> f[i]]
<1>4. g \in [0 .. (n - 1) -> Blocks \cup {None}] /\ \A i \in 0 .. (n - 1) : g[i] = f[i]
  BY <1>2
<1> HIDE DEF g
<1>5. Linked(nx, nx[x], n - 1, g)
  <2>1. g[0] = None /\ g[n - 1] = nx[x]
    BY <1>1, <1>2, <1>3, <1>4 DEF Linked
  <2>2. ASSUME NEW i \in 1 .. (n - 1)
        PROVE  g[i] \in Blocks /\ nx[g[i]] = g[i - 1]
    <3>1. i \in 1 .. n /\ i \in 0 .. (n - 1) /\ i - 1 \in 0 .. (n - 1)
      OBVIOUS
    <3> QED
      BY <1>1, <1>4, <3>1 DEF Linked
  <2>3. ASSUME NEW i \in 1 .. (n - 1), NEW j \in 1 .. (n - 1), g[i] = g[j]
        PROVE  i = j
    <3>1. \A k \in 1 .. (n - 1) : k \in 1 .. n /\ g[k] = f[k]
      BY <1>4
    <3> QED
      BY <1>1, <2>3, <3>1 DEF Linked
  <2> QED
    BY <2>1, <2>2, <2>3 DEF Linked
<1>6. L \ {x} = {g[i] : i \in 1 .. (n - 1)}
  <2>1. \A i \in 1 .. n : i = n \/ (i \in 1 .. (n - 1) /\ g[i] = f[i])
    BY <1>4
  <2>2. \A i \in 1 .. (n - 1) : i \in 1 .. n /\ i # n /\ g[i] = f[i]
    BY <1>4
  <2>3. \A i \in 1 .. (n - 1) : f[i] # x
    BY <1>1, <1>2, <1>3, <2>2 DEF Linked
  <2> QED
    BY <1>1, <1>3, <2>1, <2>2, <2>3
<1> QED
  BY <1>2, <1>3, <1>4, <1>5, <1>6 DEF IsList

\* The search of Chain, from x along the pointers nx.
Search(nx, x, g) ==
  [k \in 0 .. Cardinality(Blocks) |->
     IF k = 0 THEN {x} ELSE g[k - 1] \cup {nx[b] : b \in g[k - 1] \cap Blocks}]

\* The search is well defined ...
LEMMA SearchUnique ==
  ASSUME NEW nx, NEW x, NEW g, NEW h, g = Search(nx, x, g), h = Search(nx, x, h),
         Cardinality(Blocks) \in Nat
  PROVE  g = h
<1> DEFINE N == Cardinality(Blocks)
           D == {k \in 0 .. N : g[k] # h[k]}
<1>1. D = {}
  <2> SUFFICES ASSUME D # {}
               PROVE  FALSE
    OBVIOUS
  <2>1. PICK k \in D : \A i \in D : k <= i
    <3>1. D \in SUBSET Nat
      OBVIOUS
    <3> HIDE DEF D
    <3> QED
      BY <3>1, HasSmallest
  <2>2. k # 0 /\ k \in 0 .. N /\ k - 1 \in 0 .. N /\ k - 1 \notin D
    <3>1. k # 0
      BY DEF Search
    <3> QED
      BY <2>1, <3>1
  <2>3. g[k - 1] = h[k - 1]
    BY <2>2
  <2>4. g[k] = g[k - 1] \cup {nx[b] : b \in g[k - 1] \cap Blocks}
    BY <2>2 DEF Search
  <2>5. h[k] = h[k - 1] \cup {nx[b] : b \in h[k - 1] \cap Blocks}
    BY <2>2 DEF Search
  <2> QED
    BY <2>3, <2>4, <2>5
<1>2. g = [k \in 0 .. N |-> g[k]] /\ h = [k \in 0 .. N |-> h[k]]
  BY DEF Search
<1> QED
  BY <1>1, <1>2

\* ... and Chain is what it has found after as many rounds as there are blocks.
LEMMA ChainDef ==
  ASSUME NEW x
  PROVE  Chain(x) = (CHOOSE g : g = Search(next, x, g))[Cardinality(Blocks)] \cap Blocks
  BY DEF Chain, Search

\* A list has no more nodes than there are blocks.
LEMMA ListIsShort ==
  ASSUME NEW nx, NEW x, NEW n \in Nat, NEW f, Linked(nx, x, n, f)
  PROVE  n <= Cardinality(Blocks)
<1> DEFINE h == [i \in 1 .. n |-> f[i]]
<1>1. h \in Injection(1 .. n, Blocks)
  <2>1. h \in [1 .. n -> Blocks]
    BY DEF Linked
  <2>2. \A i, j \in 1 .. n : h[i] = h[j] => i = j
    BY DEF Linked
  <2> QED
    BY <2>1, <2>2 DEF Injection, IsInjective
<1>2. IsFiniteSet(1 .. n) /\ Cardinality(1 .. n) = n
  <2>1. 1 \in Int /\ n \in Int
    OBVIOUS
  <2>2. /\ IsFiniteSet(1 .. n)
        /\ Cardinality(1 .. n) = IF 1 > n THEN 0 ELSE n - 1 + 1
    BY <2>1, FS_Interval
  <2> QED
    BY <2>2
<1> HIDE DEF h
<1> QED
  BY <1>1, <1>2, FS_Injection, FreesAssumption

\* Chain collects the nodes of a well-formed list.
LEMMA ChainIs ==
  ASSUME NEW x, NEW L, IsList(next, x, L)
  PROVE  Chain(x) = L
<1>0. PICK n \in Nat : \E f \in [0 .. n -> Blocks \cup {None}] :
        Linked(next, x, n, f) /\ L = {f[i] : i \in 1 .. n}
  BY DEF IsList
<1>1. PICK f \in [0 .. n -> Blocks \cup {None}] :
        Linked(next, x, n, f) /\ L = {f[i] : i \in 1 .. n}
  BY <1>0
<1> DEFINE N == Cardinality(Blocks)
           Seen(k) == {f[j] : j \in {i \in 0 .. n : i + k >= n}}
           g == [k \in 0 .. N |-> Seen(k)]
<1>2. N \in Nat /\ n <= N
  BY <1>1, ListIsShort, FS_CardinalityType, FreesAssumption
<1>3. Seen(0) = {x}
  <2>1. {i \in 0 .. n : i + 0 >= n} = {n}
    OBVIOUS
  <2> QED
    BY <1>1, <2>1 DEF Linked
<1>4. ASSUME NEW k \in 1 .. N
      PROVE  Seen(k) = Seen(k - 1) \cup {next[b] : b \in Seen(k - 1) \cap Blocks}
  <2>1. ASSUME NEW j \in 0 .. n, j + k >= n
        PROVE  \/ f[j] \in Seen(k - 1)
               \/ \E b \in Seen(k - 1) \cap Blocks : f[j] = next[b]
    <3>1. CASE j + (k - 1) >= n
      BY <3>1
    <3>2. CASE ~(j + (k - 1) >= n)
      <4>1. j + 1 \in 1 .. n /\ j + 1 \in 0 .. n /\ (j + 1) + (k - 1) >= n /\ (j + 1) - 1 = j
        BY <2>1, <3>2
      <4>2. f[j + 1] \in Blocks /\ next[f[j + 1]] = f[j]
        BY <1>1, <4>1 DEF Linked
      <4>3. f[j + 1] \in Seen(k - 1)
        BY <4>1
      <4> QED
        BY <4>2, <4>3
    <3> QED
      BY <3>1, <3>2
  <2>2. ASSUME NEW j \in 0 .. n, j + (k - 1) >= n
        PROVE  f[j] \in Seen(k)
    <3>1. j + k >= n
      BY <2>2
    <3> QED
      BY <3>1
  <2>3. ASSUME NEW j \in 0 .. n, j + (k - 1) >= n, f[j] \in Blocks
        PROVE  next[f[j]] \in Seen(k)
    <3>1. j # 0
      BY <1>1, <2>3, FreesAssumption DEF Linked
    <3>2. j \in 1 .. n /\ j - 1 \in 0 .. n /\ (j - 1) + k >= n
      BY <2>3, <3>1
    <3>3. next[f[j]] = f[j - 1]
      BY <1>1, <3>2 DEF Linked
    <3> QED
      BY <3>2, <3>3
  <2>4. ASSUME NEW y \in Seen(k)
        PROVE  y \in Seen(k - 1) \cup {next[b] : b \in Seen(k - 1) \cap Blocks}
    <3>1. PICK j \in 0 .. n : j + k >= n /\ y = f[j]
      OBVIOUS
    <3> HIDE DEF Seen
    <3> QED
      BY <2>1, <3>1
  <2>5. ASSUME NEW y \in Seen(k - 1)
        PROVE  y \in Seen(k) /\ (y \in Blocks => next[y] \in Seen(k))
    <3>1. PICK j \in 0 .. n : j + (k - 1) >= n /\ y = f[j]
      OBVIOUS
    <3> HIDE DEF Seen
    <3> QED
      BY <2>2, <2>3, <3>1
  <2> HIDE DEF Seen
  <2> QED
    BY <2>4, <2>5
<1>5. g = Search(next, x, g)
  <2>1. ASSUME NEW k \in 0 .. N
        PROVE  g[k] = IF k = 0 THEN {x} ELSE g[k - 1] \cup {next[b] : b \in g[k - 1] \cap Blocks}
    <3>1. g[k] = Seen(k) /\ (k # 0 => k \in 1 .. N /\ k - 1 \in 0 .. N)
      BY <1>2
    <3>2. k # 0 => g[k - 1] = Seen(k - 1)
      BY <3>1
    <3> HIDE DEF g, Seen
    <3> QED
      BY <3>1, <3>2, <1>3, <1>4
  <2>2. g = [k \in 0 .. N |-> g[k]]
    OBVIOUS
  <2> HIDE DEF g
  <2> QED
    BY <2>1, <2>2 DEF Search
<1>6. (CHOOSE h : h = Search(next, x, h)) = g
  <2> HIDE DEF g
  <2>1. \A h : h = Search(next, x, h) => h = g
    BY <1>2, <1>5, SearchUnique
  <2> QED
    BY <1>5, <2>1
<1>7. g[N] \cap Blocks = L
  <2>1. g[N] = Seen(N)
    BY <1>2
  <2>2. {i \in 0 .. n : i + N >= n} = 0 .. n
    BY <1>2
  <2>3. \A i \in 0 .. n : f[i] \in Blocks <=> i \in 1 .. n
    BY <1>1, FreesAssumption DEF Linked
  <2>4. 1 .. n \subseteq 0 .. n
    OBVIOUS
  <2>5. Seen(N) = {f[i] : i \in 0 .. n}
    BY <2>2
  <2> QED
    BY <1>1, <2>1, <2>3, <2>4, <2>5
<1> HIDE DEF g
<1> QED
  BY <1>6, <1>7, ChainDef

-----------------------------------------------------------------------------
(* The invariant *)

Busy(p) == pc[p] # "idle"
Holds(p) == pc[p] \in {"write", "publish"}

\* Ticket t is published and not yet popped.
Queued(t) ==
  t \in head .. (tail - 1) /\ \A p \in Producers : Holds(p) => myTail[p] # t

\* it is a free under way: its block is in flight and was freed this way.
Sent(it) ==
  it \in Frees /\ holder[it.ptr] = "flight" /\ asked[it.ptr] = it.size

\* The program positions of the threads and of the owner.
Positions ==
  /\ pc \in [Producers -> {"idle", "seq", "cas", "load", "write", "publish", "full", "link"}]
  /\ cpc = "advance" => opc = "ring"

\* Each free under way is either released already or its block is in flight.
InFlight == {b \in Blocks : holder[b] = "flight"}
Counted == answers + Cardinality(InFlight) = frees

\* Everything that travels by ring or is about to be released was asked for.
Travelling ==
  /\ \A p \in Producers : Busy(p) => Sent(item[p])
  /\ \A t \in Nat : Queued(t) => Sent(log[t + 1])
  /\ opc = "release" => Sent(out)

\* L is the overflow list and W what is left of the list being walked.
Lists(L, W) ==
  /\ IsList(next, ovf, L)
  /\ IsList(next, IF opc = "walk" THEN nd ELSE None, W)

\* The nodes inside the blocks hold what was asked for.
Nodes(L, W) ==
  /\ \A b \in L \cup W : holder[b] = "flight" /\ size[b] = asked[b] /\ asked[b] \in Sizes
  /\ \A p \in Producers : pc[p] = "link" => size[item[p].ptr] = item[p].size

\* No block is in two places.
Apart(L, W) ==
  /\ \A p, q \in Producers : Busy(p) /\ Busy(q) /\ item[p].ptr = item[q].ptr => p = q
  /\ \A t, u \in Nat : Queued(t) /\ Queued(u) /\ log[t + 1].ptr = log[u + 1].ptr => t = u
  /\ \A p \in Producers, t \in Nat : Busy(p) /\ Queued(t) => item[p].ptr # log[t + 1].ptr
  /\ opc = "release" => /\ \A p \in Producers : Busy(p) => item[p].ptr # out.ptr
                        /\ \A t \in Nat : Queued(t) => log[t + 1].ptr # out.ptr
                        /\ out.ptr \notin L \cup W
  /\ \A p \in Producers : Busy(p) => item[p].ptr \notin L \cup W
  /\ \A t \in Nat : Queued(t) => log[t + 1].ptr \notin L \cup W
  /\ L \cap W = {}

\* No block in flight is lost.
Found(L, W) ==
  \A b \in Blocks : holder[b] = "flight" =>
    \/ \E p \in Producers : Busy(p) /\ item[p].ptr = b
    \/ \E t \in Nat : Queued(t) /\ log[t + 1].ptr = b
    \/ opc = "release" /\ out.ptr = b
    \/ b \in L \cup W

\* The inductive invariant of the remote frees.
RemoteInv ==
  /\ TypeOK /\ Positions /\ Counted /\ Travelling
  /\ \E L, W \in SUBSET Blocks :
       Lists(L, W) /\ Nodes(L, W) /\ Apart(L, W) /\ Found(L, W)

-----------------------------------------------------------------------------
(* The ring of the arena is the ring of MpscFreeQueue *)

\* A push that went on to the overflow list has left the ring.
ringPc == [p \in Producers |-> IF pc[p] = "link" THEN "idle" ELSE pc[p]]
Cycle == INSTANCE MpscFreeQueueProofs
  WITH Items <- Frees, NoItem <- None, MaxTickets <- MaxFrees, pc <- ringPc

\* What the ring assumes of its constants.
LEMMA RingAssumptions ==
  /\ Capacity \in Nat \ {0} /\ Capacity >= 2
  /\ None \notin Frees
  /\ MaxFrees \in Nat
  BY FreesAssumption DEF Frees

\* A free is a pointer and a size.
LEMMA FreeFields ==
  /\ \A b \in Blocks, sz \in Sizes :
       /\ [ptr |-> b, size |-> sz] \in Frees
       /\ [ptr |-> b, size |-> sz].ptr = b /\ [ptr |-> b, size |-> sz].size = sz
  /\ \A it \in Frees : it.ptr \in Blocks /\ it.size \in Sizes
  BY DEF Frees

\* The threads' positions are kept by every step.
LEMMA PositionsStep ==
  ASSUME Positions, [Next]_vars
  PROVE  Positions'
  BY DEF Positions, Next, vars, ringVars, PushStep, RingPush, OvfLoad, OvfLink, OvfRetry,
         Alloc, RemotePush, MaybeDrain, DrainStep, DrainPop, DrainRelease, DrainTake,
         DrainWalk, DrainEnd, Ring!At, Ring!PushBegin, Ring!PushReadSeq, Ring!PushCas,
         Ring!PushCasFail, Ring!PushReload, Ring!PushWrite, Ring!PushPublish,
         Ring!PopCheck, Ring!PopAdvance

\* Moving one thread moves its place in the ring.
LEMMA RingMove ==
  ASSUME Positions, NEW p \in Producers, NEW to, pc' = [pc EXCEPT ![p] = to]
  PROVE  ringPc' = [ringPc EXCEPT ![p] = IF to = "link" THEN "idle" ELSE to]
  BY DEF ringPc, Positions

\* Every step of the remote frees is a step of the ring, or none.
LEMMA RingStep ==
  ASSUME Positions, [Next]_vars
  PROVE  [Cycle!Next]_(Cycle!vars)
<1>1. ASSUME NEW p \in Producers, NEW b \in Blocks, NEW sz \in Sizes, RemotePush(p, b, sz)
      PROVE  Cycle!Next
  <2>1. Ring!PushBegin(p, [ptr |-> b, size |-> sz])
    BY <1>1 DEF RemotePush
  <2>2. ringPc[p] = "idle" /\ ringPc' = [ringPc EXCEPT ![p] = "seq"]
    BY <2>1, RingMove DEF Ring!PushBegin, Ring!At, ringPc, Positions
  <2>3. Cycle!PushBegin(p, [ptr |-> b, size |-> sz])
    BY <2>1, <2>2 DEF Ring!PushBegin, Ring!At, Cycle!PushBegin, Cycle!At
  <2> QED
    BY <2>3, FreeFields DEF Cycle!Next
<1>2. ASSUME NEW p \in Producers, RingPush(p)
      PROVE  Cycle!Next
  <2>1. \A q \in Producers : pc[q] # "link" => ringPc[q] = pc[q]
    BY DEF ringPc
  <2>2. CASE Ring!PushReadSeq(p)
    <3>1. Cycle!PushReadSeq(p)
      BY <2>1, <2>2, RingMove
      DEF Ring!PushReadSeq, Ring!At, Ring!Idx, Cycle!PushReadSeq, Cycle!At, Cycle!Idx
    <3> QED
      BY <3>1 DEF Cycle!Next, Cycle!PushStep
  <2>3. CASE Ring!PushCas(p)
    <3>1. Cycle!PushCas(p)
      BY <2>1, <2>3, RingMove DEF Ring!PushCas, Ring!At, Cycle!PushCas, Cycle!At
    <3> QED
      BY <3>1 DEF Cycle!Next, Cycle!PushStep
  <2>4. CASE Ring!PushCasFail(p)
    <3>1. Cycle!PushCasFail(p)
      BY <2>1, <2>4, RingMove DEF Ring!PushCasFail, Ring!At, Cycle!PushCasFail, Cycle!At
    <3> QED
      BY <3>1 DEF Cycle!Next, Cycle!PushStep
  <2>5. CASE Ring!PushReload(p)
    <3>1. Cycle!PushReload(p)
      BY <2>1, <2>5, RingMove DEF Ring!PushReload, Ring!At, Cycle!PushReload, Cycle!At
    <3> QED
      BY <3>1 DEF Cycle!Next, Cycle!PushStep
  <2>6. CASE Ring!PushWrite(p)
    <3>1. Cycle!PushWrite(p)
      BY <2>1, <2>6, RingMove
      DEF Ring!PushWrite, Ring!At, Ring!Idx, Cycle!PushWrite, Cycle!At, Cycle!Idx
    <3> QED
      BY <3>1 DEF Cycle!Next, Cycle!PushStep
  <2>7. CASE Ring!PushPublish(p)
    <3>1. Cycle!PushPublish(p)
      BY <2>1, <2>7, RingMove
      DEF Ring!PushPublish, Ring!At, Ring!Idx, Cycle!PushPublish, Cycle!At, Cycle!Idx
    <3> QED
      BY <3>1 DEF Cycle!Next, Cycle!PushStep
  <2> QED
    BY <1>2, <2>2, <2>3, <2>4, <2>5, <2>6, <2>7 DEF RingPush
<1>3. ASSUME NEW p \in Producers, OvfLoad(p)
      PROVE  Cycle!Next
  <2>1. ringPc[p] = "full" /\ ringPc' = [ringPc EXCEPT ![p] = "idle"]
    BY <1>3, RingMove DEF OvfLoad, ringPc
  <2>2. Cycle!PushGiveUp(p)
    BY <1>3, <2>1 DEF OvfLoad, Cycle!PushGiveUp, Cycle!At
  <2> QED
    BY <2>2 DEF Cycle!Next, Cycle!PushStep
<1>4. ASSUME NEW p \in Producers, OvfLink(p)
      PROVE  UNCHANGED Cycle!vars
  <2>1. ringPc[p] = "idle" /\ ringPc' = [ringPc EXCEPT ![p] = "idle"]
    BY <1>4, RingMove DEF OvfLink, ringPc
  <2>2. ringPc' = ringPc
    BY <2>1 DEF ringPc
  <2> QED
    BY <1>4, <2>2 DEF OvfLink, Cycle!vars
<1>5. CASE DrainPop
  <2>1. CASE Ring!PopCheck
    <3>1. Cycle!PopCheck
      BY <2>1 DEF Ring!PopCheck, Ring!Idx, Cycle!PopCheck, Cycle!Idx, ringPc
    <3> QED
      BY <3>1 DEF Cycle!Next
  <2>2. CASE Ring!PopAdvance
    <3>1. Cycle!PopAdvance
      BY <2>2 DEF Ring!PopAdvance, Ring!Idx, Cycle!PopAdvance, Cycle!Idx, ringPc
    <3> QED
      BY <3>1 DEF Cycle!Next
  <2> QED
    BY <1>5, <2>1, <2>2 DEF DrainPop
<1>6. ASSUME UNCHANGED ringVars
      PROVE  UNCHANGED Cycle!vars
  BY <1>6 DEF ringVars, Cycle!vars, ringPc
<1> QED
  BY <1>1, <1>2, <1>3, <1>4, <1>5, <1>6
  DEF Next, vars, PushStep, OvfRetry, Alloc, MaybeDrain, DrainStep, DrainRelease,
      DrainTake, DrainWalk, DrainEnd

\* The initial state of the ring.
LEMMA RingStart == Init => Cycle!Init /\ Positions
  BY DEF Init, Ring!Init, Ring!Cells, Cycle!Init, Cycle!Cells, Positions, ringPc

\* Behaviours of the remote frees are behaviours of the ring, so all that is
\* proved of push and pop holds for the arena's ring (arena.hpp, __remote).
THEOREM UsesRing == Spec => Cycle!Spec
  BY RingStart, RingStep, PositionsStep, PTL DEF Spec, Cycle!Spec

-----------------------------------------------------------------------------
(* What the proofs below use of the ring *)

\* Tickets: the held ones are open, different, and stand for their thread's
\* free; the one being popped is published.
RingFacts ==
  /\ tail \in Nat /\ head \in Nat /\ head <= tail
  /\ log \in Seq(Frees) /\ Len(log) = tail
  /\ myTail \in [Producers -> Nat]
  /\ item \in [Producers -> Frees \cup {None}]
  /\ \A p \in Producers : Holds(p) =>
       /\ head <= myTail[p] /\ myTail[p] < tail
       /\ log[myTail[p] + 1] = item[p]
  /\ \A p, q \in Producers : Holds(p) /\ Holds(q) /\ myTail[p] = myTail[q] => p = q
  /\ cpc = "advance" => Queued(head) /\ out = log[head + 1]

\* A ticket is queued exactly if its cell's tag says so; the cell holds it.
CellFacts ==
  \A t \in head .. (tail - 1) :
    /\ Queued(t) <=> seq[Ring!Idx(t)] = t + 1
    /\ Queued(t) => payload[Ring!Idx(t)] = log[t + 1]

\* Both follow from the invariant of the ring.
LEMMA RingGives ==
  ASSUME Positions, Cycle!TypeOK, Cycle!RingInv
  PROVE  RingFacts /\ CellFacts
<1>1. \A p \in Producers : Cycle!Holds(p) <=> Holds(p)
  BY DEF Cycle!Holds, Holds, ringPc, Positions
<1>2. /\ tail \in Nat /\ head \in Nat
      /\ log \in Seq(Frees)
      /\ myTail \in [Producers -> Nat]
      /\ item \in [Producers -> Frees \cup {None}]
  BY DEF Cycle!TypeOK
<1>3. head <= tail /\ Len(log) = tail
  BY DEF Cycle!RingInv, Cycle!Bounds, Cycle!History
<1>4. ASSUME NEW p \in Producers, Holds(p)
      PROVE  /\ head <= myTail[p] /\ myTail[p] < tail
             /\ log[myTail[p] + 1] = item[p]
             /\ seq[Ring!Idx(myTail[p])] = myTail[p]
  BY <1>1, <1>4 DEF Cycle!RingInv, Cycle!Claims, Cycle!Idx, Ring!Idx
<1>5. \A p, q \in Producers : Holds(p) /\ Holds(q) /\ myTail[p] = myTail[q] => p = q
  BY <1>1 DEF Cycle!RingInv, Cycle!Claims
<1>6. ASSUME NEW t \in head .. (tail - 1)
      PROVE  /\ Queued(t) <=> seq[Ring!Idx(t)] = t + 1
             /\ Queued(t) => payload[Ring!Idx(t)] = log[t + 1]
  <2>1. \/ seq[Ring!Idx(t)] = t + 1 /\ payload[Ring!Idx(t)] = log[t + 1]
        \/ seq[Ring!Idx(t)] = t /\ \E p \in Producers : Holds(p) /\ myTail[p] = t
    BY <1>1 DEF Cycle!RingInv, Cycle!Window, Cycle!Idx, Ring!Idx
  <2>2. t # t + 1
    BY <1>2
  <2> QED
    BY <1>4, <2>1, <2>2 DEF Queued
<1>7. ASSUME cpc = "advance"
      PROVE  Queued(head) /\ out = log[head + 1]
  <2>1. head < tail /\ seq[Ring!Idx(head)] = head + 1 /\ out = log[head + 1]
    BY <1>7 DEF Cycle!RingInv, Cycle!History, Cycle!Idx, Ring!Idx
  <2>2. head \in head .. (tail - 1)
    BY <1>2, <2>1
  <2> QED
    BY <1>6, <2>1, <2>2
<1>8. RingFacts
  BY <1>2, <1>3, <1>4, <1>5, <1>7 DEF RingFacts
<1> QED
  BY <1>6, <1>8 DEF CellFacts

\* ... in every reachable state.
LEMMA RingAlways == Spec => [](Positions /\ RingFacts /\ CellFacts)
<1>1. Cycle!Spec => []Cycle!TypeOK
  BY RingAssumptions, Cycle!TypeCorrect
<1>2. Cycle!Spec => []Cycle!RingInv
  <2>1. Capacity >= 2
    BY RingAssumptions
  <2> QED
    BY <2>1, RingAssumptions, Cycle!RingSafe
<1>3. Positions /\ Cycle!TypeOK /\ Cycle!RingInv => RingFacts /\ CellFacts
  BY RingGives
<1>4. Spec => []Positions
  BY RingStart, PositionsStep, PTL DEF Spec
<1> QED
  BY <1>1, <1>2, <1>3, <1>4, UsesRing, PTL

-----------------------------------------------------------------------------
(* The invariant is inductive *)

\* The lists, their nodes and the places of all blocks in flight.
Placed(L, W) == Lists(L, W) /\ Nodes(L, W) /\ Apart(L, W) /\ Found(L, W)

\* Nothing a step does in private moves a free.
Unmoved ==
  /\ \A p \in Producers : Busy(p)' <=> Busy(p)
  /\ \A p \in Producers : Busy(p) => item'[p] = item[p]
  /\ \A t \in Nat : Queued(t)' <=> Queued(t)
  /\ \A t \in Nat : Queued(t) => log'[t + 1] = log[t + 1]
  /\ opc' = "release" <=> opc = "release"
  /\ opc = "release" => out' = out
  /\ UNCHANGED blockVars

\* What is not moved stays found, apart and as it was sent.
LEMMA UnmovedKeeps ==
  ASSUME Travelling, NEW L, NEW W, NEW M, NEW V, L \cup W = M \cup V, M \cap V = {},
         Apart(L, W), Found(L, W), Unmoved
  PROVE  Travelling' /\ Apart(M, V)' /\ Found(M, V)' /\ (Counted => Counted')
<1> USE DEF Unmoved, blockVars
<1>1. Travelling'
  BY DEF Travelling, Sent
<1>2. Apart(M, V)'
  BY DEF Apart
<1>3. Found(M, V)'
  BY DEF Found
<1>4. Counted => Counted'
  BY DEF Counted, InFlight
<1> QED
  BY <1>1, <1>2, <1>3, <1>4

\* The steps of push before the tag is published move nothing.
LEMMA PushUnmoved ==
  ASSUME Positions, RingFacts, NEW p \in Producers, RingPush(p), ~Ring!PushPublish(p)
  PROVE  Unmoved
<1>1. UNCHANGED <<ovfVars, opc, nd, blockVars>>
  BY DEF RingPush
<1>2. CASE Ring!PushCas(p)
  <2>1. /\ pc[p] = "cas" /\ pc' = [pc EXCEPT ![p] = "write"]
        /\ tail = myTail[p] /\ tail' = tail + 1 /\ log' = Append(log, item[p])
        /\ UNCHANGED <<head, myTail, item, cpc, out>>
    BY <1>2 DEF Ring!PushCas, Ring!At
  <2>2. /\ Busy(p) /\ Busy(p)' /\ Holds(p)' /\ ~Holds(p)
        /\ \A q \in Producers : q # p => (Busy(q)' <=> Busy(q)) /\ (Holds(q)' <=> Holds(q))
    BY <2>1 DEF Busy, Holds, Positions
  <2>3. ASSUME NEW t \in Nat
        PROVE  Queued(t)' <=> Queued(t)
    <3>1. t # tail => (t \in head .. (tail - 1) <=> t \in head' .. (tail' - 1))
      BY <2>1 DEF RingFacts
    <3>2. t = tail => ~Queued(t) /\ ~Queued(t)'
      BY <2>1, <2>2 DEF Queued, RingFacts
    <3>3. t # tail => myTail[p] # t
      BY <2>1
    <3> QED
      BY <2>1, <2>2, <3>1, <3>2, <3>3 DEF Queued
  <2>4. ASSUME NEW t \in Nat, Queued(t)
        PROVE  log'[t + 1] = log[t + 1]
    <3>1. t + 1 \in 1 .. tail
      BY <2>4 DEF Queued, RingFacts
    <3>2. item[p] \in Frees \cup {None} /\ log \in Seq(Frees) /\ Len(log) = tail
      BY DEF RingFacts
    <3> QED
      BY <2>1, <3>1, <3>2
  <2> QED
    BY <1>1, <2>1, <2>2, <2>3, <2>4 DEF Unmoved
<1>3. CASE ~Ring!PushCas(p)
  <2>1. /\ UNCHANGED <<tail, head, item, cpc, out, log>>
        /\ \A q \in Producers : (Busy(q)' <=> Busy(q)) /\ (Holds(q)' <=> Holds(q))
        /\ \A q \in Producers : Holds(q) => myTail'[q] = myTail[q]
    BY <1>3 DEF RingPush, Ring!PushReadSeq, Ring!PushCasFail, Ring!PushReload, Ring!PushWrite,
                Ring!At, Busy, Holds, Positions, RingFacts
  <2>2. \A t \in Nat : Queued(t)' <=> Queued(t)
    BY <2>1 DEF Queued
  <2> QED
    BY <1>1, <2>1, <2>2 DEF Unmoved
<1> QED
  BY <1>2, <1>3

\* A step of push before the tag is published.
LEMMA RingPushKeeps ==
  ASSUME RemoteInv, RingFacts, NEW p \in Producers, RingPush(p), ~Ring!PushPublish(p)
  PROVE  TypeOK' /\ Counted' /\ Travelling' /\ \E L, W \in SUBSET Blocks : Placed(L, W)'
<1>1. PICK L, W \in SUBSET Blocks : Placed(L, W)
  BY DEF RemoteInv, Placed
<1>2. Unmoved /\ UNCHANGED <<ovfVars, opc, nd, blockVars>>
  BY PushUnmoved DEF RemoteInv, RingPush
<1>3. TypeOK'
  BY <1>2 DEF RemoteInv, TypeOK, ovfVars, blockVars
<1>4. Travelling' /\ Apart(L, W)' /\ Found(L, W)' /\ Counted'
  <2>1. Travelling /\ Apart(L, W) /\ Found(L, W) /\ Counted /\ L \cap W = {}
    BY <1>1 DEF RemoteInv, Placed, Apart
  <2> QED
    BY <1>2, <2>1, UnmovedKeeps
<1>5. Lists(L, W)'
  BY <1>1, <1>2 DEF Placed, Lists, ovfVars
<1>6. Nodes(L, W)'
  <2>1. \A q \in Producers : pc'[q] = "link" => pc[q] = "link" /\ item'[q] = item[q]
    BY DEF RingPush, Ring!PushReadSeq, Ring!PushCas, Ring!PushCasFail, Ring!PushReload,
           Ring!PushWrite, Ring!At, RemoteInv, Positions
  <2> QED
    BY <1>1, <1>2, <2>1 DEF Placed, Nodes, ovfVars, blockVars
<1> QED
  BY <1>3, <1>4, <1>5, <1>6 DEF Placed

\* Publishing a ticket moves the free from its thread to the ring.
LEMMA PublishKeeps ==
  ASSUME RemoteInv, RingFacts, NEW p \in Producers, RingPush(p), Ring!PushPublish(p)
  PROVE  TypeOK' /\ Counted' /\ Travelling' /\ \E L, W \in SUBSET Blocks : Placed(L, W)'
<1>0. PICK m \in Nat : m = myTail[p]
  BY DEF RingFacts
<1>1. PICK L, W \in SUBSET Blocks : Placed(L, W)
  BY DEF RemoteInv, Placed
<1>2. /\ pc[p] = "publish" /\ pc' = [pc EXCEPT ![p] = "idle"]
      /\ UNCHANGED <<tail, head, myTail, item, cpc, out, log>>
      /\ UNCHANGED <<ovfVars, opc, nd, blockVars>>
  BY DEF RingPush, Ring!PushPublish, Ring!At
<1>3. /\ Busy(p) /\ Holds(p) /\ ~Busy(p)' /\ ~Holds(p)'
      /\ \A q \in Producers : q # p => (Busy(q)' <=> Busy(q)) /\ (Holds(q)' <=> Holds(q))
  BY <1>2 DEF Busy, Holds, RemoteInv, Positions
<1>4. m \in Nat /\ m \in head .. (tail - 1) /\ log[m + 1] = item[p]
  BY <1>0, <1>3 DEF RingFacts
<1>5. \A t \in Nat : Queued(t)' <=> Queued(t) \/ t = m
  <2>1. Queued(m)' /\ ~Queued(m)
    BY <1>0, <1>2, <1>3, <1>4 DEF Queued, RingFacts
  <2>2. ASSUME NEW t \in Nat, t # m
        PROVE  Queued(t)' <=> Queued(t)
    BY <1>0, <1>2, <1>3, <2>2 DEF Queued
  <2> QED
    BY <2>1, <2>2
<1>6. TypeOK'
  BY <1>2 DEF RemoteInv, TypeOK, ovfVars, blockVars
<1>7. Counted'
  BY <1>2 DEF RemoteInv, Counted, InFlight, blockVars
<1>8. Travelling'
  BY <1>2, <1>3, <1>4, <1>5 DEF RemoteInv, Travelling, Sent, blockVars
<1>9. Lists(L, W)'
  BY <1>1, <1>2 DEF Placed, Lists, ovfVars
<1>10. Nodes(L, W)'
  <2>1. \A q \in Producers : pc'[q] = "link" => pc[q] = "link"
    BY <1>2 DEF RemoteInv, Positions
  <2> QED
    BY <1>1, <1>2, <2>1 DEF Placed, Nodes, ovfVars, blockVars
<1>11. Apart(L, W)'
  <2>1. Apart(L, W)
    BY <1>1 DEF Placed
  <2> QED
    BY <1>2, <1>3, <1>4, <1>5, <2>1 DEF Apart
<1>12. Found(L, W)'
  <2>1. Found(L, W)
    BY <1>1 DEF Placed
  <2> QED
    BY <1>2, <1>3, <1>4, <1>5, <2>1 DEF Found, blockVars
<1> QED
  BY <1>6, <1>7, <1>8, <1>9, <1>10, <1>11, <1>12 DEF Placed

\* A new free takes a block its thread holds, which is in no place yet.
LEMMA RemotePushKeeps ==
  ASSUME RemoteInv, RingFacts, NEW p \in Producers, NEW b \in Blocks, NEW sz \in Sizes,
         RemotePush(p, b, sz)
  PROVE  TypeOK' /\ Counted' /\ Travelling' /\ \E L, W \in SUBSET Blocks : Placed(L, W)'
<1> DEFINE it == [ptr |-> b, size |-> sz]
<1>1. PICK L, W \in SUBSET Blocks : Placed(L, W)
  BY DEF RemoteInv, Placed
<1>2. /\ pc[p] = "idle" /\ pc' = [pc EXCEPT ![p] = "seq"]
      /\ item' = [item EXCEPT ![p] = it]
      /\ myTail' = [myTail EXCEPT ![p] = tail]
      /\ UNCHANGED <<tail, head, cpc, out, log>>
      /\ holder[b] = p /\ frees < MaxFrees
      /\ holder' = [holder EXCEPT ![b] = "flight"]
      /\ asked' = [asked EXCEPT ![b] = sz]
      /\ got' = [got EXCEPT ![b] = None]
      /\ frees' = frees + 1
      /\ UNCHANGED <<ovfVars, opc, nd, answers>>
  BY DEF RemotePush, Ring!PushBegin, Ring!At
<1>3. it \in Frees /\ it.ptr = b /\ it.size = sz
  BY FreeFields
<1> HIDE DEF it
<1>4. /\ holder[b] # "flight" /\ holder'[b] = "flight" /\ asked'[b] = sz
      /\ \A c \in Blocks : c # b => holder'[c] = holder[c] /\ asked'[c] = asked[c]
  BY <1>2, FreesAssumption DEF RemoteInv, TypeOK
<1>5. /\ ~Busy(p) /\ Busy(p)' /\ item'[p] = it /\ ~Holds(p) /\ ~Holds(p)'
      /\ \A q \in Producers : q # p => /\ (Busy(q)' <=> Busy(q)) /\ (Holds(q)' <=> Holds(q))
                                       /\ item'[q] = item[q] /\ myTail'[q] = myTail[q]
  BY <1>2 DEF Busy, Holds, RemoteInv, Positions, RingFacts
<1>6. \A t \in Nat : Queued(t)' <=> Queued(t)
  BY <1>2, <1>5 DEF Queued
<1>7. \A x : Sent(x) => Sent(x)' /\ x.ptr # b
  BY <1>4, FreeFields DEF Sent
<1>8. Counted' /\ answers \in Nat /\ answers' \in 0 .. MaxFrees
  <2>1. InFlight' = InFlight \cup {b} /\ b \notin InFlight
    BY <1>4 DEF InFlight
  <2>2. IsFiniteSet(InFlight)
    <3>1. InFlight \in SUBSET Blocks
      BY DEF InFlight
    <3> QED
      BY <3>1, FS_Subset, FreesAssumption
  <2>3. Cardinality(InFlight') = Cardinality(InFlight) + 1 /\ Cardinality(InFlight) \in Nat
    BY <2>1, <2>2, FS_AddElement, FS_CardinalityType
  <2> QED
    BY <1>2, <2>3, FreesAssumption DEF RemoteInv, Counted, TypeOK
<1>9. TypeOK'
  BY <1>2, <1>8, FreesAssumption DEF RemoteInv, TypeOK, ovfVars
<1>10. Travelling'
  <2>1. Sent(it)'
    BY <1>3, <1>4 DEF Sent
  <2> QED
    BY <1>2, <1>5, <1>6, <1>7, <2>1 DEF RemoteInv, Travelling
<1>11. Lists(L, W)'
  BY <1>1, <1>2 DEF Placed, Lists, ovfVars
<1>12. b \notin L \cup W
  BY <1>1, <1>4 DEF Placed, Nodes
<1>13. Nodes(L, W)'
  <2>1. \A q \in Producers : pc'[q] = "link" => pc[q] = "link" /\ item'[q] = item[q]
    BY <1>2, <1>5 DEF RemoteInv, Positions
  <2> QED
    BY <1>1, <1>2, <1>4, <1>12, <2>1 DEF Placed, Nodes, ovfVars
<1>14. Apart(L, W)'
  <2>1. Apart(L, W)
    BY <1>1 DEF Placed
  <2>2. /\ \A q \in Producers : Busy(q) => item[q].ptr # b
        /\ \A t \in Nat : Queued(t) => log[t + 1].ptr # b
        /\ opc = "release" => out.ptr # b
    BY <1>7 DEF RemoteInv, Travelling
  <2> QED
    BY <1>2, <1>3, <1>5, <1>6, <1>12, <2>1, <2>2 DEF Apart
<1>15. Found(L, W)'
  <2>1. Found(L, W)
    BY <1>1 DEF Placed
  <2> QED
    BY <1>2, <1>3, <1>4, <1>5, <1>6, <2>1 DEF Found
<1> QED
  BY <1>8, <1>9, <1>10, <1>11, <1>13, <1>14, <1>15 DEF Placed

\* Building the node inside a block that is on no list.
LEMMA OvfLoadKeeps ==
  ASSUME RemoteInv, RingFacts, NEW p \in Producers, OvfLoad(p)
  PROVE  TypeOK' /\ Counted' /\ Travelling' /\ \E L, W \in SUBSET Blocks : Placed(L, W)'
<1>1. PICK L, W \in SUBSET Blocks : Placed(L, W)
  BY DEF RemoteInv, Placed
<1>2. /\ pc[p] = "full" /\ pc' = [pc EXCEPT ![p] = "link"]
      /\ size' = [size EXCEPT ![item[p].ptr] = item[p].size]
      /\ myHead' = [myHead EXCEPT ![p] = ovf]
      /\ UNCHANGED <<tail, head, myTail, item, cpc, out, log, ovf, next, opc, nd, blockVars>>
  BY DEF OvfLoad
<1>3. Busy(p) /\ item[p].ptr \in Blocks /\ item[p].size \in Sizes /\ item[p].ptr \notin L \cup W
  BY <1>1, <1>2, FreeFields DEF RemoteInv, Travelling, Sent, Busy, Placed, Apart
<1>4. Unmoved
  <2>1. \A q \in Producers : (Busy(q)' <=> Busy(q)) /\ (Holds(q)' <=> Holds(q))
    BY <1>2 DEF Busy, Holds, RemoteInv, Positions
  <2>2. \A t \in Nat : Queued(t)' <=> Queued(t)
    BY <1>2, <2>1 DEF Queued
  <2> QED
    BY <1>2, <2>1, <2>2 DEF Unmoved
<1>5. TypeOK'
  BY <1>2, <1>3 DEF RemoteInv, TypeOK, blockVars
<1>6. Travelling' /\ Apart(L, W)' /\ Found(L, W)' /\ Counted'
  <2>1. Travelling /\ Apart(L, W) /\ Found(L, W) /\ Counted /\ L \cap W = {}
    BY <1>1 DEF RemoteInv, Placed, Apart
  <2> QED
    BY <1>4, <2>1, UnmovedKeeps
<1>7. Lists(L, W)'
  BY <1>1, <1>2 DEF Placed, Lists
<1>8. Nodes(L, W)'
  <2>1. \A c \in L \cup W : size'[c] = size[c]
    BY <1>2, <1>3 DEF RemoteInv, TypeOK
  <2>2. size'[item[p].ptr] = item[p].size
    BY <1>2, <1>3 DEF RemoteInv, TypeOK
  <2>3. ASSUME NEW q \in Producers, q # p, pc'[q] = "link"
        PROVE  size'[item[q].ptr] = item[q].size
    <3>1. pc[q] = "link" /\ Busy(q) /\ item[q].ptr # item[p].ptr
      BY <1>1, <1>2, <1>3, <2>3 DEF RemoteInv, Positions, Busy, Placed, Apart
    <3>2. item[q].ptr \in Blocks /\ size[item[q].ptr] = item[q].size
      BY <1>1, <3>1, FreeFields DEF RemoteInv, Travelling, Sent, Placed, Nodes
    <3> QED
      BY <1>2, <3>1, <3>2 DEF RemoteInv, TypeOK
  <2> QED
    BY <1>1, <1>2, <2>1, <2>2, <2>3 DEF Placed, Nodes, blockVars
<1> QED
  BY <1>5, <1>6, <1>7, <1>8 DEF Placed

\* The compare-exchange moves the free from its thread to the list.
LEMMA OvfLinkKeeps ==
  ASSUME RemoteInv, RingFacts, NEW p \in Producers, OvfLink(p)
  PROVE  TypeOK' /\ Counted' /\ Travelling' /\ \E L, W \in SUBSET Blocks : Placed(L, W)'
<1>1. PICK L, W \in SUBSET Blocks : Placed(L, W)
  BY DEF RemoteInv, Placed
<1>2. /\ pc[p] = "link" /\ pc' = [pc EXCEPT ![p] = "idle"]
      /\ ovf = myHead[p] /\ ovf' = item[p].ptr
      /\ next' = [next EXCEPT ![item[p].ptr] = myHead[p]]
      /\ UNCHANGED <<tail, head, myTail, item, cpc, out, log, size, myHead, opc, nd, blockVars>>
  BY DEF OvfLink
<1>3. PICK b \in Blocks : b = item[p].ptr
  BY <1>2, FreeFields DEF RemoteInv, Travelling, Sent, Busy
<1>4. /\ Busy(p) /\ b \notin L \cup W
      /\ holder[b] = "flight" /\ asked[b] = size[b] /\ asked[b] \in Sizes
  BY <1>1, <1>2, <1>3, FreeFields DEF RemoteInv, Travelling, Sent, Busy, Placed, Apart, Nodes
<1>5. /\ ~Busy(p)' /\ ~Holds(p) /\ ~Holds(p)'
      /\ \A q \in Producers : q # p => (Busy(q)' <=> Busy(q)) /\ (Holds(q)' <=> Holds(q))
  BY <1>2 DEF Busy, Holds, RemoteInv, Positions
<1>6. \A t \in Nat : Queued(t)' <=> Queued(t)
  BY <1>2, <1>5 DEF Queued
<1>7. /\ next' \in [Blocks -> Blocks \cup {None, Garbage}]
      /\ next'[b] = ovf /\ \A c \in L \cup W : next'[c] = next[c]
  BY <1>2, <1>3, <1>4 DEF RemoteInv, TypeOK
<1>8. TypeOK'
  BY <1>2, <1>3, <1>7 DEF RemoteInv, TypeOK, blockVars
<1>9. Counted'
  BY <1>2 DEF RemoteInv, Counted, InFlight, blockVars
<1>10. Travelling'
  BY <1>2, <1>5, <1>6 DEF RemoteInv, Travelling, Sent, blockVars
<1>11. Lists(L \cup {b}, W)'
  <2>1. IsList(next, ovf, L) /\ IsList(next, IF opc = "walk" THEN nd ELSE None, W)
    BY <1>1 DEF Placed, Lists
  <2>2. IsList(next', ovf, L) /\ IsList(next', IF opc = "walk" THEN nd ELSE None, W)
    BY <1>7, <2>1, ListKeep
  <2>3. IsList(next', b, L \cup {b})
    BY <1>4, <1>7, <2>2, ListPush
  <2> QED
    BY <1>2, <1>3, <2>2, <2>3 DEF Lists
<1>12. Nodes(L \cup {b}, W)'
  <2>1. \A q \in Producers : pc'[q] = "link" => pc[q] = "link"
    BY <1>2 DEF RemoteInv, Positions
  <2>2. Nodes(L, W)
    BY <1>1 DEF Placed
  <2> QED
    BY <1>2, <1>4, <2>1, <2>2 DEF Nodes, blockVars
<1>13. Apart(L \cup {b}, W)'
  <2>1. Apart(L, W)
    BY <1>1 DEF Placed
  <2> QED
    BY <1>2, <1>3, <1>4, <1>5, <1>6, <2>1 DEF Apart
<1>14. Found(L \cup {b}, W)'
  <2>1. Found(L, W)
    BY <1>1 DEF Placed
  <2> QED
    BY <1>2, <1>3, <1>5, <1>6, <2>1 DEF Found, blockVars
<1>15. L \cup {b} \in SUBSET Blocks
  OBVIOUS
<1> QED
  BY <1>8, <1>9, <1>10, <1>11, <1>12, <1>13, <1>14, <1>15 DEF Placed

\* A failed compare-exchange has written into a block that is on no list.
LEMMA OvfRetryKeeps ==
  ASSUME RemoteInv, RingFacts, NEW p \in Producers, OvfRetry(p)
  PROVE  TypeOK' /\ Counted' /\ Travelling' /\ \E L, W \in SUBSET Blocks : Placed(L, W)'
<1>1. PICK L, W \in SUBSET Blocks : Placed(L, W)
  BY DEF RemoteInv, Placed
<1>2. /\ pc[p] = "link"
      /\ next' = [next EXCEPT ![item[p].ptr] = myHead[p]]
      /\ myHead' = [myHead EXCEPT ![p] = ovf]
      /\ UNCHANGED <<ringVars, ovf, size, opc, nd, blockVars>>
  BY DEF OvfRetry
<1>3. item[p].ptr \in Blocks /\ item[p].ptr \notin L \cup W
  BY <1>1, <1>2, FreeFields DEF RemoteInv, Travelling, Sent, Busy, Placed, Apart
<1>4. Unmoved
  BY <1>2 DEF Unmoved, Busy, Queued, Holds, ringVars
<1>5. TypeOK'
  BY <1>2, <1>3 DEF RemoteInv, TypeOK, blockVars
<1>6. Travelling' /\ Apart(L, W)' /\ Found(L, W)' /\ Counted'
  <2>1. Travelling /\ Apart(L, W) /\ Found(L, W) /\ Counted /\ L \cap W = {}
    BY <1>1 DEF RemoteInv, Placed, Apart
  <2> QED
    BY <1>4, <2>1, UnmovedKeeps
<1>7. Lists(L, W)'
  <2>1. \A c \in L \cup W : next'[c] = next[c]
    BY <1>2, <1>3 DEF RemoteInv, TypeOK
  <2>2. IsList(next, ovf, L) /\ IsList(next, IF opc = "walk" THEN nd ELSE None, W)
    BY <1>1 DEF Placed, Lists
  <2>3. IsList(next', ovf, L) /\ IsList(next', IF opc = "walk" THEN nd ELSE None, W)
    BY <2>1, <2>2, ListKeep
  <2> QED
    BY <1>2, <2>3 DEF Lists
<1>8. Nodes(L, W)'
  BY <1>1, <1>2 DEF Placed, Nodes, ringVars, blockVars
<1> QED
  BY <1>5, <1>6, <1>7, <1>8 DEF Placed

\* The owner looks at the ring, copies a payload out or ends its walk.
LEMMA OwnerKeeps ==
  ASSUME RemoteInv, RingFacts,
         MaybeDrain \/ DrainEnd \/ (DrainPop /\ Ring!PopCheck)
  PROVE  TypeOK' /\ Counted' /\ Travelling' /\ \E L, W \in SUBSET Blocks : Placed(L, W)'
<1>1. PICK L, W \in SUBSET Blocks : Placed(L, W)
  BY DEF RemoteInv, Placed
<1>2. /\ UNCHANGED <<tail, head, pc, myTail, item, log, ovfVars, nd, blockVars>>
      /\ opc' \in {"idle", "ring"} /\ opc # "release"
      /\ opc = "walk" => nd = None
  BY DEF MaybeDrain, DrainEnd, DrainPop, Ring!PopCheck, Ring!PopAdvance, ringVars, RemoteInv, TypeOK
<1>3. Unmoved
  BY <1>2 DEF Unmoved, Busy, Queued, Holds
<1>4. TypeOK'
  BY <1>2 DEF RemoteInv, TypeOK, ovfVars, blockVars
<1>5. Travelling' /\ Apart(L, W)' /\ Found(L, W)' /\ Counted'
  <2>1. Travelling /\ Apart(L, W) /\ Found(L, W) /\ Counted /\ L \cap W = {}
    BY <1>1 DEF RemoteInv, Placed, Apart
  <2> QED
    BY <1>3, <2>1, UnmovedKeeps
<1>6. Lists(L, W)'
  <2>1. IsList(next, ovf, L) /\ IsList(next, None, W)
    BY <1>1, <1>2 DEF Placed, Lists
  <2>2. opc' # "walk"
    BY <1>2
  <2> QED
    BY <1>2, <2>1, <2>2 DEF Lists, ovfVars
<1>7. Nodes(L, W)'
  BY <1>1, <1>2 DEF Placed, Nodes, ovfVars, blockVars
<1> QED
  BY <1>4, <1>5, <1>6, <1>7 DEF Placed

\* pop moves the free at the head of the ring to the drain callback.
LEMMA AdvanceKeeps ==
  ASSUME RemoteInv, RingFacts, DrainPop, Ring!PopAdvance
  PROVE  TypeOK' /\ Counted' /\ Travelling' /\ \E L, W \in SUBSET Blocks : Placed(L, W)'
<1>1. PICK L, W \in SUBSET Blocks : Placed(L, W)
  BY DEF RemoteInv, Placed
<1>2. /\ cpc = "advance" /\ opc = "ring" /\ opc' = "release" /\ head' = head + 1
      /\ UNCHANGED <<tail, pc, myTail, item, out, log, ovfVars, nd, blockVars>>
  BY DEF DrainPop, Ring!PopCheck, Ring!PopAdvance
<1>3. PICK h \in Nat : h = head
  BY DEF RingFacts
<1>4. Queued(h) /\ out = log[h + 1]
  BY <1>2, <1>3 DEF RingFacts
<1>5. \A t \in Nat : Queued(t)' <=> (Queued(t) /\ t # h)
  BY <1>2, <1>3 DEF Queued, Holds, RingFacts
<1>6. \A p \in Producers : Busy(p)' <=> Busy(p)
  BY <1>2 DEF Busy
<1>7. TypeOK'
  BY <1>2 DEF RemoteInv, TypeOK, ovfVars, blockVars
<1>8. Counted'
  BY <1>2 DEF RemoteInv, Counted, InFlight, blockVars
<1>9. Travelling'
  BY <1>2, <1>4, <1>5, <1>6 DEF RemoteInv, Travelling, Sent, blockVars
<1>10. Lists(L, W)'
  BY <1>1, <1>2 DEF Placed, Lists, ovfVars
<1>11. Nodes(L, W)'
  BY <1>1, <1>2 DEF Placed, Nodes, ovfVars, blockVars
<1>12. Apart(L, W)'
  <2>1. Apart(L, W)
    BY <1>1 DEF Placed
  <2> QED
    BY <1>2, <1>4, <1>5, <1>6, <2>1 DEF Apart
<1>13. Found(L, W)'
  <2>1. Found(L, W)
    BY <1>1 DEF Placed
  <2> QED
    BY <1>2, <1>4, <1>5, <1>6, <2>1 DEF Found, blockVars
<1> QED
  BY <1>7, <1>8, <1>9, <1>10, <1>11, <1>12, <1>13 DEF Placed

\* The owner takes the whole list: it becomes the list to be walked.
LEMMA TakeKeeps ==
  ASSUME RemoteInv, RingFacts, DrainTake
  PROVE  TypeOK' /\ Counted' /\ Travelling' /\ \E L, W \in SUBSET Blocks : Placed(L, W)'
<1>1. PICK L, W \in SUBSET Blocks : Placed(L, W)
  BY DEF RemoteInv, Placed
<1>2. /\ opc = "ring" /\ opc' = (IF ovf = None THEN "idle" ELSE "walk")
      /\ nd' = ovf /\ ovf' = None
      /\ UNCHANGED <<ringVars, next, size, myHead, blockVars>>
  BY DEF DrainTake
<1>3. W = {}
  BY <1>1, <1>2, ListOfNone DEF Placed, Lists
<1>4. Unmoved
  BY <1>2 DEF Unmoved, Busy, Queued, Holds, ringVars
<1>5. TypeOK'
  BY <1>2 DEF RemoteInv, TypeOK, blockVars
<1>6. Travelling' /\ Apart({}, L)' /\ Found({}, L)' /\ Counted'
  <2>1. /\ Travelling /\ Apart(L, W) /\ Found(L, W) /\ Counted
        /\ L \cup W = {} \cup L /\ {} \cap L = {}
    BY <1>1, <1>3 DEF RemoteInv, Placed
  <2> QED
    BY <1>4, <2>1, UnmovedKeeps
<1>7. Lists({}, L)'
  <2>1. IsList(next, ovf, L) /\ IsList(next, None, {})
    BY <1>1, ListEmpty DEF Placed, Lists
  <2>2. (IF opc' = "walk" THEN nd' ELSE None) = ovf
    BY <1>2
  <2> QED
    BY <1>2, <2>1, <2>2 DEF Lists
<1>8. Nodes({}, L)'
  BY <1>1, <1>2 DEF Placed, Nodes, ringVars, blockVars
<1> QED
  BY <1>5, <1>6, <1>7, <1>8 DEF Placed

\* Releasing a block in flight the way it was freed: what becomes of the
\* block, of its bytes and of the count, and that it is a step of Delivery.
LEMMA ReleaseEffect ==
  ASSUME TypeOK, Counted, NEW b \in Blocks, NEW sz \in Sizes, RemoteRelease(b, sz),
         holder[b] = "flight", asked[b] = sz
  PROVE  /\ holder' \in [Blocks -> Producers \cup {"flight", "arena", "retired"}]
         /\ holder'[b] # "flight" /\ \A c \in Blocks : c # b => holder'[c] = holder[c]
         /\ got' \in [Blocks -> Sizes \cup {None}] /\ UNCHANGED <<asked, frees>>
         /\ next' \in [Blocks -> Blocks \cup {None, Garbage}]
         /\ size' \in [Blocks -> Sizes \cup {Garbage}]
         /\ \A c \in Blocks : c # b => next'[c] = next[c] /\ size'[c] = size[c]
         /\ answers' \in 0 .. MaxFrees /\ Counted'
         /\ Delivery!Release(b)
<1>1. /\ holder' = [holder EXCEPT ![b] = IF sz = Tombstone THEN "retired" ELSE "arena"]
      /\ got' = [got EXCEPT ![b] = sz]
      /\ answers' = answers + 1
      /\ next' = [next EXCEPT ![b] = Garbage]
      /\ size' = [size EXCEPT ![b] = Garbage]
      /\ UNCHANGED <<asked, frees>>
  BY DEF RemoteRelease
<1>2. /\ holder' \in [Blocks -> Producers \cup {"flight", "arena", "retired"}]
      /\ holder'[b] # "flight" /\ \A c \in Blocks : c # b => holder'[c] = holder[c]
  BY <1>1 DEF TypeOK
<1>3. /\ got' \in [Blocks -> Sizes \cup {None}]
      /\ next' \in [Blocks -> Blocks \cup {None, Garbage}]
      /\ size' \in [Blocks -> Sizes \cup {Garbage}]
      /\ \A c \in Blocks : c # b => next'[c] = next[c] /\ size'[c] = size[c]
  BY <1>1 DEF TypeOK
<1>4. answers' \in 0 .. MaxFrees /\ Counted'
  <2>1. InFlight' = InFlight \ {b} /\ b \in InFlight
    BY <1>2 DEF InFlight
  <2>2. IsFiniteSet(InFlight)
    <3>1. InFlight \in SUBSET Blocks
      BY DEF InFlight
    <3> QED
      BY <3>1, FS_Subset, FreesAssumption
  <2>3. Cardinality(InFlight') = Cardinality(InFlight) - 1 /\ Cardinality(InFlight) \in Nat
    BY <2>1, <2>2, FS_RemoveElement, FS_CardinalityType
  <2>4. IsFiniteSet(InFlight') /\ Cardinality(InFlight') \in Nat
    BY <2>1, <2>2, FS_RemoveElement, FS_CardinalityType
  <2> QED
    BY <1>1, <2>3, <2>4, FreesAssumption DEF Counted, TypeOK
<1>5. Delivery!Release(b)
  BY <1>1 DEF Delivery!Release
<1> QED
  BY <1>1, <1>2, <1>3, <1>4, <1>5

\* The drain callback releases what pop returned.
LEMMA DrainReleaseKeeps ==
  ASSUME RemoteInv, RingFacts, DrainRelease
  PROVE  /\ TypeOK' /\ Counted' /\ Travelling' /\ \E L, W \in SUBSET Blocks : Placed(L, W)'
         /\ \E b \in Blocks : Delivery!Release(b)
<1>1. PICK L, W \in SUBSET Blocks : Placed(L, W)
  BY DEF RemoteInv, Placed
<1>2. /\ opc = "release" /\ opc' = "ring" /\ RemoteRelease(out.ptr, out.size)
      /\ UNCHANGED <<ringVars, ovf, myHead, nd>>
  BY DEF DrainRelease
<1>3. PICK b \in Blocks : b = out.ptr
  BY <1>2, FreeFields DEF RemoteInv, Travelling, Sent
<1>4. PICK sz \in Sizes : sz = out.size
  BY <1>2, FreeFields DEF RemoteInv, Travelling, Sent
<1>5. RemoteRelease(b, sz) /\ holder[b] = "flight" /\ asked[b] = sz /\ TypeOK /\ Counted
  BY <1>2, <1>3, <1>4 DEF RemoteInv, Travelling, Sent
<1>6. /\ holder' \in [Blocks -> Producers \cup {"flight", "arena", "retired"}]
      /\ holder'[b] # "flight" /\ \A c \in Blocks : c # b => holder'[c] = holder[c]
      /\ got' \in [Blocks -> Sizes \cup {None}] /\ UNCHANGED <<asked, frees>>
      /\ next' \in [Blocks -> Blocks \cup {None, Garbage}]
      /\ size' \in [Blocks -> Sizes \cup {Garbage}]
      /\ \A c \in Blocks : c # b => next'[c] = next[c] /\ size'[c] = size[c]
      /\ answers' \in 0 .. MaxFrees /\ Counted'
      /\ Delivery!Release(b)
  BY <1>5, ReleaseEffect
<1>7. /\ \A p \in Producers : Busy(p)' <=> Busy(p)
      /\ \A t \in Nat : Queued(t)' <=> Queued(t)
      /\ UNCHANGED <<pc, item, log, out>>
  BY <1>2 DEF Busy, Queued, Holds, ringVars
<1>8. Apart(L, W) /\ Found(L, W) /\ Nodes(L, W) /\ Lists(L, W)
  BY <1>1 DEF Placed
<1>9. b \notin L \cup W /\ \A c \in L \cup W : c \in Blocks /\ c # b
  BY <1>2, <1>3, <1>8 DEF Apart
<1>10. TypeOK'
  BY <1>2, <1>6 DEF RemoteInv, TypeOK
<1>11. Travelling'
  <2>1. /\ \A p \in Producers : Busy(p) => Sent(item[p]) /\ item[p].ptr # b
        /\ \A t \in Nat : Queued(t) => Sent(log[t + 1]) /\ log[t + 1].ptr # b
    BY <1>2, <1>3, <1>8 DEF RemoteInv, Travelling, Apart
  <2>2. \A x : Sent(x) /\ x.ptr # b => Sent(x)'
    BY <1>6, FreeFields DEF Sent
  <2>3. opc' # "release"
    BY <1>2
  <2> QED
    BY <1>7, <2>1, <2>2, <2>3 DEF Travelling
<1>12. Lists(L, W)'
  <2>1. IsList(next, ovf, L) /\ IsList(next, None, W)
    BY <1>2, <1>8 DEF Lists
  <2>2. IsList(next', ovf, L) /\ IsList(next', None, W)
    BY <1>6, <1>9, <2>1, ListKeep
  <2>3. opc' # "walk"
    BY <1>2
  <2> QED
    BY <1>2, <2>2, <2>3 DEF Lists
<1>13. Nodes(L, W)'
  <2>1. ASSUME NEW p \in Producers, pc[p] = "link"
        PROVE  size'[item[p].ptr] = item[p].size
    <3>1. item[p].ptr # b /\ item[p].ptr \in Blocks
      BY <1>2, <1>3, <1>8, <2>1, FreeFields DEF Apart, Busy, RemoteInv, Travelling, Sent
    <3> QED
      BY <1>6, <1>8, <2>1, <3>1 DEF Nodes
  <2> QED
    BY <1>6, <1>7, <1>8, <1>9, <2>1 DEF Nodes
<1>14. Apart(L, W)'
  BY <1>2, <1>7, <1>8 DEF Apart
<1>15. Found(L, W)'
  BY <1>2, <1>3, <1>6, <1>7, <1>8 DEF Found
<1> QED
  BY <1>6, <1>10, <1>11, <1>12, <1>13, <1>14, <1>15 DEF Placed

\* One step of the walk releases the first node; the rest is still a list.
LEMMA WalkKeeps ==
  ASSUME RemoteInv, RingFacts, DrainWalk
  PROVE  /\ TypeOK' /\ Counted' /\ Travelling' /\ \E L, W \in SUBSET Blocks : Placed(L, W)'
         /\ \E b \in Blocks : Delivery!Release(b)
<1>1. PICK L, W \in SUBSET Blocks : Placed(L, W)
  BY DEF RemoteInv, Placed
<1>2. /\ opc = "walk" /\ nd # None /\ RemoteRelease(nd, size[nd]) /\ nd' = next[nd]
      /\ UNCHANGED <<ringVars, ovf, myHead, opc>>
  BY DEF DrainWalk
<1>3. Apart(L, W) /\ Found(L, W) /\ Nodes(L, W) /\ Lists(L, W)
  BY <1>1 DEF Placed
<1>4. IsList(next, ovf, L) /\ IsList(next, nd, W)
  BY <1>2, <1>3 DEF Lists
<1>5. /\ nd \in W /\ nd \in Blocks /\ next[nd] \in Blocks \cup {None}
      /\ IsList(next, next[nd], W \ {nd})
  BY <1>2, <1>4, ListPop
<1>6. PICK b \in Blocks : b = nd
  BY <1>5
<1>7. PICK sz \in Sizes : sz = size[b] /\ holder[b] = "flight" /\ asked[b] = sz
  BY <1>3, <1>5, <1>6 DEF Nodes
<1>8. RemoteRelease(b, sz) /\ TypeOK /\ Counted
  BY <1>2, <1>6, <1>7 DEF RemoteInv
<1>9. /\ holder' \in [Blocks -> Producers \cup {"flight", "arena", "retired"}]
      /\ holder'[b] # "flight" /\ \A c \in Blocks : c # b => holder'[c] = holder[c]
      /\ got' \in [Blocks -> Sizes \cup {None}] /\ UNCHANGED <<asked, frees>>
      /\ next' \in [Blocks -> Blocks \cup {None, Garbage}]
      /\ size' \in [Blocks -> Sizes \cup {Garbage}]
      /\ \A c \in Blocks : c # b => next'[c] = next[c] /\ size'[c] = size[c]
      /\ answers' \in 0 .. MaxFrees /\ Counted'
      /\ Delivery!Release(b)
  BY <1>7, <1>8, ReleaseEffect
<1>10. /\ \A p \in Producers : Busy(p)' <=> Busy(p)
       /\ \A t \in Nat : Queued(t)' <=> Queued(t)
       /\ UNCHANGED <<pc, item, log, out, opc, ovf>>
  BY <1>2 DEF Busy, Queued, Holds, ringVars
<1>11. b \notin L /\ b \in W /\ \A c \in L \cup (W \ {b}) : c \in Blocks /\ c # b
  BY <1>3, <1>5, <1>6 DEF Apart
<1>12. TypeOK'
  BY <1>2, <1>5, <1>9 DEF RemoteInv, TypeOK
<1>13. Travelling'
  <2>1. /\ \A p \in Producers : Busy(p) => Sent(item[p]) /\ item[p].ptr # b
        /\ \A t \in Nat : Queued(t) => Sent(log[t + 1]) /\ log[t + 1].ptr # b
    BY <1>3, <1>11 DEF RemoteInv, Travelling, Apart
  <2>2. \A x : Sent(x) /\ x.ptr # b => Sent(x)'
    BY <1>9, FreeFields DEF Sent
  <2>3. opc' # "release"
    BY <1>2
  <2> QED
    BY <1>10, <2>1, <2>2, <2>3 DEF Travelling
<1>14. Lists(L, W \ {b})'
  <2>1. IsList(next, ovf, L) /\ IsList(next, nd', W \ {b})
    BY <1>2, <1>4, <1>5, <1>6
  <2>2. IsList(next', ovf, L) /\ IsList(next', nd', W \ {b})
    BY <1>9, <1>11, <2>1, ListKeep
  <2> QED
    BY <1>2, <2>2 DEF Lists
<1>15. Nodes(L, W \ {b})'
  <2>1. ASSUME NEW p \in Producers, pc[p] = "link"
        PROVE  size'[item[p].ptr] = item[p].size
    <3>1. item[p].ptr # b /\ item[p].ptr \in Blocks
      BY <1>3, <1>11, <2>1, FreeFields DEF Apart, Busy, RemoteInv, Travelling, Sent
    <3> QED
      BY <1>3, <1>9, <2>1, <3>1 DEF Nodes
  <2> QED
    BY <1>3, <1>9, <1>10, <1>11, <2>1 DEF Nodes
<1>16. Apart(L, W \ {b})'
  BY <1>2, <1>3, <1>10 DEF Apart
<1>17. Found(L, W \ {b})'
  BY <1>3, <1>9, <1>10 DEF Found
<1>18. W \ {b} \in SUBSET Blocks
  OBVIOUS
<1> QED
  BY <1>9, <1>12, <1>13, <1>14, <1>15, <1>16, <1>17, <1>18 DEF Placed

\* Handing out a free block touches none that is in flight.
LEMMA AllocKeeps ==
  ASSUME RemoteInv, RingFacts, NEW p \in Producers, NEW b \in Blocks, Alloc(p, b)
  PROVE  TypeOK' /\ Counted' /\ Travelling' /\ \E L, W \in SUBSET Blocks : Placed(L, W)'
<1>1. PICK L, W \in SUBSET Blocks : Placed(L, W)
  BY DEF RemoteInv, Placed
<1>2. /\ holder[b] = "arena" /\ holder' = [holder EXCEPT ![b] = p]
      /\ UNCHANGED <<ringVars, ovfVars, opc, nd, asked, got, answers, frees>>
  BY DEF Alloc
<1>3. /\ TypeOK'
      /\ \A c \in Blocks : holder'[c] = "flight" <=> holder[c] = "flight"
  BY <1>2, FreesAssumption DEF RemoteInv, TypeOK, ovfVars
<1>4. Counted'
  <2>1. InFlight' = InFlight
    BY <1>3 DEF InFlight
  <2> QED
    BY <1>2, <2>1 DEF RemoteInv, Counted
<1>5. /\ \A q \in Producers : Busy(q)' <=> Busy(q)
      /\ \A t \in Nat : Queued(t)' <=> Queued(t)
      /\ UNCHANGED <<pc, item, log, out, opc, ovf, next, nd, asked, size>>
  BY <1>2 DEF Busy, Queued, Holds, ringVars, ovfVars
<1>6. Travelling'
  <2>1. \A x : Sent(x) => Sent(x)'
    BY <1>3, <1>5, FreeFields DEF Sent
  <2> QED
    BY <1>5, <2>1 DEF RemoteInv, Travelling
<1>7. Lists(L, W)' /\ Apart(L, W)'
  BY <1>1, <1>5 DEF Placed, Lists, Apart
<1>8. Nodes(L, W)' /\ Found(L, W)'
  BY <1>1, <1>3, <1>5 DEF Placed, Nodes, Found
<1> QED
  BY <1>3, <1>4, <1>6, <1>7, <1>8 DEF Placed

-----------------------------------------------------------------------------
\* No free is under way at the start.
LEMMA InvStart == Init => RemoteInv
<1> SUFFICES ASSUME Init
             PROVE  RemoteInv
  OBVIOUS
<1>1. /\ pc = [p \in Producers |-> "idle"] /\ tail = 0 /\ head = 0 /\ cpc = "check"
      /\ ovf = None /\ opc = "idle" /\ nd = None
      /\ next = [b \in Blocks |-> Garbage] /\ size = [b \in Blocks |-> Garbage]
      /\ myHead = [p \in Producers |-> None]
      /\ holder = [b \in Blocks |-> "arena"] /\ asked = [b \in Blocks |-> None]
      /\ got = [b \in Blocks |-> None] /\ answers = 0 /\ frees = 0
  BY DEF Init, Ring!Init
<1>2. TypeOK
  BY <1>1, FreesAssumption DEF TypeOK
<1>3. Positions
  BY <1>1 DEF Positions
<1>4. Counted
  <2>1. InFlight = {}
    BY <1>1 DEF InFlight
  <2> QED
    BY <1>1, <2>1, FS_EmptySet DEF Counted
<1>5. (\A p \in Producers : ~Busy(p)) /\ (\A t \in Nat : ~Queued(t))
  BY <1>1 DEF Busy, Queued
<1>6. Travelling
  BY <1>1, <1>5 DEF Travelling
<1>7. Lists({}, {})
  BY <1>1, ListEmpty DEF Lists
<1>8. Nodes({}, {})
  BY <1>1 DEF Nodes
<1>9. Apart({}, {}) /\ Found({}, {})
  BY <1>1, <1>5 DEF Apart, Found
<1> QED
  BY <1>2, <1>3, <1>4, <1>6, <1>7, <1>8, <1>9 DEF RemoteInv

\* One step of the system.
LEMMA InvStep ==
  ASSUME RemoteInv, RingFacts, [Next]_vars
  PROVE  RemoteInv'
<1>1. Positions'
  BY PositionsStep DEF RemoteInv
<1>2. TypeOK' /\ Counted' /\ Travelling' /\ \E L, W \in SUBSET Blocks : Placed(L, W)'
  <2>1. CASE Next
    <3>1. ASSUME NEW p \in Producers, PushStep(p)
          PROVE  TypeOK' /\ Counted' /\ Travelling' /\ \E L, W \in SUBSET Blocks : Placed(L, W)'
      BY <3>1, RingPushKeeps, PublishKeeps, OvfLoadKeeps, OvfLinkKeeps, OvfRetryKeeps
      DEF PushStep
    <3>2. CASE DrainPop
      BY <3>2, OwnerKeeps, AdvanceKeeps DEF DrainPop
    <3> QED
      BY <2>1, <3>1, <3>2, RemotePushKeeps, AllocKeeps, OwnerKeeps, TakeKeeps,
         DrainReleaseKeeps, WalkKeeps
      DEF Next, DrainStep
  <2>2. CASE UNCHANGED vars
    <3>1. UNCHANGED <<pc, item, log, out, opc, ovf, next, nd, asked, size, holder, head,
                      tail, myTail, cpc, got, answers, frees, myHead>>
      BY <2>2 DEF vars, ringVars, ovfVars, blockVars
    <3>2. PICK L, W \in SUBSET Blocks : Placed(L, W)
      BY DEF RemoteInv, Placed
    <3>3. /\ \A q \in Producers : Busy(q)' <=> Busy(q)
          /\ \A t \in Nat : Queued(t)' <=> Queued(t)
      BY <3>1 DEF Busy, Queued, Holds
    <3>4. TypeOK' /\ Counted'
      BY <3>1 DEF RemoteInv, TypeOK, Counted, InFlight
    <3>5. Travelling'
      BY <3>1, <3>3 DEF RemoteInv, Travelling, Sent
    <3>6. Placed(L, W)'
      BY <3>1, <3>2, <3>3 DEF Placed, Lists, Nodes, Apart, Found
    <3> QED
      BY <3>4, <3>5, <3>6
  <2> QED
    BY <2>1, <2>2
<1> QED
  BY <1>1, <1>2 DEF RemoteInv, Placed

\* The inductive invariant holds in every reachable state.
LEMMA InvAlways == Spec => []RemoteInv
<1>1. RemoteInv /\ RingFacts /\ [Next]_vars => RemoteInv'
  BY InvStep
<1> QED
  BY InvStart, RingAlways, <1>1, PTL DEF Spec

-----------------------------------------------------------------------------
(* The theorems *)

\* Places finds a free where the invariant says it is.
LEMMA PlacesAre ==
  ASSUME TypeOK, RingFacts, CellFacts, NEW L, NEW W, Lists(L, W), NEW b \in Blocks, NEW x
  PROVE  x \in Places(b) <=>
           \/ \E p \in Producers : Busy(p) /\ item[p].ptr = b /\ x = <<"push", p>>
           \/ \E t \in Nat : Queued(t) /\ log[t + 1].ptr = b /\ x = <<"cell", t>>
           \/ opc = "release" /\ out.ptr = b /\ x = <<"popped", 0>>
           \/ b \in L /\ x = <<"list", 0>>
           \/ b \in W /\ x = <<"walk", 0>>
<1>1. Chain(ovf) = L
  BY ChainIs DEF Lists
<1>2. opc = "walk" => Chain(nd) = W
  BY ChainIs DEF Lists
<1>3. opc # "walk" => W = {}
  BY ListOfNone DEF Lists
<1>4. x \in {<<"push", p>> : p \in {q \in Producers : pc[q] # "idle" /\ item[q].ptr = b}}
        <=> \E p \in Producers : Busy(p) /\ item[p].ptr = b /\ x = <<"push", p>>
  BY DEF Busy
<1>5. x \in {<<"cell", t>> : t \in {u \in head .. (tail - 1) :
                                 seq[Ring!Idx(u)] = u + 1 /\ payload[Ring!Idx(u)].ptr = b}}
        <=> \E t \in Nat : Queued(t) /\ log[t + 1].ptr = b /\ x = <<"cell", t>>
  <2>1. \A t \in head .. (tail - 1) :
          (seq[Ring!Idx(t)] = t + 1 /\ payload[Ring!Idx(t)].ptr = b)
            <=> (Queued(t) /\ log[t + 1].ptr = b)
    BY DEF CellFacts
  <2>2. \A t \in Nat : Queued(t) => t \in head .. (tail - 1)
    BY DEF Queued
  <2>3. \A t \in head .. (tail - 1) : t \in Nat
    BY DEF RingFacts
  <2> QED
    BY <2>1, <2>2, <2>3
<1>6. x \in {y \in {<<"popped", 0>>} : opc = "release" /\ out.ptr = b}
        <=> opc = "release" /\ out.ptr = b /\ x = <<"popped", 0>>
  OBVIOUS
<1>7. x \in {y \in {<<"list", 0>>} : b \in Chain(ovf)} <=> b \in L /\ x = <<"list", 0>>
  BY <1>1
<1>8. x \in {y \in {<<"walk", 0>>} : opc = "walk" /\ b \in Chain(nd)}
        <=> b \in W /\ x = <<"walk", 0>>
  BY <1>2, <1>3
<1> QED
  BY <1>4, <1>5, <1>6, <1>7, <1>8 DEF Places

\* The invariant puts every block in flight in one place, all others in none.
LEMMA OnePlace ==
  ASSUME RemoteInv, RingFacts, CellFacts
  PROVE  InOnePlace
<1>1. PICK L, W \in SUBSET Blocks : Placed(L, W)
  BY DEF RemoteInv, Placed
<1>2. TypeOK /\ Travelling /\ Lists(L, W) /\ Nodes(L, W) /\ Apart(L, W) /\ Found(L, W)
  BY <1>1 DEF RemoteInv, Placed
<1>3. ASSUME NEW b \in Blocks, holder[b] # "flight"
      PROVE  Cardinality(Places(b)) = 0
  <2>1. ASSUME NEW x \in Places(b)
        PROVE  FALSE
    <3>1. \/ \E p \in Producers : Busy(p) /\ item[p].ptr = b
          \/ \E t \in Nat : Queued(t) /\ log[t + 1].ptr = b
          \/ opc = "release" /\ out.ptr = b
          \/ b \in L \cup W
      BY <1>2, <2>1, PlacesAre
    <3> QED
      BY <1>2, <1>3, <3>1 DEF Travelling, Sent, Nodes
  <2>2. Places(b) = {}
    BY <2>1
  <2> QED
    BY <2>2, FS_EmptySet
<1>4. ASSUME NEW b \in Blocks, holder[b] = "flight"
      PROVE  Cardinality(Places(b)) = 1
  <2> DEFINE Spot(x) ==
        \/ \E p \in Producers : Busy(p) /\ item[p].ptr = b /\ x = <<"push", p>>
        \/ \E t \in Nat : Queued(t) /\ log[t + 1].ptr = b /\ x = <<"cell", t>>
        \/ opc = "release" /\ out.ptr = b /\ x = <<"popped", 0>>
        \/ b \in L /\ x = <<"list", 0>>
        \/ b \in W /\ x = <<"walk", 0>>
  <2>1. \A x : x \in Places(b) <=> Spot(x)
    BY <1>2, PlacesAre
  <2>2. \E x : Spot(x)
    BY <1>2, <1>4 DEF Found
  <2>3. ASSUME NEW x, NEW y, Spot(x), Spot(y)
        PROVE  x = y
    BY <1>2, <2>3 DEF Apart
  <2> HIDE DEF Spot
  <2>4. PICK x : Spot(x)
    BY <2>2
  <2>5. Places(b) = {x}
    BY <2>1, <2>3, <2>4
  <2> QED
    BY <2>5, FS_Singleton
<1> QED
  BY <1>2, <1>3, <1>4 DEF InOnePlace

(***************************************************************************)
(* A freed block is in exactly one place between __remote_push and its     *)
(* release in __remote_drain: one half-done push, one cell of the ring,    *)
(* the drain callback, the overflow list or the list being walked.         *)
(***************************************************************************)
THEOREM FreesInOnePlace == Spec => []InOnePlace
<1>1. RemoteInv /\ RingFacts /\ CellFacts => InOnePlace
  BY OnePlace
<1> QED
  BY <1>1, InvAlways, RingAlways, PTL

(***************************************************************************)
(* Remote frees implement RemoteDelivery: the owner releases each freed    *)
(* block once, the way the freeing thread asked for, whether it came by    *)
(* the ring or by the overflow list, and hands it out only afterwards.     *)
(***************************************************************************)
THEOREM FreesAreDelivered == Spec => ImplementsDelivery
<1>1. Init => Delivery!Init
  BY DEF Init, Delivery!Init
<1>2. RemoteInv /\ RingFacts /\ [Next]_vars => [Delivery!Next]_(Delivery!vars)
  <2> SUFFICES ASSUME RemoteInv, RingFacts, [Next]_vars
               PROVE  Delivery!Next \/ UNCHANGED <<holder, asked, got, answers>>
    BY DEF Delivery!vars
  <2>1. ASSUME NEW p \in Producers, NEW b \in Blocks, NEW sz \in Sizes, RemotePush(p, b, sz)
        PROVE  Delivery!Next
    <3>1. Delivery!Free(p, b, sz)
      BY <2>1 DEF RemotePush, Delivery!Free
    <3> QED
      BY <3>1 DEF Delivery!Next
  <2>2. ASSUME NEW p \in Producers, NEW b \in Blocks, Alloc(p, b)
        PROVE  Delivery!Next
    <3>1. Delivery!Alloc(p, b)
      BY <2>2 DEF Alloc, Delivery!Alloc
    <3> QED
      BY <3>1 DEF Delivery!Next
  <2>3. CASE DrainRelease \/ DrainWalk
    BY <2>3, DrainReleaseKeeps, WalkKeeps DEF Delivery!Next
  <2>4. ASSUME UNCHANGED blockVars
        PROVE  UNCHANGED <<holder, asked, got, answers>>
    BY <2>4 DEF blockVars
  <2> QED
    BY <2>1, <2>2, <2>3, <2>4
    DEF Next, vars, PushStep, RingPush, OvfLoad, OvfLink, OvfRetry, MaybeDrain, DrainStep,
        DrainPop, DrainTake, DrainEnd
<1> QED
  BY <1>1, <1>2, InvAlways, RingAlways, PTL DEF Spec, ImplementsDelivery, Delivery!Spec
=============================================================================
