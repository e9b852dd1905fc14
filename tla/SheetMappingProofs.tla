------------------------- MODULE SheetMappingProofs -------------------------
(***************************************************************************)
(* Where sheets come from.  The reservation hands out no granule twice and *)
(* forgets none, a sheet in use stays mapped and registered, and nothing   *)
(* is dropped, for every number of threads and granules.  The list of      *)
(* sheets outside the reservation names no wrong owner, and its counter is *)
(* exact, for every number of arenas, addresses and nodes.                 *)
(***************************************************************************)
EXTENDS VaReserve, OorSheets, WellFoundedInduction, FiniteSetTheorems, TLAPS

\* A nonempty set of natural numbers has a smallest member.
LEMMA HasSmallest ==
  ASSUME NEW S \in SUBSET Nat, S # {}
  PROVE  \E h \in S : \A i \in S : h <= i
<1> DEFINE R == OpToRel(<, Nat)
<1>1. IsWellFoundedOn(R, Nat)
  BY NatLessThanWellFounded
<1>2. PICK x \in S : \A y \in S : ~(<<y, x>> \in R)
  <2> HIDE DEF R
  <2> QED
    BY <1>1, WFMin
<1>3. ASSUME NEW y \in S
      PROVE  x <= y
  <2>1. x \in Nat /\ y \in Nat
    OBVIOUS
  <2>2. ~(y < x)
    BY <1>2, <2>1 DEF OpToRel
  <2> QED
    BY <2>1, <2>2
<1> QED
  BY <1>3

\* A nonempty set of numbers up to k has a largest member.
LEMMA HasLargest ==
  ASSUME NEW k \in Nat, NEW S \in SUBSET (0..k), S # {}
  PROVE  \E h \in S : \A i \in S : i <= h
<1> DEFINE T == {j \in 0..k : k - j \in S}
<1>1. PICK i \in S : TRUE
  OBVIOUS
<1>2. k - i \in T
  <2>1. k - i \in 0..k /\ k - (k - i) = i
    OBVIOUS
  <2> QED
    BY <2>1
<1>3. PICK x \in T : \A y \in T : x <= y
  <2>1. T \in SUBSET Nat
    OBVIOUS
  <2>2. T # {}
    BY <1>2
  <2> HIDE DEF T
  <2> QED
    BY <2>1, <2>2, HasSmallest
<1>4. k - x \in S /\ x \in 0..k
  OBVIOUS
<1>5. ASSUME NEW j \in S
      PROVE  j <= k - x
  <2>1. j \in 0..k /\ k - j \in 0..k /\ k - (k - j) = j
    OBVIOUS
  <2>2. k - j \in T
    BY <2>1
  <2> QED
    BY <1>3, <1>4, <2>1, <2>2
<1> QED
  BY <1>4, <1>5

Places == {"idle", "init", "recheck", "reuse", "bump_load", "bump_cas", "commit_reused",
           "commit_bumped", "register", "unregister", "unmap", "giveback"}

\* A free run.
Piece == [off : 0 .. (Granules - 1), len : 1 .. Granules]

\* TypeOK, and the types it leaves open.
Shape == TypeOK /\ pc \in [Threads -> Places] /\ step \in [Threads -> Nat]

\* The limits of an operation in progress.
Working ==
  \A t \in Threads :
    /\ pc[t] # "idle" => want[t] >= 1
    /\ pc[t] = "bump_cas" => at[t] + want[t] <= Granules
    /\ pc[t] \in {"register", "unregister"} => step[t] < want[t]

\* GranulesPartitioned as arithmetic.  Two spans do not meet; a granule is
\* not in a span.
Clear(o, l, p, m) == o + l <= p \/ p + m <= o
Outside(g, o, l) == g < o \/ o + l <= g

RunsApart ==
  \A i, j \in DOMAIN runs : i # j => Clear(runs[i].off, runs[i].len, runs[j].off, runs[j].len)
SheetsApart ==
  \A s, u \in sheets : s # u => Clear(s.off, s.len, u.off, u.len)
BusyApart ==
  \A t, u \in Threads : Busy(t) /\ Busy(u) /\ t # u => Clear(at[t], want[t], at[u], want[u])
RunSheetApart ==
  \A i \in DOMAIN runs, s \in sheets : Clear(runs[i].off, runs[i].len, s.off, s.len)
RunBusyApart ==
  \A i \in DOMAIN runs, t \in Threads : Busy(t) => Clear(runs[i].off, runs[i].len, at[t], want[t])
SheetBusyApart ==
  \A s \in sheets, t \in Threads : Busy(t) => Clear(s.off, s.len, at[t], want[t])
LeakedApart ==
  \A g \in leaked :
    /\ \A i \in DOMAIN runs : Outside(g, runs[i].off, runs[i].len)
    /\ \A s \in sheets : Outside(g, s.off, s.len)
    /\ \A t \in Threads : Busy(t) => Outside(g, at[t], want[t])

\* Everything that was handed out lies below the cursor ...
Below ==
  /\ \A i \in DOMAIN runs : runs[i].off + runs[i].len <= offset
  /\ \A s \in sheets : s.off + s.len <= offset
  /\ \A t \in Threads : Busy(t) => at[t] + want[t] <= offset
  /\ \A g \in leaked : g < offset

\* ... and everything below it is somewhere.
Covered ==
  \A g \in 0 .. (offset - 1) :
    \/ g \in leaked
    \/ \E i \in DOMAIN runs : ~Outside(g, runs[i].off, runs[i].len)
    \/ \E s \in sheets : ~Outside(g, s.off, s.len)
    \/ \E t \in Threads : Busy(t) /\ ~Outside(g, at[t], want[t])

Partition ==
  /\ RunsApart /\ SheetsApart /\ BusyApart /\ RunSheetApart /\ RunBusyApart /\ SheetBusyApart
  /\ LeakedApart /\ Below /\ Covered

\* A sheet in use, or about to be, is mapped.
Mapped ==
  /\ \A s \in sheets : \A g \in Span(s.off, s.len) : page[g] = "rw"
  /\ \A t \in Threads : pc[t] = "register" => \A g \in Span(at[t], want[t]) : page[g] = "rw"

\* The table has the owner of each granule of a sheet, and of the granules a
\* half-done registration has reached or a half-done removal has not; no more.
Registered ==
  /\ \A s \in sheets : \A g \in Span(s.off, s.len) : table[g] = s.owner
  /\ \A t \in Threads : pc[t] = "register" =>
       \A g \in Span(at[t], step[t]) : table[g] = t
  /\ \A g \in 0 .. (Granules - 1) : table[g] # None =>
       \/ \E s \in sheets : g \in Span(s.off, s.len) /\ table[g] = s.owner
       \/ pc[table[g]] = "register" /\ g \in Span(at[table[g]], step[table[g]])
       \/ /\ pc[table[g]] = "unregister"
          /\ g \in Span(at[table[g]], want[table[g]]) /\ g >= at[table[g]] + step[table[g]]

VaInv == Shape /\ Working /\ Partition /\ Mapped /\ Registered

-----------------------------------------------------------------------------
(* What the invariant gives *)

\* The free-run array as a function, and the types of the parts.
LEMMA Types ==
  ASSUME Shape
  PROVE  /\ Len(runs) \in Nat /\ DOMAIN runs = 1 .. Len(runs)
         /\ \A i \in 1 .. Len(runs) :
              runs[i] = [off |-> runs[i].off, len |-> runs[i].len] /\ runs[i].off \in Nat
              /\ runs[i].len \in Nat /\ runs[i].off < Granules /\ runs[i].len >= 1
         /\ \A s \in sheets : s.owner \in Threads /\ s.off \in Nat /\ s.len \in Nat /\ s.len >= 1
         /\ \A t \in Threads : want[t] \in Nat /\ want[t] <= MaxRun /\ at[t] \in Nat /\ at[t] <= Granules
                               /\ step[t] \in Nat /\ pc[t] \in Places
         /\ offset \in Nat /\ offset <= Granules /\ Granules \in Nat /\ MaxRun \in Nat
         /\ leaked \subseteq Nat
<1>1. runs \in Seq(Piece)
  BY DEF Shape, TypeOK, Piece
<1>2. Len(runs) \in Nat /\ DOMAIN runs = 1 .. Len(runs)
  BY <1>1
<1>3. Granules \in Nat /\ MaxRun \in Nat
  BY VaAssumption
<1>4. ASSUME NEW i \in 1 .. Len(runs)
      PROVE  runs[i] = [off |-> runs[i].off, len |-> runs[i].len] /\ runs[i].off \in Nat
             /\ runs[i].len \in Nat /\ runs[i].off < Granules /\ runs[i].len >= 1
  <2>1. runs[i] \in Piece
    BY <1>1, <1>2
  <2> QED
    BY <1>3, <2>1 DEF Piece
<1>5. \A s \in sheets : s.owner \in Threads /\ s.off \in Nat /\ s.len \in Nat /\ s.len >= 1
  BY <1>3 DEF Shape, TypeOK
<1>6. \A t \in Threads : want[t] \in Nat /\ want[t] <= MaxRun /\ at[t] \in Nat /\ at[t] <= Granules
                         /\ step[t] \in Nat /\ pc[t] \in Places
  BY <1>3 DEF Shape, TypeOK
<1>7. offset \in Nat /\ offset <= Granules /\ leaked \subseteq Nat
  BY <1>3 DEF Shape, TypeOK
<1> QED
  BY <1>2, <1>3, <1>4, <1>5, <1>6, <1>7

\* The spans of the partition by kind.
LEMMA SpanKinds ==
  /\ \A i \in DOMAIN runs : SpanOf(<<"run", i>>) = Span(runs[i].off, runs[i].len)
  /\ \A s \in sheets : SpanOf(<<"sheet", s>>) = Span(s.off, s.len)
  /\ \A t \in Threads : SpanOf(<<"busy", t>>) = Span(at[t], want[t])
  /\ SpanOf(<<"leaked", 0>>) = leaked
  /\ \A x \in Spans : \/ \E i \in DOMAIN runs : x = <<"run", i>>
                      \/ \E s \in sheets : x = <<"sheet", s>>
                      \/ \E t \in Threads : Busy(t) /\ x = <<"busy", t>>
                      \/ x = <<"leaked", 0>>
BY DEF SpanOf, Spans

\* The arithmetic says what GranulesPartitioned says.
LEMMA PartitionSound ==
  Shape /\ Partition => GranulesPartitioned
<1> SUFFICES ASSUME Shape, Partition PROVE GranulesPartitioned
  OBVIOUS
<1>0. /\ Len(runs) \in Nat /\ DOMAIN runs = 1 .. Len(runs)
      /\ \A i \in DOMAIN runs : runs[i].off \in Nat /\ runs[i].len \in Nat
      /\ \A s \in sheets : s.off \in Nat /\ s.len \in Nat
      /\ \A t \in Threads : at[t] \in Nat /\ want[t] \in Nat
      /\ offset \in Nat /\ leaked \subseteq Nat
  BY Types
<1>1. ASSUME NEW g \in Int, NEW o \in Nat, NEW l \in Nat
      PROVE  g \in Span(o, l) <=> ~Outside(g, o, l)
  BY DEF Span, Outside
<1>2. ASSUME NEW o \in Nat, NEW l \in Nat, NEW p \in Nat, NEW m \in Nat, Clear(o, l, p, m)
      PROVE  Span(o, l) \cap Span(p, m) = {}
  BY <1>2 DEF Span, Clear
<1>3. ASSUME NEW y \in Spans, y # <<"leaked", 0>>
      PROVE  leaked \cap SpanOf(y) = {}
  <2> SUFFICES ASSUME NEW g \in leaked PROVE g \notin SpanOf(y)
    OBVIOUS
  <2>1. CASE \E j \in DOMAIN runs : y = <<"run", j>>
    BY <1>0, <1>1, <2>1, SpanKinds DEF Partition, LeakedApart
  <2>2. CASE \E s \in sheets : y = <<"sheet", s>>
    BY <1>0, <1>1, <2>2, SpanKinds DEF Partition, LeakedApart
  <2>3. CASE \E u \in Threads : Busy(u) /\ y = <<"busy", u>>
    BY <1>0, <1>1, <2>3, SpanKinds DEF Partition, LeakedApart
  <2> QED
    BY <1>3, <2>1, <2>2, <2>3, SpanKinds
<1>4. ASSUME NEW x \in Spans, NEW y \in Spans, x # y
      PROVE  SpanOf(x) \cap SpanOf(y) = {}
  <2>1. ASSUME NEW i \in DOMAIN runs, x = <<"run", i>> PROVE SpanOf(x) \cap SpanOf(y) = {}
    <3>1. ASSUME NEW j \in DOMAIN runs, y = <<"run", j>> PROVE SpanOf(x) \cap SpanOf(y) = {}
      <4>1. Span(runs[i].off, runs[i].len) \cap Span(runs[j].off, runs[j].len) = {}
        BY <1>0, <1>2, <1>4, <2>1, <3>1 DEF Partition, RunsApart
      <4> QED
        BY <1>4, <2>1, <3>1, <4>1, SpanKinds
    <3>2. ASSUME NEW v \in sheets, y = <<"sheet", v>> PROVE SpanOf(x) \cap SpanOf(y) = {}
      <4>1. Span(runs[i].off, runs[i].len) \cap Span(v.off, v.len) = {}
        BY <1>0, <1>2, <2>1, <3>2 DEF Partition, RunSheetApart
      <4> QED
        BY <2>1, <3>2, <4>1, SpanKinds
    <3>3. ASSUME NEW u \in Threads, Busy(u), y = <<"busy", u>> PROVE SpanOf(x) \cap SpanOf(y) = {}
      <4>1. Span(runs[i].off, runs[i].len) \cap Span(at[u], want[u]) = {}
        BY <1>0, <1>2, <2>1, <3>3 DEF Partition, RunBusyApart
      <4> QED
        BY <2>1, <3>3, <4>1, SpanKinds
    <3>4. CASE y = <<"leaked", 0>>
      BY <1>3, <1>4, <3>4, SpanKinds
    <3> QED
      BY <3>1, <3>2, <3>3, <3>4, SpanKinds
  <2>2. ASSUME NEW s \in sheets, x = <<"sheet", s>> PROVE SpanOf(x) \cap SpanOf(y) = {}
    <3>1. ASSUME NEW j \in DOMAIN runs, y = <<"run", j>> PROVE SpanOf(x) \cap SpanOf(y) = {}
      <4>1. Span(runs[j].off, runs[j].len) \cap Span(s.off, s.len) = {}
        BY <1>0, <1>2, <2>2, <3>1 DEF Partition, RunSheetApart
      <4> QED
        BY <2>2, <3>1, <4>1, SpanKinds
    <3>2. ASSUME NEW v \in sheets, y = <<"sheet", v>> PROVE SpanOf(x) \cap SpanOf(y) = {}
      <4>1. Span(s.off, s.len) \cap Span(v.off, v.len) = {}
        BY <1>0, <1>2, <1>4, <2>2, <3>2 DEF Partition, SheetsApart
      <4> QED
        BY <1>4, <2>2, <3>2, <4>1, SpanKinds
    <3>3. ASSUME NEW u \in Threads, Busy(u), y = <<"busy", u>> PROVE SpanOf(x) \cap SpanOf(y) = {}
      <4>1. Span(s.off, s.len) \cap Span(at[u], want[u]) = {}
        BY <1>0, <1>2, <2>2, <3>3 DEF Partition, SheetBusyApart
      <4> QED
        BY <2>2, <3>3, <4>1, SpanKinds
    <3>4. CASE y = <<"leaked", 0>>
      BY <1>3, <1>4, <3>4, SpanKinds
    <3> QED
      BY <3>1, <3>2, <3>3, <3>4, SpanKinds
  <2>3. ASSUME NEW t \in Threads, Busy(t), x = <<"busy", t>> PROVE SpanOf(x) \cap SpanOf(y) = {}
    <3>1. ASSUME NEW j \in DOMAIN runs, y = <<"run", j>> PROVE SpanOf(x) \cap SpanOf(y) = {}
      <4>1. Span(runs[j].off, runs[j].len) \cap Span(at[t], want[t]) = {}
        BY <1>0, <1>2, <2>3, <3>1 DEF Partition, RunBusyApart
      <4> QED
        BY <2>3, <3>1, <4>1, SpanKinds
    <3>2. ASSUME NEW v \in sheets, y = <<"sheet", v>> PROVE SpanOf(x) \cap SpanOf(y) = {}
      <4>1. Span(v.off, v.len) \cap Span(at[t], want[t]) = {}
        BY <1>0, <1>2, <2>3, <3>2 DEF Partition, SheetBusyApart
      <4> QED
        BY <2>3, <3>2, <4>1, SpanKinds
    <3>3. ASSUME NEW u \in Threads, Busy(u), y = <<"busy", u>> PROVE SpanOf(x) \cap SpanOf(y) = {}
      <4>1. Span(at[t], want[t]) \cap Span(at[u], want[u]) = {}
        BY <1>0, <1>2, <1>4, <2>3, <3>3 DEF Partition, BusyApart
      <4> QED
        BY <1>4, <2>3, <3>3, <4>1, SpanKinds
    <3>4. CASE y = <<"leaked", 0>>
      BY <1>3, <1>4, <3>4, SpanKinds
    <3> QED
      BY <3>1, <3>2, <3>3, <3>4, SpanKinds
  <2>4. CASE x = <<"leaked", 0>>
    BY <1>3, <1>4, <2>4, SpanKinds
  <2> QED
    BY <2>1, <2>2, <2>3, <2>4, SpanKinds
<1>5. ASSUME NEW x \in Spans, NEW g \in SpanOf(x)
      PROVE  g \in 0 .. (offset - 1)
  <2>1. CASE \E j \in DOMAIN runs : x = <<"run", j>>
    <3>1. PICK j \in DOMAIN runs : x = <<"run", j>>
      BY <2>1
    <3>2. g \in Span(runs[j].off, runs[j].len) /\ runs[j].off + runs[j].len <= offset
      BY <3>1, SpanKinds DEF Partition, Below
    <3> QED
      BY <1>0, <3>2 DEF Span
  <2>2. CASE \E s \in sheets : x = <<"sheet", s>>
    <3>1. PICK s \in sheets : x = <<"sheet", s>>
      BY <2>2
    <3>2. g \in Span(s.off, s.len) /\ s.off + s.len <= offset
      BY <3>1, SpanKinds DEF Partition, Below
    <3> QED
      BY <1>0, <3>2 DEF Span
  <2>3. CASE \E t \in Threads : Busy(t) /\ x = <<"busy", t>>
    <3>1. PICK t \in Threads : Busy(t) /\ x = <<"busy", t>>
      BY <2>3
    <3>2. g \in Span(at[t], want[t]) /\ at[t] + want[t] <= offset
      BY <3>1, SpanKinds DEF Partition, Below
    <3> QED
      BY <1>0, <3>2 DEF Span
  <2>4. CASE x = <<"leaked", 0>>
    <3>1. g \in leaked
      BY <2>4, SpanKinds
    <3>2. g \in Nat /\ g < offset
      BY <1>0, <3>1 DEF Partition, Below
    <3> QED
      BY <1>0, <3>2
  <2> QED
    BY <2>1, <2>2, <2>3, <2>4, SpanKinds
<1>6. ASSUME NEW g \in 0 .. (offset - 1)
      PROVE  \E x \in Spans : g \in SpanOf(x)
  <2>1. CASE g \in leaked
    BY <2>1, SpanKinds DEF Spans
  <2>2. ASSUME NEW i \in DOMAIN runs, ~Outside(g, runs[i].off, runs[i].len)
        PROVE  \E x \in Spans : g \in SpanOf(x)
    <3>1. g \in SpanOf(<<"run", i>>)
      BY <1>0, <1>1, <2>2, SpanKinds
    <3> QED
      BY <3>1 DEF Spans
  <2>3. ASSUME NEW s \in sheets, ~Outside(g, s.off, s.len)
        PROVE  \E x \in Spans : g \in SpanOf(x)
    <3>1. g \in SpanOf(<<"sheet", s>>)
      BY <1>0, <1>1, <2>3, SpanKinds
    <3> QED
      BY <3>1 DEF Spans
  <2>4. ASSUME NEW t \in Threads, Busy(t), ~Outside(g, at[t], want[t])
        PROVE  \E x \in Spans : g \in SpanOf(x)
    <3>1. g \in SpanOf(<<"busy", t>>)
      BY <1>0, <1>1, <2>4, SpanKinds
    <3> QED
      BY <2>4, <3>1 DEF Spans
  <2> QED
    BY <2>1, <2>2, <2>3, <2>4 DEF Partition, Covered
<1>7. UNION {SpanOf(x) : x \in Spans} = 0 .. (offset - 1)
  BY <1>5, <1>6
<1> QED
  BY <1>4, <1>7 DEF GranulesPartitioned

\* The invariant gives the partition as sets of granules.
LEMMA InvCarves == VaInv => CarvesSound
BY PartitionSound DEF VaInv, Shape, CarvesSound, Mapped, SheetsMapped

\* The invariant gives the exact table.
LEMMA InvTable == VaInv => OwnerTableExact
<1> SUFFICES ASSUME VaInv, NEW g \in 0 .. (Granules - 1)
             PROVE  \/ \E s \in sheets : g \in Span(s.off, s.len) /\ table[g] = s.owner
                    \/ /\ \A s \in sheets : g \notin Span(s.off, s.len)
                       /\ table[g] # None => /\ pc[table[g]] \in {"register", "unregister"}
                                             /\ g \in Span(at[table[g]], want[table[g]])
  BY DEF OwnerTableExact
<1>1. CASE \E s \in sheets : g \in Span(s.off, s.len)
  BY <1>1 DEF VaInv, Registered
<1>2. CASE \A s \in sheets : g \notin Span(s.off, s.len)
  <2> SUFFICES ASSUME table[g] # None
               PROVE  /\ pc[table[g]] \in {"register", "unregister"}
                      /\ g \in Span(at[table[g]], want[table[g]])
    BY <1>2
  <2> DEFINE t == table[g]
  <2>1. t \in Threads
    BY DEF VaInv, Shape, TypeOK
  <2>2. CASE pc[t] = "register" /\ g \in Span(at[t], step[t])
    <3>1. step[t] < want[t] /\ step[t] \in Nat /\ want[t] \in Nat /\ at[t] \in Nat
      BY <2>1, <2>2, Types DEF VaInv, Working
    <3> HIDE DEF t
    <3>2. g \in Span(at[t], want[t])
      BY <2>2, <3>1 DEF Span
    <3> QED
      BY <2>2, <3>2 DEF t
  <2> QED
    BY <1>2, <2>2 DEF VaInv, Registered
<1> QED
  BY <1>1, <1>2

-----------------------------------------------------------------------------
(* The free-run array *)

\* The scan of __va_reuse finds a run that is long enough, if there is one.
LEMMA BestFitFits ==
  ASSUME Shape, NEW n \in Nat, Fits(n) # {}
  PROVE  BestFit(n) \in Fits(n)
<1>0. /\ Len(runs) \in Nat /\ DOMAIN runs = 1 .. Len(runs)
      /\ \A i \in 1 .. Len(runs) : runs[i].len \in Nat
  BY Types
<1> DEFINE L == {runs[i].len : i \in Fits(n)}
<1>1. L \in SUBSET Nat /\ L # {}
  BY <1>0 DEF Fits
<1>2. PICK m \in L : \A k \in L : m <= k
  <2> HIDE DEF L
  <2> QED
    BY <1>1, HasSmallest
<1> DEFINE S == {i \in Fits(n) : runs[i].len = m}
<1>3. S \in SUBSET (0 .. Len(runs)) /\ S # {}
  BY <1>0, <1>2 DEF Fits
<1>4. PICK h \in S : \A i \in S : i <= h
  <2> HIDE DEF S
  <2> QED
    BY <1>0, <1>3, HasLargest
<1>5. ASSUME NEW j \in Fits(n)
      PROVE  runs[h].len < runs[j].len \/ (runs[h].len = runs[j].len /\ j <= h)
  <2>1. m <= runs[j].len /\ m \in Nat /\ runs[j].len \in Nat
    BY <1>0, <1>1, <1>2 DEF Fits
  <2>2. CASE runs[j].len = m
    BY <1>4, <2>2
  <2>3. CASE runs[j].len # m
    BY <2>1, <2>3
  <2> QED
    BY <2>2, <2>3
<1>6. h \in Fits(n)
  OBVIOUS
<1> HIDE DEF L, S
<1> QED
  BY <1>5, <1>6 DEF BestFit

\* Taking n granules from a longer run leaves its rest in place.
LEMMA TakeSplit ==
  ASSUME Shape, NEW i \in 1 .. Len(runs), NEW n \in Nat, n >= 1, runs[i].len > n,
         runs[i].off + runs[i].len <= Granules, runs' = TakeRun(i, n)
  PROVE  /\ runs' \in Seq(Piece)
         /\ Len(runs') = Len(runs) /\ DOMAIN runs' = DOMAIN runs
         /\ \A j \in 1 .. Len(runs) : j # i => runs'[j] = runs[j]
         /\ runs'[i].off = runs[i].off + n /\ runs'[i].len = runs[i].len - n
<1> DEFINE r == [off |-> runs[i].off + n, len |-> runs[i].len - n]
<1>0. /\ Len(runs) \in Nat /\ DOMAIN runs = 1 .. Len(runs) /\ runs[i].off \in Nat /\ runs[i].len \in Nat
      /\ runs \in Seq(Piece)
  BY Types DEF Shape, TypeOK, Piece
<1>1. runs' = [runs EXCEPT ![i] = r]
  BY DEF TakeRun
<1>2. r \in Piece
  <2>1. Granules \in Nat /\ runs[i].off \in Nat /\ runs[i].len \in Nat
    BY Types
  <2>2. runs[i].off + n \in 0 .. (Granules - 1) /\ runs[i].len - n \in 1 .. Granules
    BY <2>1
  <2> QED
    BY <2>2 DEF Piece
<1>3. r.off = runs[i].off + n /\ r.len = runs[i].len - n
  OBVIOUS
<1> HIDE DEF r
<1>4. runs' \in Seq(Piece) /\ Len(runs') = Len(runs) /\ DOMAIN runs' = DOMAIN runs
  BY <1>0, <1>1, <1>2
<1>5. runs'[i] = r /\ \A j \in 1 .. Len(runs) : j # i => runs'[j] = runs[j]
  BY <1>0, <1>1
<1> QED
  BY <1>3, <1>4, <1>5

\* Taking the whole of a run moves the last one into its slot.
LEMMA TakeWhole ==
  ASSUME Shape, NEW i \in 1 .. Len(runs), NEW n \in Nat, ~(runs[i].len > n), runs' = TakeRun(i, n)
  PROVE  /\ runs' \in Seq(Piece)
         /\ Len(runs') = Len(runs) - 1 /\ DOMAIN runs' = 1 .. (Len(runs) - 1)
         /\ \A j \in 1 .. (Len(runs) - 1) : runs'[j] = IF j = i THEN runs[Len(runs)] ELSE runs[j]
<1> DEFINE q == [runs EXCEPT ![i] = runs[Len(runs)]]
<1>0. /\ Len(runs) \in Nat /\ DOMAIN runs = 1 .. Len(runs) /\ Len(runs) >= 1
      /\ runs \in Seq(Piece)
  BY Types DEF Shape, TypeOK, Piece
<1>1. runs' = SubSeq(q, 1, Len(runs) - 1)
  BY DEF TakeRun
<1>2. q \in Seq(Piece) /\ Len(q) = Len(runs) /\ \A j \in 1 .. Len(runs) : q[j] = IF j = i THEN runs[Len(runs)] ELSE runs[j]
  BY <1>0
<1> HIDE DEF q
<1>3. runs' \in Seq(Piece) /\ Len(runs') = Len(runs) - 1 /\ DOMAIN runs' = 1 .. (Len(runs) - 1)
  BY <1>0, <1>1, <1>2
<1>4. \A j \in 1 .. (Len(runs) - 1) : runs'[j] = q[j]
  BY <1>0, <1>1, <1>2
<1>5. \A j \in 1 .. (Len(runs) - 1) : runs'[j] = IF j = i THEN runs[Len(runs)] ELSE runs[j]
  BY <1>0, <1>2, <1>4
<1> QED
  BY <1>3, <1>5

\* A listed run comes after all others.
LEMMA PutRun ==
  ASSUME Shape, NEW r \in Piece, runs' = Append(runs, r)
  PROVE  /\ runs' \in Seq(Piece)
         /\ Len(runs') = Len(runs) + 1 /\ DOMAIN runs' = DOMAIN runs \cup {Len(runs) + 1}
         /\ \A j \in 1 .. Len(runs) : runs'[j] = runs[j]
         /\ runs'[Len(runs) + 1] = r
<1>0. Len(runs) \in Nat /\ DOMAIN runs = 1 .. Len(runs) /\ runs \in Seq(Piece) /\ r \in Piece
  BY Types DEF Shape, TypeOK, Piece
<1>1. /\ runs' \in Seq(Piece) /\ Len(runs') = Len(runs) + 1
      /\ \A j \in 1 .. Len(runs) : runs'[j] = runs[j]
      /\ runs'[Len(runs) + 1] = r
  BY <1>0
<1> QED
  BY <1>0, <1>1

-----------------------------------------------------------------------------
(* Moves of a span between free runs, sheets, operations and the lost *)

\* The other threads' spans stay where they are.
Others(t) ==
  \A u \in Threads \ {t} : (Busy(u)' <=> Busy(u)) /\ at'[u] = at[u] /\ want'[u] = want[u]

\* A step that moves no granule keeps the partition.
LEMMA QuietPartition ==
  ASSUME Partition, runs' = runs, sheets' = sheets, offset' = offset, leaked' = leaked,
         \A u \in Threads : /\ Busy(u)' <=> Busy(u)
                            /\ Busy(u) => at'[u] = at[u] /\ want'[u] = want[u]
  PROVE  Partition'
<1>1. (RunsApart /\ SheetsApart /\ RunSheetApart)'
  BY DEF Partition, RunsApart, SheetsApart, RunSheetApart
<1>2. (BusyApart /\ RunBusyApart /\ SheetBusyApart)'
  BY DEF Partition, BusyApart, RunBusyApart, SheetBusyApart
<1>3. (LeakedApart /\ Below)'
  BY DEF Partition, LeakedApart, Below
<1>4. Covered'
  BY DEF Partition, Covered
<1> QED
  BY <1>1, <1>2, <1>3, <1>4 DEF Partition

\* The cursor moves past a new span, which is the operation's.
LEMMA BumpPartition ==
  ASSUME Shape, Partition, NEW t \in Threads, Others(t), ~Busy(t), Busy(t)',
         runs' = runs, sheets' = sheets, leaked' = leaked,
         at' = at, want' = want, at[t] = offset, offset' = offset + want[t]
  PROVE  Partition'
<1>0. /\ DOMAIN runs = 1 .. Len(runs)
      /\ \A i \in DOMAIN runs : runs[i].off \in Nat /\ runs[i].len \in Nat
      /\ \A s \in sheets : s.off \in Nat /\ s.len \in Nat
      /\ \A u \in Threads : at[u] \in Nat /\ want[u] \in Nat
      /\ offset \in Nat /\ leaked \subseteq Nat
  BY Types
<1>1. (RunsApart /\ SheetsApart /\ RunSheetApart)'
  BY DEF Partition, RunsApart, SheetsApart, RunSheetApart
<1>2. BusyApart'
  BY <1>0 DEF Partition, BusyApart, Below, Others, Clear
<1>3. RunBusyApart'
  BY <1>0 DEF Partition, RunBusyApart, Below, Others, Clear
<1>4. SheetBusyApart'
  BY <1>0 DEF Partition, SheetBusyApart, Below, Others, Clear
<1>5. LeakedApart'
  BY <1>0 DEF Partition, LeakedApart, Below, Others, Outside
<1>6. Below'
  <2>1. want[t] \in Nat /\ offset <= offset' /\ offset' \in Nat
    BY <1>0
  <2>2. \A i \in DOMAIN runs : runs[i].off + runs[i].len <= offset'
    BY <1>0, <2>1 DEF Partition, Below
  <2>3. \A s \in sheets : s.off + s.len <= offset'
    BY <1>0, <2>1 DEF Partition, Below
  <2>4. \A u \in Threads : Busy(u)' => at[u] + want[u] <= offset'
    BY <1>0, <2>1 DEF Partition, Below, Others
  <2>5. \A g \in leaked : g < offset'
    BY <1>0, <2>1 DEF Partition, Below
  <2> QED
    BY <2>2, <2>3, <2>4, <2>5 DEF Below
<1>7. Covered'
  <2> SUFFICES ASSUME NEW g \in 0 .. (offset' - 1)
               PROVE  \/ g \in leaked'
                      \/ \E i \in DOMAIN runs' : ~Outside(g, runs'[i].off, runs'[i].len)
                      \/ \E s \in sheets' : ~Outside(g, s.off, s.len)
                      \/ \E u \in Threads : Busy(u)' /\ ~Outside(g, at'[u], want'[u])
    BY DEF Covered
  <2>1. CASE g < offset
    <3>1. g \in 0 .. (offset - 1)
      BY <1>0, <2>1
    <3> QED
      BY <3>1 DEF Partition, Covered, Others
  <2>2. CASE ~(g < offset)
    <3>1. ~Outside(g, at[t], want[t])
      BY <1>0, <2>2 DEF Outside
    <3> QED
      BY <3>1
  <2> QED
    BY <2>1, <2>2
<1> QED
  BY <1>1, <1>2, <1>3, <1>4, <1>5, <1>6, <1>7 DEF Partition

\* The operation's span is lost.
LEMMA LosePartition ==
  ASSUME Shape, Partition, NEW t \in Threads, Others(t), Busy(t), ~Busy(t)',
         runs' = runs, sheets' = sheets, offset' = offset,
         leaked' = leaked \cup Span(at[t], want[t])
  PROVE  Partition'
<1>0. /\ DOMAIN runs = 1 .. Len(runs)
      /\ \A i \in DOMAIN runs : runs[i].off \in Nat /\ runs[i].len \in Nat
      /\ \A s \in sheets : s.off \in Nat /\ s.len \in Nat
      /\ \A u \in Threads : at[u] \in Nat /\ want[u] \in Nat
      /\ offset \in Nat /\ leaked \subseteq Nat
  BY Types
<1>1. (RunsApart /\ SheetsApart /\ RunSheetApart)'
  BY DEF Partition, RunsApart, SheetsApart, RunSheetApart
<1>2. (BusyApart /\ RunBusyApart /\ SheetBusyApart)'
  BY DEF Partition, BusyApart, RunBusyApart, SheetBusyApart, Others
<1>3. LeakedApart'
  <2> SUFFICES ASSUME NEW g \in leaked'
               PROVE  /\ \A i \in DOMAIN runs : Outside(g, runs[i].off, runs[i].len)
                      /\ \A s \in sheets : Outside(g, s.off, s.len)
                      /\ \A u \in Threads \ {t} : Busy(u) => Outside(g, at[u], want[u])
    BY DEF LeakedApart, Others
  <2>1. CASE g \in leaked
    BY <2>1 DEF Partition, LeakedApart
  <2>2. CASE g \in Span(at[t], want[t])
    <3>1. g \in Int /\ at[t] <= g /\ g < at[t] + want[t]
      BY <1>0, <2>2 DEF Span
    <3>2. ASSUME NEW i \in DOMAIN runs PROVE Outside(g, runs[i].off, runs[i].len)
      BY <1>0, <3>1 DEF Partition, RunBusyApart, Clear, Outside
    <3>3. ASSUME NEW s \in sheets PROVE Outside(g, s.off, s.len)
      BY <1>0, <3>1 DEF Partition, SheetBusyApart, Clear, Outside
    <3>4. ASSUME NEW u \in Threads \ {t}, Busy(u) PROVE Outside(g, at[u], want[u])
      BY <1>0, <3>1, <3>4 DEF Partition, BusyApart, Clear, Outside
    <3> QED
      BY <3>2, <3>3, <3>4
  <2> QED
    BY <2>1, <2>2
<1>4. Below'
  BY <1>0 DEF Partition, Below, Others, Span
<1>5. Covered'
  <2> SUFFICES ASSUME NEW g \in 0 .. (offset - 1)
               PROVE  \/ g \in leaked'
                      \/ \E i \in DOMAIN runs' : ~Outside(g, runs'[i].off, runs'[i].len)
                      \/ \E s \in sheets' : ~Outside(g, s.off, s.len)
                      \/ \E u \in Threads : Busy(u)' /\ ~Outside(g, at'[u], want'[u])
    BY DEF Covered
  <2>1. CASE ~Outside(g, at[t], want[t])
    BY <1>0, <2>1 DEF Outside, Span
  <2>2. CASE Outside(g, at[t], want[t])
    BY <2>2 DEF Partition, Covered, Others
  <2> QED
    BY <2>1, <2>2
<1> QED
  BY <1>1, <1>2, <1>3, <1>4, <1>5 DEF Partition

\* The operation's span becomes a sheet.
LEMMA UsePartition ==
  ASSUME Shape, Partition, NEW t \in Threads, Others(t), Busy(t), ~Busy(t)',
         runs' = runs, offset' = offset, leaked' = leaked,
         NEW s, s.off = at[t], s.len = want[t], sheets' = sheets \cup {s}
  PROVE  Partition'
<1>0. /\ DOMAIN runs = 1 .. Len(runs)
      /\ \A i \in DOMAIN runs : runs[i].off \in Nat /\ runs[i].len \in Nat
      /\ \A v \in sheets : v.off \in Nat /\ v.len \in Nat
      /\ \A u \in Threads : at[u] \in Nat /\ want[u] \in Nat
  BY Types
<1>1. RunsApart' /\ BusyApart' /\ RunBusyApart'
  BY DEF Partition, RunsApart, BusyApart, RunBusyApart, Others
<1>2. SheetsApart'
  BY <1>0 DEF Partition, SheetsApart, SheetBusyApart, Clear
<1>3. RunSheetApart'
  BY DEF Partition, RunSheetApart, RunBusyApart
<1>4. SheetBusyApart'
  BY <1>0 DEF Partition, SheetBusyApart, BusyApart, Others
<1>5. LeakedApart' /\ Below'
  BY DEF Partition, LeakedApart, Below, Others
<1>6. Covered'
  BY DEF Partition, Covered, Others
<1> QED
  BY <1>1, <1>2, <1>3, <1>4, <1>5, <1>6 DEF Partition

\* A sheet becomes the operation's span.
LEMMA UnusePartition ==
  ASSUME Shape, Partition, NEW t \in Threads, Others(t), ~Busy(t), Busy(t)',
         runs' = runs, offset' = offset, leaked' = leaked,
         NEW s \in sheets, at'[t] = s.off, want'[t] = s.len, sheets' = sheets \ {s}
  PROVE  Partition'
<1>0. /\ \A v \in sheets : v.off \in Nat /\ v.len \in Nat
      /\ \A u \in Threads : at[u] \in Nat /\ want[u] \in Nat
  BY Types
<1>1. RunsApart' /\ SheetsApart' /\ RunSheetApart'
  BY DEF Partition, RunsApart, SheetsApart, RunSheetApart
<1>2. BusyApart'
  BY <1>0 DEF Partition, BusyApart, SheetBusyApart, Clear, Others
<1>3. RunBusyApart'
  BY DEF Partition, RunSheetApart, RunBusyApart, Others
<1>4. SheetBusyApart'
  BY <1>0 DEF Partition, SheetBusyApart, SheetsApart, Clear, Others
<1>5. LeakedApart' /\ Below'
  BY DEF Partition, LeakedApart, Below, Others
<1>6. Covered'
  BY DEF Partition, Covered, Others
<1> QED
  BY <1>1, <1>2, <1>3, <1>4, <1>5, <1>6 DEF Partition

\* The operation's span becomes a free run.
LEMMA ListPartition ==
  ASSUME Shape, Partition, NEW t \in Threads, Others(t), Busy(t), ~Busy(t)',
         sheets' = sheets, offset' = offset, leaked' = leaked,
         want[t] >= 1, runs' = Append(runs, [off |-> at[t], len |-> want[t]])
  PROVE  Partition' /\ runs' \in Seq(Piece)
<1>0. /\ DOMAIN runs = 1 .. Len(runs) /\ Len(runs) \in Nat
      /\ \A i \in DOMAIN runs : runs[i].off \in Nat /\ runs[i].len \in Nat
      /\ \A v \in sheets : v.off \in Nat /\ v.len \in Nat
      /\ \A u \in Threads : at[u] \in Nat /\ want[u] \in Nat
  BY Types
<1> DEFINE n == Len(runs) + 1
           r == [off |-> at[t], len |-> want[t]]
<1>1. /\ runs' \in Seq(Piece)
      /\ DOMAIN runs' = DOMAIN runs \cup {n}
      /\ \A j \in DOMAIN runs : runs'[j] = runs[j]
      /\ runs'[n] = r
  <2>1. at[t] + want[t] <= offset /\ offset <= Granules /\ offset \in Nat /\ Granules \in Nat
    BY Types DEF Partition, Below
  <2>2. at[t] \in 0 .. (Granules - 1) /\ want[t] \in 1 .. Granules
    BY <1>0, <2>1
  <2>3. r \in Piece
    BY <2>2 DEF Piece
  <2> HIDE DEF r
  <2>4. runs' = Append(runs, r)
    BY DEF r
  <2> QED
    BY <1>0, <2>3, <2>4, PutRun
<1>2. n \notin DOMAIN runs /\ r.off = at[t] /\ r.len = want[t]
  BY <1>0
<1> HIDE DEF n, r
<1>3. RunsApart'
  <2>1. \A i \in DOMAIN runs : Clear(runs[i].off, runs[i].len, r.off, r.len)
                            /\ Clear(r.off, r.len, runs[i].off, runs[i].len)
    BY <1>0, <1>2 DEF Partition, RunBusyApart, Clear
  <2> QED
    BY <1>1, <1>2, <2>1 DEF Partition, RunsApart
<1>4. RunSheetApart'
  <2>1. \A s \in sheets : Clear(r.off, r.len, s.off, s.len)
    BY <1>0, <1>2 DEF Partition, SheetBusyApart, Clear
  <2> QED
    BY <1>1, <2>1 DEF Partition, RunSheetApart
<1>5. RunBusyApart'
  BY <1>0, <1>1, <1>2 DEF Partition, RunBusyApart, BusyApart, Others
<1>6. SheetsApart' /\ BusyApart' /\ SheetBusyApart'
  BY DEF Partition, SheetsApart, BusyApart, SheetBusyApart, Others
<1>7. LeakedApart'
  BY <1>1, <1>2 DEF Partition, LeakedApart, Others
<1>9. Below'
  <2>1. at[t] + want[t] <= offset
    BY DEF Partition, Below
  <2>2. \A i \in DOMAIN runs' : runs'[i].off + runs'[i].len <= offset'
    BY <1>1, <1>2, <2>1 DEF Partition, Below
  <2> QED
    BY <2>2 DEF Partition, Below, Others
<1>8. Covered'
  BY <1>1, <1>2 DEF Partition, Covered, Others
<1> QED
  BY <1>1, <1>3, <1>4, <1>5, <1>6, <1>7, <1>8, <1>9 DEF Partition

\* The head of a free run becomes the operation's span.
LEMMA ReusePartition ==
  ASSUME Shape, Partition, NEW t \in Threads, Others(t), ~Busy(t), Busy(t)',
         sheets' = sheets, offset' = offset, leaked' = leaked, want' = want,
         want[t] >= 1, NEW i \in DOMAIN runs, runs[i].len >= want[t],
         at'[t] = runs[i].off, runs' = TakeRun(i, want[t])
  PROVE  Partition' /\ runs' \in Seq(Piece)
<1>0. /\ DOMAIN runs = 1 .. Len(runs) /\ Len(runs) \in Nat
      /\ \A j \in DOMAIN runs : runs[j].off \in Nat /\ runs[j].len \in Nat
      /\ \A v \in sheets : v.off \in Nat /\ v.len \in Nat
      /\ \A u \in Threads : at[u] \in Nat /\ want[u] \in Nat
      /\ leaked \subseteq Nat
  BY Types
<1> DEFINE n == want[t]
<1>a. n \in Nat /\ n >= 1 /\ runs[i].len >= n /\ runs' = TakeRun(i, n) /\ want'[t] = n
  BY <1>0
<1> HIDE DEF n
\* Each run that is left is a run that was there, or the rest of the one taken.
<1>1. PICK from \in [DOMAIN runs' -> DOMAIN runs] :
        /\ \A j, k \in DOMAIN runs' : j # k => from[j] # from[k]
        /\ \A j \in DOMAIN runs' :
             IF from[j] = i
             THEN /\ runs[i].len > n
                  /\ runs'[j].off = runs[i].off + n /\ runs'[j].len = runs[i].len - n
             ELSE runs'[j] = runs[from[j]]
        /\ \A k \in DOMAIN runs : (k # i \/ runs[i].len > n) => \E j \in DOMAIN runs' : from[j] = k
        /\ runs' \in Seq(Piece)
  <2>1. CASE runs[i].len > n
    <3>1. runs[i].off + runs[i].len <= Granules
      <4>1. runs[i].off + runs[i].len <= offset /\ offset \in Nat /\ offset <= Granules /\ Granules \in Nat
        BY Types DEF Partition, Below
      <4> QED
        BY <1>0, <4>1
    <3>2. /\ runs' \in Seq(Piece)
          /\ DOMAIN runs' = DOMAIN runs
          /\ \A j \in DOMAIN runs : j # i => runs'[j] = runs[j]
          /\ runs'[i].off = runs[i].off + n /\ runs'[i].len = runs[i].len - n
      BY <1>0, <1>a, <2>1, <3>1, TakeSplit
    <3> DEFINE f == [j \in DOMAIN runs' |-> j]
    <3>3. f \in [DOMAIN runs' -> DOMAIN runs] /\ \A j \in DOMAIN runs' : f[j] = j
      BY <3>2
    <3> HIDE DEF f
    <3> QED
      BY <2>1, <3>2, <3>3
  <2>2. CASE ~(runs[i].len > n)
    <3>1. /\ runs' \in Seq(Piece)
          /\ DOMAIN runs' = 1 .. (Len(runs) - 1)
          /\ \A j \in 1 .. (Len(runs) - 1) : runs'[j] = IF j = i THEN runs[Len(runs)] ELSE runs[j]
      BY <1>0, <1>a, <2>2, TakeWhole
    <3> DEFINE f == [j \in DOMAIN runs' |-> IF j = i THEN Len(runs) ELSE j]
    <3>2. /\ f \in [DOMAIN runs' -> DOMAIN runs]
          /\ \A j \in 1 .. (Len(runs) - 1) : f[j] = IF j = i THEN Len(runs) ELSE j
      BY <1>0, <3>1
    <3> HIDE DEF f
    <3>0. Len(runs) \notin 1 .. (Len(runs) - 1)
      BY <1>0
    <3>3. \A j, k \in DOMAIN runs' : j # k => f[j] # f[k]
      BY <3>1, <3>2, <3>0
    <3>4. \A j \in DOMAIN runs' : f[j] # i /\ runs'[j] = runs[f[j]]
      BY <3>1, <3>2, <3>0
    <3>5. \A k \in DOMAIN runs : k # i => \E j \in DOMAIN runs' : f[j] = k
      <4> TAKE k \in DOMAIN runs
      <4> HAVE k # i
      <4>1. CASE k = Len(runs)
        <5>1. i \in 1 .. (Len(runs) - 1)
          BY <1>0, <4>1
        <5> QED
          BY <3>1, <3>2, <4>1, <5>1
      <4>2. CASE k # Len(runs)
        <5>1. k \in 1 .. (Len(runs) - 1)
          BY <1>0, <4>2
        <5> QED
          BY <3>1, <3>2, <5>1
      <4> QED
        BY <4>1, <4>2
    <3> QED
      BY <2>2, <3>1, <3>2, <3>3, <3>4, <3>5
  <2> QED
    BY <2>1, <2>2
<1>2. ASSUME NEW j \in DOMAIN runs'
      PROVE  /\ from[j] \in DOMAIN runs /\ runs'[j].off \in Nat /\ runs'[j].len \in Nat
             /\ runs[from[j]].off <= runs'[j].off
             /\ runs'[j].off + runs'[j].len = runs[from[j]].off + runs[from[j]].len
             /\ Clear(runs'[j].off, runs'[j].len, runs[i].off, n)
  <2>1. from[j] \in DOMAIN runs
    BY <1>1
  <2>2. CASE from[j] = i
    <3>1. runs[i].len > n /\ runs'[j].off = runs[i].off + n /\ runs'[j].len = runs[i].len - n
      BY <1>1, <2>2
    <3>2. runs[i].off \in Nat /\ runs[i].len \in Nat /\ n \in Nat
      BY <1>0, <1>a
    <3>3. /\ runs'[j].off \in Nat /\ runs'[j].len \in Nat
          /\ runs[i].off <= runs'[j].off
          /\ runs'[j].off + runs'[j].len = runs[i].off + runs[i].len
          /\ Clear(runs'[j].off, runs'[j].len, runs[i].off, n)
      BY <3>1, <3>2 DEF Clear
    <3> QED
      BY <2>1, <2>2, <3>3
  <2>3. CASE from[j] # i
    <3>1. Clear(runs[from[j]].off, runs[from[j]].len, runs[i].off, runs[i].len)
      BY <2>1, <2>3 DEF Partition, RunsApart
    <3>2. runs'[j] = runs[from[j]]
      BY <1>1, <2>3
    <3> QED
      BY <1>0, <1>a, <2>1, <3>1, <3>2 DEF Clear
  <2> QED
    BY <2>2, <2>3
<1>3. RunsApart'
  <2> SUFFICES ASSUME NEW j \in DOMAIN runs', NEW k \in DOMAIN runs', j # k
               PROVE  Clear(runs'[j].off, runs'[j].len, runs'[k].off, runs'[k].len)
    BY DEF RunsApart
  <2>1. from[j] \in DOMAIN runs /\ from[k] \in DOMAIN runs /\ from[j] # from[k]
    BY <1>1, <1>2
  <2>2. Clear(runs[from[j]].off, runs[from[j]].len, runs[from[k]].off, runs[from[k]].len)
    BY <2>1 DEF Partition, RunsApart
  <2>3. /\ runs'[j].off \in Nat /\ runs'[j].len \in Nat
        /\ runs[from[j]].off <= runs'[j].off
        /\ runs'[j].off + runs'[j].len = runs[from[j]].off + runs[from[j]].len
    BY <1>2
  <2>4. /\ runs'[k].off \in Nat /\ runs'[k].len \in Nat
        /\ runs[from[k]].off <= runs'[k].off
        /\ runs'[k].off + runs'[k].len = runs[from[k]].off + runs[from[k]].len
    BY <1>2
  <2> QED
    BY <1>0, <2>1, <2>2, <2>3, <2>4 DEF Clear
<1>4. RunSheetApart'
  <2> SUFFICES ASSUME NEW j \in DOMAIN runs', NEW s \in sheets
               PROVE  Clear(runs'[j].off, runs'[j].len, s.off, s.len)
    BY DEF RunSheetApart
  <2>1. Clear(runs[from[j]].off, runs[from[j]].len, s.off, s.len)
    BY <1>2 DEF Partition, RunSheetApart
  <2> QED
    BY <1>0, <1>2, <2>1 DEF Clear
<1>5. RunBusyApart'
  <2> SUFFICES ASSUME NEW j \in DOMAIN runs', NEW u \in Threads, Busy(u)'
               PROVE  Clear(runs'[j].off, runs'[j].len, at'[u], want'[u])
    BY DEF RunBusyApart
  <2>1. CASE u = t
    BY <1>a, <1>2, <2>1
  <2>2. CASE u # t
    <3>1. Clear(runs[from[j]].off, runs[from[j]].len, at[u], want[u]) /\ at'[u] = at[u]
      BY <1>2, <2>2 DEF Partition, RunBusyApart, Others
    <3> QED
      BY <1>0, <1>2, <3>1 DEF Clear
  <2> QED
    BY <2>1, <2>2
<1>6. SheetsApart'
  BY DEF Partition, SheetsApart
<1>7. BusyApart'
  <2>1. ASSUME NEW u \in Threads \ {t}, Busy(u)
        PROVE  Clear(runs[i].off, n, at[u], want[u]) /\ Clear(at[u], want[u], runs[i].off, n)
    BY <1>0, <1>a, <2>1 DEF Partition, RunBusyApart, Clear
  <2> QED
    BY <1>a, <2>1 DEF Partition, BusyApart, Others
<1>8. SheetBusyApart'
  <2>1. ASSUME NEW s \in sheets PROVE Clear(s.off, s.len, runs[i].off, n)
    BY <1>0, <1>a DEF Partition, RunSheetApart, Clear
  <2> QED
    BY <1>a, <2>1 DEF Partition, SheetBusyApart, Others
<1>9. LeakedApart'
  <2> SUFFICES ASSUME NEW g \in leaked
               PROVE  /\ \A j \in DOMAIN runs' : Outside(g, runs'[j].off, runs'[j].len)
                      /\ Outside(g, runs[i].off, n)
    BY <1>a DEF Partition, LeakedApart, Others
  <2>1. \A k \in DOMAIN runs : Outside(g, runs[k].off, runs[k].len)
    BY DEF Partition, LeakedApart
  <2> QED
    BY <1>0, <1>a, <1>2, <2>1 DEF Outside
<1>10. Below'
  <2>1. offset \in Nat
    BY Types
  <2>2. runs[i].off + n <= offset /\ \A j \in DOMAIN runs' : runs'[j].off + runs'[j].len <= offset
    BY <1>0, <1>a, <1>2, <2>1 DEF Partition, Below
  <2> QED
    BY <1>a, <2>2 DEF Partition, Below, Others
<1>11. Covered'
  <2> SUFFICES ASSUME NEW g \in 0 .. (offset - 1)
               PROVE  \/ g \in leaked'
                      \/ \E j \in DOMAIN runs' : ~Outside(g, runs'[j].off, runs'[j].len)
                      \/ \E s \in sheets' : ~Outside(g, s.off, s.len)
                      \/ \E u \in Threads : Busy(u)' /\ ~Outside(g, at'[u], want'[u])
    BY DEF Covered
  <2>1. ASSUME NEW k \in DOMAIN runs, ~Outside(g, runs[k].off, runs[k].len),
               Outside(g, runs[i].off, n)
        PROVE  \E j \in DOMAIN runs' : ~Outside(g, runs'[j].off, runs'[j].len)
    <3>1. k # i \/ runs[i].len > n
      BY <1>0, <1>a, <2>1 DEF Outside
    <3>2. PICK j \in DOMAIN runs' : from[j] = k
      BY <1>1, <3>1
    <3>3. ~Outside(g, runs'[j].off, runs'[j].len)
      <4>1. CASE k # i
        BY <1>1, <2>1, <3>2, <4>1
      <4>2. CASE k = i
        <5>1. runs'[j].off = runs[i].off + n /\ runs'[j].len = runs[i].len - n
          BY <1>1, <3>2, <4>2
        <5> QED
          BY <1>0, <1>a, <2>1, <4>2, <5>1 DEF Outside
      <4> QED
        BY <4>1, <4>2
    <3> QED
      BY <3>3
  <2>2. CASE ~Outside(g, runs[i].off, n)
    BY <1>a, <2>2
  <2>3. CASE Outside(g, runs[i].off, n)
    BY <2>1, <2>3 DEF Partition, Covered, Others
  <2> QED
    BY <2>2, <2>3
<1> QED
  BY <1>1, <1>3, <1>4, <1>5, <1>6, <1>7, <1>8, <1>9, <1>10, <1>11 DEF Partition

-----------------------------------------------------------------------------
(* Steps *)

\* What a step that leaves pages and table alone has to keep.
LEMMA QuietMapped ==
  ASSUME Mapped, page' = page, sheets' \subseteq sheets,
         \A u \in Threads : pc'[u] = "register" =>
           pc[u] = "register" /\ at'[u] = at[u] /\ want'[u] = want[u]
  PROVE  Mapped'
<1>1. \A s \in sheets' : \A g \in Span(s.off, s.len) : page'[g] = "rw"
  BY DEF Mapped
<1>2. \A u \in Threads : pc'[u] = "register" => \A g \in Span(at'[u], want'[u]) : page'[g] = "rw"
  BY DEF Mapped
<1> QED
  BY <1>1, <1>2 DEF Mapped

\* A step that neither registers nor removes keeps the table right.
LEMMA QuietRegistered ==
  ASSUME Shape, Registered, table' = table, sheets' = sheets,
         \A u \in Threads :
           /\ pc'[u] = "register" <=> pc[u] = "register"
           /\ pc'[u] = "unregister" <=> pc[u] = "unregister"
           /\ pc[u] \in {"register", "unregister"} =>
                at'[u] = at[u] /\ want'[u] = want[u] /\ step'[u] = step[u]
  PROVE  Registered'
<1>1. \A s \in sheets' : \A g \in Span(s.off, s.len) : table'[g] = s.owner
  BY DEF Registered
<1>2. \A u \in Threads : pc'[u] = "register" => \A g \in Span(at'[u], step'[u]) : table'[g] = u
  BY DEF Registered
<1>3. ASSUME NEW g \in 0 .. (Granules - 1), table[g] # None
      PROVE  \/ \E s \in sheets : g \in Span(s.off, s.len) /\ table[g] = s.owner
             \/ pc'[table[g]] = "register" /\ g \in Span(at'[table[g]], step'[table[g]])
             \/ /\ pc'[table[g]] = "unregister"
                /\ g \in Span(at'[table[g]], want'[table[g]]) /\ g >= at'[table[g]] + step'[table[g]]
  <2>1. table[g] \in Threads
    BY <1>3 DEF Shape, TypeOK
  <2> QED
    BY <1>3, <2>1 DEF Registered
<1> QED
  BY <1>1, <1>2, <1>3 DEF Registered

\* A step of t that moves no span: it may pick a request or load the cursor.
LEMMA QuietInv ==
  ASSUME VaInv, NEW t \in Threads, NEW q \in Places, pc' = [pc EXCEPT ![t] = q],
         offset' = offset, runs' = runs, page' = page, table' = table,
         sheets' = sheets, step' = step, leaked' = leaked,
         maps' \in Nat, base' \in 0 .. maps', initLock' \in Threads \cup {None},
         NEW a \in 0 .. Granules, at' = [at EXCEPT ![t] = a],
         NEW w \in 0 .. MaxRun, want' = [want EXCEPT ![t] = w],
         q # "idle" => w >= 1, q = "bump_cas" => a + w <= Granules,
         {pc[t], q} \cap {"register", "unregister"} = {},
         Busy(t)' <=> Busy(t), Busy(t) => a = at[t] /\ w = want[t]
  PROVE  VaInv'
<1>0. Shape /\ Working /\ Partition /\ Mapped /\ Registered
  BY DEF VaInv
<1>1. /\ pc'[t] = q /\ at'[t] = a /\ want'[t] = w
      /\ \A u \in Threads \ {t} : pc'[u] = pc[u] /\ at'[u] = at[u] /\ want'[u] = want[u]
  BY <1>0 DEF Shape, TypeOK
<1>2. Shape'
  <2>1. pc' \in [Threads -> Places] /\ at' \in [Threads -> 0 .. Granules] /\ want' \in [Threads -> 0 .. MaxRun]
    BY <1>0 DEF Shape, TypeOK
  <2> QED
    BY <1>0, <2>1 DEF Shape, TypeOK
<1>3. Working'
  BY <1>0, <1>1 DEF Working
<1>4. Partition'
  <2>1. \A u \in Threads : /\ Busy(u)' <=> Busy(u)
                           /\ Busy(u) => at'[u] = at[u] /\ want'[u] = want[u]
    BY <1>1 DEF Busy
  <2> QED
    BY <1>0, <2>1, QuietPartition
<1>5. Mapped'
  BY <1>0, <1>1, QuietMapped
<1>6. Registered'
  BY <1>0, <1>1, QuietRegistered
<1> QED
  BY <1>2, <1>3, <1>4, <1>5, <1>6 DEF VaInv

\* Carve, the init lock, an empty scan, the cursor, a failed unmap.
LEMMA QuietSteps ==
  ASSUME VaInv, NEW t \in Threads,
         \/ \E n \in 1 .. MaxRun : Carve(t, n)
         \/ InitLock(t) \/ InitMap(t) \/ InitFail(t) \/ ReuseNone(t)
         \/ BumpLoad(t) \/ BumpCasFail(t) \/ UnmapFail(t)
  PROVE  VaInv'
<1>0. /\ Shape /\ Working /\ MaxRun \in Nat /\ Granules \in Nat
      /\ at[t] \in 0 .. Granules /\ want[t] \in 0 .. MaxRun /\ pc[t] \in Places
      /\ offset \in 0 .. Granules /\ maps \in Nat /\ base \in 0 .. maps
      /\ initLock \in Threads \cup {None}
      /\ pc \in [Threads -> Places] /\ at \in [Threads -> 0 .. Granules] /\ want \in [Threads -> 0 .. MaxRun]
  BY Types DEF VaInv, Shape, TypeOK
<1>1. at = [at EXCEPT ![t] = at[t]] /\ want = [want EXCEPT ![t] = want[t]]
  BY <1>0
<1>2. pc[t] # "idle" => want[t] >= 1
  BY <1>0 DEF Working
<1>3. ASSUME NEW n \in 1 .. MaxRun, Carve(t, n) PROVE VaInv'
  <2> DEFINE q == IF base = 0 THEN "init" ELSE "reuse"
  <2>1. /\ q \in Places \ {"bump_cas", "register", "unregister"} /\ pc' = [pc EXCEPT ![t] = q]
        /\ pc[t] = "idle" /\ n \in 0 .. MaxRun /\ n >= 1
        /\ want' = [want EXCEPT ![t] = n] /\ at' = [at EXCEPT ![t] = at[t]]
        /\ UNCHANGED <<base, maps, initLock, offset, runs, page, table, sheets, step, leaked>>
    BY <1>0, <1>1, <1>3 DEF Carve, Goto, Places
  <2>2. ~Busy(t) /\ ~Busy(t)'
    BY <1>0, <2>1 DEF Busy
  <2> HIDE DEF q
  <2> QED
    BY <1>0, <2>1, <2>2, QuietInv
<1>4. CASE InitLock(t) \/ InitMap(t) \/ InitFail(t) \/ ReuseNone(t)
  <2>1. PICK q \in {"recheck", "reuse", "idle", "bump_load"} :
          /\ pc' = [pc EXCEPT ![t] = q] /\ pc[t] \in {"init", "recheck", "reuse"}
          /\ UNCHANGED <<offset, runs, page, table, sheets, want, at, step, leaked>>
          /\ maps' \in Nat /\ base' \in 0 .. maps' /\ initLock' \in Threads \cup {None}
    BY <1>0, <1>4 DEF InitLock, InitMap, InitFail, ReuseNone, Goto, local
  <2>2. ~Busy(t) /\ ~Busy(t)'
    BY <1>0, <2>1 DEF Busy
  <2>3. want' = [want EXCEPT ![t] = want[t]] /\ at' = [at EXCEPT ![t] = at[t]] /\ q \in Places
    BY <1>1, <2>1 DEF Places
  <2>4. want[t] >= 1
    BY <1>2, <2>1
  <2> QED
    BY <1>0, <2>1, <2>2, <2>3, <2>4, QuietInv
<1>5. CASE BumpLoad(t) \/ BumpCasFail(t)
  <2>1. PICK q \in {"idle", "bump_cas"} :
          /\ pc' = [pc EXCEPT ![t] = q] /\ pc[t] \in {"bump_load", "bump_cas"}
          /\ q = "bump_cas" => ~(offset + want[t] > Granules)
          /\ at' = [at EXCEPT ![t] = offset]
          /\ UNCHANGED <<base, maps, initLock, offset, runs, page, table, sheets, want, step, leaked>>
    BY <1>5 DEF BumpLoad, BumpCasFail, Goto
  <2>2. ~Busy(t) /\ ~Busy(t)'
    BY <1>0, <2>1 DEF Busy
  <2>3. want' = [want EXCEPT ![t] = want[t]] /\ q \in Places
    BY <1>1, <2>1 DEF Places
  <2>4. want[t] >= 1 /\ (q = "bump_cas" => offset + want[t] <= Granules)
    BY <1>0, <1>2, <2>1
  <2> QED
    BY <1>0, <2>1, <2>2, <2>3, <2>4, QuietInv
<1>6. CASE UnmapFail(t)
  <2>1. /\ pc' = [pc EXCEPT ![t] = "giveback"] /\ pc[t] = "unmap"
        /\ UNCHANGED <<base, maps, initLock, offset, runs, page, table, sheets, want, at, step, leaked>>
    BY <1>6 DEF UnmapFail, Goto, local
  <2>2. Busy(t) /\ Busy(t)'
    BY <1>0, <2>1 DEF Busy
  <2>3. want' = [want EXCEPT ![t] = want[t]] /\ at' = [at EXCEPT ![t] = at[t]] /\ "giveback" \in Places
    BY <1>1, <2>1 DEF Places
  <2>4. want[t] >= 1
    BY <1>2, <2>1
  <2> QED
    BY <1>0, <2>1, <2>2, <2>3, <2>4, QuietInv
<1> QED
  BY <1>3, <1>4, <1>5, <1>6

\* The types, and who else is where, when t moves to place q.
LEMMA Moves ==
  ASSUME VaInv, NEW t \in Threads, NEW q \in Places, pc' = [pc EXCEPT ![t] = q]
  PROVE  /\ Shape /\ Working /\ Partition /\ Mapped /\ Registered
         /\ pc' \in [Threads -> Places] /\ pc'[t] = q
         /\ \A u \in Threads \ {t} : pc'[u] = pc[u] /\ (Busy(u)' <=> Busy(u))
BY DEF VaInv, Shape, Busy

\* Taking a free run, whole or its first part.
LEMMA ReuseInv ==
  ASSUME VaInv, NEW t \in Threads, Reuse(t)
  PROVE  VaInv'
<1> DEFINE i == BestFit(want[t])
<1>0. /\ Shape /\ Working /\ Partition /\ Mapped /\ Registered
      /\ pc' \in [Threads -> Places] /\ pc'[t] = "commit_reused"
      /\ \A u \in Threads \ {t} : pc'[u] = pc[u] /\ (Busy(u)' <=> Busy(u))
  BY Moves DEF Reuse, Goto, Places
<1>1. /\ pc[t] = "reuse" /\ at' = [at EXCEPT ![t] = runs[i].off] /\ runs' = TakeRun(i, want[t])
      /\ UNCHANGED <<base, maps, initLock, offset, page, table, sheets, want, step, leaked>>
      /\ want[t] \in Nat /\ want[t] >= 1
  BY <1>0, Types DEF Reuse, Goto, Working
<1>2. i \in DOMAIN runs /\ runs[i].len >= want[t]
  <2>1. i \in Fits(want[t])
    BY <1>0, <1>1, BestFitFits DEF Reuse
  <2> QED
    BY <2>1 DEF Fits
<1> HIDE DEF i
<1>3. /\ at'[t] = runs[i].off /\ runs[i].off \in 0 .. Granules
      /\ \A u \in Threads \ {t} : at'[u] = at[u]
  <2>1. runs[i].off \in Nat /\ runs[i].off < Granules /\ Granules \in Nat
    BY <1>0, <1>2, Types
  <2> QED
    BY <1>0, <1>1, <2>1 DEF Shape, TypeOK
<1>4. Partition' /\ runs' \in Seq(Piece)
  <2>1. ~Busy(t) /\ Busy(t)' /\ Others(t)
    BY <1>0, <1>1, <1>3 DEF Busy, Others
  <2> QED
    BY <1>0, <1>1, <1>2, <1>3, <2>1, ReusePartition
<1>5. Shape'
  <2>1. at' \in [Threads -> 0 .. Granules]
    BY <1>0, <1>1, <1>3 DEF Shape, TypeOK
  <2> QED
    BY <1>0, <1>1, <1>4, <2>1 DEF Shape, TypeOK, Piece
<1>6. Working'
  BY <1>0, <1>1, <1>3 DEF Working
<1>7. Mapped'
  BY <1>0, <1>1, <1>3, QuietMapped
<1>8. Registered'
  BY <1>0, <1>1, <1>3, QuietRegistered
<1> QED
  BY <1>4, <1>5, <1>6, <1>7, <1>8 DEF VaInv

\* Moving the cursor.
LEMMA BumpCasInv ==
  ASSUME VaInv, NEW t \in Threads, BumpCas(t)
  PROVE  VaInv'
<1>0. /\ Shape /\ Working /\ Partition /\ Mapped /\ Registered
      /\ pc' \in [Threads -> Places] /\ pc'[t] = "commit_bumped"
      /\ \A u \in Threads \ {t} : pc'[u] = pc[u] /\ (Busy(u)' <=> Busy(u))
  BY Moves DEF BumpCas, Goto, Places
<1>1. /\ pc[t] = "bump_cas" /\ offset = at[t] /\ offset' = offset + want[t]
      /\ UNCHANGED <<base, maps, initLock, runs, page, table, sheets, want, at, step, leaked>>
  BY DEF BumpCas, Goto, local
<1>2. offset' \in 0 .. Granules
  <2>1. at[t] + want[t] <= Granules /\ offset \in Nat /\ want[t] \in Nat /\ Granules \in Nat
    BY <1>0, <1>1, Types DEF Working
  <2> QED
    BY <1>1, <2>1
<1>3. Partition'
  <2>1. ~Busy(t) /\ Busy(t)' /\ Others(t)
    BY <1>0, <1>1 DEF Busy, Others
  <2> QED
    BY <1>0, <1>1, <2>1, BumpPartition
<1>4. Shape'
  BY <1>0, <1>1, <1>2 DEF Shape, TypeOK
<1>5. Working'
  BY <1>0, <1>1 DEF Working
<1>6. Mapped'
  BY <1>0, <1>1, QuietMapped
<1>7. Registered'
  BY <1>0, <1>1, QuietRegistered
<1> QED
  BY <1>3, <1>4, <1>5, <1>6, <1>7 DEF VaInv

\* A span that is lost: after a failed commit, or at a full array.
LEMMA LoseInv ==
  ASSUME VaInv, NEW t \in Threads, NEW q \in {"bump_load", "idle"}, pc' = [pc EXCEPT ![t] = q],
         pc[t] \in {"commit_reused", "commit_bumped", "giveback"},
         leaked' = leaked \cup Span(at[t], want[t]),
         UNCHANGED <<base, maps, initLock, offset, runs, page, table, sheets, want, at, step>>
  PROVE  VaInv'
<1>0. /\ Shape /\ Working /\ Partition /\ Mapped /\ Registered
      /\ pc' \in [Threads -> Places] /\ pc'[t] = q
      /\ \A u \in Threads \ {t} : pc'[u] = pc[u] /\ (Busy(u)' <=> Busy(u))
  BY Moves DEF Places
<1>1. Busy(t) /\ ~Busy(t)' /\ Others(t)
  BY <1>0 DEF Busy, Others
<1>2. leaked' \subseteq 0 .. (Granules - 1)
  <2>1. /\ at[t] + want[t] <= offset /\ offset \in Nat /\ offset <= Granules /\ Granules \in Nat
        /\ at[t] \in Nat /\ want[t] \in Nat
    BY <1>0, <1>1, Types DEF Partition, Below
  <2>2. Span(at[t], want[t]) \subseteq 0 .. (Granules - 1)
    BY <2>1 DEF Span
  <2> QED
    BY <1>0, <2>2 DEF Shape, TypeOK
<1>3. Partition'
  BY <1>0, <1>1, LosePartition
<1>4. Shape'
  BY <1>0, <1>2 DEF Shape, TypeOK
<1>5. Working'
  BY <1>0 DEF Working
<1>6. Mapped'
  BY <1>0, QuietMapped
<1>7. Registered'
  BY <1>0, QuietRegistered
<1> QED
  BY <1>3, <1>4, <1>5, <1>6, <1>7 DEF VaInv

\* Listing a run as free again, or dropping it when the array is full.
LEMMA GivebackInv ==
  ASSUME VaInv, NEW t \in Threads, Giveback(t)
  PROVE  VaInv'
<1>0. /\ Shape /\ Working /\ Partition /\ Mapped /\ Registered
      /\ pc' \in [Threads -> Places] /\ pc'[t] = "idle"
      /\ \A u \in Threads \ {t} : pc'[u] = pc[u] /\ (Busy(u)' <=> Busy(u))
  BY Moves DEF Giveback, Goto, Places
<1>1. /\ pc[t] = "giveback" /\ pc' = [pc EXCEPT ![t] = "idle"]
      /\ UNCHANGED <<base, maps, initLock, offset, page, table, sheets, want, at, step>>
  BY DEF Giveback, Goto, local
<1>2. CASE Len(runs) < FreeCap
  <2>1. runs' = Append(runs, [off |-> at[t], len |-> want[t]]) /\ leaked' = leaked
    BY <1>2 DEF Giveback
  <2>2. Busy(t) /\ ~Busy(t)' /\ Others(t) /\ want[t] >= 1
    BY <1>0, <1>1 DEF Busy, Others, Working
  <2>3. Partition' /\ runs' \in Seq(Piece)
    BY <1>0, <1>1, <2>1, <2>2, ListPartition
  <2>4. Shape'
    BY <1>0, <1>1, <2>1, <2>3 DEF Shape, TypeOK, Piece
  <2>5. Working'
    BY <1>0, <1>1 DEF Working
  <2>6. Mapped'
    BY <1>0, <1>1, QuietMapped
  <2>7. Registered'
    BY <1>0, <1>1, QuietRegistered
  <2> QED
    BY <2>3, <2>4, <2>5, <2>6, <2>7 DEF VaInv
<1>3. CASE ~(Len(runs) < FreeCap)
  <2>1. leaked' = leaked \cup Span(at[t], want[t]) /\ runs' = runs
    BY <1>3 DEF Giveback
  <2> QED
    BY <1>1, <2>1, LoseInv
<1> QED
  BY <1>2, <1>3

\* Mapping what was carved.
LEMMA CommitInv ==
  ASSUME VaInv, NEW t \in Threads, Commit(t)
  PROVE  VaInv'
<1>0. /\ Shape /\ Working /\ Partition /\ Mapped /\ Registered
      /\ pc' \in [Threads -> Places] /\ pc'[t] = "register"
      /\ \A u \in Threads \ {t} : pc'[u] = pc[u] /\ (Busy(u)' <=> Busy(u))
  BY Moves DEF Commit, Goto, Places
<1>1. /\ pc[t] \in {"commit_reused", "commit_bumped"} /\ step' = [step EXCEPT ![t] = 0]
      /\ page' = [g \in DOMAIN page |-> IF g \in Span(at[t], want[t]) THEN "rw" ELSE page[g]]
      /\ UNCHANGED <<base, maps, initLock, offset, runs, table, sheets, want, at, leaked>>
  BY DEF Commit, Goto
<1>2. /\ step'[t] = 0 /\ \A u \in Threads \ {t} : step'[u] = step[u]
      /\ step' \in [Threads -> Nat]
  BY <1>0, <1>1 DEF Shape
<1>3. /\ \A g \in 0 .. (Granules - 1) : page'[g] = IF g \in Span(at[t], want[t]) THEN "rw" ELSE page[g]
      /\ page' \in [0 .. (Granules - 1) -> {"none", "rw"}]
  BY <1>0, <1>1 DEF Shape, TypeOK
<1>4. Shape'
  BY <1>0, <1>1, <1>2, <1>3 DEF Shape, TypeOK
<1>5. Working'
  <2>1. want[t] \in Nat /\ want[t] >= 1
    BY <1>0, <1>1, Types DEF Working
  <2> QED
    BY <1>0, <1>1, <1>2, <2>1 DEF Working
<1>6. Partition'
  <2>1. \A u \in Threads : Busy(u)' <=> Busy(u)
    BY <1>0, <1>1 DEF Busy
  <2> QED
    BY <1>0, <1>1, <2>1, QuietPartition
<1>7. Mapped'
  <2>1. ASSUME NEW o \in Nat, NEW l \in Nat, o + l <= offset
        PROVE  Span(o, l) \subseteq 0 .. (Granules - 1)
    <3>1. offset \in Nat /\ offset <= Granules /\ Granules \in Nat
      BY <1>0, Types
    <3> QED
      BY <2>1, <3>1 DEF Span
  <2>2. ASSUME NEW s \in sheets, NEW g \in Span(s.off, s.len) PROVE page'[g] = "rw"
    <3>1. g \in 0 .. (Granules - 1)
      BY <1>0, <2>1, Types DEF Partition, Below
    <3> QED
      BY <1>0, <1>3, <3>1 DEF Mapped
  <2>3. ASSUME NEW u \in Threads, pc'[u] = "register", NEW g \in Span(at[u], want[u])
        PROVE  page'[g] = "rw"
    <3>1. Busy(u)
      BY <1>0, <1>1, <2>3 DEF Busy
    <3>2. g \in 0 .. (Granules - 1)
      BY <1>0, <2>1, <3>1, Types DEF Partition, Below
    <3> QED
      BY <1>0, <1>3, <2>3, <3>2 DEF Mapped
  <2> QED
    BY <1>1, <2>2, <2>3 DEF Mapped
<1>8. Registered'
  <2>1. Span(at[t], 0) = {}
    BY <1>0, Types DEF Span
  <2>2. \A u \in Threads : pc'[u] = "register" => \A g \in Span(at'[u], step'[u]) : table'[g] = u
    BY <1>0, <1>1, <1>2, <2>1 DEF Registered
  <2>3. ASSUME NEW g \in 0 .. (Granules - 1), table[g] # None
        PROVE  \/ \E s \in sheets : g \in Span(s.off, s.len) /\ table[g] = s.owner
               \/ pc'[table[g]] = "register" /\ g \in Span(at'[table[g]], step'[table[g]])
               \/ /\ pc'[table[g]] = "unregister"
                  /\ g \in Span(at'[table[g]], want'[table[g]]) /\ g >= at'[table[g]] + step'[table[g]]
    <3>1. table[g] \in Threads
      BY <1>0, <2>3 DEF Shape, TypeOK
    <3> QED
      BY <1>0, <1>1, <1>2, <2>3, <3>1 DEF Registered
  <2> QED
    BY <1>0, <1>1, <2>2, <2>3 DEF Registered
<1> QED
  BY <1>4, <1>5, <1>6, <1>7, <1>8 DEF VaInv

\* Unmapping a run that is given back.
LEMMA UnmapInv ==
  ASSUME VaInv, NEW t \in Threads, Unmap(t)
  PROVE  VaInv'
<1>0. /\ Shape /\ Working /\ Partition /\ Mapped /\ Registered
      /\ pc' \in [Threads -> Places] /\ pc'[t] = "giveback"
      /\ \A u \in Threads \ {t} : pc'[u] = pc[u] /\ (Busy(u)' <=> Busy(u))
  BY Moves DEF Unmap, Goto, Places
<1>1. /\ pc[t] = "unmap"
      /\ page' = [g \in DOMAIN page |-> IF g \in Span(at[t], want[t]) THEN "none" ELSE page[g]]
      /\ UNCHANGED <<base, maps, initLock, offset, runs, table, sheets, want, at, step, leaked>>
  BY DEF Unmap, Goto, local
<1>2. /\ \A g \in 0 .. (Granules - 1) : page'[g] = IF g \in Span(at[t], want[t]) THEN "none" ELSE page[g]
      /\ page' \in [0 .. (Granules - 1) -> {"none", "rw"}]
  BY <1>0, <1>1 DEF Shape, TypeOK
<1>3. Shape'
  BY <1>0, <1>1, <1>2 DEF Shape, TypeOK
<1>4. Working'
  BY <1>0, <1>1 DEF Working
<1>5. Partition'
  <2>1. \A u \in Threads : Busy(u)' <=> Busy(u)
    BY <1>0, <1>1 DEF Busy
  <2> QED
    BY <1>0, <1>1, <2>1, QuietPartition
<1>6. Mapped'
  <2>0. Busy(t) /\ at[t] \in Nat /\ want[t] \in Nat
    BY <1>0, <1>1, Types DEF Busy
  <2>1. ASSUME NEW o \in Nat, NEW l \in Nat, o + l <= offset, Clear(o, l, at[t], want[t]), NEW g \in Span(o, l)
        PROVE  g \in 0 .. (Granules - 1) /\ g \notin Span(at[t], want[t])
    <3>1. offset \in Nat /\ offset <= Granules /\ Granules \in Nat
      BY <1>0, Types
    <3> QED
      BY <2>0, <2>1, <3>1 DEF Span, Clear
  <2>2. ASSUME NEW s \in sheets, NEW g \in Span(s.off, s.len) PROVE page'[g] = "rw"
    <3>1. /\ s.off \in Nat /\ s.len \in Nat /\ s.off + s.len <= offset
          /\ Clear(s.off, s.len, at[t], want[t])
      BY <1>0, <2>0, Types DEF Partition, Below, SheetBusyApart
    <3>2. g \in 0 .. (Granules - 1) /\ g \notin Span(at[t], want[t])
      BY <2>1, <3>1
    <3> QED
      BY <1>0, <1>2, <3>2 DEF Mapped
  <2>3. ASSUME NEW u \in Threads, pc'[u] = "register", NEW g \in Span(at[u], want[u])
        PROVE  page'[g] = "rw"
    <3>1. u # t /\ pc[u] = "register" /\ Busy(u)
      BY <1>0, <2>3 DEF Busy
    <3>2. /\ at[u] \in Nat /\ want[u] \in Nat /\ at[u] + want[u] <= offset
          /\ Clear(at[u], want[u], at[t], want[t])
      BY <1>0, <2>0, <3>1, Types DEF Partition, Below, BusyApart
    <3>3. g \in 0 .. (Granules - 1) /\ g \notin Span(at[t], want[t])
      BY <2>1, <3>2
    <3> QED
      BY <1>0, <1>2, <3>1, <3>3 DEF Mapped
  <2> QED
    BY <1>1, <2>2, <2>3 DEF Mapped
<1>7. Registered'
  BY <1>0, <1>1, QuietRegistered
<1> QED
  BY <1>3, <1>4, <1>5, <1>6, <1>7 DEF VaInv

\* The granule that a half-done (un)registration writes: in the table, in t's
\* span, and in nobody else's.
LEMMA OwnGranule ==
  ASSUME Shape, Working, Partition, NEW t \in Threads, pc[t] \in {"register", "unregister"}
  PROVE  /\ at[t] \in Nat /\ step[t] \in Nat /\ want[t] \in Nat /\ step[t] < want[t] /\ Busy(t)
         /\ at[t] + step[t] \in 0 .. (Granules - 1)
         /\ \A s \in sheets : at[t] + step[t] \notin Span(s.off, s.len)
         /\ \A u \in Threads \ {t} : Busy(u) => at[t] + step[t] \notin Span(at[u], want[u])
<1>0. /\ at[t] \in Nat /\ step[t] \in Nat /\ want[t] \in Nat /\ step[t] < want[t] /\ Busy(t)
      /\ at[t] + want[t] <= offset /\ offset \in Nat /\ offset <= Granules /\ Granules \in Nat
  BY Types DEF Working, Busy, Partition, Below
<1>1. at[t] + step[t] \in 0 .. (Granules - 1)
  BY <1>0
<1>2. ASSUME NEW s \in sheets PROVE at[t] + step[t] \notin Span(s.off, s.len)
  <2>1. s.off \in Nat /\ s.len \in Nat /\ Clear(s.off, s.len, at[t], want[t])
    BY <1>0, Types DEF Partition, SheetBusyApart
  <2> QED
    BY <1>0, <2>1 DEF Clear, Span
<1>3. ASSUME NEW u \in Threads \ {t}, Busy(u) PROVE at[t] + step[t] \notin Span(at[u], want[u])
  <2>1. at[u] \in Nat /\ want[u] \in Nat /\ Clear(at[u], want[u], at[t], want[t])
    BY <1>0, <1>3, Types DEF Partition, BusyApart
  <2> QED
    BY <1>0, <2>1 DEF Clear, Span
<1> QED
  BY <1>0, <1>1, <1>2, <1>3

\* The spans in use lie in the reservation.
LEMMA SpansInside ==
  ASSUME Shape, Working, Partition
  PROVE  /\ \A s \in sheets : Span(s.off, s.len) \subseteq 0 .. (Granules - 1)
         /\ \A u \in Threads : Busy(u) => Span(at[u], want[u]) \subseteq 0 .. (Granules - 1)
         /\ \A u \in Threads : pc[u] = "register" => Span(at[u], step[u]) \subseteq Span(at[u], want[u])
<1>1. offset \in Nat /\ offset <= Granules /\ Granules \in Nat
  BY Types
<1>2. ASSUME NEW s \in sheets PROVE Span(s.off, s.len) \subseteq 0 .. (Granules - 1)
  <2>1. s.off \in Nat /\ s.len \in Nat /\ s.off + s.len <= offset
    BY Types DEF Partition, Below
  <2> QED
    BY <1>1, <2>1 DEF Span
<1>3. ASSUME NEW u \in Threads, Busy(u) PROVE Span(at[u], want[u]) \subseteq 0 .. (Granules - 1)
  <2>1. at[u] \in Nat /\ want[u] \in Nat /\ at[u] + want[u] <= offset
    BY <1>3, Types DEF Partition, Below
  <2> QED
    BY <1>1, <2>1 DEF Span
<1>4. ASSUME NEW u \in Threads, pc[u] = "register" PROVE Span(at[u], step[u]) \subseteq Span(at[u], want[u])
  <2>1. at[u] \in Nat /\ want[u] \in Nat /\ step[u] \in Nat /\ step[u] < want[u]
    BY <1>4, Types DEF Working
  <2> QED
    BY <2>1 DEF Span
<1> QED
  BY <1>2, <1>3, <1>4

\* Registering one granule.
LEMMA RegisterInv ==
  ASSUME VaInv, NEW t \in Threads, Register(t)
  PROVE  VaInv'
<1> DEFINE g0 == at[t] + step[t]
           new == [owner |-> t, off |-> at[t], len |-> want[t]]
<1>0. /\ Shape /\ Working /\ Partition /\ Mapped /\ Registered
  BY DEF VaInv
<1>1. /\ pc[t] = "register" /\ table' = [table EXCEPT ![g0] = t]
      /\ UNCHANGED <<base, maps, initLock, offset, runs, page, want, at, leaked>>
  BY DEF Register
<1>2. /\ at[t] \in Nat /\ step[t] \in Nat /\ want[t] \in Nat /\ step[t] < want[t] /\ Busy(t)
      /\ g0 \in 0 .. (Granules - 1)
      /\ \A s \in sheets : g0 \notin Span(s.off, s.len)
      /\ \A u \in Threads \ {t} : Busy(u) => g0 \notin Span(at[u], want[u])
  BY <1>0, <1>1, OwnGranule
<1>3. /\ table' \in [0 .. (Granules - 1) -> Threads \cup {None}]
      /\ table'[g0] = t /\ \A g \in (0 .. (Granules - 1)) \ {g0} : table'[g] = table[g]
  BY <1>0, <1>1, <1>2 DEF Shape, TypeOK
<1>a. ASSUME NEW g \in Span(at[t], step[t] + 1) PROVE g = g0 \/ g \in Span(at[t], step[t])
  BY <1>2 DEF Span
<1>b. /\ \A s \in sheets : Span(s.off, s.len) \subseteq 0 .. (Granules - 1)
      /\ \A u \in Threads : Busy(u) => Span(at[u], want[u]) \subseteq 0 .. (Granules - 1)
      /\ \A u \in Threads : pc[u] = "register" => Span(at[u], step[u]) \subseteq Span(at[u], want[u])
  BY <1>0, SpansInside
<1> HIDE DEF g0
<1>4. \A s \in sheets : \A g \in Span(s.off, s.len) : table'[g] = s.owner
  BY <1>0, <1>2, <1>3, <1>b DEF Registered
<1>5. \A u \in Threads \ {t} : pc[u] = "register" => \A g \in Span(at[u], step[u]) : table'[g] = u
  <2> SUFFICES ASSUME NEW u \in Threads \ {t}, pc[u] = "register", NEW g \in Span(at[u], step[u])
               PROVE  table'[g] = u
    OBVIOUS
  <2>1. Busy(u)
    BY DEF Busy
  <2>2. g # g0 /\ g \in 0 .. (Granules - 1)
    BY <1>2, <1>b, <2>1
  <2> QED
    BY <1>0, <1>3, <2>2 DEF Registered
<1>6. \A g \in Span(at[t], step[t] + 1) : table'[g] = t
  <2> TAKE g \in Span(at[t], step[t] + 1)
  <2>1. CASE g \in Span(at[t], step[t]) /\ g # g0
    BY <1>0, <1>1, <1>2, <1>3, <1>b, <2>1 DEF Registered
  <2> QED
    BY <1>3, <1>a, <2>1
<1>7. ASSUME NEW g \in 0 .. (Granules - 1), table'[g] # None, g # g0
      PROVE  /\ table'[g] = table[g] /\ table[g] \in Threads
             /\ \/ \E s \in sheets : g \in Span(s.off, s.len) /\ table[g] = s.owner
                \/ pc[table[g]] = "register" /\ g \in Span(at[table[g]], step[table[g]])
                \/ /\ pc[table[g]] = "unregister"
                   /\ g \in Span(at[table[g]], want[table[g]]) /\ g >= at[table[g]] + step[table[g]]
  <2>1. table'[g] = table[g] /\ table[g] # None
    BY <1>3, <1>7
  <2>2. table[g] \in Threads
    BY <1>0, <2>1 DEF Shape, TypeOK
  <2> QED
    BY <1>0, <2>1, <2>2 DEF Registered
<1>8. g0 \in Span(at[t], step[t] + 1) /\ Span(at[t], step[t]) \subseteq Span(at[t], step[t] + 1)
  BY <1>2 DEF Span, g0
<1>9. CASE step[t] + 1 = want[t]
  <2>1. pc' = [pc EXCEPT ![t] = "idle"] /\ sheets' = sheets \cup {new} /\ step' = step
    BY <1>9 DEF Register
  <2>2. /\ pc' \in [Threads -> Places] /\ pc'[t] = "idle"
        /\ \A u \in Threads \ {t} : pc'[u] = pc[u] /\ (Busy(u)' <=> Busy(u))
    BY <2>1, Moves DEF Places
  <2>3. new.off = at[t] /\ new.len = want[t] /\ new.owner = t
    OBVIOUS
  <2>4. Shape'
    <3>1. at[t] + want[t] <= offset /\ offset \in Nat /\ offset <= Granules /\ Granules \in Nat
          /\ want[t] <= MaxRun /\ MaxRun \in Nat
      BY <1>0, <1>2, Types DEF Partition, Below
    <3>2. at[t] \in 0 .. (Granules - 1) /\ want[t] \in 1 .. MaxRun
      BY <1>2, <3>1
    <3>3. sheets' \subseteq [owner : Threads, off : 0 .. (Granules - 1), len : 1 .. MaxRun]
      BY <1>0, <2>1, <3>2 DEF Shape, TypeOK
    <3> QED
      BY <1>0, <1>1, <1>3, <2>1, <2>2, <3>3 DEF Shape, TypeOK
  <2> HIDE DEF new
  <2>5. Working'
    BY <1>0, <1>1, <2>1, <2>2 DEF Working
  <2>6. Partition'
    <3>1. Others(t) /\ ~Busy(t)'
      BY <1>1, <2>2 DEF Others, Busy
    <3> QED
      BY <1>0, <1>1, <1>2, <2>1, <2>3, <3>1, UsePartition
  <2>7. Mapped'
    BY <1>0, <1>1, <2>1, <2>2, <2>3 DEF Mapped
  <2>8. Registered'
    <3>1. \A s \in sheets' : \A g \in Span(s.off, s.len) : table'[g] = s.owner
      BY <1>4, <1>6, <1>9, <2>1, <2>3
    <3>2. \A u \in Threads : pc'[u] = "register" => \A g \in Span(at'[u], step'[u]) : table'[g] = u
      BY <1>1, <1>5, <2>1, <2>2
    <3>3. ASSUME NEW g \in 0 .. (Granules - 1), table'[g] # None
          PROVE  \/ \E s \in sheets' : g \in Span(s.off, s.len) /\ table'[g] = s.owner
                 \/ pc'[table'[g]] = "register" /\ g \in Span(at'[table'[g]], step'[table'[g]])
                 \/ /\ pc'[table'[g]] = "unregister"
                    /\ g \in Span(at'[table'[g]], want'[table'[g]]) /\ g >= at'[table'[g]] + step'[table'[g]]
      <4>1. CASE g = g0
        <5>1. g \in Span(new.off, new.len) /\ table'[g] = new.owner
          BY <1>3, <1>8, <1>9, <2>3, <4>1
        <5> QED
          BY <2>1, <5>1
      <4>2. CASE g # g0 /\ table'[g] = t
        <5>1. (\E s \in sheets : g \in Span(s.off, s.len) /\ table[g] = s.owner)
              \/ g \in Span(new.off, new.len)
          BY <1>1, <1>7, <1>8, <1>9, <2>3, <3>3, <4>2
        <5> QED
          BY <1>7, <2>1, <2>3, <3>3, <4>2, <5>1
      <4>3. CASE g # g0 /\ table'[g] # t
        BY <1>1, <1>7, <2>1, <2>2, <3>3, <4>3
      <4> QED
        BY <4>1, <4>2, <4>3
    <3> QED
      BY <3>1, <3>2, <3>3 DEF Registered
  <2> QED
    BY <2>4, <2>5, <2>6, <2>7, <2>8 DEF VaInv
<1>10. CASE step[t] + 1 # want[t]
  <2>1. pc' = pc /\ sheets' = sheets /\ step' = [step EXCEPT ![t] = step[t] + 1]
    BY <1>10 DEF Register
  <2>2. /\ step' \in [Threads -> Nat] /\ step'[t] = step[t] + 1
        /\ \A u \in Threads \ {t} : step'[u] = step[u]
    BY <1>0, <1>2, <2>1 DEF Shape
  <2>3. Shape'
    BY <1>0, <1>1, <1>3, <2>1, <2>2 DEF Shape, TypeOK
  <2>4. Working'
    <3>1. step[t] + 1 < want[t]
      BY <1>2, <1>10
    <3> QED
      BY <1>0, <1>1, <2>1, <2>2, <3>1 DEF Working
  <2>5. Partition'
    <3>1. \A u \in Threads : Busy(u)' <=> Busy(u)
      BY <2>1 DEF Busy
    <3> QED
      BY <1>0, <1>1, <2>1, <3>1, QuietPartition
  <2>6. Mapped'
    BY <1>0, <1>1, <2>1, QuietMapped
  <2>7. Registered'
    <3>1. \A s \in sheets' : \A g \in Span(s.off, s.len) : table'[g] = s.owner
      BY <1>4, <2>1
    <3>2. \A u \in Threads : pc'[u] = "register" => \A g \in Span(at'[u], step'[u]) : table'[g] = u
      BY <1>1, <1>5, <1>6, <2>1, <2>2
    <3>3. ASSUME NEW g \in 0 .. (Granules - 1), table'[g] # None
          PROVE  \/ \E s \in sheets' : g \in Span(s.off, s.len) /\ table'[g] = s.owner
                 \/ pc'[table'[g]] = "register" /\ g \in Span(at'[table'[g]], step'[table'[g]])
                 \/ /\ pc'[table'[g]] = "unregister"
                    /\ g \in Span(at'[table'[g]], want'[table'[g]]) /\ g >= at'[table'[g]] + step'[table'[g]]
      <4>1. CASE g = g0
        BY <1>1, <1>3, <1>8, <2>1, <2>2, <4>1
      <4>2. CASE g # g0 /\ table'[g] = t
        BY <1>1, <1>7, <1>8, <2>1, <2>2, <3>3, <4>2
      <4>3. CASE g # g0 /\ table'[g] # t
        BY <1>1, <1>7, <2>1, <2>2, <3>3, <4>3
      <4> QED
        BY <4>1, <4>2, <4>3
    <3> QED
      BY <3>1, <3>2, <3>3 DEF Registered
  <2> QED
    BY <2>3, <2>4, <2>5, <2>6, <2>7 DEF VaInv
<1> QED
  BY <1>9, <1>10

\* Removing one granule.
LEMMA UnregisterInv ==
  ASSUME VaInv, NEW t \in Threads, Unregister(t)
  PROVE  VaInv'
<1> DEFINE g0 == at[t] + step[t]
<1>0. /\ Shape /\ Working /\ Partition /\ Mapped /\ Registered
  BY DEF VaInv
<1>1. /\ pc[t] = "unregister" /\ table' = [table EXCEPT ![g0] = None]
      /\ UNCHANGED <<base, maps, initLock, offset, runs, page, sheets, want, at, leaked>>
  BY DEF Unregister
<1>2. /\ at[t] \in Nat /\ step[t] \in Nat /\ want[t] \in Nat /\ step[t] < want[t] /\ Busy(t)
      /\ g0 \in 0 .. (Granules - 1)
      /\ \A s \in sheets : g0 \notin Span(s.off, s.len)
      /\ \A u \in Threads \ {t} : Busy(u) => g0 \notin Span(at[u], want[u])
  BY <1>0, <1>1, OwnGranule
<1>3. /\ table' \in [0 .. (Granules - 1) -> Threads \cup {None}]
      /\ table'[g0] = None /\ \A g \in (0 .. (Granules - 1)) \ {g0} : table'[g] = table[g]
  BY <1>0, <1>1, <1>2 DEF Shape, TypeOK
<1>4. /\ \A s \in sheets : Span(s.off, s.len) \subseteq 0 .. (Granules - 1)
      /\ \A u \in Threads : Busy(u) => Span(at[u], want[u]) \subseteq 0 .. (Granules - 1)
      /\ \A u \in Threads : pc[u] = "register" => Span(at[u], step[u]) \subseteq Span(at[u], want[u])
  BY <1>0, SpansInside
<1>5. /\ \A u \in Threads \ {t} : pc'[u] = pc[u] /\ step'[u] = step[u]
      /\ \/ pc'[t] = "unmap" /\ step[t] + 1 = want[t]
         \/ pc'[t] = "unregister" /\ step'[t] = step[t] + 1 /\ step[t] + 1 < want[t]
      /\ pc' \in [Threads -> Places] /\ step' \in [Threads -> Nat]
  <2>1. CASE step[t] + 1 = want[t]
    <3>1. pc' = [pc EXCEPT ![t] = "unmap"] /\ step' = step
      BY <2>1 DEF Unregister
    <3> QED
      BY <1>0, <2>1, <3>1 DEF Shape, Places
  <2>2. CASE step[t] + 1 # want[t]
    <3>1. pc' = pc /\ step' = [step EXCEPT ![t] = step[t] + 1]
      BY <2>2 DEF Unregister
    <3>2. step[t] + 1 < want[t] /\ step[t] + 1 \in Nat
      BY <1>2, <2>2
    <3> QED
      BY <1>0, <1>1, <3>1, <3>2 DEF Shape
  <2> QED
    BY <2>1, <2>2
<1>6. ASSUME NEW g \in 0 .. (Granules - 1), g >= at[t] + step[t], g # g0, g \in Span(at[t], want[t])
      PROVE  step[t] + 1 # want[t] /\ g >= at[t] + (step[t] + 1)
  BY <1>2, <1>6 DEF Span
<1> HIDE DEF g0
<1>7. Shape'
  BY <1>0, <1>1, <1>3, <1>5 DEF Shape, TypeOK
<1>8. Working'
  <2> SUFFICES ASSUME NEW u \in Threads
               PROVE  /\ pc'[u] # "idle" => want[u] >= 1
                      /\ pc'[u] = "bump_cas" => at[u] + want[u] <= Granules
                      /\ pc'[u] \in {"register", "unregister"} => step'[u] < want[u]
    BY <1>1 DEF Working
  <2>1. CASE u = t
    <3>1. want[t] >= 1
      BY <1>0, <1>1 DEF Working
    <3> QED
      BY <1>5, <2>1, <3>1
  <2>2. CASE u # t
    BY <1>0, <1>5, <2>2 DEF Working
  <2> QED
    BY <2>1, <2>2
<1>9. Partition'
  <2>1. \A u \in Threads : Busy(u)' <=> Busy(u)
    BY <1>1, <1>5 DEF Busy
  <2> QED
    BY <1>0, <1>1, <2>1, QuietPartition
<1>10. Mapped'
  BY <1>0, <1>1, <1>5, QuietMapped
<1>11. Registered'
  <2>1. \A s \in sheets : \A g \in Span(s.off, s.len) : table'[g] = s.owner
    BY <1>0, <1>2, <1>3, <1>4 DEF Registered
  <2>2. ASSUME NEW u \in Threads, pc'[u] = "register", NEW g \in Span(at[u], step'[u])
        PROVE  table'[g] = u
    <3>1. u # t /\ pc[u] = "register" /\ step'[u] = step[u] /\ Busy(u)
      BY <1>5, <2>2 DEF Busy
    <3>2. g # g0 /\ g \in 0 .. (Granules - 1)
      BY <1>2, <1>4, <2>2, <3>1
    <3> QED
      BY <1>0, <1>3, <3>1, <3>2 DEF Registered
  <2>3. ASSUME NEW g \in 0 .. (Granules - 1), table'[g] # None
        PROVE  \/ \E s \in sheets' : g \in Span(s.off, s.len) /\ table'[g] = s.owner
               \/ pc'[table'[g]] = "register" /\ g \in Span(at'[table'[g]], step'[table'[g]])
               \/ /\ pc'[table'[g]] = "unregister"
                  /\ g \in Span(at'[table'[g]], want'[table'[g]]) /\ g >= at'[table'[g]] + step'[table'[g]]
    <3>1. g # g0 /\ table'[g] = table[g] /\ table[g] # None
      BY <1>3, <2>3
    <3>2. table[g] \in Threads
      BY <1>0, <3>1 DEF Shape, TypeOK
    <3>3. CASE table[g] # t
      BY <1>0, <1>1, <1>5, <3>1, <3>2, <3>3 DEF Registered
    <3>4. CASE table[g] = t /\ ~ \E s \in sheets : g \in Span(s.off, s.len) /\ table[g] = s.owner
      <4>1. g \in Span(at[t], want[t]) /\ g >= at[t] + step[t]
        BY <1>0, <1>1, <3>1, <3>4 DEF Registered
      <4>2. step[t] + 1 # want[t] /\ g >= at[t] + (step[t] + 1)
        BY <1>6, <3>1, <4>1
      <4> QED
        BY <1>1, <1>5, <3>1, <3>4, <4>1, <4>2
    <3> QED
      BY <1>1, <3>1, <3>3, <3>4
  <2> QED
    BY <1>1, <2>1, <2>2, <2>3 DEF Registered
<1> QED
  BY <1>7, <1>8, <1>9, <1>10, <1>11 DEF VaInv

\* Starting the release of a sheet.
LEMMA ReleaseInv ==
  ASSUME VaInv, NEW t \in Threads, NEW s \in sheets, Release(t, s)
  PROVE  VaInv'
<1>0. /\ Shape /\ Working /\ Partition /\ Mapped /\ Registered
      /\ pc' \in [Threads -> Places] /\ pc'[t] = "unregister"
      /\ \A u \in Threads \ {t} : pc'[u] = pc[u] /\ (Busy(u)' <=> Busy(u))
  BY Moves DEF Release, Goto, Places
<1>1. /\ pc[t] = "idle" /\ sheets' = sheets \ {s} /\ s.owner = t
      /\ at' = [at EXCEPT ![t] = s.off] /\ want' = [want EXCEPT ![t] = s.len]
      /\ step' = [step EXCEPT ![t] = 0]
      /\ UNCHANGED <<base, maps, initLock, offset, runs, page, table, leaked>>
  BY DEF Release, Goto
<1>2. /\ s.off \in 0 .. Granules /\ s.len \in 0 .. MaxRun /\ s.len >= 1
      /\ s.off \in Nat /\ s.len \in Nat
  <2>1. s.off \in 0 .. (Granules - 1) /\ s.len \in 1 .. MaxRun /\ Granules \in Nat /\ MaxRun \in Nat
    BY <1>0, VaAssumption DEF Shape, TypeOK
  <2> QED
    BY <2>1
<1>3. /\ at'[t] = s.off /\ want'[t] = s.len /\ step'[t] = 0
      /\ \A u \in Threads \ {t} : at'[u] = at[u] /\ want'[u] = want[u] /\ step'[u] = step[u]
      /\ at' \in [Threads -> 0 .. Granules] /\ want' \in [Threads -> 0 .. MaxRun]
      /\ step' \in [Threads -> Nat]
  BY <1>0, <1>1, <1>2 DEF Shape, TypeOK
<1>4. Shape'
  BY <1>0, <1>1, <1>3 DEF Shape, TypeOK
<1>5. Working'
  <2>1. 0 < s.len
    BY <1>2
  <2> QED
    BY <1>0, <1>2, <1>3, <2>1 DEF Working
<1>6. Partition'
  <2>1. ~Busy(t) /\ Busy(t)' /\ Others(t)
    BY <1>0, <1>1, <1>3 DEF Busy, Others
  <2> QED
    BY <1>0, <1>1, <1>3, <2>1, UnusePartition
<1>7. Mapped'
  BY <1>0, <1>1, <1>3, QuietMapped
<1>8. Registered'
  <2>1. \A v \in sheets' : \A g \in Span(v.off, v.len) : table'[g] = v.owner
    BY <1>0, <1>1 DEF Registered
  <2>2. \A u \in Threads : pc'[u] = "register" => \A g \in Span(at'[u], step'[u]) : table'[g] = u
    BY <1>0, <1>1, <1>3 DEF Registered
  <2>3. ASSUME NEW g \in 0 .. (Granules - 1), table[g] # None
        PROVE  \/ \E v \in sheets' : g \in Span(v.off, v.len) /\ table[g] = v.owner
               \/ pc'[table[g]] = "register" /\ g \in Span(at'[table[g]], step'[table[g]])
               \/ /\ pc'[table[g]] = "unregister"
                  /\ g \in Span(at'[table[g]], want'[table[g]]) /\ g >= at'[table[g]] + step'[table[g]]
    <3>1. table[g] \in Threads
      BY <1>0, <2>3 DEF Shape, TypeOK
    <3>2. CASE g \in Span(s.off, s.len) /\ table[g] = s.owner
      <4>1. g >= s.off + 0
        BY <1>2, <3>2 DEF Span
      <4> QED
        BY <1>0, <1>1, <1>3, <3>2, <4>1
    <3>3. CASE ~(g \in Span(s.off, s.len) /\ table[g] = s.owner)
      BY <1>0, <1>1, <1>3, <2>3, <3>1, <3>3 DEF Registered
    <3> QED
      BY <3>2, <3>3
  <2> QED
    BY <1>1, <2>1, <2>2, <2>3 DEF Registered
<1> QED
  BY <1>4, <1>5, <1>6, <1>7, <1>8 DEF VaInv

-----------------------------------------------------------------------------
(* The invariant and what follows from it *)

\* Before the first carve.
LEMMA InitInv == Init => VaInv
<1> SUFFICES ASSUME Init PROVE VaInv
  OBVIOUS
<1>0. Len(runs) = 0 /\ DOMAIN runs = {} /\ runs \in Seq(Piece) /\ Granules \in Nat /\ MaxRun \in Nat
  BY VaAssumption DEF Init
<1>1. Shape
  BY <1>0 DEF Init, Shape, TypeOK, Places, Piece
<1>2. \A t \in Threads : pc[t] = "idle" /\ ~Busy(t)
  BY DEF Init, Busy
<1>3. Working
  BY <1>2 DEF Working
<1>4. Partition
  BY <1>0, <1>2 DEF Init, Partition, RunsApart, SheetsApart, BusyApart, RunSheetApart,
       RunBusyApart, SheetBusyApart, LeakedApart, Below, Covered
<1>5. Mapped /\ Registered
  BY <1>2 DEF Init, Mapped, Registered
<1> QED
  BY <1>1, <1>3, <1>4, <1>5 DEF VaInv

\* Every step keeps the invariant.
LEMMA NextInv == VaInv /\ [Next]_vars => VaInv'
<1> SUFFICES ASSUME VaInv, [Next]_vars PROVE VaInv'
  OBVIOUS
<1>1. CASE Next
  <2>1. PICK t \in Threads :
          Step(t) \/ (\E n \in 1 .. MaxRun : Carve(t, n)) \/ (\E s \in sheets : Release(t, s))
    BY <1>1 DEF Next
  <2>2. CASE \/ \E n \in 1 .. MaxRun : Carve(t, n)
             \/ InitLock(t) \/ InitMap(t) \/ InitFail(t) \/ ReuseNone(t)
             \/ BumpLoad(t) \/ BumpCasFail(t) \/ UnmapFail(t)
    BY <2>2, QuietSteps
  <2>3. CASE \E s \in sheets : Release(t, s)
    BY <2>3, ReleaseInv
  <2>4. CASE CommitFail(t)
    <3>1. PICK q \in {"bump_load", "idle"} :
            /\ pc' = [pc EXCEPT ![t] = q] /\ pc[t] \in {"commit_reused", "commit_bumped"}
      BY <2>4 DEF CommitFail, Goto
    <3>2. /\ leaked' = leaked \cup Span(at[t], want[t])
          /\ UNCHANGED <<base, maps, initLock, offset, runs, page, table, sheets, want, at, step>>
      BY <2>4 DEF CommitFail, local
    <3> QED
      BY <3>1, <3>2, LoseInv
  <2> QED
    BY <2>1, <2>2, <2>3, <2>4, ReuseInv, BumpCasInv, CommitInv, RegisterInv, UnregisterInv,
       UnmapInv, GivebackInv DEF Step
<1>2. CASE UNCHANGED vars
  BY <1>2 DEF vars, VaInv, Shape, TypeOK, Working, Partition, RunsApart, SheetsApart, BusyApart,
       RunSheetApart, RunBusyApart, SheetBusyApart, LeakedApart, Below, Covered, Mapped, Registered, Busy
<1> QED
  BY <1>1, <1>2

\* The invariant holds always.
LEMMA Invariance == Spec => []VaInv
BY InitInv, NextInv, PTL DEF Spec

(***************************************************************************)
(* Best-fit reuse with splitting and swap-removal, the racing cursor, the  *)
(* failed commits and the full array: each granule below the cursor is in  *)
(* exactly one place, and a sheet in use stays mapped read-write.          *)
(***************************************************************************)
THEOREM CarvingIsSound == Spec => []CarvesSound
BY Invariance, InvCarves, PTL

(***************************************************************************)
(* __owner_of names the owner of every granule of a sheet in use, and for  *)
(* any other granule nobody but an arena in the middle of writing it.      *)
(***************************************************************************)
THEOREM TableIsExact == Spec => []OwnerTableExact
BY Invariance, InvTable, PTL

\* The listed runs and the one being given back start at different granules.
LEMMA RoomForRun ==
  ASSUME VaInv, NEW t \in Threads, pc[t] = "giveback"
  PROVE  Len(runs) < Granules
<1>0. /\ Shape /\ Partition /\ Len(runs) \in Nat /\ DOMAIN runs = 1 .. Len(runs) /\ Granules \in Nat
      /\ \A i \in 1 .. Len(runs) : runs[i].off \in Nat /\ runs[i].len \in Nat
                                   /\ runs[i].len >= 1 /\ runs[i].off < Granules
      /\ at[t] \in Nat /\ want[t] \in Nat /\ want[t] >= 1
  BY Types DEF VaInv, Working
<1>1. Busy(t) /\ at[t] < Granules
  <2>1. Busy(t)
    BY DEF Busy
  <2>2. at[t] + want[t] <= offset /\ offset \in Nat /\ offset <= Granules
    BY <1>0, <2>1, Types DEF Partition, Below
  <2> QED
    BY <1>0, <2>1, <2>2
<1> DEFINE n == Len(runs) + 1
           f == [i \in 1 .. n |-> IF i = n THEN at[t] ELSE runs[i].off]
<1>2. \A i \in 1 .. n : i # n => i \in 1 .. Len(runs)
  BY <1>0
<1>3. f \in [1 .. n -> 0 .. (Granules - 1)]
  BY <1>0, <1>1, <1>2
<1>a. \A o, l, p, m \in Nat : l >= 1 /\ m >= 1 /\ Clear(o, l, p, m) => o # p
  BY DEF Clear
<1>4. \A i, j \in 1 .. Len(runs) : i # j => runs[i].off # runs[j].off
  <2> SUFFICES ASSUME NEW i \in 1 .. Len(runs), NEW j \in 1 .. Len(runs), i # j
               PROVE  runs[i].off # runs[j].off
    OBVIOUS
  <2>1. Clear(runs[i].off, runs[i].len, runs[j].off, runs[j].len)
    BY <1>0 DEF Partition, RunsApart
  <2>2. /\ runs[i].off \in Nat /\ runs[i].len \in Nat /\ runs[i].len >= 1
        /\ runs[j].off \in Nat /\ runs[j].len \in Nat /\ runs[j].len >= 1
    BY <1>0
  <2> QED
    BY <1>a, <2>1, <2>2
<1>5. \A i \in 1 .. Len(runs) : runs[i].off # at[t]
  <2> SUFFICES ASSUME NEW i \in 1 .. Len(runs) PROVE runs[i].off # at[t]
    OBVIOUS
  <2>1. Clear(runs[i].off, runs[i].len, at[t], want[t])
    BY <1>0, <1>1 DEF Partition, RunBusyApart
  <2>2. runs[i].off \in Nat /\ runs[i].len \in Nat /\ runs[i].len >= 1
    BY <1>0
  <2> QED
    BY <1>0, <1>a, <2>1, <2>2
<1>6. n \in Nat /\ n = Len(runs) + 1
  BY <1>0
<1> HIDE DEF n
<1>7. \A i, j \in 1 .. n : f[i] = f[j] => i = j
  BY <1>2, <1>4, <1>5
<1> HIDE DEF f
<1>8. f \in Injection(1 .. n, 0 .. (Granules - 1))
  BY <1>3, <1>7 DEF Injection, IsInjective
<1>9. /\ IsFiniteSet(0 .. (Granules - 1)) /\ Cardinality(0 .. (Granules - 1)) = Granules
      /\ Cardinality(1 .. n) = n
  <2>1. 0 \in Int /\ Granules - 1 \in Int /\ 1 \in Int /\ n \in Int
    BY <1>0, <1>6
  <2>2. /\ IsFiniteSet(0 .. (Granules - 1))
        /\ Cardinality(0 .. (Granules - 1)) = IF 0 > Granules - 1 THEN 0 ELSE Granules - 1 - 0 + 1
        /\ Cardinality(1 .. n) = IF 1 > n THEN 0 ELSE n - 1 + 1
    BY <2>1, FS_Interval
  <2> QED
    BY <1>0, <1>6, <2>2, VaAssumption
<1>10. Cardinality(1 .. n) <= Cardinality(0 .. (Granules - 1))
  BY <1>8, <1>9, FS_Injection
<1> QED
  BY <1>0, <1>6, <1>9, <1>10

(***************************************************************************)
(* Racing first carves publish one reservation, and with a slot per        *)
(* granule __va_release never finds the free-run array full.               *)
(***************************************************************************)
THEOREM NothingIsLost == Spec => NothingLost
<1>1. VaInv /\ [Next]_vars => [base # 0 => base' = base]_base
  <2> SUFFICES ASSUME [Next]_vars, base # 0 PROVE base' = base
    OBVIOUS
  <2>1. CASE Next
    BY <2>1 DEF Next, Step, InitLock, InitMap, InitFail, Reuse, ReuseNone, BumpLoad, BumpCas,
         BumpCasFail, Commit, CommitFail, Register, Unregister, Unmap, UnmapFail, Giveback,
         Carve, Release
  <2>2. CASE UNCHANGED vars
    BY <2>2 DEF vars
  <2> QED
    BY <2>1, <2>2
<1>2. VaInv /\ [Next]_vars =>
        [\A t \in Threads : FreeCap >= Granules /\ pc[t] = "giveback" /\ pc'[t] = "idle"
           => leaked' = leaked]_vars
  <2> SUFFICES ASSUME VaInv, Next, NEW t \in Threads, FreeCap >= Granules, pc[t] = "giveback", pc'[t] = "idle"
               PROVE  leaked' = leaked
    OBVIOUS
  <2>0. pc \in [Threads -> Places]
    BY DEF VaInv, Shape
  <2>1. Giveback(t)
    <3>1. PICK u \in Threads :
            Step(u) \/ (\E n \in 1 .. MaxRun : Carve(u, n)) \/ (\E s \in sheets : Release(u, s))
      BY DEF Next
    <3>2. u = t
      BY <2>0, <3>1 DEF Step, InitLock, InitMap, InitFail, Reuse, ReuseNone, BumpLoad, BumpCas,
           BumpCasFail, Commit, CommitFail, Register, Unregister, Unmap, UnmapFail, Giveback,
           Carve, Release, Goto
    <3> QED
      BY <2>0, <3>1, <3>2 DEF Step, InitLock, InitMap, InitFail, Reuse, ReuseNone, BumpLoad, BumpCas,
           BumpCasFail, Commit, CommitFail, Register, Unregister, Unmap, UnmapFail,
           Carve, Release, Goto
  <2>2. Len(runs) < FreeCap
    <3>1. Len(runs) < Granules /\ Len(runs) \in Nat
      BY RoomForRun, Types DEF VaInv
    <3> QED
      BY <3>1, VaAssumption
  <2> QED
    BY <2>1, <2>2 DEF Giveback
<1> QED
  BY <1>1, <1>2, Invariance, PTL DEF Spec, NothingLost, ReservedOnce, NothingDropped

-----------------------------------------------------------------------------
(* Sheets outside the reservation *)

\* The sheet arena a inserts or retires, as mapped and a node describe it.
Mine(a) == [owner |-> a, lo |-> mine[a].lo, hi |-> mine[a].hi]

Sheets == {m \in [owner : Arenas, lo : 0 .. (Top - 1), hi : 1 .. Top] : m.lo < m.hi}
Live == {k \in DOMAIN nodes : nodes[k].owner # NoArena}
Counting == {a \in Arenas : place[a] = "count"}
Uncounting == {a \in Arenas : place[a] = "uncount"}

Node == [lo : 0 .. (Top - 1), hi : 1 .. Top, owner : Arenas \cup {NoArena}]

\* OorTypeOK without the counter, and the types and the limit it leaves open.
OorShape ==
  /\ nodes \in Seq(Node) /\ Len(nodes) <= MaxNodes
  /\ mapped \subseteq Sheets /\ tracked \subseteq mapped
  /\ place \in [Arenas -> {"idle", "scan", "count", "find", "uncount", "unmap"}]
  /\ cur \in [Arenas -> 0 .. MaxNodes]
  /\ mine \in [Arenas -> Ranges]

\* The kernel's ranges do not overlap.
Apart == \A m, n \in mapped : m # n => Addrs(m) \cap Addrs(n) = {}

\* An arena works on a sheet of its own that is mapped and not tracked.
OorWorking == \A a \in Arenas : place[a] # "idle" => Mine(a) \in mapped /\ Mine(a) \notin tracked

\* A live node describes a mapped sheet: a tracked one, or one whose arena is
\* about to count it or to retire it.
LiveMapped ==
  \A k \in Live :
    /\ nodes[k] \in mapped
    /\ \/ nodes[k] \in tracked
       \/ \E a \in Arenas : nodes[k] = Mine(a) /\ place[a] \in {"count", "find"}

\* No sheet has two live nodes.
LiveOnce == \A j, k \in Live : nodes[j] = nodes[k] => j = k

\* What an arena knows of the node of its sheet at each place.
KnowsOf(a) ==
  /\ place[a] = "count" => \E k \in DOMAIN nodes : nodes[k] = Mine(a)
  /\ place[a] = "find" => \A k \in DOMAIN nodes : nodes[k] = Mine(a) => k <= cur[a]
  /\ place[a] = "uncount" => \E k \in DOMAIN nodes : nodes[k] = [Mine(a) EXCEPT !.owner = NoArena]
  /\ cur[a] <= Len(nodes)

Knows == \A a \in Arenas : KnowsOf(a)

\* Every tracked sheet has its node.
TrackedHas == \A s \in tracked : \E k \in DOMAIN nodes : nodes[k] = s

\* All but the counter.
Core ==
  OorShape /\ Apart /\ OorWorking /\ LiveMapped /\ LiveOnce /\ Knows /\ TrackedHas

Counted == live = Cardinality(Live) - Cardinality(Counting) + Cardinality(Uncounting)

OorInv == Core /\ Counted

-----------------------------------------------------------------------------
\* The list as a function from node numbers.
LEMMA Nodes ==
  ASSUME OorShape
  PROVE  /\ Len(nodes) \in Nat /\ DOMAIN nodes = 1 .. Len(nodes)
         /\ \A k \in 1 .. Len(nodes) : nodes[k] \in Node
         /\ Live \subseteq 1 .. Len(nodes)
BY DEF OorShape, Live

\* Two mapped sheets of one range are one sheet.
LEMMA SameSheet ==
  ASSUME OorShape, Apart, NEW m \in mapped, NEW n \in mapped, m.lo = n.lo
  PROVE  m = n
<1>1. m.lo \in Addrs(m) /\ n.lo \in Addrs(n)
  BY OorAssumption DEF OorShape, Sheets, Addrs
<1> QED
  BY <1>1 DEF Apart

\* Changing the owner of one node changes nothing else.
LEMMA SetOwner ==
  ASSUME OorShape, NEW k \in 1 .. Len(nodes), NEW o \in Arenas \cup {NoArena},
         nodes' = [nodes EXCEPT ![k].owner = o]
  PROVE  /\ nodes' \in Seq(Node) /\ Len(nodes') = Len(nodes) /\ DOMAIN nodes' = DOMAIN nodes
         /\ \A j \in 1 .. Len(nodes) :
              nodes'[j] = IF j = k THEN [lo |-> nodes[k].lo, hi |-> nodes[k].hi, owner |-> o]
                                   ELSE nodes[j]
<1>1. Len(nodes) \in Nat /\ DOMAIN nodes = 1 .. Len(nodes) /\ nodes[k] \in Node
  BY Nodes
<1>2. [nodes[k] EXCEPT !.owner = o] = [lo |-> nodes[k].lo, hi |-> nodes[k].hi, owner |-> o]
  BY <1>1 DEF Node
<1>3. [lo |-> nodes[k].lo, hi |-> nodes[k].hi, owner |-> o] \in Node
  BY <1>1 DEF Node
<1>4. nodes' = [nodes EXCEPT ![k] = [lo |-> nodes[k].lo, hi |-> nodes[k].hi, owner |-> o]]
  BY <1>2
<1>5. nodes' \in [1 .. Len(nodes) -> Node]
  BY <1>1, <1>3, <1>4, Nodes
<1>6. nodes' \in Seq(Node) /\ Len(nodes') = Len(nodes) /\ DOMAIN nodes' = DOMAIN nodes
  BY <1>1, <1>5
<1> QED
  BY <1>1, <1>4, <1>6

\* A pushed node comes after all others.
LEMMA PushNode ==
  ASSUME OorShape, NEW r \in Node, nodes' = Append(nodes, r)
  PROVE  /\ nodes' \in Seq(Node) /\ Len(nodes') = Len(nodes) + 1
         /\ DOMAIN nodes' = DOMAIN nodes \cup {Len(nodes) + 1}
         /\ \A j \in 1 .. Len(nodes) : nodes'[j] = nodes[j]
         /\ nodes'[Len(nodes) + 1] = r
BY Nodes DEF OorShape

-----------------------------------------------------------------------------
(* The counter *)

\* The sets that are counted are finite.
LEMMA Finite ==
  ASSUME OorShape
  PROVE  /\ IsFiniteSet(Live) /\ Cardinality(Live) \in Nat
         /\ IsFiniteSet(Counting) /\ Cardinality(Counting) \in Nat
         /\ IsFiniteSet(Uncounting) /\ Cardinality(Uncounting) \in Nat
<1>1. IsFiniteSet(1 .. Len(nodes)) /\ Live \in SUBSET (1 .. Len(nodes))
  BY Nodes, FS_Interval
<1>2. Counting \in SUBSET Arenas /\ Uncounting \in SUBSET Arenas
  BY DEF Counting, Uncounting
<1>3. IsFiniteSet(Live) /\ IsFiniteSet(Counting) /\ IsFiniteSet(Uncounting)
  BY <1>1, <1>2, FS_Subset, OorAssumption
<1> QED
  BY <1>3, FS_CardinalityType

\* An arena that is about to count has a live node of its own, and a tracked
\* sheet has another one: the live nodes outnumber these arenas.
LEMMA CountingBound ==
  ASSUME Core
  PROVE  /\ Cardinality(Counting) <= Cardinality(Live)
         /\ tracked # {} => Cardinality(Counting) < Cardinality(Live)
<1> DEFINE f == [a \in Counting |-> CHOOSE k \in Live : nodes[k] = Mine(a)]
<1>1. ASSUME NEW a \in Counting
      PROVE  f[a] \in Live /\ nodes[f[a]] = Mine(a)
  <2>1. PICK k \in DOMAIN nodes : nodes[k] = Mine(a)
    BY DEF Core, Knows, KnowsOf, Counting
  <2>2. k \in Live
    BY <2>1, OorAssumption DEF Live, Mine, Counting
  <2> QED
    BY <2>1, <2>2
<1> HIDE DEF f
<1>2. f \in [Counting -> Live]
  BY <1>1 DEF f
<1>3. f \in Injection(Counting, Live)
  <2>1. ASSUME NEW a \in Counting, NEW b \in Counting, f[a] = f[b]
        PROVE  a = b
    <3>1. Mine(a) = Mine(b)
      BY <1>1, <2>1
    <3> QED
      BY <3>1 DEF Mine
  <2> QED
    BY <1>2, <2>1 DEF Injection, IsInjective
<1>4. IsFiniteSet(Live) /\ Cardinality(Live) \in Nat /\ Cardinality(Counting) \in Nat
  BY Finite DEF Core
<1>5. /\ Cardinality(Counting) <= Cardinality(Live)
      /\ Cardinality(Counting) = Cardinality(Live) <=> f \in Surjection(Counting, Live)
  BY <1>3, <1>4, FS_Injection
<1>6. ASSUME tracked # {} PROVE f \notin Surjection(Counting, Live)
  <2>1. PICK s \in tracked : TRUE
    BY <1>6
  <2>2. PICK k \in DOMAIN nodes : nodes[k] = s
    BY DEF Core, TrackedHas
  <2>3. s.owner # NoArena
    BY OorAssumption DEF Core, OorShape, Sheets
  <2>4. k \in Live
    BY <2>2, <2>3 DEF Live
  <2>5. \A a \in Counting : Mine(a) # s
    BY DEF Core, OorWorking, Counting
  <2>6. \A a \in Counting : f[a] # k
    BY <1>1, <2>2, <2>5
  <2> QED
    BY <2>4, <2>6 DEF Surjection
<1> QED
  BY <1>4, <1>5, <1>6

\* An arena between clearing its node and lowering the counter still has the
\* dead node: these arenas and the live nodes fit into the list.
LEMMA UncountingBound ==
  ASSUME Core
  PROVE  Cardinality(Live) + Cardinality(Uncounting) <= Len(nodes)
<1> DEFINE Dead == (1 .. Len(nodes)) \ Live
           f == [a \in Uncounting |-> CHOOSE k \in Dead : nodes[k] = [Mine(a) EXCEPT !.owner = NoArena]]
<1>0. OorShape /\ Len(nodes) \in Nat /\ DOMAIN nodes = 1 .. Len(nodes) /\ Live \subseteq 1 .. Len(nodes)
  BY Nodes DEF Core
<1>1. ASSUME NEW a \in Uncounting
      PROVE  f[a] \in Dead /\ nodes[f[a]] = [Mine(a) EXCEPT !.owner = NoArena]
  <2>1. PICK k \in DOMAIN nodes : nodes[k] = [Mine(a) EXCEPT !.owner = NoArena]
    BY DEF Core, Knows, KnowsOf, Uncounting
  <2>2. k \in Dead
    BY <1>0, <2>1 DEF Live, Mine
  <2> QED
    BY <2>1, <2>2
<1>2. f \in [Uncounting -> Dead]
  BY <1>1
<1> HIDE DEF f
<1>3. f \in Injection(Uncounting, Dead)
  <2>1. ASSUME NEW a \in Uncounting, NEW b \in Uncounting, f[a] = f[b]
        PROVE  a = b
    <3>1. [Mine(a) EXCEPT !.owner = NoArena] = [Mine(b) EXCEPT !.owner = NoArena]
      BY <1>1, <2>1
    <3>2. Mine(a).lo = Mine(b).lo
      BY <3>1 DEF Mine
    <3>3. Mine(a) \in mapped /\ Mine(b) \in mapped
      BY DEF Core, OorWorking, Uncounting
    <3>4. Mine(a) = Mine(b)
      BY <3>2, <3>3, SameSheet DEF Core
    <3> QED
      BY <3>4 DEF Mine
  <2> QED
    BY <1>2, <2>1 DEF Injection, IsInjective
<1>4. IsFiniteSet(1 .. Len(nodes)) /\ Cardinality(1 .. Len(nodes)) = Len(nodes)
  <2>1. 1 \in Int /\ Len(nodes) \in Int
    BY <1>0
  <2>2. /\ IsFiniteSet(1 .. Len(nodes))
        /\ Cardinality(1 .. Len(nodes)) = IF 1 > Len(nodes) THEN 0 ELSE Len(nodes) - 1 + 1
    BY <2>1, FS_Interval
  <2> QED
    BY <1>0, <2>2
<1>5. /\ IsFiniteSet(Live) /\ Cardinality(Live) \in Nat
      /\ IsFiniteSet(Uncounting) /\ Cardinality(Uncounting) \in Nat
  BY Finite DEF Core
<1>6. (1 .. Len(nodes)) \cap Live = Live
  BY <1>0
<1>7. IsFiniteSet(Dead) /\ Cardinality(Dead) = Len(nodes) - Cardinality(Live)
  <2> DEFINE N == 1 .. Len(nodes)
  <2>1. IsFiniteSet(N) /\ Cardinality(N) = Len(nodes) /\ N \cap Live = Live
    BY <1>4, <1>6
  <2> HIDE DEF N
  <2>2. IsFiniteSet(N \ Live) /\ Cardinality(N \ Live) = Cardinality(N) - Cardinality(N \cap Live)
    BY <2>1, FS_Difference, Zenon
  <2> QED
    BY <2>1, <2>2 DEF N
<1>8. Cardinality(Uncounting) <= Cardinality(Dead)
  <2> HIDE DEF Dead
  <2> QED
    BY <1>3, <1>7, FS_Injection
<1> QED
  BY <1>0, <1>5, <1>7, <1>8

\* The counter is exact, positive while a sheet is tracked, and bounded.
LEMMA CounterFacts ==
  OorInv => OorTypeOK /\ LiveCount
<1> SUFFICES ASSUME OorInv PROVE OorTypeOK /\ LiveCount
  OBVIOUS
<1>1. Core /\ OorShape /\ Counted
  BY DEF OorInv, Core
<1>2. Cardinality(Live) \in Nat /\ Cardinality(Counting) \in Nat /\ Cardinality(Uncounting) \in Nat
  BY <1>1, Finite
<1>3. Len(nodes) \in Nat /\ Len(nodes) <= MaxNodes
  BY <1>1, Nodes DEF OorShape
<1>4. live \in 0 .. MaxNodes /\ (tracked # {} => live > 0)
  BY <1>1, <1>2, <1>3, CountingBound, UncountingBound, OorAssumption DEF Counted
<1>5. OorTypeOK
  BY <1>1, <1>4 DEF OorShape, OorTypeOK, Node
<1>6. LiveCount
  BY <1>1, <1>4 DEF LiveCount, Counted, Live, Counting, Uncounting
<1> QED
  BY <1>5, <1>6

\* Exactly one node names a tracked sheet.
LEMMA OneNode ==
  OorInv => OneLiveNode
<1> SUFFICES ASSUME OorInv, NEW s \in tracked
             PROVE  Cardinality({k \in DOMAIN nodes : /\ nodes[k].lo = s.lo /\ nodes[k].hi = s.hi
                                                      /\ nodes[k].owner = s.owner}) = 1
  BY DEF OneLiveNode
<1>0. Core /\ OorShape
  BY DEF OorInv, Core
<1>1. PICK k \in DOMAIN nodes : nodes[k] = s
  BY <1>0 DEF Core, TrackedHas
<1>2. s \in Sheets /\ s.owner # NoArena
  BY <1>0, OorAssumption DEF OorShape, Sheets
<1>3. k \in Live
  BY <1>1, <1>2 DEF Live
<1>4. ASSUME NEW j \in DOMAIN nodes,
             nodes[j].lo = s.lo, nodes[j].hi = s.hi, nodes[j].owner = s.owner
      PROVE  j = k
  <2>1. nodes[j] \in Node
    BY <1>0, Nodes
  <2>2. nodes[j] = s
    BY <1>2, <1>4, <2>1 DEF Node, Sheets
  <2>3. j \in Live
    BY <1>2, <1>4 DEF Live
  <2> QED
    BY <1>0, <1>1, <1>3, <2>2, <2>3 DEF Core, LiveOnce
<1>5. {j \in DOMAIN nodes : nodes[j].lo = s.lo /\ nodes[j].hi = s.hi /\ nodes[j].owner = s.owner} = {k}
  BY <1>1, <1>4
<1> QED
  BY <1>5, FS_Singleton

\* No live node that contains an address of a tracked sheet belongs to another.
LEMMA NotForeign ==
  OorInv => NeverForeign
<1> SUFFICES ASSUME OorInv, NEW s \in tracked, NEW x \in Addrs(s)
             PROVE  OwnerOf(x) \in {s.owner, NoArena}
  BY DEF NeverForeign
<1>0. Core /\ OorShape
  BY DEF OorInv, Core
<1> DEFINE hits == {k \in DOMAIN nodes : x \in Addrs(nodes[k])}
<1>1. CASE live = 0 \/ hits = {}
  BY <1>1 DEF OwnerOf
<1>2. CASE ~(live = 0 \/ hits = {})
  <2>1. \E k \in hits : \A j \in hits : j <= k
    <3>1. hits \in SUBSET (0 .. Len(nodes)) /\ Len(nodes) \in Nat
      BY <1>0, Nodes
    <3> QED
      BY <1>2, <3>1, HasLargest
  <2>2. PICK k \in hits : OwnerOf(x) = nodes[k].owner
    BY <1>2, <2>1 DEF OwnerOf
  <2>3. SUFFICES ASSUME nodes[k].owner # NoArena
                 PROVE  nodes[k].owner = s.owner
    BY <2>2
  <2>4. nodes[k] \in mapped
    BY <1>0, <2>3 DEF Core, LiveMapped, Live
  <2>5. s \in mapped
    BY <1>0 DEF OorShape
  <2>6. Addrs(nodes[k]) \cap Addrs(s) # {}
    OBVIOUS
  <2> QED
    BY <1>0, <2>4, <2>5, <2>6 DEF Core, Apart
<1> QED
  BY <1>1, <1>2

\* An arena that neither counts nor retires its sheet has no live node of it.
LEMMA NoLiveNode ==
  ASSUME LiveMapped, NEW a \in Arenas, NEW k \in Live, nodes[k].owner = a,
         nodes[k] \notin tracked, place[a] \notin {"count", "find"}
  PROVE  FALSE
<1>1. PICK b \in Arenas : nodes[k] = Mine(b) /\ place[b] \in {"count", "find"}
  BY DEF LiveMapped
<1>2. b = a
  BY <1>1 DEF Mine
<1> QED
  BY <1>1, <1>2

-----------------------------------------------------------------------------
(* Steps *)

\* The parts of the invariant that speak of the list follow from what a step
\* does to it: here one node of a's sheet gets or loses its owner.
LEMMA InsertReuseCore ==
  ASSUME Core, NEW a \in Arenas, InsertReuse(a)
  PROVE  Core' /\ Live' = Live \cup {cur[a]} /\ cur[a] \notin Live
<1> DEFINE c == cur[a]
<1>0. /\ OorShape /\ Apart /\ OorWorking /\ LiveMapped /\ LiveOnce /\ Knows /\ TrackedHas
      /\ Len(nodes) \in Nat /\ DOMAIN nodes = 1 .. Len(nodes)
      /\ \A k \in 1 .. Len(nodes) : nodes[k] \in Node
  BY Nodes DEF Core
<1>1. c \in 1 .. Len(nodes)
  <2>1. cur[a] \in 0 .. MaxNodes /\ cur[a] > 0 /\ cur[a] <= Len(nodes)
    BY <1>0 DEF InsertReuse, Knows, KnowsOf, OorShape
  <2> QED
    BY <1>0, <2>1
<1>2. /\ nodes' \in Seq(Node) /\ Len(nodes') = Len(nodes) /\ DOMAIN nodes' = 1 .. Len(nodes)
      /\ \A j \in 1 .. Len(nodes) :
           nodes'[j] = IF j = c THEN [lo |-> nodes[c].lo, hi |-> nodes[c].hi, owner |-> a] ELSE nodes[j]
  BY <1>0, <1>1, SetOwner DEF InsertReuse
<1>3. nodes'[c] = Mine(a) /\ Mine(a)' = Mine(a) /\ nodes[c].owner = NoArena
  BY <1>1, <1>2 DEF Mine, InsertReuse, Matches
<1>4. c \notin Live /\ Live' = Live \cup {c}
  BY <1>0, <1>1, <1>2, <1>3, OorAssumption DEF Live, Mine
<1>5. Mine(a) \in mapped /\ Mine(a) \notin tracked
  BY <1>0 DEF InsertReuse, OorGoto, OorWorking
<1>7. UNCHANGED <<mapped, tracked, cur, mine>> /\ place' = [place EXCEPT ![a] = "count"] /\ place[a] = "scan"
  BY DEF InsertReuse, OorGoto
<1>6. \A k \in Live : nodes[k] # Mine(a)
  BY <1>0, <1>5, <1>7, NoLiveNode DEF Mine
<1>8. OorShape'
  BY <1>0, <1>2, <1>7 DEF OorShape
<1>9. Apart' /\ OorWorking'
  BY <1>0, <1>7 DEF Apart, OorWorking, Mine, OorShape
<1>10. LiveMapped'
  <2> SUFFICES ASSUME NEW k \in Live'
               PROVE  /\ nodes'[k] \in mapped'
                      /\ \/ nodes'[k] \in tracked'
                         \/ \E b \in Arenas : nodes'[k] = Mine(b)' /\ place'[b] \in {"count", "find"}
    BY DEF LiveMapped
  <2>1. CASE k = c
    <3>1. place'[a] = "count"
      BY <1>0, <1>7 DEF OorShape
    <3> QED
      BY <1>3, <1>5, <1>7, <2>1, <3>1
  <2>2. CASE k # c
    <3>1. k \in Live /\ nodes'[k] = nodes[k]
      BY <1>0, <1>2, <1>4, <2>2, Nodes
    <3>2. \A b \in Arenas \ {a} : Mine(b)' = Mine(b) /\ place'[b] = place[b]
      BY <1>0, <1>7 DEF Mine, OorShape
    <3>3. nodes[k] # Mine(a) /\ nodes[k] \in mapped
      BY <1>0, <1>6, <3>1 DEF LiveMapped
    <3> QED
      BY <1>0, <1>7, <3>1, <3>2, <3>3 DEF LiveMapped
  <2> QED
    BY <2>1, <2>2
<1>11. LiveOnce'
  BY <1>0, <1>2, <1>3, <1>4, <1>6, Nodes DEF LiveOnce
<1>12. Knows'
  <2> SUFFICES ASSUME NEW b \in Arenas
               PROVE  /\ place'[b] = "count" => \E k \in DOMAIN nodes' : nodes'[k] = Mine(b)'
                      /\ place'[b] = "find" => \A k \in DOMAIN nodes' : nodes'[k] = Mine(b)' => k <= cur'[b]
                      /\ place'[b] = "uncount" => \E k \in DOMAIN nodes' : nodes'[k] = [Mine(b)' EXCEPT !.owner = NoArena]
                      /\ cur'[b] <= Len(nodes')
    BY DEF Knows, KnowsOf
  <2>1. CASE b = a
    BY <1>0, <1>1, <1>2, <1>3, <1>7, <2>1 DEF Knows, KnowsOf, OorShape
  <2>2. CASE b # a
    <3>1. place'[b] = place[b] /\ Mine(b)' = Mine(b) /\ Mine(b) # Mine(a)
      BY <1>0, <1>7, <2>2 DEF Mine, OorShape
    <3>2. ASSUME place[b] = "count" PROVE \E k \in DOMAIN nodes' : nodes'[k] = Mine(b)'
      <4>1. PICK k \in DOMAIN nodes : nodes[k] = Mine(b)
        BY <1>0, <3>2 DEF Knows, KnowsOf
      <4>2. k # c
        BY <1>3, <4>1, OorAssumption DEF Mine
      <4> QED
        BY <1>0, <1>2, <3>1, <4>1, <4>2
    <3>3. ASSUME place[b] = "uncount"
          PROVE  \E k \in DOMAIN nodes' : nodes'[k] = [Mine(b)' EXCEPT !.owner = NoArena]
      <4>1. PICK k \in DOMAIN nodes : nodes[k] = [Mine(b) EXCEPT !.owner = NoArena]
        BY <1>0, <3>3 DEF Knows, KnowsOf
      <4>2. Mine(b) \in mapped
        BY <1>0, <3>3 DEF OorWorking
      <4>3. Mine(b).lo # Mine(a).lo
        BY <1>0, <1>5, <3>1, <4>2, SameSheet
      <4>4. k # c
        BY <4>1, <4>3 DEF Mine, InsertReuse, Matches
      <4> QED
        BY <1>0, <1>2, <3>1, <4>1, <4>4
    <3> QED
      BY <1>0, <1>2, <1>3, <1>7, <3>1, <3>2, <3>3 DEF Knows, KnowsOf
  <2> QED
    BY <2>1, <2>2
<1>13. TrackedHas'
  <2> SUFFICES ASSUME NEW s \in tracked PROVE \E k \in DOMAIN nodes' : nodes'[k] = s
    BY <1>7 DEF TrackedHas
  <2>1. PICK k \in DOMAIN nodes : nodes[k] = s
    BY <1>0 DEF TrackedHas
  <2>2. s.owner # NoArena
    BY <1>0, OorAssumption DEF OorShape, Sheets
  <2> QED
    BY <1>0, <1>2, <1>3, <2>1, <2>2
<1> QED
  BY <1>4, <1>8, <1>9, <1>10, <1>11, <1>12, <1>13 DEF Core

\* A pushed node: the first of a's sheet, and live.
LEMMA InsertPushCore ==
  ASSUME Core, NEW a \in Arenas, InsertPush(a)
  PROVE  Core' /\ Live' = Live \cup {Len(nodes) + 1} /\ Len(nodes) + 1 \notin Live
<1> DEFINE c == Len(nodes) + 1
<1>0. /\ OorShape /\ Apart /\ OorWorking /\ LiveMapped /\ LiveOnce /\ Knows /\ TrackedHas
      /\ Len(nodes) \in Nat /\ DOMAIN nodes = 1 .. Len(nodes)
      /\ \A k \in 1 .. Len(nodes) : nodes[k] \in Node
      /\ Live \subseteq 1 .. Len(nodes)
  BY Nodes DEF Core
<1>1. /\ UNCHANGED <<mapped, tracked, cur, mine>> /\ place' = [place EXCEPT ![a] = "count"] /\ place[a] = "scan"
      /\ Len(nodes) < MaxNodes
      /\ nodes' = Append(nodes, [lo |-> mine[a].lo, hi |-> mine[a].hi, owner |-> a])
  BY DEF InsertPush, OorGoto
<1>2. /\ nodes' \in Seq(Node) /\ Len(nodes') = c /\ DOMAIN nodes' = DOMAIN nodes \cup {c}
      /\ \A j \in 1 .. Len(nodes) : nodes'[j] = nodes[j]
      /\ nodes'[c] = [lo |-> mine[a].lo, hi |-> mine[a].hi, owner |-> a]
  <2>1. [lo |-> mine[a].lo, hi |-> mine[a].hi, owner |-> a] \in Node
    BY <1>0 DEF OorShape, Ranges, Node
  <2> QED
    BY <1>0, <1>1, <2>1, PushNode
<1>3. nodes'[c] = Mine(a) /\ Mine(a)' = Mine(a)
  BY <1>1, <1>2 DEF Mine
<1>4. c \notin 1 .. Len(nodes)
  BY <1>0
<1> HIDE DEF c
<1>5. c \notin Live /\ Live' = Live \cup {c}
  BY <1>0, <1>2, <1>3, <1>4, OorAssumption DEF Live, Mine
<1>6. Mine(a) \in mapped /\ Mine(a) \notin tracked
  BY <1>0, <1>1 DEF OorWorking
<1>7. \A k \in Live : nodes[k] # Mine(a)
  BY <1>0, <1>1, <1>6, NoLiveNode DEF Mine
<1>8. OorShape'
  <2>1. Len(nodes') <= MaxNodes
    BY <1>0, <1>1, <1>2, OorAssumption DEF c
  <2> QED
    BY <1>0, <1>1, <1>2, <2>1 DEF OorShape
<1>9. Apart' /\ OorWorking'
  BY <1>0, <1>1 DEF Apart, OorWorking, Mine, OorShape
<1>10. LiveMapped'
  <2> SUFFICES ASSUME NEW k \in Live'
               PROVE  /\ nodes'[k] \in mapped'
                      /\ \/ nodes'[k] \in tracked'
                         \/ \E b \in Arenas : nodes'[k] = Mine(b)' /\ place'[b] \in {"count", "find"}
    BY DEF LiveMapped
  <2>1. CASE k = c
    <3>1. place'[a] = "count"
      BY <1>0, <1>1 DEF OorShape
    <3> QED
      BY <1>3, <1>6, <1>1, <2>1, <3>1
  <2>2. CASE k # c
    <3>1. k \in Live /\ nodes'[k] = nodes[k]
      BY <1>0, <1>2, <1>5, <2>2
    <3>2. \A b \in Arenas \ {a} : Mine(b)' = Mine(b) /\ place'[b] = place[b]
      BY <1>0, <1>1 DEF Mine, OorShape
    <3>3. nodes[k] # Mine(a) /\ nodes[k] \in mapped
      BY <1>0, <1>7, <3>1 DEF LiveMapped
    <3> QED
      BY <1>0, <1>1, <3>1, <3>2, <3>3 DEF LiveMapped
  <2> QED
    BY <2>1, <2>2
<1>11. LiveOnce'
  BY <1>0, <1>2, <1>3, <1>5, <1>7 DEF LiveOnce
<1>12. Knows'
  <2> SUFFICES ASSUME NEW b \in Arenas
               PROVE  /\ place'[b] = "count" => \E k \in DOMAIN nodes' : nodes'[k] = Mine(b)'
                      /\ place'[b] = "find" => \A k \in DOMAIN nodes' : nodes'[k] = Mine(b)' => k <= cur'[b]
                      /\ place'[b] = "uncount" => \E k \in DOMAIN nodes' : nodes'[k] = [Mine(b)' EXCEPT !.owner = NoArena]
                      /\ cur'[b] <= Len(nodes')
    BY DEF Knows, KnowsOf
  <2>0. cur'[b] <= Len(nodes')
    <3>1. cur[b] \in 0 .. MaxNodes /\ cur[b] <= Len(nodes)
      BY <1>0 DEF OorShape, Knows, KnowsOf
    <3> QED
      BY <1>0, <1>1, <1>2, <3>1 DEF c
  <2>1. CASE b = a
    BY <1>0, <1>1, <1>2, <1>3, <2>0, <2>1 DEF OorShape
  <2>2. CASE b # a
    <3>1. place'[b] = place[b] /\ Mine(b)' = Mine(b) /\ Mine(b) # Mine(a)
      BY <1>0, <1>1, <2>2 DEF Mine, OorShape
    <3> QED
      BY <1>0, <1>2, <1>3, <1>1, <2>0, <3>1 DEF Knows, KnowsOf
  <2> QED
    BY <2>1, <2>2
<1>13. TrackedHas'
  BY <1>0, <1>1, <1>2 DEF TrackedHas
<1> QED
  BY <1>5, <1>8, <1>9, <1>10, <1>11, <1>12, <1>13 DEF Core, c

\* A cleared node: it was the only live one of a's sheet.
LEMMA RetireClearCore ==
  ASSUME Core, NEW a \in Arenas, RetireClear(a)
  PROVE  Core' /\ Live' = Live \ {cur[a]} /\ cur[a] \in Live
<1> DEFINE c == cur[a]
           dead == [lo |-> nodes[c].lo, hi |-> nodes[c].hi, owner |-> NoArena]
<1>0. /\ OorShape /\ Apart /\ OorWorking /\ LiveMapped /\ LiveOnce /\ Knows /\ TrackedHas
      /\ Len(nodes) \in Nat /\ DOMAIN nodes = 1 .. Len(nodes)
      /\ \A k \in 1 .. Len(nodes) : nodes[k] \in Node
      /\ Live \subseteq 1 .. Len(nodes)
  BY Nodes DEF Core
<1>1. /\ UNCHANGED <<mapped, tracked, cur, mine>> /\ place' = [place EXCEPT ![a] = "uncount"] /\ place[a] = "find"
      /\ nodes[c].lo = mine[a].lo /\ nodes[c].hi = mine[a].hi /\ nodes[c].owner # NoArena
      /\ nodes' = [nodes EXCEPT ![c].owner = NoArena]
  BY DEF RetireClear, OorGoto, Matches
<1>2. c \in 1 .. Len(nodes)
  <2>1. cur[a] \in 0 .. MaxNodes /\ cur[a] > 0 /\ cur[a] <= Len(nodes)
    BY <1>0 DEF RetireClear, Knows, KnowsOf, OorShape
  <2> QED
    BY <1>0, <2>1
<1>3. /\ nodes' \in Seq(Node) /\ Len(nodes') = Len(nodes) /\ DOMAIN nodes' = 1 .. Len(nodes)
      /\ \A j \in 1 .. Len(nodes) : nodes'[j] = IF j = c THEN dead ELSE nodes[j]
  BY <1>0, <1>1, <1>2, SetOwner
<1> HIDE DEF c
<1>4. c \in Live /\ Live' = Live \ {c}
  BY <1>0, <1>1, <1>2, <1>3 DEF Live
<1>5. Mine(a) \in mapped /\ Mine(a) \notin tracked
  BY <1>0, <1>1 DEF OorWorking
<1>6. nodes[c] = Mine(a)
  <2>1. nodes[c] \in mapped
    BY <1>0, <1>4 DEF LiveMapped
  <2>2. nodes[c].lo = Mine(a).lo
    BY <1>1 DEF Mine
  <2> QED
    BY <1>0, <1>5, <2>1, <2>2, SameSheet
<1>7. nodes'[c] = [Mine(a) EXCEPT !.owner = NoArena] /\ Mine(a)' = Mine(a)
  BY <1>1, <1>2, <1>3 DEF Mine
<1>8. OorShape'
  BY <1>0, <1>1, <1>3 DEF OorShape
<1>9. Apart' /\ OorWorking'
  BY <1>0, <1>1 DEF Apart, OorWorking, Mine, OorShape
<1>10. ASSUME NEW b \in Arenas \ {a}
       PROVE  Mine(b)' = Mine(b) /\ place'[b] = place[b] /\ Mine(b) # Mine(a)
  BY <1>0, <1>1 DEF Mine, OorShape
<1>11. LiveMapped'
  <2> SUFFICES ASSUME NEW k \in Live'
               PROVE  /\ nodes'[k] \in mapped'
                      /\ \/ nodes'[k] \in tracked'
                         \/ \E b \in Arenas : nodes'[k] = Mine(b)' /\ place'[b] \in {"count", "find"}
    BY DEF LiveMapped
  <2>1. k \in Live /\ k # c /\ nodes'[k] = nodes[k] /\ nodes[k] # Mine(a)
    BY <1>0, <1>3, <1>4, <1>6 DEF LiveOnce
  <2> QED
    BY <1>0, <1>1, <1>10, <2>1 DEF LiveMapped
<1>12. LiveOnce'
  BY <1>0, <1>3, <1>4 DEF LiveOnce
<1>13. Knows'
  <2> SUFFICES ASSUME NEW b \in Arenas
               PROVE  /\ place'[b] = "count" => \E k \in DOMAIN nodes' : nodes'[k] = Mine(b)'
                      /\ place'[b] = "find" => \A k \in DOMAIN nodes' : nodes'[k] = Mine(b)' => k <= cur'[b]
                      /\ place'[b] = "uncount" => \E k \in DOMAIN nodes' : nodes'[k] = [Mine(b)' EXCEPT !.owner = NoArena]
                      /\ cur'[b] <= Len(nodes')
    BY DEF Knows, KnowsOf
  <2>1. CASE b = a
    BY <1>0, <1>1, <1>2, <1>3, <1>7, <2>1 DEF Knows, KnowsOf, OorShape
  <2>2. CASE b # a
    <3>1. place'[b] = place[b] /\ Mine(b)' = Mine(b) /\ Mine(b) # Mine(a)
      BY <1>10, <2>2
    <3>2. ASSUME place[b] = "count" PROVE \E k \in DOMAIN nodes' : nodes'[k] = Mine(b)'
      BY <1>0, <1>3, <1>6, <3>1, <3>2 DEF Knows, KnowsOf
    <3>3. ASSUME place[b] = "uncount"
          PROVE  \E k \in DOMAIN nodes' : nodes'[k] = [Mine(b)' EXCEPT !.owner = NoArena]
      <4>1. PICK k \in DOMAIN nodes : nodes[k] = [Mine(b) EXCEPT !.owner = NoArena]
        BY <1>0, <3>3 DEF Knows, KnowsOf
      <4>2. k # c
        BY <1>1, <4>1 DEF Mine
      <4> QED
        BY <1>0, <1>3, <3>1, <4>1, <4>2
    <3>4. dead # Mine(b)
      BY OorAssumption DEF Mine
    <3> QED
      BY <1>0, <1>3, <1>1, <3>1, <3>2, <3>3, <3>4 DEF Knows, KnowsOf
  <2> QED
    BY <2>1, <2>2
<1>14. TrackedHas'
  BY <1>0, <1>1, <1>3, <1>5, <1>6 DEF TrackedHas
<1> QED
  BY <1>4, <1>8, <1>9, <1>11, <1>12, <1>13, <1>14 DEF Core, c

\* A step of arena a that leaves the list alone: what has to be shown of a's
\* own sheets is enough, the sheets of the others are not touched.
LEMMA QuietCore ==
  ASSUME Core, NEW a \in Arenas, nodes' = nodes, OorShape', Apart', KnowsOf(a)',
         \A b \in Arenas \ {a} : place'[b] = place[b] /\ mine'[b] = mine[b] /\ cur'[b] = cur[b],
         \A m \in mapped : m.owner # a => m \in mapped' /\ (m \in tracked' <=> m \in tracked),
         place'[a] # "idle" => Mine(a)' \in mapped' /\ Mine(a)' \notin tracked',
         \A k \in Live : nodes[k].owner = a =>
           /\ nodes[k] \in mapped'
           /\ nodes[k] \in tracked' \/ (nodes[k] = Mine(a)' /\ place'[a] \in {"count", "find"}),
         \A s \in tracked' : s \in tracked \/ \E k \in DOMAIN nodes : nodes[k] = s
  PROVE  Core' /\ Live' = Live
<1>0. /\ OorShape /\ Apart /\ OorWorking /\ LiveMapped /\ LiveOnce /\ Knows /\ TrackedHas
  BY DEF Core
<1>1. Live' = Live
  BY DEF Live
<1>2. ASSUME NEW b \in Arenas \ {a}
      PROVE  Mine(b)' = Mine(b) /\ place'[b] = place[b] /\ cur'[b] = cur[b] /\ Mine(b).owner # a
  BY DEF Mine
<1>3. OorWorking'
  <2> SUFFICES ASSUME NEW b \in Arenas, place'[b] # "idle"
               PROVE  Mine(b)' \in mapped' /\ Mine(b)' \notin tracked'
    BY DEF OorWorking
  <2>1. CASE b # a
    BY <1>0, <1>2, <2>1 DEF OorWorking
  <2> QED
    BY <2>1
<1>4. LiveMapped'
  <2> SUFFICES ASSUME NEW k \in Live
               PROVE  /\ nodes[k] \in mapped'
                      /\ \/ nodes[k] \in tracked'
                         \/ \E b \in Arenas : nodes[k] = Mine(b)' /\ place'[b] \in {"count", "find"}
    BY <1>1 DEF LiveMapped
  <2>1. nodes[k] \in mapped
    BY <1>0 DEF LiveMapped
  <2>2. CASE nodes[k].owner = a
    BY <2>2
  <2>3. CASE nodes[k].owner # a
    <3>1. CASE nodes[k] \in tracked
      BY <2>1, <2>3, <3>1
    <3>2. CASE nodes[k] \notin tracked
      <4>1. PICK b \in Arenas : nodes[k] = Mine(b) /\ place[b] \in {"count", "find"}
        BY <1>0, <3>2 DEF LiveMapped
      <4>2. b # a
        BY <2>3, <4>1 DEF Mine
      <4> QED
        BY <1>2, <2>1, <2>3, <4>1, <4>2
    <3> QED
      BY <3>1, <3>2
  <2> QED
    BY <2>2, <2>3
<1>5. LiveOnce'
  BY <1>0, <1>1 DEF LiveOnce
<1>6. Knows'
  <2> SUFFICES ASSUME NEW b \in Arenas
               PROVE  /\ place'[b] = "count" => \E k \in DOMAIN nodes' : nodes'[k] = Mine(b)'
                      /\ place'[b] = "find" => \A k \in DOMAIN nodes' : nodes'[k] = Mine(b)' => k <= cur'[b]
                      /\ place'[b] = "uncount" => \E k \in DOMAIN nodes' : nodes'[k] = [Mine(b)' EXCEPT !.owner = NoArena]
                      /\ cur'[b] <= Len(nodes')
    BY DEF Knows, KnowsOf
  <2>1. CASE b = a
    BY <2>1 DEF KnowsOf
  <2>2. CASE b # a
    BY <1>0, <1>2, <2>2 DEF Knows, KnowsOf
  <2> QED
    BY <2>1, <2>2
<1>7. TrackedHas'
  BY <1>0 DEF TrackedHas
<1> QED
  BY <1>0, <1>1, <1>3, <1>4, <1>5, <1>6, <1>7 DEF Core

\* A new range: it overlaps no mapped one, so it is none of them.
LEMMA InsertCore ==
  ASSUME Core, NEW a \in Arenas, NEW r \in Ranges, Insert(a, r)
  PROVE  Core' /\ Live' = Live
<1>0. /\ OorShape /\ Apart /\ OorWorking /\ LiveMapped /\ Knows
      /\ Len(nodes) \in Nat /\ Len(nodes) <= MaxNodes
  BY Nodes DEF Core, OorShape
<1> DEFINE new == [owner |-> a, lo |-> r.lo, hi |-> r.hi]
<1>1. /\ nodes' = nodes /\ tracked' = tracked /\ mapped' = mapped \cup {new}
      /\ place[a] = "idle" /\ place' = [place EXCEPT ![a] = "scan"]
      /\ mine' = [mine EXCEPT ![a] = r] /\ cur' = [cur EXCEPT ![a] = Len(nodes)]
      /\ \A m \in mapped : Addrs(m) \cap Addrs(r) = {}
  BY DEF Insert, OorGoto
<1>2. new \in Sheets /\ Addrs(new) = Addrs(r) /\ new.lo \in Addrs(new)
  BY OorAssumption DEF Ranges, Sheets, Addrs
<1>3. new \notin mapped /\ new \notin tracked
  BY <1>0, <1>1, <1>2 DEF OorShape
<1>4. OorShape'
  <2>1. cur' \in [Arenas -> 0 .. MaxNodes]
    BY <1>0, <1>1, OorAssumption DEF OorShape
  <2>2. mine' \in [Arenas -> Ranges] /\ place' \in [Arenas -> {"idle", "scan", "count", "find", "uncount", "unmap"}]
    BY <1>0, <1>1 DEF OorShape
  <2> QED
    BY <1>0, <1>1, <1>2, <2>1, <2>2 DEF OorShape
<1>5. Apart'
  BY <1>0, <1>1, <1>2 DEF Apart
<1>6. Mine(a)' = new /\ place'[a] = "scan" /\ cur'[a] = Len(nodes)
  BY <1>0, <1>1 DEF Mine, OorShape
<1>7. KnowsOf(a)'
  BY <1>0, <1>1, <1>6 DEF KnowsOf
<1>8. \A b \in Arenas \ {a} : place'[b] = place[b] /\ mine'[b] = mine[b] /\ cur'[b] = cur[b]
  BY <1>0, <1>1 DEF OorShape
<1>9. \A k \in Live : nodes[k].owner = a => nodes[k] \in mapped' /\ nodes[k] \in tracked'
  <2> TAKE k \in Live
  <2> HAVE nodes[k].owner = a
  <2>1. nodes[k] \in mapped
    BY <1>0 DEF LiveMapped
  <2>2. nodes[k] \in tracked
    BY <1>0, <1>1, NoLiveNode
  <2> QED
    BY <1>1, <2>1, <2>2
<1>10. Mine(a)' \in mapped' /\ Mine(a)' \notin tracked'
  BY <1>1, <1>3, <1>6
<1>11. /\ \A m \in mapped : m.owner # a => m \in mapped' /\ (m \in tracked' <=> m \in tracked)
       /\ \A s \in tracked' : s \in tracked
  BY <1>1
<1> HIDE DEF new
<1> QED
  BY <1>1, <1>4, <1>5, <1>7, <1>8, <1>9, <1>10, <1>11, QuietCore

\* The places of an arena that leave list, ranges and counter alone.
LEMMA MoveCore ==
  ASSUME Core, NEW a \in Arenas,
         InsertSkip(a) \/ InsertNoMemory(a) \/ RetireSkip(a) \/ RetireAbsent(a) \/ RetireCount(a)
  PROVE  Core' /\ Live' = Live
<1>0. /\ OorShape /\ Apart /\ OorWorking /\ LiveMapped /\ Knows
      /\ Len(nodes) \in Nat /\ Len(nodes) <= MaxNodes /\ DOMAIN nodes = 1 .. Len(nodes)
      /\ cur[a] \in 0 .. MaxNodes /\ cur[a] <= Len(nodes)
      /\ place[a] \in {"idle", "scan", "count", "find", "uncount", "unmap"}
  BY Nodes DEF Core, OorShape, Knows, KnowsOf
<1>1. nodes' = nodes /\ mapped' = mapped /\ tracked' = tracked /\ mine' = mine
  BY DEF InsertSkip, InsertNoMemory, RetireSkip, RetireAbsent, RetireCount
<1>2. /\ \/ place' = place /\ place[a] \in {"scan", "find"}
         \/ place[a] = "scan" /\ place' = [place EXCEPT ![a] = "idle"]
         \/ place[a] \in {"find", "uncount"} /\ place' = [place EXCEPT ![a] = "unmap"]
      /\ cur' = cur \/ (cur[a] > 0 /\ cur' = [cur EXCEPT ![a] = cur[a] - 1])
  BY DEF InsertSkip, InsertNoMemory, RetireSkip, RetireAbsent, RetireCount, OorGoto
<1>3. OorShape'
  <2>1. cur' \in [Arenas -> 0 .. MaxNodes]
    BY <1>0, <1>2, OorAssumption DEF OorShape
  <2>2. place' \in [Arenas -> {"idle", "scan", "count", "find", "uncount", "unmap"}]
    BY <1>0, <1>2 DEF OorShape
  <2> QED
    BY <1>0, <1>1, <2>1, <2>2 DEF OorShape
<1>4. Apart'
  BY <1>0, <1>1 DEF Apart
<1>5. \A b \in Arenas \ {a} : place'[b] = place[b] /\ mine'[b] = mine[b] /\ cur'[b] = cur[b]
  BY <1>0, <1>1, <1>2 DEF OorShape
<1>6. Mine(a)' = Mine(a) /\ (Mine(a) \in mapped /\ Mine(a) \notin tracked)
  BY <1>0, <1>1, <1>2 DEF Mine, OorWorking
<1>7. place'[a] = place[a] \/ place'[a] \in {"idle", "unmap"}
  BY <1>0, <1>2 DEF OorShape
<1>8. ASSUME place[a] = "find"
      PROVE  \A k \in DOMAIN nodes : nodes[k] = Mine(a) => k <= cur[a] /\ k # 0 /\ (place'[a] = "find" => k <= cur'[a])
  <2> SUFFICES ASSUME NEW k \in DOMAIN nodes, nodes[k] = Mine(a)
               PROVE  k <= cur[a] /\ k # 0 /\ (place'[a] = "find" => k <= cur'[a])
    OBVIOUS
  <2>1. k \in 1 .. Len(nodes) /\ k <= cur[a]
    BY <1>0, <1>8 DEF Knows, KnowsOf
  <2>2. ASSUME place'[a] = "find" PROVE k # cur[a] /\ cur'[a] = cur[a] - 1
    <3>1. RetireSkip(a)
      BY <1>0, <1>8, <2>2 DEF InsertSkip, InsertNoMemory, RetireSkip, RetireAbsent, RetireCount, OorGoto, OorShape
    <3>2. nodes[k].lo = mine[a].lo /\ nodes[k].hi = mine[a].hi /\ nodes[k].owner # NoArena
      BY OorAssumption DEF Mine
    <3> QED
      BY <1>0, <3>1, <3>2 DEF RetireSkip, Matches, OorShape
  <2> QED
    BY <1>0, <2>1, <2>2
<1>9. cur'[a] <= Len(nodes')
  BY <1>0, <1>1, <1>2 DEF OorShape
<1>10. KnowsOf(a)'
  BY <1>0, <1>1, <1>6, <1>7, <1>8, <1>9 DEF Knows, KnowsOf
<1>11. ASSUME NEW k \in Live, nodes[k].owner = a
       PROVE  /\ nodes[k] \in mapped'
              /\ nodes[k] \in tracked' \/ (nodes[k] = Mine(a)' /\ place'[a] \in {"count", "find"})
  <2>1. nodes[k] \in mapped
    BY <1>0 DEF LiveMapped
  <2>2. CASE nodes[k] \notin tracked
    <3>1. PICK b \in Arenas : nodes[k] = Mine(b) /\ place[b] \in {"count", "find"}
      BY <1>0, <2>2 DEF LiveMapped
    <3>2. b = a
      BY <1>11, <3>1 DEF Mine
    <3>3. place[a] = "find"
      BY <1>2, <3>1, <3>2
    <3>4. CASE RetireAbsent(a)
      <4>1. k <= 0 /\ k \in 1 .. Len(nodes)
        BY <1>0, <1>8, <3>1, <3>2, <3>3, <3>4 DEF RetireAbsent, Live
      <4> QED
        BY <1>0, <4>1
    <3>5. CASE RetireSkip(a)
      BY <1>1, <1>6, <2>1, <3>1, <3>2, <3>3, <3>5 DEF RetireSkip
    <3> QED
      BY <3>3, <3>4, <3>5 DEF InsertSkip, InsertNoMemory, RetireCount, OorGoto
  <2> QED
    BY <1>1, <2>1, <2>2
<1> QED
  BY <1>0, <1>1, <1>3, <1>4, <1>5, <1>6, <1>10, <1>11, QuietCore

\* The sheet becomes tracked; its node is there.
LEMMA InsertCountCore ==
  ASSUME Core, NEW a \in Arenas, InsertCount(a)
  PROVE  Core' /\ Live' = Live
<1>0. /\ OorShape /\ Apart /\ OorWorking /\ LiveMapped /\ Knows
  BY DEF Core
<1>1. /\ nodes' = nodes /\ mapped' = mapped /\ mine' = mine /\ cur' = cur
      /\ tracked' = tracked \cup {Mine(a)}
      /\ place[a] = "count" /\ place' = [place EXCEPT ![a] = "idle"]
  BY DEF InsertCount, OorGoto, Mine
<1>2. Mine(a) \in mapped /\ Mine(a).owner = a
  BY <1>0, <1>1 DEF OorWorking, Mine
<1>3. OorShape' /\ Apart' /\ place'[a] = "idle"
  BY <1>0, <1>1, <1>2 DEF OorShape, Apart
<1>4. \A b \in Arenas \ {a} : place'[b] = place[b] /\ mine'[b] = mine[b] /\ cur'[b] = cur[b]
  BY <1>0, <1>1 DEF OorShape
<1>5. KnowsOf(a)'
  BY <1>0, <1>1, <1>3 DEF Knows, KnowsOf
<1>6. \A s \in tracked' : s \in tracked \/ \E k \in DOMAIN nodes : nodes[k] = s
  BY <1>0, <1>1 DEF Knows, KnowsOf
<1>7. \A m \in mapped : m.owner # a => m \in mapped' /\ (m \in tracked' <=> m \in tracked)
  BY <1>1, <1>2
<1>8. ASSUME NEW k \in Live, nodes[k].owner = a
      PROVE  nodes[k] \in mapped' /\ nodes[k] \in tracked'
  <2>1. nodes[k] \in mapped
    BY <1>0 DEF LiveMapped
  <2>2. CASE nodes[k] \notin tracked
    <3>1. PICK b \in Arenas : nodes[k] = Mine(b)
      BY <1>0, <2>2 DEF LiveMapped
    <3>2. b = a
      BY <1>8, <3>1 DEF Mine
    <3> QED
      BY <1>1, <2>1, <3>1, <3>2
  <2> QED
    BY <1>1, <2>1, <2>2
<1> QED
  BY <1>1, <1>3, <1>4, <1>5, <1>6, <1>7, <1>8, QuietCore

\* A retired sheet is no longer tracked; it has a live node only if the walk
\* is going to look for it.
LEMMA RetireCore ==
  ASSUME Core, tracked # {} => live > 0, NEW a \in Arenas, NEW m \in mapped, Retire(a, m)
  PROVE  Core' /\ Live' = Live
<1>0. /\ OorShape /\ Apart /\ OorWorking /\ LiveMapped /\ Knows
      /\ Len(nodes) \in Nat /\ Len(nodes) <= MaxNodes /\ DOMAIN nodes = 1 .. Len(nodes)
  BY Nodes DEF Core, OorShape
<1>1. /\ nodes' = nodes /\ mapped' = mapped /\ tracked' = tracked \ {m} /\ m.owner = a
      /\ place[a] = "idle" /\ place' = [place EXCEPT ![a] = IF live = 0 THEN "unmap" ELSE "find"]
      /\ mine' = [mine EXCEPT ![a] = [lo |-> m.lo, hi |-> m.hi]]
      /\ cur' = [cur EXCEPT ![a] = Len(nodes)]
  BY DEF Retire, OorGoto
<1>2. m \in Sheets /\ [lo |-> m.lo, hi |-> m.hi] \in Ranges
  BY <1>0 DEF OorShape, Sheets, Ranges
<1>3. Mine(a)' = m /\ cur'[a] = Len(nodes) /\ place'[a] = (IF live = 0 THEN "unmap" ELSE "find")
  <2>1. Mine(a)' = [owner |-> m.owner, lo |-> m.lo, hi |-> m.hi]
    BY <1>0, <1>1 DEF Mine, OorShape
  <2>2. m = [owner |-> m.owner, lo |-> m.lo, hi |-> m.hi]
    BY <1>2 DEF Sheets
  <2> QED
    BY <1>0, <1>1, <2>1, <2>2 DEF OorShape
<1>4. OorShape'
  <2>1. cur' \in [Arenas -> 0 .. MaxNodes] /\ mine' \in [Arenas -> Ranges]
    BY <1>0, <1>1, <1>2, OorAssumption DEF OorShape
  <2>2. place' \in [Arenas -> {"idle", "scan", "count", "find", "uncount", "unmap"}]
    BY <1>0, <1>1 DEF OorShape
  <2> QED
    BY <1>0, <1>1, <2>1, <2>2 DEF OorShape
<1>5. Apart'
  BY <1>0, <1>1 DEF Apart
<1>6. \A b \in Arenas \ {a} : place'[b] = place[b] /\ mine'[b] = mine[b] /\ cur'[b] = cur[b]
  BY <1>0, <1>1 DEF OorShape
<1>7. KnowsOf(a)'
  BY <1>0, <1>1, <1>3 DEF KnowsOf
<1>8. ASSUME NEW k \in Live, nodes[k].owner = a
      PROVE  /\ nodes[k] \in mapped'
             /\ nodes[k] \in tracked' \/ (nodes[k] = Mine(a)' /\ place'[a] \in {"count", "find"})
  <2>1. nodes[k] \in mapped
    BY <1>0 DEF LiveMapped
  <2>2. nodes[k] \in tracked
    BY <1>0, <1>1, <1>8, NoLiveNode
  <2>3. live # 0
    BY <2>2
  <2> QED
    BY <1>1, <1>3, <2>1, <2>2, <2>3
<1>9. Mine(a)' \in mapped' /\ Mine(a)' \notin tracked'
  BY <1>1, <1>3
<1>10. /\ \A n \in mapped : n.owner # a => n \in mapped' /\ (n \in tracked' <=> n \in tracked)
       /\ \A s \in tracked' : s \in tracked
  BY <1>1
<1> QED
  BY <1>1, <1>4, <1>5, <1>6, <1>7, <1>8, <1>9, <1>10, QuietCore

\* An unmapped sheet has no live node any more.
LEMMA UnmapCore ==
  ASSUME Core, NEW a \in Arenas, OorUnmap(a)
  PROVE  Core' /\ Live' = Live
<1>0. /\ OorShape /\ Apart /\ OorWorking /\ LiveMapped /\ Knows
  BY DEF Core
<1>1. /\ nodes' = nodes /\ mapped' = mapped \ {Mine(a)} /\ mine' = mine /\ cur' = cur
      /\ tracked' = tracked /\ place[a] = "unmap" /\ place' = [place EXCEPT ![a] = "idle"]
  BY DEF OorUnmap, OorGoto, Mine
<1>2. Mine(a) \notin tracked /\ Mine(a).owner = a
  BY <1>0, <1>1 DEF OorWorking, Mine
<1>3. OorShape' /\ Apart' /\ place'[a] = "idle"
  BY <1>0, <1>1, <1>2 DEF OorShape, Apart
<1>4. \A b \in Arenas \ {a} : place'[b] = place[b] /\ mine'[b] = mine[b] /\ cur'[b] = cur[b]
  BY <1>0, <1>1 DEF OorShape
<1>5. KnowsOf(a)'
  BY <1>0, <1>1, <1>3 DEF Knows, KnowsOf
<1>6. ASSUME NEW k \in Live, nodes[k].owner = a
      PROVE  nodes[k] \in mapped' /\ nodes[k] \in tracked'
  <2>1. nodes[k] \in mapped
    BY <1>0 DEF LiveMapped
  <2>2. nodes[k] \in tracked
    BY <1>0, <1>1, <1>6, NoLiveNode
  <2> QED
    BY <1>1, <1>2, <2>1, <2>2
<1>7. /\ \A m \in mapped : m.owner # a => m \in mapped' /\ (m \in tracked' <=> m \in tracked)
      /\ \A s \in tracked' : s \in tracked
  BY <1>1, <1>2
<1> QED
  BY <1>1, <1>3, <1>4, <1>5, <1>6, <1>7, QuietCore

-----------------------------------------------------------------------------
(* The counter follows the list *)

\* Every step keeps the count right.
LEMMA CountedStep ==
  ASSUME OorInv, NEW a \in Arenas,
         OorStep(a) \/ (\E r \in Ranges : Insert(a, r)) \/ (\E m \in mapped : Retire(a, m)),
         Core',
         InsertReuse(a) => Live' = Live \cup {cur[a]} /\ cur[a] \notin Live,
         InsertPush(a) => Live' = Live \cup {Len(nodes) + 1} /\ Len(nodes) + 1 \notin Live,
         RetireClear(a) => Live' = Live \ {cur[a]} /\ cur[a] \in Live,
         ~(InsertReuse(a) \/ InsertPush(a) \/ RetireClear(a)) => Live' = Live
  PROVE  Counted'
<1>0. /\ OorShape /\ Counted
      /\ IsFiniteSet(Live) /\ Cardinality(Live) \in Nat
      /\ IsFiniteSet(Counting) /\ Cardinality(Counting) \in Nat
      /\ IsFiniteSet(Uncounting) /\ Cardinality(Uncounting) \in Nat
  BY Finite DEF OorInv, Core
<1>2. CASE InsertReuse(a) \/ InsertPush(a)
  <2>1. live' = live /\ place[a] = "scan" /\ place' = [place EXCEPT ![a] = "count"]
    BY <1>2 DEF InsertReuse, InsertPush, OorGoto
  <2>2. Counting' = Counting \cup {a} /\ a \notin Counting /\ Uncounting' = Uncounting
    BY <1>0, <2>1 DEF Counting, Uncounting, OorShape
  <2>3. Cardinality(Live') = Cardinality(Live) + 1
    BY <1>0, <1>2, FS_AddElement
  <2>4. Cardinality(Counting') = Cardinality(Counting) + 1
    BY <1>0, <2>2, FS_AddElement
  <2> QED
    BY <1>0, <2>1, <2>2, <2>3, <2>4 DEF Counted
<1>3. CASE RetireClear(a)
  <2>1. live' = live /\ place[a] = "find" /\ place' = [place EXCEPT ![a] = "uncount"]
    BY <1>3 DEF RetireClear, OorGoto
  <2>2. Uncounting' = Uncounting \cup {a} /\ a \notin Uncounting /\ Counting' = Counting
    BY <1>0, <2>1 DEF Counting, Uncounting, OorShape
  <2>3. Cardinality(Live') = Cardinality(Live) - 1
    BY <1>0, <1>3, FS_RemoveElement
  <2>4. Cardinality(Uncounting') = Cardinality(Uncounting) + 1
    BY <1>0, <2>2, FS_AddElement
  <2> QED
    BY <1>0, <2>1, <2>2, <2>3, <2>4 DEF Counted
<1>4. CASE InsertCount(a)
  <2>1. live' = live + 1 /\ place[a] = "count" /\ place' = [place EXCEPT ![a] = "idle"] /\ Live' = Live
    BY <1>4 DEF InsertCount, InsertReuse, InsertPush, RetireClear, OorGoto
  <2>2. Counting' = Counting \ {a} /\ a \in Counting /\ Uncounting' = Uncounting
    BY <1>0, <2>1 DEF Counting, Uncounting, OorShape
  <2>3. Cardinality(Counting') = Cardinality(Counting) - 1
    BY <1>0, <2>2, FS_RemoveElement
  <2> QED
    BY <1>0, <2>1, <2>2, <2>3 DEF Counted
<1>5. CASE RetireCount(a)
  <2>1. live' = live - 1 /\ place[a] = "uncount" /\ place' = [place EXCEPT ![a] = "unmap"] /\ Live' = Live
    BY <1>5 DEF RetireCount, InsertReuse, InsertPush, RetireClear, OorGoto
  <2>2. Uncounting' = Uncounting \ {a} /\ a \in Uncounting /\ Counting' = Counting
    BY <1>0, <2>1 DEF Counting, Uncounting, OorShape
  <2>3. Cardinality(Uncounting') = Cardinality(Uncounting) - 1
    BY <1>0, <2>2, FS_RemoveElement
  <2> QED
    BY <1>0, <2>1, <2>2, <2>3 DEF Counted
<1>6. CASE ~(InsertReuse(a) \/ InsertPush(a) \/ RetireClear(a) \/ InsertCount(a) \/ RetireCount(a))
  <2>1. /\ live' = live /\ Live' = Live
        /\ \/ place' = place
           \/ place[a] \notin {"count", "uncount"} /\ \E q \in {"idle", "scan", "find", "unmap"} : place' = [place EXCEPT ![a] = q]
    BY <1>6 DEF OorStep, InsertSkip, InsertNoMemory, RetireSkip, RetireAbsent, OorUnmap, Insert, Retire, OorGoto
  <2>2. Counting' = Counting /\ Uncounting' = Uncounting
    BY <1>0, <2>1 DEF Counting, Uncounting, OorShape
  <2> QED
    BY <1>0, <2>1, <2>2 DEF Counted
<1> QED
  BY <1>2, <1>3, <1>4, <1>5, <1>6

-----------------------------------------------------------------------------
(* The invariant *)

\* The empty list.
LEMMA OorInitInv == OorInit => OorInv
<1> SUFFICES ASSUME OorInit PROVE OorInv
  OBVIOUS
<1>1. Len(nodes) = 0 /\ DOMAIN nodes = {} /\ nodes \in Seq(Node)
  BY DEF OorInit
<1>2. OorShape
  <2>1. [lo |-> 0, hi |-> 1] \in Ranges
    BY OorAssumption DEF Ranges
  <2> QED
    BY <1>1, <2>1, OorAssumption DEF OorInit, OorShape
<1>3. Apart /\ OorWorking /\ TrackedHas
  BY DEF OorInit, Apart, OorWorking, TrackedHas
<1>4. Live = {} /\ Counting = {} /\ Uncounting = {}
  BY <1>1 DEF OorInit, Live, Counting, Uncounting
<1>5. LiveMapped /\ LiveOnce
  BY <1>4 DEF LiveMapped, LiveOnce
<1>6. Knows
  BY <1>1 DEF OorInit, Knows, KnowsOf
<1>7. Counted
  BY <1>4, FS_EmptySet DEF OorInit, Counted
<1> QED
  BY <1>2, <1>3, <1>5, <1>6, <1>7 DEF OorInv, Core

\* Every step keeps the invariant.
LEMMA OorNextInv == OorInv /\ [OorNext]_oorVars => OorInv'
<1> SUFFICES ASSUME OorInv, [OorNext]_oorVars PROVE OorInv'
  OBVIOUS
<1>0. Core /\ Counted
  BY DEF OorInv
<1>1. CASE OorNext
  <2>1. PICK a \in Arenas :
          OorStep(a) \/ (\E r \in Ranges : Insert(a, r)) \/ (\E m \in mapped : Retire(a, m))
    BY <1>1 DEF OorNext
  <2>2. CASE InsertReuse(a)
    <3>1. Core' /\ Live' = Live \cup {cur[a]} /\ cur[a] \notin Live
      BY <1>0, <2>2, InsertReuseCore
    <3>2. ~InsertPush(a) /\ ~RetireClear(a)
      BY <2>2 DEF InsertReuse, InsertPush, RetireClear, OorGoto
    <3> QED
      BY <2>1, <2>2, <3>1, <3>2, CountedStep DEF OorInv
  <2>3. CASE InsertPush(a)
    <3>1. Core' /\ Live' = Live \cup {Len(nodes) + 1} /\ Len(nodes) + 1 \notin Live
      BY <1>0, <2>3, InsertPushCore
    <3>2. ~InsertReuse(a) /\ ~RetireClear(a)
      BY <2>3 DEF InsertReuse, InsertPush, RetireClear, OorGoto
    <3> QED
      BY <2>1, <2>3, <3>1, <3>2, CountedStep DEF OorInv
  <2>4. CASE RetireClear(a)
    <3>1. Core' /\ Live' = Live \ {cur[a]} /\ cur[a] \in Live
      BY <1>0, <2>4, RetireClearCore
    <3>2. ~InsertReuse(a) /\ ~InsertPush(a)
      BY <2>4 DEF InsertReuse, InsertPush, RetireClear, OorGoto
    <3> QED
      BY <2>1, <2>4, <3>1, <3>2, CountedStep DEF OorInv
  <2>5. CASE ~(InsertReuse(a) \/ InsertPush(a) \/ RetireClear(a))
    <3>1. Core' /\ Live' = Live
      <4>1. CASE \E r \in Ranges : Insert(a, r)
        BY <1>0, <4>1, InsertCore
      <4>2. CASE \E m \in mapped : Retire(a, m)
        BY <1>0, <4>2, CounterFacts, RetireCore DEF LiveCount
      <4>3. CASE InsertCount(a)
        BY <1>0, <4>3, InsertCountCore
      <4>4. CASE OorUnmap(a)
        BY <1>0, <4>4, UnmapCore
      <4>5. CASE InsertSkip(a) \/ InsertNoMemory(a) \/ RetireSkip(a) \/ RetireAbsent(a) \/ RetireCount(a)
        BY <1>0, <4>5, MoveCore
      <4> QED
        BY <2>1, <2>5, <4>1, <4>2, <4>3, <4>4, <4>5 DEF OorStep
    <3> QED
      BY <2>1, <2>5, <3>1, CountedStep DEF OorInv
  <2> QED
    BY <2>2, <2>3, <2>4, <2>5
<1>2. CASE UNCHANGED oorVars
  BY <1>2 DEF oorVars, OorInv, Core, Counted, OorShape, Apart, OorWorking, LiveMapped, LiveOnce,
       Knows, KnowsOf, TrackedHas, Live, Counting, Uncounting, Mine
<1> QED
  BY <1>1, <1>2

\* The invariant holds always.
LEMMA OorInvariance == OorSpec => []OorInv
BY OorInitInv, OorNextInv, PTL DEF OorSpec

(***************************************************************************)
(* Whatever arenas race for dead nodes, push, retire and unmap: the types  *)
(* hold, __oor_live is exact and positive while a sheet is tracked (the    *)
(* empty probe of __oor_owner_of and __oor_retire is safe), and a tracked  *)
(* sheet has exactly one node.                                             *)
(***************************************************************************)
THEOREM ListIsSound == OorSpec => []ListSound
<1>1. OorInv => ListSound
  BY CounterFacts, OneNode DEF ListSound
<1> QED
  BY <1>1, OorInvariance, PTL

(***************************************************************************)
(* __oor_owner_of never names an arena other than the owner of a tracked   *)
(* sheet, so no free is queued on a foreign arena.                         *)
(***************************************************************************)
THEOREM OwnersNotForeign == OorSpec => []NeverForeign
BY OorInvariance, NotForeign, PTL
=============================================================================
