----------------------------- MODULE VaReserve -----------------------------
(***************************************************************************)
(* The address-space reservation every sheet is carved from                *)
(* (va_reserve.hpp) and the owner table that maps its granules to arenas   *)
(* (sheet_header.hpp).  Threads carve, register, unregister and release    *)
(* sheets concurrently; a thread stands for the arena it owns.             *)
(*                                                                         *)
(* Offsets and lengths count granules (__sheet_align bytes).  The locked   *)
(* sections are single steps; every unlocked shared access is a step.      *)
(***************************************************************************)
EXTENDS Integers, Sequences, FiniteSets

CONSTANTS
  Threads,
  Granules,     \* __num_blocks: granules in the reservation
  FreeCap,      \* __va_free_cap: slots of the free-run array
  MaxRun,       \* bound: granules of the largest sheet requested
  None          \* nullptr

ASSUME VaAssumption == /\ Granules \in Nat \ {0}
                       /\ FreeCap \in Nat \ {0}
                       /\ MaxRun \in Nat \ {0}
                       /\ None \notin Threads

VARIABLES
  base,         \* __va_base: 0 is null, k > 0 the k-th mapping the kernel made
  maps,         \* mappings made so far by __va_reserve_once
  initLock,     \* __va_init_lock: its holder or None
  offset,       \* __va_offset
  runs,         \* __va_free_runs[0 .. __va_free_count - 1]
  page,         \* protection of each granule: "none" or "rw"
  table,        \* __block_owner_table
  sheets,       \* sheets in use: [owner, off, len]
  pc, want, at, step,   \* each thread: place, request, run in hand, loop index
  leaked        \* history: granules that no list will hand out again

vars == <<base, maps, initLock, offset, runs, page, table, sheets, pc, want, at, step, leaked>>
local == <<want, at, step>>

Span(off, len) == off .. (off + len - 1)

Init ==
  /\ base = 0 /\ maps = 0 /\ initLock = None
  /\ offset = 0 /\ runs = <<>>
  /\ page = [g \in 0 .. (Granules - 1) |-> "none"]
  /\ table = [g \in 0 .. (Granules - 1) |-> None]
  /\ sheets = {}
  /\ pc = [t \in Threads |-> "idle"]
  /\ want = [t \in Threads |-> 0]
  /\ at = [t \in Threads |-> 0]
  /\ step = [t \in Threads |-> 0]
  /\ leaked = {}

Goto(t, from, to) == pc[t] = from /\ pc' = [pc EXCEPT ![t] = to]

-----------------------------------------------------------------------------
(* __va_carve, up to the run of address space *)

\* Request n granules; the acquire load of __va_base decides the path.
Carve(t, n) ==
  /\ Goto(t, "idle", IF base = 0 THEN "init" ELSE "reuse")
  /\ want' = [want EXCEPT ![t] = n]
  /\ UNCHANGED <<base, maps, initLock, offset, runs, page, table, sheets, at, step, leaked>>

\* __va_reserve_once: take the init lock, then look at __va_base again.
InitLock(t) ==
  /\ initLock = None /\ initLock' = t
  /\ Goto(t, "init", "recheck")
  /\ UNCHANGED <<base, maps, offset, runs, page, table, sheets, local, leaked>>

\* Under the lock: somebody was faster, or map the reservation and publish it.
InitMap(t) ==
  /\ Goto(t, "recheck", "reuse")
  /\ IF base # 0 THEN UNCHANGED <<base, maps>>
                 ELSE base' = maps + 1 /\ maps' = maps + 1
  /\ initLock' = None
  /\ UNCHANGED <<offset, runs, page, table, sheets, local, leaked>>

\* The mapping fails: no reservation, the caller goes to the system allocator.
InitFail(t) ==
  /\ base = 0
  /\ Goto(t, "recheck", "idle")
  /\ initLock' = None
  /\ UNCHANGED <<base, maps, offset, runs, page, table, sheets, local, leaked>>

Fits(n) == {i \in DOMAIN runs : runs[i].len >= n}

\* The scan from the end keeps the first of the shortest runs that fit.
BestFit(n) ==
  CHOOSE i \in Fits(n) : \A j \in Fits(n) :
    runs[i].len < runs[j].len \/ (runs[i].len = runs[j].len /\ j <= i)

\* The array after n granules were taken from the head of run i.
TakeRun(i, n) ==
  IF runs[i].len > n
  THEN [runs EXCEPT ![i] = [off |-> @.off + n, len |-> @.len - n]]
  ELSE SubSeq([runs EXCEPT ![i] = runs[Len(runs)]], 1, Len(runs) - 1)

\* __va_reuse, one critical section of __va_free_lock.
Reuse(t) ==
  /\ Fits(want[t]) # {}
  /\ Goto(t, "reuse", "commit_reused")
  /\ at' = [at EXCEPT ![t] = runs[BestFit(want[t])].off]
  /\ runs' = TakeRun(BestFit(want[t]), want[t])
  /\ UNCHANGED <<base, maps, initLock, offset, page, table, sheets, want, step, leaked>>

ReuseNone(t) ==
  /\ Fits(want[t]) = {}
  /\ Goto(t, "reuse", "bump_load")
  /\ UNCHANGED <<base, maps, initLock, offset, runs, page, table, sheets, local, leaked>>

\* Mutant of BumpCas: a store instead of a compare-exchange.
BumpCasBlind(t) ==
  /\ Goto(t, "bump_cas", "commit_bumped")
  /\ offset' = at[t] + want[t]
  /\ UNCHANGED <<base, maps, initLock, runs, page, table, sheets, local, leaked>>

\* __va_bump: load the cursor, give up past the end, else compare-exchange.
BumpLoad(t) ==
  /\ at' = [at EXCEPT ![t] = offset]
  /\ Goto(t, "bump_load", IF offset + want[t] > Granules THEN "idle" ELSE "bump_cas")
  /\ UNCHANGED <<base, maps, initLock, offset, runs, page, table, sheets, want, step, leaked>>

BumpCas(t) ==
  /\ offset = at[t]
  /\ Goto(t, "bump_cas", "commit_bumped")
  /\ offset' = offset + want[t]
  /\ UNCHANGED <<base, maps, initLock, runs, page, table, sheets, local, leaked>>

\* A failed compare-exchange has reloaded the cursor: the same test again.
BumpCasFail(t) ==
  /\ Goto(t, "bump_cas", IF offset + want[t] > Granules THEN "idle" ELSE "bump_cas")
  /\ at' = [at EXCEPT ![t] = offset]
  /\ UNCHANGED <<base, maps, initLock, offset, runs, page, table, sheets, want, step, leaked>>

(* __va_commit *)

Commit(t) ==
  /\ Goto(t, pc[t], "register")
  /\ pc[t] \in {"commit_reused", "commit_bumped"}
  /\ page' = [g \in DOMAIN page |-> IF g \in Span(at[t], want[t]) THEN "rw" ELSE page[g]]
  /\ step' = [step EXCEPT ![t] = 0]
  /\ UNCHANGED <<base, maps, initLock, offset, runs, table, sheets, want, at, leaked>>

\* mmap fails: the run is dropped; a reused one is replaced by a fresh carve.
CommitFail(t) ==
  /\ \/ Goto(t, "commit_reused", "bump_load")
     \/ Goto(t, "commit_bumped", "idle")
  /\ leaked' = leaked \cup Span(at[t], want[t])
  /\ UNCHANGED <<base, maps, initLock, offset, runs, page, table, sheets, local>>

-----------------------------------------------------------------------------
(* The sheet: constructor registers it, __impl_release takes it down *)

\* __sheet_register, one granule; after the last the sheet is in use.
Register(t) ==
  /\ pc[t] = "register"
  /\ table' = [table EXCEPT ![at[t] + step[t]] = t]
  /\ IF step[t] + 1 = want[t]
     THEN /\ pc' = [pc EXCEPT ![t] = "idle"]
          /\ sheets' = sheets \cup {[owner |-> t, off |-> at[t], len |-> want[t]]}
          /\ UNCHANGED step
     ELSE /\ step' = [step EXCEPT ![t] = @ + 1]
          /\ UNCHANGED <<pc, sheets>>
  /\ UNCHANGED <<base, maps, initLock, offset, runs, page, want, at, leaked>>

\* __impl_release starts on a sheet of this arena.
Release(t, s) ==
  /\ s.owner = t
  /\ Goto(t, "idle", "unregister")
  /\ sheets' = sheets \ {s}
  /\ at' = [at EXCEPT ![t] = s.off]
  /\ want' = [want EXCEPT ![t] = s.len]
  /\ step' = [step EXCEPT ![t] = 0]
  /\ UNCHANGED <<base, maps, initLock, offset, runs, page, table, leaked>>

\* Mutant of Unregister: only the first granule is cleared.
UnregisterFirst(t) ==
  /\ Goto(t, "unregister", "unmap")
  /\ table' = [table EXCEPT ![at[t]] = None]
  /\ UNCHANGED <<base, maps, initLock, offset, runs, page, sheets, local, leaked>>

\* __sheet_unregister, one granule.
Unregister(t) ==
  /\ pc[t] = "unregister"
  /\ table' = [table EXCEPT ![at[t] + step[t]] = None]
  /\ IF step[t] + 1 = want[t]
     THEN pc' = [pc EXCEPT ![t] = "unmap"] /\ UNCHANGED step
     ELSE step' = [step EXCEPT ![t] = @ + 1] /\ UNCHANGED pc
  /\ UNCHANGED <<base, maps, initLock, offset, runs, page, sheets, want, at, leaked>>

\* __va_release: drop the pages first ...
Unmap(t) ==
  /\ Goto(t, "unmap", "giveback")
  /\ page' = [g \in DOMAIN page |-> IF g \in Span(at[t], want[t]) THEN "none" ELSE page[g]]
  /\ UNCHANGED <<base, maps, initLock, offset, runs, table, sheets, local, leaked>>

\* ... whose failure is ignored: the pages stay.
UnmapFail(t) ==
  /\ Goto(t, "unmap", "giveback")
  /\ UNCHANGED <<base, maps, initLock, offset, runs, page, table, sheets, local, leaked>>

\* Mutant of Giveback: the array is called full one slot early.
GivebackEarly(t) ==
  /\ Goto(t, "giveback", "idle")
  /\ IF Len(runs) + 1 < FreeCap
     THEN runs' = Append(runs, [off |-> at[t], len |-> want[t]]) /\ UNCHANGED leaked
     ELSE leaked' = leaked \cup Span(at[t], want[t]) /\ UNCHANGED runs
  /\ UNCHANGED <<base, maps, initLock, offset, page, table, sheets, local>>

\* Then, under the lock, list the run, or drop it when the array is full.
Giveback(t) ==
  /\ Goto(t, "giveback", "idle")
  /\ IF Len(runs) < FreeCap
     THEN runs' = Append(runs, [off |-> at[t], len |-> want[t]]) /\ UNCHANGED leaked
     ELSE leaked' = leaked \cup Span(at[t], want[t]) /\ UNCHANGED runs
  /\ UNCHANGED <<base, maps, initLock, offset, page, table, sheets, local>>

-----------------------------------------------------------------------------
Step(t) ==
  \/ InitLock(t) \/ InitMap(t) \/ InitFail(t)
  \/ Reuse(t) \/ ReuseNone(t) \/ BumpLoad(t) \/ BumpCas(t) \/ BumpCasFail(t)
  \/ Commit(t) \/ CommitFail(t) \/ Register(t) \/ Unregister(t) \/ Unmap(t) \/ UnmapFail(t) \/ Giveback(t)

Next ==
  \E t \in Threads :
    Step(t) \/ (\E n \in 1 .. MaxRun : Carve(t, n)) \/ (\E s \in sheets : Release(t, s))

Spec == Init /\ [][Next]_vars

-----------------------------------------------------------------------------
\* t has taken a run and neither listed it, leaked it nor put it in use.
Busy(t) == pc[t] \in {"commit_reused", "commit_bumped", "register",
                      "unregister", "unmap", "giveback"}

\* Types of the reservation's state and of every operation in progress.
TypeOK ==
  /\ maps \in Nat /\ base \in 0 .. maps
  /\ initLock \in Threads \cup {None}
  /\ offset \in 0 .. Granules
  /\ runs \in Seq([off : 0 .. (Granules - 1), len : 1 .. Granules])
  /\ page \in [0 .. (Granules - 1) -> {"none", "rw"}]
  /\ table \in [0 .. (Granules - 1) -> Threads \cup {None}]
  /\ sheets \subseteq [owner : Threads, off : 0 .. (Granules - 1), len : 1 .. MaxRun]
  /\ want \in [Threads -> 0 .. MaxRun]
  /\ at \in [Threads -> 0 .. Granules]
  /\ leaked \subseteq 0 .. (Granules - 1)

(***************************************************************************)
(* The granules below the cursor are partitioned: each one is in exactly   *)
(* one free run, one sheet in use, one operation in progress, or lost to a *)
(* failed mmap or a full free-run array.  Splitting, swap-removal and the  *)
(* races for the cursor never hand one granule out twice or forget one.    *)
(***************************************************************************)
Spans ==
  {<<"run", i>> : i \in DOMAIN runs} \cup {<<"sheet", s>> : s \in sheets}
  \cup {<<"busy", t>> : t \in {u \in Threads : Busy(u)}} \cup {<<"leaked", 0>>}

SpanOf(x) ==
  CASE x[1] = "run" -> Span(runs[x[2]].off, runs[x[2]].len)
    [] x[1] = "sheet" -> Span(x[2].off, x[2].len)
    [] x[1] = "busy" -> Span(at[x[2]], want[x[2]])
    [] x[1] = "leaked" -> leaked

GranulesPartitioned ==
  /\ \A x, y \in Spans : x # y => SpanOf(x) \cap SpanOf(y) = {}
  /\ UNION {SpanOf(x) : x \in Spans} = 0 .. (offset - 1)

(***************************************************************************)
(* __owner_of finds the owning arena of every granule of a sheet in use,   *)
(* and an entry for a granule that is not in use is null or left by the    *)
(* very operation that is registering or unregistering it.                 *)
(***************************************************************************)
OwnerTableExact ==
  \A g \in 0 .. (Granules - 1) :
    \/ \E s \in sheets : g \in Span(s.off, s.len) /\ table[g] = s.owner
    \/ /\ \A s \in sheets : g \notin Span(s.off, s.len)
       /\ table[g] # None => /\ pc[table[g]] \in {"register", "unregister"}
                             /\ g \in Span(at[table[g]], want[table[g]])

\* A sheet in use stays mapped read-write: no late unmap of a former tenant,
\* whose run was already listed, hits it.
SheetsMapped ==
  \A s \in sheets : \A g \in Span(s.off, s.len) : page[g] = "rw"

\* Carving hands out each granule once, to a sheet that stays mapped.
CarvesSound == TypeOK /\ GranulesPartitioned /\ SheetsMapped

\* Threads racing for the first carve map one reservation between them, and
\* __va_base never changes once it is published.
ReservedOnce == [][base # 0 => base' = base]_base

(***************************************************************************)
(* With a slot per granule (64-bit builds) a released run always finds     *)
(* room in the free-run array, because the listed runs and the one being   *)
(* released are disjoint: __va_release never drops one.                    *)
(***************************************************************************)
NothingDropped ==
  [][\A t \in Threads : FreeCap >= Granules /\ pc[t] = "giveback" /\ pc'[t] = "idle"
       => leaked' = leaked]_vars

\* No step loses address space: neither the reservation to a racing one nor a
\* released run to a full array.
NothingLost == ReservedOnce /\ NothingDropped
=============================================================================
