---------------------------- MODULE DoctorLedger ----------------------------
(***************************************************************************)
(* The doctor's ledger (doctor.hpp): an open-addressed table with one      *)
(* record per user pointer ever seen, guarded by a spin lock, and the      *)
(* order in which arenas and threads report to it.  Every report is one    *)
(* step under the lock; the arena operation it reports is another step of  *)
(* the same thread, before or after it.                                    *)
(*                                                                         *)
(* A key is the address of a block in a sheet that stays with its arena.   *)
(* A record keeps its key and state; sizes, threads, backtraces, canaries  *)
(* and the event ring are left out.  Callers free a block once, or again   *)
(* after it went back, which a rescue build drops.  Push is an allocation  *)
(* of a block that nobody holds: a second launder of an active block,      *)
(* which reports a live record once more, is left out.                     *)
(***************************************************************************)
EXTENDS Integers, FiniteSetsExt

CONSTANTS
  Keys,         \* user pointers
  Threads,
  Owner,        \* Owner[k]: the thread whose arena has the block
  Hash,         \* __hash
  InitCap,      \* first size of the table, a power of two
  MaxRecords,   \* __default_doctor_max_records
  MayFail,      \* mmap may fail
  Rescue,       \* __default_doctor_rescue
  MaxBad,       \* bound: records in quarantine when another goes there
  MaxDrift,     \* bound: how far n_freed may run ahead, each dropped duplicate adds one
  NoKey

ASSUME LedgerAssumption == /\ Owner \in [Keys -> Threads] /\ Hash \in [Keys -> Nat] /\ NoKey \notin Keys
                           /\ InitCap \in Nat /\ InitCap >= 4 /\ MaxRecords \in Nat
                           /\ MayFail \in BOOLEAN /\ Rescue \in BOOLEAN /\ MaxBad \in Nat /\ MaxDrift \in Nat

VARIABLES
  dr,           \* __dr: [tab, cap, occupied, n_live, n_freed, failed]
  status,       \* where each block is on its way through the arena
  busy          \* busy[t]: the call thread t is in, [key, to], or Idle

drVars == <<dr, status, busy>>

Idle == [key |-> NoKey, to |-> "empty"]
Empty == [key |-> NoKey, state |-> "empty"]
RecStates == {"empty", "live", "freed", "tombstoned", "quarantined"}

-----------------------------------------------------------------------------
(* The table *)

\* Distance from its home slot at which the probe for k stops: at the first
\* slot that is empty or has the key.
Slot(d, k, j) == (Hash[k] + j) % d.cap
Stops(d, k) == {j \in 0 .. d.cap - 1 : d.tab[Slot(d, k, j)].key = k \/ d.tab[Slot(d, k, j)].state = "empty"}
SlotFor(d, k) == Slot(d, k, Min(Stops(d, k)))
StateOf(d, k) ==                                        \* __find
  IF d.cap = 0 \/ Stops(d, k) = {} THEN "empty" ELSE d.tab[SlotFor(d, k)].state

Blank(d, cap) == [d EXCEPT !.tab = [i \in 0 .. cap - 1 |-> Empty], !.cap = cap, !.occupied = 0]
Insert(d, r) == [d EXCEPT !.tab[SlotFor(d, r.key)] = r, !.occupied = @ + 1]

\* The records of the old table that are kept, in slot order, into a new one.
Refill(d, cap, kept) ==
  LET fill[n \in 0 .. d.cap] ==
        IF n = 0 THEN Blank(d, cap)
        ELSE IF d.tab[n - 1].state \in kept THEN Insert(fill[n - 1], d.tab[n - 1])
        ELSE fill[n - 1]
  IN fill[d.cap]

\* Every mapping may fail, which leaves the table as it is.
Mapped(d, new) == {new} \cup (IF MayFail THEN {[d EXCEPT !.failed = TRUE]} ELSE {})

Rehash(d, cap) == Mapped(d, Refill(d, cap, RecStates \ {"empty"}))

\* Mutant of Evicted: records are dropped where they are.
EvictedInPlace(d) ==
  [d EXCEPT !.tab = [i \in DOMAIN d.tab |-> IF d.tab[i].state = "live" THEN d.tab[i] ELSE Empty],
            !.occupied = d.n_live, !.n_freed = 0]

\* __drop_freed: only the live records are kept, reinserted.
Evicted(d) == [Refill(d, d.cap, {"live"}) EXCEPT !.n_freed = 0]

Loaded(d) == d.occupied * 10 >= d.cap * 7

\* __grow_if_needed: past the cap non-live records go first; if that does not
\* help, the table grows all the same.
Grow(d) ==
  IF d.cap = 0 \/ ~Loaded(d) THEN {d}
  ELSE LET dropped == IF 2 * d.cap > MaxRecords /\ d.occupied > d.n_live THEN Mapped(d, Evicted(d)) ELSE {d}
       IN UNION {IF Loaded(e) THEN Rehash(e, 2 * e.cap) ELSE {e} : e \in dropped}

Ensure(d) == IF d.cap = 0 THEN Rehash(d, InitCap) ELSE {d}

-----------------------------------------------------------------------------
(* Reports *)

\* Mutant of DrEnter: a record that is used again is not counted as live.
EnterAgain(d, k) ==
  IF d.cap = 0 \/ Stops(d, k) = {} THEN d
  ELSE LET was == d.tab[SlotFor(d, k)].state
       IN [d EXCEPT !.tab[SlotFor(d, k)] = [key |-> k, state |-> "live"],
                    !.occupied = IF was = "empty" THEN @ + 1 ELSE @,
                    !.n_freed = IF was \in {"freed", "tombstoned"} /\ @ > 0 THEN @ - 1 ELSE @,
                    !.n_live = IF was = "empty" THEN @ + 1 ELSE @]

\* record_alloc after its table is there; a full table loses the record.
DrEnter(d, k) ==
  IF d.cap = 0 \/ Stops(d, k) = {} THEN d
  ELSE LET was == d.tab[SlotFor(d, k)].state
       IN [d EXCEPT !.tab[SlotFor(d, k)] = [key |-> k, state |-> "live"],
                    !.occupied = IF was = "empty" THEN @ + 1 ELSE @,
                    !.n_freed = IF was \in {"freed", "tombstoned"} /\ @ > 0 THEN @ - 1 ELSE @,
                    !.n_live = IF was # "live" THEN @ + 1 ELSE @]

record_alloc(d, k) == {DrEnter(g, k) : g \in UNION {Grow(e) : e \in Ensure(d)}}

\* __mark_free_locked: only a live record changes.
MarkFree(d, k, to) ==
  IF StateOf(d, k) # "live" THEN d
  ELSE [d EXCEPT !.tab[SlotFor(d, k)].state = to,
                 !.n_live = IF @ > 0 THEN @ - 1 ELSE @, !.n_freed = @ + 1]

\* __quarantine_locked: whatever record there is.
Quarantine(d, k) ==
  IF StateOf(d, k) = "empty" THEN d
  ELSE [d EXCEPT !.tab[SlotFor(d, k)].state = "quarantined",
                 !.n_live = IF StateOf(d, k) = "live" /\ @ > 0 THEN @ - 1 ELSE @]

Records == {i \in DOMAIN dr.tab : dr.tab[i].state # "empty"}
Having(states) == {i \in Records : dr.tab[i].state \in states}

-----------------------------------------------------------------------------
(* Threads *)

DrInit ==
  /\ dr = [tab |-> <<>>, cap |-> 0, occupied |-> 0, n_live |-> 0, n_freed |-> 0, failed |-> FALSE]
  /\ status = [k \in Keys |-> "avail"]
  /\ busy = [t \in Threads |-> Idle]

\* Thread t, in no call, moves block k and is then in a call about it.
Begin(t, k, from, new, to) ==
  /\ busy[t] = Idle /\ status[k] \in from
  /\ status' = [status EXCEPT ![k] = new]
  /\ busy' = [busy EXCEPT ![t] = [key |-> k, to |-> to]]

End(t, from, new) ==
  /\ busy[t] # Idle /\ status[busy[t].key] = from
  /\ status' = [status EXCEPT ![busy[t].key] = new]
  /\ busy' = [busy EXCEPT ![t] = Idle]

\* push and launder: the arena hands out a block, then reports it.
Push(k) == Begin(Owner[k], k, {"avail"}, "taken", "live") /\ UNCHANGED dr
RecordAlloc(t) == End(t, "taken", "held") /\ dr' \in record_alloc(dr, busy[t].key)

\* pop and ts_pop by the owner: the block goes back, then it is reported.
DrPop(k, to) == Begin(Owner[k], k, {"held", "spoiled"}, "popped", to) /\ UNCHANGED dr
RecordFree(t) == End(t, "popped", "avail") /\ dr' = MarkFree(dr, busy[t].key, busy[t].to)

\* Mutant of RouteRemote: the free is not reported at all.
RouteRemoteSilent(t, k, to) == t # Owner[k] /\ Begin(t, k, {"held", "spoiled"}, "routed", to) /\ UNCHANGED dr

\* __route_dealloc and __route_retire by another thread: reported first,
\* then pushed to the owner.
RouteRemote(t, k, to) ==
  /\ t # Owner[k]
  /\ Begin(t, k, {"held", "spoiled"}, "routed", to)
  /\ dr' = MarkFree(dr, k, to)

RemotePush(t) ==
  /\ End(t, "routed", IF busy[t].to = "tombstoned" THEN "retired" ELSE "queued")
  /\ UNCHANGED dr

\* __remote_release by the owner; only a tombstone is reported again.
Drain(k) ==
  /\ busy[Owner[k]] = Idle /\ status[k] \in {"queued", "retired"}
  /\ status' = [status EXCEPT ![k] = "avail"]
  /\ dr' = IF status[k] = "retired" THEN MarkFree(dr, k, "tombstoned") ELSE dr
  /\ UNCHANGED busy

(***************************************************************************)
(* Rescue builds drop a bad call and put the pointer into quarantine:      *)
(* on_double_free in the owner, when the block is not in use; on_bad_free  *)
(* in the caller, for a free of length zero, which leaves the block        *)
(* allocated for ever, and for a realloc that found no memory, whose       *)
(* caller keeps the block ("spoiled").                                     *)
(***************************************************************************)
DropDuplicate(k) ==
  /\ dr.n_freed < Cardinality(Having({"freed", "tombstoned"})) + MaxDrift
  /\ Cardinality(Having({"quarantined"})) < MaxBad
  /\ Rescue /\ busy[Owner[k]] = Idle /\ status[k] = "avail"
  /\ dr' = Quarantine(dr, k)
  /\ UNCHANGED <<status, busy>>

BadCall(k, new) ==
  /\ Cardinality(Having({"quarantined"})) < MaxBad
  /\ Rescue /\ status[k] \in {"held", "spoiled"}
  /\ dr' = Quarantine(dr, k)
  /\ status' = [status EXCEPT ![k] = new]
  /\ UNCHANGED busy

DropBadFree(k) == BadCall(k, "leaked")
ReallocFails(k) == BadCall(k, "spoiled")

DrNext ==
  \/ \E k \in Keys : Push(k) \/ Drain(k) \/ DropDuplicate(k) \/ DropBadFree(k) \/ ReallocFails(k)
  \/ \E t \in Threads : RecordAlloc(t) \/ RecordFree(t) \/ RemotePush(t)
  \/ \E k \in Keys, to \in {"freed", "tombstoned"} :
       DrPop(k, to) \/ \E t \in Threads : RouteRemote(t, k, to)

DrSpec == DrInit /\ [][DrNext]_drVars

-----------------------------------------------------------------------------
(* Properties *)

DrTypeOK ==
  /\ dr.cap \in Nat /\ dr.occupied \in Nat /\ dr.n_live \in Nat /\ dr.n_freed \in Nat
  /\ dr.failed \in BOOLEAN
  /\ dr.cap > 0 => dr.tab \in [0 .. dr.cap - 1 -> [key : Keys \cup {NoKey}, state : RecStates]]
  /\ status \in [Keys -> {"avail", "taken", "held", "popped", "routed", "queued", "retired", "leaked", "spoiled"}]
  /\ busy \in [Threads -> [key : Keys \cup {NoKey}, to : RecStates]]

\* Every record is found by a probe for its key, after any sequence of
\* growths and evictions: no empty slot cuts a probe short, and no key has
\* two records.
ProbesReach ==
  /\ DrTypeOK
  /\ \A i \in Records : dr.tab[i].key \in Keys /\ SlotFor(dr, dr.tab[i].key) = i

\* The counters that trigger growth and eviction count what is in the table;
\* n_freed, which stats prints, may only be too high, and only in a rescue build,
\* whose handlers quarantine freed records.
CountersExact ==
  /\ dr.occupied = Cardinality(Records)
  /\ dr.n_live = Cardinality(Having({"live"}))
  /\ dr.n_freed >= Cardinality(Having({"freed", "tombstoned"}))
  /\ ~Rescue => dr.n_freed = Cardinality(Having({"freed", "tombstoned"}))

\* leaks() and is_tracked() tell the truth across threads: a block that a
\* caller holds is recorded as live, unless a table could not be mapped or a
\* rescued realloc took the record away, and
\* one that went back or is on its way back is not, except while its owner is
\* between giving it back and reporting it.
LedgerTruth ==
  \A k \in Keys :
    /\ status[k] = "held" => StateOf(dr, k) = "live" \/ dr.failed
    /\ StateOf(dr, k) = "live" => status[k] \in {"held", "popped"}
=============================================================================
