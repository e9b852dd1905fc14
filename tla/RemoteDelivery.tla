--------------------------- MODULE RemoteDelivery ---------------------------
(***************************************************************************)
(* What a thread that frees a block of another thread's arena may rely on: *)
(* the owner releases the block exactly once, the way the thread asked     *)
(* for, and hands it out again only afterwards.  How the free travels      *)
(* (ring, overflow list) does not exist at this level.                     *)
(***************************************************************************)
EXTENDS Naturals

CONSTANTS Threads, Blocks, Sizes, Tombstone, None

VARIABLES
  holder,    \* who has the block: a thread, or "flight", "arena", "retired"
  asked,     \* the size argument of the block's latest free
  got,       \* the size argument the owner released it with; None in flight
  answers    \* number of releases so far

vars == <<holder, asked, got, answers>>

Init ==
  /\ holder = [b \in Blocks |-> "arena"]
  /\ asked = [b \in Blocks |-> None]
  /\ got = [b \in Blocks |-> None]
  /\ answers = 0

Alloc(t, b) ==
  /\ holder[b] = "arena"
  /\ holder' = [holder EXCEPT ![b] = t]
  /\ UNCHANGED <<asked, got, answers>>

Free(t, b, sz) ==
  /\ holder[b] = t
  /\ holder' = [holder EXCEPT ![b] = "flight"]
  /\ asked' = [asked EXCEPT ![b] = sz]
  /\ got' = [got EXCEPT ![b] = None]
  /\ UNCHANGED answers

Release(b) ==
  /\ holder[b] = "flight"
  /\ holder' = [holder EXCEPT ![b] = IF asked[b] = Tombstone THEN "retired" ELSE "arena"]
  /\ got' = [got EXCEPT ![b] = asked[b]]
  /\ answers' = answers + 1
  /\ UNCHANGED asked

Next ==
  \E b \in Blocks :
    \/ Release(b)
    \/ \E t \in Threads : Alloc(t, b) \/ \E sz \in Sizes : Free(t, b, sz)

Spec == Init /\ [][Next]_vars
=============================================================================
