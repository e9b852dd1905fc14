----------------------------- MODULE BlockStore -----------------------------
(***************************************************************************)
(* What a sheet's allocator promises the arena, whatever its free lists    *)
(* look like.  A block that is newly handed out overlaps no block in use   *)
(* and no tombstoned one.  Only a lent block, one that launder returned,   *)
(* is handed out a second time.  tombstone does not end the lending, so a  *)
(* lent block may be handed out again although it is tombstoned; it does   *)
(* not count as in use then, and its release is refused.  A block that was *)
(* not lent is never held again once it is tombstoned (Kept).              *)
(*                                                                         *)
(* A block is [off, len] in allocation units.                              *)
(***************************************************************************)
EXTENDS Naturals

CONSTANT Blocks         \* blocks the sheet may be cut into

VARIABLES
  used,                 \* blocks handed out and not given back
  dead,                 \* tombstoned blocks
  held,                 \* offsets of the blocks that callers hold
  lent                  \* offsets of the blocks that launder hands out again

vars == <<used, dead, held, lent>>

Overlap(a, b) == a.off < b.off + b.len /\ b.off < a.off + a.len

Init == used = {} /\ dead = {} /\ held = {} /\ lent = {}

Take(b) ==
  /\ \A c \in used \cup dead : ~Overlap(b, c)
  /\ used' = used \cup {b} /\ held' = held \cup {b.off}
  /\ \/ lent' = lent
     \/ lent' = lent \cup {b.off}
  /\ UNCHANGED dead

\* The one way to a block that is in use, or tombstoned, already.
Again(u) ==
  /\ u \in lent
  /\ held' = held \cup {u}
  /\ UNCHANGED <<used, dead, lent>>

Give(b) ==
  /\ b.off \in held
  /\ used' = used \ {b} /\ held' = held \ {b.off} /\ lent' = lent \ {b.off}
  /\ UNCHANGED dead

Retire(b) ==
  /\ b.off \in held
  /\ used' = used \ {b} /\ dead' = dead \cup {b} /\ held' = held \ {b.off}
  /\ UNCHANGED lent

\* The release of a block that is not in use changes nothing.
Refuse(u) ==
  /\ \A b \in used : b.off # u
  /\ held' = held \ {u}
  /\ UNCHANGED <<used, dead, lent>>

\* reallocate takes the new block before it gives the old one back.
Move(b, c) ==
  /\ b.off \in held
  /\ \A x \in used \cup dead : ~Overlap(c, x)
  /\ used' = (used \ {b}) \cup {c}
  /\ held' = (held \ {b.off}) \cup {c.off} /\ lent' = lent \ {b.off}
  /\ UNCHANGED dead

Next ==
  \/ \E b \in Blocks : Take(b)
  \/ \E u \in lent : Again(u)
  \/ \E u \in held : Refuse(u)
  \/ \E b \in used : Give(b) \/ Retire(b) \/ \E c \in Blocks : Move(b, c)

Spec == Init /\ [][Next]_vars

\* Whoever holds a block that is not in use got it from launder: a tombstoned
\* block comes back on no other way.
Kept == \A u \in held : u \in lent \/ \E b \in used : b.off = u
=============================================================================
