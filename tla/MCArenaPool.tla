---------------------------- MODULE MCArenaPool ----------------------------
(* Model-checking instances of ArenaPool: distinct and reused thread ids. *)
EXTENDS ArenaPool, TLC

CONSTANTS m, t1, t2, t3, t4, k0, k1, k2, k3

DistinctTids == (m :> k0) @@ (t1 :> k1) @@ (t2 :> k2) @@ (t3 :> k3)

\* t4 is started after t1 is gone and is given t1's id again.
ReusedTids == (t1 :> k1) @@ (t2 :> k2) @@ (t3 :> k3) @@ (t4 :> k1) @@ (m :> k0)
=============================================================================
