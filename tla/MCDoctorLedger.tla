--------------------------- MODULE MCDoctorLedger ---------------------------
(***************************************************************************)
(* Model-checking instance of DoctorLedger: two arenas, blocks freed in    *)
(* both directions; two keys collide and the third continues their run of  *)
(* slots, around the end of the table before and after it grows.           *)
(***************************************************************************)
EXTENDS DoctorLedger, TLC

CONSTANTS k1, k2, k3, t1, t2

MCKeys == {k1, k2, k3}
MCOwner == k1 :> t1 @@ k2 :> t1 @@ k3 :> t2
MCHash == k1 :> 6 @@ k2 :> 6 @@ k3 :> 7

\* Keys of one thread with one hash are interchangeable.
Symmetry == Permutations({k1, k2})
=============================================================================
