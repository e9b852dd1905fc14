----------------------------- MODULE FreeOrder -----------------------------
(***************************************************************************)
(* What the remote-free ring promises its two callers, with no cells and   *)
(* no sequence numbers: frees enter one total order, and the owner is      *)
(* handed exactly that order, each free once, none invented.               *)
(***************************************************************************)
EXTENDS Naturals, Sequences

CONSTANT Items          \* what a freeing thread hands over

VARIABLES log,          \* every free accepted so far, in order
          delivered     \* every free handed to the owner so far, in order

vars == <<log, delivered>>

Init == log = <<>> /\ delivered = <<>>

\* A push that will return true is accepted.
Accept(it) ==
  /\ log' = Append(log, it)
  /\ UNCHANGED delivered

\* The owner receives the oldest free it has not received yet.
Deliver ==
  /\ Len(delivered) < Len(log)
  /\ delivered' = Append(delivered, log[Len(delivered) + 1])
  /\ UNCHANGED log

Next == Deliver \/ \E it \in Items : Accept(it)

Spec == Init /\ [][Next]_vars
=============================================================================
