------------------------------ MODULE RangeSet ------------------------------
(***************************************************************************)
(* What the registry of external ranges promises its callers: a set of     *)
(* ranges no two of which overlap, and truthful answers.  A range is       *)
(* [base, len]; 0 is the null address and Top the largest one.             *)
(***************************************************************************)
EXTENDS Naturals

CONSTANTS
  Top,          \* numeric_limits<uintptr_t>::max()
  Bases, Lens   \* what callers pass

VARIABLES
  ranges,       \* the registered ranges
  answer        \* what the last register or unregister returned

Valid(b, n) == b > 0 /\ n > 0 /\ b + n <= Top
Overlap(r, s) == r.base < s.base + s.len /\ s.base < r.base + r.len

Init == ranges = {} /\ answer = TRUE

Admissible(b, n) == Valid(b, n) /\ \A s \in ranges : ~Overlap([base |-> b, len |-> n], s)

Add(b, n) ==
  /\ Admissible(b, n)
  /\ ranges' = ranges \cup {[base |-> b, len |-> n]}
  /\ answer' = TRUE

\* Refused: the range is not admissible, or there is no memory to note it.
Refuse == UNCHANGED ranges /\ answer' = FALSE

Remove(b, n) ==
  /\ [base |-> b, len |-> n] \in ranges
  /\ ranges' = ranges \ {[base |-> b, len |-> n]}
  /\ answer' = TRUE

Next == Refuse \/ \E b \in Bases, n \in Lens : Add(b, n) \/ Remove(b, n)

Spec == Init /\ [][Next]_<<ranges, answer>>
=============================================================================
