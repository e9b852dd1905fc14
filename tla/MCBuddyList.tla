---------------------------- MODULE MCBuddyList ----------------------------
(* Model-checking instance of BuddyList. *)
EXTENDS BuddyList
=============================================================================
