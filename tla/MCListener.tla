----------------------------- MODULE MCListener -----------------------------
(* Instances of Listener for TLC. *)
EXTENDS Listener

CONSTANTS d1, d2
=============================================================================
