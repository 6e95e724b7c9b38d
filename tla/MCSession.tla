---------------------------- MODULE MCSession ----------------------------
(* Instances of Session for TLC. *)
EXTENDS Session

CONSTANTS a, b, c

ThreeSlots == 1..3
===========================================================================
