----------------------------- MODULE MCEvents -----------------------------
(* Instances of Events for TLC. *)
EXTENDS Events

CONSTANTS a, b

\* Event 1 is there at the start.
OneEvent == [i \in Items |-> IF i = 1 THEN 2 ELSE NoDoc]
===========================================================================
