--------------------------- MODULE MCTeamScreen ---------------------------
(* Instances of TeamScreen for TLC. *)
EXTENDS TeamScreen

CONSTANTS ours, other

UpTo2 == {<<>>, <<"x">>, <<"y">>, <<"x", "y">>}
UpTo1 == {<<>>, <<"x">>}
===========================================================================
