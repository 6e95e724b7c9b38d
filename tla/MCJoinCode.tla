---------------------------- MODULE MCJoinCode ----------------------------
(* Instances of JoinCode for TLC. *)
EXTENDS JoinCode

CONSTANTS t1, t2

\* Nothing, which deletes; a character; a few pasted together.
ShortInserts == {<<>>, <<0>>, <<1>>, <<Other>>, <<1, Blank>>, <<0, Other, 1>>,
                 <<1, 1, 0, 1>>}
===========================================================================
