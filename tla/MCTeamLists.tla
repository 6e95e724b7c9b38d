--------------------------- MODULE MCTeamLists ---------------------------
(* Instances of TeamLists for TLC. *)
EXTENDS TeamLists

CONSTANTS a, b, t1, v, w

\* Both users are in team t1 only.
OneTeamEach == [c \in Clients |-> {t1}]

\* Document 2 is there at the start, and 1 and 3 are still to be drawn.
StartTwo == [t \in Teams |-> [i \in Items |-> IF i = 2 THEN v ELSE NoDoc]]

\* Two editing taps on a list of players, one on announcements, which differ
\* from the players only in that an update leaves the array alone.
EditsOf == [k \in Kinds |-> IF k = "players" THEN 2 ELSE 1]
==========================================================================
