-------------------------- MODULE MCMembership --------------------------
(* Instances of Membership for TLC. *)
EXTENDS Membership

CONSTANTS a, b, c, t1, t2, k1, k2

TwoSlots == 1..2
OneSlot == 1..1

\* Queries on the way to a write, and those for rows.  The one that adds a team
\* to the user's document is left out: without its answer a join is lost.
Failing == {"upload", "join", "block", "row"}

\* A team as it is once a has created it, with others in it.
Team1(admins, members) == [t \in Teams |->
    IF t = t1 THEN [admins |-> admins, members |-> members, blocked |-> <<>>,
                    code |-> k1]
              ELSE NoDoc]
UsersOf(U) == [u \in Users |-> [teams |-> IF u \in U THEN <<t1>> ELSE <<>>]]

\* Two admins, and c is a member.
FullTeam == {[teams |-> Team1(<<a, b>>, <<c>>), users |-> UsersOf({a, b, c})]}

\* Everybody has just signed up; or a has a team.
NewUsers == {[teams |-> [t \in Teams |-> NoDoc], users |-> UsersOf({})],
             [teams |-> Team1(<<a>>, <<>>), users |-> UsersOf({a})]}
=========================================================================
