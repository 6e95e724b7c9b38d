------------------------------ MODULE Delivery ------------------------------
(***************************************************************************)
(* What Firestore promises about the writes of each user of a phone: they  *)
(* wait in an outbox that survives the process, reach the server in order  *)
(* and as that user, and leave the outbox, oldest first, when the phone    *)
(* hears what became of them.                                              *)
(*                                                                         *)
(* The promise is at least once: whenever the phone has not heard of       *)
(* writes that were applied, it may begin again with the oldest one left,  *)
(* and the server applies all of them a second time.                       *)
(***************************************************************************)
EXTENDS Sequences, Naturals

CONSTANTS
    Users,      \* whose writes they are
    Writes      \* the writes

VARIABLES
    outbox,     \* per user: the writes not yet done with
    applied,    \* what the server has done, in order
    ahead       \* per user: how many of the outbox the server has applied and
                \* is about to report

vars == <<outbox, applied, ahead>>

Init ==
    /\ outbox = [u \in Users |-> <<>>]
    /\ applied = <<>>
    /\ ahead = [u \in Users |-> 0]

\* A write that nobody has made before is put in its user's outbox.
Put(u, w) ==
    /\ \A v \in Users : \A i \in DOMAIN outbox[v] : outbox[v][i] # w
    /\ \A i \in DOMAIN applied : applied[i].write # w
    /\ outbox' = [outbox EXCEPT ![u] = Append(@, w)]
    /\ UNCHANGED <<applied, ahead>>

\* The server applies the next write of the outbox.
Apply(u) ==
    /\ ahead[u] < Len(outbox[u])
    /\ applied' = Append(applied,
                         [write |-> outbox[u][ahead[u] + 1], by |-> u])
    /\ ahead' = [ahead EXCEPT ![u] = @ + 1]
    /\ UNCHANGED outbox

\* The connection is lost and what the server had to report with it.
Forget(u) ==
    /\ ahead' = [ahead EXCEPT ![u] = 0]
    /\ UNCHANGED <<outbox, applied>>

\* The phone hears that its oldest write was applied.
Confirm(u) ==
    /\ ahead[u] > 0
    /\ outbox' = [outbox EXCEPT ![u] = Tail(@)]
    /\ ahead' = [ahead EXCEPT ![u] = @ - 1]
    /\ UNCHANGED applied

\* The phone hears that the server will not have its oldest write.
Refuse(u) ==
    /\ ahead[u] = 0 /\ outbox[u] # <<>>
    /\ outbox' = [outbox EXCEPT ![u] = Tail(@)]
    /\ UNCHANGED <<applied, ahead>>

Next ==
    \E u \in Users :
        \/ \E w \in Writes : Put(u, w)
        \/ Apply(u) \/ Forget(u) \/ Confirm(u) \/ Refuse(u)

Spec == Init /\ [][Next]_vars
=============================================================================
