---------------------------- MODULE Firestore ----------------------------
(***************************************************************************)
(* What the app can see of Cloud Firestore.                                *)
(*                                                                         *)
(* Every setData goes to the client's own mutation queue, which survives   *)
(* the process and is sent to the server in order.  A query answers with   *)
(* the server's documents overlaid with the client's pending writes        *)
(* (latency compensation).  The app writes whole documents, so a pending   *)
(* write replaces the document it names.                                   *)
(***************************************************************************)
EXTENDS Lists

CONSTANT NoDoc          \* the value of a document that does not exist

\* A write of document id of collection col.
Write(col, id, doc) == [col |-> col, id |-> id, doc |-> doc]

\* The positions of the writes of queue q to one document.
Pending(q, col, id) == {i \in DOMAIN q : q[i].col = col /\ q[i].id = id}

\* The document as its client sees it: the newest pending write, else the
\* server's document.
LocalView(server, q, col, id) ==
    LET P == Pending(q, col, id)
    IN  IF P = {} THEN server[id] ELSE q[Latest(P)].doc

\* The server's collection col once it has applied write w.
Commit(server, col, w) ==
    IF w.col = col THEN [server EXCEPT ![w.id] = w.doc] ELSE server
==========================================================================
