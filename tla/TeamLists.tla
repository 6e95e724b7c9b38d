---------------------------- MODULE TeamLists ----------------------------
(***************************************************************************)
(* The players, contacts and announcements of a team.                      *)
(*                                                                         *)
(* Each is a collection of documents under the team, a listener that       *)
(* copies the collection to a cached array, an array that the taps edit    *)
(* too, and a table that shows it.  Listeners are never removed, they all  *)
(* fill the same array, and no table is reloaded when they do.             *)
(***************************************************************************)
EXTENDS Firestore

CONSTANTS
    Kinds,      \* which of the three lists the app shows
    Clients,    \* the users whose app runs
    Admins,     \* those who may edit
    Mine,       \* the teams of each client
    Teams,      \* team ids
    Items,      \* document ids, in the order of the server
    Values,     \* what a document says
    Start,      \* the collections at the start
    MaxEdits,   \* bound on the taps that edit, for each kind of list
    MaxMail     \* a listener takes no snapshot of what others did while so
                \* many wait for its client's main queue

Docs == [Items -> Values \cup {NoDoc}]
Row == [id : Items, val : Values]

ASSUME KindsAssumption ==
    Kinds \subseteq {"players", "contacts", "announcements"}
ASSUME ListClientsAssumption == /\ Admins \subseteq Clients
                                /\ Mine \in [Clients -> SUBSET Teams]
ASSUME ItemsAssumption == Items \subseteq Nat /\ IsFiniteSet(Items)
ASSUME ListNoDocAssumption == NoDoc \notin Values /\ NoDoc \notin Docs
ASSUME ListBoundsAssumption == MaxEdits \in [Kinds -> Nat] /\ MaxMail \in Nat
ASSUME ListStartAssumption == Start \in [Teams -> Docs]

VARIABLES
    kind,       \* which list this is: chosen at the start
    server,     \* the collection of each team
    queue,      \* per client: writes not yet sent
    listening,  \* per client: teams with a listener
    told,       \* per client and team: the last snapshot taken
    mailbox,    \* per client: snapshots taken, their handlers still to run
    cache,      \* PlayerController.players (contacts, announcements)
    open,       \* the id of EventController.team
    shown,      \* whether the table of the list is on the screen
    rows,       \* the ids its rows were drawn with
    edits       \* how many editing taps there have been

vars == <<kind, server, queue, listening, told, mailbox, cache, open, shown,
          rows, edits>>

\* Types of all the state.
TypeOK ==
    /\ kind \in Kinds
    /\ server \in [Teams -> Docs]
    /\ queue \in [Clients -> Seq([col : Teams, id : Items,
                                  doc : Values \cup {NoDoc}])]
    /\ listening \in [Clients -> SUBSET Teams]
    /\ told \in [Clients -> [Teams -> Docs \cup {NoDoc}]]
    /\ mailbox \in [Clients -> Seq([team : Teams, docs : Docs])]
    /\ cache \in [Clients -> Seq(Row)]
    /\ open \in [Clients -> Teams \cup {NoDoc}]
    /\ shown \in [Clients -> BOOLEAN]
    /\ rows \in [Clients -> Seq(Items)]
    /\ edits \in 0..MaxEdits[kind]

-----------------------------------------------------------------------------
(* Helpers *)

\* Team t's collection as a client with write queue q sees it.
View(q, t) == [i \in Items |-> LocalView(server[t], q, t, i)]

Ids(list) == {row.id : row \in Range(list)}
Picture(list) == [k \in DOMAIN list |-> list[k].id]

\* The array a handler makes of a snapshot: its documents in id order.
Listings(docs) ==
    LET P == {i \in Items : docs[i] # NoDoc}
    IN  {[k \in DOMAIN s |-> [id |-> s[k], val |-> docs[s[k]]]] :
            s \in {s \in [1..Cardinality(P) -> P] :
                      /\ Range(s) = P
                      /\ \A j, k \in DOMAIN s : j < k => s[j] < s[k]}}

\* A snapshot of team t is taken and its handler queued.
Take(c, t, docs) ==
    /\ mailbox' = [mailbox EXCEPT
                      ![c] = Append(@, [team |-> t, docs |-> docs])]
    /\ told' = [told EXCEPT ![c][t] = docs]

\* Item i of the open team is set, or deleted (NoDoc).  The client's own
\* listener sees it at once.
Store(c, i, val) ==
    LET q == Append(queue[c], Write(open[c], i, val))
    IN  /\ queue' = [queue EXCEPT ![c] = q]
        /\ IF told[c][open[c]] = View(q, open[c])
           THEN UNCHANGED <<told, mailbox>>
           ELSE Take(c, open[c], View(q, open[c]))

CountEdit == edits < MaxEdits[kind] /\ edits' = edits + 1

\* The app is launched again after a trap: nothing but the writes is kept.
Relaunch(c) ==
    /\ listening' = [listening EXCEPT ![c] = {}]
    /\ told' = [told EXCEPT ![c] = [t \in Teams |-> NoDoc]]
    /\ mailbox' = [mailbox EXCEPT ![c] = <<>>]
    /\ cache' = [cache EXCEPT ![c] = <<>>]
    /\ open' = [open EXCEPT ![c] = NoDoc]
    /\ shown' = [shown EXCEPT ![c] = FALSE]
    /\ rows' = [rows EXCEPT ![c] = <<>>]

Init ==
    /\ kind \in Kinds
    /\ server = Start
    /\ queue = [c \in Clients |-> <<>>]
    /\ listening = [c \in Clients |-> {}]
    /\ told = [c \in Clients |-> [t \in Teams |-> NoDoc]]
    /\ mailbox = [c \in Clients |-> <<>>]
    /\ cache = [c \in Clients |-> <<>>]
    /\ open = [c \in Clients |-> NoDoc]
    /\ shown = [c \in Clients |-> FALSE]
    /\ rows = [c \in Clients |-> <<>>]
    /\ edits = 0

-----------------------------------------------------------------------------
(* Screens *)

\* A team is opened, perhaps again: one more listener, whose first snapshot is
\* to come.
OpenTeam(c, t) ==
    /\ ~shown[c] /\ t \in Mine[c]
    /\ open' = [open EXCEPT ![c] = t]
    /\ listening' = [listening EXCEPT ![c] = @ \cup {t}]
    /\ told' = [told EXCEPT ![c][t] = NoDoc]
    /\ UNCHANGED <<kind, server, queue, mailbox, cache, shown, rows,
                   edits>>

\* The list is opened: the table loads its rows.
ShowList(c) ==
    /\ ~shown[c] /\ open[c] # NoDoc
    /\ shown' = [shown EXCEPT ![c] = TRUE]
    /\ rows' = [rows EXCEPT ![c] = Picture(cache[c])]
    /\ UNCHANGED <<kind, server, queue, listening, told, mailbox, cache, open,
                   edits>>

LeaveList(c) ==
    /\ shown[c]
    /\ shown' = [shown EXCEPT ![c] = FALSE]
    /\ rows' = [rows EXCEPT ![c] = <<>>]
    /\ UNCHANGED <<kind, server, queue, listening, told, mailbox, cache, open,
                   edits>>

\* A row scrolls into view and is drawn from the array, by its index.
DrawRow(c, k) ==
    /\ shown[c] /\ k \in DOMAIN rows[c]
    /\ IF k \in DOMAIN cache[c]
       THEN /\ rows' = [rows EXCEPT ![c][k] = cache[c][k].id]
            /\ UNCHANGED <<listening, told, mailbox, cache, open, shown>>
       ELSE Relaunch(c)
    /\ UNCHANGED <<kind, server, queue, edits>>

-----------------------------------------------------------------------------
(* Edits *)

\* An id nobody has drawn yet.
Fresh(i) ==
    /\ \A t \in Teams : server[t][i] = NoDoc
    /\ \A c \in Clients, t \in Teams : Pending(queue[c], t, i) = {}

Create(c, i, v) ==
    /\ shown[c] /\ c \in Admins /\ Fresh(i)
    /\ CountEdit
    /\ Store(c, i, v)
    /\ cache' = [cache EXCEPT ![c] = Append(@, [id |-> i, val |-> v])]
    /\ rows' = [rows EXCEPT ![c] = Picture(cache'[c])]
    /\ UNCHANGED <<kind, server, listening, open, shown>>

\* updateAnnouncement writes and leaves the array to the listener.
UpdateAnnouncement(c, i, v) ==
    /\ kind = "announcements"
    /\ Store(c, i, v)
    /\ UNCHANGED cache

\* updatePlayer and updateContact look for the document in the array first,
\* and do nothing if it is gone.
UpdateListed(c, i, v) ==
    /\ kind # "announcements"
    /\ IF i \in Ids(cache[c])
       THEN /\ Store(c, i, v)
            /\ cache' = [cache EXCEPT ![c] =
                  [j \in DOMAIN @ |-> IF @[j].id = i THEN [id |-> i, val |-> v]
                                      ELSE @[j]]]
       ELSE UNCHANGED <<queue, told, mailbox, cache>>

\* Row k is saved with new text: the document its cell was drawn with.
Update(c, k, v) ==
    /\ shown[c] /\ c \in Admins /\ k \in DOMAIN rows[c]
    /\ CountEdit
    /\ UpdateAnnouncement(c, rows[c][k], v) \/ UpdateListed(c, rows[c][k], v)
    /\ UNCHANGED <<kind, server, listening, open, shown, rows>>

DeletePlayer(c, i) == kind = "players" /\ Store(c, i, NoDoc)
DeleteAnnouncement(c, i) == kind = "announcements" /\ Store(c, i, NoDoc)
\* deleteContact looks for the contact in the array it has just been taken
\* out of, and returns.
DeleteContact(c, i) == kind = "contacts" /\ UNCHANGED <<queue, told, mailbox>>

\* A slip in Delete: the element is cleared and stays in the array.
DeleteLeavingHole(c, k) ==
    /\ shown[c] /\ c \in Admins /\ k \in DOMAIN rows[c]
    /\ Len(cache[c]) = Len(rows[c])
    /\ CountEdit
    /\ Store(c, cache[c][k].id, NoDoc)
    /\ cache' = [cache EXCEPT ![c][k] = NoDoc]
    /\ UNCHANGED <<kind, server, listening, open, shown, rows>>

\* Row k is deleted: what the array has at its index goes.
Delete(c, k) ==
    /\ shown[c] /\ c \in Admins /\ k \in DOMAIN rows[c]
    /\ Len(cache[c]) = Len(rows[c])
    /\ CountEdit
    /\ LET i == cache[c][k].id
       IN  \/ DeletePlayer(c, i) \/ DeleteAnnouncement(c, i)
           \/ DeleteContact(c, i)
    /\ cache' = [cache EXCEPT ![c] = RemoveAt(@, k)]
    /\ rows' = [rows EXCEPT ![c] = RemoveAt(@, k)]
    /\ UNCHANGED <<kind, server, listening, open, shown>>

\* The same when the table has not been told of the array's new length, or on
\* the add row of the contacts (k = 0), which can be swiped as well: the index
\* or the row count traps.  A player's delete has been written by then.
DeleteStale(c, k) ==
    /\ shown[c] /\ c \in Admins
    /\ \/ k \in DOMAIN rows[c] /\ Len(cache[c]) # Len(rows[c])
       \/ k = 0 /\ kind = "contacts"
    /\ CountEdit
    /\ queue' = IF kind = "players" /\ k \in DOMAIN cache[c]
                THEN [queue EXCEPT ![c] =
                         Append(@, Write(open[c], cache[c][k].id, NoDoc))]
                ELSE queue
    /\ Relaunch(c)
    /\ UNCHANGED <<kind, server>>

-----------------------------------------------------------------------------
(* Firestore *)

\* A slip in Notify: the collection is asked for once, not listened to.
NotifyOnce(c, t) ==
    /\ t \in listening[c] /\ told[c][t] = NoDoc
    /\ Len(mailbox[c]) < MaxMail
    /\ Take(c, t, View(queue[c], t))
    /\ UNCHANGED <<kind, server, queue, listening, cache, open, shown, rows,
                   edits>>

\* A listener finds the collection changed by others.
Notify(c, t) ==
    /\ t \in listening[c] /\ told[c][t] # View(queue[c], t)
    /\ Len(mailbox[c]) < MaxMail
    /\ Take(c, t, View(queue[c], t))
    /\ UNCHANGED <<kind, server, queue, listening, cache, open, shown, rows,
                   edits>>

\* A slip in Deliver: the array is not emptied first.
DeliverAppending(c) ==
    /\ mailbox[c] # <<>>
    /\ Len(cache[c]) <= Cardinality(Items)
    /\ \E list \in Listings(Head(mailbox[c]).docs) :
          cache' = [cache EXCEPT ![c] = @ \o list]
    /\ mailbox' = [mailbox EXCEPT ![c] = Tail(@)]
    /\ UNCHANGED <<kind, server, queue, listening, told, open, shown, rows,
                   edits>>

\* The handler of the oldest snapshot runs: the array is replaced, whichever
\* team the snapshot is of.
Deliver(c) ==
    /\ mailbox[c] # <<>>
    /\ \E list \in Listings(Head(mailbox[c]).docs) :
          cache' = [cache EXCEPT ![c] = list]
    /\ mailbox' = [mailbox EXCEPT ![c] = Tail(@)]
    /\ UNCHANGED <<kind, server, queue, listening, told, open, shown, rows,
                   edits>>

\* The oldest pending write of a client reaches the server.
Flush(c) ==
    /\ queue[c] # <<>>
    /\ server' = [t \in Teams |-> Commit(server[t], t, Head(queue[c]))]
    /\ queue' = [queue EXCEPT ![c] = Tail(@)]
    /\ UNCHANGED <<kind, listening, told, mailbox, cache, open, shown, rows,
                   edits>>

Next ==
    \E c \in Clients :
        \/ \E t \in Teams : OpenTeam(c, t) \/ Notify(c, t)
        \/ ShowList(c) \/ LeaveList(c)
        \/ \E i \in Items, v \in Values : Create(c, i, v)
        \/ \E k \in DOMAIN rows[c] :
              \/ DrawRow(c, k) \/ Delete(c, k)
              \/ \E v \in Values : Update(c, k, v)
        \/ \E k \in 0..Len(rows[c]) : DeleteStale(c, k)
        \/ Deliver(c)
        \/ Flush(c)

Spec == Init /\ [][Next]_vars

\* A connected phone sends its writes, hears of changes and runs its main
\* queue.
Fairness == \A c \in Clients :
    /\ WF_vars(Flush(c))
    /\ WF_vars(Deliver(c))
    /\ \A t \in Teams : WF_vars(Notify(c, t))
FairSpec == Spec /\ Fairness

-----------------------------------------------------------------------------
(* Properties *)

\* The documents a list shows.
Content(list) == {<<row.id, row.val>> : row \in Range(list)}
ContentOf(docs) == {<<i, docs[i]>> : i \in {j \in Items : docs[j] # NoDoc}}

\* When a client that listens to one team has nothing to send and nothing to
\* hear, its array has exactly the documents of the server: its own edits of
\* the array, made before the writes are confirmed, and the snapshots that
\* overtake each other's edits leave nothing behind.
Converged ==
    \A c \in Clients, t \in Teams :
        /\ listening[c] = {t} /\ queue[c] = <<>> /\ mailbox[c] = <<>>
        /\ told[c][t] = server[t]
        => Content(cache[c]) = ContentOf(server[t])

\* What is on the server gets, all of it, into the array of everybody who
\* listens to that team only, whatever admins do to it.
Propagates ==
    \A c \in Clients, t \in Teams :
        listening[c] = {t}
        ~> (\/ \A i \in Items : server[t][i] # NoDoc => i \in Ids(cache[c])
            \/ listening[c] # {t})

\* Deleting a row gets rid of a document: the delete is on its way.
DeleteIsWritten ==
    [][\A c \in Clients : \A k \in DOMAIN rows[c] :
          Delete(c, k) => Len(queue'[c]) > Len(queue[c])]_vars
==========================================================================
