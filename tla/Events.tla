------------------------------ MODULE Events ------------------------------
(***************************************************************************)
(* The events of a team.                                                   *)
(*                                                                         *)
(* An event is an object: the detail screen holds the one that was in the  *)
(* array when its row was tapped, and saving the form changes that object  *)
(* in place.  A snapshot makes new objects, so from then on the screen and *)
(* the array go their own ways.  Unlike the other lists this one is sorted *)
(* by date, and its table is reloaded, later, when a snapshot came in.     *)
(***************************************************************************)
EXTENDS Firestore

CONSTANTS
    Clients,    \* the users whose app runs
    Admins,     \* those who may create and edit events
    Items,      \* event ids
    Dates,      \* an event is its date here, all that the app compares
    Start,      \* the collection at the start
    MaxEdits,   \* bound on the events saved
    MaxMail     \* bound on the snapshots waiting for a client's main queue

Docs == [Items -> Dates \cup {NoDoc}]
Event == [id : Items, date : Dates]

ASSUME EventClientsAssumption == Admins \subseteq Clients
ASSUME DatesAssumption == Dates \subseteq Nat /\ IsFiniteSet(Items)
ASSUME EventNoDocAssumption == /\ NoDoc \notin Dates /\ NoDoc \notin Docs
                               /\ NoDoc \notin Event
ASSUME EventBoundsAssumption == MaxEdits \in Nat /\ MaxMail \in Nat
ASSUME EventStartAssumption == Start \in Docs

VARIABLES
    server,     \* the collection
    queue,      \* per client: writes not yet sent
    listening,  \* whether a client has a listener
    told,       \* per client: the last snapshot taken
    mailbox,    \* per client: snapshots taken; mine if the screen that
                \* listened still exists
    events,     \* EventController.events
    reload,     \* whether a reload of the table is waiting
    rows,       \* the events as the table shows them, while it is in front
    held,       \* EventDetailViewController.event
    aliased,    \* whether that object is still the one in the array
    screen,     \* which view controller is in front
    edits       \* how many events were saved

vars == <<server, queue, listening, told, mailbox, events, reload, rows, held,
          aliased, screen, edits>>

\* Types of all the state.
TypeOK ==
    /\ server \in Docs
    /\ queue \in [Clients -> Seq([col : {"events"}, id : Items, doc : Dates])]
    /\ listening \in [Clients -> BOOLEAN]
    /\ told \in [Clients -> Docs \cup {NoDoc}]
    /\ mailbox \in [Clients -> Seq([docs : Docs, mine : BOOLEAN])]
    /\ events \in [Clients -> Seq(Event)]
    /\ reload \in [Clients -> BOOLEAN]
    /\ rows \in [Clients -> Seq(Event)]
    /\ held \in [Clients -> Event \cup {NoDoc}]
    /\ aliased \in [Clients -> BOOLEAN]
    /\ screen \in [Clients -> {"home", "team", "detail"}]
    /\ \A c \in Clients : screen[c] # "team" => rows[c] = <<>>
    /\ edits \in 0..MaxEdits

-----------------------------------------------------------------------------
(* Helpers *)

\* The collection as a client with write queue q sees it.
View(q) == [i \in Items |-> LocalView(server, q, "events", i)]

IsSortedByDate(list) ==
    \A j, k \in DOMAIN list : j < k => list[j].date <= list[k].date

\* The events of a collection.
Listed(docs) ==
    {[id |-> i, date |-> docs[i]] : i \in {j \in Items : docs[j] # NoDoc}}

\* A slip in Sorted: the documents come in any order.
SortedNot(docs) ==
    LET E == Listed(docs)
    IN  {list \in [1..Cardinality(E) -> E] : Range(list) = E}

\* The arrays a snapshot can be turned into: sorted, equal dates in any order.
Sorted(docs) ==
    LET E == Listed(docs)
    IN  {list \in [1..Cardinality(E) -> E] :
             Range(list) = E /\ IsSortedByDate(list)}

\* A snapshot is put at the end of the snapshots waiting for c.
Take(c, docs) ==
    /\ Len(mailbox[c]) < MaxMail
    /\ mailbox' = [mailbox EXCEPT
          ![c] = Append(@, [docs |-> docs, mine |-> screen[c] # "home"])]
    /\ told' = [told EXCEPT ![c] = docs]

\* Event e is written; the client's own listener sees it at once.
Store(c, e) ==
    LET q == Append(queue[c], Write("events", e.id, e.date))
    IN  /\ queue' = [queue EXCEPT ![c] = q]
        /\ IF told[c] = View(q) THEN UNCHANGED <<told, mailbox>>
                                ELSE Take(c, View(q))

CountEdit == edits < MaxEdits /\ edits' = edits + 1

Init ==
    /\ server = Start
    /\ queue = [c \in Clients |-> <<>>]
    /\ listening = [c \in Clients |-> FALSE]
    /\ told = [c \in Clients |-> NoDoc]
    /\ mailbox = [c \in Clients |-> <<>>]
    /\ events = [c \in Clients |-> <<>>]
    /\ reload = [c \in Clients |-> FALSE]
    /\ rows = [c \in Clients |-> <<>>]
    /\ held = [c \in Clients |-> NoDoc]
    /\ aliased = [c \in Clients |-> FALSE]
    /\ screen = [c \in Clients |-> "home"]
    /\ edits = 0

-----------------------------------------------------------------------------
(* Screens *)

\* The team is opened, perhaps again: one more listener, and rows of the array
\* as it is.
OpenTeam(c) ==
    /\ screen[c] = "home"
    /\ screen' = [screen EXCEPT ![c] = "team"]
    /\ listening' = [listening EXCEPT ![c] = TRUE]
    /\ told' = [told EXCEPT ![c] = NoDoc]
    /\ rows' = [rows EXCEPT ![c] = events[c]]
    /\ UNCHANGED <<server, queue, mailbox, events, reload, held, aliased,
                   edits>>

\* Back to Home: the screen goes, its listener stays and reloads nothing.
LeaveTeam(c) ==
    /\ screen[c] = "team"
    /\ screen' = [screen EXCEPT ![c] = "home"]
    /\ mailbox' = [mailbox EXCEPT ![c] =
                      [k \in DOMAIN @ |-> [@[k] EXCEPT !.mine = FALSE]]]
    /\ reload' = [reload EXCEPT ![c] = FALSE]
    /\ rows' = [rows EXCEPT ![c] = <<>>]
    /\ UNCHANGED <<server, queue, listening, told, events, held, aliased,
                   edits>>

\* A row is tapped: the event the array has at its index is shown.  An index
\* out of range kills the app; only the write queue is kept.
OpenEvent(c, k) ==
    /\ screen[c] = "team" /\ k \in DOMAIN rows[c]
    /\ rows' = [rows EXCEPT ![c] = <<>>]
    /\ IF k \in DOMAIN events[c]
       THEN /\ held' = [held EXCEPT ![c] = events[c][k]]
            /\ aliased' = [aliased EXCEPT ![c] = TRUE]
            /\ screen' = [screen EXCEPT ![c] = "detail"]
            /\ UNCHANGED <<listening, told, mailbox, events, reload>>
       ELSE /\ listening' = [listening EXCEPT ![c] = FALSE]
            /\ told' = [told EXCEPT ![c] = NoDoc]
            /\ mailbox' = [mailbox EXCEPT ![c] = <<>>]
            /\ events' = [events EXCEPT ![c] = <<>>]
            /\ reload' = [reload EXCEPT ![c] = FALSE]
            /\ screen' = [screen EXCEPT ![c] = "home"]
            /\ UNCHANGED <<held, aliased>>
    /\ UNCHANGED <<server, queue, edits>>

\* Back to the team screen, which reloads as it appears.
BackToTeam(c) ==
    /\ screen[c] = "detail"
    /\ screen' = [screen EXCEPT ![c] = "team"]
    /\ held' = [held EXCEPT ![c] = NoDoc]
    /\ aliased' = [aliased EXCEPT ![c] = FALSE]
    /\ rows' = [rows EXCEPT ![c] = events[c]]
    /\ UNCHANGED <<server, queue, listening, told, mailbox, events, reload,
                   edits>>

-----------------------------------------------------------------------------
(* Saving: the form over the team or the detail screen is saved *)

\* An id nobody has drawn yet.
Fresh(i) ==
    /\ server[i] = NoDoc
    /\ \A c \in Clients : Pending(queue[c], "events", i) = {}

\* A slip in CreateEvent: the date of the form is not read.
CreateEventUndated(c, i, d) ==
    /\ c \in Admins /\ screen[c] = "team" /\ Fresh(i)
    /\ CountEdit
    /\ LET e == [id |-> i, date |-> NoDoc]
       IN  events' = [events EXCEPT ![c] = Append(@, e)]
    /\ UNCHANGED <<server, queue, listening, told, mailbox, rows, reload, held,
                   aliased, screen>>

\* createEvent: written, and put at the end of the array whatever its date.
\* The team screen reloads as it appears again.
CreateEvent(c, i, d) ==
    /\ c \in Admins /\ screen[c] = "team" /\ Fresh(i)
    /\ CountEdit
    /\ LET e == [id |-> i, date |-> d]
       IN  /\ Store(c, e)
           /\ events' = [events EXCEPT ![c] = Append(@, e)]
    /\ rows' = [rows EXCEPT ![c] = events'[c]]
    /\ UNCHANGED <<server, listening, reload, held, aliased, screen>>

\* A slip in UpdateEvent: the screen's event is a copy of the array's.
UpdateEventCopy(c, d) ==
    /\ c \in Admins /\ screen[c] = "detail"
    /\ CountEdit
    /\ LET e == [id |-> held[c].id, date |-> d]
       IN  Store(c, e) /\ held' = [held EXCEPT ![c] = e]
    /\ UNCHANGED <<server, listening, events, reload, rows, aliased, screen>>

\* The form on the held event is saved: the object is changed, in the array
\* too if it is still there, and all of it is written.
UpdateEvent(c, d) ==
    /\ c \in Admins /\ screen[c] = "detail"
    /\ CountEdit
    /\ LET e == [id |-> held[c].id, date |-> d]
       IN  /\ Store(c, e)
           /\ held' = [held EXCEPT ![c] = e]
           /\ events' = IF ~aliased[c] THEN events ELSE
                [events EXCEPT ![c] =
                    [k \in DOMAIN @ |-> IF @[k].id = e.id THEN e ELSE @[k]]]
    /\ UNCHANGED <<server, listening, reload, rows, aliased, screen>>

-----------------------------------------------------------------------------
(* Firestore and the main queue *)

\* A slip in Notify: the collection is asked for once, not listened to.
NotifyOnce(c) ==
    /\ listening[c] /\ told[c] = NoDoc
    /\ Take(c, View(queue[c]))
    /\ UNCHANGED <<server, queue, listening, events, reload, rows, held,
                   aliased, screen, edits>>

\* A listener finds the collection changed by others, or answers first.
Notify(c) ==
    /\ listening[c]
    /\ told[c] # View(queue[c])
    /\ Take(c, View(queue[c]))
    /\ UNCHANGED <<server, queue, listening, events, reload, rows, held,
                   aliased, screen, edits>>

\* A slip in FetchEvents: the completion is not called.
FetchEventsSilently(c) ==
    /\ mailbox[c] # <<>>
    /\ \E list \in Sorted(Head(mailbox[c]).docs) :
          events' = [events EXCEPT ![c] = list]
    /\ aliased' = [aliased EXCEPT ![c] = FALSE]
    /\ mailbox' = [mailbox EXCEPT ![c] = Tail(@)]
    /\ UNCHANGED <<server, queue, listening, told, reload, rows, held, screen,
                   edits>>

\* The handler of the oldest snapshot runs: new objects, sorted, and a reload
\* if the screen that listened still exists.
FetchEvents(c) ==
    /\ mailbox[c] # <<>>
    /\ \E list \in Sorted(Head(mailbox[c]).docs) :
          events' = [events EXCEPT ![c] = list]
    /\ aliased' = [aliased EXCEPT ![c] = FALSE]
    /\ reload' = [reload EXCEPT ![c] = @ \/ Head(mailbox[c]).mine]
    /\ mailbox' = [mailbox EXCEPT ![c] = Tail(@)]
    /\ UNCHANGED <<server, queue, listening, told, rows, held, screen, edits>>

\* The reload runs, a turn of the main queue later.
Reload(c) ==
    /\ reload[c]
    /\ reload' = [reload EXCEPT ![c] = FALSE]
    /\ rows' = IF screen[c] = "team" THEN [rows EXCEPT ![c] = events[c]]
                                     ELSE rows
    /\ UNCHANGED <<server, queue, listening, told, mailbox, events, held,
                   aliased, screen, edits>>

\* The oldest pending write of a client reaches the server.
Flush(c) ==
    /\ queue[c] # <<>>
    /\ server' = Commit(server, "events", Head(queue[c]))
    /\ queue' = [queue EXCEPT ![c] = Tail(@)]
    /\ UNCHANGED <<listening, told, mailbox, events, reload, rows, held,
                   aliased, screen, edits>>

Next ==
    \E c \in Clients :
        \/ OpenTeam(c) \/ LeaveTeam(c) \/ BackToTeam(c)
        \/ \E k \in DOMAIN rows[c] : OpenEvent(c, k)
        \/ \E i \in Items, d \in Dates : CreateEvent(c, i, d)
        \/ \E d \in Dates : UpdateEvent(c, d)
        \/ Notify(c) \/ FetchEvents(c) \/ Reload(c) \/ Flush(c)

Spec == Init /\ [][Next]_vars

\* A connected phone sends its writes, hears of changes and runs its main
\* queue: as long as it can do any of this, it does something.
Fairness == \A c \in Clients :
    WF_vars(Flush(c) \/ Notify(c) \/ FetchEvents(c) \/ Reload(c))
FairSpec == Spec /\ Fairness

-----------------------------------------------------------------------------
(* Properties *)

\* A client with nothing to send and nothing to hear.
Quiet(c) ==
    /\ told[c] = server /\ queue[c] = <<>> /\ mailbox[c] = <<>>

\* A quiet client's array is the server's collection in the order of the
\* dates, although events are appended unsorted and edited in place.
Agrees ==
    \A c \in Clients : Quiet(c) =>
        /\ IsSortedByDate(events[c])
        /\ events[c] \in Sorted(server)

\* Once the reload has run as well, every row shows what a tap on it opens.
RowsCurrent ==
    \A c \in Clients :
        Quiet(c) /\ ~reload[c] /\ screen[c] = "team" => rows[c] = events[c]

\* While a snapshot is not newer than the detail screen, what that screen
\* shows is what the array has: edits in place reach both.
DetailAgrees ==
    \A c \in Clients : aliased[c] => held[c] \in Range(events[c])

\* Whoever stays on the screen of the team ends up with rows for exactly the
\* events on the server, in the order of their dates.
Shown ==
    \A c \in Clients :
        <>[](screen[c] = "team") => <>[](rows[c] \in Sorted(server))
===========================================================================
