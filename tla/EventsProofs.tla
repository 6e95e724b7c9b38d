---------------------------- MODULE EventsProofs ----------------------------
(***************************************************************************)
(* The events of a team, for every number of clients, events and dates.    *)
(*                                                                         *)
(* The array is written from three sides: by snapshots, by appending what  *)
(* was created, by changing an object in place.  What they have in common  *)
(* is that a write the listener has not been told of tells it: as long as  *)
(* the array is not what the listener was told last, a snapshot waits, and *)
(* the last one that waits is what the listener was told last (Follows).   *)
(***************************************************************************)
EXTENDS Events, ListLemmas

EventWrite == [col : {"events"}, id : Items, doc : Dates]
Mail == [docs : Docs, mine : BOOLEAN]

-----------------------------------------------------------------------------
(* The invariant *)

\* The detail screen shows an event, and no other screen does.
ScreensFit ==
    \A c \in Clients : IF screen[c] = "detail" THEN held[c] # NoDoc
                                               ELSE ~aliased[c]

\* An event that a client was told of is on the server, or on its way there
\* from that very client: no id of it is drawn again.
Exists(c, i) == \/ server[i] # NoDoc
                \/ \E k \in DOMAIN queue[c] : queue[c][k].id = i
ToldExist == \A c \in Clients, i \in Items :
    told[c] # NoDoc /\ told[c][i] # NoDoc => Exists(c, i)

\* The last snapshot that waits is what the listener was told last, and belongs
\* to the team's screen if there is one; without any, the array is what the
\* listener was told.
Follows(c) ==
    IF mailbox[c] = <<>> THEN events[c] \in Sorted(told[c])
    ELSE LET m == mailbox[c][Len(mailbox[c])]
         IN  m.docs = told[c] /\ (screen[c] # "home" => m.mine)
AllFollow == \A c \in Clients : told[c] # NoDoc => Follows(c)

\* Rows that differ from the array are reloaded when the listener answers.
RowsFollow ==
    \A c \in Clients : screen[c] = "team" /\ ~reload[c] /\ rows[c] # events[c]
        => told[c] = NoDoc \/ mailbox[c] # <<>>

EventsInv == /\ ScreensFit /\ ToldExist /\ AllFollow /\ RowsFollow
             /\ DetailAgrees

-----------------------------------------------------------------------------
(* Collections and arrays *)

\* There are finitely many events in a collection.
LEMMA ListedFinite ==
    ASSUME NEW docs \in Docs
    PROVE  Listed(docs) \subseteq Event /\ IsFiniteSet(Listed(docs))
<1> DEFINE J == {j \in Items : docs[j] # NoDoc}
           f == [i \in J |-> [id |-> i, date |-> docs[i]]]
<1>1. J \in SUBSET Items /\ IsFiniteSet(J)
  BY DatesAssumption, FS_Subset
<1>2. \A i \in J : docs[i] \in Dates
  BY DEF Docs
<1>3. Listed(docs) = {[id |-> i, date |-> docs[i]] : i \in J}
  BY DEF Listed
<1>4. f \in Surjection(J, Listed(docs))
  BY <1>3 DEF Surjection
<1>5. IsFiniteSet(Listed(docs))
  BY <1>1, <1>4, FS_Surjection
<1> QED BY <1>1, <1>2, <1>3, <1>5 DEF Event

\* An array made from a collection has events of the collection.
LEMMA SortedEvents ==
    ASSUME NEW docs \in Docs, NEW list \in Sorted(docs)
    PROVE  /\ list \in Seq(Event)
           /\ IsSortedByDate(list)
           /\ \A k \in DOMAIN list : list[k].date = docs[list[k].id]
<1> DEFINE E == Listed(docs)
<1>1. E \subseteq Event /\ Cardinality(E) \in Nat
  BY ListedFinite, FS_CardinalityType
<1>2. list \in [1..Cardinality(E) -> E] /\ IsSortedByDate(list)
  BY DEF Sorted
<1>3. list \in Seq(Event)
  BY <1>1, <1>2
<1>4. \A e \in E : e.date = docs[e.id]
  BY DEF Listed
<1> QED BY <1>2, <1>3, <1>4

\* What a client with queue q sees.
LEMMA ViewType ==
    ASSUME TypeOK, NEW q \in Seq(EventWrite)
    PROVE  /\ View(q) \in Docs
           /\ \A i \in Items : View(q)[i] # NoDoc =>
                 server[i] # NoDoc \/ \E k \in DOMAIN q : q[k].id = i
<1> SUFFICES ASSUME NEW i \in Items
             PROVE  /\ View(q)[i] \in Dates \cup {NoDoc}
                    /\ View(q)[i] # NoDoc =>
                          server[i] # NoDoc \/ \E k \in DOMAIN q : q[k].id = i
  BY DEF View, Docs
<1> DEFINE P == Pending(q, "events", i)
<1>1. View(q)[i] = LocalView(server, q, "events", i)
  BY DEF View
<1>2. P \in SUBSET (1..Len(q)) /\ \A k \in P : q[k].id = i
  BY DEF Pending
<1>5. Len(q) \in Nat /\ \A k \in 1..Len(q) : q[k] \in EventWrite
  OBVIOUS
<1>3. CASE P = {}
  BY <1>1, <1>3 DEF LocalView, TypeOK, Docs
<1>4. CASE P # {}
  <2> HIDE DEF P
  <2>1. Latest(P) \in P
    BY <1>2, <1>4, <1>5, LatestIsMax
  <2>2. q[Latest(P)] \in EventWrite /\ q[Latest(P)].doc \in Dates
    BY <1>2, <1>5, <2>1 DEF EventWrite
  <2> USE DEF P
  <2> QED BY <1>1, <1>2, <1>4, <2>1, <2>2 DEF LocalView
<1> QED BY <1>3, <1>4

\* Who has just written a document sees what was written.
LEMMA ViewOfWriter ==
    ASSUME TypeOK, NEW q \in Seq(EventWrite), NEW e \in Event
    PROVE  LET p == Append(q, Write("events", e.id, e.date))
           IN  p \in Seq(EventWrite) /\ View(p) \in Docs
               /\ View(p)[e.id] = e.date
<1> DEFINE w == Write("events", e.id, e.date)
           p == Append(q, w)
           P == Pending(p, "events", e.id)
<1>1. w \in EventWrite /\ w.col = "events" /\ w.id = e.id /\ w.doc = e.date
  BY DEF Write, EventWrite, Event
<1>2. e.id \in Items
  BY DEF Event
<1> HIDE DEF w
<1>3. /\ p \in Seq(EventWrite) /\ Len(p) = Len(q) + 1 /\ Len(q) \in Nat
      /\ p[Len(q) + 1] = w
  BY <1>1
<1>4. View(p) \in Docs
  BY <1>3, ViewType
<1> HIDE DEF p
<1>5. P \in SUBSET (1..Len(p)) /\ Len(q) + 1 \in P
  BY <1>1, <1>3 DEF Pending
<1>6. Latest(P) \in P /\ \A j \in P : j <= Latest(P)
  <2> HIDE DEF P
  <2>1. P # {} /\ Len(p) \in Nat
    BY <1>3, <1>5
  <2> QED BY <1>5, <2>1, LatestIsMax
<1>7. Latest(P) = Len(q) + 1
  BY <1>3, <1>5, <1>6
<1>8. View(p)[e.id] = p[Latest(P)].doc
  BY <1>2, <1>5 DEF View, LocalView
<1> QED BY <1>1, <1>3, <1>4, <1>7, <1>8 DEF p, w

-----------------------------------------------------------------------------
(* Taking snapshots, saving events *)

\* A snapshot is taken: it is now the last.
Taken(c, docs) ==
    /\ mailbox' \in [Clients -> Seq(Mail)]
    /\ told' \in [Clients -> Docs \cup {NoDoc}]
    /\ told'[c] = docs /\ mailbox'[c] # <<>>
    /\ LET m == mailbox'[c][Len(mailbox'[c])]
       IN  m.docs = docs /\ (screen[c] # "home" => m.mine)
    /\ \A o \in Clients \ {c} : mailbox'[o] = mailbox[o] /\ told'[o] = told[o]

LEMMA TakeTakes ==
    ASSUME TypeOK, NEW c \in Clients, NEW docs \in Docs, Take(c, docs)
    PROVE  Taken(c, docs)
<1> DEFINE m == [docs |-> docs, mine |-> screen[c] # "home"]
           b == Append(mailbox[c], m)
<1>1. m \in Mail /\ m.docs = docs /\ (screen[c] # "home" => m.mine)
  BY DEF Mail
<1> HIDE DEF m
<1>2. mailbox \in [Clients -> Seq(Mail)] /\ mailbox[c] \in Seq(Mail)
  BY DEF TypeOK, Mail
<1>3. b \in Seq(Mail) /\ b # <<>> /\ b[Len(b)] = m
  BY <1>1, <1>2
<1>4. mailbox' = [mailbox EXCEPT ![c] = b] /\ told' = [told EXCEPT ![c] = docs]
  BY DEF Take, m
<1> HIDE DEF b
<1> QED BY <1>1, <1>2, <1>3, <1>4 DEF Taken, TypeOK

\* An event is written: the listener has been told of the write, or is.
Stored(c, e) ==
    /\ queue' \in [Clients -> Seq(EventWrite)]
    /\ \A o \in Clients \ {c} : queue'[o] = queue[o]
    /\ \A k \in DOMAIN queue[c] :
          k \in DOMAIN queue'[c] /\ queue'[c][k] = queue[c][k]
    /\ \E k \in DOMAIN queue'[c] : queue'[c][k].id = e.id
    /\ \E docs \in Docs :
          /\ docs[e.id] = e.date
          /\ \A i \in Items : docs[i] # NoDoc =>
                \/ server[i] # NoDoc
                \/ \E k \in DOMAIN queue'[c] : queue'[c][k].id = i
          /\ \/ told[c] = docs /\ UNCHANGED <<told, mailbox>>
             \/ Taken(c, docs)

LEMMA StoreStores ==
    ASSUME TypeOK, NEW c \in Clients, NEW e \in Event, Store(c, e)
    PROVE  Stored(c, e)
<1> DEFINE w == Write("events", e.id, e.date)
           q == Append(queue[c], w)
<1>1. queue \in [Clients -> Seq(EventWrite)] /\ queue[c] \in Seq(EventWrite)
  BY DEF TypeOK, EventWrite
<1>2. q \in Seq(EventWrite) /\ View(q) \in Docs /\ View(q)[e.id] = e.date
  BY <1>1, ViewOfWriter
<1>3. \A i \in Items : View(q)[i] # NoDoc =>
        server[i] # NoDoc \/ \E k \in DOMAIN q : q[k].id = i
  BY <1>2, ViewType
<1>4. w \in EventWrite /\ w.id = e.id
  BY DEF Write, EventWrite, Event
<1> HIDE DEF w
<1>5. /\ \A k \in DOMAIN queue[c] : k \in DOMAIN q /\ q[k] = queue[c][k]
      /\ Len(queue[c]) + 1 \in DOMAIN q /\ q[Len(queue[c]) + 1] = w
  BY <1>1, <1>4
<1>6. /\ queue' = [queue EXCEPT ![c] = q]
      /\ IF told[c] = View(q) THEN UNCHANGED <<told, mailbox>>
                              ELSE Take(c, View(q))
  BY DEF Store, w
<1> HIDE DEF q
<1>7. queue'[c] = q /\ \A o \in Clients \ {c} : queue'[o] = queue[o]
  BY <1>1, <1>6
<1>8. \/ told[c] = View(q) /\ UNCHANGED <<told, mailbox>>
      \/ Taken(c, View(q))
  BY <1>2, <1>6, TakeTakes
<1> QED BY <1>1, <1>2, <1>3, <1>4, <1>5, <1>6, <1>7, <1>8 DEF Stored

-----------------------------------------------------------------------------
(* Types *)

LEMMA InitType == Init => TypeOK
BY EventStartAssumption, EventBoundsAssumption, EventNoDocAssumption
   DEF Init, TypeOK

\* An event of the array, changed in place.
Changed(list, e) ==
    [k \in DOMAIN list |-> IF list[k].id = e.id THEN e ELSE list[k]]

LEMMA ChangedInPlace ==
    ASSUME NEW list \in Seq(Event), NEW e \in Event
    PROVE  Changed(list, e) \in Seq(Event)
<1>1. DOMAIN list = 1..Len(list) /\ Len(list) \in Nat
  OBVIOUS
<1>2. \A k \in 1..Len(list) : list[k] \in Event
  OBVIOUS
<1>3. Changed(list, e) \in [1..Len(list) -> Event]
  BY <1>1, <1>2 DEF Changed
<1> QED BY <1>1, <1>3

\* Screens that open and close.
LEMMA ScreenType ==
    ASSUME TypeOK, NEW c \in Clients,
           OpenTeam(c) \/ LeaveTeam(c) \/ BackToTeam(c)
    PROVE  TypeOK'
<1>1. CASE OpenTeam(c)
  BY <1>1 DEF OpenTeam, TypeOK
<1>2. CASE BackToTeam(c)
  BY <1>2 DEF BackToTeam, TypeOK
<1>3. CASE LeaveTeam(c)
  <2>1. mailbox' \in [Clients -> Seq(Mail)]
    <3> DEFINE box == [k \in DOMAIN mailbox[c] |->
                          [mailbox[c][k] EXCEPT !.mine = FALSE]]
    <3>1. mailbox \in [Clients -> Seq(Mail)] /\ mailbox[c] \in Seq(Mail)
      BY DEF TypeOK, Mail
    <3>2. \A m \in Mail : [m EXCEPT !.mine = FALSE] \in Mail
      BY DEF Mail
    <3>3. box \in [1..Len(mailbox[c]) -> Mail] /\ Len(mailbox[c]) \in Nat
      BY <3>1, <3>2
    <3>4. mailbox' = [mailbox EXCEPT ![c] = box]
      BY <1>3 DEF LeaveTeam
    <3> HIDE DEF box
    <3>5. box \in Seq(Mail)
      BY <3>3
    <3> QED BY <3>1, <3>4, <3>5
  <2>2. /\ screen' = [screen EXCEPT ![c] = "home"]
        /\ rows' = [rows EXCEPT ![c] = <<>>]
        /\ reload' = [reload EXCEPT ![c] = FALSE]
        /\ UNCHANGED <<server, queue, listening, told, events, held, aliased,
                       edits>>
    BY <1>3 DEF LeaveTeam
  <2> QED BY <2>1, <2>2, EmptySeq DEF TypeOK, Mail
<1> QED BY <1>1, <1>2, <1>3

\* A row is tapped.
LEMMA OpenEventType ==
    ASSUME TypeOK, NEW c \in Clients, NEW k, OpenEvent(c, k)
    PROVE  TypeOK'
<1>1. CASE k \in DOMAIN events[c]
  <2>1. events[c][k] \in Event
    BY <1>1 DEF TypeOK
  <2>2. /\ screen' = [screen EXCEPT ![c] = "detail"]
        /\ rows' = [rows EXCEPT ![c] = <<>>]
        /\ held' = [held EXCEPT ![c] = events[c][k]]
        /\ aliased' = [aliased EXCEPT ![c] = TRUE]
        /\ UNCHANGED <<server, queue, listening, told, mailbox, events, reload,
                       edits>>
    BY <1>1 DEF OpenEvent
  <2> QED BY <2>1, <2>2, EmptySeq DEF TypeOK
<1>2. CASE k \notin DOMAIN events[c]
  <2>1. /\ screen' = [screen EXCEPT ![c] = "home"]
        /\ rows' = [rows EXCEPT ![c] = <<>>]
        /\ listening' = [listening EXCEPT ![c] = FALSE]
        /\ told' = [told EXCEPT ![c] = NoDoc]
        /\ mailbox' = [mailbox EXCEPT ![c] = <<>>]
        /\ events' = [events EXCEPT ![c] = <<>>]
        /\ reload' = [reload EXCEPT ![c] = FALSE]
        /\ UNCHANGED <<server, queue, held, aliased, edits>>
    BY <1>2 DEF OpenEvent
  <2> QED BY <2>1, EmptySeq DEF TypeOK
<1> QED BY <1>1, <1>2

\* An event is saved.
LEMMA SaveType ==
    ASSUME TypeOK, ScreensFit, NEW c \in Clients, NEW d \in Dates,
           UpdateEvent(c, d) \/ \E i \in Items : CreateEvent(c, i, d)
    PROVE  TypeOK'
<1>1. ASSUME NEW e \in Event, Stored(c, e)
      PROVE  /\ queue' \in [Clients -> Seq(EventWrite)]
             /\ mailbox' \in [Clients -> Seq(Mail)]
             /\ told' \in [Clients -> Docs \cup {NoDoc}]
  BY <1>1 DEF Stored, Taken, TypeOK, Mail
<1>2. edits' \in 0..MaxEdits
  <2>1. edits \in 0..MaxEdits /\ CountEdit
    BY DEF TypeOK, CreateEvent, UpdateEvent
  <2> QED BY <2>1, EventBoundsAssumption DEF CountEdit
<1>3. ASSUME NEW i \in Items, CreateEvent(c, i, d)
      PROVE  TypeOK'
  <2> DEFINE e == [id |-> i, date |-> d]
  <2>1. e \in Event /\ Store(c, e)
    BY <1>3 DEF CreateEvent, Event
  <2>2. events' \in [Clients -> Seq(Event)] /\ events'[c] \in Seq(Event)
    BY <1>3, <2>1 DEF CreateEvent, TypeOK
  <2>3. rows' \in [Clients -> Seq(Event)]
    BY <1>3, <2>2 DEF CreateEvent, TypeOK
  <2>4. \A o \in Clients : screen[o] # "team" => rows'[o] = <<>>
    BY <1>3 DEF CreateEvent, TypeOK
  <2> QED BY <1>1, <1>2, <1>3, <2>1, <2>2, <2>3, <2>4, StoreStores
          DEF CreateEvent, TypeOK, Mail, EventWrite
<1>4. CASE UpdateEvent(c, d)
  <2> DEFINE e == [id |-> held[c].id, date |-> d]
             new == Changed(events[c], e)
  <2>1. held[c] \in Event
    BY <1>4 DEF UpdateEvent, TypeOK, ScreensFit
  <2>2. e \in Event /\ Store(c, e)
    BY <1>4, <2>1 DEF UpdateEvent, Event
  <2>3. new \in Seq(Event)
    <3>1. events[c] \in Seq(Event)
      BY DEF TypeOK
    <3> QED BY <2>2, <3>1, ChangedInPlace
  <2>4. events' = IF ~aliased[c] THEN events ELSE [events EXCEPT ![c] = new]
    BY <1>4 DEF UpdateEvent, Changed
  <2>5. held' = [held EXCEPT ![c] = e]
    BY <1>4 DEF UpdateEvent
  <2> HIDE DEF new, e
  <2>6. /\ events' \in [Clients -> Seq(Event)]
        /\ held' \in [Clients -> Event \cup {NoDoc}]
    BY <2>2, <2>3, <2>4, <2>5 DEF TypeOK
  <2> QED BY <1>1, <1>2, <1>4, <2>2, <2>6, StoreStores
          DEF UpdateEvent, TypeOK, Mail, EventWrite
<1> QED BY <1>3, <1>4

\* Listeners are told, handlers run, writes are sent.
LEMMA QueueType ==
    ASSUME TypeOK, NEW c \in Clients,
           Notify(c) \/ FetchEvents(c) \/ Reload(c) \/ Flush(c)
    PROVE  TypeOK'
<1>1. queue[c] \in Seq(EventWrite) /\ mailbox[c] \in Seq(Mail)
  BY DEF TypeOK, EventWrite, Mail
<1>2. CASE Notify(c)
  <2>1. Taken(c, View(queue[c]))
    BY <1>1, <1>2, ViewType, TakeTakes DEF Notify
  <2> QED BY <1>2, <2>1 DEF Notify, Taken, TypeOK, Mail
<1>3. CASE FetchEvents(c)
  <2>1. Head(mailbox[c]) \in Mail /\ Tail(mailbox[c]) \in Seq(Mail)
    BY <1>1, <1>3 DEF FetchEvents
  <2>2. Head(mailbox[c]).docs \in Docs /\ Head(mailbox[c]).mine \in BOOLEAN
    BY <2>1 DEF Mail
  <2>3. PICK list \in Sorted(Head(mailbox[c]).docs) :
          events' = [events EXCEPT ![c] = list]
    BY <1>3 DEF FetchEvents
  <2>4. list \in Seq(Event)
    BY <2>2, <2>3, SortedEvents
  <2>5. /\ events' \in [Clients -> Seq(Event)]
        /\ mailbox' \in [Clients -> Seq(Mail)]
    BY <1>3, <2>1, <2>3, <2>4 DEF FetchEvents, TypeOK, Mail
  <2>6. /\ aliased' \in [Clients -> BOOLEAN]
        /\ reload' \in [Clients -> BOOLEAN]
    BY <1>3, <2>2 DEF FetchEvents, TypeOK
  <2> QED BY <1>3, <2>5, <2>6 DEF FetchEvents, TypeOK, Mail
<1>4. CASE Reload(c)
  BY <1>4 DEF Reload, TypeOK
<1>5. CASE Flush(c)
  <2>1. Head(queue[c]) \in EventWrite /\ Tail(queue[c]) \in Seq(EventWrite)
    BY <1>1, <1>5 DEF Flush
  <2>2. server' \in Docs
    BY <1>5, <2>1 DEF Flush, Commit, EventWrite, Docs, TypeOK
  <2>3. queue' \in [Clients -> Seq(EventWrite)]
    BY <1>5, <2>1 DEF Flush, TypeOK, EventWrite
  <2> QED BY <1>5, <2>2, <2>3 DEF Flush, TypeOK, EventWrite
<1> QED BY <1>2, <1>3, <1>4, <1>5

LEMMA NextType == TypeOK /\ ScreensFit /\ [Next]_vars => TypeOK'
<1> SUFFICES ASSUME TypeOK, ScreensFit, [Next]_vars PROVE TypeOK'
  OBVIOUS
<1>1. CASE UNCHANGED vars
  BY <1>1 DEF vars, TypeOK
<1> QED BY <1>1, ScreenType, OpenEventType, SaveType, QueueType DEF Next

-----------------------------------------------------------------------------
(* The invariant is inductive *)

\* What client c does.
Step(c) ==
    \/ OpenTeam(c) \/ LeaveTeam(c) \/ BackToTeam(c)
    \/ \E k \in DOMAIN rows[c] : OpenEvent(c, k)
    \/ \E i \in Items, d \in Dates : CreateEvent(c, i, d)
    \/ \E d \in Dates : UpdateEvent(c, d)
    \/ Notify(c) \/ FetchEvents(c) \/ Reload(c) \/ Flush(c)

\* Nothing of client c changes.
Untouched(c) ==
    /\ queue'[c] = queue[c] /\ told'[c] = told[c] /\ mailbox'[c] = mailbox[c]
    /\ events'[c] = events[c] /\ reload'[c] = reload[c] /\ rows'[c] = rows[c]
    /\ held'[c] = held[c] /\ aliased'[c] = aliased[c]
    /\ screen'[c] = screen[c]

\* Clients keep their hands off one another's state.
LEMMA OthersUntouched ==
    ASSUME TypeOK, ScreensFit, NEW c \in Clients, Step(c),
           NEW o \in Clients \ {c}
    PROVE  Untouched(o)
<1> USE DEF TypeOK, Untouched
<1>1. CASE OpenTeam(c) \/ LeaveTeam(c) \/ BackToTeam(c)
  BY <1>1 DEF OpenTeam, LeaveTeam, BackToTeam
<1>2. ASSUME NEW k, OpenEvent(c, k) PROVE Untouched(o)
  BY <1>2 DEF OpenEvent
<1>3. ASSUME NEW i \in Items, NEW d \in Dates, CreateEvent(c, i, d)
      PROVE  Untouched(o)
  <2>1. [id |-> i, date |-> d] \in Event
    BY DEF Event
  <2>2. Stored(c, [id |-> i, date |-> d])
    BY <1>3, <2>1, StoreStores DEF CreateEvent
  <2>3. queue'[o] = queue[o] /\ told'[o] = told[o] /\ mailbox'[o] = mailbox[o]
    BY <2>2 DEF Stored, Taken
  <2> QED BY <1>3, <2>3 DEF CreateEvent
<1>4. ASSUME NEW d \in Dates, UpdateEvent(c, d) PROVE Untouched(o)
  <2> DEFINE e == [id |-> held[c].id, date |-> d]
  <2>1. e \in Event
    BY <1>4 DEF UpdateEvent, ScreensFit, Event
  <2>2. Stored(c, e)
    BY <1>4, <2>1, StoreStores DEF UpdateEvent
  <2>3. queue'[o] = queue[o] /\ told'[o] = told[o] /\ mailbox'[o] = mailbox[o]
    BY <2>2 DEF Stored, Taken
  <2> QED BY <1>4, <2>3 DEF UpdateEvent
<1>5. CASE Notify(c)
  <2>1. queue[c] \in Seq(EventWrite)
    BY DEF EventWrite
  <2>2. Taken(c, View(queue[c]))
    BY <1>5, <2>1, ViewType, TakeTakes DEF Notify
  <2> QED BY <1>5, <2>2 DEF Notify, Taken
<1>6. CASE FetchEvents(c) \/ Reload(c) \/ Flush(c)
  BY <1>6 DEF FetchEvents, Reload, Flush
<1> QED BY <1>1, <1>2, <1>3, <1>4, <1>5, <1>6 DEF Step

\* The event on the detail screen is one, and stays the array's until a
\* snapshot brings new objects.
LEMMA ScreensStep ==
    ASSUME TypeOK, ScreensFit, DetailAgrees, NEW c \in Clients, Step(c)
    PROVE  ScreensFit' /\ DetailAgrees'
<1> DEFINE Fit ==
             /\ IF screen[c] = "detail" THEN held[c] # NoDoc ELSE ~aliased[c]
             /\ aliased[c] => held[c] \in Range(events[c])
<1>1. Fit
  BY DEF ScreensFit, DetailAgrees
<1>2. Fit'
  <2> USE DEF TypeOK
  <2>1. CASE OpenTeam(c) \/ LeaveTeam(c) \/ BackToTeam(c)
    BY <1>1, <2>1 DEF OpenTeam, LeaveTeam, BackToTeam
  <2>2. ASSUME NEW k \in DOMAIN rows[c], OpenEvent(c, k)
        PROVE  Fit'
    <3>1. CASE k \in DOMAIN events[c]
      <4>1. events[c][k] \in Range(events[c]) /\ events[c][k] \in Event
        BY <3>1 DEF Range
      <4>2. /\ held'[c] = events[c][k] /\ events'[c] = events[c]
            /\ screen'[c] = "detail"
        BY <2>2, <3>1 DEF OpenEvent
      <4> QED BY <4>1, <4>2, EventNoDocAssumption
    <3>2. CASE k \notin DOMAIN events[c]
      BY <1>1, <2>2, <3>2 DEF OpenEvent
    <3> QED BY <3>1, <3>2
  <2>3. ASSUME NEW i \in Items, NEW d \in Dates, CreateEvent(c, i, d)
        PROVE  Fit'
    BY <1>1, <2>3 DEF CreateEvent
  <2>4. ASSUME NEW d \in Dates, UpdateEvent(c, d)
        PROVE  Fit'
    <3> DEFINE e == [id |-> held[c].id, date |-> d]
    <3>1. held[c] \in Event /\ e \in Event
      BY <1>1, <2>4 DEF UpdateEvent, Event
    <3>2. held'[c] = e /\ screen'[c] = "detail" /\ aliased'[c] = aliased[c]
      BY <2>4 DEF UpdateEvent
    <3>3. ASSUME aliased[c] PROVE e \in Range(events'[c])
      <4>1. events'[c] = Changed(events[c], e)
        BY <2>4, <3>3 DEF UpdateEvent, Changed
      <4>2. PICK k \in DOMAIN events[c] : events[c][k] = held[c]
        BY <1>1, <3>3 DEF Range
      <4>3. k \in DOMAIN Changed(events[c], e) /\ Changed(events[c], e)[k] = e
        BY <4>2 DEF Changed
      <4> QED BY <4>1, <4>3 DEF Range
    <3>4. e # NoDoc
      BY <3>1, EventNoDocAssumption
    <3> HIDE DEF e
    <3> QED BY <3>2, <3>3, <3>4
  <2>5. CASE Notify(c) \/ Reload(c) \/ Flush(c)
    BY <1>1, <2>5 DEF Notify, Reload, Flush
  <2>6. CASE FetchEvents(c)
    BY <1>1, <2>6 DEF FetchEvents
  <2> QED BY <2>1, <2>2, <2>3, <2>4, <2>5, <2>6 DEF Step
<1>3. ASSUME NEW o \in Clients \ {c}
      PROVE  /\ IF screen'[o] = "detail" THEN held'[o] # NoDoc ELSE ~aliased'[o]
             /\ aliased'[o] => held'[o] \in Range(events'[o])
  <2>1. Untouched(o)
    BY OthersUntouched
  <2> QED BY <2>1 DEF Untouched, ScreensFit, DetailAgrees
<1> QED BY <1>2, <1>3 DEF ScreensFit, DetailAgrees

\* A save of an event e, new or held.
Saves(c, e) ==
    /\ Stored(c, e) /\ UNCHANGED server
    /\ \/ screen[c] = "team" /\ Fresh(e.id) /\ screen'[c] = "team"
          /\ rows'[c] = events'[c]
       \/ /\ screen[c] = "detail" /\ screen'[c] = "detail"
          /\ events'[c] \in {events[c], Changed(events[c], e)}

LEMMA SavesStored ==
    ASSUME TypeOK, ScreensFit, NEW c \in Clients, NEW d \in Dates,
           UpdateEvent(c, d) \/ \E i \in Items : CreateEvent(c, i, d)
    PROVE  \E e \in Event : Saves(c, e)
<1>1. ASSUME NEW i \in Items, CreateEvent(c, i, d)
      PROVE  \E e \in Event : Saves(c, e)
  <2> DEFINE e == [id |-> i, date |-> d]
  <2>1. e \in Event /\ e.id = i
    BY DEF Event
  <2>2. Stored(c, e)
    BY <1>1, <2>1, StoreStores DEF CreateEvent
  <2>3. /\ UNCHANGED server /\ Fresh(i)
        /\ screen[c] = "team" /\ screen'[c] = "team"
        /\ rows'[c] = events'[c]
    BY <1>1 DEF CreateEvent, TypeOK
  <2> HIDE DEF e
  <2> QED BY <2>1, <2>2, <2>3 DEF Saves
<1>2. CASE UpdateEvent(c, d)
  <2> DEFINE e == [id |-> held[c].id, date |-> d]
  <2>1. e \in Event
    BY <1>2 DEF UpdateEvent, TypeOK, ScreensFit, Event
  <2>2. Stored(c, e)
    BY <1>2, <2>1, StoreStores DEF UpdateEvent
  <2>3. /\ UNCHANGED server
        /\ screen[c] = "detail" /\ screen'[c] = "detail"
        /\ events'[c] \in {events[c], Changed(events[c], e)}
    BY <1>2 DEF UpdateEvent, TypeOK, Changed
  <2> HIDE DEF e
  <2> QED BY <2>1, <2>2, <2>3 DEF Saves
<1> QED BY <1>1, <1>2

LEMMA NotifyTakes ==
    ASSUME TypeOK, NEW c \in Clients, Notify(c)
    PROVE  /\ View(queue[c]) \in Docs /\ Taken(c, View(queue[c]))
           /\ \A i \in Items : View(queue[c])[i] # NoDoc => Exists(c, i)
<1>1. queue[c] \in Seq(EventWrite)
  BY DEF TypeOK, EventWrite
<1> QED BY <1>1, ViewType, TakeTakes DEF Notify, Exists

\* Events are never deleted, and a write sent is a document of the server.
LEMMA ExistsKept ==
    ASSUME TypeOK, ScreensFit, NEW c \in Clients, Step(c),
           NEW o \in Clients, NEW i \in Items, Exists(o, i)
    PROVE  Exists(o, i)'
<1>1. CASE Flush(c)
  <2> DEFINE w == Head(queue[c])
  <2>1. queue[c] \in Seq(EventWrite) /\ queue[c] # <<>>
    BY <1>1 DEF Flush, TypeOK, EventWrite
  <2>2. w \in EventWrite /\ w = queue[c][1]
    BY <2>1
  <2>3. server' = [server EXCEPT ![w.id] = w.doc] /\ w.doc # NoDoc
    BY <1>1, <2>2, EventNoDocAssumption DEF Flush, Commit, EventWrite
  <2>4. queue'[c] = Tail(queue[c])
    BY <1>1 DEF Flush, TypeOK
  <2> HIDE DEF w
  <2>5. server[i] # NoDoc \/ w.id = i => server'[i] # NoDoc
    BY <2>3 DEF TypeOK, Docs
  <2>6. CASE o = c
    <3>1. ASSUME NEW k \in DOMAIN queue[c], queue[c][k].id = i, k # 1
          PROVE  /\ k - 1 \in DOMAIN queue'[c]
                 /\ queue'[c][k - 1].id = i
      BY <2>1, <2>4, <3>1
    <3>2. CASE \E k \in DOMAIN queue[c] : queue[c][k].id = i /\ k # 1
      BY <2>6, <3>1, <3>2 DEF Exists
    <3>3. CASE server[i] # NoDoc \/ w.id = i
      BY <2>5, <3>3 DEF Exists
    <3> QED BY <2>2, <2>6, <3>2, <3>3 DEF Exists
  <2>7. CASE o # c
    BY <2>5, <2>7, OthersUntouched DEF Exists, Untouched
  <2> QED BY <2>6, <2>7
<1>2. ASSUME NEW e \in Event, Saves(c, e)
      PROVE  Exists(o, i)'
  <2>1. CASE o = c
    BY <1>2, <2>1 DEF Saves, Stored, Exists
  <2>2. CASE o # c
    BY <1>2, <2>2, OthersUntouched DEF Saves, Exists, Untouched
  <2> QED BY <2>1, <2>2
<1>3. CASE server' = server /\ queue' = queue
  BY <1>3 DEF Exists
<1>4. CASE OpenTeam(c) \/ LeaveTeam(c) \/ BackToTeam(c)
           \/ (\E k \in DOMAIN rows[c] : OpenEvent(c, k))
           \/ Notify(c) \/ FetchEvents(c) \/ Reload(c)
  BY <1>3, <1>4 DEF OpenTeam, LeaveTeam, BackToTeam, OpenEvent, Notify,
                    FetchEvents, Reload
<1>5. CASE (\E k \in Items, d \in Dates : CreateEvent(c, k, d))
           \/ (\E d \in Dates : UpdateEvent(c, d))
  BY <1>2, <1>5, SavesStored
<1> QED BY <1>1, <1>4, <1>5 DEF Step

\* What a listener is told exists.
LEMMA ToldStep ==
    ASSUME TypeOK, ScreensFit, ToldExist, NEW c \in Clients, Step(c)
    PROVE  ToldExist'
<1> SUFFICES ASSUME NEW o \in Clients, NEW i \in Items,
                    told'[o] # NoDoc, told'[o][i] # NoDoc
             PROVE  Exists(o, i)'
  BY DEF ToldExist
<1>1. CASE told'[o] = told[o]
  BY <1>1, ExistsKept DEF ToldExist
<1>2. CASE o # c
  BY <1>1, <1>2, OthersUntouched DEF Untouched
<1>3. ASSUME NEW e \in Event, Saves(c, e), o = c
      PROVE  Exists(o, i)'
  <2>1. PICK docs \in Docs :
          /\ \A j \in Items : docs[j] # NoDoc =>
                \/ server[j] # NoDoc
                \/ \E k \in DOMAIN queue'[c] : queue'[c][k].id = j
          /\ \/ told[c] = docs /\ UNCHANGED <<told, mailbox>>
             \/ Taken(c, docs)
    BY <1>3 DEF Saves, Stored
  <2>2. told'[c] = docs
    BY <2>1 DEF Taken
  <2>3. server[i] # NoDoc \/ \E k \in DOMAIN queue'[c] : queue'[c][k].id = i
    BY <1>3, <2>1, <2>2
  <2> QED BY <1>3, <2>3 DEF Saves, Exists
<1>4. CASE Notify(c) /\ o = c
  BY <1>4, NotifyTakes, ExistsKept DEF Taken
<1>5. CASE o = c /\
           \/ OpenTeam(c) \/ LeaveTeam(c) \/ BackToTeam(c)
           \/ \E k \in DOMAIN rows[c] : OpenEvent(c, k)
           \/ FetchEvents(c) \/ Reload(c) \/ Flush(c)
  <2>1. told'[c] = told[c] \/ told'[c] = NoDoc
    BY <1>5 DEF OpenTeam, LeaveTeam, BackToTeam, OpenEvent, FetchEvents, Reload,
                Flush, TypeOK
  <2> QED BY <1>1, <1>5, <2>1
<1> QED BY <1>2, <1>3, <1>4, <1>5, SavesStored DEF Step

\* To write an event as it is changes nothing in an array that has it.
LEMMA SameChange ==
    ASSUME NEW docs \in Docs, NEW list \in Sorted(docs), NEW e \in Event,
           docs[e.id] = e.date
    PROVE  Changed(list, e) = list
<1>1. /\ list \in Seq(Event)
      /\ \A k \in DOMAIN list : list[k].date = docs[list[k].id]
  BY SortedEvents
<1>2. ASSUME NEW k \in DOMAIN list, list[k].id = e.id
      PROVE  list[k] = e
  <2>1. list[k] \in Event /\ list[k].date = e.date
    BY <1>1, <1>2
  <2> QED BY <1>2, <2>1 DEF Event
<1>3. Changed(list, e) = [k \in DOMAIN list |-> list[k]]
  BY <1>2 DEF Changed
<1> QED BY <1>1, <1>3

\* A screen other than Home stays so, or not; what else Follows is about stays.
LEMMA FollowsSame ==
    ASSUME NEW c \in Clients, Follows(c),
           told'[c] = told[c], mailbox'[c] = mailbox[c],
           mailbox[c] = <<>> => events'[c] = events[c],
           screen'[c] # "home" => screen[c] # "home"
    PROVE  Follows(c)'
<1>1. CASE mailbox[c] = <<>>
  BY <1>1 DEF Follows
<1>2. CASE mailbox[c] # <<>>
  BY <1>2 DEF Follows
<1> QED BY <1>1, <1>2

LEMMA SavesFollow ==
    ASSUME TypeOK, ToldExist, AllFollow, NEW c \in Clients, NEW e \in Event,
           Saves(c, e)
    PROVE  Follows(c)'
<1>1. PICK docs \in Docs :
        /\ docs[e.id] = e.date
        /\ \/ told[c] = docs /\ UNCHANGED <<told, mailbox>>
           \/ Taken(c, docs)
  BY DEF Saves, Stored
<1>2. screen[c] # "home"
  BY DEF Saves
<1>3. CASE Taken(c, docs)
  BY <1>2, <1>3 DEF Taken, Follows
<1>4. CASE told[c] = docs /\ UNCHANGED <<told, mailbox>>
  <2>1. Follows(c)
    BY <1>4, EventNoDocAssumption DEF AllFollow
  <2>2. screen[c] # "team"
    <3> SUFFICES ASSUME screen[c] = "team" PROVE FALSE
      OBVIOUS
    <3>1. Fresh(e.id) /\ e.id \in Items /\ docs[e.id] # NoDoc
      BY <1>1, EventNoDocAssumption DEF Saves, Event
    <3>2. Exists(c, e.id)
      BY <1>4, <3>1, EventNoDocAssumption DEF ToldExist
    <3>3. \A k \in DOMAIN queue[c] : queue[c][k].col = "events"
      <4>1. queue[c] \in Seq(EventWrite)
        BY DEF TypeOK, EventWrite
      <4>2. \A k \in DOMAIN queue[c] : queue[c][k] \in EventWrite
        BY <4>1
      <4> QED BY <4>2 DEF EventWrite
    <3> QED BY <3>1, <3>2, <3>3 DEF Fresh, Pending, Exists
  <2>3. events'[c] \in {events[c], Changed(events[c], e)}
    BY <2>2 DEF Saves
  <2>4. mailbox[c] = <<>> => events'[c] = events[c]
    <3>1. mailbox[c] = <<>> => events[c] \in Sorted(docs)
      BY <1>4, <2>1 DEF Follows
    <3> QED BY <1>1, <2>3, <3>1, SameChange
  <2> QED BY <1>2, <1>4, <2>1, <2>4, FollowsSame
<1> QED BY <1>1, <1>3, <1>4

\* The last of a queue is the last of what follows its head, if any does.
LEMMA LastOfTail ==
    ASSUME NEW S, NEW q \in Seq(S), q # <<>>
    PROVE  /\ Len(q) = 1 => Tail(q) = <<>> /\ Head(q) = q[Len(q)]
           /\ Len(q) # 1 => /\ Tail(q) # <<>>
                            /\ Tail(q)[Len(Tail(q))] = q[Len(q)]
<1> DEFINE t == Tail(q)
<1>1. /\ t \in Seq(S) /\ Len(t) = Len(q) - 1
      /\ \A i \in 1..Len(t) : t[i] = q[i + 1]
  BY HeadTailProperties
<1>2. Len(q) \in Nat /\ Head(q) = q[1]
  OBVIOUS
<1> HIDE DEF t
<1>3. /\ Len(t) = 0 <=> t = <<>>
      /\ Len(t) \in Nat
  BY <1>1, EmptySeq
<1>4. CASE Len(q) = 1
  <2>1. t = <<>>
    BY <1>1, <1>3, <1>4
  <2> QED BY <1>2, <1>4, <2>1 DEF t
<1>5. CASE Len(q) # 1
  <2>1. Len(t) \in 1..Len(t) /\ t # <<>>
    BY <1>1, <1>2, <1>3, <1>5
  <2>2. t[Len(t)] = q[Len(q)]
    BY <1>1, <1>2, <2>1
  <2> QED BY <1>5, <2>1, <2>2 DEF t
<1> QED BY <1>4, <1>5

\* The array, or the last snapshot that waits, is what the listener was told.
LEMMA FollowStep ==
    ASSUME TypeOK, ScreensFit, ToldExist, AllFollow, NEW c \in Clients, Step(c)
    PROVE  AllFollow'
<1> SUFFICES ASSUME NEW o \in Clients, told'[o] # NoDoc
             PROVE  Follows(o)'
  BY DEF AllFollow
<1>1. CASE o # c
  <2>1. Untouched(o)
    BY <1>1, OthersUntouched
  <2> QED BY <2>1, FollowsSame DEF Untouched, AllFollow
<1>2. ASSUME o = c, NEW e \in Event, Saves(c, e)
      PROVE  Follows(o)'
  BY <1>2, SavesFollow
<1>3. CASE o = c /\ Notify(c)
  <2>1. Taken(c, View(queue[c])) /\ screen'[c] = screen[c]
    BY <1>3, NotifyTakes DEF Notify
  <2> QED BY <1>3, <2>1 DEF Taken, Follows
<1>4. CASE o = c /\ LeaveTeam(c)
  <2>1. mailbox[c] \in Seq(Mail) /\ Follows(c) /\ told'[c] = told[c]
    BY <1>4 DEF LeaveTeam, TypeOK, Mail, AllFollow
  <2>2. /\ mailbox'[c] = [k \in DOMAIN mailbox[c] |->
                            [mailbox[c][k] EXCEPT !.mine = FALSE]]
        /\ screen'[c] = "home" /\ events'[c] = events[c]
    BY <1>4 DEF LeaveTeam, TypeOK
  <2>3. \A m \in Mail : [m EXCEPT !.mine = FALSE].docs = m.docs
    BY DEF Mail
  <2>4. CASE mailbox[c] = <<>>
    <3>1. mailbox'[c] = <<>>
      BY <2>2, <2>4
    <3> QED BY <1>4, <2>1, <2>2, <2>4, <3>1 DEF Follows
  <2>5. CASE mailbox[c] # <<>>
    <3> DEFINE n == Len(mailbox[c])
    <3>1. n \in DOMAIN mailbox[c] /\ mailbox[c][n] \in Mail /\ n \in Nat
      BY <2>1, <2>5
    <3>2. DOMAIN mailbox'[c] = 1..n
      BY <2>1, <2>2
    <3>3. mailbox'[c] # <<>> /\ Len(mailbox'[c]) = n
      BY <3>1, <3>2
    <3>4. mailbox'[c][n].docs = mailbox[c][n].docs
      BY <2>2, <2>3, <3>1
    <3> HIDE DEF n
    <3>5. mailbox[c][n].docs = told[c]
      BY <2>1, <2>5 DEF Follows, n
    <3> QED BY <1>4, <2>1, <2>2, <3>3, <3>4, <3>5 DEF Follows
  <2> QED BY <2>4, <2>5
<1>5. CASE o = c /\ FetchEvents(c)
  <2>1. mailbox[c] \in Seq(Mail) /\ mailbox[c] # <<>> /\ Follows(c)
        /\ told'[c] = told[c] /\ screen'[c] = screen[c]
    BY <1>5 DEF FetchEvents, TypeOK, Mail, AllFollow
  <2>2. /\ mailbox'[c] = Tail(mailbox[c])
        /\ events'[c] \in Sorted(Head(mailbox[c]).docs)
    BY <1>5 DEF FetchEvents, TypeOK
  <2> DEFINE n == Len(mailbox[c])
  <2>3. CASE n = 1
    <3>1. mailbox'[c] = <<>> /\ Head(mailbox[c]) = mailbox[c][n]
      BY <2>1, <2>2, <2>3, LastOfTail
    <3> QED BY <1>5, <2>1, <2>2, <3>1 DEF Follows
  <2>4. CASE n # 1
    <3>1. /\ mailbox'[c] # <<>>
          /\ mailbox'[c][Len(mailbox'[c])] = mailbox[c][n]
      BY <2>1, <2>2, <2>4, LastOfTail
    <3> QED BY <1>5, <2>1, <3>1 DEF Follows
  <2> QED BY <2>3, <2>4
<1>6. CASE o = c /\ (OpenTeam(c) \/ \E k \in DOMAIN rows[c] : OpenEvent(c, k))
  <2>1. \/ told'[c] = NoDoc
        \/ /\ told'[c] = told[c] /\ mailbox'[c] = mailbox[c]
           /\ events'[c] = events[c] /\ screen[c] = "team"
    BY <1>6 DEF OpenTeam, OpenEvent, TypeOK
  <2> QED BY <1>6, <2>1, FollowsSame DEF AllFollow
<1>7. CASE o = c /\ (BackToTeam(c) \/ Reload(c) \/ Flush(c))
  <2>1. /\ told'[c] = told[c] /\ mailbox'[c] = mailbox[c]
        /\ events'[c] = events[c]
        /\ screen[c] = "detail" \/ screen'[c] = screen[c]
    BY <1>7 DEF BackToTeam, Reload, Flush, TypeOK
  <2> QED BY <1>7, <2>1, FollowsSame DEF AllFollow
<1> QED
  BY <1>1, <1>2, <1>3, <1>4, <1>5, <1>6, <1>7, SavesStored DEF Step

\* Rows that are not the array's are reloaded.
LEMMA RowsStep ==
    ASSUME TypeOK, ScreensFit, AllFollow, RowsFollow, NEW c \in Clients, Step(c)
    PROVE  RowsFollow'
<1> SUFFICES ASSUME NEW o \in Clients, screen'[o] = "team", ~reload'[o],
                    rows'[o] # events'[o]
             PROVE  told'[o] = NoDoc \/ mailbox'[o] # <<>>
  BY DEF RowsFollow
<1>1. CASE o # c
  <2>1. Untouched(o)
    BY <1>1, OthersUntouched
  <2> QED BY <2>1 DEF Untouched, RowsFollow
<1>2. ASSUME o = c, NEW e \in Event, Saves(c, e)
      PROVE  FALSE
  BY <1>2 DEF Saves
<1>3. CASE o = c /\ Notify(c)
  <2>1. mailbox'[c] # <<>>
    BY <1>3, NotifyTakes DEF Taken
  <2> QED BY <1>3, <2>1
<1>4. CASE o = c /\ FetchEvents(c)
  <2>1. mailbox[c] \in Seq(Mail) /\ mailbox[c] # <<>>
        /\ told'[c] = told[c] /\ screen[c] = "team"
    BY <1>4 DEF FetchEvents, TypeOK, Mail
  <2>2. mailbox'[c] = Tail(mailbox[c]) /\ ~Head(mailbox[c]).mine
    BY <1>4 DEF FetchEvents, TypeOK
  <2>3. CASE Len(mailbox[c]) = 1
    <3>1. Head(mailbox[c]) = mailbox[c][Len(mailbox[c])]
      BY <2>1, <2>3
    <3> QED BY <1>4, <2>1, <2>2, <3>1 DEF AllFollow, Follows
  <2>4. CASE Len(mailbox[c]) # 1
    <3>1. mailbox'[c] # <<>>
      BY <2>1, <2>2, <2>4, LastOfTail
    <3> QED BY <1>4, <3>1
  <2> QED BY <2>3, <2>4
<1>5. CASE o = c /\
           \/ OpenTeam(c) \/ LeaveTeam(c) \/ BackToTeam(c)
           \/ Reload(c) \/ \E k \in DOMAIN rows[c] : OpenEvent(c, k)
  BY <1>5 DEF OpenTeam, LeaveTeam, BackToTeam, Reload, OpenEvent, TypeOK
<1>6. CASE o = c /\ Flush(c)
  BY <1>6 DEF Flush, RowsFollow
<1> QED BY <1>1, <1>2, <1>3, <1>4, <1>5, <1>6, SavesStored DEF Step

-----------------------------------------------------------------------------
(* Theorems *)

LEMMA InitEvents == Init => EventsInv
BY DEF Init, EventsInv, ScreensFit, ToldExist, AllFollow, RowsFollow,
       DetailAgrees

LEMMA NextEvents == TypeOK /\ EventsInv /\ [Next]_vars => EventsInv'
<1> SUFFICES ASSUME TypeOK, EventsInv, [Next]_vars PROVE EventsInv'
  OBVIOUS
<1>1. CASE UNCHANGED vars
  BY <1>1 DEF vars, EventsInv, ScreensFit, ToldExist, AllFollow, RowsFollow,
              DetailAgrees, Exists, Follows
<1>2. ASSUME NEW c \in Clients, Step(c)
      PROVE  EventsInv'
  BY <1>2, ScreensStep, ToldStep, FollowStep, RowsStep DEF EventsInv
<1> QED BY <1>1, <1>2 DEF Next, Step

LEMMA EventsHold == Spec => [](TypeOK /\ EventsInv)
<1>1. Init => TypeOK /\ EventsInv
  BY InitType, InitEvents
<1>2. TypeOK /\ EventsInv /\ [Next]_vars => (TypeOK /\ EventsInv)'
  BY NextType, NextEvents DEF EventsInv
<1> QED BY <1>1, <1>2, PTL DEF Spec

\* Types of all the state: no row outlives its screen, and what the detail
\* screen saves is an event.
THEOREM TypeCorrect == Spec => []TypeOK
BY EventsHold, PTL

\* An array into which events were appended and in which they were changed,
\* unsorted, is sorted and equal to the collection once nothing is on its way.
THEOREM ArraysAgree == Spec => []Agrees
<1>1. TypeOK /\ EventsInv => Agrees
  <2> SUFFICES ASSUME TypeOK, EventsInv, NEW c \in Clients, Quiet(c)
               PROVE  /\ IsSortedByDate(events[c])
                      /\ events[c] \in Sorted(server)
    BY DEF Agrees
  <2>1. server \in Docs /\ told[c] = server /\ mailbox[c] = <<>>
    BY DEF TypeOK, Quiet
  <2>2. Follows(c)
    BY <2>1, EventNoDocAssumption DEF EventsInv, AllFollow
  <2>3. events[c] \in Sorted(server)
    BY <2>1, <2>2 DEF Follows
  <2> QED BY <2>1, <2>3, SortedEvents
<1> QED BY <1>1, EventsHold, PTL

\* Then every row shows the event that a tap on it opens, although the table is
\* reloaded later than the array changes and an earlier screen's listener
\* reloads nothing.
THEOREM RowsAreCurrent == Spec => []RowsCurrent
<1>1. TypeOK /\ EventsInv => RowsCurrent
  BY EventNoDocAssumption DEF TypeOK, EventsInv, RowsFollow, RowsCurrent, Quiet
<1> QED BY <1>1, EventsHold, PTL

\* What the detail screen shows is in the array until a snapshot replaces it.
THEOREM DetailInArray == Spec => []DetailAgrees
<1>1. EventsInv => DetailAgrees
  BY DEF EventsInv
<1> QED BY <1>1, EventsHold, PTL
============================================================================
