-------------------------- MODULE TeamListsProofs --------------------------
(***************************************************************************)
(* Players and announcements, for every number of clients, documents and   *)
(* edits.                                                                  *)
(*                                                                         *)
(* Taps edit the array and write, and the listener is told of the write:   *)
(* so while the array is not what the listener was told last, a snapshot   *)
(* waits that is.  A tap whose write tells the listener nothing new (the   *)
(* text was saved as it was) must therefore leave the array's content as   *)
(* it is, which is where contacts fail: their delete writes nothing.       *)
(***************************************************************************)
EXTENDS TeamLists, ListLemmas

ListWrite == [col : Teams, id : Items, doc : Values \cup {NoDoc}]
Mail == [team : Teams, docs : Docs]

-----------------------------------------------------------------------------
(* The invariant *)

\* The open team is listened to, and a list is that of an open team.
OpenListened ==
    \A c \in Clients : /\ shown[c] => open[c] # NoDoc
                       /\ open[c] # NoDoc => open[c] \in listening[c]

\* Snapshots that wait are of teams that are listened to.
MailListened ==
    \A c \in Clients : \A k \in DOMAIN mailbox[c] :
        mailbox[c][k].team \in listening[c]

\* The last snapshot that waits is what the listener was told last; without
\* any, the array has the documents that the listener was told of.
Reflects(c, t) ==
    IF mailbox[c] = <<>> THEN Content(cache[c]) = ContentOf(told[c][t])
    ELSE mailbox[c][Len(mailbox[c])].docs = told[c][t]
AllReflect ==
    \A c \in Clients, t \in Teams :
        kind # "contacts" /\ listening[c] = {t} /\ told[c][t] # NoDoc
        => Reflects(c, t)

ListsInv == OpenListened /\ MailListened /\ AllReflect

-----------------------------------------------------------------------------
(* Collections and arrays *)

\* What a handler makes of a collection has its documents, and no others.
LEMMA ListingsOf ==
    ASSUME NEW docs \in Docs, NEW list \in Listings(docs)
    PROVE  list \in Seq(Row) /\ Content(list) = ContentOf(docs)
<1> DEFINE P == {i \in Items : docs[i] # NoDoc}
<1>1. PICK s \in [1..Cardinality(P) -> P] :
        /\ Range(s) = P
        /\ list = [k \in DOMAIN s |-> [id |-> s[k], val |-> docs[s[k]]]]
  BY DEF Listings
<1>2. Cardinality(P) \in Nat
  BY ItemsAssumption, FS_Subset, FS_CardinalityType
<1>3. \A i \in P : i \in Items /\ docs[i] \in Values
  BY DEF Docs
<1> HIDE DEF P
<1>4. \A k \in DOMAIN s : [id |-> s[k], val |-> docs[s[k]]] \in Row
  BY <1>1, <1>3 DEF Row
<1>5. list \in [1..Cardinality(P) -> Row]
  BY <1>1, <1>4
<1>6. list \in Seq(Row)
  BY <1>2, <1>5
<1>7. Content(list) = {<<i, docs[i]>> : i \in P}
  <2>1. DOMAIN list = DOMAIN s
    BY <1>1
  <2>2. \A k \in DOMAIN s : list[k].id = s[k] /\ list[k].val = docs[s[k]]
    BY <1>1
  <2>3. ASSUME NEW p \in Content(list) PROVE p \in {<<i, docs[i]>> : i \in P}
    <3>1. PICK k \in DOMAIN list : p = <<list[k].id, list[k].val>>
      BY <2>3 DEF Content, Range
    <3> QED BY <1>1, <2>1, <2>2, <3>1
  <2>4. ASSUME NEW i \in P PROVE <<i, docs[i]>> \in Content(list)
    <3>1. PICK k \in DOMAIN s : s[k] = i
      BY <1>1, <2>4 DEF Range
    <3> QED BY <2>1, <2>2, <3>1 DEF Content, Range
  <2> QED BY <2>3, <2>4
<1> QED BY <1>6, <1>7 DEF ContentOf, P

\* What a client with queue q sees of a team.
LEMMA ViewType ==
    ASSUME TypeOK, NEW q \in Seq(ListWrite), NEW t \in Teams
    PROVE  View(q, t) \in Docs
<1> SUFFICES ASSUME NEW i \in Items
             PROVE  LocalView(server[t], q, t, i) \in Values \cup {NoDoc}
  BY DEF View, Docs
<1> DEFINE P == Pending(q, t, i)
<1>1. P \in SUBSET (1..Len(q))
  BY DEF Pending
<1>2. Len(q) \in Nat /\ \A k \in 1..Len(q) : q[k] \in ListWrite
  OBVIOUS
<1>3. CASE P = {}
  BY <1>3 DEF LocalView, TypeOK, Docs
<1>4. CASE P # {}
  <2> HIDE DEF P
  <2>1. Latest(P) \in P
    BY <1>1, <1>2, <1>4, LatestIsMax
  <2>2. q[Latest(P)].doc \in Values \cup {NoDoc}
    BY <1>1, <1>2, <2>1 DEF ListWrite
  <2> QED BY <1>4, <2>2 DEF LocalView, P
<1> QED BY <1>3, <1>4

\* Who has just written a document sees what was written.
LEMMA ViewOfWriter ==
    ASSUME TypeOK, NEW q \in Seq(ListWrite), NEW t \in Teams, NEW i \in Items,
           NEW val \in Values \cup {NoDoc}
    PROVE  LET p == Append(q, Write(t, i, val))
           IN  /\ p \in Seq(ListWrite) /\ View(p, t) \in Docs
               /\ View(p, t)[i] = val
<1> DEFINE w == Write(t, i, val)
           p == Append(q, w)
           P == Pending(p, t, i)
<1>1. w \in ListWrite /\ w.col = t /\ w.id = i /\ w.doc = val
  BY DEF Write, ListWrite
<1> HIDE DEF w
<1>2. /\ p \in Seq(ListWrite) /\ Len(p) = Len(q) + 1 /\ Len(q) \in Nat
      /\ p[Len(q) + 1] = w
  BY <1>1
<1>3. View(p, t) \in Docs
  BY <1>2, ViewType
<1> HIDE DEF p
<1>4. P \in SUBSET (1..Len(p)) /\ Len(q) + 1 \in P
  BY <1>1, <1>2 DEF Pending
<1>5. Latest(P) \in P /\ \A j \in P : j <= Latest(P)
  <2> HIDE DEF P
  <2>1. P # {} /\ Len(p) \in Nat
    BY <1>2, <1>4
  <2> QED BY <1>4, <2>1, LatestIsMax
<1>6. Latest(P) = Len(q) + 1
  BY <1>2, <1>4, <1>5
<1>7. View(p, t)[i] = p[Latest(P)].doc
  BY <1>4 DEF View, LocalView
<1> QED BY <1>1, <1>2, <1>3, <1>6, <1>7 DEF p, w

-----------------------------------------------------------------------------
(* Taking snapshots, writing documents *)

\* A snapshot of team t is taken: it is now the last.
Taken(c, t, docs) ==
    /\ mailbox' \in [Clients -> Seq(Mail)]
    /\ told' \in [Clients -> [Teams -> Docs \cup {NoDoc}]]
    /\ told'[c] = [told[c] EXCEPT ![t] = docs]
    /\ Len(mailbox'[c]) = Len(mailbox[c]) + 1 /\ mailbox'[c] # <<>>
    /\ mailbox'[c][Len(mailbox'[c])] = [team |-> t, docs |-> docs]
    /\ \A k \in DOMAIN mailbox'[c] :
          \/ mailbox'[c][k].team = t
          \/ k \in DOMAIN mailbox[c] /\ mailbox'[c][k] = mailbox[c][k]
    /\ \A o \in Clients \ {c} : mailbox'[o] = mailbox[o] /\ told'[o] = told[o]

LEMMA TakeTakes ==
    ASSUME TypeOK, NEW c \in Clients, NEW t \in Teams, NEW docs \in Docs,
           Take(c, t, docs)
    PROVE  Taken(c, t, docs)
<1> DEFINE m == [team |-> t, docs |-> docs]
           b == Append(mailbox[c], m)
<1>1. m \in Mail /\ m.team = t
  BY DEF Mail
<1>2. /\ mailbox' = [mailbox EXCEPT ![c] = b]
      /\ told' = [told EXCEPT ![c][t] = docs]
  BY DEF Take
<1> HIDE DEF m
<1>3. mailbox \in [Clients -> Seq(Mail)] /\ mailbox[c] \in Seq(Mail)
  BY DEF TypeOK, Mail
<1>4. /\ b \in Seq(Mail) /\ b # <<>> /\ b[Len(b)] = m
      /\ Len(b) = Len(mailbox[c]) + 1
      /\ \A k \in DOMAIN b : \/ b[k] = m
                             \/ k \in DOMAIN mailbox[c] /\ b[k] = mailbox[c][k]
  <2>1. /\ b \in Seq(Mail) /\ b # <<>> /\ Len(b) = Len(mailbox[c]) + 1
        /\ b[Len(mailbox[c]) + 1] = m /\ Len(mailbox[c]) \in Nat
        /\ \A k \in 1..Len(mailbox[c]) : b[k] = mailbox[c][k]
    BY <1>1, <1>3
  <2>2. DOMAIN b = 1..Len(b) /\ DOMAIN mailbox[c] = 1..Len(mailbox[c])
    BY <1>3, <2>1
  <2> HIDE DEF b
  <2>3. \A k \in 1..Len(b) :
          k = Len(mailbox[c]) + 1 \/ k \in 1..Len(mailbox[c])
    BY <2>1
  <2> QED BY <2>1, <2>2, <2>3
<1> HIDE DEF b
<1>5. told \in [Clients -> [Teams -> Docs \cup {NoDoc}]]
  BY DEF TypeOK
<1>6. /\ told' \in [Clients -> [Teams -> Docs \cup {NoDoc}]]
      /\ told'[c] = [told[c] EXCEPT ![t] = docs]
      /\ \A o \in Clients \ {c} : told'[o] = told[o]
  BY <1>2, <1>5
<1>7. /\ mailbox' \in [Clients -> Seq(Mail)] /\ mailbox'[c] = b
      /\ \A o \in Clients \ {c} : mailbox'[o] = mailbox[o]
  BY <1>2, <1>3, <1>4
<1> QED BY <1>1, <1>4, <1>6, <1>7 DEF Taken, m

\* Item i of the open team is written: its listener has been told of the write,
\* or is.
Stored(c, i, val) ==
    /\ queue' \in [Clients -> Seq(ListWrite)]
    /\ \A o \in Clients \ {c} : queue'[o] = queue[o]
    /\ \E docs \in Docs :
          /\ docs[i] = val
          /\ \/ told[c][open[c]] = docs /\ UNCHANGED <<told, mailbox>>
             \/ Taken(c, open[c], docs)

LEMMA StoreStores ==
    ASSUME TypeOK, NEW c \in Clients, open[c] \in Teams, NEW i \in Items,
           NEW val \in Values \cup {NoDoc}, Store(c, i, val)
    PROVE  Stored(c, i, val)
<1> DEFINE q == Append(queue[c], Write(open[c], i, val))
<1>1. queue \in [Clients -> Seq(ListWrite)] /\ queue[c] \in Seq(ListWrite)
  BY DEF TypeOK, ListWrite
<1>2. /\ q \in Seq(ListWrite) /\ View(q, open[c]) \in Docs
      /\ View(q, open[c])[i] = val
  BY <1>1, ViewOfWriter
<1>3. /\ queue' = [queue EXCEPT ![c] = q]
      /\ IF told[c][open[c]] = View(q, open[c]) THEN UNCHANGED <<told, mailbox>>
                              ELSE Take(c, open[c], View(q, open[c]))
  BY DEF Store
<1> HIDE DEF q
<1>4. \/ /\ told[c][open[c]] = View(q, open[c])
         /\ UNCHANGED <<told, mailbox>>
      \/ Taken(c, open[c], View(q, open[c]))
  BY <1>2, <1>3, TakeTakes
<1> QED BY <1>1, <1>2, <1>3, <1>4 DEF Stored

-----------------------------------------------------------------------------
(* What a client's step leaves alone, and what a tap on the list is *)

\* What client c does.
Step(c) ==
    \/ \E t \in Teams : OpenTeam(c, t) \/ Notify(c, t)
    \/ ShowList(c) \/ LeaveList(c)
    \/ \E i \in Items, v \in Values : Create(c, i, v)
    \/ \E k \in DOMAIN rows[c] :
          \/ DrawRow(c, k) \/ Delete(c, k)
          \/ \E v \in Values : Update(c, k, v)
    \/ \E k \in 0..Len(rows[c]) : DeleteStale(c, k)
    \/ Deliver(c)
    \/ Flush(c)

\* The listener state of client c is as it was.
Untouched(c) ==
    /\ told'[c] = told[c] /\ mailbox'[c] = mailbox[c] /\ cache'[c] = cache[c]
    /\ listening'[c] = listening[c] /\ open'[c] = open[c]
    /\ shown'[c] = shown[c]

\* A tap on client c's list edits the array and its rows, and writes.
Tapped(c) ==
    /\ shown[c] /\ UNCHANGED <<kind, server, listening, open, shown>>
    /\ queue' \in [Clients -> Seq(ListWrite)]
    /\ cache' \in [Clients -> Seq(Row)] /\ rows' \in [Clients -> Seq(Items)]
    /\ \A o \in Clients \ {c} : cache'[o] = cache[o]
    /\ CountEdit

\* The listener is told of the write, or has been told as much before; then
\* the edit leaves an array that says so saying so.
Agreeing(c) ==
    \E docs \in Docs :
        \/ /\ told[c][open[c]] = docs /\ UNCHANGED <<told, mailbox>>
           /\ Content(cache[c]) = ContentOf(docs)
              => Content(cache'[c]) = ContentOf(docs)
        \/ Taken(c, open[c], docs)

LEMMA OpenIsTeam ==
    ASSUME TypeOK, OpenListened, NEW c \in Clients, shown[c]
    PROVE  open[c] \in Teams /\ open[c] \in listening[c]
BY DEF TypeOK, OpenListened

\* An edit of the array that says what the write says.
LEMMA StoredAgrees ==
    ASSUME TypeOK, NEW c \in Clients, NEW i, NEW val, Stored(c, i, val),
           \A docs \in Docs :
               docs[i] = val /\ Content(cache[c]) = ContentOf(docs)
               => Content(cache'[c]) = ContentOf(docs)
    PROVE  Agreeing(c)
BY DEF Stored, Agreeing

LEMMA CreateTaps ==
    ASSUME TypeOK, OpenListened, NEW c \in Clients, NEW i \in Items,
           NEW v \in Values, Create(c, i, v)
    PROVE  Tapped(c) /\ Agreeing(c)
<1> DEFINE r == [id |-> i, val |-> v]
           list == Append(cache[c], r)
<1>1. Stored(c, i, v)
  BY OpenIsTeam, StoreStores DEF Create
<1>2. r \in Row /\ r.id = i /\ r.val = v
  BY DEF Row
<1>3. /\ cache' = [cache EXCEPT ![c] = list]
      /\ rows' = [rows EXCEPT ![c] = Picture(cache'[c])]
  BY DEF Create
<1> HIDE DEF r
<1>4. /\ cache[c] \in Seq(Row) /\ list \in Seq(Row)
      /\ Range(list) = Range(cache[c]) \cup {r}
  BY <1>2, AppendNewcomer DEF TypeOK
<1> HIDE DEF list
<1>5. cache' \in [Clients -> Seq(Row)] /\ cache'[c] = list
      /\ \A o \in Clients \ {c} : cache'[o] = cache[o]
  BY <1>3, <1>4 DEF TypeOK
<1>6. Picture(list) \in Seq(Items)
  <2>1. /\ Len(list) \in Nat /\ DOMAIN list = 1..Len(list)
        /\ \A k \in 1..Len(list) : list[k] \in Row
    BY <1>4
  <2>2. Picture(list) \in [1..Len(list) -> Items]
    BY <2>1 DEF Picture, Row
  <2> QED BY <2>1, <2>2
<1>7. rows' \in [Clients -> Seq(Items)]
  BY <1>3, <1>5, <1>6 DEF TypeOK
<1>8. ASSUME NEW docs \in Docs, docs[i] = v,
             Content(cache[c]) = ContentOf(docs)
      PROVE  Content(cache'[c]) = ContentOf(docs)
  <2>1. <<i, v>> \in ContentOf(docs)
    BY <1>8, ListNoDocAssumption DEF ContentOf
  <2>2. Content(list) = Content(cache[c]) \cup {<<i, v>>}
    BY <1>2, <1>4 DEF Content
  <2> QED BY <1>5, <1>8, <2>1, <2>2
<1>9. Agreeing(c)
  BY <1>1, <1>8, StoredAgrees
<1>10. Tapped(c)
  BY <1>1, <1>5, <1>7 DEF Create, Tapped, Stored
<1> QED BY <1>9, <1>10

\* The rows of document i, changed in place.
Changed(list, i, v) ==
    [j \in DOMAIN list |-> IF list[j].id = i THEN [id |-> i, val |-> v]
                                             ELSE list[j]]

LEMMA ChangedInPlace ==
    ASSUME NEW list \in Seq(Row), NEW i \in Items, NEW v \in Values
    PROVE  /\ Changed(list, i, v) \in Seq(Row)
           /\ \A docs \in Docs :
                 docs[i] = v /\ Content(list) = ContentOf(docs)
                 => Changed(list, i, v) = list
<1>1. /\ DOMAIN list = 1..Len(list) /\ Len(list) \in Nat
      /\ \A j \in 1..Len(list) : list[j] \in Row
  OBVIOUS
<1>2. [id |-> i, val |-> v] \in Row
  BY DEF Row
<1>3. Changed(list, i, v) \in [1..Len(list) -> Row]
  BY <1>1, <1>2 DEF Changed
<1>4. ASSUME NEW docs \in Docs, docs[i] = v, Content(list) = ContentOf(docs)
      PROVE  Changed(list, i, v) = list
  <2>1. ASSUME NEW j \in DOMAIN list, list[j].id = i
        PROVE  list[j] = [id |-> i, val |-> v]
    <3>1. <<i, list[j].val>> \in ContentOf(docs)
      BY <1>4, <2>1 DEF Content, Range
    <3>2. list[j].val = v
      BY <1>4, <3>1 DEF ContentOf
    <3> QED BY <1>1, <2>1, <3>2 DEF Row
  <2>2. Changed(list, i, v) = [j \in DOMAIN list |-> list[j]]
    BY <2>1 DEF Changed
  <2> QED BY <1>1, <2>2
<1> QED BY <1>1, <1>3, <1>4

LEMMA UpdateTaps ==
    ASSUME TypeOK, OpenListened, NEW c \in Clients, NEW k \in DOMAIN rows[c],
           NEW v \in Values, Update(c, k, v)
    PROVE  Tapped(c) /\ (Agreeing(c) \/ UNCHANGED <<told, mailbox, cache>>)
<1> DEFINE i == rows[c][k]
<1>1. i \in Items /\ cache[c] \in Seq(Row)
  BY DEF TypeOK
<1> HIDE DEF i
<1>2. CASE Store(c, i, v) /\ UNCHANGED cache
  <2>1. Stored(c, i, v)
    BY <1>1, <1>2, OpenIsTeam, StoreStores DEF Update
  <2>2. Agreeing(c)
    BY <1>2, <2>1, StoredAgrees
  <2>3. Tapped(c)
    BY <1>2, <2>1 DEF Update, Tapped, Stored, TypeOK
  <2> QED BY <2>2, <2>3
<1>3. CASE /\ Store(c, i, v)
           /\ cache' = [cache EXCEPT ![c] = Changed(cache[c], i, v)]
  <2>1. Stored(c, i, v)
    BY <1>1, <1>3, OpenIsTeam, StoreStores DEF Update
  <2>2. Changed(cache[c], i, v) \in Seq(Row)
    BY <1>1, ChangedInPlace
  <2>3. /\ cache' \in [Clients -> Seq(Row)]
        /\ cache'[c] = Changed(cache[c], i, v)
        /\ \A o \in Clients \ {c} : cache'[o] = cache[o]
    BY <1>3, <2>2 DEF TypeOK
  <2>4. Agreeing(c)
    BY <1>1, <2>1, <2>3, ChangedInPlace, StoredAgrees
  <2>5. Tapped(c)
    BY <2>1, <2>3 DEF Update, Tapped, Stored, TypeOK
  <2> QED BY <2>4, <2>5
<1>4. CASE UNCHANGED <<queue, told, mailbox, cache>>
  <2>1. Tapped(c)
    BY <1>4 DEF Update, Tapped, TypeOK, ListWrite
  <2> QED BY <1>4, <2>1
<1> QED
  BY <1>2, <1>3, <1>4
     DEF Update, UpdateAnnouncement, UpdateListed, Changed, i

\* A deleted document was listed, so the listener has not been told of its end.
LEMMA DeleteTaps ==
    ASSUME TypeOK, OpenListened, NEW c \in Clients, NEW k \in DOMAIN rows[c],
           Delete(c, k)
    PROVE  /\ Tapped(c)
           /\ Agreeing(c) \/ (kind = "contacts" /\ UNCHANGED <<told, mailbox>>)
<1> DEFINE i == cache[c][k].id
           list == RemoveAt(cache[c], k)
<1>1. /\ cache[c] \in Seq(Row) /\ rows[c] \in Seq(Items)
      /\ Len(cache[c]) = Len(rows[c])
  BY DEF TypeOK, Delete
<1>2. k \in 1..Len(cache[c]) /\ k \in 1..Len(rows[c])
  BY <1>1
<1>3. cache[c][k] \in Row /\ i \in Items
  <2>1. cache[c][k] \in Row
    BY <1>1, <1>2
  <2> QED BY <2>1 DEF Row
<1>4. list \in Seq(Row) /\ RemoveAt(rows[c], k) \in Seq(Items)
  BY <1>1, <1>2, RemoveAtType
<1>5. /\ cache' = [cache EXCEPT ![c] = list]
      /\ rows' = [rows EXCEPT ![c] = RemoveAt(rows[c], k)]
  BY DEF Delete
<1> HIDE DEF list
<1>6. /\ cache' \in [Clients -> Seq(Row)] /\ rows' \in [Clients -> Seq(Items)]
      /\ \A o \in Clients \ {c} : cache'[o] = cache[o]
  BY <1>4, <1>5 DEF TypeOK
<1>7. <<i, cache[c][k].val>> \in Content(cache[c])
  BY <1>2 DEF Content, Range
<1> HIDE DEF i
<1>8. ASSUME Store(c, i, NoDoc)
      PROVE  Tapped(c) /\ Agreeing(c)
  <2>1. Stored(c, i, NoDoc)
    BY <1>3, <1>8, OpenIsTeam, StoreStores DEF Delete
  <2>2. Tapped(c)
    BY <1>6, <2>1 DEF Delete, Tapped, Stored
  <2>3. ASSUME NEW docs \in Docs, docs[i] = NoDoc,
               Content(cache[c]) = ContentOf(docs)
        PROVE  FALSE
    <3>1. docs[i] # NoDoc
      BY <1>7, <2>3 DEF ContentOf
    <3> QED BY <2>3, <3>1
  <2>4. Agreeing(c)
    BY <2>1, <2>3, StoredAgrees
  <2> QED BY <2>2, <2>4
<1>9. ASSUME UNCHANGED <<queue, told, mailbox>>
      PROVE  Tapped(c)
  BY <1>6, <1>9 DEF Delete, Tapped, TypeOK, ListWrite
<1> QED
  BY <1>8, <1>9
     DEF Delete, DeletePlayer, DeleteAnnouncement, DeleteContact, i

LEMMA NotifyTakes ==
    ASSUME TypeOK, NEW c \in Clients, NEW t \in Teams, Notify(c, t)
    PROVE  \E docs \in Docs : Taken(c, t, docs)
<1>1. queue[c] \in Seq(ListWrite)
  BY DEF TypeOK, ListWrite
<1> QED BY <1>1, ViewType, TakeTakes DEF Notify

-----------------------------------------------------------------------------
(* Types *)

LEMMA InitType == Init => TypeOK
BY ListStartAssumption, ListBoundsAssumption, EmptySeq DEF Init, TypeOK

LEMMA CountedEdit ==
    ASSUME TypeOK, CountEdit
    PROVE  edits' \in 0..MaxEdits[kind]
<1>1. edits \in 0..MaxEdits[kind] /\ MaxEdits[kind] \in Nat
  BY ListBoundsAssumption DEF TypeOK
<1> QED BY <1>1 DEF CountEdit

\* A relaunch empties everything but the queue.
LEMMA RelaunchType ==
    ASSUME TypeOK, NEW c \in Clients, Relaunch(c)
    PROVE  /\ listening' \in [Clients -> SUBSET Teams]
           /\ told' \in [Clients -> [Teams -> Docs \cup {NoDoc}]]
           /\ mailbox' \in [Clients -> Seq(Mail)]
           /\ cache' \in [Clients -> Seq(Row)]
           /\ open' \in [Clients -> Teams \cup {NoDoc}]
           /\ shown' \in [Clients -> BOOLEAN]
           /\ rows' \in [Clients -> Seq(Items)]
BY EmptySeq DEF Relaunch, TypeOK, Mail

LEMMA TapType ==
    ASSUME TypeOK, NEW c \in Clients, Tapped(c),
           Agreeing(c) \/ UNCHANGED <<told, mailbox>>
    PROVE  TypeOK'
<1>1. /\ mailbox' \in [Clients -> Seq(Mail)]
      /\ told' \in [Clients -> [Teams -> Docs \cup {NoDoc}]]
  BY DEF Agreeing, Taken, TypeOK, Mail
<1>2. edits' \in 0..MaxEdits[kind]
  BY CountedEdit DEF Tapped
<1> QED BY <1>1, <1>2 DEF Tapped, TypeOK, Mail, ListWrite

LEMMA ScreenType ==
    ASSUME TypeOK, NEW c \in Clients,
           \/ \E t \in Teams : OpenTeam(c, t) \/ Notify(c, t)
           \/ ShowList(c) \/ LeaveList(c)
           \/ \E k \in DOMAIN rows[c] : DrawRow(c, k)
    PROVE  TypeOK'
<1>1. ASSUME NEW t \in Teams, OpenTeam(c, t) PROVE TypeOK'
  <2>1. told' \in [Clients -> [Teams -> Docs \cup {NoDoc}]]
    BY <1>1 DEF OpenTeam, TypeOK
  <2>2. /\ open' \in [Clients -> Teams \cup {NoDoc}]
        /\ listening' \in [Clients -> SUBSET Teams]
    BY <1>1 DEF OpenTeam, TypeOK
  <2> QED BY <1>1, <2>1, <2>2 DEF OpenTeam, TypeOK
<1>2. ASSUME NEW t \in Teams, Notify(c, t) PROVE TypeOK'
  BY <1>2, NotifyTakes DEF Notify, Taken, TypeOK, Mail
<1>3. CASE ShowList(c)
  <2> DEFINE list == cache[c]
  <2>1. /\ list \in Seq(Row) /\ Len(list) \in Nat /\ DOMAIN list = 1..Len(list)
        /\ \A k \in 1..Len(list) : list[k] \in Row
    BY DEF TypeOK
  <2>2. Picture(list) \in [1..Len(list) -> Items]
    BY <2>1 DEF Picture, Row
  <2>3. Picture(list) \in Seq(Items)
    BY <2>1, <2>2
  <2>4. rows' = [rows EXCEPT ![c] = Picture(list)]
    BY <1>3 DEF ShowList
  <2> HIDE DEF list
  <2>5. rows' \in [Clients -> Seq(Items)]
    BY <2>3, <2>4 DEF TypeOK
  <2> QED BY <1>3, <2>5 DEF ShowList, TypeOK
<1>4. CASE LeaveList(c)
  <2>1. rows' \in [Clients -> Seq(Items)]
    BY <1>4, EmptySeq DEF LeaveList, TypeOK
  <2> QED BY <1>4, <2>1 DEF LeaveList, TypeOK
<1>5. ASSUME NEW k \in DOMAIN rows[c], DrawRow(c, k) PROVE TypeOK'
  <2>1. CASE k \in DOMAIN cache[c]
    <3>1. cache[c][k].id \in Items
      <4>1. cache[c][k] \in Row
        BY <2>1 DEF TypeOK
      <4> QED BY <4>1 DEF Row
    <3>2. rows' = [rows EXCEPT ![c][k] = cache[c][k].id]
      BY <1>5, <2>1 DEF DrawRow
    <3>3. rows[c] \in Seq(Items)
      BY DEF TypeOK
    <3>4. [rows[c] EXCEPT ![k] = cache[c][k].id] \in Seq(Items)
      BY <3>1, <3>3, ExceptSeq
    <3>5. rows' \in [Clients -> Seq(Items)]
      BY <3>2, <3>4 DEF TypeOK
    <3> QED BY <1>5, <2>1, <3>5 DEF DrawRow, TypeOK
  <2>2. CASE k \notin DOMAIN cache[c]
    <3>1. Relaunch(c)
      BY <1>5, <2>2 DEF DrawRow
    <3> QED BY <1>5, <3>1, RelaunchType DEF DrawRow, TypeOK, Mail
  <2> QED BY <2>1, <2>2
<1> QED BY <1>1, <1>2, <1>3, <1>4, <1>5

LEMMA QueueType ==
    ASSUME TypeOK, OpenListened, NEW c \in Clients,
           \/ \E k \in 0..Len(rows[c]) : DeleteStale(c, k)
           \/ Deliver(c) \/ Flush(c)
    PROVE  TypeOK'
<1>1. /\ queue \in [Clients -> Seq(ListWrite)] /\ queue[c] \in Seq(ListWrite)
      /\ mailbox[c] \in Seq(Mail) /\ cache[c] \in Seq(Row)
  BY DEF TypeOK, ListWrite, Mail
<1>2. ASSUME NEW k, DeleteStale(c, k) PROVE TypeOK'
  <2>1. queue' \in [Clients -> Seq(ListWrite)]
    <3>1. CASE kind = "players" /\ k \in DOMAIN cache[c]
      <4> DEFINE w == Write(open[c], cache[c][k].id, NoDoc)
                 q == Append(queue[c], w)
      <4>1. cache[c][k] \in Row
        BY <1>1, <3>1
      <4>2. w \in ListWrite
        BY <1>2, <4>1, OpenIsTeam DEF Write, ListWrite, Row, DeleteStale
      <4>3. queue' = [queue EXCEPT ![c] = q]
        BY <1>2, <3>1 DEF DeleteStale
      <4> HIDE DEF w
      <4>4. q \in Seq(ListWrite)
        BY <1>1, <4>2
      <4> HIDE DEF q
      <4> QED BY <1>1, <4>3, <4>4
    <3>2. CASE ~(kind = "players" /\ k \in DOMAIN cache[c])
      BY <1>1, <1>2, <3>2 DEF DeleteStale
    <3> QED BY <3>1, <3>2
  <2>2. edits' \in 0..MaxEdits[kind]
    BY <1>2, CountedEdit DEF DeleteStale
  <2> QED
    BY <1>2, <2>1, <2>2, RelaunchType DEF DeleteStale, TypeOK, Mail, ListWrite
<1>3. CASE Deliver(c)
  <2>1. Head(mailbox[c]) \in Mail /\ Tail(mailbox[c]) \in Seq(Mail)
    BY <1>1, <1>3 DEF Deliver
  <2>2. PICK list \in Listings(Head(mailbox[c]).docs) :
          cache' = [cache EXCEPT ![c] = list]
    BY <1>3 DEF Deliver
  <2>3. list \in Seq(Row)
    BY <2>1, ListingsOf DEF Mail
  <2>4. /\ cache' \in [Clients -> Seq(Row)]
        /\ mailbox' \in [Clients -> Seq(Mail)]
    BY <1>3, <2>1, <2>2, <2>3 DEF Deliver, TypeOK, Mail
  <2> QED BY <1>3, <2>4 DEF Deliver, TypeOK, Mail
<1>4. CASE Flush(c)
  <2> DEFINE w == Head(queue[c])
  <2>1. w \in ListWrite /\ Tail(queue[c]) \in Seq(ListWrite)
    BY <1>1, <1>4 DEF Flush
  <2>2. \A t \in Teams : Commit(server[t], t, w) \in Docs
    BY <2>1 DEF Commit, ListWrite, Docs, TypeOK
  <2>3. server' \in [Teams -> Docs]
    BY <1>4, <2>2 DEF Flush
  <2>4. queue' \in [Clients -> Seq(ListWrite)]
    BY <1>1, <1>4, <2>1 DEF Flush
  <2> QED BY <1>4, <2>3, <2>4 DEF Flush, TypeOK, ListWrite
<1> QED BY <1>2, <1>3, <1>4

LEMMA NextType == TypeOK /\ OpenListened /\ [Next]_vars => TypeOK'
<1> SUFFICES ASSUME TypeOK, OpenListened, [Next]_vars PROVE TypeOK'
  OBVIOUS
<1>1. CASE UNCHANGED vars
  BY <1>1 DEF vars, TypeOK
<1>2. ASSUME NEW c \in Clients, Step(c)
      PROVE  TypeOK'
  <2>1. ASSUME NEW i \in Items, NEW v \in Values, Create(c, i, v)
        PROVE  TypeOK'
    BY <2>1, CreateTaps, TapType
  <2>2. ASSUME NEW k \in DOMAIN rows[c], NEW v \in Values, Update(c, k, v)
        PROVE  TypeOK'
    BY <2>2, UpdateTaps, TapType
  <2>3. ASSUME NEW k \in DOMAIN rows[c], Delete(c, k)
        PROVE  TypeOK'
    BY <2>3, DeleteTaps, TapType
  <2> QED BY <1>2, <2>1, <2>2, <2>3, ScreenType, QueueType DEF Step
<1> QED BY <1>1, <1>2 DEF Next, Step

-----------------------------------------------------------------------------
(* The invariant is inductive *)

\* Clients keep their hands off one another's state.
LEMMA OthersUntouched ==
    ASSUME TypeOK, OpenListened, NEW c \in Clients, Step(c),
           NEW o \in Clients \ {c}
    PROVE  Untouched(o)
<1>1. ASSUME Tapped(c), Agreeing(c) \/ UNCHANGED <<told, mailbox>>
      PROVE  Untouched(o)
  BY <1>1 DEF Tapped, Agreeing, Taken, Untouched
<1>2. ASSUME Relaunch(c) PROVE Untouched(o)
  BY <1>2 DEF Relaunch, TypeOK, Untouched
<1>3. ASSUME NEW t \in Teams, Notify(c, t) PROVE Untouched(o)
  BY <1>3, NotifyTakes DEF Notify, Taken, Untouched
<1>4. ASSUME NEW t \in Teams, OpenTeam(c, t) PROVE Untouched(o)
  BY <1>4 DEF OpenTeam, TypeOK, Untouched
<1>5. CASE ShowList(c) \/ LeaveList(c) \/ Deliver(c) \/ Flush(c)
  BY <1>5 DEF ShowList, LeaveList, Deliver, Flush, TypeOK, Untouched
<1>6. ASSUME NEW k, DrawRow(c, k) PROVE Untouched(o)
  BY <1>2, <1>6 DEF DrawRow, Untouched
<1>7. ASSUME NEW k, DeleteStale(c, k) PROVE Untouched(o)
  BY <1>2, <1>7 DEF DeleteStale
<1> QED
  BY <1>1, <1>3, <1>4, <1>5, <1>6, <1>7, CreateTaps, UpdateTaps, DeleteTaps
     DEF Step

\* What a step of a client is to its listeners.
Quietly(c) ==
    /\ Untouched(c) \/ (/\ shown'[c] => shown[c] \/ open[c] # NoDoc
                        /\ open'[c] = open[c] /\ listening'[c] = listening[c]
                        /\ told'[c] = told[c] /\ mailbox'[c] = mailbox[c]
                        /\ cache'[c] = cache[c])

LEMMA StepKinds ==
    ASSUME TypeOK, OpenListened, NEW c \in Clients, Step(c)
    PROVE  \/ \E t \in Teams : OpenTeam(c, t) \/ Notify(c, t)
           \/ Tapped(c) /\ Agreeing(c)
           \/ Tapped(c) /\ kind = "contacts" /\ UNCHANGED <<told, mailbox>>
           \/ Relaunch(c) \/ Deliver(c) \/ Quietly(c)
<1>2. CASE ShowList(c) \/ LeaveList(c) \/ Flush(c)
  BY <1>2 DEF ShowList, LeaveList, Flush, TypeOK, Quietly
<1>3. ASSUME NEW k, DrawRow(c, k) PROVE Relaunch(c) \/ Quietly(c)
  BY <1>3 DEF DrawRow, Quietly, Untouched
<1>4. ASSUME NEW k, DeleteStale(c, k) PROVE Relaunch(c)
  BY <1>4 DEF DeleteStale
<1>5. ASSUME Tapped(c), UNCHANGED <<told, mailbox, cache>> PROVE Quietly(c)
  BY <1>5 DEF Tapped, Quietly, Untouched
<1> QED
  BY <1>2, <1>3, <1>4, <1>5, CreateTaps, UpdateTaps, DeleteTaps DEF Step

LEMMA KindFixed ==
    ASSUME NEW c \in Clients, Step(c)
    PROVE  kind' = kind
BY DEF Step, OpenTeam, Notify, ShowList, LeaveList, Create, DrawRow, Delete,
       Update, DeleteStale, Deliver, Flush

\* The screens and the waiting snapshots are those of teams listened to.
LEMMA ListenedStep ==
    ASSUME TypeOK, OpenListened, MailListened, NEW c \in Clients, Step(c)
    PROVE  OpenListened' /\ MailListened'
<1> DEFINE Fit == /\ shown[c] => open[c] # NoDoc
                  /\ open[c] # NoDoc => open[c] \in listening[c]
                  /\ \A k \in DOMAIN mailbox[c] :
                        mailbox[c][k].team \in listening[c]
<1>1. Fit
  BY DEF OpenListened, MailListened
<1>2. Fit'
  <2>1. ASSUME NEW t \in Teams, OpenTeam(c, t) PROVE Fit'
    BY <1>1, <2>1 DEF OpenTeam, TypeOK
  <2>2. ASSUME NEW t \in Teams, Notify(c, t) PROVE Fit'
    <3>1. PICK docs \in Docs : Taken(c, t, docs)
      BY <2>2, NotifyTakes
    <3>2. /\ t \in listening[c] /\ listening'[c] = listening[c]
          /\ open'[c] = open[c] /\ shown'[c] = shown[c]
      BY <2>2 DEF Notify
    <3> QED BY <1>1, <3>1, <3>2 DEF Taken
  <2>3. CASE Tapped(c) /\ (Agreeing(c) \/ UNCHANGED <<told, mailbox>>)
    <3>1. \/ mailbox' = mailbox
          \/ \E docs \in Docs : Taken(c, open[c], docs)
      BY <2>3 DEF Agreeing
    <3>2. /\ open[c] \in listening[c] /\ listening'[c] = listening[c]
          /\ open'[c] = open[c] /\ shown'[c] = shown[c]
      BY <2>3, OpenIsTeam DEF Tapped
    <3> QED BY <1>1, <3>1, <3>2 DEF Taken
  <2>4. CASE Relaunch(c)
    <3>1. /\ ~shown'[c] /\ open'[c] = NoDoc /\ mailbox'[c] = <<>>
      BY <2>4 DEF Relaunch, TypeOK
    <3> QED BY <3>1
  <2>5. CASE Deliver(c)
    <3>1. /\ mailbox[c] \in Seq(Mail) /\ mailbox[c] # <<>>
          /\ mailbox'[c] = Tail(mailbox[c])
          /\ open'[c] = open[c] /\ shown'[c] = shown[c]
          /\ listening'[c] = listening[c]
      BY <2>5 DEF Deliver, TypeOK, Mail
    <3>2. \A k \in DOMAIN mailbox'[c] :
            /\ k + 1 \in DOMAIN mailbox[c]
            /\ mailbox'[c][k] = mailbox[c][k + 1]
      BY <3>1, HeadTailProperties
    <3> QED BY <1>1, <3>1, <3>2
  <2>6. CASE Quietly(c)
    BY <1>1, <2>6 DEF Quietly, Untouched
  <2> QED BY <2>1, <2>2, <2>3, <2>4, <2>5, <2>6, StepKinds
<1>3. ASSUME NEW o \in Clients \ {c}
      PROVE  /\ shown'[o] => open'[o] # NoDoc
             /\ open'[o] # NoDoc => open'[o] \in listening'[o]
             /\ \A k \in DOMAIN mailbox'[o] :
                   mailbox'[o][k].team \in listening'[o]
  <2>1. Untouched(o)
    BY OthersUntouched
  <2> QED BY <2>1 DEF Untouched, OpenListened, MailListened
<1> QED BY <1>2, <1>3 DEF OpenListened, MailListened

\* The last of a queue is the last of what follows its head, if any does.
LEMMA LastOfTail ==
    ASSUME NEW S, NEW q \in Seq(S), q # <<>>
    PROVE  /\ Len(q) = 1 => Tail(q) = <<>> /\ Head(q) = q[Len(q)]
           /\ Len(q) # 1 => /\ Tail(q) # <<>>
                            /\ Tail(q)[Len(Tail(q))] = q[Len(q)]
<1> DEFINE t == Tail(q)
<1>1. /\ t \in Seq(S) /\ Len(t) = Len(q) - 1
      /\ \A i \in 1..Len(t) : t[i] = q[i + 1]
  BY HeadTailProperties
<1>2. Len(q) \in Nat /\ Head(q) = q[1]
  OBVIOUS
<1> HIDE DEF t
<1>3. /\ Len(t) = 0 <=> t = <<>>
      /\ Len(t) \in Nat
  BY <1>1, EmptySeq
<1>4. CASE Len(q) = 1
  <2>1. t = <<>>
    BY <1>1, <1>3, <1>4
  <2> QED BY <1>2, <1>4, <2>1 DEF t
<1>5. CASE Len(q) # 1
  <2>1. Len(t) \in 1..Len(t) /\ t # <<>>
    BY <1>1, <1>2, <1>3, <1>5
  <2>2. t[Len(t)] = q[Len(q)]
    BY <1>1, <1>2, <2>1
  <2> QED BY <1>5, <2>1, <2>2 DEF t
<1> QED BY <1>4, <1>5

\* The array of whoever listens to one team says what the listener was told.
LEMMA ReflectStep ==
    ASSUME TypeOK, ListsInv, NEW c \in Clients, Step(c)
    PROVE  AllReflect'
<1> USE DEF ListsInv
<1> SUFFICES ASSUME NEW o \in Clients, NEW t \in Teams, kind # "contacts",
                    listening'[o] = {t}, told'[o][t] # NoDoc
             PROVE  Reflects(o, t)'
  BY KindFixed DEF AllReflect
<1>1. ASSUME told'[o] = told[o], mailbox'[o] = mailbox[o],
             cache'[o] = cache[o], listening'[o] = listening[o]
      PROVE  Reflects(o, t)'
  BY <1>1 DEF AllReflect, Reflects
<1>2. CASE o # c \/ Quietly(c)
  BY <1>1, <1>2, OthersUntouched DEF Quietly, Untouched
<1>3. ASSUME o = c, listening[c] = {t}, NEW docs \in Docs, Taken(c, t, docs)
      PROVE  Reflects(o, t)'
  <2>1. told'[c][t] = docs
    BY <1>3 DEF Taken, TypeOK
  <2> QED BY <1>3, <2>1 DEF Taken, Reflects
<1>4. ASSUME o = c, NEW x \in Teams, Notify(c, x)
      PROVE  Reflects(o, t)'
  <2>1. x = t /\ listening[c] = {t}
    BY <1>4 DEF Notify
  <2> QED BY <1>3, <1>4, <2>1, NotifyTakes
<1>5. ASSUME o = c, NEW x \in Teams, OpenTeam(c, x)
      PROVE  FALSE
  <2>1. x \in listening'[c] /\ told'[c][x] = NoDoc
    BY <1>5 DEF OpenTeam, TypeOK
  <2> QED BY <1>5, <2>1
<1>6. ASSUME o = c, Relaunch(c)
      PROVE  FALSE
  BY <1>6 DEF Relaunch, TypeOK
<1>7. CASE o = c /\ Tapped(c) /\ Agreeing(c)
  <2>1. open[c] = t /\ listening[c] = {t}
    BY <1>7, OpenIsTeam DEF Tapped
  <2>2. PICK docs \in Docs :
          \/ /\ told[c][t] = docs /\ UNCHANGED <<told, mailbox>>
             /\ Content(cache[c]) = ContentOf(docs)
                => Content(cache'[c]) = ContentOf(docs)
          \/ Taken(c, t, docs)
    BY <1>7, <2>1 DEF Agreeing
  <2>3. CASE /\ told[c][t] = docs /\ UNCHANGED <<told, mailbox>>
             /\ Content(cache[c]) = ContentOf(docs)
                => Content(cache'[c]) = ContentOf(docs)
    <3>1. Reflects(c, t)
      BY <2>1, <2>3, ListNoDocAssumption DEF AllReflect
    <3> QED BY <1>7, <2>3, <3>1 DEF Reflects
  <2> QED BY <1>3, <1>7, <2>1, <2>2, <2>3
<1>8. CASE o = c /\ Deliver(c)
  <2>1. /\ mailbox[c] \in Seq(Mail) /\ mailbox[c] # <<>>
        /\ listening[c] = {t} /\ told'[c] = told[c]
        /\ mailbox'[c] = Tail(mailbox[c])
    BY <1>8 DEF Deliver, TypeOK, Mail
  <2>2. PICK list \in Listings(Head(mailbox[c]).docs) : cache'[c] = list
    BY <1>8 DEF Deliver, TypeOK
  <2>3. Reflects(c, t)
    BY <1>8, <2>1 DEF AllReflect
  <2>4. CASE Len(mailbox[c]) = 1
    <3>1. mailbox'[c] = <<>> /\ Head(mailbox[c]) = mailbox[c][Len(mailbox[c])]
      BY <2>1, <2>4, LastOfTail
    <3>2. Head(mailbox[c]).docs = told[c][t]
      BY <2>1, <2>3, <3>1 DEF Reflects
    <3>3. told[c][t] \in Docs
      BY <1>8, <2>1 DEF TypeOK
    <3>4. Content(list) = ContentOf(told[c][t])
      BY <2>2, <3>2, <3>3, ListingsOf
    <3> QED BY <1>8, <2>1, <2>2, <3>1, <3>4 DEF Reflects
  <2>5. CASE Len(mailbox[c]) # 1
    <3>1. /\ mailbox'[c] # <<>>
          /\ mailbox'[c][Len(mailbox'[c])] = mailbox[c][Len(mailbox[c])]
      BY <2>1, <2>5, LastOfTail
    <3> QED BY <1>8, <2>1, <2>3, <3>1 DEF Reflects
  <2> QED BY <2>4, <2>5
<1> QED BY <1>2, <1>4, <1>5, <1>6, <1>7, <1>8, StepKinds

LEMMA InitLists == Init => ListsInv
BY DEF Init, ListsInv, OpenListened, MailListened, AllReflect

LEMMA NextLists == TypeOK /\ ListsInv /\ [Next]_vars => ListsInv'
<1> SUFFICES ASSUME TypeOK, ListsInv, [Next]_vars PROVE ListsInv'
  OBVIOUS
<1>1. CASE UNCHANGED vars
  BY <1>1 DEF vars, ListsInv, OpenListened, MailListened, AllReflect, Reflects
<1>2. ASSUME NEW c \in Clients, Step(c)
      PROVE  ListsInv'
  BY <1>2, ListenedStep, ReflectStep DEF ListsInv
<1> QED BY <1>1, <1>2 DEF Next, Step

LEMMA ListsHold == Spec => [](TypeOK /\ ListsInv)
<1>1. TypeOK /\ ListsInv /\ [Next]_vars => (TypeOK /\ ListsInv)'
  BY NextType, NextLists DEF ListsInv
<1> QED BY <1>1, InitType, InitLists, PTL DEF Spec

-----------------------------------------------------------------------------
(* Theorems *)

\* The arrays, the rows, the snapshots and the writes of all three kinds of
\* list keep their types: no edit and no handler (PlayerController.swift,
\* ContactController.swift, AnnouncementController.swift) leaves a hole.
THEOREM TypeCorrect == Spec => []TypeOK
BY ListsHold, PTL

\* Players and announcements: when a client that listens to one team has
\* nothing to send and nothing to hear, its array has exactly the documents of
\* the server.  Of the contacts it does not hold: deleteContact
\* (ContactController.swift) writes nothing.
THEOREM ArraysConverge == Spec => [](kind # "contacts" => Converged)
<1>1. TypeOK /\ ListsInv => (kind # "contacts" => Converged)
  <2> SUFFICES ASSUME TypeOK, ListsInv, kind # "contacts",
                      NEW c \in Clients, NEW t \in Teams,
                      listening[c] = {t}, mailbox[c] = <<>>,
                      told[c][t] = server[t]
               PROVE  Content(cache[c]) = ContentOf(server[t])
    BY DEF Converged
  <2>1. told[c][t] # NoDoc
    BY ListNoDocAssumption DEF TypeOK
  <2> QED BY <2>1 DEF ListsInv, AllReflect, Reflects
<1> QED BY <1>1, ListsHold, PTL
============================================================================
