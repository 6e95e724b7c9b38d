------------------------------ MODULE Listener ------------------------------
(***************************************************************************)
(* How the Firestore SDK in the app's Pods keeps a listener up to date: one *)
(* phone that listens to a collection, as each of the app's listeners does, *)
(* while it and other phones write to it.                                  *)
(*                                                                         *)
(* Two streams race.  The watch stream tells of documents as of one version *)
(* of the server after the other; the write stream acknowledges the phone's *)
(* own writes with the version they got.  The phone keeps what it heard on  *)
(* disk, lays the writes not yet acknowledged over it, and follows          *)
(* documents that it has but the server does not name with targets of their *)
(* own, until they are out of limbo.                                       *)
(*                                                                         *)
(* Everything here runs on the worker queue.  What the server does is       *)
(* external.  How writes get there is the subject of WritePipeline: here    *)
(* they are applied in order, and again if an answer was lost.             *)
(***************************************************************************)
EXTENDS Naturals, Sequences, FiniteSets, SequencesExt

CONSTANTS
    Docs,           \* the documents there may be in the collection
    Collection,     \* what the query's target is about
    Nothing,        \* no document
    MaxCommits,     \* where the others' writes end
    MaxWrites,      \* bound on the phone's own writes
    MaxTroubles     \* bound on failures, timeouts, network changes, kills

ASSUME DocsAssumption ==
    IsFiniteSet(Docs) /\ Docs # {} /\ Collection \notin Docs
ASSUME NothingAssumption == Nothing \notin Nat
ASSUME ListenerBoundsAssumption ==
    MaxCommits \in Nat /\ MaxWrites \in Nat /\ MaxTroubles \in Nat

VARIABLES
    history,    \* the server: what it has committed; versions are positions
    stream,     \* the watch stream: both directions, and what it watches
    acks,       \* versions of the phone's writes, on their way back
    queue,      \* on disk: the mutation queue
    cache,      \* on disk: remote_document_cache_
    disk,       \* on disk: the query's resume token and matching keys
    targets,    \* listen_targets_, with what the limbo resolutions and the
                \* aggregator keep for each
    lastLimbo,  \* the number of the last limbo target
    view,       \* the query's View
    online,     \* OnlineStateTracker's state
    raised,     \* whether the listener was told of anything yet
    shown,      \* what it was told last: the value of each document
    writes,     \* how many writes the phone has made
    troubles,   \* how many troubles there were
    keysLost    \* nothing the code keeps: whether the app was last launched
                \* with matching keys that were not those of its resume token

vars == <<history, stream, acks, queue, cache, disk, targets, lastLimbo, view,
          online, raised, shown, writes, troubles, keysLost>>

Value == Nat \cup {Nothing}
Change == [doc : Docs, value : Value, own : BOOLEAN]
Id == [number : Nat, doc : Docs \cup {Collection}]
Target == [id : Id, token : Nat, received : BOOLEAN, responses : Nat]
Request == [op : {"watch", "unwatch"}, target : Id, token : Nat]
Message == [kind : {"answer"}, target : Id]
           \cup [kind : {"snapshot"}, version : Nat,
                 how : {"replay", "count", "reset"},
                 docs : [Docs -> SUBSET Id], count : Nat]
Stream == [open : BOOLEAN, up : Seq(Request), down : Seq(Message),
           watched : SUBSET [target : Id, told : Nat, current : BOOLEAN]]
Cached == [version : Nat, value : Value, committed : BOOLEAN]
View == [docs : [Docs -> [value : Value, local : BOOLEAN]],
         synced : SUBSET Docs, current : BOOLEAN]

TypeOK ==
    /\ history \in Seq(Change)
    /\ stream \in Stream
    /\ acks \in Seq(Nat)
    /\ queue \in Seq([doc : Docs, value : Value])
    /\ cache \in [Docs -> Cached]
    /\ disk \in [token : Nat, keys : SUBSET Docs]
    /\ targets \in SUBSET Target
    /\ lastLimbo \in Nat
    /\ view \in View
    /\ online \in {"unknown", "online", "offline"}
    /\ raised \in BOOLEAN
    /\ shown \in [Docs -> Value]
    /\ writes \in Nat /\ troubles \in Nat
    /\ keysLost \in BOOLEAN

Now == Len(history)

\* The last of some positions.
LastOf(S) == CHOOSE i \in S : \A j \in S : j <= i

\* A document as of version v of the server: when it was last changed, and to
\* what.  Every commit has a value of its own.
ServerDoc(d, v) ==
    LET last == LastOf({0} \cup {i \in 1..v : history[i].doc = d})
    IN  [version |-> last,
         value |-> IF last = 0 THEN Nothing ELSE history[last].value]

Exists(d, v) == ServerDoc(d, v).value # Nothing

Query == [number |-> 0, doc |-> Collection]
QueryTarget == CHOOSE t \in targets : t.id = Query
\* Messages about a target count once every request for it was answered.
IsActive(t) == t.responses = 0

-----------------------------------------------------------------------------
(* LocalStore *)

\* The phone's writes to d in the queue.
Mine(d, q) == {i \in DOMAIN q : q[i].doc = d}

\* LocalDocumentsView: the last write of the queue, or else the cache.
LocalDoc(d, q, c) ==
    IF Mine(d, q) = {}
    THEN [value |-> c[d].value, local |-> FALSE, committed |-> c[d].committed]
    ELSE LET value == q[LastOf(Mine(d, q))].value
         IN  [value |-> value, local |-> value # Nothing, committed |-> FALSE]

\* A slip in Supersedes: whatever comes last.
SupersedesAlways(new, old) == TRUE

\* ApplyRemoteEvent takes a document that is newer than the cached one, or
\* that confirms what a write of the phone has left there.
Supersedes(new, old) ==
    \/ new.version > old.version
    \/ new.version = old.version /\ old.committed

-----------------------------------------------------------------------------
(* View and QueryListener *)

\* ShouldWaitForSyncedDocument: a document that was shown with a write of the
\* phone stays until the watch stream has told of it.
Waits(old, new) ==
    /\ old.value # Nothing /\ new.value # Nothing
    /\ old.local /\ new.committed /\ ~new.local

\* ComputeDocumentChanges.
Changed(old, changes, q, c) ==
    [d \in Docs |->
        LET new == LocalDoc(d, q, c)
        IN  IF d \notin changes \/ Waits(old[d], new) THEN old[d]
            ELSE [value |-> new.value, local |-> new.local]]

\* UpdateLimboDocuments.
InLimbo(v) ==
    {d \in Docs : d \notin v.synced /\ v.docs[d].value # Nothing
                  /\ ~v.docs[d].local}

LimboDocs(ts) == {t.id.doc : t \in ts} \ {Collection}

IsSynced(v, ts) == v.current /\ LimboDocs(ts) = {}

Values(v) == [d \in Docs |-> v.docs[d].value]

\* The listener is told of any documents that changed, but the first time of
\* nothing before the query is synced, there is something, or it seems to be
\* offline.
Raise(v, ts, state) ==
    IF raised THEN shown' = Values(v) /\ UNCHANGED raised
    ELSE /\ raised' = (\/ IsSynced(v, ts) \/ state = "offline"
                       \/ \E d \in Docs : v.docs[d].value # Nothing)
         /\ shown' = IF raised' THEN Values(v) ELSE shown

Watch(t) == [op |-> "watch", target |-> t.id, token |-> t.token]
Unwatch(t) == [op |-> "unwatch", target |-> t.id, token |-> 0]

\* A target the phone listens to from now on, and the request if it can send it.
Asked(t) == IF stream.open THEN [t EXCEPT !.responses = 1] ELSE t

\* EmitNewSnapshots, for a view with its documents, keys and current flag
\* changed and targets ts: documents that have come into limbo are listened to,
\* those that have left it are not any more, and the listener is told.
\* What the stream does besides sending those requests is in s.
Emit(v, ts, s, state) ==
    LET lost == IF v.current THEN InLimbo(v) ELSE LimboDocs(ts)
        gone == {t \in ts : t.id # Query /\ t.id.doc \notin lost}
        new == {[id |-> [number |-> lastLimbo + 1, doc |-> d], token |-> 0,
                 received |-> FALSE, responses |-> 0] :
                d \in lost \ LimboDocs(ts)}
        requests == SetToSeq({Unwatch(t) : t \in gone})
                    \o SetToSeq({Watch(t) : t \in new})
    IN  /\ view' = v
        /\ targets' = (ts \ gone) \cup {Asked(t) : t \in new}
        /\ lastLimbo' = IF new = {} THEN lastLimbo ELSE lastLimbo + 1
        /\ stream' = IF s.open THEN [s EXCEPT !.up = @ \o requests] ELSE s
        /\ Raise(v, targets', state)

-----------------------------------------------------------------------------
(* The phone is launched *)

Closed == [open |-> FALSE, up |-> <<>>, down |-> <<>>, watched |-> {}]

\* The app listens, and is shown what is on disk.
Launched(q, c, saved) ==
    /\ stream' = Closed
    /\ online' = "unknown"
    /\ targets' = {[id |-> Query, token |-> saved.token, received |-> FALSE,
                    responses |-> 0]}
    /\ lastLimbo' = 0
    /\ view' = [docs |-> [d \in Docs |-> [value |-> LocalDoc(d, q, c).value,
                                          local |-> LocalDoc(d, q, c).local]],
                synced |-> saved.keys, current |-> FALSE]
    /\ shown' = Values(view')
    /\ raised' = \E d \in Docs : shown'[d] # Nothing

\* Before the app was ever used here, there is a document already.
Init ==
    /\ history = <<[doc |-> CHOOSE d \in Docs : TRUE, value |-> MaxWrites + 1,
                    own |-> FALSE]>>
    /\ stream = Closed /\ acks = <<>> /\ queue = <<>>
    /\ cache = [d \in Docs |-> [version |-> 0, value |-> Nothing,
                                committed |-> FALSE]]
    /\ disk = [token |-> 0, keys |-> {}]
    /\ targets = {[id |-> Query, token |-> 0, received |-> FALSE,
                   responses |-> 0]}
    /\ lastLimbo = 0
    /\ view = [docs |-> [d \in Docs |-> [value |-> Nothing, local |-> FALSE]],
               synced |-> {}, current |-> FALSE]
    /\ online = "unknown"
    /\ raised = FALSE
    /\ shown = [d \in Docs |-> Nothing]
    /\ writes = 0 /\ troubles = 0 /\ keysLost = FALSE

Trouble == troubles < MaxTroubles /\ troubles' = troubles + 1

\* The process is killed and launched again.
Kill ==
    /\ Trouble
    /\ acks' = <<>>
    /\ Launched(queue, cache, disk)
    /\ keysLost' = (disk.keys # {d \in Docs : Exists(d, disk.token)})
    /\ UNCHANGED <<history, queue, cache, disk, writes>>

-----------------------------------------------------------------------------
(* Writes *)

Commit(d, value, own) ==
    history' = Append(history, [doc |-> d, value |-> value, own |-> own])

\* Another phone writes or deletes a document.
OtherWrites(d, value) ==
    /\ Now < MaxCommits
    /\ value = Nothing => Exists(d, Now)
    /\ Commit(d, value, FALSE)
    /\ UNCHANGED <<stream, acks, queue, cache, disk, targets, lastLimbo, view,
                   online, raised, shown, writes, troubles, keysLost>>

\* This phone does, and what it deletes it is shown: WriteLocally, and the
\* listener is told at once.
WriteLocally(d, value) ==
    /\ value = Nothing => shown[d] # Nothing
    /\ writes < MaxWrites /\ writes' = writes + 1
    /\ queue' = Append(queue, [doc |-> d, value |-> value])
    /\ Emit([view EXCEPT !.docs = Changed(@, {d}, queue', cache)], targets,
            stream, online)
    /\ UNCHANGED <<history, acks, cache, disk, online, troubles, keysLost>>

\* The server applies the next write of the queue.
ApplyWrite ==
    /\ Len(acks) < Len(queue)
    /\ LET m == queue[Len(acks) + 1] IN Commit(m.doc, m.value, TRUE)
    /\ acks' = Append(acks, Len(history'))
    /\ UNCHANGED <<stream, queue, cache, disk, targets, lastLimbo, view, online,
                   raised, shown, writes, troubles, keysLost>>

\* The write stream breaks: what was not acknowledged is sent again.
LoseAcks ==
    /\ acks # <<>> /\ acks' = <<>>
    /\ Trouble
    /\ UNCHANGED <<history, stream, queue, cache, disk, targets, lastLimbo,
                   view, online, raised, shown, writes, keysLost>>

\* HandleSuccessfulWrite: the write becomes the cached document, unless the
\* watch stream was faster.
HandleSuccessfulWrite ==
    /\ acks # <<>> /\ acks' = Tail(acks)
    /\ queue' = Tail(queue)
    /\ LET m == Head(queue)
       IN  /\ cache' = IF cache[m.doc].version < Head(acks)
                       THEN [cache EXCEPT ![m.doc] =
                               [version |-> Head(acks), value |-> m.value,
                                committed |-> TRUE]]
                       ELSE cache
           /\ Emit([view EXCEPT !.docs =
                       Changed(@, {m.doc}, queue', cache')],
                   targets, stream, online)
    /\ UNCHANGED <<history, disk, online, writes, troubles, keysLost>>

-----------------------------------------------------------------------------
(* The watch stream opens and closes *)

\* OnlineStateTracker::SetAndBroadcast: offline, the view is not current any
\* more, and a listener that has waited is told of what there is.
Broadcast(state, ts, s) ==
    LET v == [view EXCEPT !.current = @ /\ state # "offline"]
    IN  /\ online' = state
        /\ view' = v /\ targets' = ts /\ stream' = s
        /\ IF state = "offline" /\ ~raised
           THEN Raise(v, ts, state) ELSE UNCHANGED <<raised, shown>>

\* OnWatchStreamOpen: all targets are asked for, from where they were.
OnWatchStreamOpen ==
    /\ ~stream.open
    /\ stream' = [stream EXCEPT !.open = TRUE,
                                !.up = SetToSeq({Watch(t) : t \in targets})]
    /\ targets' = {[t EXCEPT !.responses = 1] : t \in targets}
    /\ UNCHANGED <<history, acks, queue, cache, disk, lastLimbo, view, online,
                   raised, shown, writes, troubles, keysLost>>

\* OnWatchStreamClose: what the aggregator knew is forgotten.  A first failure
\* may be an accident; one without a message before it means offline.
WatchStreamFails ==
    /\ Trouble
    /\ Broadcast(IF online = "online" THEN "unknown" ELSE "offline",
                 {[t EXCEPT !.responses = 0] : t \in targets}, Closed)
    /\ UNCHANGED <<history, acks, queue, cache, disk, lastLimbo, writes,
                   keysLost>>

\* RestartNetwork, when the phone's network or credentials change.
RestartNetwork ==
    /\ Trouble
    /\ Broadcast("unknown", {[t EXCEPT !.responses = 0] : t \in targets},
                 Closed)
    /\ UNCHANGED <<history, acks, queue, cache, disk, lastLimbo, writes,
                   keysLost>>

\* No message for ten seconds.
OnlineStateTimeout ==
    /\ online = "unknown"
    /\ Trouble
    /\ Broadcast("offline", targets, stream)
    /\ UNCHANGED <<history, acks, queue, cache, disk, lastLimbo, writes,
                   keysLost>>

-----------------------------------------------------------------------------
(* The server's end of the watch stream *)

OnlyStream == UNCHANGED <<history, acks, queue, cache, disk, targets, lastLimbo,
                          view, online, raised, shown, writes, troubles,
                          keysLost>>

\* The server takes a request and answers it.
Answer ==
    /\ stream.up # <<>>
    /\ LET r == Head(stream.up)
           rest == {w \in stream.watched : w.target # r.target}
       IN  stream' = [stream EXCEPT
             !.up = Tail(@),
             !.down = Append(@, [kind |-> "answer", target |-> r.target]),
             !.watched = IF r.op = "unwatch" THEN rest
                         ELSE rest \cup {[target |-> r.target, told |-> r.token,
                                          current |-> FALSE]}]
    /\ OnlyStream

\* The documents the server names for w: those changed since it last did, for
\* a resumed query in one of three ways.  It replays what has been deleted; it
\* does not, and gives the number of documents; or it starts over.
Named(w, how) ==
    {d \in Docs :
        /\ w.target.doc \in {d, Collection}
        /\ \/ ServerDoc(d, Now).version > w.told
           \/ how = "reset" /\ w.target = Query
        /\ \/ Exists(d, Now)
           \/ w.current
           \/ w.told > 0 /\ (w.target = Query => how = "replay")}

\* The server tells of everything up to now: a global snapshot.
Tell(how) ==
    /\ \E w \in stream.watched : ~w.current \/ w.told < Now
    /\ how # "replay" => \E w \in stream.watched :
                            w.target = Query /\ ~w.current /\ w.told > 0
    /\ stream' = [stream EXCEPT
         !.down = Append(@,
            [kind |-> "snapshot", version |-> Now, how |-> how,
             docs |-> [d \in Docs |-> {w.target : w \in
                {w \in stream.watched : d \in Named(w, how)}}],
             count |-> Cardinality({d \in Docs : Exists(d, Now)})]),
         !.watched = {[w EXCEPT !.told = Now, !.current = TRUE] :
                      w \in stream.watched}]
    /\ OnlyStream

-----------------------------------------------------------------------------
(* The phone's end of it *)

Heard == Head(stream.down)
Rest == [stream EXCEPT !.down = Tail(@)]

\* HandleTargetChange, for Added and Removed.
HandleAnswer ==
    /\ stream.down # <<>> /\ Heard.kind = "answer"
    /\ targets' = {IF t.id = Heard.target
                   THEN [t EXCEPT !.responses = @ - 1] ELSE t : t \in targets}
    /\ stream' = Rest
    /\ online' = "online"
    /\ UNCHANGED <<history, acks, queue, cache, disk, lastLimbo, view, raised,
                   shown, writes, troubles, keysLost>>

\* The documents that the message names for t.
NamedFor(t) == {d \in Docs : t.id \in Heard.docs[d]}

Active == {t \in targets : IsActive(t)}

\* The documents that come with the message.
Told == UNION {NamedFor(t) : t \in Active}

\* A slip in Deduced: nothing follows from silence.
DeducedNothing == {}

\* CreateRemoteEvent: a document in limbo that is not named does not exist.
Deduced == {t.id.doc : t \in {u \in Active : u.id # Query /\ ~u.received}} \ Told

\* The query's keys after the message, unless their number is not the server's.
KeysTold ==
    LET there == {d \in NamedFor(QueryTarget) : Exists(d, Heard.version)}
    IN  there \cup
        (IF Heard.how = "reset" THEN {}
         ELSE view.synced \ NamedFor(QueryTarget))

Mismatch ==
    /\ IsActive(QueryTarget) /\ Heard.how = "count"
    /\ Cardinality(KeysTold) # Heard.count

SyncedAfter ==
    IF ~IsActive(QueryTarget) THEN view.synced
    ELSE IF Mismatch THEN {} ELSE KeysTold

\* RaiseWatchSnapshot and the bookkeeping of ApplyRemoteEvent: resume tokens,
\* a new start after a mismatch, which limbo documents were received.
TargetAfter(t) ==
    IF ~IsActive(t) THEN t
    ELSE IF t.id = Query /\ Mismatch
         THEN [t EXCEPT !.token = 0, !.responses = 2]
    ELSE [t EXCEPT !.token = Heard.version,
                   !.received = IF t.id.doc \in NamedFor(t)
                                THEN Exists(t.id.doc, Heard.version) ELSE @]

\* What the message says of each document.
Updates ==
    [d \in Docs |-> IF d \in Deduced
                    THEN [version |-> Heard.version, value |-> Nothing]
                    ELSE ServerDoc(d, Heard.version)]

\* OnWatchStreamChange with the global snapshot at its end.  (What \E binds has
\* one value; TLC computes it once, also where it looks for ENABLED.)
HandleSnapshot ==
    /\ stream.down # <<>> /\ Heard.kind = "snapshot"
    /\ online' = "online"
    /\ \E update \in {Updates} :
       \E changes \in {{d \in Told \cup Deduced :
                           Supersedes(update[d], cache[d])}} :
          /\ cache' = [d \in Docs |->
                         IF d \in changes
                         THEN [version |-> update[d].version,
                               value |-> update[d].value, committed |-> FALSE]
                         ELSE cache[d]]
          /\ \E v \in {[docs |-> Changed(view.docs, changes, queue, cache'),
                        synced |-> SyncedAfter,
                        current |-> IF IsActive(QueryTarget) THEN ~Mismatch
                                    ELSE view.current]} :
             Emit(v, {TargetAfter(t) : t \in targets},
                  IF Mismatch
                  THEN [Rest EXCEPT !.up = @ \o
                          <<Unwatch(QueryTarget),
                            [Watch(QueryTarget) EXCEPT !.token = 0]>>]
                  ELSE Rest,
                  "online")
    /\ \/ /\ IsActive(QueryTarget)
          /\ disk' = [token |-> Heard.version, keys |-> SyncedAfter]
       \/ \* ShouldPersistTargetData: a token alone may be kept for later.
          /\ \/ ~IsActive(QueryTarget)
             \/ /\ disk.token # 0 /\ SyncedAfter = view.synced
                /\ NamedFor(QueryTarget) = {}
          /\ UNCHANGED disk
    /\ UNCHANGED <<history, acks, queue, writes, troubles, keysLost>>

-----------------------------------------------------------------------------
Others == \E d \in Docs : \E value \in {Nothing, MaxWrites + 1 + Now} :
              OtherWrites(d, value)
App == \E d \in Docs : \E value \in {Nothing, writes + 1} : WriteLocally(d, value)
Server == Answer \/ \E how \in {"replay", "count", "reset"} : Tell(how)
Writing == ApplyWrite \/ HandleSuccessfulWrite
Phone == OnWatchStreamOpen \/ HandleAnswer \/ HandleSnapshot

Next ==
    \/ Others \/ App \/ Server \/ Phone
    \/ Writing \/ LoseAcks
    \/ WatchStreamFails \/ RestartNetwork \/ OnlineStateTimeout \/ Kill

Spec == Init /\ [][Next]_vars

\* The streams are opened and served at both ends, and writes get through: as
\* long as any of this can go on, something does.
FairSpec == Spec /\ WF_vars(Server \/ Phone \/ Writing)

-----------------------------------------------------------------------------
(* Properties *)

\* What the phone should show of a document when it has followed the server up
\* to version v: its own last write that is newer than that, or else what the
\* server had.
Expected(d, v) ==
    LET newer == {i \in (v + 1)..Now : history[i].doc = d /\ history[i].own}
    IN  IF Mine(d, queue) # {} THEN queue[LastOf(Mine(d, queue))].value
        ELSE IF newer # {} THEN history[LastOf(newer)].value
        ELSE ServerDoc(d, v).value

\* The view holds d back for the watch stream to tell of it again, which has
\* passed it by: another phone has deleted it before the stream came to it.
\* Nothing but a launch of the app helps.
PassedBy(d) ==
    /\ Waits(view.docs[d], LocalDoc(d, queue, cache))
    /\ cache[d].version <= QueryTarget.token

\* Whoever asks for what is new since some version has the keys of that version:
\* after a mismatch remote_store.cc means to "clear the resume token for the
\* query, since we're in a known mismatch state", and does so in memory.
KeysMatchToken ==
    QueryTarget.token # 0 =>
        view.synced = {d \in Docs : Exists(d, QueryTarget.token)}

\* While the query is synced the listener shows one version of the server, the
\* same for all documents but those passed by, under the phone's own writes: a
\* write that was acknowledged is never taken back by an older answer of the
\* watch stream, whichever stream is faster, and nothing else deleted stays.
\* Except after a launch with keys that are not the token's: then a number of
\* documents may fit by coincidence, and a deleted one stay.
ShownIsServer ==
    IsSynced(view, targets) /\ ~keysLost =>
        \A d \in Docs : \/ shown[d] = Expected(d, QueryTarget.token)
                       \/ PassedBy(d)

\* In the end every listener shows what the server has, but of documents
\* passed by and after such a launch.
CaughtUp ==
    <>[](/\ queue = <<>>
         /\ \A d \in Docs : \/ shown[d] = ServerDoc(d, Now).value
                           \/ PassedBy(d) \/ keysLost)
=============================================================================
