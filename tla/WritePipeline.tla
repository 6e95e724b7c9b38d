--------------------------- MODULE WritePipeline ---------------------------
(***************************************************************************)
(* How the Firestore SDK in the app's Pods sends the writes of a phone.    *)
(*                                                                         *)
(* Three threads take part.  The main queue runs the app, which calls      *)
(* setData, and what FIRAuth posts to it: notices of a changed user and    *)
(* the answers to requests for a token.  FIRAuth's own queue reads the     *)
(* current user.  The worker queue runs everything else: SyncEngine,       *)
(* LocalStore with its mutation queues, RemoteStore and the write stream.  *)
(*                                                                         *)
(* Mutation queues are per user and persistent; the pipeline is the part   *)
(* of the current user's queue handed to the stream; the stream authorizes *)
(* itself with a token, opens, shakes hands, and sends the pipeline.       *)
(***************************************************************************)
EXTENDS Integers, FiniteSets, SequencesExt

CONSTANTS
    Users,              \* who may be signed in: each has a mutation queue
    SignedOut,          \* the user when nobody is
    NoUser,             \* no user: nothing read yet, or an error
    MaxPendingWrites,   \* kMaxPendingWrites: 10 in the code
    MaxWrites,          \* bound on the calls of setData
    MaxTroubles         \* bound on sign ins, sign outs, refreshed tokens, errors,
                        \* refusals, network changes and kills of the process

Writes == 1..MaxWrites

ASSUME UsersAssumption == SignedOut \in Users /\ NoUser \notin Users
ASSUME PipelineBoundsAssumption ==
    /\ MaxPendingWrites \in Nat \ {0}
    /\ MaxWrites \in Nat /\ MaxTroubles \in Nat

VARIABLES
    authUser,   \* FIRAuth's current user, kept in the keychain
    main,       \* the main queue: what FIRAuth has posted to it
    counter,    \* the credentials provider's token_counter
    worker,     \* the worker queue
    user,       \* SyncEngine's current_user_
    queue,      \* per user: the mutation queue on disk
    nextId,     \* next_batch_id_ of the mutation queue
    callbacks,  \* mutation_callbacks_: per user, the write an id stands for
    net,        \* RemoteStore's write pipeline and stream, and its requests
    applied,    \* the server: the writes it has applied, and as whom
    ended,      \* what was posted to the app's completion handlers
    calls,      \* how often setData was called
    troubles    \* how many troubles there were

vars == <<authUser, main, counter, worker, user, queue, nextId, callbacks,
          net, applied, ended, calls, troubles>>

Batch == [id : Nat \ {0}, write : Writes]
Request == [counter : Nat, closes : Nat, read : Users \cup {NoUser}]
\* Handshakes are 0, and a write is itself.
Net == [pipeline : Seq(Batch),
        state : {"initial", "starting", "open", "error", "backoff"},
        handshake : BOOLEAN,            \* handshake_complete_
        idle : BOOLEAN,                 \* whether the idleness timer runs
        closes : Nat,                   \* close_count_
        asked : SUBSET Request,         \* GetToken calls at FIRAuth
        token : Users \cup {NoUser},    \* whose token the gRPC stream has
        up : Seq({0} \cup Writes),      \* requests the server has to handle
        down : Seq({"hello", "ok", "refused"})]

\* Types of all the state.
TypeOK ==
    /\ authUser \in Users
    /\ main \in Seq([task : {"notice"}, user : Users]
                    \cup [task : {"token"}, user : Users \cup {NoUser},
                          counter : Nat, closes : Nat])
    /\ counter \in Nat
    /\ worker \in Seq([op : {"write"}, write : Writes]
                      \cup [op : {"user"}, user : Users]
                      \cup [op : {"token"}, user : Users \cup {NoUser},
                            closes : Nat])
    /\ user \in Users
    /\ queue \in [Users -> Seq(Batch)]
    /\ nextId \in Nat \ {0}
    /\ callbacks \in [Users -> SUBSET Batch]
    /\ net \in Net
    /\ applied \in Seq([write : Writes, by : Users])
    /\ ended \in [Writes -> {"none", "ok", "failed"}]
    /\ calls \in 0..MaxWrites /\ troubles \in 0..MaxTroubles

-----------------------------------------------------------------------------
(* RemoteStore and the write stream: what each call makes of net *)

WritesOf(batches) == [i \in DOMAIN batches |-> batches[i].write]

IsStarted(n) == n.state \in {"starting", "open", "backoff"}
ShouldStart(n) == ~IsStarted(n) /\ n.pipeline # <<>>
\* A slip in IsLive: an open stream will do.
IsLiveEarly(n) == n.state = "open"
IsLive(n) == n.state = "open" /\ n.handshake

\* GetToken: the counter is noted now, FIRAuth looks at its user later.
AskForToken(n, closes) ==
    [n EXCEPT !.asked = @ \cup {[counter |-> counter, closes |-> closes,
                                 read |-> NoUser]}]

\* Stream::Start: at once, or after a backoff when it had failed.
Start(n) ==
    IF n.state = "error" THEN [n EXCEPT !.state = "backoff"]
    ELSE AskForToken([n EXCEPT !.state = "starting"], n.closes)

StartIfNeeded(n) == IF ShouldStart(n) THEN Start(n) ELSE n

\* Where in queue q, which the disk keeps in the order of ids, the first batch
\* after id is; one past the end if there is none.
NextAfter(q, id) ==
    CHOOSE i \in 1..(Len(q) + 1) :
        /\ \A j \in 1..(i - 1) : q[j].id <= id
        /\ i <= Len(q) => q[i].id > id

\* The batches of queue q that follow the pipeline, as many as fit in.
Following(n, q) ==
    LET last == IF n.pipeline = <<>> THEN 0
                ELSE n.pipeline[Len(n.pipeline)].id
        next == NextAfter(q, last)
        room == MaxPendingWrites - Len(n.pipeline)
    IN  SubSeq(q, next, IF Len(q) < next - 1 + room THEN Len(q)
                        ELSE next - 1 + room)

\* FillWritePipeline: what fits is added and sent; a stream with nothing to do
\* is marked idle; a stream with something to do is started.
Fill(n, q) ==
    LET more == Following(n, q)
    IN  StartIfNeeded(
          [n EXCEPT
            !.pipeline = @ \o more,
            !.up = IF IsLive(n) THEN @ \o WritesOf(more) ELSE @,
            !.idle = \/ n.state = "open" /\ n.pipeline \o more = <<>>
                     \/ @ /\ ~(IsLive(n) /\ more # <<>>)])

\* Stream::Close.  Whatever the server has not handled is not handled any
\* more, and its answers are not heard.
Close(n, state) ==
    [n EXCEPT !.state = state, !.closes = @ + 1, !.idle = FALSE,
              !.handshake = FALSE, !.token = NoUser,
              !.up = <<>>, !.down = <<>>]

\* A slip in Break: the stream is left for the next write to start.
BreakForGood(n) == Close(n, "error")

\* The stream breaks, and is to be tried again if there is anything to send.
Break(n) == StartIfNeeded(Close(n, "error"))

\* A slip in Restart: the pipeline is kept.
RestartKeepingPipeline(n, q) ==
    LET stopped == IF IsStarted(n) THEN Close(n, "initial") ELSE n
    IN  Fill([stopped EXCEPT !.state = "initial"], q)

\* RestartNetwork: the stream is stopped if there is one, the pipeline is
\* emptied and filled from queue q.
Restart(n, q) ==
    LET stopped == IF IsStarted(n) THEN Close(n, "initial") ELSE n
    IN  Fill([stopped EXCEPT !.state = "initial", !.pipeline = <<>>], q)

-----------------------------------------------------------------------------
(* The app and FIRAuth *)

\* A slip in FreshId: the largest id itself is used again.
FreshIdTaken(q) ==
    LET ids == {0} \cup UNION {{q[u][i].id : i \in DOMAIN q[u]} : u \in Users}
    IN  CHOOSE n \in ids : \A m \in ids : m <= n

\* LoadNextBatchIdFromDb: one more than the largest id of any user's queue.
\* Ids are used again once their batches are gone.
FreshId(q) ==
    LET ids == {0} \cup UNION {{q[u][i].id : i \in DOMAIN q[u]} : u \in Users}
    IN  1 + CHOOSE n \in ids : \A m \in ids : m <= n

EmptyNet == [pipeline |-> <<>>, state |-> "initial", handshake |-> FALSE,
             idle |-> FALSE, closes |-> 0, asked |-> {}, token |-> NoUser,
             up |-> <<>>, down |-> <<>>]

Init ==
    /\ authUser \in Users
    /\ main = <<>> /\ counter = 0 /\ worker = <<>>
    /\ user = authUser
    /\ queue = [u \in Users |-> <<>>]
    /\ nextId = 1
    /\ callbacks = [u \in Users |-> {}]
    /\ net = EmptyNet
    /\ applied = <<>>
    /\ ended = [w \in Writes |-> "none"]
    /\ calls = 0 /\ troubles = 0

Trouble == troubles < MaxTroubles /\ troubles' = troubles + 1

\* The app calls setData: the write goes to the worker queue.
SetData ==
    /\ calls < MaxWrites
    /\ calls' = calls + 1
    /\ worker' = Append(worker, [op |-> "write", write |-> calls'])
    /\ UNCHANGED <<authUser, main, counter, user, queue, nextId, callbacks,
                   net, applied, ended, troubles>>

\* Somebody signs in or out, or the user's token is refreshed: FIRAuth posts a
\* notice to the main queue.
ChangeUser(u) ==
    /\ u # SignedOut \/ authUser # SignedOut
    /\ Trouble
    /\ authUser' = u
    /\ main' = Append(main, [task |-> "notice", user |-> u])
    /\ UNCHANGED <<counter, worker, user, queue, nextId, callbacks, net,
                   applied, ended, calls>>

\* FIRAuth's queue comes to a request for a token, and looks at its user.
ReadUser(r) ==
    /\ r.read = NoUser
    /\ net' = [net EXCEPT !.asked = (@ \ {r})
                                    \cup {[r EXCEPT !.read = authUser]}]
    /\ UNCHANGED <<authUser, main, counter, worker, user, queue, nextId,
                   callbacks, applied, ended, calls, troubles>>

\* It has the user's token, or an error: the answer is posted to the main
\* queue.
AnswerToken(r, token) ==
    /\ r.read # NoUser
    /\ \/ token = r.read /\ UNCHANGED troubles
       \/ token = NoUser /\ Trouble
    /\ net' = [net EXCEPT !.asked = @ \ {r}]
    /\ main' = Append(main, [task |-> "token", user |-> token,
                             counter |-> r.counter, closes |-> r.closes])
    /\ UNCHANGED <<authUser, counter, worker, user, queue, nextId, callbacks,
                   applied, ended, calls>>

\* The main queue comes to a notice: the provider counts it, and the worker
\* is to hear of the user.
HandleNotice ==
    /\ main # <<>> /\ Head(main).task = "notice"
    /\ main' = Tail(main)
    /\ counter' = counter + 1
    /\ worker' = Append(worker, [op |-> "user", user |-> Head(main).user])
    /\ UNCHANGED <<authUser, user, queue, nextId, callbacks, net, applied,
                   ended, calls, troubles>>

\* The main queue comes to an answer: it is for a user who may be gone if
\* there was a notice since it was asked for, and then it is asked for again.
HandleToken ==
    /\ main # <<>> /\ Head(main).task = "token"
    /\ main' = Tail(main)
    /\ IF Head(main).counter = counter
       THEN /\ worker' = Append(worker, [op |-> "token",
                                         user |-> Head(main).user,
                                         closes |-> Head(main).closes])
            /\ UNCHANGED net
       ELSE /\ net' = AskForToken(net, Head(main).closes)
            /\ UNCHANGED worker
    /\ UNCHANGED <<authUser, counter, user, queue, nextId, callbacks, applied,
                   ended, calls, troubles>>

-----------------------------------------------------------------------------
(* The worker queue *)

\* SyncEngine::WriteMutations: the batch is kept on disk with the id of its
\* callback, and offered to the pipeline.
WriteMutations ==
    /\ worker # <<>> /\ Head(worker).op = "write"
    /\ worker' = Tail(worker)
    /\ LET batch == [id |-> nextId, write |-> Head(worker).write]
       IN  /\ queue' = [queue EXCEPT ![user] = Append(@, batch)]
           /\ callbacks' =
                IF \E b \in callbacks[user] : b.id = nextId THEN callbacks
                ELSE [callbacks EXCEPT ![user] = @ \cup {batch}]
    /\ nextId' = nextId + 1
    /\ net' = Fill(net, queue'[user])
    /\ UNCHANGED <<authUser, main, counter, user, applied, ended, calls, troubles>>

\* SyncEngine::HandleCredentialChange: the mutation queue is exchanged if the
\* user is another one, and the network restarted in any case.
HandleCredentialChange ==
    /\ worker # <<>> /\ Head(worker).op = "user"
    /\ worker' = Tail(worker)
    /\ user' = Head(worker).user
    /\ nextId' = IF user' = user THEN nextId ELSE FreshId(queue)
    /\ net' = Restart(net, queue[user'])
    /\ UNCHANGED <<authUser, main, counter, queue, callbacks, applied, ended,
                   calls, troubles>>

\* A slip in ResumeWithToken: the close count is not looked at.
ResumeWithAnyToken ==
    /\ worker # <<>> /\ Head(worker).op = "token"
    /\ worker' = Tail(worker)
    /\ net' = IF Head(worker).user = NoUser THEN Break(net)
              ELSE [net EXCEPT !.token = Head(worker).user]
    /\ UNCHANGED <<authUser, main, counter, user, queue, nextId, callbacks,
                   applied, ended, calls, troubles>>

\* Stream::ResumeStartWithCredentials, unless the stream was closed since.
ResumeWithToken ==
    /\ worker # <<>> /\ Head(worker).op = "token"
    /\ worker' = Tail(worker)
    /\ net' = IF Head(worker).closes # net.closes THEN net
              ELSE IF Head(worker).user = NoUser THEN Break(net)
              ELSE [net EXCEPT !.token = Head(worker).user]
    /\ UNCHANGED <<authUser, main, counter, user, queue, nextId, callbacks,
                   applied, ended, calls, troubles>>

-----------------------------------------------------------------------------
(* The stream *)

OnlyNet == UNCHANGED <<authUser, main, counter, worker, user, queue, nextId,
                       callbacks, applied, ended, calls>>

\* The call is through: the handshake is sent.
OpenStream ==
    /\ net.state = "starting" /\ net.token # NoUser
    /\ net' = [net EXCEPT !.state = "open", !.up = Append(@, 0)]
    /\ OnlyNet /\ UNCHANGED troubles

\* The handshake is answered: the whole pipeline is sent.
HandshakeComplete ==
    /\ net.down # <<>> /\ Head(net.down) = "hello"
    /\ net' = [net EXCEPT !.handshake = TRUE, !.down = Tail(@),
                          !.up = @ \o WritesOf(net.pipeline)]
    /\ OnlyNet /\ UNCHANGED troubles

\* RemoveMutationBatch: the batch of queue q that has the id goes.
Without(q, id) ==
    IF \E i \in DOMAIN q : q[i].id = id
    THEN RemoveAt(q, CHOOSE i \in DOMAIN q : q[i].id = id)
    ELSE q

\* The stream has said what became of the oldest batch of the pipeline.
Hears(answer) ==
    net.down # <<>> /\ Head(net.down) = answer /\ net.pipeline # <<>>

\* What the handlers have been told when the callback of a batch of the user is
\* run, if there is one.
Told(id, result) ==
    [w \in Writes |-> IF \E b \in callbacks[user] : b.id = id /\ b.write = w
                      THEN result ELSE ended[w]]

\* A slip in NotifyUser: the callback is not forgotten.
NotifyUserKeepingCallback(id, result) ==
    ended' = Told(id, result) /\ UNCHANGED callbacks

\* NotifyUser: the callback is run and forgotten.
NotifyUser(id, result) ==
    /\ ended' = Told(id, result)
    /\ callbacks' = [callbacks EXCEPT ![user] = {b \in @ : b.id # id}]

\* AcknowledgeBatch and RejectBatch: a transaction that takes the batch from
\* the mutation queue.
RemoveBatch(id) == queue' = [queue EXCEPT ![user] = Without(@, id)]

\* The two together, in either order: the other queues use neither, and only a
\* kill finds one done without the other (LeftBehind).
EndBatch(id, result) == NotifyUser(id, result) /\ RemoveBatch(id)

\* A result arrives: it is taken for the oldest batch of the pipeline.  The
\* handler is told before the batch is removed.
MutationResult ==
    /\ Hears("ok")
    /\ EndBatch(Head(net.pipeline).id, "ok")
    /\ net' = Fill([net EXCEPT !.down = Tail(@), !.pipeline = Tail(@)],
                   queue'[user])
    /\ UNCHANGED <<authUser, main, counter, worker, user, nextId, applied,
                   calls, troubles>>

\* HandleWriteError: the server has ended the stream over the oldest batch of
\* the pipeline, which is given up; there is no backoff.  The batch is removed
\* before the handler is told.
WriteRefused ==
    /\ Hears("refused")
    /\ EndBatch(Head(net.pipeline).id, "failed")
    /\ net' = Fill([Close(net, "initial") EXCEPT !.pipeline = Tail(@)],
                   queue'[user])
    /\ UNCHANGED <<authUser, main, counter, worker, user, nextId, applied,
                   calls, troubles>>

\* The stream ends with an error that is not about a write.
StreamFails ==
    /\ net.token # NoUser
    /\ net' = Break(net)
    /\ OnlyNet /\ Trouble

BackoffElapses ==
    /\ net.state = "backoff"
    /\ net' = Start([net EXCEPT !.state = "initial"])
    /\ OnlyNet /\ UNCHANGED troubles

\* Nothing to send for a minute: the stream is stopped.
IdleTimeout ==
    /\ net.idle
    /\ net' = Close(net, "initial")
    /\ OnlyNet /\ UNCHANGED troubles

\* The phone moves from one network to another.
ConnectivityChange ==
    /\ net' = Restart(net, queue[user])
    /\ OnlyNet /\ Trouble

-----------------------------------------------------------------------------
(* The server, as the stream sees it *)

Handles(request) ==
    /\ net.up # <<>> /\ Head(net.up) = request
    /\ \A i \in DOMAIN net.down : net.down[i] # "refused"

Greet ==
    /\ Handles(0)
    /\ net' = [net EXCEPT !.up = Tail(@), !.down = Append(@, "hello")]
    /\ OnlyNet /\ UNCHANGED troubles

\* A write is applied, as the user whose token came with the stream.
ApplyWrite(w) ==
    /\ Handles(w)
    /\ net' = [net EXCEPT !.up = Tail(@), !.down = Append(@, "ok")]
    /\ applied' = Append(applied, [write |-> w, by |-> net.token])
    /\ UNCHANGED <<authUser, main, counter, worker, user, queue, nextId,
                   callbacks, ended, calls, troubles>>

\* A write is refused: the server ends the stream, and handles nothing more.
RefuseWrite(w) ==
    /\ Handles(w)
    /\ net' = [net EXCEPT !.up = <<>>, !.down = Append(@, "refused")]
    /\ OnlyNet /\ Trouble

-----------------------------------------------------------------------------
\* What a process that is killed leaves: on disk what was there, told what was
\* told, unless it is killed in the middle of HandleSuccessfulWrite, where the
\* handler knows of a batch that stays, or of HandleRejectedWrite, where the
\* batch goes and the handler does not know.
LeftBehind ==
    \/ UNCHANGED <<queue, ended>>
    \/ /\ Hears("ok")
       /\ ended' = Told(Head(net.pipeline).id, "ok")
       /\ UNCHANGED queue
    \/ /\ Hears("refused")
       /\ RemoveBatch(Head(net.pipeline).id)
       /\ UNCHANGED ended

\* The process is killed and launched again.  The provider may be made before
\* FIRAuth has read its user from the keychain, or before its notice of that:
\* then the notice is still to come.  (A counter that does not start from 0
\* makes no difference.)
Crash(u) ==
    /\ Trouble
    /\ LeftBehind
    /\ u \in {SignedOut, authUser}
    /\ \/ main' = <<>> /\ u = authUser
       \/ /\ main' = <<[task |-> "notice", user |-> authUser]>>
          /\ authUser # SignedOut
    /\ worker' = <<>>
    /\ user' = u
    /\ nextId' = FreshId(queue')
    /\ callbacks' = [v \in Users |-> {}]
    /\ net' = Fill(EmptyNet, queue'[u])
    /\ UNCHANGED <<authUser, counter, applied, calls>>

-----------------------------------------------------------------------------
\* What goes on by itself.
FirAuth == \E r \in net.asked : ReadUser(r) \/ AnswerToken(r, r.read)
MainQueue == HandleNotice \/ HandleToken
WorkerQueue == WriteMutations \/ HandleCredentialChange \/ ResumeWithToken
Stream == \/ OpenStream \/ HandshakeComplete
          \/ MutationResult \/ WriteRefused \/ BackoffElapses
Server == Greet \/ \E w \in Writes : ApplyWrite(w) \/ RefuseWrite(w)

Next ==
    \/ SetData
    \/ \E u \in Users : ChangeUser(u) \/ Crash(u)
    \/ FirAuth \/ \E r \in net.asked : AnswerToken(r, NoUser)
    \/ MainQueue \/ WorkerQueue \/ Stream \/ Server
    \/ StreamFails \/ IdleTimeout \/ ConnectivityChange

Spec == Init /\ [][Next]_vars

\* The queues are served, the timer fires, and the server answers.
FairSpec == /\ Spec
            /\ WF_vars(FirAuth) /\ WF_vars(MainQueue) /\ WF_vars(WorkerQueue)
            /\ WF_vars(Stream) /\ WF_vars(Server)

-----------------------------------------------------------------------------
(* Properties *)

Count(x) == Cardinality({i \in DOMAIN net.down : net.down[i] = x})
WasApplied(w) == \E i \in DOMAIN applied : applied[i].write = w

\* The assertions of the code hold: a token that is still wanted finds the
\* stream starting, no answer finds the pipeline empty or its batch gone from
\* the mutation queue, and only a stream with nothing to send times out.
AssertionsHold ==
    /\ worker # <<>> /\ Head(worker).op = "token"
       /\ Head(worker).closes = net.closes
       => net.state = "starting" /\ net.token = NoUser
    /\ net.down # <<>> /\ Head(net.down) \in {"ok", "refused"}
       => /\ net.pipeline # <<>>
          /\ \E i \in DOMAIN queue[user] : queue[user][i] = net.pipeline[1]
    /\ net.idle => net.state = "open" /\ net.pipeline = <<>>

\* Answers carry no name of their write and are taken for the oldest one: the
\* writes applied on this stream whose answer is on its way, followed by those
\* the server has yet to handle, are the pipeline, from its start.
AnswersMatch ==
    net.handshake =>
        LET n == Count("ok")
            done == SubSeq(applied, Len(applied) - n + 1, Len(applied))
        IN  /\ n <= Len(applied)
            /\ IF Count("refused") = 0
               THEN [i \in 1..n |-> done[i].write] \o net.up
                    = WritesOf(net.pipeline)
               ELSE /\ n < Len(net.pipeline)
                    /\ \A i \in 1..n : done[i].write = net.pipeline[i].write

\* The app's completion handlers are told the truth, once: a write that was
\* confirmed has been applied, one that was said to have failed does not wait
\* any more, whoever signs in, and a callback stands for the very batch that
\* waits under its id, although the ids of ended batches are used again.  A
\* write that was confirmed may wait, for the process may be killed before it
\* leaves the disk, and is sent again: but it is the oldest of its user's, and
\* no handler will be told of it again, whatever the server says then.
AnswersTrue ==
    /\ \A w \in Writes : ended[w] = "ok" => WasApplied(w)
    /\ \A u \in Users : \A i \in DOMAIN queue[u] :
          ended[queue[u][i].write] # "none" =>
             /\ ended[queue[u][i].write] = "ok"
             /\ i = 1 /\ queue[u][i] \notin callbacks[u]
    /\ \A u \in Users : \A b \in callbacks[u] :
          \E i \in DOMAIN queue[u] : queue[u][i] = b

\* The writes of every user are delivered as Delivery promises: in order, as
\* that user, at least once unless refused, whatever happens to streams,
\* tokens, users and the process.
Outbox == INSTANCE Delivery WITH
    outbox <- [u \in Users |-> WritesOf(queue[u])],
    ahead <- [u \in Users |-> IF u = user THEN Count("ok") ELSE 0]
Delivered == Outbox!Spec

\* The writes of whoever is signed in in the end do not wait for ever.
Flushed == <>[](queue[user] = <<>> /\ user = authUser)
=============================================================================
