------------------------ MODULE WritePipelineProofs ------------------------
(***************************************************************************)
(* The write pipeline for every number of users and writes, every size of  *)
(* the pipeline and any number of troubles: types, the code's assertions,  *)
(* and that answers, which do not name their write, find the right one.    *)
(*                                                                         *)
(* The inductive invariant is WireInv.  QueueInv has the mutation queues   *)
(* in the order of ids, with the next id above them, so that what follows  *)
(* the last batch of the pipeline is what the pipeline does not have yet.  *)
(* NetInv has the pipeline the beginning of the current user's queue, the  *)
(* state of the stream in step with what is on its way, and the answers    *)
(* with the pipeline and with what the server has applied.  CountsInv and  *)
(* OneToken follow a token from the request for it through FIRAuth and the *)
(* main queue to the worker queue: of all that are on their way at most    *)
(* one is for the stream as it is now, and the stream waits for it.        *)
(***************************************************************************)
EXTENDS WritePipeline, ListLemmas

\* Ids rise along a queue.
Sorted(q) == \A i, j \in DOMAIN q : i < j => q[i].id < q[j].id

\* The pipeline is the beginning of the queue, as much of it as was fetched.
IsPrefixOf(p, q) == /\ Len(p) <= Len(q)
                    /\ \A i \in 1..Len(p) : p[i] = q[i]

\* What a stream in each of its states has: who is started has something to
\* send; nothing is on its way without an open stream; until the handshake is
\* answered there is nothing but the handshake; a refusal is the last answer.
StreamOK(n) ==
    /\ n.state = "open" => n.token # NoUser
    /\ n.token # NoUser => n.state \in {"starting", "open"}
    /\ n.state # "open" => n.up = <<>> /\ n.down = <<>> /\ ~n.handshake
    /\ ~n.handshake => \/ n.up = <<>> /\ n.down = <<>>
                       \/ n.up = <<0>> /\ n.down = <<>>
                       \/ n.up = <<>> /\ n.down = <<"hello">>
    /\ n.handshake =>
         /\ n.up \in Seq(Writes)
         /\ \A i \in 1..Len(n.down) : n.down[i] \in {"ok", "refused"}
         /\ \A i \in 1..(Len(n.down) - 1) : n.down[i] = "ok"
    /\ IsStarted(n) /\ ~n.handshake => n.pipeline # <<>>
    /\ n.idle => n.handshake /\ n.pipeline = <<>>

\* It is a stream for queue q, and its pipeline the beginning of it.
NetOK(n, q) ==
    /\ n \in Net
    /\ StreamOK(n)
    /\ IsPrefixOf(n.pipeline, q)
    /\ Len(n.pipeline) <= MaxPendingWrites

\* How many writes the answers d confirm.
Refuses(d) == d # <<>> /\ d[Len(d)] = "refused"
Oks(d) == IF Refuses(d) THEN Len(d) - 1 ELSE Len(d)

\* AnswersMatch, write by write.
Matches(n, log) ==
    n.handshake =>
        LET k == Oks(n.down)
        IN  /\ k <= Len(log) /\ k <= Len(n.pipeline)
            /\ \A i \in 1..k :
                  log[Len(log) - k + i].write = n.pipeline[i].write
            /\ IF Refuses(n.down) THEN k < Len(n.pipeline)
               ELSE /\ Len(n.up) = Len(n.pipeline) - k
                    /\ \A i \in 1..Len(n.up) :
                          n.up[i] = n.pipeline[k + i].write

-----------------------------------------------------------------------------
\* What the assumptions say of the constants.
LEMMA WritesType ==
    /\ MaxPendingWrites \in Nat \ {0} /\ MaxWrites \in Nat
    /\ NoUser \notin Users
BY PipelineBoundsAssumption, UsersAssumption

\* The fields of a batch.
LEMMA BatchFields ==
    ASSUME NEW q \in Seq(Batch), NEW i \in 1..Len(q)
    PROVE  /\ q[i] \in Batch
           /\ q[i].id \in Nat /\ q[i].id > 0 /\ q[i].write \in Writes
<1>1. q[i] \in Batch
  OBVIOUS
<1> QED BY <1>1 DEF Batch

\* NextAfter of the last id of a prefix is the place after the prefix.
LEMMA NextAfterPrefix ==
    ASSUME NEW p \in Seq(Batch), NEW q \in Seq(Batch),
           Sorted(q), IsPrefixOf(p, q)
    PROVE  NextAfter(q, IF p = <<>> THEN 0 ELSE p[Len(p)].id) = Len(p) + 1
<1> DEFINE last == IF p = <<>> THEN 0 ELSE p[Len(p)].id
           After(i) == /\ \A j \in 1..(i - 1) : q[j].id <= last
                       /\ i <= Len(q) => q[i].id > last
<1>1. /\ Len(p) \in Nat /\ Len(q) \in Nat /\ Len(p) <= Len(q)
      /\ DOMAIN q = 1..Len(q) /\ DOMAIN p = 1..Len(p)
      /\ \A i \in 1..Len(p) : p[i] = q[i]
  BY DEF IsPrefixOf
<1>2. \A i \in 1..Len(q) : q[i].id \in Nat /\ q[i].id > 0
  BY BatchFields
<1>3. \A i, j \in 1..Len(q) : i < j => q[i].id < q[j].id
  BY <1>1 DEF Sorted
<1>4. CASE p = <<>>
  <2>1. Len(p) = 0 /\ last = 0
    BY <1>4
  <2>2. After(1)
    BY <1>1, <1>2, <2>1
  <2>3. \A i \in 1..(Len(q) + 1) : After(i) => i = 1
    BY <1>1, <1>2, <2>1
  <2> HIDE DEF After, last
  <2>4. (CHOOSE i \in 1..(Len(q) + 1) : After(i)) = 1
    BY <1>1, <2>2, <2>3
  <2> QED BY <2>1, <2>4 DEF NextAfter, After, last
<1>5. CASE p # <<>>
  <2>1. Len(p) \in 1..Len(q) /\ last = q[Len(p)].id /\ last \in Nat
    BY <1>1, <1>2, <1>5, EmptySeq
  <2>2. After(Len(p) + 1)
    <3>1. \A j \in 1..Len(p) : q[j].id <= q[Len(p)].id
      BY <1>1, <1>2, <1>3, <2>1
    <3>2. Len(p) + 1 <= Len(q) => q[Len(p) + 1].id > q[Len(p)].id
      BY <1>1, <1>3, <2>1
    <3> QED BY <1>1, <2>1, <3>1, <3>2
  <2>3. ASSUME NEW i \in 1..(Len(q) + 1), After(i)
        PROVE  i = Len(p) + 1
    <3>1. CASE i > Len(p) + 1
      <4>1. Len(p) + 1 \in 1..(i - 1) /\ Len(p) + 1 \in 1..Len(q)
        BY <1>1, <3>1
      <4>2. q[Len(p) + 1].id <= last /\ q[Len(p)].id < q[Len(p) + 1].id
        BY <1>1, <1>3, <2>1, <2>3, <4>1
      <4> QED BY <1>2, <2>1, <4>1, <4>2
    <3>2. CASE i < Len(p) + 1
      <4>1. i \in 1..Len(q) /\ i <= Len(p)
        BY <1>1, <3>2
      <4>2. q[i].id > last
        BY <2>3, <4>1
      <4>3. i = Len(p) \/ q[i].id < q[Len(p)].id
        <5>1. CASE i < Len(p)
          BY <1>3, <2>1, <4>1, <5>1
        <5>2. i < Len(p) \/ i = Len(p)
          <6>1. Len(p) \in Nat /\ i \in Nat
            BY <1>1, <4>1
          <6> HIDE DEF After, last
          <6> QED BY <4>1, <6>1
        <5> QED BY <5>1, <5>2
      <4> QED BY <1>2, <2>1, <4>1, <4>2, <4>3
    <3> QED BY <1>1, <3>1, <3>2
  <2>4. Len(p) + 1 \in 1..(Len(q) + 1)
    BY <1>1
  <2> HIDE DEF After, last
  <2>5. (CHOOSE i \in 1..(Len(q) + 1) : After(i)) = Len(p) + 1
    BY <2>2, <2>3, <2>4
  <2> QED BY <2>5 DEF NextAfter, After, last
<1> QED BY <1>4, <1>5

\* Following returns what comes after the pipeline in the queue, and no more
\* than there is room for.
LEMMA FollowingIs ==
    ASSUME NEW n \in Net, NEW q \in Seq(Batch), Sorted(q),
           IsPrefixOf(n.pipeline, q), Len(n.pipeline) <= MaxPendingWrites
    PROVE  LET more == Following(n, q)
           IN  /\ more \in Seq(Batch)
               /\ Len(n.pipeline) + Len(more) <= Len(q)
               /\ Len(n.pipeline) + Len(more) <= MaxPendingWrites
               /\ \A i \in 1..Len(more) : more[i] = q[Len(n.pipeline) + i]
<1> DEFINE p == n.pipeline
           last == IF p = <<>> THEN 0 ELSE p[Len(p)].id
           to == IF Len(q) < MaxPendingWrites THEN Len(q) ELSE MaxPendingWrites
<1>1. p \in Seq(Batch)
  BY DEF Net
<1>2. /\ Len(p) \in Nat /\ Len(q) \in Nat /\ Len(p) <= Len(q)
      /\ Len(p) <= MaxPendingWrites /\ MaxPendingWrites \in Nat
  BY <1>1, WritesType DEF IsPrefixOf
<1>3. NextAfter(q, last) = Len(p) + 1
  BY <1>1, NextAfterPrefix
<1>4. Following(n, q) = SubSeq(q, Len(p) + 1, to)
  <2> DEFINE end == NextAfter(q, last) - 1 + (MaxPendingWrites - Len(p))
  <2>1. end = MaxPendingWrites
    <3> HIDE DEF p, last
    <3> QED BY <1>2, <1>3
  <2>2. Following(n, q) = SubSeq(q, NextAfter(q, last),
                                 IF Len(q) < end THEN Len(q) ELSE end)
    BY DEF Following
  <2> HIDE DEF end, last, p
  <2> QED BY <1>3, <2>1, <2>2
<1> HIDE DEF p, last
<1>5. /\ to \in Nat /\ to <= Len(q) /\ to <= MaxPendingWrites /\ Len(p) <= to
  BY <1>2
<1> HIDE DEF to
<1>6. \A i \in (Len(p) + 1)..to : q[i] \in Batch
  BY <1>2, <1>5, ElementOfSeq
<1> DEFINE more == SubSeq(q, Len(p) + 1, to)
<1>7. /\ more \in Seq(Batch)
      /\ Len(more) = IF Len(p) + 1 <= to THEN to - (Len(p) + 1) + 1 ELSE 0
      /\ \A i \in 1..(to - (Len(p) + 1) + 1) : more[i] = q[Len(p) + 1 + i - 1]
  BY <1>2, <1>5, <1>6, SubSeqProperties
<1> HIDE DEF more
<1>8. Len(more) = to - Len(p)
  BY <1>2, <1>5, <1>7
<1>9. \A i \in 1..Len(more) : more[i] = q[Len(p) + i]
  <2> TAKE i \in 1..Len(more)
  <2>1. i \in 1..(to - (Len(p) + 1) + 1) /\ Len(p) + 1 + i - 1 = Len(p) + i
    BY <1>2, <1>5, <1>8
  <2> QED BY <1>7, <2>1
<1>10. Following(n, q) = more
  BY <1>4 DEF more
<1>11. /\ Len(p) + Len(more) <= Len(q) /\ Len(p) + Len(more) <= MaxPendingWrites
  BY <1>2, <1>5, <1>8
<1> QED BY <1>7, <1>9, <1>10, <1>11 DEF p

\* WritesOf, element by element.
LEMMA WritesOfIs ==
    ASSUME NEW q \in Seq(Batch)
    PROVE  /\ WritesOf(q) \in Seq(Writes)
           /\ Len(WritesOf(q)) = Len(q)
           /\ \A i \in 1..Len(q) : WritesOf(q)[i] = q[i].write
<1>1. DOMAIN q = 1..Len(q) /\ Len(q) \in Nat
  OBVIOUS
<1>2. \A i \in 1..Len(q) : q[i].write \in Writes
  BY BatchFields
<1>3. [i \in 1..Len(q) |-> q[i].write] \in Seq(Writes)
  BY <1>1, <1>2, IsASeq
<1>4. WritesOf(q) = [i \in 1..Len(q) |-> q[i].write]
  BY <1>1 DEF WritesOf
<1> QED BY <1>1, <1>3, <1>4

\* The fields of a stream's record.
LEMMA NetFields ==
    ASSUME NEW n \in Net
    PROVE  /\ n.pipeline \in Seq(Batch)
           /\ n.state \in {"initial", "starting", "open", "error", "backoff"}
           /\ n.handshake \in BOOLEAN /\ n.idle \in BOOLEAN
           /\ n.closes \in Nat
           /\ n.asked \in SUBSET Request
           /\ n.token \in Users \cup {NoUser}
           /\ n.up \in Seq({0} \cup Writes)
           /\ n.down \in Seq({"hello", "ok", "refused"})
BY DEF Net

\* The request for a token that Start makes.
Ask(closes) == [counter |-> counter, closes |-> closes, read |-> NoUser]

\* What is done to a stream that may be started.
Started(n, m) ==
    IF ShouldStart(n)
    THEN IF n.state = "error" THEN m.state = "backoff" /\ m.asked = n.asked
         ELSE m.state = "starting" /\ m.asked = n.asked \cup {Ask(n.closes)}
    ELSE m.state = n.state /\ m.asked = n.asked

\* StartIfNeeded changes nothing but the state and the requests.
LEMMA StartIfNeededIs ==
    ASSUME NEW n \in Net, counter \in Nat
    PROVE  LET m == StartIfNeeded(n)
           IN  /\ m \in Net
               /\ Started(n, m)
               /\ m.pipeline = n.pipeline /\ m.handshake = n.handshake
               /\ m.idle = n.idle /\ m.closes = n.closes /\ m.token = n.token
               /\ m.up = n.up /\ m.down = n.down
<1>1. Ask(n.closes) \in Request
  BY NetFields DEF Ask, Request
<1>2. CASE ~ShouldStart(n)
  BY <1>2 DEF StartIfNeeded, Started
<1>3. CASE ShouldStart(n) /\ n.state = "error"
  BY <1>3 DEF StartIfNeeded, Started, Start, Net
<1>4. CASE ShouldStart(n) /\ n.state # "error"
  <2>1. StartIfNeeded(n) = [n EXCEPT !.state = "starting",
                                     !.asked = @ \cup {Ask(n.closes)}]
    BY <1>4 DEF StartIfNeeded, Start, AskForToken, Ask, Net
  <2> DEFINE m == [n EXCEPT !.state = "starting",
                            !.asked = @ \cup {Ask(n.closes)}]
  <2>2. n.asked \cup {Ask(n.closes)} \in SUBSET Request
    BY <1>1, NetFields
  <2> HIDE DEF Ask
  <2>3. m \in Net
    BY <2>2 DEF Net
  <2>4. m.state = "starting" /\ m.asked = n.asked \cup {Ask(n.closes)}
    BY DEF Net
  <2>5. /\ m.pipeline = n.pipeline /\ m.handshake = n.handshake
        /\ m.idle = n.idle /\ m.closes = n.closes /\ m.token = n.token
        /\ m.up = n.up /\ m.down = n.down
    BY DEF Net
  <2> QED BY <1>4, <2>1, <2>3, <2>4, <2>5 DEF Started
<1> QED BY <1>2, <1>3, <1>4

\* FillWritePipeline.
LEMMA FillIs ==
    ASSUME NEW n \in Net, NEW q \in Seq(Batch), Sorted(q), counter \in Nat,
           IsPrefixOf(n.pipeline, q), Len(n.pipeline) <= MaxPendingWrites
    PROVE  LET more == Following(n, q)
               m == Fill(n, q)
           IN  /\ m \in Net
               /\ m.pipeline = n.pipeline \o more
               /\ m.up = IF IsLive(n) THEN n.up \o WritesOf(more) ELSE n.up
               /\ m.idle = \/ n.state = "open" /\ m.pipeline = <<>>
                           \/ n.idle /\ ~(IsLive(n) /\ more # <<>>)
               /\ m.down = n.down /\ m.handshake = n.handshake
               /\ m.closes = n.closes /\ m.token = n.token
               /\ IF IsStarted(n) \/ m.pipeline = <<>>
                  THEN m.state = n.state /\ m.asked = n.asked
                  ELSE IF n.state = "error"
                  THEN m.state = "backoff" /\ m.asked = n.asked
                  ELSE /\ m.state = "starting"
                       /\ m.asked = n.asked \cup {Ask(n.closes)}
<1> DEFINE more == Following(n, q)
           up == IF IsLive(n) THEN n.up \o WritesOf(more) ELSE n.up
           idle == \/ n.state = "open" /\ n.pipeline \o more = <<>>
                   \/ n.idle /\ ~(IsLive(n) /\ more # <<>>)
           f == [n EXCEPT !.pipeline = n.pipeline \o more,
                          !.up = up, !.idle = idle]
<1>1. more \in Seq(Batch)
  BY FollowingIs
<1>2. Fill(n, q) = StartIfNeeded(f)
  BY DEF Fill
<1> HIDE DEF more
<1>3. n.pipeline \o more \in Seq(Batch)
  BY <1>1, NetFields, ConcatProperties
<1>4. up \in Seq({0} \cup Writes)
  <2>1. WritesOf(more) \in Seq({0} \cup Writes)
    BY <1>1, WritesOfIs, SeqMonotonic
  <2>2. n.up \in Seq({0} \cup Writes)
    BY NetFields
  <2>3. n.up \o WritesOf(more) \in Seq({0} \cup Writes)
    BY <2>1, <2>2, ConcatProperties
  <2> QED BY <2>2, <2>3
<1>5. idle \in BOOLEAN
  OBVIOUS
<1> HIDE DEF up, idle
<1>6. /\ f \in Net
      /\ f.pipeline = n.pipeline \o more /\ f.up = up /\ f.idle = idle
      /\ f.down = n.down /\ f.handshake = n.handshake
      /\ f.closes = n.closes /\ f.token = n.token
      /\ f.state = n.state /\ f.asked = n.asked
  BY <1>3, <1>4, <1>5 DEF Net
<1> HIDE DEF f
<1>7. LET m == StartIfNeeded(f)
      IN  /\ m \in Net
          /\ Started(f, m)
          /\ m.pipeline = f.pipeline /\ m.handshake = f.handshake
          /\ m.idle = f.idle /\ m.closes = f.closes /\ m.token = f.token
          /\ m.up = f.up /\ m.down = f.down
  BY <1>6, StartIfNeededIs
<1> DEFINE m == Fill(n, q)
<1>8. /\ m \in Net
      /\ m.pipeline = n.pipeline \o more
      /\ m.up = up /\ m.idle = idle
      /\ m.down = n.down /\ m.handshake = n.handshake
      /\ m.closes = n.closes /\ m.token = n.token
      /\ Started(f, m)
  BY <1>2, <1>6, <1>7
<1> HIDE DEF m
<1>9. IF IsStarted(n) \/ m.pipeline = <<>>
      THEN m.state = n.state /\ m.asked = n.asked
      ELSE IF n.state = "error"
      THEN m.state = "backoff" /\ m.asked = n.asked
      ELSE m.state = "starting" /\ m.asked = n.asked \cup {Ask(n.closes)}
  BY <1>6, <1>8 DEF Started, ShouldStart, IsStarted
<1>10. m.idle = (\/ n.state = "open" /\ m.pipeline = <<>>
                 \/ n.idle /\ ~(IsLive(n) /\ more # <<>>))
  BY <1>8 DEF idle
<1>11. m.up = IF IsLive(n) THEN n.up \o WritesOf(more) ELSE n.up
  BY <1>8 DEF up
<1> QED BY <1>8, <1>9, <1>10, <1>11 DEF m, more

-----------------------------------------------------------------------------
(* What the calls of RemoteStore make of a stream that is in order *)

\* The requests, the token and the close count after a call: a token is wanted
\* at most for the stream as it is now, and what was wanted before is either
\* still wanted or for a stream that was closed.
Moves(n, m) ==
    /\ m.closes \in {n.closes, n.closes + 1}
    /\ m.token \in {NoUser, n.token}
    /\ \/ m.asked = n.asked
       \/ /\ m.asked = n.asked \cup {Ask(m.closes)}
          /\ m.state = "starting" /\ m.token = NoUser
    /\ m.closes = n.closes /\ n.state = "starting" /\ n.token = NoUser
       => m.state = "starting" /\ m.token = NoUser /\ m.asked = n.asked

\* A prefix of a queue with what follows it is a prefix, and not too long.
LEMMA PrefixFollowing ==
    ASSUME NEW p \in Seq(Batch), NEW q \in Seq(Batch), NEW more \in Seq(Batch),
           IsPrefixOf(p, q), Len(p) + Len(more) <= Len(q),
           \A i \in 1..Len(more) : more[i] = q[Len(p) + i]
    PROVE  IsPrefixOf(p \o more, q)
<1>1. /\ Len(p) \in Nat /\ Len(q) \in Nat /\ Len(more) \in Nat
      /\ \A i \in 1..Len(p) : p[i] = q[i]
  BY DEF IsPrefixOf
<1>2. /\ Len(p \o more) = Len(p) + Len(more)
      /\ \A i \in 1..(Len(p) + Len(more)) :
           (p \o more)[i] = IF i <= Len(p) THEN p[i] ELSE more[i - Len(p)]
  BY ConcatProperties
<1>3. ASSUME NEW i \in 1..(Len(p) + Len(more)) PROVE (p \o more)[i] = q[i]
  <2>1. CASE i <= Len(p)
    BY <1>1, <1>2, <2>1
  <2>2. CASE ~(i <= Len(p))
    <3>1. i - Len(p) \in 1..Len(more) /\ Len(p) + (i - Len(p)) = i
      BY <1>1, <2>2
    <3> QED BY <1>2, <2>2, <3>1
  <2> QED BY <2>1, <2>2
<1> QED BY <1>1, <1>2, <1>3 DEF IsPrefixOf

\* FillWritePipeline keeps the stream in order, leaves what it says and hears
\* alone, and asks for a token only as it starts.
LEMMA FillNetOK ==
    ASSUME NEW n, NEW q \in Seq(Batch), Sorted(q), counter \in Nat, NetOK(n, q)
    PROVE  /\ NetOK(Fill(n, q), q)
           /\ Moves(n, Fill(n, q))
           /\ Fill(n, q).closes = n.closes /\ Fill(n, q).token = n.token
           /\ Fill(n, q).down = n.down
           /\ Fill(n, q).handshake = n.handshake
<1> DEFINE more == Following(n, q)
           m == Fill(n, q)
<1>1. /\ n \in Net /\ StreamOK(n) /\ IsPrefixOf(n.pipeline, q)
      /\ Len(n.pipeline) <= MaxPendingWrites
  BY DEF NetOK
<1>2. /\ more \in Seq(Batch)
      /\ Len(n.pipeline) + Len(more) <= Len(q)
      /\ Len(n.pipeline) + Len(more) <= MaxPendingWrites
      /\ \A i \in 1..Len(more) : more[i] = q[Len(n.pipeline) + i]
  BY <1>1, FollowingIs
<1>3. /\ m \in Net
      /\ m.pipeline = n.pipeline \o more
      /\ m.up = IF IsLive(n) THEN n.up \o WritesOf(more) ELSE n.up
      /\ m.idle = (\/ n.state = "open" /\ m.pipeline = <<>>
                   \/ n.idle /\ ~(IsLive(n) /\ more # <<>>))
      /\ m.down = n.down /\ m.handshake = n.handshake
      /\ m.closes = n.closes /\ m.token = n.token
      /\ IF IsStarted(n) \/ m.pipeline = <<>>
         THEN m.state = n.state /\ m.asked = n.asked
         ELSE IF n.state = "error"
         THEN m.state = "backoff" /\ m.asked = n.asked
         ELSE m.state = "starting" /\ m.asked = n.asked \cup {Ask(n.closes)}
  BY <1>1, FillIs
<1> HIDE DEF more, m
<1>4. n.pipeline \in Seq(Batch) /\ n.up \in Seq({0} \cup Writes)
      /\ n.state \in {"initial", "starting", "open", "error", "backoff"}
      /\ n.closes \in Nat /\ n.handshake \in BOOLEAN /\ n.idle \in BOOLEAN
  BY <1>1, NetFields
<1>5. IsPrefixOf(m.pipeline, q) /\ Len(m.pipeline) <= MaxPendingWrites
  <2>1. IsPrefixOf(n.pipeline \o more, q)
    BY <1>1, <1>2, <1>4, PrefixFollowing
  <2>2. Len(n.pipeline \o more) = Len(n.pipeline) + Len(more)
    BY <1>2, <1>4, ConcatProperties
  <2> QED BY <1>2, <1>3, <2>1, <2>2
<1>6. m.pipeline = <<>> <=> n.pipeline = <<>> /\ more = <<>>
  BY <1>2, <1>3, <1>4, ConcatEqualIffEmpty
<1>7. n.handshake => m.up \in Seq(Writes)
  <2> SUFFICES ASSUME n.handshake PROVE m.up \in Seq(Writes)
    OBVIOUS
  <2>1. n.up \in Seq(Writes) /\ WritesOf(more) \in Seq(Writes)
    BY <1>1, <1>2, WritesOfIs DEF StreamOK
  <2>2. n.up \o WritesOf(more) \in Seq(Writes)
    BY <2>1, ConcatProperties
  <2> QED BY <1>3, <2>1, <2>2
<1>8. ~n.handshake => m.up = n.up
  BY <1>3 DEF IsLive
<1>9. ~IsStarted(n) =>
        n.token = NoUser /\ n.state # "open" /\ n.state # "starting"
  BY <1>1 DEF IsStarted, StreamOK
<1>10. \/ m.state = n.state
       \/ /\ ~IsStarted(n) /\ m.state \in {"starting", "backoff"}
          /\ m.pipeline # <<>>
  BY <1>3
<1>11. m.idle => m.handshake /\ m.pipeline = <<>>
  <2> SUFFICES ASSUME m.idle PROVE m.handshake /\ m.pipeline = <<>>
    OBVIOUS
  <2>1. CASE n.state = "open" /\ m.pipeline = <<>>
    BY <1>1, <1>3, <1>6, <2>1 DEF StreamOK, IsStarted
  <2>2. CASE n.idle /\ ~(IsLive(n) /\ more # <<>>)
    <3>1. n.handshake /\ n.pipeline = <<>>
      BY <1>1, <2>2 DEF StreamOK
    <3>2. n.state = "open"
      BY <1>1, <3>1 DEF StreamOK
    <3>3. more = <<>>
      BY <2>2, <3>1, <3>2 DEF IsLive
    <3> QED BY <1>3, <1>6, <3>1, <3>3
  <2> QED BY <1>3, <2>1, <2>2
<1>12. StreamOK(m)
  <2>1. /\ m.state = "open" => m.token # NoUser
        /\ m.token # NoUser => m.state \in {"starting", "open"}
    BY <1>1, <1>3, <1>9, <1>10 DEF StreamOK, IsStarted
  <2>2. m.state # "open" => m.up = <<>> /\ m.down = <<>> /\ ~m.handshake
    BY <1>1, <1>3, <1>8, <1>9, <1>10 DEF StreamOK
  <2>3. ~m.handshake => \/ m.up = <<>> /\ m.down = <<>>
                        \/ m.up = <<0>> /\ m.down = <<>>
                        \/ m.up = <<>> /\ m.down = <<"hello">>
    BY <1>1, <1>3, <1>8 DEF StreamOK
  <2>4. m.handshake =>
         /\ m.up \in Seq(Writes)
         /\ \A i \in 1..Len(m.down) : m.down[i] \in {"ok", "refused"}
         /\ \A i \in 1..(Len(m.down) - 1) : m.down[i] = "ok"
    BY <1>1, <1>3, <1>7 DEF StreamOK
  <2>5. IsStarted(m) /\ ~m.handshake => m.pipeline # <<>>
    BY <1>1, <1>3, <1>6, <1>10 DEF StreamOK, IsStarted
  <2> QED BY <1>11, <2>1, <2>2, <2>3, <2>4, <2>5 DEF StreamOK
<1>13. Moves(n, m)
  <2>1. m.closes \in {n.closes, n.closes + 1} /\ m.token \in {NoUser, n.token}
    BY <1>3
  <2>2. \/ m.asked = n.asked
        \/ /\ m.asked = n.asked \cup {Ask(m.closes)}
           /\ m.state = "starting" /\ m.token = NoUser
    BY <1>3, <1>9
  <2>3. m.closes = n.closes /\ n.state = "starting" /\ n.token = NoUser
        => m.state = "starting" /\ m.token = NoUser /\ m.asked = n.asked
    BY <1>3 DEF IsStarted
  <2> QED BY <2>1, <2>2, <2>3 DEF Moves
<1> QED BY <1>3, <1>5, <1>12, <1>13 DEF NetOK, m

\* What Fill adds to the pipeline it adds to what is on its way.
LEMMA FillMatches ==
    ASSUME NEW n, NEW q \in Seq(Batch), Sorted(q), counter \in Nat, NetOK(n, q),
           NEW log, Matches(n, log)
    PROVE  Matches(Fill(n, q), log)
<1> DEFINE more == Following(n, q)
           m == Fill(n, q)
           k == Oks(n.down)
<1>1. /\ n \in Net /\ StreamOK(n) /\ IsPrefixOf(n.pipeline, q)
      /\ Len(n.pipeline) <= MaxPendingWrites
  BY DEF NetOK
<1>2. more \in Seq(Batch)
  BY <1>1, FollowingIs
<1>3. /\ m.pipeline = n.pipeline \o more
      /\ m.up = IF IsLive(n) THEN n.up \o WritesOf(more) ELSE n.up
      /\ m.down = n.down /\ m.handshake = n.handshake
  BY <1>1, FillIs
<1> HIDE DEF more, m
<1> SUFFICES ASSUME n.handshake
             PROVE  Matches(m, log)
  BY <1>3 DEF Matches, m
<1>4. /\ n.pipeline \in Seq(Batch) /\ n.up \in Seq(Writes)
      /\ n.down \in Seq({"hello", "ok", "refused"})
  BY <1>1, NetFields DEF StreamOK
<1>0. /\ Len(n.pipeline) \in Nat /\ Len(more) \in Nat /\ Len(n.up) \in Nat
      /\ Len(n.down) \in Nat
  BY <1>2, <1>4
<1>5. m.up = n.up \o WritesOf(more)
  BY <1>1, <1>3 DEF IsLive, StreamOK
<1>6. k \in Nat /\ Oks(m.down) = k /\ Refuses(m.down) = Refuses(n.down)
  <2>1. Len(n.down) \in Nat /\ (n.down # <<>> => Len(n.down) > 0)
    BY <1>4
  <2>2. k \in Nat
    BY <2>1 DEF Oks, Refuses
  <2> QED BY <1>3, <2>2
<1> HIDE DEF k
<1>7. /\ k <= Len(log) /\ k <= Len(n.pipeline)
      /\ \A i \in 1..k : log[Len(log) - k + i].write = n.pipeline[i].write
      /\ IF Refuses(n.down) THEN k < Len(n.pipeline)
         ELSE /\ Len(n.up) = Len(n.pipeline) - k
              /\ \A i \in 1..Len(n.up) : n.up[i] = n.pipeline[k + i].write
  BY DEF Matches, k
<1>8. /\ Len(m.pipeline) = Len(n.pipeline) + Len(more)
      /\ \A i \in 1..Len(n.pipeline) : m.pipeline[i] = n.pipeline[i]
      /\ \A i \in 1..Len(more) : m.pipeline[Len(n.pipeline) + i] = more[i]
  <2>1. Len(n.pipeline) \in Nat /\ Len(more) \in Nat
    BY <1>2, <1>4
  <2>2. /\ Len(n.pipeline \o more) = Len(n.pipeline) + Len(more)
        /\ \A i \in 1..(Len(n.pipeline) + Len(more)) :
              (n.pipeline \o more)[i] =
              IF i <= Len(n.pipeline) THEN n.pipeline[i]
              ELSE more[i - Len(n.pipeline)]
    BY <1>2, <1>4, ConcatProperties
  <2>3. \A i \in 1..Len(more) :
           /\ Len(n.pipeline) + i \in 1..(Len(n.pipeline) + Len(more))
           /\ ~(Len(n.pipeline) + i <= Len(n.pipeline))
           /\ (Len(n.pipeline) + i) - Len(n.pipeline) = i
    BY <2>1
  <2> QED BY <1>3, <2>1, <2>2, <2>3
<1>9. /\ k <= Len(m.pipeline)
      /\ \A i \in 1..k : log[Len(log) - k + i].write = m.pipeline[i].write
  <2>1. \A i \in 1..k : i \in 1..Len(n.pipeline)
    BY <1>0, <1>6, <1>7
  <2>2. k <= Len(m.pipeline)
    BY <1>0, <1>6, <1>7, <1>8
  <2> QED BY <1>7, <1>8, <2>1, <2>2
<1>10. CASE Refuses(n.down)
  <2>1. k < Len(m.pipeline)
    BY <1>0, <1>6, <1>7, <1>8, <1>10
  <2> QED BY <1>6, <1>7, <1>9, <1>10, <2>1 DEF Matches
<1>11. CASE ~Refuses(n.down)
  <2>1. /\ WritesOf(more) \in Seq(Writes) /\ Len(WritesOf(more)) = Len(more)
        /\ \A i \in 1..Len(more) : WritesOf(more)[i] = more[i].write
    BY <1>2, WritesOfIs
  <2>2. /\ Len(m.up) = Len(n.up) + Len(more)
        /\ \A i \in 1..(Len(n.up) + Len(more)) :
             m.up[i] = IF i <= Len(n.up) THEN n.up[i]
                       ELSE WritesOf(more)[i - Len(n.up)]
    <3> DEFINE w == WritesOf(more)
    <3>1. w \in Seq(Writes) /\ Len(w) = Len(more)
      BY <2>1
    <3> HIDE DEF w
    <3>2. /\ Len(n.up \o w) = Len(n.up) + Len(w)
          /\ \A i \in 1..(Len(n.up) + Len(w)) :
               (n.up \o w)[i] = IF i <= Len(n.up) THEN n.up[i]
                                 ELSE w[i - Len(n.up)]
      BY <1>4, <3>1, ConcatProperties
    <3> QED BY <1>5, <3>1, <3>2 DEF w
  <2>3. Len(n.up) = Len(n.pipeline) - k
    BY <1>7, <1>11
  <2>4. Len(m.up) = Len(m.pipeline) - k
    BY <1>0, <1>6, <1>8, <2>2, <2>3
  <2>5. ASSUME NEW i \in 1..Len(m.up)
        PROVE  m.up[i] = m.pipeline[k + i].write
    <3>1. CASE i <= Len(n.up)
      <4>1. i \in 1..Len(n.up) /\ k + i \in 1..Len(n.pipeline)
        BY <1>0, <1>6, <1>7, <2>3, <3>1
      <4>2. i \in 1..(Len(n.up) + Len(more))
        BY <1>0, <4>1
      <4>3. m.up[i] = n.up[i]
        BY <2>2, <3>1, <4>2
      <4>4. m.pipeline[k + i] = n.pipeline[k + i]
        BY <1>8, <4>1
      <4>5. n.up[i] = n.pipeline[k + i].write
        BY <1>7, <1>11, <4>1
      <4> QED BY <4>3, <4>4, <4>5
    <3>2. CASE ~(i <= Len(n.up))
      <4>1. i - Len(n.up) \in 1..Len(more)
            /\ Len(n.pipeline) + (i - Len(n.up)) = k + i
        BY <1>0, <1>6, <2>2, <2>3, <3>2
      <4>2. m.up[i] = more[i - Len(n.up)].write
        BY <2>1, <2>2, <3>2, <4>1
      <4>3. m.pipeline[k + i] = more[i - Len(n.up)]
        BY <1>8, <4>1
      <4> QED BY <4>2, <4>3
    <3> QED BY <3>1, <3>2
  <2> QED BY <1>6, <1>7, <1>9, <1>11, <2>4, <2>5 DEF Matches
<1> QED BY <1>10, <1>11

\* Stream::Close.
LEMMA CloseIs ==
    ASSUME NEW n \in Net, NEW state \in {"initial", "error"}
    PROVE  LET m == Close(n, state)
           IN  /\ m \in Net
               /\ m.pipeline = n.pipeline /\ m.asked = n.asked
               /\ m.state = state /\ m.closes = n.closes + 1
               /\ ~m.idle /\ ~m.handshake /\ m.token = NoUser
               /\ m.up = <<>> /\ m.down = <<>>
<1> DEFINE m == Close(n, state)
<1>1. m = [n EXCEPT !.state = state, !.closes = n.closes + 1, !.idle = FALSE,
                    !.handshake = FALSE, !.token = NoUser,
                    !.up = <<>>, !.down = <<>>]
  BY DEF Close, Net
<1>2. n.closes + 1 \in Nat /\ <<>> \in Seq({0} \cup Writes)
      /\ <<>> \in Seq({"hello", "ok", "refused"})
  BY NetFields
<1>3. m \in Net
  BY <1>1, <1>2 DEF Net
<1>4. /\ m.pipeline = n.pipeline /\ m.asked = n.asked
      /\ m.state = state /\ m.closes = n.closes + 1
      /\ ~m.idle /\ ~m.handshake /\ m.token = NoUser
      /\ m.up = <<>> /\ m.down = <<>>
  BY <1>1 DEF Net
<1> QED BY <1>3, <1>4

\* A stream that is not there has nothing that could be out of order.
LEMMA QuietOK ==
    ASSUME NEW n \in Net, NEW q,
           n.state \in {"initial", "error", "backoff", "starting"},
           ~n.idle, ~n.handshake, n.token = NoUser, n.up = <<>>, n.down = <<>>,
           IsPrefixOf(n.pipeline, q), Len(n.pipeline) <= MaxPendingWrites,
           IsStarted(n) => n.pipeline # <<>>
    PROVE  NetOK(n, q)
BY DEF NetOK, StreamOK

\* So does Stream::Close, which leaves nothing on its way.
LEMMA CloseNetOK ==
    ASSUME NEW n, NEW q, NetOK(n, q), NEW state \in {"initial", "error"}
    PROVE  NetOK(Close(n, state), q)
<1>1. /\ n \in Net /\ IsPrefixOf(n.pipeline, q)
      /\ Len(n.pipeline) <= MaxPendingWrites
  BY DEF NetOK
<1> DEFINE m == Close(n, state)
<1>2. /\ m \in Net
      /\ m.pipeline = n.pipeline /\ m.state = state
      /\ ~m.idle /\ ~m.handshake /\ m.token = NoUser
      /\ m.up = <<>> /\ m.down = <<>>
  BY <1>1, CloseIs
<1> HIDE DEF m
<1>3. ~IsStarted(m)
  BY <1>2 DEF IsStarted
<1>4. NetOK(m, q)
  BY <1>1, <1>2, <1>3, QuietOK
<1> QED BY <1>4 DEF m

\* What a call leaves that closes the stream.
Closed(n, m) ==
    /\ ~m.idle /\ ~m.handshake /\ m.token = NoUser
    /\ m.up = <<>> /\ m.down = <<>>
    /\ IsStarted(n) => m.closes = n.closes + 1

\* So does a break, after which the stream may be waiting to start again.
LEMMA BreakNetOK ==
    ASSUME NEW n, NEW q, NetOK(n, q), counter \in Nat
    PROVE  /\ NetOK(Break(n), q)
           /\ Moves(n, Break(n))
           /\ Closed(n, Break(n))
<1> DEFINE c == Close(n, "error")
           m == Break(n)
<1>1. /\ n \in Net /\ IsPrefixOf(n.pipeline, q)
      /\ Len(n.pipeline) <= MaxPendingWrites
  BY DEF NetOK
<1>2. /\ c \in Net
      /\ c.pipeline = n.pipeline /\ c.asked = n.asked
      /\ c.state = "error" /\ c.closes = n.closes + 1
      /\ ~c.idle /\ ~c.handshake /\ c.token = NoUser
      /\ c.up = <<>> /\ c.down = <<>>
  BY <1>1, CloseIs
<1>3. m = StartIfNeeded(c)
  BY DEF Break
<1> HIDE DEF c, m
<1>4. /\ m \in Net
      /\ Started(c, m)
      /\ m.pipeline = c.pipeline /\ m.handshake = c.handshake
      /\ m.idle = c.idle /\ m.closes = c.closes /\ m.token = c.token
      /\ m.up = c.up /\ m.down = c.down
  BY <1>2, <1>3, StartIfNeededIs
<1>5. /\ m.state \in {"error", "backoff"} /\ m.asked = n.asked
      /\ IsStarted(m) => m.pipeline # <<>>
  BY <1>2, <1>4 DEF Started, ShouldStart, IsStarted
<1>6. NetOK(m, q)
  BY <1>1, <1>2, <1>4, <1>5, QuietOK
<1>7. n.closes \in Nat
  BY <1>1, NetFields
<1>8. Moves(n, m) /\ Closed(n, m)
  BY <1>2, <1>4, <1>5, <1>7 DEF Moves, Closed
<1> QED BY <1>6, <1>8 DEF m

\* Nothing is a prefix of everything.
LEMMA EmptyPrefix == ASSUME NEW q \in Seq(Batch) PROVE IsPrefixOf(<<>>, q)
BY DEF IsPrefixOf

\* So does RestartNetwork, whatever the queue the pipeline is filled from.
LEMMA RestartNetOK ==
    ASSUME NEW n, NEW p, NetOK(n, p), counter \in Nat,
           NEW q \in Seq(Batch), Sorted(q)
    PROVE  /\ NetOK(Restart(n, q), q)
           /\ Moves(n, Restart(n, q))
           /\ Closed(n, Restart(n, q))
<1> DEFINE s == IF IsStarted(n) THEN Close(n, "initial") ELSE n
           r == [s EXCEPT !.state = "initial", !.pipeline = <<>>]
           m == Restart(n, q)
<1>1. n \in Net /\ StreamOK(n)
  BY DEF NetOK
<1>2. /\ s \in Net /\ s.asked = n.asked
      /\ ~s.idle /\ ~s.handshake /\ s.token = NoUser
      /\ s.up = <<>> /\ s.down = <<>>
      /\ s.closes = IF IsStarted(n) THEN n.closes + 1 ELSE n.closes
  <2>1. CASE IsStarted(n)
    BY <1>1, <2>1, CloseIs
  <2>2. CASE ~IsStarted(n)
    BY <1>1, <2>2 DEF StreamOK, IsStarted
  <2> QED BY <2>1, <2>2
<1>3. m = Fill(r, q)
  BY DEF Restart
<1> HIDE DEF s, m
<1>4. /\ r \in Net /\ r.state = "initial" /\ r.pipeline = <<>>
      /\ r.asked = s.asked /\ r.idle = s.idle /\ r.handshake = s.handshake
      /\ r.token = s.token /\ r.up = s.up /\ r.down = s.down
      /\ r.closes = s.closes
  <2>1. <<>> \in Seq(Batch)
    OBVIOUS
  <2> QED BY <1>2, <2>1 DEF Net
<1> HIDE DEF r
<1>5. NetOK(r, q)
  <2>1. IsPrefixOf(r.pipeline, q) /\ Len(r.pipeline) <= MaxPendingWrites
    BY <1>4, EmptyPrefix, WritesType
  <2>2. ~IsStarted(r)
    BY <1>4 DEF IsStarted
  <2> QED BY <1>2, <1>4, <2>1, <2>2, QuietOK
<1>6. /\ NetOK(m, q) /\ Moves(r, m)
      /\ m.closes = r.closes /\ m.token = r.token /\ m.down = r.down
      /\ m.handshake = r.handshake
  BY <1>3, <1>5, FillNetOK
<1>7. n.closes \in Nat /\ n.token \in Users \cup {NoUser}
  BY <1>1, NetFields
<1>8. Closed(n, m)
  <2>1. ~m.idle /\ m.token = NoUser
    BY <1>2, <1>4, <1>6 DEF NetOK, StreamOK
  <2>2. m.state # "open"
    BY <1>6, <2>1 DEF NetOK, StreamOK
  <2> QED BY <1>2, <1>4, <1>6, <2>1, <2>2 DEF Closed, NetOK, StreamOK
<1>9. Moves(n, m)
  <2>1. m.closes \in {n.closes, n.closes + 1} /\ m.token = NoUser
    BY <1>2, <1>4, <1>6
  <2>2. \/ m.asked = n.asked
        \/ /\ m.asked = n.asked \cup {Ask(m.closes)}
           /\ m.state = "starting" /\ m.token = NoUser
    BY <1>2, <1>4, <1>6, <2>1 DEF Moves
  <2>3. ~(m.closes = n.closes /\ n.state = "starting")
    BY <1>2, <1>4, <1>6, <1>7 DEF IsStarted
  <2> QED BY <2>1, <2>2, <2>3 DEF Moves
<1> QED BY <1>6, <1>8, <1>9 DEF m

-----------------------------------------------------------------------------
(* Queues *)

\* Every queue is sorted, and the next id is larger than those of the current
\* user's queue; no id of any queue is out of bounds.
QueueInv ==
    /\ \A u \in Users : Sorted(queue[u])
    /\ \A i \in DOMAIN queue[user] : queue[user][i].id < nextId
    /\ \E bound \in Nat :
         \A u \in Users : \A i \in DOMAIN queue[u] : queue[u][i].id <= bound

\* A batch with a larger id goes to the end of a queue.
LEMMA AppendSorted ==
    ASSUME NEW q \in Seq(Batch), Sorted(q), NEW b \in Batch,
           \A i \in DOMAIN q : q[i].id < b.id
    PROVE  /\ Append(q, b) \in Seq(Batch) /\ Sorted(Append(q, b))
           /\ \A p : IsPrefixOf(p, q) => IsPrefixOf(p, Append(q, b))
<1>1. /\ Append(q, b) \in Seq(Batch) /\ Len(Append(q, b)) = Len(q) + 1
      /\ \A i \in 1..Len(q) : Append(q, b)[i] = q[i]
      /\ Append(q, b)[Len(q) + 1] = b
  BY AppendProperties
<1>2. /\ DOMAIN q = 1..Len(q) /\ DOMAIN Append(q, b) = 1..(Len(q) + 1)
      /\ Len(q) \in Nat
  BY <1>1
<1>3. Sorted(Append(q, b))
  BY <1>1, <1>2 DEF Sorted
<1>4. ASSUME NEW p, IsPrefixOf(p, q) PROVE IsPrefixOf(p, Append(q, b))
  <2>1. Len(p) <= Len(q) /\ \A i \in 1..Len(p) : p[i] = q[i]
    BY <1>4 DEF IsPrefixOf
  <2>2. Len(p) <= Len(q) + 1
    BY <1>2, <2>1
  <2>3. \A i \in 1..Len(p) : i \in 1..Len(q)
    BY <1>2, <2>1
  <2> QED BY <1>1, <2>1, <2>2, <2>3 DEF IsPrefixOf
<1> QED BY <1>1, <1>3, <1>4

\* A queue stays in the order of ids without its oldest batch.
LEMMA TailSorted ==
    ASSUME NEW q \in Seq(Batch), Sorted(q), q # <<>>
    PROVE  /\ Tail(q) \in Seq(Batch) /\ Sorted(Tail(q))
           /\ \A p \in Seq(Batch) :
                p # <<>> /\ IsPrefixOf(p, q) => IsPrefixOf(Tail(p), Tail(q))
<1>1. /\ Tail(q) \in Seq(Batch) /\ Len(Tail(q)) = Len(q) - 1
      /\ \A i \in 1..Len(Tail(q)) : Tail(q)[i] = q[i + 1]
  BY HeadTailProperties
<1>2. DOMAIN q = 1..Len(q) /\ DOMAIN Tail(q) = 1..(Len(q) - 1) /\ Len(q) \in Nat
  BY <1>1
<1>3. Sorted(Tail(q))
  BY <1>1, <1>2 DEF Sorted
<1>4. ASSUME NEW p \in Seq(Batch), p # <<>>, IsPrefixOf(p, q)
      PROVE  IsPrefixOf(Tail(p), Tail(q))
  <2>1. /\ Len(Tail(p)) = Len(p) - 1 /\ Len(p) \in Nat
        /\ \A i \in 1..Len(Tail(p)) : Tail(p)[i] = p[i + 1]
    BY <1>4, HeadTailProperties
  <2>2. Len(p) <= Len(q) /\ \A i \in 1..Len(p) : p[i] = q[i]
    BY <1>4 DEF IsPrefixOf
  <2> QED BY <1>1, <1>2, <2>1, <2>2 DEF IsPrefixOf
<1> QED BY <1>1, <1>3, <1>4

\* The oldest batch is removed by its id.
LEMMA WithoutFirst ==
    ASSUME NEW q \in Seq(Batch), Sorted(q), q # <<>>
    PROVE  Without(q, q[1].id) = Tail(q)
<1>1. DOMAIN q = 1..Len(q) /\ Len(q) \in Nat /\ 1 \in 1..Len(q)
  BY EmptySeq
<1>2. \A i \in DOMAIN q : q[i].id = q[1].id => i = 1
  <2> TAKE i \in DOMAIN q
  <2>1. i = 1 \/ q[1].id < q[i].id
    BY <1>1 DEF Sorted
  <2>2. q[1].id \in Nat
    BY <1>1, BatchFields
  <2> QED BY <2>1, <2>2
<1>3. (CHOOSE i \in DOMAIN q : q[i].id = q[1].id) = 1
  BY <1>1, <1>2
<1>4. Without(q, q[1].id) = RemoveAt(q, 1)
  BY <1>1, <1>3 DEF Without
<1>5. /\ RemoveAt(q, 1) \in Seq(Batch)
      /\ Len(RemoveAt(q, 1)) = Len(q) - 1
      /\ \A j \in 1..(Len(q) - 1) :
            RemoveAt(q, 1)[j] = IF j < 1 THEN q[j] ELSE q[j + 1]
  BY <1>1, RemoveAtType
<1>6. /\ Tail(q) \in Seq(Batch) /\ Len(Tail(q)) = Len(q) - 1
      /\ \A i \in 1..Len(Tail(q)) : Tail(q)[i] = q[i + 1]
  BY HeadTailProperties
<1>7. \A j \in 1..Len(Tail(q)) : RemoveAt(q, 1)[j] = Tail(q)[j]
  BY <1>1, <1>5, <1>6
<1>8. RemoveAt(q, 1) = Tail(q)
  BY <1>5, <1>6, <1>7, SeqEqual
<1> QED BY <1>4, <1>8

\* A set of numbers that is bounded and not empty has a largest element.
LEMMA BoundedMax ==
    ASSUME NEW P \in SUBSET Nat, NEW bound \in Nat, P # {},
           \A i \in P : i <= bound
    PROVE  LET max == CHOOSE i \in P : \A j \in P : j <= i
           IN  max \in P /\ \A j \in P : j <= max
<1> DEFINE Q == {i + 1 : i \in P}
<1>1. Q \in SUBSET (1..(bound + 1)) /\ Q # {} /\ bound + 1 \in Nat
  <2>1. \A i \in P : i + 1 \in 1..(bound + 1)
    OBVIOUS
  <2>2. PICK i : i \in P
    OBVIOUS
  <2>3. i + 1 \in Q
    BY <2>2
  <2> QED BY <2>1, <2>3
<1>2. Latest(Q) \in Q /\ \A j \in Q : j <= Latest(Q)
  BY <1>1, LatestIsMax
<1>3. PICK max \in P : Latest(Q) = max + 1
  BY <1>2
<1>4. \A j \in P : j <= max
  <2> TAKE j \in P
  <2>1. j + 1 <= max + 1
    BY <1>2, <1>3
  <2> QED BY <2>1
<1> QED BY <1>4

\* LoadNextBatchIdFromDb finds an id that no queue has.
LEMMA FreshIdIs ==
    ASSUME NEW q \in [Users -> Seq(Batch)],
           \E bound \in Nat : \A u \in Users : \A i \in DOMAIN q[u] :
              q[u][i].id <= bound
    PROVE  /\ FreshId(q) \in Nat \ {0}
           /\ \A u \in Users : \A i \in DOMAIN q[u] : q[u][i].id < FreshId(q)
<1> DEFINE ids == {0} \cup UNION {{q[u][i].id : i \in DOMAIN q[u]} :
                                  u \in Users}
           max == CHOOSE n \in ids : \A m \in ids : m <= n
<1>1. PICK bound \in Nat : \A u \in Users : \A i \in DOMAIN q[u] :
                              q[u][i].id <= bound
  OBVIOUS
<1>2. \A u \in Users : \A i \in DOMAIN q[u] : q[u][i].id \in Nat
  BY BatchFields
<1>3. ids \in SUBSET Nat /\ ids # {} /\ \A n \in ids : n <= bound
  BY <1>1, <1>2
<1>4. \A u \in Users : \A i \in DOMAIN q[u] : q[u][i].id \in ids
  OBVIOUS
<1>5. FreshId(q) = 1 + max
  BY DEF FreshId
<1> HIDE DEF ids
<1>6. max \in ids /\ \A j \in ids : j <= max
  BY <1>1, <1>3, BoundedMax
<1> HIDE DEF max
<1>7. max \in Nat
  BY <1>3, <1>6
<1> QED BY <1>2, <1>4, <1>5, <1>6, <1>7

-----------------------------------------------------------------------------
(* Steps: queues *)

\* The end of a batch of the pipeline takes the oldest batch of the queue.
LEMMA RemoveBatchIs ==
    ASSUME TypeOK, QueueInv, NetOK(net, queue[user]), net.pipeline # <<>>,
           RemoveBatch(Head(net.pipeline).id)
    PROVE  /\ queue[user] \in Seq(Batch) /\ queue[user] # <<>>
           /\ queue[user][1] = net.pipeline[1]
           /\ Head(net.pipeline) = net.pipeline[1]
           /\ queue' = [queue EXCEPT ![user] = Tail(queue[user])]
<1>1. queue[user] \in Seq(Batch) /\ Sorted(queue[user])
  BY DEF TypeOK, QueueInv
<1>2. net.pipeline \in Seq(Batch) /\ IsPrefixOf(net.pipeline, queue[user])
  BY DEF NetOK, Net
<1>3. Len(net.pipeline) \in Nat \ {0}
  BY <1>2, EmptySeq
<1>4. queue[user][1] = net.pipeline[1] /\ Len(queue[user]) # 0
  BY <1>1, <1>2, <1>3 DEF IsPrefixOf
<1>5. Head(net.pipeline) = net.pipeline[1]
  BY <1>2
<1>6. queue[user] # <<>>
  BY <1>4
<1>7. Without(queue[user], Head(net.pipeline).id) = Tail(queue[user])
  BY <1>1, <1>4, <1>5, <1>6, WithoutFirst
<1> QED BY <1>1, <1>4, <1>5, <1>6, <1>7 DEF RemoveBatch

\* A queue shrinks from its head.
LEMMA QueueTail ==
    ASSUME TypeOK, QueueInv, queue[user] # <<>>, UNCHANGED <<user, nextId>>,
           queue' = [queue EXCEPT ![user] = Tail(queue[user])]
    PROVE  /\ queue' \in [Users -> Seq(Batch)] /\ QueueInv'
           /\ queue'[user'] = Tail(queue[user])
           /\ Sorted(Tail(queue[user])) /\ Tail(queue[user]) \in Seq(Batch)
<1> DEFINE q == queue[user]
<1>1. /\ q \in Seq(Batch) /\ Sorted(q) /\ user \in Users
      /\ queue \in [Users -> Seq(Batch)]
  BY DEF TypeOK, QueueInv
<1>2. Tail(q) \in Seq(Batch) /\ Sorted(Tail(q))
  BY <1>1, TailSorted
<1>3. /\ Len(Tail(q)) = Len(q) - 1 /\ Len(q) \in Nat
      /\ \A i \in 1..Len(Tail(q)) : Tail(q)[i] = q[i + 1]
  BY <1>1, HeadTailProperties
<1>4. \A i \in DOMAIN Tail(q) : i + 1 \in DOMAIN q /\ Tail(q)[i] = q[i + 1]
  BY <1>1, <1>2, <1>3
<1>5. /\ queue'[user'] = Tail(q)
      /\ \A u \in Users : u # user => queue'[u] = queue[u]
  BY <1>1
<1> HIDE DEF q
<1>6. queue' \in [Users -> Seq(Batch)]
  BY <1>1, <1>2 DEF q
<1>7. \A u \in Users : Sorted(queue'[u])
  BY <1>2, <1>5 DEF QueueInv
<1>8. \A i \in DOMAIN queue'[user'] : queue'[user'][i].id < nextId'
  BY <1>4, <1>5 DEF QueueInv, q
<1>9. PICK bound \in Nat :
        \A u \in Users : \A i \in DOMAIN queue[u] : queue[u][i].id <= bound
  BY DEF QueueInv
<1>10. \A u \in Users : \A i \in DOMAIN queue'[u] : queue'[u][i].id <= bound
  BY <1>1, <1>4, <1>5, <1>9 DEF q
<1> QED BY <1>2, <1>5, <1>6, <1>7, <1>8, <1>9, <1>10 DEF QueueInv, q

\* A queue grows at its end.
LEMMA QueueAppend ==
    ASSUME TypeOK, QueueInv, NEW w \in Writes, UNCHANGED user,
           nextId' = nextId + 1,
           queue' = [queue EXCEPT
                       ![user] = Append(@, [id |-> nextId, write |-> w])]
    PROVE  /\ queue' \in [Users -> Seq(Batch)] /\ QueueInv'
           /\ queue'[user'] = Append(queue[user], [id |-> nextId, write |-> w])
           /\ Sorted(queue'[user']) /\ queue'[user'] \in Seq(Batch)
           /\ \A p : IsPrefixOf(p, queue[user]) => IsPrefixOf(p, queue'[user'])
<1> DEFINE q == queue[user]
           b == [id |-> nextId, write |-> w]
<1>1. /\ q \in Seq(Batch) /\ Sorted(q) /\ user \in Users
      /\ queue \in [Users -> Seq(Batch)]
      /\ nextId \in Nat \ {0} /\ \A i \in DOMAIN q : q[i].id < nextId
  BY DEF TypeOK, QueueInv
<1>2. b \in Batch /\ b.id = nextId
  BY <1>1 DEF Batch
<1>3. queue' = [queue EXCEPT ![user] = Append(q, b)]
  OBVIOUS
<1> HIDE DEF q, b
<1>4. /\ Append(q, b) \in Seq(Batch) /\ Sorted(Append(q, b))
      /\ \A p : IsPrefixOf(p, q) => IsPrefixOf(p, Append(q, b))
  BY <1>1, <1>2, AppendSorted
<1>5. /\ Len(Append(q, b)) = Len(q) + 1 /\ Len(q) \in Nat
      /\ \A i \in 1..Len(q) : Append(q, b)[i] = q[i]
      /\ Append(q, b)[Len(q) + 1] = b
  BY <1>1, <1>2, AppendProperties
<1>6. \A i \in DOMAIN Append(q, b) :
        Append(q, b)[i] = b \/ (i \in DOMAIN q /\ Append(q, b)[i] = q[i])
  BY <1>1, <1>4, <1>5
<1>7. /\ queue'[user'] = Append(q, b)
      /\ \A u \in Users : u # user => queue'[u] = queue[u]
      /\ queue' \in [Users -> Seq(Batch)]
  BY <1>1, <1>3, <1>4
<1>8. \A u \in Users : Sorted(queue'[u])
  BY <1>4, <1>7 DEF QueueInv
<1>9. \A i \in DOMAIN queue'[user'] : queue'[user'][i].id < nextId'
  <2> SUFFICES ASSUME NEW i \in DOMAIN Append(q, b)
               PROVE  Append(q, b)[i].id < nextId + 1
    BY <1>7
  <2>1. CASE Append(q, b)[i] = b
    BY <1>1, <1>2, <2>1
  <2>2. CASE i \in DOMAIN q /\ Append(q, b)[i] = q[i]
    <3>1. q[i].id < nextId /\ q[i].id \in Nat
      BY <1>1, <2>2, BatchFields
    <3> QED BY <1>1, <2>2, <3>1
  <2> QED BY <1>6, <2>1, <2>2
<1>10. PICK bound \in Nat :
         \A u \in Users : \A i \in DOMAIN queue[u] : queue[u][i].id <= bound
  BY DEF QueueInv
<1>11. ASSUME NEW u \in Users, NEW i \in DOMAIN queue'[u]
       PROVE  queue'[u][i].id <= bound + nextId
  <2>1. CASE u = user /\ queue'[u][i] = b
    BY <1>1, <1>2, <1>10, <2>1
  <2>2. CASE i \in DOMAIN queue[u] /\ queue'[u][i] = queue[u][i]
    <3>1. queue[u][i].id <= bound /\ queue[u][i].id \in Nat
      BY <1>1, <1>10, <2>2, BatchFields
    <3> QED BY <1>1, <1>10, <2>2, <3>1
  <2> QED BY <1>6, <1>7, <2>1, <2>2 DEF q
<1>12. bound + nextId \in Nat
  BY <1>1, <1>10
<1> QED BY <1>4, <1>7, <1>8, <1>9, <1>11, <1>12 DEF QueueInv, q, b

-----------------------------------------------------------------------------
(* Steps: the stream *)

\* The stream is in order, and its answers are about its pipeline.
NetInv == NetOK(net, queue[user]) /\ Matches(net, applied)

\* A token in flight for the stream as it is: it starts, and has no token yet.
InFlight(closes) ==
    \/ \E r \in net.asked : r.closes = closes
    \/ \E i \in DOMAIN main : main[i].task = "token" /\ main[i].closes = closes
    \/ \E i \in DOMAIN worker :
          worker[i].op = "token" /\ worker[i].closes = closes
StartingInv ==
    InFlight(net.closes) => net.state = "starting" /\ net.token = NoUser

\* Without a handshake there is nothing to match.
LEMMA SilentMatches ==
    ASSUME NEW n, ~n.handshake, NEW log
    PROVE  Matches(n, log)
BY DEF Matches

\* The requests for tokens make no difference to the stream.
LEMMA AskedNetOK ==
    ASSUME NEW n, NEW q, NetOK(n, q), NEW log, Matches(n, log),
           NEW asked \in SUBSET Request
    PROVE  LET m == [n EXCEPT !.asked = asked]
           IN  /\ NetOK(m, q) /\ Matches(m, log)
               /\ m.asked = asked
               /\ m.state = n.state /\ m.token = n.token /\ m.closes = n.closes
               /\ m.pipeline = n.pipeline /\ m.down = n.down
               /\ m.handshake = n.handshake /\ m.idle = n.idle /\ m.up = n.up
<1> DEFINE m == [n EXCEPT !.asked = asked]
<1>1. n \in Net /\ StreamOK(n) /\ IsPrefixOf(n.pipeline, q)
      /\ Len(n.pipeline) <= MaxPendingWrites
  BY DEF NetOK
<1>2. /\ m.asked = asked
      /\ m.state = n.state /\ m.token = n.token /\ m.closes = n.closes
      /\ m.pipeline = n.pipeline /\ m.down = n.down
      /\ m.handshake = n.handshake /\ m.idle = n.idle /\ m.up = n.up
  BY <1>1 DEF Net
<1>3. m \in Net
  BY <1>1 DEF Net
<1> HIDE DEF m
<1>4. StreamOK(m)
  BY <1>1, <1>2 DEF StreamOK, IsStarted
<1>5. Matches(m, log)
  BY <1>2 DEF Matches
<1> QED BY <1>1, <1>2, <1>3, <1>4, <1>5 DEF NetOK, m

\* The pipeline and the answers without their heads.
LEMMA HeadAnswered ==
    ASSUME NEW n, NEW q, NEW S, NEW log \in Seq(S),
           NetOK(n, q), Matches(n, log),
           n.down # <<>>, n.pipeline # <<>>, Head(n.down) = "ok",
           q \in Seq(Batch), Sorted(q), q # <<>>
    PROVE  LET m == [n EXCEPT !.down = Tail(@), !.pipeline = Tail(@)]
           IN  /\ NetOK(m, Tail(q)) /\ Matches(m, log)
               /\ m.down = Tail(n.down) /\ m.pipeline = Tail(n.pipeline)
               /\ m.state = n.state /\ m.token = n.token /\ m.closes = n.closes
               /\ m.handshake = n.handshake /\ m.asked = n.asked
               /\ n.handshake /\ Oks(n.down) > 0
<1> DEFINE m == [n EXCEPT !.down = Tail(@), !.pipeline = Tail(@)]
           d == n.down
           p == n.pipeline
<1>1. /\ n \in Net /\ StreamOK(n) /\ IsPrefixOf(p, q)
      /\ Len(p) <= MaxPendingWrites
  BY DEF NetOK
<1>2. /\ p \in Seq(Batch) /\ d \in Seq({"hello", "ok", "refused"})
      /\ n.up \in Seq({0} \cup Writes)
  BY <1>1, NetFields
<1>3. /\ Tail(p) \in Seq(Batch)
      /\ Len(Tail(p)) = Len(p) - 1 /\ Len(p) \in Nat \ {0}
      /\ \A i \in 1..Len(Tail(p)) : Tail(p)[i] = p[i + 1]
  BY <1>2, HeadTailProperties
<1>4. /\ Tail(d) \in Seq({"hello", "ok", "refused"})
      /\ Len(Tail(d)) = Len(d) - 1 /\ Len(d) \in Nat \ {0}
      /\ \A i \in 1..Len(Tail(d)) : Tail(d)[i] = d[i + 1]
      /\ d[1] = "ok"
  BY <1>2, HeadTailProperties
<1>5. m = [n EXCEPT !.down = Tail(d), !.pipeline = Tail(p)]
  BY <1>1 DEF Net
<1>6. m \in Net
  BY <1>1, <1>3, <1>4, <1>5 DEF Net
<1>7. /\ m.down = Tail(d) /\ m.pipeline = Tail(p)
      /\ m.state = n.state /\ m.token = n.token /\ m.closes = n.closes
      /\ m.handshake = n.handshake /\ m.idle = n.idle /\ m.up = n.up
      /\ m.asked = n.asked
  BY <1>1, <1>5 DEF Net
<1>8. n.handshake
  <2>1. n.down # <<"hello">>
    BY <1>4
  <2> QED BY <1>1, <2>1 DEF StreamOK
<1> HIDE DEF m
<1>9. StreamOK(m)
  <2>1. /\ n.up \in Seq(Writes) /\ ~n.idle /\ n.state = "open"
        /\ \A i \in 1..Len(d) : d[i] \in {"ok", "refused"}
        /\ \A i \in 1..(Len(d) - 1) : d[i] = "ok"
    BY <1>1, <1>8 DEF StreamOK
  <2>2. /\ \A i \in 1..Len(Tail(d)) : Tail(d)[i] \in {"ok", "refused"}
        /\ \A i \in 1..(Len(Tail(d)) - 1) : Tail(d)[i] = "ok"
    BY <1>4, <2>1
  <2> QED BY <1>1, <1>7, <1>8, <2>1, <2>2 DEF StreamOK, IsStarted
<1>10. IsPrefixOf(m.pipeline, Tail(q)) /\ Len(m.pipeline) <= MaxPendingWrites
  BY <1>1, <1>2, <1>3, <1>7, TailSorted, WritesType
<1>11. /\ Refuses(m.down) = Refuses(d)
       /\ Oks(m.down) = Oks(d) - 1 /\ Oks(d) \in Nat \ {0}
  <2> HIDE DEF d
  <2>1. ASSUME Len(d) = 1 PROVE ~Refuses(d) /\ Tail(d) = <<>>
    <3>1. Len(Tail(d)) = 0
      BY <1>4, <2>1
    <3>2. d[Len(d)] # "refused"
      BY <1>4, <2>1
    <3> QED BY <1>4, <3>1, <3>2, EmptySeq DEF Refuses
  <2>2. ASSUME Len(d) # 1
        PROVE  Tail(d) # <<>> /\ Tail(d)[Len(Tail(d))] = d[Len(d)]
    <3> DEFINE t == Tail(d)
    <3>1. /\ Len(t) = Len(d) - 1 /\ Len(d) \in Nat \ {0}
          /\ \A i \in 1..Len(t) : t[i] = d[i + 1]
      BY <1>4
    <3> HIDE DEF t
    <3>2. Len(t) # 0 /\ Len(t) \in 1..Len(t) /\ Len(t) + 1 = Len(d)
      BY <2>2, <3>1
    <3>3. t # <<>> /\ t[Len(t)] = d[Len(d)]
      BY <3>1, <3>2
    <3> QED BY <3>3 DEF t
  <2>3. Refuses(m.down) = Refuses(d)
    <3>1. d # <<>>
      BY <1>4
    <3> QED BY <1>4, <1>7, <2>1, <2>2, <3>1 DEF Refuses, d
  <2>4. Refuses(d) => Len(d) # 1
    BY <2>1
  <2>5. Oks(m.down) = Oks(Tail(d))
    BY <1>7 DEF d
  <2>6. Oks(Tail(d)) = Oks(d) - 1 /\ Oks(d) \in Nat \ {0}
    BY <1>4, <1>7, <2>3, <2>4 DEF Oks, d
  <2> QED BY <2>3, <2>5, <2>6
<1>12. Matches(m, log)
  <2> DEFINE k == Oks(d)
  <2>1. /\ k <= Len(log) /\ k <= Len(p)
        /\ \A i \in 1..k : log[Len(log) - k + i].write = p[i].write
        /\ IF Refuses(d) THEN k < Len(p)
           ELSE /\ Len(n.up) = Len(p) - k
                /\ \A i \in 1..Len(n.up) : n.up[i] = p[k + i].write
    BY <1>8 DEF Matches
  <2> HIDE DEF k
  <2>2. k \in Nat \ {0} /\ Oks(m.down) = k - 1
    BY <1>11 DEF k
  <2>3. Len(n.up) \in Nat /\ Len(log) \in Nat /\ Len(m.pipeline) = Len(p) - 1
    BY <1>2, <1>3, <1>7
  <2>4. k - 1 <= Len(log) /\ k - 1 <= Len(m.pipeline)
    BY <1>3, <2>1, <2>2, <2>3
  <2>5. ASSUME NEW i \in 1..(k - 1)
        PROVE  log[Len(log) - (k - 1) + i].write = m.pipeline[i].write
    <3>1. i + 1 \in 1..k /\ Len(log) - (k - 1) + i = Len(log) - k + (i + 1)
      BY <2>2, <2>3
    <3>2. m.pipeline[i] = p[i + 1]
      BY <1>3, <1>7, <2>1, <2>2, <3>1
    <3> QED BY <2>1, <3>1, <3>2
  <2>6. CASE Refuses(d)
    <3>1. k - 1 < Len(m.pipeline)
      BY <1>3, <2>1, <2>2, <2>3, <2>6
    <3> QED BY <1>11, <2>2, <2>4, <2>5, <2>6, <3>1 DEF Matches
  <2>7. CASE ~Refuses(d)
    <3>1. Len(m.up) = Len(m.pipeline) - (k - 1)
      BY <1>3, <1>7, <2>1, <2>2, <2>3, <2>7
    <3>2. ASSUME NEW i \in 1..Len(m.up)
          PROVE  m.up[i] = m.pipeline[k - 1 + i].write
      <4>1. k - 1 + i \in 1..Len(Tail(p)) /\ (k - 1 + i) + 1 = k + i
        BY <1>3, <1>7, <2>2, <2>3, <3>1
      <4> QED BY <1>3, <1>7, <2>1, <2>7, <4>1
    <3> QED BY <1>11, <2>2, <2>4, <2>5, <2>7, <3>1, <3>2 DEF Matches
  <2> QED BY <2>6, <2>7
<1>13. NetOK(m, Tail(q))
  BY <1>6, <1>9, <1>10 DEF NetOK
<1>14. Oks(n.down) > 0
  BY <1>11
<1> QED BY <1>5, <1>7, <1>8, <1>12, <1>13, <1>14 DEF m

BaseInv == TypeOK /\ QueueInv /\ NetInv /\ StartingInv

\* What BaseInv says, for citing.
LEMMA BaseFacts ==
    ASSUME BaseInv
    PROVE  /\ net \in Net /\ StreamOK(net) /\ NetOK(net, queue[user])
           /\ Matches(net, applied)
           /\ user \in Users /\ authUser \in Users /\ counter \in Nat
           /\ queue \in [Users -> Seq(Batch)]
           /\ queue[user] \in Seq(Batch) /\ Sorted(queue[user])
           /\ applied \in Seq([write : Writes, by : Users])
           /\ net.pipeline \in Seq(Batch)
           /\ net.up \in Seq({0} \cup Writes)
           /\ net.down \in Seq({"hello", "ok", "refused"})
           /\ net.closes \in Nat /\ net.token \in Users \cup {NoUser}
           /\ net.asked \in SUBSET Request
<1>1. /\ net \in Net /\ StreamOK(net) /\ NetOK(net, queue[user])
      /\ Matches(net, applied)
  BY DEF BaseInv, NetInv, NetOK
<1>2. /\ user \in Users /\ authUser \in Users /\ counter \in Nat
      /\ queue \in [Users -> Seq(Batch)]
      /\ applied \in Seq([write : Writes, by : Users])
  BY DEF BaseInv, TypeOK
<1>3. queue[user] \in Seq(Batch) /\ Sorted(queue[user])
  BY <1>2 DEF BaseInv, QueueInv
<1> QED BY <1>1, <1>2, <1>3, NetFields

\* Who leaves the queues and the stream alone.
LEMMA NothingSent ==
    ASSUME BaseInv, UNCHANGED <<user, queue, nextId, net, applied>>
    PROVE  QueueInv' /\ NetInv'
BY DEF BaseInv, QueueInv, NetInv

\* Who only asks for a token, or answers.
LEMMA OnlyAsked ==
    ASSUME BaseInv, NEW asked \in SUBSET Request,
           net' = [net EXCEPT !.asked = asked],
           UNCHANGED <<user, queue, nextId, applied>>
    PROVE  /\ QueueInv' /\ NetInv'
           /\ net'.asked = asked /\ net'.closes = net.closes
           /\ net'.state = net.state /\ net'.token = net.token
<1>1. NetOK(net, queue[user]) /\ Matches(net, applied)
  BY BaseFacts
<1>2. /\ NetOK(net', queue[user]) /\ Matches(net', applied)
      /\ net'.asked = asked /\ net'.closes = net.closes
      /\ net'.state = net.state /\ net'.token = net.token
  BY <1>1, AskedNetOK
<1>3. NetInv'
  BY <1>2 DEF NetInv
<1>4. QueueInv'
  BY DEF BaseInv, QueueInv
<1> QED BY <1>2, <1>3, <1>4

\* Who leaves the queues alone: only the stream has to be looked at.
LEMMA QueuesStay ==
    ASSUME BaseInv, UNCHANGED <<user, queue, nextId>>,
           NetOK(net', queue[user]), Matches(net', applied')
    PROVE  QueueInv' /\ NetInv'
BY DEF BaseInv, QueueInv, NetInv

\* A write is queued, and offered to the pipeline.
LEMMA WriteMutationsNet ==
    ASSUME BaseInv, WriteMutations
    PROVE  /\ queue' \in [Users -> Seq(Batch)] /\ QueueInv' /\ NetInv'
           /\ Moves(net, net') /\ net'.token = net.token /\ net'.down = net.down
<1> DEFINE w == Head(worker).write
           q == queue'[user']
<1>1. w \in Writes /\ user' = user /\ applied' = applied
  <2>1. Head(worker) \in [op : {"write"}, write : Writes]
                      \cup [op : {"user"}, user : Users]
                      \cup [op : {"token"}, user : Users \cup {NoUser},
                            closes : Nat]
    BY HeadTailProperties DEF BaseInv, TypeOK, WriteMutations
  <2> QED BY <2>1 DEF WriteMutations
<1>2. /\ nextId' = nextId + 1
      /\ queue' = [queue EXCEPT ![user] =
                      Append(@, [id |-> nextId, write |-> w])]
      /\ net' = Fill(net, queue'[user])
  BY DEF WriteMutations
<1> HIDE DEF w
<1>3. /\ queue' \in [Users -> Seq(Batch)] /\ QueueInv'
      /\ Sorted(q) /\ q \in Seq(Batch)
      /\ \A p : IsPrefixOf(p, queue[user]) => IsPrefixOf(p, q)
  BY <1>1, <1>2, QueueAppend DEF BaseInv
<1>4. net' = Fill(net, q)
  BY <1>1, <1>2
<1> HIDE DEF q
<1>5. NetOK(net, q)
  BY <1>3, BaseFacts DEF NetOK
<1>6. /\ NetOK(net', q) /\ Matches(net', applied) /\ Moves(net, net')
      /\ net'.token = net.token /\ net'.down = net.down
  BY <1>3, <1>4, <1>5, BaseFacts, FillNetOK, FillMatches
<1> QED BY <1>1, <1>3, <1>6 DEF NetInv, q

\* The network is restarted for a user.
LEMMA HandleCredentialChangeNet ==
    ASSUME BaseInv, HandleCredentialChange
    PROVE  /\ user' = Head(worker).user /\ user' \in Users
           /\ nextId' \in Nat \ {0} /\ QueueInv' /\ NetInv'
           /\ Moves(net, net') /\ Closed(net, net')
<1>1. user' \in Users
  <2>1. Head(worker) \in [op : {"write"}, write : Writes]
                      \cup [op : {"user"}, user : Users]
                      \cup [op : {"token"}, user : Users \cup {NoUser},
                            closes : Nat]
    BY HeadTailProperties DEF BaseInv, TypeOK, HandleCredentialChange
  <2> QED BY <2>1 DEF HandleCredentialChange
<1>2. /\ queue' = queue /\ applied' = applied /\ user' = Head(worker).user
      /\ nextId' = IF user' = user THEN nextId ELSE FreshId(queue)
      /\ net' = Restart(net, queue[user'])
  BY DEF HandleCredentialChange
<1>3. queue[user'] \in Seq(Batch) /\ Sorted(queue[user'])
  BY <1>1, BaseFacts DEF BaseInv, QueueInv
<1>4. /\ NetOK(net', queue[user']) /\ Moves(net, net') /\ Closed(net, net')
  BY <1>2, <1>3, BaseFacts, RestartNetOK
<1>5. Matches(net', applied)
  BY <1>4, SilentMatches DEF Closed
<1>6. /\ FreshId(queue) \in Nat \ {0}
      /\ \A u \in Users : \A i \in DOMAIN queue[u] :
            queue[u][i].id < FreshId(queue)
  BY BaseFacts, FreshIdIs DEF BaseInv, QueueInv
<1>7. /\ nextId' \in Nat \ {0}
      /\ \A i \in DOMAIN queue[user'] : queue[user'][i].id < nextId'
  BY <1>1, <1>2, <1>6 DEF BaseInv, TypeOK, QueueInv
<1>8. QueueInv'
  BY <1>2, <1>7 DEF BaseInv, QueueInv
<1> QED BY <1>1, <1>2, <1>4, <1>5, <1>7, <1>8 DEF NetInv

\* A token is taken, turned down, or too late.
LEMMA ResumeWithTokenNet ==
    ASSUME BaseInv, ResumeWithToken
    PROVE  /\ QueueInv' /\ NetInv'
           /\ \/ Moves(net, net') /\ Closed(net, net')
              \/ net' = net
              \/ /\ Head(worker).closes = net.closes
                 /\ Head(worker).user \in Users
                 /\ net' = [net EXCEPT !.token = Head(worker).user]
                 /\ net'.token = Head(worker).user /\ net'.closes = net.closes
                 /\ net'.asked = net.asked /\ net'.down = net.down
<1> DEFINE r == Head(worker)
<1>1. r.user \in Users \cup {NoUser} /\ 1 \in DOMAIN worker /\ r = worker[1]
      /\ r.op = "token"
  <2>1. /\ worker # <<>> /\ r.op = "token"
        /\ worker \in Seq([op : {"write"}, write : Writes]
                      \cup [op : {"user"}, user : Users]
                      \cup [op : {"token"}, user : Users \cup {NoUser},
                            closes : Nat])
    BY DEF BaseInv, TypeOK, ResumeWithToken
  <2>2. r \in [op : {"write"}, write : Writes]
           \cup [op : {"user"}, user : Users]
           \cup [op : {"token"}, user : Users \cup {NoUser}, closes : Nat]
    BY <2>1, HeadTailProperties
  <2>3. 1 \in DOMAIN worker /\ r = worker[1]
    BY <2>1
  <2> QED BY <2>1, <2>2, <2>3
<1>2. /\ UNCHANGED <<user, queue, nextId, applied>>
      /\ net' = IF r.closes # net.closes THEN net
                ELSE IF r.user = NoUser THEN Break(net)
                ELSE [net EXCEPT !.token = r.user]
  BY DEF ResumeWithToken
<1> HIDE DEF r
<1>3. CASE r.closes # net.closes
  BY <1>2, <1>3, NothingSent
<1>4. CASE r.closes = net.closes /\ r.user = NoUser
  <2>1. NetOK(net', queue[user]) /\ Moves(net, net') /\ Closed(net, net')
    BY <1>2, <1>4, BaseFacts, BreakNetOK
  <2>2. Matches(net', applied')
    BY <2>1, SilentMatches DEF Closed
  <2> QED BY <1>2, <2>1, <2>2, QueuesStay
<1>5. CASE r.closes = net.closes /\ r.user # NoUser
  <2>1. net.state = "starting" /\ net.token = NoUser
    BY <1>1, <1>5 DEF BaseInv, StartingInv, InFlight
  <2>2. net' = [net EXCEPT !.token = r.user]
    BY <1>2, <1>5
  <2>3. /\ net' \in Net /\ net'.token = r.user
        /\ net'.closes = net.closes /\ net'.asked = net.asked
        /\ net'.state = net.state /\ net'.up = net.up /\ net'.down = net.down
        /\ net'.handshake = net.handshake /\ net'.idle = net.idle
        /\ net'.pipeline = net.pipeline
    BY <1>1, <1>5, <2>2, BaseFacts DEF Net
  <2>4. StreamOK(net')
    BY <2>1, <2>3, BaseFacts DEF StreamOK, IsStarted
  <2>5. NetOK(net', queue[user])
    BY <2>3, <2>4, BaseFacts DEF NetOK
  <2>6. ~net'.handshake
    BY <2>1, <2>3, <2>4 DEF StreamOK
  <2>7. Matches(net', applied')
    BY <2>6, SilentMatches
  <2>8. QueueInv' /\ NetInv'
    BY <1>2, <2>5, <2>7, QueuesStay
  <2> QED BY <1>1, <1>5, <2>2, <2>3, <2>8 DEF r
<1> QED BY <1>3, <1>4, <1>5

\* The handshake is sent.
LEMMA OpenStreamNet ==
    ASSUME BaseInv, OpenStream
    PROVE  QueueInv' /\ NetInv' /\ Moves(net, net') /\ net'.token = net.token
           /\ net'.down = <<>> /\ net.down = <<>>
<1>1. /\ net.state = "starting" /\ net.token # NoUser
      /\ net' = [net EXCEPT !.state = "open", !.up = Append(net.up, 0)]
      /\ UNCHANGED <<user, queue, nextId, applied>>
  BY DEF OpenStream, OnlyNet
<1>2. /\ net.up = <<>> /\ net.down = <<>> /\ ~net.handshake /\ ~net.idle
      /\ net.pipeline # <<>>
  BY <1>1, BaseFacts DEF StreamOK, IsStarted
<1>3. Append(net.up, 0) = <<0>> /\ <<0>> \in Seq({0} \cup Writes)
  BY <1>2
<1>4. net' = [net EXCEPT !.state = "open", !.up = <<0>>]
  BY <1>1, <1>3
<1>5. /\ net' \in Net /\ net'.state = "open" /\ net'.up = <<0>>
      /\ net'.closes = net.closes /\ net'.asked = net.asked
      /\ net'.token = net.token /\ net'.down = net.down
      /\ net'.handshake = net.handshake /\ net'.idle = net.idle
      /\ net'.pipeline = net.pipeline
  BY <1>3, <1>4, BaseFacts DEF Net
<1>6. StreamOK(net')
  BY <1>1, <1>2, <1>5, BaseFacts DEF StreamOK, IsStarted
<1>7. NetOK(net', queue[user])
  BY <1>5, <1>6, BaseFacts DEF NetOK
<1>8. Matches(net', applied')
  BY <1>2, <1>5, SilentMatches
<1>9. Moves(net, net')
  BY <1>1, <1>5, BaseFacts DEF Moves
<1> QED BY <1>1, <1>2, <1>5, <1>7, <1>8, <1>9, QueuesStay

\* The handshake is answered: the server is to handle the whole pipeline.
LEMMA HandshakeCompleteNet ==
    ASSUME BaseInv, HandshakeComplete
    PROVE  /\ QueueInv' /\ NetInv' /\ Moves(net, net')
           /\ net'.token = net.token
           /\ net'.down = <<>> /\ net.down = <<"hello">>
<1>1. /\ net.down # <<>> /\ Head(net.down) = "hello"
      /\ net' = [net EXCEPT !.handshake = TRUE, !.down = Tail(net.down),
                            !.up = net.up \o WritesOf(net.pipeline)]
      /\ UNCHANGED <<user, queue, nextId, applied>>
  BY DEF HandshakeComplete, OnlyNet
<1>2. net.down[1] = "hello" /\ 1 \in 1..Len(net.down)
  BY <1>1, BaseFacts
<1>3. ~net.handshake
  BY <1>2, BaseFacts DEF StreamOK
<1>4. /\ net.state = "open" /\ net.up = <<>> /\ net.down = <<"hello">>
      /\ ~net.idle /\ net.pipeline # <<>> /\ net.token # NoUser
  BY <1>1, <1>3, BaseFacts DEF StreamOK, IsStarted
<1> DEFINE w == WritesOf(net.pipeline)
<1>5. /\ w \in Seq(Writes) /\ Len(w) = Len(net.pipeline)
      /\ \A i \in 1..Len(net.pipeline) : w[i] = net.pipeline[i].write
  BY BaseFacts, WritesOfIs
<1> HIDE DEF w
<1>6. net.up \o w = w /\ Tail(net.down) = <<>> /\ w \in Seq({0} \cup Writes)
  <2>1. net.up \o w = w
    BY <1>4, <1>5, ConcatEmptySeq
  <2>2. w \in Seq({0} \cup Writes)
    BY <1>5, SeqMonotonic
  <2> QED BY <1>4, <2>1, <2>2
<1>7. net' = [net EXCEPT !.handshake = TRUE, !.down = <<>>, !.up = w]
  BY <1>1, <1>6 DEF w
<1>8. <<>> \in Seq({"hello", "ok", "refused"}) /\ Len(<<>>) = 0
  OBVIOUS
<1>9. /\ net' \in Net /\ net'.state = net.state /\ net'.up = w
      /\ net'.closes = net.closes /\ net'.asked = net.asked
      /\ net'.token = net.token /\ net'.down = <<>>
      /\ net'.handshake /\ net'.idle = net.idle
      /\ net'.pipeline = net.pipeline
  BY <1>6, <1>7, <1>8, BaseFacts DEF Net
<1>10. StreamOK(net')
  BY <1>4, <1>5, <1>8, <1>9 DEF StreamOK
<1>11. NetOK(net', queue[user])
  BY <1>9, <1>10, BaseFacts DEF NetOK
<1>12. Matches(net', applied)
  <2>1. ~Refuses(net'.down) /\ Oks(net'.down) = 0
    BY <1>8, <1>9 DEF Refuses, Oks
  <2>2. Len(net.pipeline) \in Nat /\ Len(applied) \in Nat
    BY BaseFacts
  <2> QED BY <1>5, <1>9, <2>1, <2>2 DEF Matches
<1>13. Moves(net, net')
  BY <1>4, <1>9, BaseFacts DEF Moves
<1> QED BY <1>1, <1>4, <1>9, <1>11, <1>12, <1>13, QueuesStay

\* The oldest batch is confirmed: it is the oldest of its user's queue, too.
LEMMA MutationResultNet ==
    ASSUME BaseInv, MutationResult
    PROVE  /\ queue' = [queue EXCEPT ![user] = Tail(queue[user])]
           /\ queue[user] # <<>> /\ queue[user][1] = net.pipeline[1]
           /\ queue' \in [Users -> Seq(Batch)] /\ QueueInv' /\ NetInv'
           /\ Moves(net, net') /\ net'.token = net.token
           /\ net'.down = Tail(net.down) /\ net.handshake /\ net'.handshake
           /\ Oks(net.down) > 0
<1> DEFINE n == [net EXCEPT !.down = Tail(@), !.pipeline = Tail(@)]
           q == queue[user]
<1>1. /\ net.down # <<>> /\ Head(net.down) = "ok" /\ net.pipeline # <<>>
      /\ EndBatch(Head(net.pipeline).id, "ok")
      /\ net' = Fill(n, queue'[user])
      /\ UNCHANGED <<user, nextId, applied>>
  BY DEF MutationResult, Hears
<1>2. TypeOK /\ QueueInv /\ NetOK(net, queue[user]) /\ net.pipeline # <<>>
  BY <1>1, BaseFacts DEF BaseInv
<1>3. /\ q \in Seq(Batch) /\ q # <<>>
      /\ q[1] = net.pipeline[1]
      /\ queue' = [queue EXCEPT ![user] = Tail(q)]
  BY <1>1, <1>2, RemoveBatchIs DEF EndBatch
<1>4. /\ queue' \in [Users -> Seq(Batch)] /\ QueueInv'
      /\ queue'[user'] = Tail(q)
      /\ Sorted(Tail(q)) /\ Tail(q) \in Seq(Batch)
  BY <1>1, <1>2, <1>3, QueueTail
<1>5. Sorted(q)
  BY BaseFacts
<1>6. /\ NetOK(n, Tail(q)) /\ Matches(n, applied)
      /\ n.down = Tail(net.down) /\ n.pipeline = Tail(net.pipeline)
      /\ n.state = net.state /\ n.token = net.token /\ n.closes = net.closes
      /\ n.handshake = net.handshake /\ n.asked = net.asked
      /\ net.handshake /\ Oks(net.down) > 0
  <2> HIDE DEF q
  <2> QED BY <1>1, <1>3, <1>5, BaseFacts, HeadAnswered DEF q
<1>7. net' = Fill(n, Tail(q))
  BY <1>1, <1>4
<1> HIDE DEF n, q
<1>8. /\ NetOK(net', Tail(q)) /\ Moves(n, net') /\ Matches(net', applied)
      /\ net'.token = n.token /\ net'.down = n.down
      /\ net'.handshake = n.handshake
  BY <1>4, <1>6, <1>7, BaseFacts, FillNetOK, FillMatches
<1>9. Moves(net, net')
  BY <1>6, <1>8 DEF Moves
<1> QED BY <1>1, <1>3, <1>4, <1>6, <1>8, <1>9 DEF NetInv, q

\* The oldest batch is given up, and the stream closed.
LEMMA WriteRefusedNet ==
    ASSUME BaseInv, WriteRefused
    PROVE  /\ queue' = [queue EXCEPT ![user] = Tail(queue[user])]
           /\ queue[user] # <<>> /\ queue[user][1] = net.pipeline[1]
           /\ queue' \in [Users -> Seq(Batch)] /\ QueueInv' /\ NetInv'
           /\ Moves(net, net') /\ Closed(net, net')
<1> DEFINE c == Close(net, "initial")
           n == [c EXCEPT !.pipeline = Tail(@)]
           q == queue[user]
<1>1. /\ net.down # <<>> /\ Head(net.down) = "refused" /\ net.pipeline # <<>>
      /\ EndBatch(Head(net.pipeline).id, "failed")
      /\ net' = Fill(n, queue'[user])
      /\ UNCHANGED <<user, nextId, applied>>
  BY DEF WriteRefused, Hears
<1>2. TypeOK /\ QueueInv /\ NetOK(net, queue[user]) /\ net.pipeline # <<>>
  BY <1>1, BaseFacts DEF BaseInv
<1>3. /\ q \in Seq(Batch) /\ q # <<>>
      /\ q[1] = net.pipeline[1]
      /\ queue' = [queue EXCEPT ![user] = Tail(q)]
  BY <1>1, <1>2, RemoveBatchIs DEF EndBatch
<1>4. /\ queue' \in [Users -> Seq(Batch)] /\ QueueInv'
      /\ queue'[user'] = Tail(q)
      /\ Sorted(Tail(q)) /\ Tail(q) \in Seq(Batch)
  BY <1>1, <1>2, <1>3, QueueTail
<1>5. /\ c \in Net
      /\ c.pipeline = net.pipeline /\ c.asked = net.asked
      /\ c.state = "initial" /\ c.closes = net.closes + 1
      /\ ~c.idle /\ ~c.handshake /\ c.token = NoUser
      /\ c.up = <<>> /\ c.down = <<>>
  BY BaseFacts, CloseIs
<1>6. net' = Fill(n, Tail(q))
  BY <1>1, <1>4
<1> HIDE DEF c
<1>7. /\ Tail(net.pipeline) \in Seq(Batch)
      /\ Len(Tail(net.pipeline)) = Len(net.pipeline) - 1
      /\ IsPrefixOf(Tail(net.pipeline), Tail(q))
      /\ Len(Tail(net.pipeline)) <= MaxPendingWrites
  <2>1. /\ IsPrefixOf(net.pipeline, q) /\ net.pipeline \in Seq(Batch)
        /\ Len(net.pipeline) <= MaxPendingWrites
        /\ q \in Seq(Batch) /\ Sorted(q)
    BY BaseFacts DEF NetOK
  <2>2. /\ Tail(net.pipeline) \in Seq(Batch)
        /\ Len(Tail(net.pipeline)) = Len(net.pipeline) - 1
        /\ Len(net.pipeline) \in Nat
    BY <1>1, <2>1, HeadTailProperties
  <2>3. IsPrefixOf(Tail(net.pipeline), Tail(q))
    BY <1>1, <1>3, <2>1, TailSorted
  <2>4. Len(net.pipeline) - 1 <= MaxPendingWrites
    BY <2>1, <2>2, WritesType
  <2> QED BY <2>2, <2>3, <2>4
<1>8. /\ n \in Net
      /\ n.pipeline = Tail(net.pipeline) /\ n.asked = net.asked
      /\ n.state = "initial" /\ n.closes = net.closes + 1
      /\ ~n.idle /\ ~n.handshake /\ n.token = NoUser
      /\ n.up = <<>> /\ n.down = <<>>
  <2>1. n = [c EXCEPT !.pipeline = Tail(net.pipeline)]
    BY <1>5 DEF Net
  <2> QED BY <1>5, <1>7, <2>1 DEF Net
<1> DEFINE t == Tail(q)
<1>0. t \in Seq(Batch) /\ Sorted(t) /\ net' = Fill(n, t)
  BY <1>4, <1>6
<1> HIDE DEF n, q
<1>9. NetOK(n, t)
  <2>1. ~IsStarted(n)
    BY <1>8 DEF IsStarted
  <2>2. IsPrefixOf(n.pipeline, t) /\ Len(n.pipeline) <= MaxPendingWrites
    BY <1>7, <1>8
  <2>3. /\ n \in Net /\ n.state = "initial" /\ ~n.idle /\ ~n.handshake
        /\ n.token = NoUser /\ n.up = <<>> /\ n.down = <<>>
    BY <1>8
  <2> HIDE DEF t
  <2> QED BY <2>1, <2>2, <2>3, QuietOK
<1> HIDE DEF t
<1>10. /\ NetOK(net', t) /\ Moves(n, net')
       /\ net'.closes = n.closes /\ net'.token = NoUser
       /\ net'.down = <<>> /\ ~net'.handshake
  BY <1>0, <1>8, <1>9, BaseFacts, FillNetOK
<1>11. net.closes \in Nat
  BY BaseFacts
<1>12. Moves(net, net')
  BY <1>8, <1>10, <1>11 DEF Moves
<1>13. Closed(net, net')
  <2>1. net' \in Net /\ StreamOK(net')
    BY <1>10 DEF NetOK
  <2>2. net'.state # "open"
    BY <1>10, <2>1 DEF StreamOK
  <2> QED BY <1>8, <1>10, <2>1, <2>2 DEF Closed, StreamOK
<1>14. Matches(net', applied)
  BY <1>10, SilentMatches
<1> QED BY <1>1, <1>3, <1>4, <1>10, <1>12, <1>13, <1>14 DEF NetInv, q, t

\* The backoff elapses: a token is asked for.
LEMMA BackoffElapsesNet ==
    ASSUME BaseInv, BackoffElapses
    PROVE  /\ QueueInv' /\ NetInv' /\ Moves(net, net')
           /\ net'.token = net.token /\ net'.down = net.down
<1> DEFINE n == [net EXCEPT !.state = "initial"]
<1>1. /\ net.state = "backoff" /\ net' = Start(n)
      /\ UNCHANGED <<user, queue, nextId, applied>>
  BY DEF BackoffElapses, OnlyNet
<1>2. /\ ~net.handshake /\ ~net.idle /\ net.token = NoUser /\ net.up = <<>>
      /\ net.down = <<>> /\ net.pipeline # <<>>
  BY <1>1, BaseFacts DEF StreamOK, IsStarted
<1>3. /\ n \in Net /\ n.state = "initial" /\ n.pipeline = net.pipeline
      /\ n.handshake = net.handshake /\ n.idle = net.idle
      /\ n.token = net.token /\ n.up = net.up /\ n.down = net.down
      /\ n.asked = net.asked /\ n.closes = net.closes
  BY BaseFacts DEF Net
<1> HIDE DEF n
<1>4. ShouldStart(n)
  BY <1>2, <1>3 DEF ShouldStart, IsStarted
<1>5. net' = StartIfNeeded(n)
  BY <1>1, <1>4 DEF StartIfNeeded
<1>6. /\ net' \in Net
      /\ Started(n, net')
      /\ net'.pipeline = n.pipeline /\ net'.handshake = n.handshake
      /\ net'.idle = n.idle /\ net'.closes = n.closes /\ net'.token = n.token
      /\ net'.up = n.up /\ net'.down = n.down
  BY <1>3, <1>5, BaseFacts, StartIfNeededIs
<1>7. /\ net'.state = "starting"
      /\ net'.asked = net.asked \cup {Ask(net.closes)}
  BY <1>3, <1>4, <1>6 DEF Started
<1>8. NetOK(net', queue[user])
  <2>1. /\ IsPrefixOf(net'.pipeline, queue[user])
        /\ Len(net'.pipeline) <= MaxPendingWrites
    BY <1>3, <1>6, BaseFacts DEF NetOK
  <2> QED BY <1>2, <1>3, <1>6, <1>7, <2>1, QuietOK
<1>9. Matches(net', applied')
  BY <1>2, <1>3, <1>6, SilentMatches
<1>10. Moves(net, net')
  BY <1>1, <1>2, <1>3, <1>6, <1>7 DEF Moves
<1> QED BY <1>1, <1>3, <1>6, <1>8, <1>9, <1>10, QueuesStay

\* The server answers the handshake.
LEMMA GreetNet ==
    ASSUME BaseInv, Greet
    PROVE  /\ QueueInv' /\ NetInv' /\ Moves(net, net')
           /\ net'.token = net.token
           /\ net.down = <<>> /\ net'.down = <<"hello">>
<1>1. /\ net.up # <<>> /\ Head(net.up) = 0
      /\ net' = [net EXCEPT !.up = Tail(net.up),
                            !.down = Append(net.down, "hello")]
      /\ UNCHANGED <<user, queue, nextId, applied>>
  BY DEF Greet, Handles, OnlyNet
<1>2. ~net.handshake
  <2>1. net.up \in Seq(Writes) => Head(net.up) \in Writes
    BY <1>1, HeadTailProperties
  <2>2. 0 \notin Writes
    BY WritesType DEF Writes
  <2> QED BY <1>1, <2>1, <2>2, BaseFacts DEF StreamOK
<1>3. net.up = <<0>> /\ net.down = <<>> /\ net.state = "open"
  BY <1>1, <1>2, BaseFacts DEF StreamOK
<1>4. Tail(net.up) = <<>> /\ Append(net.down, "hello") = <<"hello">>
      /\ <<"hello">> \in Seq({"hello", "ok", "refused"})
      /\ <<>> \in Seq({0} \cup Writes)
  BY <1>3
<1>5. net' = [net EXCEPT !.up = <<>>, !.down = <<"hello">>]
  BY <1>1, <1>4
<1>6. /\ net' \in Net /\ net'.state = net.state /\ net'.up = <<>>
      /\ net'.closes = net.closes /\ net'.asked = net.asked
      /\ net'.token = net.token /\ net'.down = <<"hello">>
      /\ net'.handshake = net.handshake /\ net'.idle = net.idle
      /\ net'.pipeline = net.pipeline
  BY <1>4, <1>5, BaseFacts DEF Net
<1>7. StreamOK(net')
  BY <1>2, <1>3, <1>6, BaseFacts DEF StreamOK, IsStarted
<1>8. NetOK(net', queue[user])
  BY <1>6, <1>7, BaseFacts DEF NetOK
<1>9. Matches(net', applied')
  BY <1>2, <1>6, SilentMatches
<1>10. Moves(net, net')
  BY <1>3, <1>6, BaseFacts DEF Moves
<1> QED BY <1>1, <1>3, <1>6, <1>8, <1>9, <1>10, QueuesStay

\* The server comes to a write: the handshake is through, nothing was refused,
\* and it is the next write of the pipeline that was not answered.
LEMMA HandlesWrite ==
    ASSUME BaseInv, NEW w \in Writes, Handles(w)
    PROVE  /\ net.handshake /\ net.state = "open" /\ ~net.idle
           /\ net.token \in Users /\ ~Refuses(net.down)
           /\ Oks(net.down) = Len(net.down)
           /\ \A i \in 1..Len(net.down) : net.down[i] = "ok"
           /\ Len(net.down) < Len(net.pipeline)
           /\ Len(net.pipeline) \in Nat /\ Len(net.down) \in Nat
           /\ net.pipeline[Len(net.down) + 1].write = w
           /\ net.up \in Seq(Writes) /\ net.up # <<>>
<1>1. /\ net.up # <<>> /\ Head(net.up) = w
      /\ \A i \in DOMAIN net.down : net.down[i] # "refused"
  BY DEF Handles
<1>2. w # 0
  BY WritesType DEF Writes
<1>3. net.handshake
  <2>1. net.up # <<0>>
    BY <1>1, <1>2
  <2> QED BY <1>1, <2>1, BaseFacts DEF StreamOK
<1>4. /\ net.state = "open" /\ net.token # NoUser /\ net.up \in Seq(Writes)
      /\ \A i \in 1..Len(net.down) : net.down[i] \in {"ok", "refused"}
      /\ net.idle => net.pipeline = <<>>
  BY <1>3, BaseFacts DEF StreamOK
<1>5. /\ Len(net.pipeline) \in Nat /\ Len(net.down) \in Nat
      /\ DOMAIN net.down = 1..Len(net.down)
      /\ Len(net.up) \in Nat \ {0} /\ net.up[1] = w
      /\ (net.down # <<>> => Len(net.down) \in 1..Len(net.down))
  BY <1>1, BaseFacts
<1>6. ~Refuses(net.down) /\ \A i \in 1..Len(net.down) : net.down[i] = "ok"
  BY <1>1, <1>4, <1>5 DEF Refuses
<1>7. Oks(net.down) = Len(net.down)
  BY <1>6 DEF Oks
<1>8. /\ Len(net.up) = Len(net.pipeline) - Len(net.down)
      /\ \A i \in 1..Len(net.up) :
            net.up[i] = net.pipeline[Len(net.down) + i].write
  BY <1>3, <1>6, <1>7, BaseFacts DEF Matches
<1>9. Len(net.down) < Len(net.pipeline) /\ 1 \in 1..Len(net.up)
  BY <1>5, <1>8
<1>10. net.pipeline[Len(net.down) + 1].write = w
  BY <1>5, <1>8, <1>9
<1>11. net.pipeline # <<>>
  <2>1. Len(net.pipeline) # 0
    BY <1>5, <1>9
  <2> QED BY <2>1
<1> QED BY <1>1, <1>3, <1>4, <1>5, <1>6, <1>7, <1>9, <1>10, <1>11, BaseFacts

\* The server applies a write: its answer is on its way.
LEMMA ApplyWriteNet ==
    ASSUME BaseInv, NEW w \in Writes, ApplyWrite(w)
    PROVE  /\ QueueInv' /\ NetInv' /\ Moves(net, net')
           /\ applied' = Append(applied, [write |-> w, by |-> net.token])
           /\ applied' \in Seq([write : Writes, by : Users])
           /\ net'.token = net.token /\ net'.down = Append(net.down, "ok")
           /\ net'.handshake
<1> DEFINE d == Append(net.down, "ok")
           t == Tail(net.up)
           e == [write |-> w, by |-> net.token]
           k == Len(net.down)
           p == net.pipeline
<1>1. /\ Handles(w)
      /\ net' = [net EXCEPT !.up = t, !.down = d]
      /\ applied' = Append(applied, e)
      /\ UNCHANGED <<user, queue, nextId>>
  BY DEF ApplyWrite
<1>2. /\ net.handshake /\ net.state = "open" /\ ~net.idle
      /\ net.token \in Users /\ ~Refuses(net.down)
      /\ Oks(net.down) = k
      /\ \A i \in 1..k : net.down[i] = "ok"
      /\ k < Len(p) /\ Len(p) \in Nat /\ k \in Nat
      /\ p[k + 1].write = w
      /\ net.up \in Seq(Writes) /\ net.up # <<>>
  BY <1>1, HandlesWrite
<1>3. /\ d \in Seq({"hello", "ok", "refused"}) /\ Len(d) = k + 1
      /\ \A i \in 1..k : d[i] = net.down[i]
      /\ d[k + 1] = "ok"
  BY BaseFacts, AppendProperties
<1>4. /\ t \in Seq(Writes) /\ Len(t) = Len(net.up) - 1 /\ Len(net.up) \in Nat
      /\ \A i \in 1..Len(t) : t[i] = net.up[i + 1]
  BY <1>2, HeadTailProperties
<1>5. e \in [write : Writes, by : Users] /\ e.write = w
  BY <1>2
<1>6. /\ applied' \in Seq([write : Writes, by : Users])
      /\ Len(applied') = Len(applied) + 1 /\ Len(applied) \in Nat
      /\ \A i \in 1..Len(applied) : applied'[i] = applied[i]
      /\ applied'[Len(applied) + 1] = e
  BY <1>1, <1>5, BaseFacts, AppendProperties
<1>7. t \in Seq({0} \cup Writes)
  BY <1>4, SeqMonotonic
<1> HIDE DEF d, t, e
<1>8. /\ net' \in Net /\ net'.state = net.state /\ net'.up = t
      /\ net'.closes = net.closes /\ net'.asked = net.asked
      /\ net'.token = net.token /\ net'.down = d
      /\ net'.handshake = net.handshake /\ net'.idle = net.idle
      /\ net'.pipeline = net.pipeline
  BY <1>1, <1>3, <1>7, BaseFacts DEF Net
<1>9. \A i \in 1..Len(d) : d[i] = "ok"
  BY <1>2, <1>3
<1>10. StreamOK(net')
  <2>1. /\ \A i \in 1..Len(d) : d[i] \in {"ok", "refused"}
        /\ \A i \in 1..(Len(d) - 1) : d[i] = "ok"
    BY <1>2, <1>3, <1>9
  <2> HIDE DEF k, p
  <2> QED BY <1>2, <1>4, <1>8, <2>1, WritesType DEF StreamOK
<1>11. NetOK(net', queue[user])
  BY <1>8, <1>10, BaseFacts DEF NetOK
<1>12. ~Refuses(net'.down) /\ Oks(net'.down) = k + 1
  BY <1>2, <1>3, <1>8 DEF Refuses, Oks
<1>13. /\ k <= Len(applied)
       /\ \A i \in 1..k : applied[Len(applied) - k + i].write = p[i].write
       /\ Len(net.up) = Len(p) - k
       /\ \A i \in 1..Len(net.up) : net.up[i] = p[k + i].write
  BY <1>2, BaseFacts DEF Matches
<1> HIDE DEF k, p
<1>14. ASSUME NEW i \in 1..(k + 1)
       PROVE  applied'[Len(applied') - (k + 1) + i].write = p[i].write
  <2>1. Len(applied') - (k + 1) + i = Len(applied) - k + i
    BY <1>2, <1>6
  <2>2. CASE i = k + 1
    <3>1. Len(applied) - k + i = Len(applied) + 1
      BY <1>2, <1>6, <2>2
    <3> QED BY <1>2, <1>5, <1>6, <2>1, <2>2, <3>1
  <2>3. CASE i # k + 1
    <3>1. i \in 1..k /\ Len(applied) - k + i \in 1..Len(applied)
      BY <1>2, <1>6, <1>13, <2>3
    <3> QED BY <1>6, <1>13, <2>1, <3>1
  <2> QED BY <2>2, <2>3
<1>15. Len(t) = Len(p) - (k + 1)
  BY <1>2, <1>4, <1>13
<1>16. ASSUME NEW i \in 1..Len(t) PROVE t[i] = p[k + 1 + i].write
  <2>1. i + 1 \in 1..Len(net.up) /\ k + (i + 1) = k + 1 + i
    BY <1>2, <1>4
  <2> QED BY <1>4, <1>13, <2>1
<1>17. k + 1 <= Len(applied') /\ k + 1 <= Len(p)
  BY <1>2, <1>6, <1>13
<1>18. Matches(net', applied')
  BY <1>8, <1>12, <1>14, <1>15, <1>16, <1>17 DEF Matches, p
<1>19. Moves(net, net')
  BY <1>2, <1>8, BaseFacts DEF Moves
<1> QED BY <1>1, <1>2, <1>6, <1>8, <1>11, <1>18, <1>19, QueuesStay DEF d, e

\* The server refuses a write: it is the last answer.
LEMMA RefuseWriteNet ==
    ASSUME BaseInv, NEW w \in Writes, RefuseWrite(w)
    PROVE  /\ QueueInv' /\ NetInv' /\ Moves(net, net')
           /\ net'.token = net.token /\ net'.down = Append(net.down, "refused")
           /\ net'.handshake /\ net.handshake /\ Oks(net.down) = Len(net.down)
<1> DEFINE d == Append(net.down, "refused")
           k == Len(net.down)
           p == net.pipeline
<1>1. /\ Handles(w)
      /\ net' = [net EXCEPT !.up = <<>>, !.down = d]
      /\ UNCHANGED <<user, queue, nextId, applied>>
  BY DEF RefuseWrite, OnlyNet
<1>2. /\ net.handshake /\ net.state = "open" /\ ~net.idle
      /\ net.token \in Users /\ ~Refuses(net.down)
      /\ Oks(net.down) = k
      /\ \A i \in 1..k : net.down[i] = "ok"
      /\ k < Len(p) /\ Len(p) \in Nat /\ k \in Nat
  BY <1>1, HandlesWrite
<1>3. /\ d \in Seq({"hello", "ok", "refused"}) /\ Len(d) = k + 1
      /\ \A i \in 1..k : d[i] = net.down[i]
      /\ d[k + 1] = "refused"
  BY BaseFacts, AppendProperties
<1>0. d # <<>>
  <2> HIDE DEF d
  <2>1. Len(d) # 0
    BY <1>2, <1>3
  <2> QED BY <2>1
<1>4. <<>> \in Seq({0} \cup Writes) /\ <<>> \in Seq(Writes)
  OBVIOUS
<1> HIDE DEF d
<1>5. /\ net' \in Net /\ net'.state = net.state /\ net'.up = <<>>
      /\ net'.closes = net.closes /\ net'.asked = net.asked
      /\ net'.token = net.token /\ net'.down = d
      /\ net'.handshake = net.handshake /\ net'.idle = net.idle
      /\ net'.pipeline = net.pipeline
  BY <1>1, <1>3, <1>4, BaseFacts DEF Net
<1>6. /\ \A i \in 1..Len(d) : d[i] \in {"ok", "refused"}
      /\ \A i \in 1..(Len(d) - 1) : d[i] = "ok"
  <2>1. Len(d) - 1 = k /\ \A i \in 1..k : d[i] = "ok"
    BY <1>2, <1>3
  <2>2. d[k + 1] = "refused" /\ \A i \in 1..Len(d) : i = k + 1 \/ i \in 1..k
    BY <1>2, <1>3
  <2> HIDE DEF k
  <2> QED BY <2>1, <2>2
<1>7. StreamOK(net')
  <2> HIDE DEF k, p
  <2> QED BY <1>2, <1>4, <1>5, <1>6, WritesType DEF StreamOK
<1>8. NetOK(net', queue[user])
  BY <1>5, <1>7, BaseFacts DEF NetOK
<1>9. Refuses(net'.down) /\ Oks(net'.down) = k
  BY <1>0, <1>2, <1>3, <1>5 DEF Refuses, Oks
<1>10. /\ k <= Len(applied)
       /\ \A i \in 1..k : applied[Len(applied) - k + i].write = p[i].write
  BY <1>2, BaseFacts DEF Matches
<1> HIDE DEF k
<1>11. Matches(net', applied')
  BY <1>1, <1>2, <1>5, <1>9, <1>10 DEF Matches
<1>12. Moves(net, net')
  BY <1>2, <1>5, BaseFacts DEF Moves
<1> QED BY <1>1, <1>2, <1>5, <1>8, <1>11, <1>12, QueuesStay DEF d, k

\* Who closes the stream and leaves the queues.
LEMMA ClosedNet ==
    ASSUME BaseInv, UNCHANGED <<user, queue, nextId, applied>>,
           \/ net' = Break(net)
           \/ net.idle /\ net' = Close(net, "initial")
           \/ net' = Restart(net, queue[user])
    PROVE  QueueInv' /\ NetInv' /\ Moves(net, net') /\ Closed(net, net')
<1>1. NetOK(net, queue[user]) /\ counter \in Nat /\ net \in Net
      /\ queue[user] \in Seq(Batch) /\ Sorted(queue[user]) /\ net.closes \in Nat
  BY BaseFacts
<1>2. NetOK(net', queue[user]) /\ Moves(net, net') /\ Closed(net, net')
  <2>1. CASE net' = Break(net)
    BY <1>1, <2>1, BreakNetOK
  <2>2. CASE net.idle /\ net' = Close(net, "initial")
    <3>1. NetOK(net', queue[user])
      BY <1>1, <2>2, CloseNetOK
    <3>2. /\ net'.asked = net.asked /\ net'.state = "initial"
          /\ net'.closes = net.closes + 1
          /\ ~net'.idle /\ ~net'.handshake /\ net'.token = NoUser
          /\ net'.up = <<>> /\ net'.down = <<>>
      BY <1>1, <2>2, CloseIs
    <3> QED BY <1>1, <3>1, <3>2 DEF Moves, Closed
  <2>3. CASE net' = Restart(net, queue[user])
    BY <1>1, <2>3, RestartNetOK
  <2> QED BY <2>1, <2>2, <2>3
<1>3. Matches(net', applied')
  BY <1>2, SilentMatches DEF Closed
<1> QED BY <1>2, <1>3, QueuesStay

-----------------------------------------------------------------------------
(* Tokens *)

MainTask == [task : {"notice"}, user : Users]
            \cup [task : {"token"}, user : Users \cup {NoUser},
                  counter : Nat, closes : Nat]
WorkerTask == [op : {"write"}, write : Writes]
              \cup [op : {"user"}, user : Users]
              \cup [op : {"token"}, user : Users \cup {NoUser}, closes : Nat]

\* No request and no answer is of a later stream, or a later notice, than now.
CountsInv ==
    /\ \A r \in net.asked : r.counter <= counter /\ r.closes <= net.closes
    /\ \A i \in 1..Len(main) : main[i].task = "token" =>
          main[i].counter <= counter /\ main[i].closes <= net.closes
    /\ \A i \in 1..Len(worker) : worker[i].op = "token" =>
          worker[i].closes <= net.closes

\* Where a token for the stream as it is now may be: asked for, in the main
\* queue, or in the worker queue.
AskedNow == {r \in net.asked : r.closes = net.closes}
MainNow == {i \in 1..Len(main) :
              main[i].task = "token" /\ main[i].closes = net.closes}
WorkerNow == {i \in 1..Len(worker) :
              worker[i].op = "token" /\ worker[i].closes = net.closes}

\* It is in one place only, and only while the stream starts without a token.
OneToken ==
    /\ AskedNow # {} \/ MainNow # {} \/ WorkerNow # {}
       => net.state = "starting" /\ net.token = NoUser
    /\ \A r, s \in AskedNow : r = s
    /\ \A i, j \in MainNow : i = j
    /\ \A i, j \in WorkerNow : i = j
    /\ AskedNow = {} \/ MainNow = {}
    /\ AskedNow = {} \/ WorkerNow = {}
    /\ MainNow = {} \/ WorkerNow = {}

\* The fields of the tasks in the main queue and in the worker queue.
LEMMA TaskFields ==
    /\ \A m \in MainTask :
         /\ m.task = "notice" => m.user \in Users
         /\ m.task = "token" => /\ m.user \in Users \cup {NoUser}
                                /\ m.counter \in Nat /\ m.closes \in Nat
         /\ m.task \in {"notice", "token"}
    /\ \A m \in WorkerTask :
         /\ m.op = "write" => m.write \in Writes
         /\ m.op = "user" => m.user \in Users
         /\ m.op = "token" => m.user \in Users \cup {NoUser} /\ m.closes \in Nat
         /\ m.op \in {"write", "user", "token"}
BY DEF MainTask, WorkerTask

\* The main queue and the worker queue are sequences of tasks.
LEMMA QueueTypes ==
    ASSUME TypeOK
    PROVE  /\ main \in Seq(MainTask) /\ worker \in Seq(WorkerTask)
           /\ Len(main) \in Nat /\ Len(worker) \in Nat
BY DEF TypeOK, MainTask, WorkerTask

\* What a queue with a new last element has where.
LEMMA AppendAt ==
    ASSUME NEW S, NEW s \in Seq(S), NEW e \in S
    PROVE  /\ Append(s, e) \in Seq(S) /\ Len(Append(s, e)) = Len(s) + 1
           /\ Len(s) \in Nat
           /\ Append(s, e)[Len(s) + 1] = e
           /\ \A i \in 1..Len(s) : Append(s, e)[i] = s[i]
           /\ \A i \in 1..Len(Append(s, e)) :
                 i = Len(s) + 1 \/ i \in 1..Len(s)
<1>1. /\ Append(s, e) \in Seq(S) /\ Len(Append(s, e)) = Len(s) + 1
      /\ Append(s, e)[Len(s) + 1] = e
      /\ \A i \in 1..Len(s) : Append(s, e)[i] = s[i]
      /\ Len(s) \in Nat
  BY AppendProperties
<1>2. \A i \in 1..Len(Append(s, e)) : i = Len(s) + 1 \/ i \in 1..Len(s)
  BY <1>1
<1> QED BY <1>1, <1>2

\* What a queue without its first element has where.
LEMMA TailAt ==
    ASSUME NEW S, NEW s \in Seq(S), s # <<>>
    PROVE  /\ Head(s) = s[1] /\ Head(s) \in S /\ 1 \in 1..Len(s)
           /\ Tail(s) \in Seq(S) /\ Len(Tail(s)) = Len(s) - 1
           /\ Len(s) \in Nat
           /\ \A i \in 1..Len(Tail(s)) :
                 i + 1 \in 1..Len(s) /\ Tail(s)[i] = s[i + 1]
<1>1. /\ Tail(s) \in Seq(S) /\ Len(Tail(s)) = Len(s) - 1 /\ Len(s) \in Nat
      /\ \A i \in 1..Len(Tail(s)) : Tail(s)[i] = s[i + 1]
      /\ Head(s) \in S
  BY HeadTailProperties
<1>2. Head(s) = s[1] /\ Len(s) # 0
  OBVIOUS
<1> DEFINE t == Tail(s)
<1>3. /\ Len(t) = Len(s) - 1 /\ Len(s) \in Nat /\ Len(s) # 0
      /\ \A i \in 1..Len(t) : t[i] = s[i + 1]
  BY <1>1, <1>2
<1> HIDE DEF t
<1>4. /\ 1 \in 1..Len(s)
      /\ \A i \in 1..Len(t) : i + 1 \in 1..Len(s) /\ t[i] = s[i + 1]
  BY <1>3
<1> QED BY <1>1, <1>2, <1>4 DEF t

\* The tokens in a queue are where they were, j places further on.
KeptMain(j) ==
    \A i \in 1..Len(main') : main'[i].task = "token" =>
        i + j \in 1..Len(main) /\ main'[i] = main[i + j]
KeptWorker(j) ==
    \A i \in 1..Len(worker') : worker'[i].op = "token" =>
        i + j \in 1..Len(worker) /\ worker'[i] = worker[i + j]

\* A task that leaves the main queue, or joins it, moves the others.
LEMMA KeepMain ==
    ASSUME TypeOK
    PROVE  /\ main' = main => KeptMain(0)
           /\ \A m \in MainTask :
                 m.task # "token" /\ main' = Append(main, m) => KeptMain(0)
           /\ main # <<>> /\ main' = Tail(main) => KeptMain(1)
<1>1. main \in Seq(MainTask) /\ Len(main) \in Nat
  BY QueueTypes
<1>2. ASSUME main' = main
      PROVE  KeptMain(0)
  BY <1>1, <1>2 DEF KeptMain
<1>3. ASSUME NEW m \in MainTask, m.task # "token", main' = Append(main, m)
      PROVE  KeptMain(0)
  <2>1. /\ main'[Len(main) + 1] = m
        /\ \A i \in 1..Len(main) : main'[i] = main[i]
        /\ \A i \in 1..Len(main') : i = Len(main) + 1 \/ i \in 1..Len(main)
    BY <1>1, <1>3, AppendAt
  <2> QED BY <1>1, <1>3, <2>1 DEF KeptMain
<1>4. ASSUME main # <<>>, main' = Tail(main)
      PROVE  KeptMain(1)
  <2>1. \A i \in 1..Len(main') :
           i + 1 \in 1..Len(main) /\ main'[i] = main[i + 1]
    BY <1>1, <1>4, TailAt
  <2> QED BY <2>1 DEF KeptMain
<1> QED BY <1>2, <1>3, <1>4

\* So it is with the worker queue.
LEMMA KeepWorker ==
    ASSUME TypeOK
    PROVE  /\ worker' = worker => KeptWorker(0)
           /\ \A m \in WorkerTask :
                 m.op # "token" /\ worker' = Append(worker, m) => KeptWorker(0)
           /\ worker # <<>> /\ worker' = Tail(worker) => KeptWorker(1)
<1>1. worker \in Seq(WorkerTask) /\ Len(worker) \in Nat
  BY QueueTypes
<1>2. ASSUME worker' = worker
      PROVE  KeptWorker(0)
  BY <1>1, <1>2 DEF KeptWorker
<1>3. ASSUME NEW m \in WorkerTask, m.op # "token", worker' = Append(worker, m)
      PROVE  KeptWorker(0)
  <2>1. /\ worker'[Len(worker) + 1] = m
        /\ \A i \in 1..Len(worker) : worker'[i] = worker[i]
        /\ \A i \in 1..Len(worker') :
              i = Len(worker) + 1 \/ i \in 1..Len(worker)
    BY <1>1, <1>3, AppendAt
  <2> QED BY <1>1, <1>3, <2>1 DEF KeptWorker
<1>4. ASSUME worker # <<>>, worker' = Tail(worker)
      PROVE  KeptWorker(1)
  <2>1. \A i \in 1..Len(worker') :
           i + 1 \in 1..Len(worker) /\ worker'[i] = worker[i + 1]
    BY <1>1, <1>4, TailAt
  <2> QED BY <2>1 DEF KeptWorker
<1> QED BY <1>2, <1>3, <1>4

\* The tokens that are left in the queues are those that were there, j or k
\* places further on, while the stream is moved by a call: at most one is still
\* for the stream as it is now.
LEMMA TokensMove ==
    ASSUME TypeOK, CountsInv, OneToken, Moves(net, net'),
           counter' \in Nat, counter <= counter',
           NEW j \in {0, 1}, NEW k \in {0, 1}, KeptMain(j), KeptWorker(k)
    PROVE  CountsInv' /\ OneToken'
<1>1. net'.closes \in {net.closes, net.closes + 1}
  BY DEF Moves
<1>2. \/ net'.asked = net.asked
      \/ /\ net'.asked = net.asked \cup {Ask(net'.closes)}
         /\ net'.state = "starting" /\ net'.token = NoUser
  BY DEF Moves
<1>3. /\ Ask(net'.closes).closes = net'.closes
      /\ Ask(net'.closes).counter = counter
  BY DEF Ask
<1>4. /\ net.closes \in Nat /\ counter \in Nat
      /\ \A r \in net.asked : r.counter \in Nat /\ r.closes \in Nat
  BY NetFields DEF TypeOK, Request
<1>5. /\ Len(main) \in Nat /\ Len(worker) \in Nat
      /\ \A i \in 1..Len(main) : main[i] \in MainTask
      /\ \A i \in 1..Len(worker) : worker[i] \in WorkerTask
  BY QueueTypes, ElementOfSeq
<1>6. /\ \A i \in 1..Len(main) : main[i].task = "token" =>
           main[i].counter \in Nat /\ main[i].closes \in Nat
      /\ \A i \in 1..Len(worker) : worker[i].op = "token" =>
           worker[i].closes \in Nat
  BY <1>5, TaskFields
<1>7. CountsInv'
  <2>1. ASSUME NEW r \in net'.asked
        PROVE  r.counter <= counter' /\ r.closes <= net'.closes
    BY <1>1, <1>2, <1>3, <1>4 DEF CountsInv
  <2>2. ASSUME NEW i \in 1..Len(main'), main'[i].task = "token"
        PROVE  main'[i].counter <= counter' /\ main'[i].closes <= net'.closes
    <3>1. i + j \in 1..Len(main) /\ main'[i] = main[i + j]
      BY <2>2 DEF KeptMain
    <3>2. /\ main[i + j].counter <= counter /\ main[i + j].closes <= net.closes
          /\ main[i + j].counter \in Nat /\ main[i + j].closes \in Nat
      BY <1>6, <2>2, <3>1 DEF CountsInv
    <3>3. net.closes \in Nat /\ counter \in Nat
      BY <1>4
    <3>4. \A m \in Nat : /\ m <= counter => m <= counter'
                         /\ m <= net.closes => m <= net'.closes
      BY <1>1, <3>3
    <3> QED BY <3>1, <3>2, <3>4
  <2>3. ASSUME NEW i \in 1..Len(worker'), worker'[i].op = "token"
        PROVE  worker'[i].closes <= net'.closes
    <3>1. i + k \in 1..Len(worker) /\ worker'[i] = worker[i + k]
      BY <2>3 DEF KeptWorker
    <3>2. worker[i + k].closes <= net.closes /\ worker[i + k].closes \in Nat
      BY <1>6, <2>3, <3>1 DEF CountsInv
    <3>3. net.closes \in Nat
      BY <1>4
    <3>4. \A m \in Nat : m <= net.closes => m <= net'.closes
      BY <1>1, <3>3
    <3> QED BY <3>1, <3>2, <3>4
  <2> QED BY <2>1, <2>2, <2>3 DEF CountsInv
<1>8. ASSUME MainNow' = {}, WorkerNow' = {},
             AskedNow' \subseteq {Ask(net'.closes)},
             AskedNow' # {} => net'.state = "starting" /\ net'.token = NoUser
      PROVE  OneToken'
  BY <1>8 DEF OneToken
<1>9. ASSUME net'.closes = net.closes + 1
      PROVE  OneToken'
  <2>1. MainNow' = {}
    <3>1. \A i \in 1..Len(main) : main[i].task = "token" =>
             main[i].closes <= net.closes /\ main[i].closes \in Nat
      BY <1>6 DEF CountsInv
    <3>2. \A i \in 1..Len(main') : main'[i].task = "token" =>
             main'[i].closes <= net.closes /\ main'[i].closes \in Nat
      BY <3>1 DEF KeptMain
    <3>3. net.closes \in Nat
      BY <1>4
    <3> QED BY <1>9, <3>2, <3>3 DEF MainNow
  <2>2. WorkerNow' = {}
    <3>1. \A i \in 1..Len(worker) : worker[i].op = "token" =>
             worker[i].closes <= net.closes /\ worker[i].closes \in Nat
      BY <1>6 DEF CountsInv
    <3>2. \A i \in 1..Len(worker') : worker'[i].op = "token" =>
             worker'[i].closes <= net.closes /\ worker'[i].closes \in Nat
      BY <3>1 DEF KeptWorker
    <3>3. net.closes \in Nat
      BY <1>4
    <3> QED BY <1>9, <3>2, <3>3 DEF WorkerNow
  <2>3. \A r \in net.asked : r.closes # net'.closes
    BY <1>4, <1>9 DEF CountsInv
  <2>4. /\ AskedNow' \subseteq {Ask(net'.closes)}
        /\ AskedNow' # {} => net'.state = "starting" /\ net'.token = NoUser
    BY <1>2, <2>3 DEF AskedNow
  <2> QED BY <1>8, <2>1, <2>2, <2>4
<1>10. ASSUME net'.closes = net.closes
       PROVE  OneToken'
  <2>1. /\ \A i \in MainNow' : i + j \in MainNow
        /\ \A i \in WorkerNow' : i + k \in WorkerNow
    BY <1>10 DEF MainNow, WorkerNow, KeptMain, KeptWorker
  <2>2. MainNow' \subseteq Int /\ WorkerNow' \subseteq Int
    BY DEF MainNow, WorkerNow
  <2>3. ASSUME AskedNow # {} \/ MainNow # {} \/ WorkerNow # {}
        PROVE  OneToken'
    <3>1. net.state = "starting" /\ net.token = NoUser
      BY <2>3 DEF OneToken
    <3>2. net'.state = "starting" /\ net'.token = NoUser /\ AskedNow' = AskedNow
      BY <1>10, <3>1 DEF Moves, AskedNow
    <3>3. ASSUME NEW i \in MainNow', NEW l \in MainNow'
          PROVE  i = l
      <4>1. i + j = l + j
        BY <2>1 DEF OneToken
      <4> QED BY <2>2, <4>1
    <3>4. ASSUME NEW i \in WorkerNow', NEW l \in WorkerNow'
          PROVE  i = l
      <4>1. i + k = l + k
        BY <2>1 DEF OneToken
      <4> QED BY <2>2, <4>1
    <3>5. /\ MainNow = {} => MainNow' = {}
          /\ WorkerNow = {} => WorkerNow' = {}
      BY <2>1
    <3> QED BY <3>2, <3>3, <3>4, <3>5 DEF OneToken
  <2>4. ASSUME AskedNow = {} /\ MainNow = {} /\ WorkerNow = {}
        PROVE  OneToken'
    <3>1. MainNow' = {} /\ WorkerNow' = {}
      BY <2>1, <2>4
    <3>2. \A r \in net.asked : r.closes # net'.closes
      BY <1>10, <2>4 DEF AskedNow
    <3>3. /\ AskedNow' \subseteq {Ask(net'.closes)}
          /\ AskedNow' # {} => net'.state = "starting" /\ net'.token = NoUser
      BY <1>2, <3>2 DEF AskedNow
    <3> QED BY <1>8, <3>1, <3>3
  <2> QED BY <2>3, <2>4
<1> QED BY <1>1, <1>7, <1>9, <1>10

-----------------------------------------------------------------------------
(* Steps: everything so far *)

\* The queues, the stream and the tokens are in order.
WireInv == TypeOK /\ QueueInv /\ NetInv /\ CountsInv /\ OneToken

\* The tokens in flight, counted, are those BaseInv speaks of.
LEMMA WireBase == ASSUME WireInv PROVE BaseInv
<1>1. \A i \in DOMAIN main : i \in 1..Len(main)
  BY QueueTypes DEF WireInv
<1>2. \A i \in DOMAIN worker : i \in 1..Len(worker)
  BY QueueTypes DEF WireInv
<1>3. InFlight(net.closes) =>
        AskedNow # {} \/ MainNow # {} \/ WorkerNow # {}
  BY <1>1, <1>2 DEF InFlight, AskedNow, MainNow, WorkerNow
<1>4. StartingInv
  BY <1>3 DEF WireInv, OneToken, StartingInv
<1> QED BY <1>4 DEF WireInv, BaseInv

\* The types of everything but the queues and the stream.
LEMMA TypesHold ==
    ASSUME authUser' \in Users, main' \in Seq(MainTask), counter' \in Nat,
           worker' \in Seq(WorkerTask), user' \in Users,
           queue' \in [Users -> Seq(Batch)], nextId' \in Nat \ {0},
           callbacks' \in [Users -> SUBSET Batch], NetInv',
           applied' \in Seq([write : Writes, by : Users]),
           ended' \in [Writes -> {"none", "ok", "failed"}],
           calls' \in 0..MaxWrites, troubles' \in 0..MaxTroubles
    PROVE  TypeOK'
<1>1. net' \in Net
  BY DEF NetInv, NetOK
<1> QED BY <1>1 DEF TypeOK, MainTask, WorkerTask

\* What TypeOK says, for citing.
LEMMA TypesAre ==
    ASSUME TypeOK
    PROVE  /\ authUser \in Users /\ main \in Seq(MainTask) /\ counter \in Nat
           /\ worker \in Seq(WorkerTask) /\ user \in Users
           /\ queue \in [Users -> Seq(Batch)] /\ nextId \in Nat \ {0}
           /\ callbacks \in [Users -> SUBSET Batch] /\ net \in Net
           /\ applied \in Seq([write : Writes, by : Users])
           /\ ended \in [Writes -> {"none", "ok", "failed"}]
           /\ calls \in 0..MaxWrites /\ troubles \in 0..MaxTroubles
           /\ calls \in Nat /\ troubles \in Nat
BY DEF TypeOK, MainTask, WorkerTask

\* A trouble more: the bound holds.
LEMMA TroubleType ==
    ASSUME TypeOK, Trouble \/ UNCHANGED troubles
    PROVE  troubles' \in 0..MaxTroubles
BY PipelineBoundsAssumption, TypesAre DEF Trouble

\* A stream that is not touched moves, too.
LEMMA MovesNot ==
    ASSUME net' = net
    PROVE  Moves(net, net')
BY DEF Moves

\* One lemma per action: the app calls setData.
LEMMA SetDataWire ==
    ASSUME WireInv, SetData
    PROVE  WireInv'
<1> DEFINE m == [op |-> "write", write |-> calls + 1]
<1>1. /\ TypeOK /\ calls < MaxWrites /\ calls' = calls + 1
      /\ worker' = Append(worker, m)
      /\ UNCHANGED <<authUser, main, counter, user, queue, nextId, callbacks,
                     net, applied, ended, troubles>>
  BY DEF WireInv, SetData
<1>2. calls + 1 \in Writes /\ calls' \in 0..MaxWrites
  BY <1>1, TypesAre, WritesType DEF Writes
<1>3. m \in WorkerTask /\ m.op # "token"
  BY <1>2 DEF WorkerTask
<1> HIDE DEF m
<1>4. worker' \in Seq(WorkerTask) /\ KeptMain(0) /\ KeptWorker(0)
  BY <1>1, <1>3, TypesAre, AppendAt, KeepMain, KeepWorker
<1>5. QueueInv' /\ NetInv'
  BY <1>1, WireBase, NothingSent
<1>6. TypeOK'
  BY <1>1, <1>2, <1>4, <1>5, TypesAre, TypesHold
<1>7. counter' = counter /\ counter \in Nat
  BY <1>1, TypesAre
<1>8. CountsInv' /\ OneToken'
  BY <1>1, <1>4, <1>7, TokensMove, MovesNot DEF WireInv
<1> QED BY <1>5, <1>6, <1>8 DEF WireInv

\* FIRAuth posts a notice.
LEMMA ChangeUserWire ==
    ASSUME WireInv, NEW u \in Users, ChangeUser(u)
    PROVE  WireInv'
<1> DEFINE m == [task |-> "notice", user |-> u]
<1>1. /\ TypeOK /\ authUser' = u /\ main' = Append(main, m) /\ Trouble
      /\ UNCHANGED <<counter, worker, user, queue, nextId, callbacks, net,
                     applied, ended, calls>>
  BY DEF WireInv, ChangeUser
<1>2. m \in MainTask /\ m.task # "token"
  BY DEF MainTask
<1> HIDE DEF m
<1>3. main' \in Seq(MainTask) /\ KeptMain(0) /\ KeptWorker(0)
  BY <1>1, <1>2, TypesAre, AppendAt, KeepMain, KeepWorker
<1>4. QueueInv' /\ NetInv'
  BY <1>1, WireBase, NothingSent
<1>5. TypeOK'
  BY <1>1, <1>3, <1>4, TypesAre, TypesHold, TroubleType
<1>6. counter' = counter /\ counter \in Nat
  BY <1>1, TypesAre
<1>7. CountsInv' /\ OneToken'
  BY <1>1, <1>3, <1>6, TokensMove, MovesNot DEF WireInv
<1> QED BY <1>4, <1>5, <1>7 DEF WireInv

\* The provider counts a notice, which makes all tokens asked for stale.
LEMMA HandleNoticeWire ==
    ASSUME WireInv, HandleNotice
    PROVE  WireInv'
<1> DEFINE m == [op |-> "user", user |-> Head(main).user]
<1>1. /\ TypeOK /\ main # <<>> /\ Head(main).task = "notice"
      /\ main' = Tail(main) /\ counter' = counter + 1
      /\ worker' = Append(worker, m)
      /\ UNCHANGED <<authUser, user, queue, nextId, callbacks, net, applied,
                     ended, calls, troubles>>
  BY DEF WireInv, HandleNotice
<1>2. Head(main) \in MainTask /\ main' \in Seq(MainTask)
  BY <1>1, TypesAre, TailAt
<1>3. m \in WorkerTask /\ m.op # "token"
  BY <1>1, <1>2, TaskFields DEF WorkerTask
<1> HIDE DEF m
<1>4. worker' \in Seq(WorkerTask) /\ KeptMain(1) /\ KeptWorker(0)
  BY <1>1, <1>3, TypesAre, AppendAt, KeepMain, KeepWorker
<1>5. QueueInv' /\ NetInv'
  BY <1>1, WireBase, NothingSent
<1>6. counter' \in Nat /\ counter <= counter'
  BY <1>1, TypesAre
<1>7. TypeOK'
  BY <1>1, <1>2, <1>4, <1>5, <1>6, TypesAre, TypesHold
<1>8. CountsInv' /\ OneToken'
  BY <1>1, <1>4, <1>6, TokensMove, MovesNot DEF WireInv
<1> QED BY <1>5, <1>7, <1>8 DEF WireInv

\* The fields of a request for a token.
LEMMA RequestFields ==
    ASSUME TypeOK, NEW r \in net.asked
    PROVE  /\ r \in Request /\ r.counter \in Nat /\ r.closes \in Nat
           /\ r.read \in Users \cup {NoUser}
BY TypesAre, NetFields DEF Request

\* FIRAuth looks at its user.
LEMMA ReadUserWire ==
    ASSUME WireInv, NEW r \in net.asked, ReadUser(r)
    PROVE  WireInv'
<1> DEFINE s == [r EXCEPT !.read = authUser]
           asked == (net.asked \ {r}) \cup {s}
<1>1. /\ TypeOK /\ net' = [net EXCEPT !.asked = asked]
      /\ UNCHANGED <<authUser, main, counter, worker, user, queue, nextId,
                     callbacks, applied, ended, calls, troubles>>
  BY DEF WireInv, ReadUser
<1>2. s \in Request /\ s.counter = r.counter /\ s.closes = r.closes
  BY <1>1, RequestFields, TypesAre DEF Request
<1> HIDE DEF s
<1>3. asked \in SUBSET Request
  BY <1>1, <1>2, TypesAre, NetFields
<1>4. \A t \in asked : t = s \/ (t # r /\ t \in net.asked)
  OBVIOUS
<1> HIDE DEF asked
<1>5. /\ QueueInv' /\ NetInv' /\ net'.asked = asked /\ net'.closes = net.closes
      /\ net'.state = net.state /\ net'.token = net.token
  BY <1>1, <1>3, WireBase, OnlyAsked
<1>6. TypeOK'
  BY <1>1, <1>5, TypesAre, TypesHold
<1>7. CountsInv'
  BY <1>1, <1>2, <1>4, <1>5 DEF WireInv, CountsInv
<1>8. /\ MainNow' = MainNow /\ WorkerNow' = WorkerNow
      /\ \A t \in AskedNow' :
            (t = s /\ r \in AskedNow) \/ (t # r /\ t \in AskedNow)
  BY <1>1, <1>2, <1>4, <1>5 DEF AskedNow, MainNow, WorkerNow
<1>9. AskedNow' # {} => AskedNow # {}
  BY <1>8
<1>10. ASSUME NEW t \in AskedNow', NEW v \in AskedNow'
       PROVE  t = v
  BY <1>8 DEF WireInv, OneToken
<1>11. OneToken'
  BY <1>5, <1>8, <1>9, <1>10 DEF WireInv, OneToken
<1> QED BY <1>5, <1>6, <1>7, <1>11 DEF WireInv

\* FIRAuth answers: the token goes from those asked for to the main queue.
LEMMA AnswerTokenWire ==
    ASSUME WireInv, NEW r \in net.asked, NEW token, AnswerToken(r, token)
    PROVE  WireInv'
<1> DEFINE m == [task |-> "token", user |-> token,
                 counter |-> r.counter, closes |-> r.closes]
           asked == net.asked \ {r}
<1>1. /\ TypeOK /\ net' = [net EXCEPT !.asked = asked]
      /\ main' = Append(main, m)
      /\ Trouble \/ UNCHANGED troubles
      /\ UNCHANGED <<authUser, counter, worker, user, queue, nextId, callbacks,
                     applied, ended, calls>>
  BY DEF WireInv, AnswerToken
<1>2. token \in Users \cup {NoUser}
  BY <1>1, RequestFields DEF AnswerToken
<1>3. /\ m \in MainTask /\ m.counter = r.counter /\ m.closes = r.closes
      /\ m.task = "token"
  BY <1>1, <1>2, RequestFields DEF MainTask
<1> HIDE DEF m
<1>4. asked \in SUBSET Request
  BY <1>1, TypesAre, NetFields
<1>5. /\ QueueInv' /\ NetInv' /\ net'.asked = asked /\ net'.closes = net.closes
      /\ net'.state = net.state /\ net'.token = net.token
  BY <1>1, <1>4, WireBase, OnlyAsked
<1>6. /\ main' \in Seq(MainTask) /\ Len(main) \in Nat
      /\ main'[Len(main) + 1] = m
      /\ \A i \in 1..Len(main) : main'[i] = main[i]
      /\ \A i \in 1..Len(main') : i = Len(main) + 1 \/ i \in 1..Len(main)
  BY <1>1, <1>3, TypesAre, AppendAt
<1>7. TypeOK'
  BY <1>1, <1>5, <1>6, TypesAre, TypesHold, TroubleType
<1>8. CountsInv'
  <2>1. \A i \in 1..Len(main') : main'[i].task = "token" =>
           main'[i].counter <= counter /\ main'[i].closes <= net.closes
    BY <1>3, <1>6 DEF WireInv, CountsInv
  <2> QED BY <1>1, <1>5, <2>1 DEF WireInv, CountsInv
<1>9. WorkerNow' = WorkerNow /\ AskedNow' = AskedNow \ {r}
  BY <1>1, <1>5 DEF AskedNow, WorkerNow
<1>10. CASE r.closes = net.closes
  <2>1. r \in AskedNow
    BY <1>10 DEF AskedNow
  <2>2. /\ MainNow = {} /\ WorkerNow = {} /\ AskedNow' = {}
        /\ net.state = "starting" /\ net.token = NoUser
    BY <1>9, <2>1 DEF WireInv, OneToken
  <2>3. \A i \in MainNow' : i = Len(main) + 1
    <3>1. \A i \in 1..Len(main) :
             ~(main[i].task = "token" /\ main[i].closes = net.closes)
      BY <2>2 DEF MainNow
    <3> QED BY <1>5, <1>6, <3>1 DEF MainNow
  <2>4. OneToken'
    BY <1>5, <1>9, <2>2, <2>3 DEF OneToken
  <2> QED BY <1>5, <1>7, <1>8, <2>4 DEF WireInv
<1>11. CASE r.closes # net.closes
  <2>1. MainNow' = MainNow
    <3>1. m.closes # net.closes
      BY <1>3, <1>11
    <3>2. \A i \in MainNow' : i \in MainNow
      BY <1>5, <1>6, <3>1 DEF MainNow
    <3>3. \A i \in MainNow : i \in 1..Len(main')
      <4>1. Len(main') = Len(main) + 1
        BY <1>1, <1>3, TypesAre, AppendAt
      <4> QED BY <1>6, <4>1 DEF MainNow
    <3>4. \A i \in MainNow : i \in MainNow'
      BY <1>5, <1>6, <3>3 DEF MainNow
    <3> QED BY <3>2, <3>4
  <2>2. AskedNow' \subseteq AskedNow
    BY <1>9
  <2>3. OneToken'
    BY <1>5, <1>9, <2>1, <2>2 DEF WireInv, OneToken
  <2> QED BY <1>5, <1>7, <1>8, <2>3 DEF WireInv
<1> QED BY <1>10, <1>11

\* The main queue hands the token on, or asks again.
LEMMA HandleTokenWire ==
    ASSUME WireInv, HandleToken
    PROVE  WireInv'
<1> DEFINE h == Head(main)
           m == [op |-> "token", user |-> h.user, closes |-> h.closes]
           asked == net.asked \cup {Ask(h.closes)}
<1>1. /\ TypeOK /\ main # <<>> /\ h.task = "token" /\ main' = Tail(main)
      /\ UNCHANGED <<authUser, counter, user, queue, nextId, callbacks, applied,
                     ended, calls, troubles>>
  BY DEF WireInv, HandleToken
<1>2. /\ h = main[1] /\ h \in MainTask /\ 1 \in 1..Len(main)
      /\ main' \in Seq(MainTask)
      /\ \A i \in 1..Len(main') :
           i + 1 \in 1..Len(main) /\ main'[i] = main[i + 1]
  BY <1>1, TypesAre, TailAt
<1>3. CASE h.counter = counter
  <2>1. worker' = Append(worker, m) /\ net' = net
    BY <1>3 DEF HandleToken
  <2> HIDE DEF h
  <2>2. m \in WorkerTask /\ m.op = "token" /\ m.closes = h.closes
    BY <1>1, <1>2, TaskFields DEF WorkerTask
  <2> HIDE DEF m
  <2>3. /\ worker' \in Seq(WorkerTask) /\ Len(worker) \in Nat
        /\ Len(worker') = Len(worker) + 1
        /\ worker'[Len(worker) + 1] = m
        /\ \A i \in 1..Len(worker) : worker'[i] = worker[i]
        /\ \A i \in 1..Len(worker') :
              i = Len(worker) + 1 \/ i \in 1..Len(worker)
    BY <1>1, <2>1, <2>2, TypesAre, AppendAt
  <2>4. QueueInv' /\ NetInv'
    BY <1>1, <2>1, WireBase, NothingSent
  <2>5. TypeOK'
    BY <1>1, <1>2, <2>3, <2>4, TypesAre, TypesHold
  <2>6. h.closes <= net.closes
    BY <1>1, <1>2 DEF WireInv, CountsInv
  <2>7. CountsInv'
    <3>1. \A i \in 1..Len(worker') : worker'[i].op = "token" =>
             worker'[i].closes <= net.closes
      BY <2>2, <2>3, <2>6 DEF WireInv, CountsInv
    <3>2. \A i \in 1..Len(main') : main'[i].task = "token" =>
             main'[i].counter <= counter /\ main'[i].closes <= net.closes
      BY <1>2 DEF WireInv, CountsInv
    <3> QED BY <1>1, <2>1, <3>1, <3>2 DEF WireInv, CountsInv
  <2>8. AskedNow' = AskedNow
    BY <2>1 DEF AskedNow
  <2>9. ASSUME h.closes = net.closes
        PROVE  OneToken'
    <3>1. 1 \in MainNow
      BY <1>1, <1>2, <2>9 DEF MainNow
    <3>2. /\ AskedNow' = {} /\ WorkerNow = {} /\ \A i \in MainNow : i = 1
          /\ net'.state = "starting" /\ net'.token = NoUser
      BY <2>1, <2>8, <3>1 DEF WireInv, OneToken
    <3>3. \A i \in MainNow' : i + 1 \in MainNow /\ i \in Nat \ {0}
      BY <1>2, <2>1 DEF MainNow
    <3>4. MainNow' = {}
      BY <3>2, <3>3
    <3>5. \A i \in WorkerNow' : i = Len(worker) + 1
      <4>1. \A i \in 1..Len(worker) :
               ~(worker[i].op = "token" /\ worker[i].closes = net.closes)
        BY <3>2 DEF WorkerNow
      <4> QED BY <2>1, <2>3, <4>1 DEF WorkerNow
    <3> QED BY <3>2, <3>4, <3>5 DEF OneToken
  <2>10. ASSUME h.closes # net.closes
         PROVE  OneToken'
    <3>1. \A i \in WorkerNow' : i \in WorkerNow
      BY <2>1, <2>2, <2>3, <2>10 DEF WorkerNow
    <3>2. \A i \in MainNow' : i + 1 \in MainNow /\ i \in Int
      BY <1>2, <2>1 DEF MainNow
    <3>3. ASSUME NEW i \in MainNow', NEW l \in MainNow'
          PROVE  i = l
      <4>1. i + 1 = l + 1
        BY <3>2 DEF WireInv, OneToken
      <4> QED BY <3>2, <4>1
    <3>4. MainNow = {} => MainNow' = {}
      BY <3>2
    <3>5. WorkerNow = {} => WorkerNow' = {}
      BY <3>1
    <3>6. MainNow' # {} => MainNow # {}
      BY <3>4
    <3> QED BY <2>1, <2>8, <3>1, <3>3, <3>4, <3>5, <3>6 DEF WireInv, OneToken
  <2> QED BY <2>4, <2>5, <2>7, <2>9, <2>10 DEF WireInv
<1>4. CASE h.counter # counter
  <2>1. net' = [net EXCEPT !.asked = asked] /\ worker' = worker
    <3>1. net' = AskForToken(net, h.closes) /\ worker' = worker
      BY <1>4 DEF HandleToken
    <3>2. AskForToken(net, h.closes) = [net EXCEPT !.asked = asked]
      BY DEF AskForToken, Ask
    <3> QED BY <3>1, <3>2
  <2> HIDE DEF h
  <2>2. h.closes \in Nat /\ counter \in Nat
    BY <1>1, <1>2, TaskFields, TypesAre
  <2>3. /\ Ask(h.closes) \in Request /\ Ask(h.closes).closes = h.closes
        /\ Ask(h.closes).counter = counter
    BY <2>2 DEF Ask, Request
  <2>4. asked \in SUBSET Request
    BY <1>1, <2>3, TypesAre, NetFields
  <2>5. /\ QueueInv' /\ NetInv' /\ net'.asked = asked
        /\ net'.closes = net.closes
        /\ net'.state = net.state /\ net'.token = net.token
    BY <1>1, <2>1, <2>4, WireBase, OnlyAsked
  <2>6. TypeOK'
    BY <1>1, <1>2, <2>1, <2>5, TypesAre, TypesHold
  <2>7. h.closes <= net.closes
    BY <1>1, <1>2 DEF WireInv, CountsInv
  <2>8. CountsInv'
    <3>1. \A i \in 1..Len(main') : main'[i].task = "token" =>
             main'[i].counter <= counter /\ main'[i].closes <= net.closes
      BY <1>2 DEF WireInv, CountsInv
    <3>2. \A r \in asked : r.counter <= counter /\ r.closes <= net.closes
      BY <2>2, <2>3, <2>7 DEF WireInv, CountsInv
    <3> QED BY <1>1, <2>1, <2>5, <3>1, <3>2 DEF WireInv, CountsInv
  <2>9. WorkerNow' = WorkerNow
    BY <2>1, <2>5 DEF WorkerNow
  <2>10. \A i \in MainNow' : i + 1 \in MainNow /\ i \in Nat \ {0}
    BY <1>2, <2>5 DEF MainNow
  <2>11. ASSUME h.closes = net.closes
         PROVE  OneToken'
    <3>1. 1 \in MainNow
      BY <1>1, <1>2, <2>11 DEF MainNow
    <3>2. /\ AskedNow = {} /\ WorkerNow' = {} /\ \A i \in MainNow : i = 1
          /\ net'.state = "starting" /\ net'.token = NoUser
      BY <2>5, <2>9, <3>1 DEF WireInv, OneToken
    <3>3. MainNow' = {}
      BY <2>10, <3>2
    <3>4. \A r \in AskedNow' : r = Ask(h.closes)
      BY <2>5, <3>2 DEF AskedNow
    <3> QED BY <3>2, <3>3, <3>4 DEF OneToken
  <2>12. ASSUME h.closes # net.closes
         PROVE  OneToken'
    <3>1. AskedNow' = AskedNow
      BY <2>3, <2>5, <2>12 DEF AskedNow
    <3>2. ASSUME NEW i \in MainNow', NEW l \in MainNow'
          PROVE  i = l
      <4>1. i + 1 = l + 1
        BY <2>10 DEF WireInv, OneToken
      <4> QED BY <2>10, <4>1
    <3>3. MainNow = {} => MainNow' = {}
      BY <2>10
    <3>4. MainNow' # {} => MainNow # {}
      BY <3>3
    <3> QED BY <2>5, <2>9, <3>1, <3>2, <3>3, <3>4 DEF WireInv, OneToken
  <2> QED BY <2>5, <2>6, <2>8, <2>11, <2>12 DEF WireInv
<1> QED BY <1>3, <1>4

\* The stream takes the token.
LEMMA ResumeWithTokenWire ==
    ASSUME WireInv, ResumeWithToken
    PROVE  WireInv'
<1> DEFINE h == Head(worker)
<1>1. /\ TypeOK /\ worker # <<>> /\ h.op = "token" /\ worker' = Tail(worker)
      /\ UNCHANGED <<authUser, main, counter, user, queue, nextId, callbacks,
                     applied, ended, calls, troubles>>
  BY DEF WireInv, ResumeWithToken
<1>2. /\ h = worker[1] /\ 1 \in 1..Len(worker) /\ worker' \in Seq(WorkerTask)
      /\ \A i \in 1..Len(worker') :
           i + 1 \in 1..Len(worker) /\ worker'[i] = worker[i + 1]
  BY <1>1, TypesAre, TailAt
<1>3. /\ QueueInv' /\ NetInv'
      /\ \/ Moves(net, net')
         \/ /\ h.closes = net.closes /\ h.user \in Users
            /\ net'.token = h.user /\ net'.closes = net.closes
            /\ net'.asked = net.asked
  BY WireBase, ResumeWithTokenNet, MovesNot
<1>4. TypeOK'
  BY <1>1, <1>2, <1>3, TypesAre, TypesHold
<1>5. CASE Moves(net, net')
  <2>1. KeptMain(0) /\ KeptWorker(1)
    BY <1>1, KeepMain, KeepWorker
  <2>2. counter' = counter /\ counter \in Nat
    BY <1>1, TypesAre
  <2>3. CountsInv' /\ OneToken'
    BY <1>1, <1>5, <2>1, <2>2, TokensMove DEF WireInv
  <2> QED BY <1>3, <1>4, <2>3 DEF WireInv
<1>6. CASE /\ h.closes = net.closes
           /\ net'.closes = net.closes /\ net'.asked = net.asked
  <2> HIDE DEF h
  <2>1. 1 \in WorkerNow
    BY <1>1, <1>2, <1>6 DEF WorkerNow
  <2>2. AskedNow = {} /\ MainNow = {} /\ \A i \in WorkerNow : i = 1
    BY <2>1 DEF WireInv, OneToken
  <2>3. AskedNow' = {} /\ MainNow' = {}
    BY <1>1, <1>6, <2>2 DEF AskedNow, MainNow
  <2>4. \A i \in WorkerNow' : i + 1 \in WorkerNow /\ i \in Nat \ {0}
    BY <1>2, <1>6 DEF WorkerNow
  <2>5. WorkerNow' = {}
    BY <2>2, <2>4
  <2>6. OneToken'
    BY <2>3, <2>5 DEF OneToken
  <2>7. CountsInv'
    <3>1. \A i \in 1..Len(worker') : worker'[i].op = "token" =>
             worker'[i].closes <= net.closes
      BY <1>2 DEF WireInv, CountsInv
    <3> QED BY <1>1, <1>6, <3>1 DEF WireInv, CountsInv
  <2> QED BY <1>3, <1>4, <2>6, <2>7 DEF WireInv
<1> QED BY <1>3, <1>5, <1>6

\* The write at the head of the worker queue, and its end.
LEMMA WriteMutationsWire ==
    ASSUME WireInv, WriteMutations
    PROVE  WireInv'
<1> DEFINE w == Head(worker).write
           b == [id |-> nextId, write |-> w]
<1>1. /\ TypeOK /\ worker # <<>> /\ Head(worker).op = "write"
      /\ worker' = Tail(worker) /\ nextId' = nextId + 1
      /\ UNCHANGED <<authUser, main, counter, user, applied, ended, calls,
                     troubles>>
      /\ \/ callbacks' = callbacks
         \/ callbacks' = [callbacks EXCEPT ![user] = @ \cup {b}]
  BY DEF WireInv, WriteMutations
<1>2. worker' \in Seq(WorkerTask) /\ Head(worker) \in WorkerTask
  BY <1>1, TypesAre, TailAt
<1>3. w \in Writes
  BY <1>1, <1>2, TaskFields
<1> HIDE DEF w
<1>4. b \in Batch /\ nextId' \in Nat \ {0}
  BY <1>1, <1>3, TypesAre DEF Batch
<1> HIDE DEF b
<1>5. callbacks' \in [Users -> SUBSET Batch]
  BY <1>1, <1>4, TypesAre
<1>6. /\ queue' \in [Users -> Seq(Batch)]
      /\ QueueInv' /\ NetInv' /\ Moves(net, net')
  BY WireBase, WriteMutationsNet
<1>7. TypeOK'
  BY <1>1, <1>2, <1>4, <1>5, <1>6, TypesAre, TypesHold
<1>8. KeptMain(0) /\ KeptWorker(1)
  BY <1>1, KeepMain, KeepWorker
<1>9. counter' = counter /\ counter \in Nat
  BY <1>1, TypesAre
<1>10. CountsInv' /\ OneToken'
  BY <1>1, <1>6, <1>8, <1>9, TokensMove DEF WireInv
<1> QED BY <1>6, <1>7, <1>10 DEF WireInv

\* The worker hears of a user.
LEMMA HandleCredentialChangeWire ==
    ASSUME WireInv, HandleCredentialChange
    PROVE  WireInv'
<1>1. /\ TypeOK /\ worker # <<>> /\ worker' = Tail(worker)
      /\ UNCHANGED <<authUser, main, counter, queue, callbacks, applied, ended,
                     calls, troubles>>
  BY DEF WireInv, HandleCredentialChange
<1>2. worker' \in Seq(WorkerTask)
  BY <1>1, TypesAre, TailAt
<1>3. /\ user' \in Users /\ nextId' \in Nat \ {0} /\ QueueInv' /\ NetInv'
      /\ Moves(net, net')
  BY WireBase, HandleCredentialChangeNet
<1>4. TypeOK'
  BY <1>1, <1>2, <1>3, TypesAre, TypesHold
<1>5. KeptMain(0) /\ KeptWorker(1)
  BY <1>1, KeepMain, KeepWorker
<1>6. counter' = counter /\ counter \in Nat
  BY <1>1, TypesAre
<1>7. CountsInv' /\ OneToken'
  BY <1>1, <1>3, <1>5, <1>6, TokensMove DEF WireInv
<1> QED BY <1>3, <1>4, <1>7 DEF WireInv

\* The actions of the stream and of the server leave the main and the worker
\* queue alone.
LEMMA StreamWire ==
    ASSUME WireInv,
           UNCHANGED <<authUser, main, counter, worker, user, nextId, calls>>,
           troubles' \in 0..MaxTroubles,
           queue' \in [Users -> Seq(Batch)],
           callbacks' \in [Users -> SUBSET Batch],
           applied' \in Seq([write : Writes, by : Users]),
           ended' \in [Writes -> {"none", "ok", "failed"}],
           QueueInv', NetInv', Moves(net, net')
    PROVE  WireInv'
<1>1. TypeOK
  BY DEF WireInv
<1>2. TypeOK'
  BY <1>1, TypesAre, TypesHold
<1>3. KeptMain(0) /\ KeptWorker(0) /\ counter' = counter /\ counter \in Nat
  BY <1>1, TypesAre, KeepMain, KeepWorker
<1>4. CountsInv' /\ OneToken'
  BY <1>1, <1>3, TokensMove DEF WireInv
<1> QED BY <1>2, <1>4 DEF WireInv

\* Steps of the stream, which leave the threads' queues alone.
LEMMA OnlyNetWire ==
    ASSUME WireInv, OnlyNet, Trouble \/ UNCHANGED troubles,
           QueueInv', NetInv', Moves(net, net')
    PROVE  WireInv'
<1>1. TypeOK
  BY DEF WireInv
<1>2. troubles' \in 0..MaxTroubles
  BY <1>1, TroubleType
<1> QED BY <1>1, <1>2, TypesAre, StreamWire DEF OnlyNet

\* What handlers are told is of its type,
LEMMA ToldType ==
    ASSUME TypeOK, NEW id, NEW result \in {"ok", "failed"}
    PROVE  Told(id, result) \in [Writes -> {"none", "ok", "failed"}]
<1>1. \A w \in Writes : ended[w] \in {"none", "ok", "failed"}
  BY TypesAre
<1> QED BY <1>1 DEF Told

\* and the end of a batch keeps the types.
LEMMA EndBatchTypes ==
    ASSUME TypeOK, NEW id, NEW result \in {"ok", "failed"}, EndBatch(id, result)
    PROVE  /\ callbacks' \in [Users -> SUBSET Batch]
           /\ ended' \in [Writes -> {"none", "ok", "failed"}]
<1>1. ended' \in [Writes -> {"none", "ok", "failed"}]
  BY ToldType DEF EndBatch, NotifyUser
<1>2. callbacks' \in [Users -> SUBSET Batch]
  <2>1. user \in Users /\ callbacks \in [Users -> SUBSET Batch]
    BY TypesAre
  <2>2. {b \in callbacks[user] : b.id # id} \in SUBSET Batch
    BY <2>1
  <2> QED BY <2>1, <2>2 DEF EndBatch, NotifyUser
<1> QED BY <1>1, <1>2

\* An answer is heard.
LEMMA AnsweredWire ==
    ASSUME WireInv, MutationResult \/ WriteRefused
    PROVE  WireInv'
<1>1. TypeOK
  BY DEF WireInv
<1>2. /\ queue' \in [Users -> Seq(Batch)] /\ QueueInv' /\ NetInv'
      /\ Moves(net, net')
  BY WireBase, MutationResultNet, WriteRefusedNet
<1>3. /\ callbacks' \in [Users -> SUBSET Batch]
      /\ ended' \in [Writes -> {"none", "ok", "failed"}]
  BY <1>1, EndBatchTypes DEF MutationResult, WriteRefused
<1>4. UNCHANGED <<authUser, main, counter, worker, user, nextId, applied,
                  calls, troubles>>
  BY DEF MutationResult, WriteRefused
<1> QED BY <1>1, <1>2, <1>3, <1>4, TypesAre, StreamWire

\* A write is applied.
LEMMA ApplyWriteWire ==
    ASSUME WireInv, NEW w \in Writes, ApplyWrite(w)
    PROVE  WireInv'
<1>1. TypeOK
  BY DEF WireInv
<1>2. /\ QueueInv' /\ NetInv' /\ Moves(net, net')
      /\ applied' \in Seq([write : Writes, by : Users])
  BY WireBase, ApplyWriteNet
<1>3. UNCHANGED <<authUser, main, counter, worker, user, queue, nextId,
                  callbacks, ended, calls, troubles>>
  BY DEF ApplyWrite
<1> QED BY <1>1, <1>2, <1>3, TypesAre, StreamWire

\* The stream a process begins with.
LEMMA EmptyNetOK ==
    ASSUME NEW q \in Seq(Batch)
    PROVE  /\ NetOK(EmptyNet, q)
           /\ EmptyNet.closes = 0 /\ EmptyNet.token = NoUser
           /\ EmptyNet.asked = {} /\ ~EmptyNet.handshake
           /\ EmptyNet.down = <<>>
<1>1. /\ EmptyNet.closes = 0 /\ EmptyNet.token = NoUser
      /\ EmptyNet.asked = {} /\ EmptyNet.down = <<>> /\ EmptyNet.up = <<>>
      /\ ~EmptyNet.handshake /\ EmptyNet.state = "initial"
      /\ EmptyNet.pipeline = <<>> /\ ~EmptyNet.idle
  BY DEF EmptyNet
<1>2. EmptyNet \in Net
  <2>1. /\ <<>> \in Seq(Batch) /\ <<>> \in Seq({0} \cup Writes)
        /\ <<>> \in Seq({"hello", "ok", "refused"})
    BY EmptySeq
  <2> QED BY <2>1 DEF EmptyNet, Net
<1>3. IsPrefixOf(EmptyNet.pipeline, q)
  BY <1>1, EmptyPrefix
<1>4. Len(EmptyNet.pipeline) = 0 /\ MaxPendingWrites \in Nat
  BY <1>1, WritesType
<1>5. StreamOK(EmptyNet)
  BY <1>1 DEF StreamOK, IsStarted
<1> QED BY <1>1, <1>2, <1>3, <1>4, <1>5 DEF NetOK

\* A killed process leaves its mutation queues as they were, or without the
\* oldest batch of the user.
LEMMA LeftBehindQueues ==
    ASSUME TypeOK, QueueInv, NetOK(net, queue[user]), LeftBehind
    PROVE  /\ \/ queue' = queue
              \/ /\ Hears("refused") /\ UNCHANGED ended
                 /\ queue[user] # <<>>
                 /\ queue' = [queue EXCEPT ![user] = Tail(queue[user])]
           /\ queue' \in [Users -> Seq(Batch)]
           /\ \A u \in Users : Sorted(queue'[u])
           /\ \E bound \in Nat : \A u \in Users : \A i \in DOMAIN queue'[u] :
                 queue'[u][i].id <= bound
           /\ ended' \in [Writes -> {"none", "ok", "failed"}]
<1>1. CASE queue' = queue
  <2>1. ended' \in [Writes -> {"none", "ok", "failed"}]
    BY ToldType, TypesAre DEF LeftBehind
  <2> QED BY <1>1, <2>1, TypesAre DEF QueueInv
<1>2. CASE /\ Hears("refused") /\ UNCHANGED ended
           /\ RemoveBatch(Head(net.pipeline).id)
  <2> DEFINE q == queue[user]
             t == Tail(q)
  <2>1. /\ q \in Seq(Batch) /\ q # <<>> /\ queue' = [queue EXCEPT ![user] = t]
        /\ ended \in [Writes -> {"none", "ok", "failed"}]
        /\ user \in Users /\ queue \in [Users -> Seq(Batch)]
    BY <1>2, RemoveBatchIs, TypesAre DEF Hears
  <2>2. /\ t \in Seq(Batch) /\ Sorted(t)
        /\ \A i \in 1..Len(t) : i + 1 \in 1..Len(q) /\ t[i] = q[i + 1]
    BY <2>1, TailSorted, TailAt DEF QueueInv
  <2>3. PICK bound \in Nat : \A u \in Users : \A i \in DOMAIN queue[u] :
                                queue[u][i].id <= bound
    BY DEF QueueInv
  <2>4. \A i \in DOMAIN t : t[i].id <= bound
    BY <2>1, <2>2, <2>3
  <2> HIDE DEF t
  <2>5. queue'[user] = t /\ \A u \in Users : u # user => queue'[u] = queue[u]
    BY <2>1
  <2>6. queue' \in [Users -> Seq(Batch)]
    BY <2>1, <2>2
  <2>7. \A u \in Users : Sorted(queue'[u])
    BY <2>2, <2>5 DEF QueueInv
  <2>8. \A u \in Users : \A i \in DOMAIN queue'[u] : queue'[u][i].id <= bound
    BY <2>3, <2>4, <2>5
  <2> QED BY <1>2, <2>1, <2>6, <2>7, <2>8 DEF t
<1> QED BY <1>1, <1>2 DEF LeftBehind

\* A killed process asks for a token at most, for its first stream.
LEMMA CrashNet ==
    ASSUME TypeOK, QueueInv, NetOK(net, queue[user]), NEW u \in Users, Crash(u)
    PROVE  /\ QueueInv' /\ NetInv' /\ nextId' \in Nat \ {0}
           /\ net'.closes = 0 /\ net'.token = NoUser /\ ~net'.handshake
           /\ net'.down = <<>>
           /\ net'.asked \subseteq {Ask(0)}
           /\ net'.asked # {} => net'.state = "starting"
<1> DEFINE left == queue'
<1>1. /\ user' = u /\ nextId' = FreshId(left) /\ LeftBehind
      /\ net' = Fill(EmptyNet, left[u]) /\ applied' = applied
  BY DEF Crash
<1>2. /\ left \in [Users -> Seq(Batch)]
      /\ \A v \in Users : Sorted(left[v])
      /\ \E bound \in Nat : \A v \in Users : \A i \in DOMAIN left[v] :
            left[v][i].id <= bound
  BY <1>1, LeftBehindQueues
<1>3. /\ left[u] \in Seq(Batch) /\ Sorted(left[u]) /\ counter \in Nat
      /\ MaxPendingWrites \in Nat
  BY <1>2, TypesAre, WritesType
<1> HIDE DEF left
<1>4. /\ NetOK(EmptyNet, left[u]) /\ EmptyNet.closes = 0
      /\ EmptyNet.token = NoUser /\ EmptyNet.asked = {}
      /\ ~EmptyNet.handshake /\ EmptyNet.down = <<>>
  BY <1>3, EmptyNetOK
<1>6. /\ NetOK(net', left[u]) /\ Moves(EmptyNet, net')
      /\ net'.closes = 0 /\ net'.token = NoUser /\ net'.down = <<>>
      /\ net'.handshake = EmptyNet.handshake
  BY <1>1, <1>3, <1>4, FillNetOK
<1>7. NetInv'
  BY <1>1, <1>4, <1>6, SilentMatches DEF NetInv, left
<1>8. /\ FreshId(left) \in Nat \ {0}
      /\ \A v \in Users : \A i \in DOMAIN left[v] : left[v][i].id < FreshId(left)
  BY <1>2, FreshIdIs
<1>9. QueueInv'
  BY <1>1, <1>2, <1>8 DEF QueueInv, left
<1>10. /\ net'.asked \subseteq {Ask(0)}
       /\ net'.asked # {} => net'.state = "starting"
  BY <1>4, <1>6 DEF Moves
<1> QED BY <1>1, <1>4, <1>6, <1>7, <1>8, <1>9, <1>10

\* The process begins anew.
LEMMA CrashWire ==
    ASSUME WireInv, NEW u \in Users, Crash(u)
    PROVE  WireInv'
<1>1. /\ TypeOK /\ worker' = <<>> /\ user' = u /\ Trouble
      /\ callbacks' = [v \in Users |-> {}]
      /\ \/ main' = <<>>
         \/ main' = <<[task |-> "notice", user |-> authUser]>>
      /\ UNCHANGED <<authUser, counter, applied, calls>>
  BY DEF WireInv, Crash
<1>0. TypeOK /\ QueueInv /\ NetOK(net, queue[user])
  BY DEF WireInv, NetInv
<1>2. /\ QueueInv' /\ NetInv' /\ nextId' \in Nat \ {0}
      /\ net'.closes = 0 /\ net'.token = NoUser
      /\ net'.asked \subseteq {Ask(0)}
      /\ net'.asked # {} => net'.state = "starting"
  BY <1>0, CrashNet
<1>10. /\ queue' \in [Users -> Seq(Batch)]
       /\ ended' \in [Writes -> {"none", "ok", "failed"}]
  BY <1>0, LeftBehindQueues DEF Crash
<1>3. /\ main' \in Seq(MainTask)
      /\ \A i \in 1..Len(main') : main'[i].task # "token"
  <2>1. [task |-> "notice", user |-> authUser] \in MainTask
    BY <1>1, TypesAre DEF MainTask
  <2>2. CASE main' = <<>>
    BY <2>2, EmptySeq
  <2>3. CASE main' = <<[task |-> "notice", user |-> authUser]>>
    <3>1. \A i \in 1..1 : main'[i].task # "token"
      BY <2>3
    <3>2. Len(main') = 1 /\ main' \in Seq(MainTask)
      BY <2>1, <2>3
    <3> QED BY <3>1, <3>2
  <2> QED BY <1>1, <2>2, <2>3
<1>4. worker' \in Seq(WorkerTask) /\ Len(worker') = 0
  BY <1>1
<1>5. TypeOK'
  BY <1>1, <1>2, <1>3, <1>4, <1>10, TypesAre, TypesHold, TroubleType
<1>6. /\ Ask(0).counter = counter /\ Ask(0).closes = 0 /\ counter \in Nat
      /\ counter' = counter
  BY <1>1, TypesAre DEF Ask
<1>7. CountsInv'
  BY <1>2, <1>3, <1>4, <1>6 DEF CountsInv
<1>8. MainNow' = {} /\ WorkerNow' = {} /\ AskedNow' \subseteq net'.asked
  BY <1>3, <1>4 DEF MainNow, WorkerNow, AskedNow
<1>9. OneToken'
  BY <1>2, <1>8 DEF OneToken
<1> QED BY <1>2, <1>5, <1>7, <1>9 DEF WireInv

\* It holds in the beginning,
LEMMA InitWire ==
    ASSUME Init
    PROVE  WireInv
<1>1. /\ authUser \in Users /\ main = <<>> /\ counter = 0 /\ worker = <<>>
      /\ user = authUser /\ queue = [u \in Users |-> <<>>] /\ nextId = 1
      /\ callbacks = [u \in Users |-> {}] /\ net = EmptyNet /\ applied = <<>>
      /\ ended = [w \in Writes |-> "none"] /\ calls = 0 /\ troubles = 0
  BY DEF Init
<1>2. queue[user] = <<>> /\ <<>> \in Seq(Batch)
  BY <1>1, EmptySeq
<1>3. NetOK(net, queue[user]) /\ net.asked = {} /\ ~net.handshake
  BY <1>1, <1>2, EmptyNetOK
<1>4. NetInv
  BY <1>3, SilentMatches DEF NetInv
<1>5. TypeOK
  <2>1. net \in Net
    BY <1>3 DEF NetOK
  <2>2. /\ main \in Seq(MainTask) /\ worker \in Seq(WorkerTask)
        /\ applied \in Seq([write : Writes, by : Users])
        /\ queue \in [Users -> Seq(Batch)]
    BY <1>1, <1>2, EmptySeq
  <2>3. MaxWrites \in Nat /\ MaxTroubles \in Nat
    BY PipelineBoundsAssumption
  <2> QED BY <1>1, <2>1, <2>2, <2>3 DEF TypeOK, MainTask, WorkerTask
<1>6. QueueInv
  <2>1. \A u \in Users : queue[u] = <<>> /\ DOMAIN queue[u] = {}
    BY <1>1
  <2>2. 0 \in Nat
    OBVIOUS
  <2> QED BY <1>1, <2>1, <2>2 DEF QueueInv, Sorted
<1>7. Len(main) = 0 /\ Len(worker) = 0
  BY <1>1
<1>8. CountsInv
  BY <1>3, <1>7 DEF CountsInv
<1>9. OneToken
  <2>1. AskedNow = {} /\ MainNow = {} /\ WorkerNow = {}
    BY <1>3, <1>7 DEF AskedNow, MainNow, WorkerNow
  <2> QED BY <2>1 DEF OneToken
<1> QED BY <1>4, <1>5, <1>6, <1>8, <1>9 DEF WireInv

\* every step keeps it,
LEMMA NextWire ==
    ASSUME WireInv, [Next]_vars
    PROVE  WireInv'
<1> USE WireBase
<1>1. CASE SetData
  BY <1>1, SetDataWire
<1>2. CASE \E u \in Users : ChangeUser(u) \/ Crash(u)
  BY <1>2, ChangeUserWire, CrashWire
<1>3. CASE FirAuth \/ \E r \in net.asked : AnswerToken(r, NoUser)
  BY <1>3, ReadUserWire, AnswerTokenWire DEF FirAuth
<1>4. CASE MainQueue
  BY <1>4, HandleNoticeWire, HandleTokenWire DEF MainQueue
<1>5. CASE WorkerQueue
  BY <1>5, WriteMutationsWire, HandleCredentialChangeWire, ResumeWithTokenWire
     DEF WorkerQueue
<1>6. CASE Stream
  <2>1. CASE OpenStream
    BY <2>1, OpenStreamNet, OnlyNetWire DEF OpenStream
  <2>2. CASE HandshakeComplete
    BY <2>2, HandshakeCompleteNet, OnlyNetWire DEF HandshakeComplete
  <2>3. CASE MutationResult \/ WriteRefused
    BY <2>3, AnsweredWire
  <2>4. CASE BackoffElapses
    BY <2>4, BackoffElapsesNet, OnlyNetWire DEF BackoffElapses
  <2> QED BY <1>6, <2>1, <2>2, <2>3, <2>4 DEF Stream
<1>7. CASE Server
  <2>1. CASE Greet
    BY <2>1, GreetNet, OnlyNetWire DEF Greet
  <2>2. ASSUME NEW w \in Writes, RefuseWrite(w)
        PROVE  WireInv'
    BY <2>2, RefuseWriteNet, OnlyNetWire DEF RefuseWrite
  <2> QED BY <1>7, <2>1, <2>2, ApplyWriteWire DEF Server
<1>8. CASE StreamFails \/ IdleTimeout \/ ConnectivityChange
  <2>1. /\ OnlyNet /\ (Trouble \/ UNCHANGED troubles)
        /\ \/ net' = Break(net)
           \/ net.idle /\ net' = Close(net, "initial")
           \/ net' = Restart(net, queue[user])
    BY <1>8 DEF StreamFails, IdleTimeout, ConnectivityChange
  <2>2. QueueInv' /\ NetInv' /\ Moves(net, net')
    BY <2>1, ClosedNet DEF OnlyNet
  <2> QED BY <2>1, <2>2, OnlyNetWire
<1>9. CASE UNCHANGED vars
  <2>1. OnlyNet /\ UNCHANGED troubles /\ net' = net
    BY <1>9 DEF vars, OnlyNet
  <2>2. QueueInv' /\ NetInv' /\ Moves(net, net')
    BY <2>1, NothingSent, MovesNot DEF OnlyNet
  <2> QED BY <2>1, <2>2, OnlyNetWire
<1> QED BY <1>1, <1>2, <1>3, <1>4, <1>5, <1>6, <1>7, <1>8, <1>9 DEF Next

\* and so it holds.
LEMMA WireHolds == Spec => []WireInv
<1>1. Init => WireInv
  BY InitWire
<1>2. WireInv /\ [Next]_vars => WireInv'
  BY NextWire
<1> QED BY <1>1, <1>2, PTL DEF Spec

\* The types of everything, whatever the number of users and of writes.
THEOREM TypeCorrect == Spec => []TypeOK
<1>1. WireInv => TypeOK
  BY DEF WireInv
<1> QED BY <1>1, WireHolds, PTL

-----------------------------------------------------------------------------
(* What follows for the code's assertions and the answers *)

\* How many answers confirm, and whether one refuses, counted.
Tally(d, x) == Cardinality({i \in DOMAIN d : d[i] = x})

\* Counted, the answers are what Oks and Refuses say.
LEMMA CountIs ==
    ASSUME NEW n \in Net, StreamOK(n)
    PROVE  /\ n.handshake =>
                /\ Tally(n.down, "ok") = Oks(n.down)
                /\ Tally(n.down, "refused") = 0 <=> ~Refuses(n.down)
           /\ ~n.handshake => Tally(n.down, "ok") = 0
<1> DEFINE d == n.down
           oks == {i \in DOMAIN d : d[i] = "ok"}
           refusals == {i \in DOMAIN d : d[i] = "refused"}
<1>1. /\ d \in Seq({"hello", "ok", "refused"}) /\ Len(d) \in Nat
      /\ DOMAIN d = 1..Len(d)
      /\ d # <<>> <=> Len(d) # 0
  <2>1. d \in Seq({"hello", "ok", "refused"})
    BY NetFields
  <2> HIDE DEF d
  <2> QED BY <2>1, EmptySeq
<1>2. /\ Tally(d, "ok") = Cardinality(oks)
      /\ Tally(d, "refused") = Cardinality(refusals)
  BY DEF Tally
<1>3. ASSUME n.handshake
      PROVE  /\ Tally(d, "ok") = Oks(d)
             /\ Tally(d, "refused") = 0 <=> ~Refuses(d)
  <2>1. /\ \A i \in 1..Len(d) : d[i] \in {"ok", "refused"}
        /\ \A i \in 1..(Len(d) - 1) : d[i] = "ok"
    BY <1>3 DEF StreamOK
  <2> HIDE DEF d
  <2>2. CASE Refuses(d)
    <3>1. d[Len(d)] = "refused" /\ Len(d) \in 1..Len(d)
      BY <1>1, <2>2 DEF Refuses
    <3>2. oks = 1..(Len(d) - 1)
      BY <1>1, <2>1, <3>1
    <3>3. Cardinality(oks) = Len(d) - 1
      <4> DEFINE m == Len(d) - 1
      <4>1. m \in Nat /\ oks = 1..m
        BY <1>1, <3>1, <3>2
      <4> HIDE DEF oks, m
      <4>2. Cardinality(1..m) = m
        BY <4>1, FS_Interval
      <4> QED BY <4>1, <4>2 DEF m
    <3>4. refusals = {Len(d)}
      BY <1>1, <2>1, <3>1
    <3>5. Cardinality(refusals) = 1
      BY <3>4, FS_Singleton
    <3> QED BY <1>2, <2>2, <3>3, <3>5 DEF Oks
  <2>3. CASE ~Refuses(d)
    <3>1. \A i \in 1..Len(d) : d[i] = "ok"
      <4>1. ASSUME NEW i \in 1..Len(d), i = Len(d)
            PROVE  d[i] = "ok"
        BY <1>1, <2>1, <2>3, <4>1 DEF Refuses
      <4>2. Len(d) \in Nat
        BY <1>1
      <4>3. \A i \in 1..Len(d) : i = Len(d) \/ i \in 1..(Len(d) - 1)
        BY <4>2
      <4> QED BY <2>1, <4>1, <4>3
    <3>2. oks = 1..Len(d)
      BY <1>1, <3>1
    <3>3. Cardinality(oks) = Len(d)
      <4> DEFINE m == Len(d)
      <4>1. m \in Nat /\ oks = 1..m
        BY <1>1, <3>2
      <4> HIDE DEF oks, m
      <4>2. Cardinality(1..m) = m
        BY <4>1, FS_Interval
      <4> QED BY <4>1, <4>2 DEF m
    <3>4. refusals = {}
      BY <1>1, <3>1
    <3>5. Cardinality(refusals) = 0
      BY <3>4, FS_EmptySet
    <3> QED BY <1>2, <2>3, <3>3, <3>5 DEF Oks
  <2> QED BY <2>2, <2>3
<1>4. ASSUME ~n.handshake
      PROVE  Tally(d, "ok") = 0
  <2>1. d = <<>> \/ d = <<"hello">>
    BY <1>4 DEF StreamOK
  <2> HIDE DEF d
  <2>2. \A i \in 1..Len(d) : d[i] = "hello"
    BY <2>1
  <2>3. oks = {}
    BY <1>1, <2>2
  <2>4. Cardinality(oks) = 0
    BY <2>3, FS_EmptySet
  <2> QED BY <1>2, <2>4
<1> QED BY <1>3, <1>4

\* The assertions in the code of the streams and of the sync engine never
\* fail: a token that is still wanted finds the stream starting, no answer
\* finds the pipeline empty or its batch gone from the queue on disk, and only
\* a stream with nothing to send times out.
THEOREM Assertions == Spec => []AssertionsHold
<1>1. ASSUME WireInv
      PROVE  AssertionsHold
  <2>1. /\ TypeOK /\ net \in Net /\ StreamOK(net) /\ NetOK(net, queue[user])
        /\ Matches(net, applied) /\ net.pipeline \in Seq(Batch)
        /\ net.down \in Seq({"hello", "ok", "refused"})
        /\ queue[user] \in Seq(Batch)
    BY <1>1, WireBase, BaseFacts DEF WireInv
  <2>2. ASSUME worker # <<>>, Head(worker).op = "token",
               Head(worker).closes = net.closes
        PROVE  net.state = "starting" /\ net.token = NoUser
    <3>1. Head(worker) = worker[1] /\ 1 \in 1..Len(worker)
      BY <2>1, <2>2, TypesAre, TailAt
    <3>2. 1 \in WorkerNow
      BY <2>2, <3>1 DEF WorkerNow
    <3> QED BY <1>1, <3>2 DEF WireInv, OneToken
  <2>3. ASSUME net.down # <<>>, Head(net.down) \in {"ok", "refused"}
        PROVE  /\ net.pipeline # <<>>
               /\ \E i \in DOMAIN queue[user] : queue[user][i] = net.pipeline[1]
    <3>1. Head(net.down) = net.down[1] /\ 1 \in 1..Len(net.down)
          /\ Len(net.down) \in Nat
      BY <2>1, <2>3, TailAt
    <3>2. net.handshake
      <4>1. ~net.handshake => net.down = <<>> \/ net.down = <<"hello">>
        BY <2>1 DEF StreamOK
      <4>2. <<"hello">>[1] = "hello"
        OBVIOUS
      <4> QED BY <2>3, <3>1, <4>1, <4>2
    <3>3. Refuses(net.down) \/ Oks(net.down) > 0
      BY <3>1 DEF Oks
    <3>4. Len(net.pipeline) > 0
      <4>1. Oks(net.down) \in Nat /\ Len(net.pipeline) \in Nat
        BY <2>1, <3>1 DEF Oks
      <4> QED BY <2>1, <3>2, <3>3, <4>1 DEF Matches
    <3>5. /\ net.pipeline # <<>> /\ 1 \in 1..Len(net.pipeline)
          /\ 1 \in 1..Len(queue[user])
      <4>1. Len(net.pipeline) \in Nat /\ Len(queue[user]) \in Nat
        BY <2>1
      <4> QED BY <2>1, <3>4, <4>1 DEF NetOK, IsPrefixOf
    <3>6. queue[user][1] = net.pipeline[1] /\ 1 \in DOMAIN queue[user]
      BY <2>1, <3>5 DEF NetOK, IsPrefixOf
    <3> QED BY <3>5, <3>6
  <2>4. net.idle => net.state = "open" /\ net.pipeline = <<>>
    BY <2>1 DEF StreamOK
  <2> QED BY <2>2, <2>3, <2>4 DEF AssertionsHold
<1> QED BY <1>1, WireHolds, PTL

\* Answers are taken for the write they are about, although they do not name
\* it: what was applied and not yet reported, followed by what the server has
\* yet to handle, is the pipeline.
THEOREM Answers == Spec => []AnswersMatch
<1>1. ASSUME WireInv
      PROVE  AnswersMatch
  <2> DEFINE n == Count("ok")
             done == SubSeq(applied, Len(applied) - n + 1, Len(applied))
             p == net.pipeline
  <2> SUFFICES ASSUME net.handshake
               PROVE  /\ n <= Len(applied)
                      /\ IF Count("refused") = 0
                         THEN [i \in 1..n |-> done[i].write] \o net.up
                              = WritesOf(p)
                         ELSE /\ n < Len(p)
                              /\ \A i \in 1..n : done[i].write = p[i].write
    BY DEF AnswersMatch
  <2>1. /\ net \in Net /\ StreamOK(net) /\ Matches(net, applied)
        /\ p \in Seq(Batch) /\ net.down \in Seq({"hello", "ok", "refused"})
        /\ applied \in Seq([write : Writes, by : Users])
    BY <1>1, WireBase, BaseFacts
  <2>2. net.up \in Seq(Writes)
    BY <2>1 DEF StreamOK
  <2>3. n = Oks(net.down) /\ (Count("refused") = 0 <=> ~Refuses(net.down))
    BY <2>1, CountIs DEF Count, Tally
  <2>4. /\ n \in Nat /\ Len(applied) \in Nat /\ Len(p) \in Nat
        /\ Len(net.up) \in Nat
    <3>1. Len(net.down) \in Nat /\ (net.down # <<>> => Len(net.down) # 0)
      BY <2>1
    <3> QED BY <2>1, <2>2, <2>3, <3>1 DEF Oks, Refuses
  <2> HIDE DEF n, p
  <2>5. /\ n <= Len(applied) /\ n <= Len(p)
        /\ \A i \in 1..n : applied[Len(applied) - n + i].write = p[i].write
        /\ IF Refuses(net.down) THEN n < Len(p)
           ELSE /\ Len(net.up) = Len(p) - n
                /\ \A i \in 1..Len(net.up) : net.up[i] = p[n + i].write
    BY <2>1, <2>3 DEF Matches, p
  <2>6. \A i \in 1..n : done[i] = applied[Len(applied) - n + i]
    <3>1. \A i \in (Len(applied) - n + 1)..Len(applied) :
             applied[i] \in [write : Writes, by : Users]
      <4>1. \A i \in (Len(applied) - n + 1)..Len(applied) :
               i \in 1..Len(applied)
        BY <2>4, <2>5
      <4> QED BY <2>1, <4>1, ElementOfSeq
    <3>2. \A i \in 1..(Len(applied) - (Len(applied) - n + 1) + 1) :
             done[i] = applied[Len(applied) - n + 1 + i - 1]
      BY <2>4, <3>1, SubSeqProperties
    <3> HIDE DEF done
    <3>3. \A i \in 1..n :
             /\ i \in 1..(Len(applied) - (Len(applied) - n + 1) + 1)
             /\ Len(applied) - n + 1 + i - 1 = Len(applied) - n + i
      BY <2>4
    <3> QED BY <3>2, <3>3
  <2> HIDE DEF done
  <2>7. \A i \in 1..n : done[i].write = p[i].write /\ p[i].write \in Writes
    <3>1. \A i \in 1..n : i \in 1..Len(p)
      BY <2>4, <2>5
    <3>2. \A i \in 1..Len(p) : p[i].write \in Writes
      BY <2>1, BatchFields DEF p
    <3> QED BY <2>5, <2>6, <3>1, <3>2
  <2>8. ASSUME ~Refuses(net.down)
        PROVE  [i \in 1..n |-> done[i].write] \o net.up = WritesOf(p)
    <3> DEFINE s == [i \in 1..n |-> done[i].write]
    <3>1. s \in Seq(Writes) /\ Len(s) = n /\ \A i \in 1..n : s[i] = p[i].write
      BY <2>4, <2>7
    <3> HIDE DEF s
    <3>2. /\ s \o net.up \in Seq(Writes)
          /\ Len(s \o net.up) = n + Len(net.up)
          /\ \A i \in 1..(n + Len(net.up)) : (s \o net.up)[i] =
                IF i <= n THEN s[i] ELSE net.up[i - n]
      BY <2>2, <3>1, ConcatProperties
    <3>3. /\ WritesOf(p) \in Seq(Writes) /\ Len(WritesOf(p)) = Len(p)
          /\ \A i \in 1..Len(p) : WritesOf(p)[i] = p[i].write
      BY <2>1, WritesOfIs DEF p
    <3>4. n + Len(net.up) = Len(p)
      BY <2>4, <2>5, <2>8
    <3>5. ASSUME NEW i \in 1..Len(p)
          PROVE  (s \o net.up)[i] = WritesOf(p)[i]
      <4>1. CASE i <= n
        <5>1. i \in 1..n
          BY <2>4, <4>1
        <5> QED BY <3>1, <3>2, <3>3, <3>4, <4>1, <5>1
      <4>2. CASE ~(i <= n)
        <5>1. i - n \in 1..Len(net.up) /\ n + (i - n) = i
          BY <2>4, <3>4, <4>2
        <5>2. net.up[i - n] = p[i].write
          BY <2>5, <2>8, <5>1
        <5> QED BY <3>2, <3>3, <3>4, <4>2, <5>2
      <4> QED BY <4>1, <4>2
    <3>6. s \o net.up = WritesOf(p)
      BY <3>2, <3>3, <3>4, <3>5, SeqEqual
    <3> QED BY <3>6 DEF s
  <2> QED BY <2>3, <2>5, <2>7, <2>8
<1> QED BY <1>1, WireHolds, PTL

-----------------------------------------------------------------------------
(***************************************************************************)
(* That the write pipeline tells the app the truth, and that it implements *)
(* Delivery, for every number of users, writes and troubles.               *)
(*                                                                         *)
(* The inductive invariant is PipelineInv, which adds to WireInv:          *)
(*                                                                         *)
(* UserInv: the stream never has the token of another user than the one    *)
(* whose queue it sends.  FIRAuth's user, the notices in the main queue,   *)
(* the worker queue and the engine's user are four places that agree only  *)
(* in the end; what holds always is that whoever reads them in the order   *)
(* in which they will be read finds the last user last, and that an answer *)
(* with the counter of now was read when no notice was on its way.         *)
(*                                                                         *)
(* WriteInv and CallbackInv: a write is in one place, and a callback       *)
(* stands for a batch that waits, although ids are used again.             *)
(***************************************************************************)

-----------------------------------------------------------------------------
(* Whose token the stream has *)

\* None of the first n tasks tells of a user.
NoUserOp(w, n) == \A i \in 1..n : w[i].op # "user"
NoNotice(n) == \A i \in 1..n : main[i].task # "notice"

\* When worker queue w is worked off by an engine whose user is known, its user
\* is u.
HeardBy(w, known, u) ==
    /\ NoUserOp(w, Len(w)) => known = u
    /\ \A i \in 1..Len(w) :
          w[i].op = "user" /\ (\A j \in (i + 1)..Len(w) : w[j].op # "user")
          => w[i].user = u

\* The engine has heard of the current user, or will, or there is a notice.
NoticesInv ==
    /\ NoNotice(Len(main)) => HeardBy(worker, user, authUser)
    /\ \A i \in 1..Len(main) :
          /\ main[i].task = "notice"
          /\ \A j \in (i + 1)..Len(main) : main[j].task # "notice"
          => main[i].user = authUser

\* An answer that will be taken is about the current user, if no notice of
\* another is on its way; in the main queue, with no notice before it, it is
\* about the user the engine will have by then.
AnswersInv ==
    /\ \A r \in net.asked :
          r.counter = counter /\ r.read # NoUser /\ NoNotice(Len(main))
          => r.read = authUser
    /\ \A i \in 1..Len(main) :
          /\ main[i].task = "token" /\ main[i].counter = counter
          /\ main[i].user # NoUser /\ NoNotice(i)
          => HeardBy(worker, user, main[i].user)

\* So is a token in the worker queue that will be taken, and the stream's.
TokensInv ==
    /\ \A i \in WorkerNow :
          worker[i].user # NoUser /\ NoUserOp(worker, i)
          => worker[i].user = user
    /\ net.token \in {NoUser, user}

UserInv == NoticesInv /\ AnswersInv /\ TokensInv

\* A task joins the worker queue.
LEMMA HeardAppend ==
    ASSUME NEW w \in Seq(WorkerTask), NEW e \in WorkerTask, NEW known, NEW u
    PROVE  /\ e.op # "user" /\ HeardBy(w, known, u)
              => HeardBy(Append(w, e), known, u)
           /\ e.op = "user" => HeardBy(Append(w, e), known, e.user)
<1> DEFINE a == Append(w, e)
<1>1. /\ a \in Seq(WorkerTask) /\ Len(a) = Len(w) + 1 /\ Len(w) \in Nat
      /\ a[Len(w) + 1] = e
      /\ \A i \in 1..Len(w) : a[i] = w[i]
      /\ \A i \in 1..Len(a) : i = Len(w) + 1 \/ i \in 1..Len(w)
  BY AppendAt
<1> HIDE DEF a
<1>2. ASSUME e.op # "user", HeardBy(w, known, u)
      PROVE  HeardBy(a, known, u)
  <2>1. NoUserOp(a, Len(a)) => NoUserOp(w, Len(w))
    BY <1>1 DEF NoUserOp
  <2>2. ASSUME NEW i \in 1..Len(a), a[i].op = "user",
               \A j \in (i + 1)..Len(a) : a[j].op # "user"
        PROVE  a[i].user = u
    <3>1. i \in 1..Len(w) /\ a[i] = w[i]
      BY <1>1, <1>2, <2>2
    <3>2. \A j \in (i + 1)..Len(w) : w[j].op # "user"
      <4>1. \A j \in (i + 1)..Len(w) : j \in 1..Len(w) /\ j \in (i + 1)..Len(a)
        BY <1>1, <3>1
      <4> QED BY <1>1, <2>2, <4>1
    <3> QED BY <1>2, <2>2, <3>1, <3>2 DEF HeardBy
  <2> QED BY <1>2, <2>1, <2>2 DEF HeardBy
<1>3. ASSUME e.op = "user"
      PROVE  HeardBy(a, known, e.user)
  <2>1. Len(a) \in 1..Len(a) /\ a[Len(a)] = e
    BY <1>1
  <2>2. ~NoUserOp(a, Len(a))
    BY <1>3, <2>1 DEF NoUserOp
  <2>3. ASSUME NEW i \in 1..Len(a), a[i].op = "user",
               \A j \in (i + 1)..Len(a) : a[j].op # "user"
        PROVE  a[i].user = e.user
    <3>1. i = Len(a)
      <4>1. i # Len(a) => Len(a) \in (i + 1)..Len(a)
        BY <1>1
      <4> QED BY <1>3, <2>1, <2>3, <4>1
    <3> QED BY <2>1, <3>1
  <2> QED BY <2>2, <2>3 DEF HeardBy
<1> QED BY <1>2, <1>3 DEF a

\* A task leaves the worker queue.
LEMMA HeardTail ==
    ASSUME NEW w \in Seq(WorkerTask), w # <<>>, NEW known, NEW u,
           HeardBy(w, known, u)
    PROVE  /\ Head(w).op # "user" => HeardBy(Tail(w), known, u)
           /\ Head(w).op = "user" => HeardBy(Tail(w), Head(w).user, u)
<1> DEFINE t == Tail(w)
           h == Head(w)
<1>1. /\ h = w[1] /\ 1 \in 1..Len(w) /\ t \in Seq(WorkerTask)
      /\ Len(t) = Len(w) - 1 /\ Len(w) \in Nat /\ Len(t) \in Nat
      /\ \A i \in 1..Len(t) : i + 1 \in 1..Len(w) /\ t[i] = w[i + 1]
  BY TailAt
<1> HIDE DEF t, h
<1>2. ASSUME NEW i \in 1..Len(t), t[i].op = "user",
             \A j \in (i + 1)..Len(t) : t[j].op # "user"
      PROVE  t[i].user = u
  <2>1. ASSUME NEW j \in (i + 2)..Len(w)
        PROVE  w[j].op # "user"
    <3>1. j - 1 \in (i + 1)..Len(t) /\ j - 1 \in 1..Len(t) /\ (j - 1) + 1 = j
      BY <1>1
    <3> QED BY <1>1, <1>2, <3>1
  <2>2. i + 1 \in 1..Len(w) /\ t[i] = w[i + 1] /\ (i + 1) + 1 = i + 2
    BY <1>1
  <2> QED BY <1>2, <2>1, <2>2 DEF HeardBy
<1>3. ASSUME NoUserOp(t, Len(t))
      PROVE  \A i \in 1..Len(w) : i # 1 => w[i].op # "user"
  <2>1. ASSUME NEW i \in 1..Len(w), i # 1
        PROVE  w[i].op # "user"
    <3>1. i - 1 \in 1..Len(t) /\ (i - 1) + 1 = i
      BY <1>1, <2>1
    <3>2. t[i - 1] = w[i]
      BY <1>1, <3>1
    <3> QED BY <1>3, <3>1, <3>2 DEF NoUserOp
  <2> QED BY <2>1
<1>4. ASSUME h.op # "user", NoUserOp(t, Len(t))
      PROVE  known = u
  <2>1. NoUserOp(w, Len(w))
    BY <1>1, <1>3, <1>4 DEF NoUserOp
  <2> QED BY <2>1 DEF HeardBy
<1>5. ASSUME h.op = "user", NoUserOp(t, Len(t))
      PROVE  h.user = u
  <2>1. \A j \in 2..Len(w) : w[j].op # "user"
    <3>1. \A j \in 2..Len(w) : j \in 1..Len(w) /\ j # 1
      BY <1>1
    <3> QED BY <1>3, <1>5, <3>1
  <2>2. 1 + 1 = 2
    OBVIOUS
  <2> QED BY <1>1, <1>5, <2>1, <2>2 DEF HeardBy
<1> QED BY <1>2, <1>4, <1>5 DEF HeardBy, t, h

\* What is done to the stream makes no token of it: those that will be taken
\* from the worker queue are those that would have been, k places further on.
LEMMA TokensKept ==
    ASSUME WireInv, TokensInv, Moves(net, net'), user' = user,
           NEW k \in {0, 1}, KeptWorker(k),
           \A n \in 1..Len(worker') :
              NoUserOp(worker', n) => NoUserOp(worker, n + k)
    PROVE  TokensInv'
<1>1. TypeOK /\ net.closes \in Nat /\ CountsInv /\ user \in Users
  BY TypesAre, NetFields DEF WireInv
<1>2. ASSUME NEW i \in WorkerNow'
      PROVE  /\ i \in 1..Len(worker') /\ i + k \in WorkerNow
             /\ worker'[i] = worker[i + k]
  <2>1. /\ i \in 1..Len(worker') /\ worker'[i].op = "token"
        /\ worker'[i].closes = net'.closes
    BY DEF WorkerNow
  <2>2. i + k \in 1..Len(worker) /\ worker'[i] = worker[i + k]
    BY <2>1 DEF KeptWorker
  <2>3. worker[i + k].closes <= net.closes /\ worker[i + k].closes \in Nat
    <3>1. worker[i + k] \in WorkerTask
      BY <1>1, <2>2, TypesAre, ElementOfSeq
    <3> QED BY <1>1, <2>1, <2>2, <3>1, TaskFields DEF CountsInv
  <2>4. net'.closes = net.closes
    BY <1>1, <2>1, <2>2, <2>3 DEF Moves
  <2> QED BY <2>1, <2>2, <2>4 DEF WorkerNow
<1>3. ASSUME NEW i \in WorkerNow', worker'[i].user # NoUser,
             NoUserOp(worker', i)
      PROVE  worker'[i].user = user'
  <2>1. NoUserOp(worker, i + k)
    BY <1>2, <1>3
  <2> QED BY <1>2, <1>3, <2>1 DEF TokensInv
<1>4. net'.token \in {NoUser, user'}
  BY DEF Moves, TokensInv
<1> QED BY <1>3, <1>4 DEF TokensInv

\* The queues FIRAuth and the provider do not touch: what was to be heard is
\* still to be heard.
LEMMA NothingHeard ==
    ASSUME UserInv, UNCHANGED <<authUser, main, counter>>,
           \A u : HeardBy(worker, user, u) => HeardBy(worker', user', u),
           \A r \in net'.asked : r \in net.asked \/ r.read = NoUser
    PROVE  NoticesInv' /\ AnswersInv'
BY DEF UserInv, NoticesInv, AnswersInv, NoNotice

\* An action of the stream or of the server.
LEMMA StreamUser ==
    ASSUME WireInv, UserInv,
           UNCHANGED <<authUser, main, counter, worker, user>>,
           Moves(net, net')
    PROVE  UserInv'
<1>1. TypeOK
  BY DEF WireInv
<1>2. \A r \in net'.asked : r \in net.asked \/ r.read = NoUser
  BY DEF Moves, Ask
<1>3. NoticesInv' /\ AnswersInv'
  BY <1>2, NothingHeard
<1>4. KeptWorker(0)
  BY <1>1, KeepWorker
<1>5. \A n \in 1..Len(worker') : n + 0 = n
  BY <1>1, QueueTypes
<1>6. TokensInv'
  BY <1>4, <1>5, TokensKept DEF UserInv
<1> QED BY <1>3, <1>6 DEF UserInv

\* What is left of a queue begins later.
LEMMA NoOpTail ==
    ASSUME NEW w \in Seq(WorkerTask), w # <<>>, Head(w).op # "user",
           NEW n \in 1..Len(Tail(w)), NoUserOp(Tail(w), n)
    PROVE  NoUserOp(w, n + 1)
<1> DEFINE t == Tail(w)
<1>1. /\ Head(w) = w[1] /\ Len(t) = Len(w) - 1 /\ Len(w) \in Nat
      /\ \A i \in 1..Len(t) : i + 1 \in 1..Len(w) /\ t[i] = w[i + 1]
  BY TailAt
<1>2. n \in 1..Len(t) /\ \A i \in 1..n : t[i].op # "user"
  BY DEF NoUserOp
<1> HIDE DEF t
<1>3. ASSUME NEW i \in 1..(n + 1)
      PROVE  w[i].op # "user"
  <2>1. CASE i = 1
    BY <1>1, <2>1
  <2>2. CASE i # 1
    <3>1. i - 1 \in 1..n /\ i - 1 \in 1..Len(t) /\ (i - 1) + 1 = i
      BY <1>1, <1>2, <2>2
    <3>2. t[i - 1] = w[i]
      BY <1>1, <3>1
    <3> QED BY <1>2, <3>1, <3>2
  <2> QED BY <2>1, <2>2
<1> QED BY <1>3 DEF NoUserOp

\* One lemma per action: the app calls setData.
LEMMA SetDataUser ==
    ASSUME WireInv, UserInv, SetData
    PROVE  UserInv'
<1> DEFINE m == [op |-> "write", write |-> calls + 1]
<1>1. /\ TypeOK /\ calls < MaxWrites /\ worker' = Append(worker, m)
      /\ UNCHANGED <<authUser, main, counter, user, net>>
  BY DEF WireInv, SetData
<1>2. m \in WorkerTask /\ m.op = "write"
  <2>1. calls + 1 \in Writes
    BY <1>1, TypesAre, WritesType DEF Writes
  <2> QED BY <2>1 DEF WorkerTask
<1> HIDE DEF m
<1>3. /\ worker \in Seq(WorkerTask) /\ Len(worker) \in Nat
      /\ \A i \in 1..Len(worker) : worker'[i] = worker[i]
      /\ \A i \in 1..Len(worker') : i = Len(worker) + 1 \/ i \in 1..Len(worker)
      /\ worker'[Len(worker) + 1] = m
  BY <1>1, <1>2, TypesAre, AppendAt
<1>4. \A u : HeardBy(worker, user, u) => HeardBy(worker', user', u)
  BY <1>1, <1>2, <1>3, HeardAppend
<1>5. NoticesInv' /\ AnswersInv'
  BY <1>1, <1>4, NothingHeard
<1>6. ASSUME NEW i \in WorkerNow', worker'[i].user # NoUser,
             NoUserOp(worker', i)
      PROVE  worker'[i].user = user'
  <2>1. i \in 1..Len(worker) /\ i \in WorkerNow
    BY <1>1, <1>2, <1>3 DEF WorkerNow
  <2>2. \A j \in 1..i : j \in 1..Len(worker)
    BY <1>3, <2>1
  <2>3. NoUserOp(worker, i)
    BY <1>3, <1>6, <2>2 DEF NoUserOp
  <2> QED BY <1>1, <1>3, <1>6, <2>1, <2>3 DEF UserInv, TokensInv
<1>7. TokensInv'
  BY <1>1, <1>6 DEF UserInv, TokensInv
<1> QED BY <1>5, <1>7 DEF UserInv

\* A write is queued.
LEMMA WriteMutationsUser ==
    ASSUME WireInv, UserInv, WriteMutations
    PROVE  UserInv'
<1>1. /\ TypeOK /\ worker # <<>> /\ Head(worker).op = "write"
      /\ worker' = Tail(worker)
      /\ UNCHANGED <<authUser, main, counter, user>>
  BY DEF WireInv, WriteMutations
<1>2. Moves(net, net')
  BY WireBase, WriteMutationsNet
<1>3. \A u : HeardBy(worker, user, u) => HeardBy(worker', user', u)
  BY <1>1, TypesAre, HeardTail
<1>4. \A r \in net'.asked : r \in net.asked \/ r.read = NoUser
  BY <1>2 DEF Moves, Ask
<1>5. NoticesInv' /\ AnswersInv'
  BY <1>1, <1>3, <1>4, NothingHeard
<1>6. /\ KeptWorker(1)
      /\ \A n \in 1..Len(worker') :
            NoUserOp(worker', n) => NoUserOp(worker, n + 1)
  BY <1>1, TypesAre, KeepWorker, NoOpTail
<1>7. TokensInv'
  BY <1>1, <1>2, <1>6, TokensKept DEF UserInv
<1> QED BY <1>5, <1>7 DEF UserInv

\* The engine changes its user: no token in the queue is for the stream that
\* is started then.
LEMMA HandleCredentialChangeUser ==
    ASSUME WireInv, UserInv, HandleCredentialChange
    PROVE  UserInv'
<1>1. /\ TypeOK /\ worker # <<>> /\ Head(worker).op = "user"
      /\ worker' = Tail(worker) /\ user' = Head(worker).user
      /\ UNCHANGED <<authUser, main, counter>>
  BY DEF WireInv, HandleCredentialChange
<1>2. /\ user' \in Users /\ Moves(net, net') /\ Closed(net, net')
  BY WireBase, HandleCredentialChangeNet
<1>3. \A u : HeardBy(worker, user, u) => HeardBy(worker', user', u)
  BY <1>1, TypesAre, HeardTail
<1>4. \A r \in net'.asked : r \in net.asked \/ r.read = NoUser
  BY <1>2 DEF Moves, Ask
<1>5. NoticesInv' /\ AnswersInv'
  BY <1>1, <1>3, <1>4, NothingHeard
<1>6. WorkerNow' = {}
  <2>1. KeptWorker(1)
    BY <1>1, KeepWorker
  <2>2. net.closes \in Nat /\ WorkerNow # {} => IsStarted(net)
    BY <1>1, TypesAre, NetFields DEF WireInv, OneToken, IsStarted
  <2>3. ASSUME NEW i \in WorkerNow'
        PROVE  FALSE
    <3>1. /\ i \in 1..Len(worker') /\ worker'[i].op = "token"
          /\ worker'[i].closes = net'.closes
      BY DEF WorkerNow
    <3>2. /\ i + 1 \in 1..Len(worker) /\ worker[i + 1].op = "token"
          /\ worker[i + 1].closes = net'.closes
      BY <2>1, <3>1 DEF KeptWorker
    <3>3. worker[i + 1].closes <= net.closes /\ net.closes \in Nat
      BY <1>1, <3>2, TypesAre, NetFields DEF WireInv, CountsInv
    <3>4. net'.closes = net.closes
      BY <1>2, <3>2, <3>3 DEF Moves
    <3>5. i + 1 \in WorkerNow
      BY <3>2, <3>4 DEF WorkerNow
    <3> QED BY <1>2, <2>2, <3>3, <3>4, <3>5 DEF Closed
  <2> QED BY <2>3
<1>7. TokensInv'
  BY <1>2, <1>6 DEF TokensInv, Closed
<1> QED BY <1>5, <1>7 DEF UserInv

\* The stream gets a token: it is its user's.
LEMMA ResumeWithTokenUser ==
    ASSUME WireInv, UserInv, ResumeWithToken
    PROVE  UserInv'
<1> DEFINE h == Head(worker)
<1>1. /\ TypeOK /\ worker # <<>> /\ h.op = "token" /\ worker' = Tail(worker)
      /\ UNCHANGED <<authUser, main, counter, user>>
  BY DEF WireInv, ResumeWithToken
<1>2. /\ h = worker[1] /\ 1 \in 1..Len(worker)
      /\ \A i \in 1..Len(worker') :
           i + 1 \in 1..Len(worker) /\ worker'[i] = worker[i + 1]
  BY <1>1, TypesAre, TailAt
<1>3. /\ \/ Moves(net, net')
         \/ /\ h.closes = net.closes /\ h.user \in Users
            /\ net'.token = h.user /\ net'.closes = net.closes
            /\ net'.asked = net.asked
  BY WireBase, ResumeWithTokenNet, MovesNot
<1>4. \A u : HeardBy(worker, user, u) => HeardBy(worker', user', u)
  BY <1>1, TypesAre, HeardTail
<1>5. \A r \in net'.asked : r \in net.asked \/ r.read = NoUser
  BY <1>3 DEF Moves, Ask
<1>6. NoticesInv' /\ AnswersInv'
  BY <1>1, <1>4, <1>5, NothingHeard
<1>7. CASE Moves(net, net')
  <2>1. /\ KeptWorker(1)
        /\ \A n \in 1..Len(worker') :
              NoUserOp(worker', n) => NoUserOp(worker, n + 1)
    BY <1>1, TypesAre, KeepWorker, NoOpTail
  <2>2. TokensInv'
    BY <1>1, <1>7, <2>1, TokensKept DEF UserInv
  <2> QED BY <1>6, <2>2 DEF UserInv
<1>8. CASE /\ h.closes = net.closes /\ h.user \in Users
           /\ net'.token = h.user /\ net'.closes = net.closes
  <2> HIDE DEF h
  <2>1. 1 \in WorkerNow
    BY <1>1, <1>2, <1>8 DEF WorkerNow
  <2>2. \A i \in WorkerNow : i = 1
    BY <2>1 DEF WireInv, OneToken
  <2>3. NoUserOp(worker, 1) /\ h.user # NoUser
    BY <1>1, <1>2, <1>8, WritesType DEF NoUserOp
  <2>4. h.user = user
    BY <1>2, <2>1, <2>3 DEF UserInv, TokensInv
  <2>5. \A i \in WorkerNow' : i + 1 \in WorkerNow /\ i \in Nat \ {0}
    BY <1>2, <1>8 DEF WorkerNow
  <2>6. WorkerNow' = {}
    BY <2>2, <2>5
  <2>7. TokensInv'
    BY <1>1, <1>8, <2>4, <2>6 DEF TokensInv
  <2> QED BY <1>6, <2>7 DEF UserInv
<1> QED BY <1>3, <1>7, <1>8

\* Another user, or the same again: there is a notice of it.
LEMMA ChangeUserUser ==
    ASSUME WireInv, UserInv, NEW u \in Users, ChangeUser(u)
    PROVE  UserInv'
<1> DEFINE m == [task |-> "notice", user |-> u]
<1>1. /\ TypeOK /\ authUser' = u /\ main' = Append(main, m)
      /\ UNCHANGED <<counter, worker, user, net>>
  BY DEF WireInv, ChangeUser
<1>2. m \in MainTask /\ m.task = "notice" /\ m.user = u
  BY DEF MainTask
<1> HIDE DEF m
<1>3. /\ Len(main) \in Nat /\ Len(main') = Len(main) + 1
      /\ \A i \in 1..Len(main) : main'[i] = main[i]
      /\ \A i \in 1..Len(main') : i = Len(main) + 1 \/ i \in 1..Len(main)
      /\ main'[Len(main) + 1] = m
  BY <1>1, <1>2, TypesAre, AppendAt
<1>4. Len(main) + 1 \in 1..Len(main') /\ ~NoNotice(Len(main))'
  <2>1. Len(main) + 1 \in 1..Len(main')
    BY <1>3
  <2> QED BY <1>2, <1>3, <2>1 DEF NoNotice
<1>5. NoticesInv'
  <2>1. ASSUME NEW i \in 1..Len(main'), main'[i].task = "notice",
               \A j \in (i + 1)..Len(main') : main'[j].task # "notice"
        PROVE  main'[i].user = authUser'
    <3>1. i # Len(main) + 1 => Len(main) + 1 \in (i + 1)..Len(main')
      BY <1>3
    <3> QED BY <1>1, <1>2, <1>3, <2>1, <3>1
  <2> QED BY <1>4, <2>1 DEF NoticesInv
<1>6. AnswersInv'
  <2>1. ASSUME NEW i \in 1..Len(main'), main'[i].task = "token",
               main'[i].counter = counter', main'[i].user # NoUser,
               NoNotice(i)'
        PROVE  HeardBy(worker', user', main'[i].user)
    <3>1. i \in 1..Len(main) /\ main'[i] = main[i]
      BY <1>2, <1>3, <2>1
    <3>2. \A j \in 1..i : j \in 1..Len(main)
      BY <1>3, <3>1
    <3>3. NoNotice(i)
      BY <1>3, <2>1, <3>2 DEF NoNotice
    <3> QED BY <1>1, <2>1, <3>1, <3>3 DEF UserInv, AnswersInv
  <2> QED BY <1>4, <2>1 DEF AnswersInv
<1>7. TokensInv'
  BY <1>1 DEF UserInv, TokensInv, WorkerNow
<1> QED BY <1>5, <1>6, <1>7 DEF UserInv

\* The provider comes to a notice: whatever was asked for before is not wanted
\* any more.
LEMMA HandleNoticeUser ==
    ASSUME WireInv, UserInv, HandleNotice
    PROVE  UserInv'
<1> DEFINE m == [op |-> "user", user |-> Head(main).user]
<1>1. /\ TypeOK /\ main # <<>> /\ Head(main).task = "notice"
      /\ main' = Tail(main) /\ counter' = counter + 1
      /\ worker' = Append(worker, m)
      /\ UNCHANGED <<authUser, user, net>>
  BY DEF WireInv, HandleNotice
<1>2. /\ Head(main) = main[1] /\ Head(main) \in MainTask /\ 1 \in 1..Len(main)
      /\ Len(main') = Len(main) - 1 /\ Len(main) \in Nat
      /\ \A i \in 1..Len(main') :
            i + 1 \in 1..Len(main) /\ main'[i] = main[i + 1]
  BY <1>1, TypesAre, TailAt
<1>3. m \in WorkerTask /\ m.op = "user" /\ m.user = main[1].user
  BY <1>1, <1>2, TaskFields DEF WorkerTask
<1> HIDE DEF m
<1>4. counter \in Nat
  BY <1>1, TypesAre
<1>5. AnswersInv'
  <2>1. \A r \in net'.asked : r.counter \in Nat /\ r.counter # counter'
    BY <1>1, <1>4, RequestFields DEF WireInv, CountsInv
  <2>2. ASSUME NEW i \in 1..Len(main'), main'[i].task = "token"
        PROVE  main'[i].counter # counter'
    <3>1. main[i + 1] \in MainTask /\ main[i + 1].task = "token"
      BY <1>1, <1>2, <2>2, TypesAre, ElementOfSeq
    <3>2. main[i + 1].counter \in Nat /\ main[i + 1].counter <= counter
      BY <1>2, <3>1, TaskFields DEF WireInv, CountsInv
    <3> QED BY <1>1, <1>2, <1>4, <3>2
  <2> QED BY <2>1, <2>2 DEF AnswersInv
<1>6. HeardBy(worker', user', m.user)
  BY <1>1, <1>3, TypesAre, HeardAppend
<1>7. ASSUME NoNotice(Len(main))'
      PROVE  m.user = authUser
  <2>1. ASSUME NEW j \in 2..Len(main)
        PROVE  main[j].task # "notice"
    <3>1. j - 1 \in 1..Len(main') /\ (j - 1) + 1 = j
      BY <1>2
    <3>2. main'[j - 1] = main[j]
      BY <1>2, <3>1
    <3> QED BY <1>7, <3>1, <3>2 DEF NoNotice
  <2>2. 1 + 1 = 2
    OBVIOUS
  <2> QED BY <1>1, <1>2, <1>3, <2>1, <2>2 DEF UserInv, NoticesInv
<1>8. ASSUME NEW i \in 1..Len(main'), main'[i].task = "notice",
             \A j \in (i + 1)..Len(main') : main'[j].task # "notice"
      PROVE  main'[i].user = authUser'
  <2>1. ASSUME NEW j \in (i + 1 + 1)..Len(main)
        PROVE  main[j].task # "notice"
    <3>1. j - 1 \in (i + 1)..Len(main') /\ j - 1 \in 1..Len(main')
          /\ (j - 1) + 1 = j
      BY <1>2
    <3>2. main'[j - 1] = main[j]
      BY <1>2, <3>1
    <3> QED BY <1>8, <3>1, <3>2
  <2> QED BY <1>1, <1>2, <1>8, <2>1 DEF UserInv, NoticesInv
<1>9. NoticesInv'
  BY <1>1, <1>6, <1>7, <1>8 DEF NoticesInv
<1>10. TokensInv'
  <2>1. /\ Len(worker) \in Nat
        /\ \A i \in 1..Len(worker) : worker'[i] = worker[i]
        /\ \A i \in 1..Len(worker') :
              i = Len(worker) + 1 \/ i \in 1..Len(worker)
        /\ worker'[Len(worker) + 1] = m
    BY <1>1, <1>3, TypesAre, AppendAt
  <2>2. ASSUME NEW i \in WorkerNow', worker'[i].user # NoUser,
               NoUserOp(worker', i)
        PROVE  worker'[i].user = user'
    <3>1. i \in 1..Len(worker) /\ i \in WorkerNow
      BY <1>1, <1>3, <2>1 DEF WorkerNow
    <3>2. \A j \in 1..i : j \in 1..Len(worker)
      BY <2>1, <3>1
    <3>3. NoUserOp(worker, i)
      BY <2>1, <2>2, <3>2 DEF NoUserOp
    <3> QED BY <1>1, <2>1, <2>2, <3>1, <3>3 DEF UserInv, TokensInv
  <2> QED BY <1>1, <2>2 DEF UserInv, TokensInv
<1> QED BY <1>5, <1>9, <1>10 DEF UserInv

\* FIRAuth looks at its user, who is the current one.
LEMMA ReadUserUser ==
    ASSUME WireInv, UserInv, NEW r \in net.asked, ReadUser(r)
    PROVE  UserInv'
<1> DEFINE s == [r EXCEPT !.read = authUser]
           asked == (net.asked \ {r}) \cup {s}
<1>1. /\ TypeOK /\ net' = [net EXCEPT !.asked = asked]
      /\ UNCHANGED <<authUser, main, counter, worker, user>>
  BY DEF WireInv, ReadUser
<1>2. r \in Request /\ net \in Net
  BY <1>1, RequestFields, TypesAre
<1>3. s.read = authUser
  BY <1>2 DEF Request
<1> HIDE DEF s
<1>4. \A t \in asked : t = s \/ t \in net.asked
  OBVIOUS
<1> HIDE DEF asked
<1>5. net'.asked = asked /\ net'.closes = net.closes /\ net'.token = net.token
  BY <1>1, <1>2 DEF Net
<1>6. NoticesInv'
  BY <1>1 DEF UserInv, NoticesInv, NoNotice
<1>7. AnswersInv'
  BY <1>1, <1>3, <1>4, <1>5 DEF UserInv, AnswersInv, NoNotice
<1>8. TokensInv'
  BY <1>1, <1>5 DEF UserInv, TokensInv, WorkerNow
<1> QED BY <1>6, <1>7, <1>8 DEF UserInv

\* FIRAuth answers: if it is with a user, it is with the one it read.
LEMMA AnswerTokenUser ==
    ASSUME WireInv, UserInv, NEW r \in net.asked, NEW token,
           AnswerToken(r, token)
    PROVE  UserInv'
<1> DEFINE m == [task |-> "token", user |-> token,
                 counter |-> r.counter, closes |-> r.closes]
           asked == net.asked \ {r}
<1>1. /\ TypeOK /\ net' = [net EXCEPT !.asked = asked]
      /\ main' = Append(main, m)
      /\ r.read # NoUser /\ (token = r.read \/ token = NoUser)
      /\ UNCHANGED <<authUser, counter, worker, user>>
  BY DEF WireInv, AnswerToken
<1>2. /\ net \in Net /\ r.counter \in Nat /\ r.closes \in Nat
      /\ token \in Users \cup {NoUser}
  BY <1>1, TypesAre, RequestFields
<1>3. /\ m \in MainTask /\ m.task = "token" /\ m.user = token
      /\ m.counter = r.counter
  BY <1>2 DEF MainTask
<1> HIDE DEF m
<1>4. net'.asked = asked /\ net'.closes = net.closes /\ net'.token = net.token
  BY <1>1, <1>2 DEF Net
<1>5. /\ Len(main) \in Nat /\ Len(main') = Len(main) + 1
      /\ \A i \in 1..Len(main) : main'[i] = main[i]
      /\ \A i \in 1..Len(main') : i = Len(main) + 1 \/ i \in 1..Len(main)
      /\ main'[Len(main) + 1] = m
  BY <1>1, <1>3, TypesAre, AppendAt
<1>6. NoNotice(Len(main))' => NoNotice(Len(main))
  <2>1. \A i \in 1..Len(main) : i \in 1..Len(main')
    BY <1>5
  <2> QED BY <1>5, <2>1 DEF NoNotice
<1>7. NoticesInv'
  <2>1. ASSUME NEW i \in 1..Len(main'), main'[i].task = "notice",
               \A j \in (i + 1)..Len(main') : main'[j].task # "notice"
        PROVE  main'[i].user = authUser'
    <3>1. i \in 1..Len(main) /\ main'[i] = main[i]
      BY <1>3, <1>5, <2>1
    <3>2. \A j \in (i + 1)..Len(main) :
             j \in 1..Len(main) /\ j \in (i + 1)..Len(main')
      BY <1>5, <3>1
    <3>3. \A j \in (i + 1)..Len(main) : main[j].task # "notice"
      BY <1>5, <2>1, <3>2
    <3> QED BY <1>1, <2>1, <3>1, <3>3 DEF UserInv, NoticesInv
  <2> QED BY <1>1, <1>6, <2>1 DEF UserInv, NoticesInv
<1>8. AnswersInv'
  <2>1. ASSUME NEW i \in 1..Len(main'), main'[i].task = "token",
               main'[i].counter = counter', main'[i].user # NoUser,
               NoNotice(i)'
        PROVE  HeardBy(worker', user', main'[i].user)
    <3>1. CASE i \in 1..Len(main)
      <4>1. \A j \in 1..i : j \in 1..Len(main)
        BY <1>5, <3>1
      <4>2. NoNotice(i)
        BY <1>5, <2>1, <4>1 DEF NoNotice
      <4> QED BY <1>1, <1>5, <2>1, <3>1, <4>2 DEF UserInv, AnswersInv
    <3>2. CASE i = Len(main) + 1
      <4>1. NoNotice(Len(main))
        BY <1>5, <1>6, <2>1, <3>2
      <4>2. m.user = r.read /\ r.counter = counter
        BY <1>1, <1>3, <1>5, <2>1, <3>2
      <4>3. r.read = authUser
        BY <1>1, <4>1, <4>2 DEF UserInv, AnswersInv
      <4>4. HeardBy(worker, user, authUser)
        BY <4>1 DEF UserInv, NoticesInv
      <4> QED BY <1>1, <1>5, <3>2, <4>2, <4>3, <4>4
    <3> QED BY <1>5, <3>1, <3>2
  <2>2. \A t \in asked : t \in net.asked
    OBVIOUS
  <2> QED BY <1>1, <1>4, <1>6, <2>1, <2>2 DEF UserInv, AnswersInv
<1>9. TokensInv'
  BY <1>1, <1>4 DEF UserInv, TokensInv, WorkerNow
<1> QED BY <1>7, <1>8, <1>9 DEF UserInv

\* The provider comes to an answer that it takes: the engine will have the
\* answer's user when it comes to it.
LEMMA HandleTokenUser ==
    ASSUME WireInv, UserInv, HandleToken
    PROVE  UserInv'
<1> DEFINE h == Head(main)
           m == [op |-> "token", user |-> h.user, closes |-> h.closes]
           asked == net.asked \cup {Ask(h.closes)}
<1>1. /\ TypeOK /\ main # <<>> /\ h.task = "token" /\ main' = Tail(main)
      /\ UNCHANGED <<authUser, counter, user>>
  BY DEF WireInv, HandleToken
<1>2. /\ h = main[1] /\ h \in MainTask /\ 1 \in 1..Len(main)
      /\ Len(main') = Len(main) - 1 /\ Len(main) \in Nat
      /\ \A i \in 1..Len(main') :
           i + 1 \in 1..Len(main) /\ main'[i] = main[i + 1]
  BY <1>1, TypesAre, TailAt
<1>3. \/ /\ h.counter = counter /\ worker' = Append(worker, m) /\ net' = net
      \/ worker' = worker /\ net' = AskForToken(net, h.closes)
  BY DEF HandleToken
<1>4. m \in WorkerTask /\ m.op = "token" /\ m.user = h.user
  BY <1>1, <1>2, TaskFields DEF WorkerTask
<1>5. net' = AskForToken(net, h.closes) =>
        net'.asked = asked /\ net'.closes = net.closes /\ net'.token = net.token
  <2>1. net \in Net
    BY <1>1, TypesAre
  <2> QED BY <2>1 DEF AskForToken, Ask, Net
<1>6. Ask(h.closes).read = NoUser
  BY DEF Ask
<1> HIDE DEF h, m
<1>7. \A r \in net'.asked : r \in net.asked \/ r.read = NoUser
  BY <1>3, <1>5, <1>6
<1>8. \A u : HeardBy(worker, user, u) => HeardBy(worker', user', u)
  BY <1>1, <1>3, <1>4, TypesAre, HeardAppend
<1>9. ASSUME NEW n \in 0..Len(main'), NoNotice(n)'
      PROVE  NoNotice(n + 1)
  <2>1. ASSUME NEW i \in 1..(n + 1)
        PROVE  main[i].task # "notice"
    <3>1. CASE i = 1
      BY <1>1, <1>2, <3>1
    <3>2. CASE i # 1
      <4>1. i - 1 \in 1..n /\ i - 1 \in 1..Len(main') /\ (i - 1) + 1 = i
        BY <1>2, <1>9, <3>2
      <4>2. main'[i - 1] = main[i]
        BY <1>2, <4>1
      <4> QED BY <1>9, <4>1, <4>2 DEF NoNotice
    <3> QED BY <3>1, <3>2
  <2> QED BY <2>1 DEF NoNotice
<1>10. NoNotice(Len(main))' => NoNotice(Len(main))
  <2>1. Len(main') \in 0..Len(main') /\ Len(main') + 1 = Len(main)
    BY <1>2
  <2>2. NoNotice(Len(main))' => NoNotice(Len(main') + 1)
    BY <1>9, <2>1 DEF NoNotice
  <2> QED BY <2>1, <2>2
<1>11. NoticesInv'
  <2>1. ASSUME NEW i \in 1..Len(main'), main'[i].task = "notice",
               \A j \in (i + 1)..Len(main') : main'[j].task # "notice"
        PROVE  main'[i].user = authUser'
    <3>1. ASSUME NEW j \in (i + 1 + 1)..Len(main)
          PROVE  main[j].task # "notice"
      <4>1. j - 1 \in (i + 1)..Len(main') /\ j - 1 \in 1..Len(main')
            /\ (j - 1) + 1 = j
        BY <1>2
      <4>2. main'[j - 1] = main[j]
        BY <1>2, <4>1
      <4> QED BY <2>1, <4>1, <4>2
    <3> QED BY <1>1, <1>2, <2>1, <3>1 DEF UserInv, NoticesInv
  <2> QED BY <1>1, <1>8, <1>10, <2>1 DEF UserInv, NoticesInv
<1>12. AnswersInv'
  <2>1. ASSUME NEW i \in 1..Len(main'), main'[i].task = "token",
               main'[i].counter = counter', main'[i].user # NoUser,
               NoNotice(i)'
        PROVE  HeardBy(worker', user', main'[i].user)
    <3>1. i \in 0..Len(main') /\ i + 1 \in 1..Len(main) /\ main'[i] = main[i + 1]
      BY <1>2
    <3>2. NoNotice(i + 1)
      BY <1>9, <2>1, <3>1
    <3> QED BY <1>1, <1>8, <2>1, <3>1, <3>2 DEF UserInv, AnswersInv
  <2> QED BY <1>1, <1>7, <1>10, <2>1 DEF UserInv, AnswersInv
<1>13. CASE worker' = worker /\ net' = AskForToken(net, h.closes)
  <2>1. TokensInv'
    BY <1>1, <1>5, <1>13 DEF UserInv, TokensInv, WorkerNow
  <2> QED BY <1>11, <1>12, <2>1 DEF UserInv
<1>14. CASE h.counter = counter /\ worker' = Append(worker, m) /\ net' = net
  <2>1. /\ Len(worker) \in Nat
        /\ \A i \in 1..Len(worker) : worker'[i] = worker[i]
        /\ \A i \in 1..Len(worker') :
              i = Len(worker) + 1 \/ i \in 1..Len(worker)
        /\ worker'[Len(worker) + 1] = m
    BY <1>1, <1>4, <1>14, TypesAre, AppendAt
  <2>2. ASSUME NEW i \in WorkerNow', worker'[i].user # NoUser,
               NoUserOp(worker', i)
        PROVE  worker'[i].user = user'
    <3>1. i \in 1..Len(worker')
      BY DEF WorkerNow
    <3>2. CASE i \in 1..Len(worker)
      <4>1. i \in WorkerNow
        BY <1>14, <2>1, <3>2 DEF WorkerNow
      <4>2. \A j \in 1..i : j \in 1..Len(worker)
        BY <2>1, <3>2
      <4>3. NoUserOp(worker, i)
        BY <2>1, <2>2, <4>2 DEF NoUserOp
      <4> QED BY <1>1, <2>1, <2>2, <3>2, <4>1, <4>3 DEF UserInv, TokensInv
    <3>3. CASE i = Len(worker) + 1
      <4>1. main[1].user # NoUser /\ worker'[i].user = main[1].user
        BY <1>2, <1>4, <2>1, <2>2, <3>3
      <4>2. NoNotice(1)
        BY <1>1, <1>2 DEF NoNotice
      <4>3. HeardBy(worker, user, main[1].user)
        BY <1>1, <1>2, <1>14, <4>1, <4>2 DEF UserInv, AnswersInv
      <4>4. \A j \in 1..Len(worker) : j \in 1..i
        BY <2>1, <3>3
      <4>5. NoUserOp(worker, Len(worker))
        BY <2>1, <2>2, <4>4 DEF NoUserOp
      <4> QED BY <1>1, <4>1, <4>3, <4>5 DEF HeardBy
    <3> QED BY <2>1, <3>1, <3>2, <3>3
  <2>3. TokensInv'
    BY <1>1, <1>14, <2>2 DEF UserInv, TokensInv
  <2> QED BY <1>11, <1>12, <2>3 DEF UserInv
<1> QED BY <1>3, <1>13, <1>14

\* The process begins anew: nothing of the user before is left.
LEMMA CrashUser ==
    ASSUME WireInv, NEW u \in Users, Crash(u)
    PROVE  UserInv'
<1>1. /\ TypeOK /\ QueueInv /\ NetOK(net, queue[user])
      /\ worker' = <<>> /\ user' = u
      /\ \/ main' = <<>> /\ u = authUser
         \/ main' = <<[task |-> "notice", user |-> authUser]>>
      /\ authUser' = authUser
  BY DEF WireInv, NetInv, Crash
<1>2. /\ net'.token = NoUser /\ net'.asked \subseteq {Ask(0)}
      /\ Ask(0).read = NoUser
  BY <1>1, CrashNet DEF Ask
<1>3. Len(worker') = 0 /\ WorkerNow' = {}
  BY <1>1 DEF WorkerNow
<1>4. CASE main' = <<>> /\ u = authUser
  <2>1. Len(main') = 0
    BY <1>4
  <2>2. NoticesInv'
    BY <1>1, <1>3, <1>4, <2>1 DEF NoticesInv, HeardBy
  <2>3. AnswersInv'
    BY <1>2, <2>1 DEF AnswersInv
  <2>4. TokensInv'
    BY <1>2, <1>3 DEF TokensInv
  <2> QED BY <2>2, <2>3, <2>4 DEF UserInv
<1>5. CASE main' = <<[task |-> "notice", user |-> authUser]>>
  <2>1. /\ Len(main') = 1 /\ main'[1].task = "notice"
        /\ main'[1].user = authUser
        /\ \A i \in 1..Len(main') : i = 1
    BY <1>5
  <2>2. ~NoNotice(Len(main))'
    BY <2>1 DEF NoNotice
  <2>3. NoticesInv'
    BY <1>1, <2>1, <2>2 DEF NoticesInv
  <2>4. AnswersInv'
    BY <1>2, <2>1 DEF AnswersInv
  <2>5. TokensInv'
    BY <1>2, <1>3 DEF TokensInv
  <2> QED BY <2>3, <2>4, <2>5 DEF UserInv
<1> QED BY <1>1, <1>4, <1>5

\* It holds in the beginning,
LEMMA InitUser ==
    ASSUME Init
    PROVE  UserInv
<1>1. /\ main = <<>> /\ worker = <<>> /\ user = authUser
      /\ net.asked = {} /\ net.token = NoUser
  BY DEF Init, EmptyNet
<1>2. Len(main) = 0 /\ Len(worker) = 0 /\ WorkerNow = {}
  BY <1>1 DEF WorkerNow
<1> QED BY <1>1, <1>2 DEF UserInv, NoticesInv, AnswersInv, TokensInv, HeardBy

\* and every step keeps it.
LEMMA NextUser ==
    ASSUME WireInv, UserInv, [Next]_vars
    PROVE  UserInv'
<1> USE WireBase
<1>1. CASE SetData
  BY <1>1, SetDataUser
<1>2. CASE \E u \in Users : ChangeUser(u) \/ Crash(u)
  BY <1>2, ChangeUserUser, CrashUser
<1>3. CASE FirAuth \/ \E r \in net.asked : AnswerToken(r, NoUser)
  BY <1>3, ReadUserUser, AnswerTokenUser DEF FirAuth
<1>4. CASE MainQueue
  BY <1>4, HandleNoticeUser, HandleTokenUser DEF MainQueue
<1>5. CASE WorkerQueue
  BY <1>5, WriteMutationsUser, HandleCredentialChangeUser, ResumeWithTokenUser
     DEF WorkerQueue
<1>6. CASE Stream
  <2>1. CASE OpenStream
    BY <2>1, OpenStreamNet, StreamUser DEF OpenStream, OnlyNet
  <2>2. CASE HandshakeComplete
    BY <2>2, HandshakeCompleteNet, StreamUser DEF HandshakeComplete, OnlyNet
  <2>3. CASE MutationResult
    BY <2>3, MutationResultNet, StreamUser DEF MutationResult
  <2>4. CASE WriteRefused
    BY <2>4, WriteRefusedNet, StreamUser DEF WriteRefused
  <2>5. CASE BackoffElapses
    BY <2>5, BackoffElapsesNet, StreamUser DEF BackoffElapses, OnlyNet
  <2> QED BY <1>6, <2>1, <2>2, <2>3, <2>4, <2>5 DEF Stream
<1>7. CASE Server
  <2>1. CASE Greet
    BY <2>1, GreetNet, StreamUser DEF Greet, OnlyNet
  <2>2. ASSUME NEW w \in Writes, RefuseWrite(w)
        PROVE  UserInv'
    BY <2>2, RefuseWriteNet, StreamUser DEF RefuseWrite, OnlyNet
  <2>3. ASSUME NEW w \in Writes, ApplyWrite(w)
        PROVE  UserInv'
    BY <2>3, ApplyWriteNet, StreamUser DEF ApplyWrite
  <2> QED BY <1>7, <2>1, <2>2, <2>3 DEF Server
<1>8. CASE StreamFails \/ IdleTimeout \/ ConnectivityChange
  <2>1. /\ OnlyNet
        /\ \/ net' = Break(net)
           \/ net.idle /\ net' = Close(net, "initial")
           \/ net' = Restart(net, queue[user])
    BY <1>8 DEF StreamFails, IdleTimeout, ConnectivityChange
  <2>2. Moves(net, net')
    BY <2>1, ClosedNet DEF OnlyNet
  <2> QED BY <2>1, <2>2, StreamUser DEF OnlyNet
<1>9. CASE UNCHANGED vars
  BY <1>9, MovesNot, StreamUser DEF vars
<1> QED BY <1>1, <1>2, <1>3, <1>4, <1>5, <1>6, <1>7, <1>8, <1>9 DEF Next

-----------------------------------------------------------------------------
(* What the app is told *)

\* A callback stands for a batch that waits.
CallbackInv == \A u \in Users : \A b \in callbacks[u] :
                   \E i \in DOMAIN queue[u] : queue[u][i] = b

\* A call of setData the worker has yet to see.
ToCome(w) == \E i \in 1..Len(worker) :
                 worker[i].op = "write" /\ worker[i].write = w

\* A write the engine has yet to see: nothing has become of it.
Fresh(w) ==
    /\ w <= calls /\ ended[w] = "none" /\ ~WasApplied(w)
    /\ \A u \in Users : \A i \in DOMAIN queue[u] : queue[u][i].write # w

\* What became of the batch at place i of user u's mutation queue: nothing, or
\* it was confirmed and the process killed before it left the disk.
KnownOf(u, i) ==
    ended[queue[u][i].write] # "none" =>
       /\ ended[queue[u][i].write] = "ok"
       /\ i = 1 /\ queue[u][i] \notin callbacks[u]

\* Every write is in one place: in the worker queue, or in one mutation queue
\* and not ended but for the oldest batch, or ended; and none was made twice.
WriteInv ==
    /\ \A w \in Writes : ToCome(w) => Fresh(w)
    /\ \A i, j \in 1..Len(worker) :
          /\ worker[i].op = "write" /\ worker[j].op = "write"
          /\ worker[i].write = worker[j].write
          => i = j
    /\ \A u \in Users : \A i \in DOMAIN queue[u] :
          queue[u][i].write <= calls /\ KnownOf(u, i)
    /\ \A u, v \in Users : \A i \in DOMAIN queue[u], j \in DOMAIN queue[v] :
          queue[u][i].write = queue[v][j].write => u = v /\ i = j
    /\ \A w \in Writes : w > calls => ended[w] = "none" /\ ~WasApplied(w)
    /\ \A w \in Writes : ended[w] = "ok" => WasApplied(w)

\* The writes in the worker queue are where they were, k places further on.
KeptWrites(k) ==
    \A i \in 1..Len(worker') : worker'[i].op = "write" =>
        i + k \in 1..Len(worker) /\ worker'[i] = worker[i + k]

\* What leaves the calls of setData under way alone.
LEMMA KeepWrites ==
    ASSUME TypeOK
    PROVE  /\ worker' = worker => KeptWrites(0)
           /\ \A m \in WorkerTask :
                 m.op # "write" /\ worker' = Append(worker, m) => KeptWrites(0)
           /\ worker # <<>> /\ worker' = Tail(worker) => KeptWrites(1)
<1>1. worker \in Seq(WorkerTask) /\ Len(worker) \in Nat
  BY QueueTypes
<1>2. ASSUME worker' = worker
      PROVE  KeptWrites(0)
  BY <1>1, <1>2 DEF KeptWrites
<1>3. ASSUME NEW m \in WorkerTask, m.op # "write", worker' = Append(worker, m)
      PROVE  KeptWrites(0)
  <2>1. /\ worker'[Len(worker) + 1] = m
        /\ \A i \in 1..Len(worker) : worker'[i] = worker[i]
        /\ \A i \in 1..Len(worker') :
              i = Len(worker) + 1 \/ i \in 1..Len(worker)
    BY <1>1, <1>3, AppendAt
  <2> QED BY <1>1, <1>3, <2>1 DEF KeptWrites
<1>4. ASSUME worker # <<>>, worker' = Tail(worker)
      PROVE  KeptWrites(1)
  <2>1. \A i \in 1..Len(worker') :
           i + 1 \in 1..Len(worker) /\ worker'[i] = worker[i + 1]
    BY <1>1, <1>4, TailAt
  <2> QED BY <2>1 DEF KeptWrites
<1> QED BY <1>2, <1>3, <1>4

\* Two calls of setData under way are of different writes.
LEMMA KeptApart ==
    ASSUME WriteInv, NEW k \in {0, 1}, KeptWrites(k)
    PROVE  \A i, j \in 1..Len(worker') :
              /\ worker'[i].op = "write" /\ worker'[j].op = "write"
              /\ worker'[i].write = worker'[j].write
              => i = j
<1> SUFFICES ASSUME NEW i \in 1..Len(worker'), NEW j \in 1..Len(worker'),
                    worker'[i].op = "write", worker'[j].op = "write",
                    worker'[i].write = worker'[j].write
             PROVE  i = j
  OBVIOUS
<1>1. /\ i + k \in 1..Len(worker) /\ worker'[i] = worker[i + k]
      /\ j + k \in 1..Len(worker) /\ worker'[j] = worker[j + k]
  BY DEF KeptWrites
<1>2. i + k = j + k
  BY <1>1 DEF WriteInv
<1> QED BY <1>2

\* Whoever does nothing about a write.
LEMMA WritesStay ==
    ASSUME WriteInv, CallbackInv,
           UNCHANGED <<queue, callbacks, applied, ended, calls>>,
           NEW k \in {0, 1}, KeptWrites(k)
    PROVE  WriteInv' /\ CallbackInv'
<1>1. /\ \A w : WasApplied(w)' <=> WasApplied(w)
      /\ \A w : Fresh(w)' <=> Fresh(w)
  BY DEF Fresh, WasApplied
<1>2. \A w \in Writes : ToCome(w)' => Fresh(w)'
  <2>1. \A w : ToCome(w)' => ToCome(w)
    BY DEF ToCome, KeptWrites
  <2> QED BY <1>1, <2>1 DEF WriteInv
<1>3. \A i, j \in 1..Len(worker') :
         /\ worker'[i].op = "write" /\ worker'[j].op = "write"
         /\ worker'[i].write = worker'[j].write
         => i = j
  BY KeptApart
<1>4. WriteInv'
  BY <1>1, <1>2, <1>3 DEF WriteInv, KnownOf
<1>5. CallbackInv'
  BY DEF CallbackInv
<1> QED BY <1>4, <1>5

\* The app makes a new write.
LEMMA SetDataWrites ==
    ASSUME WireInv, WriteInv, CallbackInv, SetData
    PROVE  WriteInv' /\ CallbackInv'
<1> DEFINE m == [op |-> "write", write |-> calls + 1]
<1>1. /\ TypeOK /\ calls < MaxWrites /\ calls' = calls + 1
      /\ worker' = Append(worker, m)
      /\ UNCHANGED <<user, queue, callbacks, applied, ended>>
  BY DEF WireInv, SetData
<1>2. calls + 1 \in Writes /\ calls \in Nat /\ calls + 1 > calls
  BY <1>1, TypesAre, WritesType DEF Writes
<1>3. m \in WorkerTask /\ m.op = "write" /\ m.write = calls + 1
  BY <1>2 DEF WorkerTask
<1> HIDE DEF m
<1>4. /\ Len(worker) \in Nat
      /\ \A i \in 1..Len(worker) : worker'[i] = worker[i]
      /\ \A i \in 1..Len(worker') : i = Len(worker) + 1 \/ i \in 1..Len(worker)
      /\ worker'[Len(worker) + 1] = m
  BY <1>1, <1>3, TypesAre, AppendAt
<1>5. \A w : WasApplied(w)' <=> WasApplied(w)
  BY <1>1 DEF WasApplied
<1>6. \A w \in Nat : w <= calls => w <= calls' /\ w # calls'
  BY <1>1, <1>2
<1>7. \A i \in 1..Len(worker) : worker[i].op = "write" =>
         worker[i].write \in Nat /\ worker[i].write <= calls
  <2>1. \A i \in 1..Len(worker) : worker[i].op = "write" =>
           worker[i].write \in Writes
    BY <1>1, TypesAre, ElementOfSeq, TaskFields
  <2>2. \A w \in Writes : ToCome(w) => w \in Nat /\ w <= calls
    BY WritesType DEF Writes, WriteInv, Fresh
  <2> QED BY <2>1, <2>2 DEF ToCome
<1>8. \A u \in Users : \A i \in DOMAIN queue[u] :
         queue[u][i].write \in Nat /\ queue[u][i].write <= calls
  <2>1. \A u \in Users : queue[u] \in Seq(Batch)
    BY <1>1, TypesAre
  <2>2. \A u \in Users : \A i \in DOMAIN queue[u] : queue[u][i].write \in Writes
    BY <2>1, BatchFields
  <2> QED BY <2>2, WritesType DEF Writes, WriteInv
<1>9. \A w : w \in Nat /\ Fresh(w) => Fresh(w)'
  BY <1>1, <1>5, <1>6 DEF Fresh
<1>10. ASSUME NEW w \in Writes, w = calls + 1
       PROVE  Fresh(w)'
  <2>1. ended[w] = "none" /\ ~WasApplied(w)
    BY <1>2, <1>10 DEF WriteInv
  <2>2. w <= calls'
    BY <1>1, <1>2, <1>10
  <2>3. \A u \in Users : \A i \in DOMAIN queue[u] : queue[u][i].write # w
    BY <1>1, <1>6, <1>8, <1>10
  <2> QED BY <1>1, <1>5, <2>1, <2>2, <2>3 DEF Fresh
<1>11. ASSUME NEW w \in Writes, ToCome(w)'
       PROVE  Fresh(w)'
  <2>1. ToCome(w) \/ w = calls + 1
    BY <1>3, <1>4, <1>11 DEF ToCome
  <2>2. w \in Nat
    BY WritesType DEF Writes
  <2> QED BY <1>9, <1>10, <2>1, <2>2 DEF WriteInv
<1>12. \A i, j \in 1..Len(worker') :
          /\ worker'[i].op = "write" /\ worker'[j].op = "write"
          /\ worker'[i].write = worker'[j].write
          => i = j
  BY <1>1, <1>3, <1>4, <1>6, <1>7 DEF WriteInv
<1>13. \A u \in Users : \A i \in DOMAIN queue[u] :
          queue[u][i].write <= calls' /\ KnownOf(u, i)
  BY <1>6, <1>8 DEF WriteInv
<1>14. \A w \in Writes : w > calls' => w > calls
  BY <1>1, <1>2, WritesType DEF Writes
<1>15. WriteInv'
  BY <1>1, <1>5, <1>11, <1>12, <1>13, <1>14 DEF WriteInv, KnownOf
<1>16. CallbackInv'
  BY <1>1 DEF CallbackInv
<1> QED BY <1>15, <1>16

\* A write comes to the mutation queue.
LEMMA WriteMutationsWrites ==
    ASSUME WireInv, WriteInv, CallbackInv, WriteMutations
    PROVE  WriteInv' /\ CallbackInv'
<1> DEFINE w == Head(worker).write
           b == [id |-> nextId, write |-> w]
           q == queue[user]
           r == Append(q, b)
<1>1. /\ TypeOK /\ worker # <<>> /\ Head(worker).op = "write"
      /\ worker' = Tail(worker)
      /\ UNCHANGED <<user, applied, ended, calls>>
      /\ queue' = [queue EXCEPT ![user] = r]
      /\ \/ callbacks' = callbacks
         \/ callbacks' = [callbacks EXCEPT ![user] = @ \cup {b}]
  BY DEF WireInv, WriteMutations
<1>2. /\ Head(worker) = worker[1] /\ Head(worker) \in WorkerTask
      /\ 1 \in 1..Len(worker)
      /\ \A i \in 1..Len(worker') :
            i + 1 \in 1..Len(worker) /\ worker'[i] = worker[i + 1]
  BY <1>1, TypesAre, TailAt
<1>3. w \in Writes /\ w = worker[1].write /\ worker[1].op = "write"
  BY <1>1, <1>2, TaskFields
<1> HIDE DEF w
<1>4. b \in Batch /\ b.write = w
  BY <1>1, <1>3, TypesAre DEF Batch
<1>5. /\ user \in Users /\ queue \in [Users -> Seq(Batch)]
      /\ callbacks \in [Users -> SUBSET Batch] /\ q \in Seq(Batch)
  BY <1>1, TypesAre
<1> HIDE DEF b, q
<1>6. /\ r \in Seq(Batch) /\ Len(r) = Len(q) + 1 /\ Len(q) \in Nat
      /\ r[Len(q) + 1] = b
      /\ \A i \in 1..Len(q) : r[i] = q[i]
      /\ \A i \in 1..Len(r) : i = Len(q) + 1 \/ i \in 1..Len(q)
  BY <1>4, <1>5, AppendAt
<1> HIDE DEF r
<1>7. /\ queue'[user] = r
      /\ \A u \in Users : u # user => queue'[u] = queue[u]
  BY <1>1, <1>5
<1>8. /\ DOMAIN q = 1..Len(q) /\ DOMAIN r = 1..Len(r)
      /\ Len(q) + 1 \in DOMAIN r /\ \A i \in DOMAIN q : i \in DOMAIN r
  BY <1>5, <1>6
\* What is in a queue now was there, or is the new batch.
<1>9. \A u \in Users : \A i \in DOMAIN queue'[u] :
         \/ i \in DOMAIN queue[u] /\ queue'[u][i] = queue[u][i]
         \/ u = user /\ i = Len(q) + 1 /\ queue'[u][i] = b
  BY <1>6, <1>7, <1>8 DEF q
<1>10. Fresh(w)
  BY <1>2, <1>3 DEF WriteInv, ToCome
<1>11. \A v : WasApplied(v)' <=> WasApplied(v)
  BY <1>1 DEF WasApplied
<1>12. \A v : v # w /\ Fresh(v) => Fresh(v)'
  BY <1>1, <1>4, <1>9, <1>11 DEF Fresh
<1>13. KeptWrites(1)
  BY <1>1, KeepWrites
<1>14. ASSUME NEW v \in Writes, ToCome(v)'
       PROVE  Fresh(v)'
  <2>1. PICK i \in 1..Len(worker') :
           worker'[i].op = "write" /\ worker'[i].write = v
    BY <1>14 DEF ToCome
  <2>2. i + 1 \in 1..Len(worker) /\ worker'[i] = worker[i + 1] /\ i + 1 # 1
    BY <1>2
  <2>3. v # w
    BY <1>2, <1>3, <2>1, <2>2 DEF WriteInv
  <2>4. ToCome(v)
    BY <2>1, <2>2 DEF ToCome
  <2> QED BY <1>12, <2>3, <2>4 DEF WriteInv
<1>15. \A i, j \in 1..Len(worker') :
          /\ worker'[i].op = "write" /\ worker'[j].op = "write"
          /\ worker'[i].write = worker'[j].write
          => i = j
  BY <1>13, KeptApart
<1>16. ASSUME NEW u \in Users, NEW i \in DOMAIN queue'[u]
       PROVE  queue'[u][i].write <= calls /\ KnownOf(u, i)'
  <2>1. CASE i \in DOMAIN queue[u] /\ queue'[u][i] = queue[u][i]
    <3>1. queue[u][i].write <= calls /\ KnownOf(u, i)
      BY <2>1 DEF WriteInv
    <3>2. queue[u][i].write # w
      BY <1>10, <2>1 DEF Fresh
    <3>3. queue[u][i] \notin callbacks[u] => queue[u][i] \notin callbacks'[u]
      BY <1>1, <1>4, <1>5, <3>2
    <3> QED BY <1>1, <2>1, <3>1, <3>3 DEF KnownOf
  <2>2. CASE u = user /\ i = Len(q) + 1 /\ queue'[u][i] = b
    BY <1>1, <1>4, <1>10, <2>2 DEF Fresh, KnownOf
  <2> QED BY <1>9, <2>1, <2>2
<1>17. ASSUME NEW u \in Users, NEW v \in Users,
              NEW i \in DOMAIN queue'[u], NEW j \in DOMAIN queue'[v],
              queue'[u][i].write = queue'[v][j].write
       PROVE  u = v /\ i = j
  BY <1>4, <1>9, <1>10, <1>17 DEF WriteInv, Fresh
<1>18. WriteInv'
  BY <1>1, <1>11, <1>14, <1>15, <1>16, <1>17 DEF WriteInv
<1>19. CallbackInv'
  <2>1. ASSUME NEW u \in Users, NEW c \in callbacks'[u]
        PROVE  \E i \in DOMAIN queue'[u] : queue'[u][i] = c
    <3>1. c \in callbacks[u] \/ (u = user /\ c = b)
      BY <1>1, <1>5
    <3>2. CASE c \in callbacks[u]
      <4>1. PICK i \in DOMAIN queue[u] : queue[u][i] = c
        BY <3>2 DEF CallbackInv
      <4>2. i \in DOMAIN queue'[u] /\ queue'[u][i] = queue[u][i]
        BY <1>6, <1>7, <1>8, <4>1 DEF q
      <4> QED BY <4>1, <4>2
    <3>3. CASE u = user /\ c = b
      BY <1>6, <1>7, <1>8, <3>3
    <3> QED BY <3>1, <3>2, <3>3
  <2> QED BY <2>1 DEF CallbackInv
<1> QED BY <1>18, <1>19

\* The end of the oldest batch: its callback is the one that is run, if any.
LEMMA EndBatchWrites ==
    ASSUME WireInv, WriteInv, CallbackInv, net.pipeline # <<>>,
           NEW result \in {"ok", "failed"},
           EndBatch(Head(net.pipeline).id, result),
           UNCHANGED <<user, worker, applied, calls>>,
           result = "ok" => WasApplied(net.pipeline[1].write)
    PROVE  WriteInv' /\ CallbackInv'
<1> DEFINE q == queue[user]
           t == Tail(q)
           id == net.pipeline[1].id
           first == net.pipeline[1].write
<1>1. /\ TypeOK /\ QueueInv /\ NetOK(net, queue[user])
      /\ user \in Users /\ queue \in [Users -> Seq(Batch)]
      /\ callbacks \in [Users -> SUBSET Batch]
      /\ ended \in [Writes -> {"none", "ok", "failed"}]
      /\ net.pipeline \in Seq(Batch)
  BY WireBase, BaseFacts, TypesAre DEF WireInv
<1>2. /\ q \in Seq(Batch) /\ q # <<>> /\ q[1] = net.pipeline[1]
      /\ Head(net.pipeline) = net.pipeline[1]
      /\ queue' = [queue EXCEPT ![user] = t]
  BY <1>1, RemoveBatchIs DEF EndBatch
<1>3. /\ t \in Seq(Batch) /\ Len(t) = Len(q) - 1 /\ Len(q) \in Nat
      /\ 1 \in 1..Len(q)
      /\ \A i \in 1..Len(t) : i + 1 \in 1..Len(q) /\ t[i] = q[i + 1]
  BY <1>2, TailAt
<1>4. Sorted(q)
  BY <1>1 DEF QueueInv
<1>5. q[1].id = id /\ q[1].write = first
  BY <1>2
<1>6. /\ ended' = [w \in Writes |->
             IF \E b \in callbacks[user] : b.id = id /\ b.write = w
             THEN result ELSE ended[w]]
      /\ callbacks' = [callbacks EXCEPT ![user] = {b \in @ : b.id # id}]
  BY <1>2 DEF EndBatch, NotifyUser, Told
<1> HIDE DEF t, q, id, first
<1>7. /\ queue'[user] = t
      /\ \A u \in Users : u # user => queue'[u] = queue[u]
      /\ DOMAIN t = 1..Len(t) /\ DOMAIN q = 1..Len(q)
  BY <1>1, <1>2, <1>3
\* The batch that has the id is the oldest one.
<1>8. ASSUME NEW i \in 1..Len(q), q[i].id = id
      PROVE  i = 1
  <2>1. i # 1 => 1 < i
    BY <1>3
  <2>2. q[i].id \in Nat /\ q[1].id \in Nat
    BY <1>2, <1>3, BatchFields
  <2>3. 1 < i => q[1].id < q[i].id
    BY <1>3, <1>4, <1>7 DEF Sorted
  <2> QED BY <1>5, <1>8, <2>1, <2>2, <2>3
<1>9. \A b \in callbacks[user] : b.id = id => b.write = first
  <2>1. ASSUME NEW b \in callbacks[user], b.id = id
        PROVE  b.write = first
    <3>1. PICK i \in DOMAIN q : q[i] = b
      BY <1>1 DEF CallbackInv, q
    <3>2. i = 1
      BY <1>7, <1>8, <2>1, <3>1
    <3> QED BY <1>5, <3>1, <3>2
  <2> QED BY <2>1
<1>10. /\ \A w \in Writes : w # first => ended'[w] = ended[w]
       /\ \A w \in Writes : ended'[w] \in {result, ended[w]}
  BY <1>6, <1>9
\* What is in a queue now was there, and is not the oldest.
<1>11. ASSUME NEW u \in Users, NEW i \in DOMAIN queue'[u]
       PROVE  \E j \in DOMAIN queue[u] :
                 /\ queue'[u][i] = queue[u][j] /\ queue[u][j].write # first
                 /\ j = IF u = user THEN i + 1 ELSE i
                 /\ i \in Nat
  <2>1. CASE u = user
    <3>1. i \in 1..Len(t) /\ i + 1 \in 1..Len(q) /\ t[i] = q[i + 1] /\ i + 1 # 1
          /\ i \in Nat
      BY <1>3, <1>7, <2>1
    <3>2. i + 1 \in DOMAIN queue[u] /\ 1 \in DOMAIN queue[user]
      BY <1>3, <1>7, <2>1, <3>1 DEF q
    <3>3. q[i + 1].write # q[1].write
      BY <1>1, <2>1, <3>1, <3>2 DEF WriteInv, q
    <3> QED BY <1>5, <1>7, <2>1, <3>1, <3>2, <3>3 DEF q
  <2>2. CASE u # user
    <3>1. i \in DOMAIN queue[u] /\ queue'[u][i] = queue[u][i]
      BY <1>7, <2>2
    <3>2. 1 \in DOMAIN queue[user]
      BY <1>3, <1>7 DEF q
    <3>3. queue[u][i].write # q[1].write
      BY <1>1, <2>2, <3>1, <3>2 DEF WriteInv, q
    <3>4. queue[u] \in Seq(Batch) /\ i \in Nat
      BY <1>1, <3>1
    <3> QED BY <1>5, <2>2, <3>1, <3>3, <3>4
  <2> QED BY <2>1, <2>2
<1>12. \A w : WasApplied(w)' <=> WasApplied(w)
  BY DEF WasApplied
<1>13. KeptWrites(0)
  BY <1>1, KeepWrites
<1>14. ASSUME NEW w \in Writes, ToCome(w)'
       PROVE  Fresh(w)'
  <2>1. ToCome(w)
    BY <1>14 DEF ToCome
  <2>2. Fresh(w)
    BY <2>1 DEF WriteInv
  <2>3. w # first
    <3>1. user \in Users /\ 1 \in DOMAIN queue[user]
      BY <1>1, <1>3, <1>7 DEF q
    <3>2. queue[user][1].write # w
      BY <2>2, <3>1 DEF Fresh
    <3> QED BY <1>5, <3>2 DEF q
  <2>4. \A u \in Users : \A i \in DOMAIN queue'[u] : queue'[u][i].write # w
    BY <1>11, <2>2 DEF Fresh
  <2> QED BY <1>10, <1>12, <2>2, <2>3, <2>4 DEF Fresh
<1>15. \A i, j \in 1..Len(worker') :
          /\ worker'[i].op = "write" /\ worker'[j].op = "write"
          /\ worker'[i].write = worker'[j].write
          => i = j
  BY <1>13, KeptApart
<1>16. ASSUME NEW u \in Users, NEW i \in DOMAIN queue'[u]
       PROVE  queue'[u][i].write <= calls' /\ KnownOf(u, i)'
  <2>1. PICK j \in DOMAIN queue[u] :
           /\ queue'[u][i] = queue[u][j] /\ queue[u][j].write # first
           /\ j = IF u = user THEN i + 1 ELSE i
           /\ i \in Nat
    BY <1>11
  <2>2. queue[u][j].write \in Writes
    <3>1. queue[u] \in Seq(Batch)
      BY <1>1
    <3> QED BY <3>1, BatchFields
  <2>3. queue[u][j].write <= calls /\ KnownOf(u, j)
    BY DEF WriteInv
  <2>4. ended'[queue[u][j].write] = ended[queue[u][j].write]
    BY <1>10, <2>1, <2>2
  <2>5. CASE u = user
    <3>1. j # 1
      <4>1. i # 0
        BY <1>3, <1>7, <2>5
      <4> QED BY <2>1, <2>5, <4>1
    <3>2. ended[queue[u][j].write] = "none"
      BY <2>3, <3>1 DEF KnownOf
    <3> QED BY <2>1, <2>3, <2>4, <3>2 DEF KnownOf
  <2>6. CASE u # user
    <3>1. i = j /\ callbacks'[u] = callbacks[u]
      BY <1>1, <1>6, <2>1, <2>6
    <3> QED BY <2>1, <2>3, <2>4, <3>1 DEF KnownOf
  <2> QED BY <2>5, <2>6
<1>17. ASSUME NEW u \in Users, NEW v \in Users,
              NEW i \in DOMAIN queue'[u], NEW j \in DOMAIN queue'[v],
              queue'[u][i].write = queue'[v][j].write
       PROVE  u = v /\ i = j
  <2>1. PICK k \in DOMAIN queue[u] :
           /\ queue'[u][i] = queue[u][k] /\ i \in Nat
           /\ k = IF u = user THEN i + 1 ELSE i
    BY <1>11
  <2>2. PICK l \in DOMAIN queue[v] :
           /\ queue'[v][j] = queue[v][l] /\ j \in Nat
           /\ l = IF v = user THEN j + 1 ELSE j
    BY <1>11
  <2>3. u = v /\ k = l
    BY <1>17, <2>1, <2>2 DEF WriteInv
  <2> QED BY <2>1, <2>2, <2>3
<1>18. ASSUME NEW w \in Writes
       PROVE  /\ w > calls' => ended'[w] = "none" /\ ~WasApplied(w)'
              /\ ended'[w] = "ok" => WasApplied(w)'
  <2>1. calls' = calls
    OBVIOUS
  <2>2. first \in Writes /\ first <= calls /\ calls \in Nat
    <3>1. 1 \in DOMAIN queue[user]
      BY <1>3, <1>7 DEF q
    <3>2. first <= calls
      BY <1>1, <1>5, <3>1 DEF WriteInv, q
    <3>3. first \in Writes
      BY <1>2, <1>3, <1>5, BatchFields
    <3> QED BY <1>1, <3>2, <3>3, TypesAre
  <2>3. w \in Int /\ first \in Int
    BY <2>2, WritesType DEF Writes
  <2>4. w > calls => w # first
    BY <2>2, <2>3
  <2>5. w > calls' => ended'[w] = "none" /\ ~WasApplied(w)'
    BY <1>10, <1>12, <2>1, <2>4 DEF WriteInv
  <2>6. ended'[w] = "ok" => WasApplied(w)'
    <3>1. CASE w # first
      BY <1>10, <1>12, <3>1 DEF WriteInv
    <3>2. CASE w = first
      BY <1>10, <1>12, <3>2 DEF WriteInv, first
    <3> QED BY <3>1, <3>2
  <2> QED BY <2>5, <2>6
<1>19. WriteInv'
  BY <1>14, <1>15, <1>16, <1>17, <1>18 DEF WriteInv
<1>20. CallbackInv'
  <2>1. ASSUME NEW u \in Users, NEW c \in callbacks'[u]
        PROVE  \E i \in DOMAIN queue'[u] : queue'[u][i] = c
    <3>1. CASE u = user
      <4>1. c \in callbacks[user] /\ c.id # id
        BY <1>1, <1>6, <3>1
      <4>2. PICK i \in DOMAIN q : q[i] = c
        BY <1>1, <4>1 DEF CallbackInv, q
      <4>3. i # 1
        BY <1>5, <4>1, <4>2
      <4>4. i - 1 \in 1..Len(t) /\ (i - 1) + 1 = i
        BY <1>3, <1>7, <4>3
      <4>5. t[i - 1] = c
        BY <1>3, <4>2, <4>4
      <4> QED BY <1>7, <3>1, <4>4, <4>5
    <3>2. CASE u # user
      BY <1>1, <1>6, <1>7, <3>2 DEF CallbackInv
    <3> QED BY <3>1, <3>2
  <2> QED BY <2>1 DEF CallbackInv
<1> QED BY <1>19, <1>20

\* A write that is confirmed is the oldest of the pipeline, and was applied.
LEMMA ConfirmedApplied ==
    ASSUME BaseInv, Hears("ok")
    PROVE  WasApplied(net.pipeline[1].write)
<1> DEFINE k == Oks(net.down)
<1>1. /\ net.down # <<>> /\ Head(net.down) = "ok" /\ net.pipeline # <<>>
  BY DEF Hears
<1>2. /\ NetOK(net, queue[user]) /\ Matches(net, applied)
      /\ queue[user] \in Seq(Batch) /\ Sorted(queue[user])
      /\ applied \in Seq([write : Writes, by : Users])
      /\ net.down \in Seq({"hello", "ok", "refused"}) /\ net.down # <<>>
  BY <1>1, BaseFacts
<1>3. /\ queue[user] # <<>> /\ queue[user][1] = net.pipeline[1]
  <2>1. /\ net.pipeline \in Seq(Batch) /\ IsPrefixOf(net.pipeline, queue[user])
    BY <1>2 DEF NetOK, Net
  <2>2. Len(net.pipeline) \in Nat \ {0}
    BY <1>1, <2>1, EmptySeq
  <2> QED BY <1>2, <2>1, <2>2 DEF IsPrefixOf
<1>4. net.handshake /\ k > 0
  BY <1>1, <1>2, <1>3, BaseFacts, HeadAnswered
<1>5. k \in Nat
  <2>1. Len(net.down) \in Nat
    BY <1>2
  <2> QED BY <1>4, <2>1 DEF Oks
<1> HIDE DEF k
<1>6. /\ k <= Len(applied)
      /\ \A i \in 1..k :
            applied[Len(applied) - k + i].write = net.pipeline[i].write
  BY <1>2, <1>4 DEF Matches, k
<1>7. Len(applied) \in Nat /\ DOMAIN applied = 1..Len(applied)
  BY <1>2
<1>8. 1 \in 1..k /\ Len(applied) - k + 1 \in 1..Len(applied)
  BY <1>4, <1>5, <1>6, <1>7
<1> QED BY <1>6, <1>7, <1>8 DEF WasApplied

\* An answer is heard, and the completion handler told.
LEMMA AnsweredWrites ==
    ASSUME WireInv, WriteInv, CallbackInv, MutationResult \/ WriteRefused
    PROVE  WriteInv' /\ CallbackInv'
<1>1. CASE MutationResult
  <2>1. /\ Hears("ok") /\ net.pipeline # <<>>
        /\ EndBatch(Head(net.pipeline).id, "ok")
        /\ UNCHANGED <<user, worker, applied, calls>>
    BY <1>1 DEF MutationResult, Hears
  <2>2. WasApplied(net.pipeline[1].write)
    BY <2>1, WireBase, ConfirmedApplied
  <2> QED BY <2>1, <2>2, EndBatchWrites
<1>2. CASE WriteRefused
  <2>1. /\ net.pipeline # <<>> /\ EndBatch(Head(net.pipeline).id, "failed")
        /\ UNCHANGED <<user, worker, applied, calls>>
    BY <1>2 DEF WriteRefused, Hears
  <2> QED BY <2>1, EndBatchWrites
<1> QED BY <1>1, <1>2

\* A write is applied.
LEMMA ApplyWriteWrites ==
    ASSUME WireInv, WriteInv, CallbackInv, NEW w \in Writes, ApplyWrite(w)
    PROVE  WriteInv' /\ CallbackInv'
<1>1. /\ TypeOK /\ Handles(w)
      /\ UNCHANGED <<worker, queue, callbacks, ended, calls>>
  BY DEF WireInv, ApplyWrite
<1>2. /\ applied \in Seq([write : Writes, by : Users])
      /\ applied' \in Seq([write : Writes, by : Users])
      /\ applied' = Append(applied, [write |-> w, by |-> net.token])
      /\ [write |-> w, by |-> net.token] \in [write : Writes, by : Users]
  BY <1>1, TypesAre, WireBase, ApplyWriteNet, HandlesWrite
\* The write that is applied waits in the user's queue.
<1>3. \E i \in DOMAIN queue[user] : queue[user][i].write = w
  <2> DEFINE k == Len(net.down) + 1
  <2>1. /\ Len(net.down) < Len(net.pipeline) /\ Len(net.pipeline) \in Nat
        /\ Len(net.down) \in Nat /\ net.pipeline[k].write = w
    BY <1>1, WireBase, HandlesWrite
  <2>2. /\ k \in 1..Len(net.pipeline)
    BY <2>1
  <2>3. /\ IsPrefixOf(net.pipeline, queue[user]) /\ queue[user] \in Seq(Batch)
    BY WireBase, BaseFacts DEF NetOK
  <2> HIDE DEF k
  <2>4. k \in 1..Len(queue[user]) /\ net.pipeline[k] = queue[user][k]
    BY <2>1, <2>2, <2>3 DEF IsPrefixOf
  <2> QED BY <2>1, <2>3, <2>4
<1>4. user \in Users /\ w <= calls /\ ~ToCome(w)
  <2>1. user \in Users
    BY <1>1, TypesAre
  <2> QED BY <1>3, <2>1 DEF WriteInv, Fresh
<1>5. \A v : WasApplied(v)' => WasApplied(v) \/ v = w
  <2>1. \A i \in 1..Len(applied') :
           \/ i = Len(applied) + 1 /\ applied'[i].write = w
           \/ i \in 1..Len(applied) /\ applied'[i] = applied[i]
    BY <1>2, AppendAt
  <2> QED BY <1>2, <2>1 DEF WasApplied
<1>6. \A v : WasApplied(v) => WasApplied(v)'
  <2>1. \A i \in 1..Len(applied) :
           i \in 1..Len(applied') /\ applied'[i] = applied[i]
    <3>1. /\ \A i \in 1..Len(applied) : applied'[i] = applied[i]
          /\ Len(applied') = Len(applied) + 1 /\ Len(applied) \in Nat
      BY <1>2, AppendAt
    <3> QED BY <3>1
  <2> QED BY <1>2, <2>1 DEF WasApplied
<1>7. \A v \in Writes : ToCome(v)' => Fresh(v)'
  <2>1. \A v : ToCome(v)' => ToCome(v)
    BY <1>1 DEF ToCome
  <2> QED BY <1>1, <1>4, <1>5, <2>1 DEF WriteInv, Fresh
<1>8. \A v \in Writes : v > calls => v # w
  <2>1. w \in Int /\ calls \in Int
    BY <1>1, TypesAre, WritesType DEF Writes
  <2> QED BY <1>4, <2>1
<1>9. WriteInv'
  BY <1>1, <1>5, <1>6, <1>7, <1>8 DEF WriteInv, KnownOf
<1>10. CallbackInv'
  BY <1>1 DEF CallbackInv
<1> QED BY <1>9, <1>10

\* A batch is found where it was, or one place further on, when the process was
\* killed.
LEMMA FoundAgain ==
    ASSUME WireInv, LeftBehind, NEW u \in Users, NEW i \in DOMAIN queue'[u]
    PROVE  /\ i \in Nat
           /\ \/ queue' = queue
              \/ /\ u = user /\ queue' # queue /\ UNCHANGED ended
                 /\ i + 1 \in DOMAIN queue[u] /\ i + 1 # 1
                 /\ queue'[u][i] = queue[u][i + 1]
              \/ /\ u # user /\ queue' # queue /\ UNCHANGED ended
                 /\ i \in DOMAIN queue[u] /\ queue'[u][i] = queue[u][i]
<1>1. TypeOK /\ QueueInv /\ NetOK(net, queue[user])
  BY DEF WireInv, NetInv
<1>2. /\ \/ queue' = queue
         \/ /\ UNCHANGED ended /\ queue[user] # <<>>
            /\ queue' = [queue EXCEPT ![user] = Tail(queue[user])]
      /\ queue' \in [Users -> Seq(Batch)]
      /\ queue \in [Users -> Seq(Batch)] /\ user \in Users
  BY <1>1, LeftBehindQueues, TypesAre
<1>3. i \in Nat
  BY <1>2
<1>4. CASE queue' # queue
  <2> DEFINE q == queue[user]
             t == Tail(q)
  <2>1. /\ q \in Seq(Batch) /\ q # <<>> /\ queue' = [queue EXCEPT ![user] = t]
        /\ UNCHANGED ended
    BY <1>2, <1>4
  <2>2. \A j \in 1..Len(t) : j + 1 \in 1..Len(q) /\ t[j] = q[j + 1]
    BY <2>1, TailAt
  <2>3. t \in Seq(Batch)
    BY <2>1, TailAt
  <2> HIDE DEF t
  <2>4. queue'[user] = t /\ (u # user => queue'[u] = queue[u])
    BY <1>2, <2>1
  <2>5. CASE u = user
    <3>1. i \in 1..Len(t) /\ i + 1 # 1
      BY <2>3, <2>4, <2>5
    <3> QED BY <1>3, <1>4, <2>1, <2>2, <2>4, <2>5, <3>1
  <2>6. CASE u # user
    BY <1>3, <1>4, <2>1, <2>4, <2>6
  <2> QED BY <2>5, <2>6
<1> QED BY <1>3, <1>4

\* What a killed process has told of the oldest batch alone.
LEMMA ToldOldest ==
    ASSUME WireInv, CallbackInv, Hears("ok"), NEW w \in Writes,
           Told(Head(net.pipeline).id, "ok")[w] # ended[w]
    PROVE  /\ queue[user] # <<>> /\ queue[user][1] = net.pipeline[1]
           /\ 1 \in DOMAIN queue[user] /\ user \in Users
           /\ w = queue[user][1].write
<1> DEFINE q == queue[user]
           id == Head(net.pipeline).id
<1>1. /\ TypeOK /\ QueueInv /\ NetOK(net, queue[user]) /\ net.pipeline # <<>>
      /\ user \in Users /\ q \in Seq(Batch) /\ Sorted(q)
  BY TypesAre DEF WireInv, NetInv, QueueInv, Hears
<1>2. /\ net.pipeline \in Seq(Batch) /\ IsPrefixOf(net.pipeline, q)
      /\ Len(net.pipeline) \in Nat \ {0}
  BY <1>1, EmptySeq DEF NetOK, Net
<1>3. /\ Head(net.pipeline) = net.pipeline[1] /\ q[1] = net.pipeline[1]
      /\ Len(q) # 0 /\ Len(q) \in Nat /\ 1 \in DOMAIN q
  BY <1>1, <1>2 DEF IsPrefixOf
<1>4. PICK b \in callbacks[user] : b.id = id /\ b.write = w
  BY DEF Told
<1>5. PICK i \in DOMAIN q : q[i] = b
  BY <1>1 DEF CallbackInv
<1> HIDE DEF q
<1>6. i = 1
  <2>1. q[i].id = q[1].id
    BY <1>3, <1>4, <1>5
  <2>2. q[i].id \in Nat /\ q[1].id \in Nat /\ DOMAIN q = 1..Len(q)
    BY <1>1, <1>3, BatchFields
  <2>3. i # 1 => 1 < i
    BY <2>2
  <2>4. 1 < i => q[1].id < q[i].id
    BY <1>1, <1>3 DEF Sorted
  <2> QED BY <2>1, <2>2, <2>3, <2>4
<1> QED BY <1>1, <1>3, <1>4, <1>5, <1>6 DEF q

\* The process begins anew: the calls under way and the callbacks are gone.
LEMMA CrashWrites ==
    ASSUME WireInv, WriteInv, CallbackInv, NEW u \in Users, Crash(u)
    PROVE  WriteInv' /\ CallbackInv'
<1>1. /\ worker' = <<>> /\ callbacks' = [v \in Users |-> {}]
      /\ UNCHANGED <<applied, calls>> /\ LeftBehind
  BY DEF Crash
<1>2. Len(worker') = 0 /\ \A w : WasApplied(w)' <=> WasApplied(w)
  BY <1>1 DEF WasApplied
<1>3. /\ \A v \in Users : queue[v] \in Seq(Batch)
      /\ calls \in Nat
  BY TypesAre DEF WireInv
\* A handler may have been told of the oldest batch, which is still there.
<1>4. ASSUME NEW w \in Writes, ended'[w] # ended[w]
      PROVE  /\ ended'[w] = "ok" /\ WasApplied(w) /\ queue' = queue
             /\ 1 \in DOMAIN queue[user] /\ w = queue[user][1].write
             /\ user \in Users
  <2>1. Hears("ok") /\ ended' = Told(Head(net.pipeline).id, "ok")
        /\ queue' = queue
    BY <1>1, <1>4 DEF LeftBehind
  <2>2. /\ queue[user][1] = net.pipeline[1] /\ 1 \in DOMAIN queue[user]
        /\ w = queue[user][1].write /\ user \in Users
    BY <1>4, <2>1, ToldOldest
  <2>3. ended'[w] = "ok"
    BY <1>4, <2>1 DEF Told
  <2>4. WasApplied(w)
    BY <2>1, <2>2, WireBase, ConfirmedApplied
  <2> QED BY <2>1, <2>2, <2>3, <2>4
<1>5. ASSUME NEW v \in Users, NEW i \in DOMAIN queue'[v]
      PROVE  queue'[v][i].write <= calls' /\ KnownOf(v, i)'
  <2>1. CASE queue' = queue
    <3>1. queue[v][i].write <= calls /\ KnownOf(v, i)
      BY <2>1 DEF WriteInv
    <3>2. queue[v][i].write \in Writes
      BY <1>3, <2>1, BatchFields
    <3>3. CASE ended'[queue[v][i].write] # ended[queue[v][i].write]
      <4>1. /\ ended'[queue[v][i].write] = "ok"
            /\ 1 \in DOMAIN queue[user] /\ user \in Users
            /\ queue[v][i].write = queue[user][1].write
        BY <1>4, <3>2, <3>3
      <4>2. i = 1
        BY <2>1, <4>1 DEF WriteInv
      <4> QED BY <1>1, <2>1, <3>1, <4>1, <4>2 DEF KnownOf
    <3>4. CASE ended'[queue[v][i].write] = ended[queue[v][i].write]
      BY <1>1, <2>1, <3>1, <3>4 DEF KnownOf
    <3> QED BY <3>3, <3>4
  <2>2. CASE /\ v = user /\ i + 1 \in DOMAIN queue[v] /\ i + 1 # 1
             /\ queue'[v][i] = queue[v][i + 1] /\ UNCHANGED ended
    <3>1. queue[v][i + 1].write <= calls /\ ended[queue[v][i + 1].write] = "none"
      BY <2>2 DEF WriteInv, KnownOf
    <3> QED BY <1>1, <2>2, <3>1 DEF KnownOf
  <2>3. CASE /\ i \in DOMAIN queue[v] /\ queue'[v][i] = queue[v][i]
             /\ UNCHANGED ended
    <3>1. queue[v][i].write <= calls /\ KnownOf(v, i)
      BY <2>3 DEF WriteInv
    <3> QED BY <1>1, <2>3, <3>1 DEF KnownOf
  <2> QED BY <1>1, <2>1, <2>2, <2>3, FoundAgain
<1>6. ASSUME NEW v \in Users, NEW x \in Users,
             NEW i \in DOMAIN queue'[v], NEW j \in DOMAIN queue'[x],
             queue'[v][i].write = queue'[x][j].write
      PROVE  v = x /\ i = j
  <2>1. PICK k \in DOMAIN queue[v] :
           /\ queue'[v][i] = queue[v][k] /\ i \in Nat
           /\ k = IF queue' # queue /\ v = user THEN i + 1 ELSE i
    BY <1>1, FoundAgain
  <2>2. PICK l \in DOMAIN queue[x] :
           /\ queue'[x][j] = queue[x][l] /\ j \in Nat
           /\ l = IF queue' # queue /\ x = user THEN j + 1 ELSE j
    BY <1>1, FoundAgain
  <2>3. v = x /\ k = l
    BY <1>6, <2>1, <2>2 DEF WriteInv
  <2> QED BY <2>1, <2>2, <2>3
<1>7. ASSUME NEW w \in Writes
      PROVE  /\ w > calls' => ended'[w] = "none" /\ ~WasApplied(w)'
             /\ ended'[w] = "ok" => WasApplied(w)'
  <2>1. CASE ended'[w] = ended[w]
    BY <1>1, <1>2, <2>1 DEF WriteInv
  <2>2. CASE ended'[w] # ended[w]
    <3>1. WasApplied(w) /\ w <= calls
      BY <1>4, <2>2 DEF WriteInv
    <3>2. ~(w > calls)
      BY <1>3, <3>1, WritesType DEF Writes
    <3> QED BY <1>1, <1>2, <3>1, <3>2
  <2> QED BY <2>1, <2>2
<1>8. WriteInv'
  BY <1>2, <1>5, <1>6, <1>7 DEF WriteInv, ToCome
<1>9. CallbackInv'
  BY <1>1 DEF CallbackInv
<1> QED BY <1>8, <1>9

\* Both hold in the beginning.
LEMMA InitWrites ==
    ASSUME Init
    PROVE  WriteInv /\ CallbackInv
<1>1. /\ worker = <<>> /\ queue = [u \in Users |-> <<>>] /\ applied = <<>>
      /\ callbacks = [u \in Users |-> {}] /\ ended = [w \in Writes |-> "none"]
      /\ calls = 0
  BY DEF Init
<1>2. /\ Len(worker) = 0
      /\ \A u \in Users : queue[u] = <<>> /\ DOMAIN queue[u] = {}
  BY <1>1
<1>3. \A w : ~WasApplied(w) /\ ~ToCome(w)
  BY <1>1, <1>2 DEF WasApplied, ToCome
<1>4. WriteInv
  BY <1>1, <1>2, <1>3 DEF WriteInv, KnownOf
<1>5. CallbackInv
  BY <1>1 DEF CallbackInv
<1> QED BY <1>4, <1>5

\* Who leaves the worker queue alone, or takes or adds what is not a write.
LEMMA NextWrites ==
    ASSUME WireInv, WriteInv, CallbackInv, [Next]_vars
    PROVE  WriteInv' /\ CallbackInv'
<1>1. TypeOK
  BY DEF WireInv
<1>2. CASE SetData
  BY <1>2, SetDataWrites
<1>3. CASE \E u \in Users : Crash(u)
  BY <1>3, CrashWrites
<1>4. CASE WriteMutations
  BY <1>4, WriteMutationsWrites
<1>5. CASE MutationResult \/ WriteRefused
  BY <1>5, AnsweredWrites
<1>6. CASE \E w \in Writes : ApplyWrite(w)
  BY <1>6, ApplyWriteWrites
<1>7. CASE /\ UNCHANGED <<queue, callbacks, applied, ended, calls>>
           /\ worker' = worker
  BY <1>1, <1>7, KeepWrites, WritesStay
<1>8. CASE HandleNotice
  <2>1. /\ main # <<>> /\ Head(main).task = "notice"
        /\ worker' = Append(worker, [op |-> "user", user |-> Head(main).user])
        /\ UNCHANGED <<queue, callbacks, applied, ended, calls>>
    BY <1>8 DEF HandleNotice
  <2>2. Head(main) \in MainTask
    BY <1>1, <2>1, TypesAre, TailAt
  <2>3. [op |-> "user", user |-> Head(main).user] \in WorkerTask
    BY <2>1, <2>2, TaskFields DEF WorkerTask
  <2>4. KeptWrites(0)
    BY <1>1, <2>1, <2>3, KeepWrites
  <2> QED BY <2>1, <2>4, WritesStay
<1>9. CASE HandleToken
  <2>1. /\ main # <<>> /\ Head(main).task = "token"
        /\ \/ worker' = Append(worker, [op |-> "token",
                                        user |-> Head(main).user,
                                        closes |-> Head(main).closes])
           \/ worker' = worker
        /\ UNCHANGED <<queue, callbacks, applied, ended, calls>>
    BY <1>9 DEF HandleToken
  <2>2. Head(main) \in MainTask
    BY <1>1, <2>1, TypesAre, TailAt
  <2>3. [op |-> "token", user |-> Head(main).user, closes |-> Head(main).closes]
           \in WorkerTask
    BY <2>1, <2>2, TaskFields DEF WorkerTask
  <2>4. KeptWrites(0)
    BY <1>1, <2>1, <2>3, KeepWrites
  <2> QED BY <2>1, <2>4, WritesStay
<1>10. CASE HandleCredentialChange \/ ResumeWithToken
  <2>1. /\ worker # <<>> /\ worker' = Tail(worker)
        /\ UNCHANGED <<queue, callbacks, applied, ended, calls>>
    BY <1>10 DEF HandleCredentialChange, ResumeWithToken
  <2>2. KeptWrites(1)
    BY <1>1, <2>1, KeepWrites
  <2> QED BY <2>1, <2>2, WritesStay
<1>11. CASE \E u \in Users : ChangeUser(u)
  BY <1>7, <1>11 DEF ChangeUser
<1>12. CASE FirAuth \/ \E r \in net.asked : AnswerToken(r, NoUser)
  BY <1>7, <1>12 DEF FirAuth, ReadUser, AnswerToken
<1>13. CASE OnlyNet
  BY <1>7, <1>13 DEF OnlyNet
<1>14. CASE UNCHANGED vars
  BY <1>7, <1>14 DEF vars
<1>15. CASE OpenStream \/ HandshakeComplete \/ BackoffElapses \/ Greet
            \/ (\E w \in Writes : RefuseWrite(w))
            \/ StreamFails \/ IdleTimeout \/ ConnectivityChange
  BY <1>13, <1>15 DEF OpenStream, HandshakeComplete, BackoffElapses, Greet,
                      RefuseWrite, StreamFails, IdleTimeout, ConnectivityChange
<1> QED
  BY <1>2, <1>3, <1>4, <1>5, <1>6, <1>8, <1>9, <1>10, <1>11, <1>12, <1>14, <1>15
     DEF Next, MainQueue, WorkerQueue, Stream, Server

\* The inductive invariant.
PipelineInv == WireInv /\ UserInv /\ WriteInv /\ CallbackInv

\* It holds in all reachable states.
LEMMA PipelineHolds == Spec => []PipelineInv
<1>1. Init => PipelineInv
  BY InitWire, InitUser, InitWrites DEF PipelineInv
<1>2. PipelineInv /\ [Next]_vars => PipelineInv'
  BY NextWire, NextUser, NextWrites DEF PipelineInv
<1> QED BY <1>1, <1>2, PTL DEF Spec

\* The completion handlers of the app are told the truth, whoever signs in and
\* however often the process is killed, also between telling a handler and
\* removing the batch: a write that was confirmed has been applied, one that
\* was said to have failed does not wait any more, only the oldest of a user
\* can be confirmed and wait, no handler is told of it again, and a callback
\* stands for the very batch that waits under its id.
THEOREM ToldTheTruth == Spec => []AnswersTrue
<1>1. ASSUME PipelineInv
      PROVE  AnswersTrue
  <2>1. WriteInv /\ CallbackInv
    BY <1>1 DEF PipelineInv
  <2>2. \A w \in Writes : ended[w] = "ok" => WasApplied(w)
    BY <2>1 DEF WriteInv
  <2>3. \A u \in Users : \A i \in DOMAIN queue[u] :
           ended[queue[u][i].write] # "none" =>
              /\ ended[queue[u][i].write] = "ok"
              /\ i = 1 /\ queue[u][i] \notin callbacks[u]
    BY <2>1 DEF WriteInv, KnownOf
  <2> QED BY <2>1, <2>2, <2>3 DEF AnswersTrue, CallbackInv
<1> QED BY <1>1, PipelineHolds, PTL

-----------------------------------------------------------------------------
(* The refinement of Delivery *)

\* The outboxes of Delivery, as the pipeline has them.
OutboxOf(q) == [u \in Users |-> WritesOf(q[u])]

\* A change of one user's queue changes that user's outbox.
LEMMA OutboxUpdate ==
    ASSUME NEW q \in [Users -> Seq(Batch)], NEW u \in Users,
           NEW s \in Seq(Batch)
    PROVE  OutboxOf([q EXCEPT ![u] = s])
           = [OutboxOf(q) EXCEPT ![u] = WritesOf(s)]
BY DEF OutboxOf

\* A batch at the end of a queue is a write at the end of its outbox.
LEMMA WritesOfAppend ==
    ASSUME NEW q \in Seq(Batch), NEW b \in Batch
    PROVE  WritesOf(Append(q, b)) = Append(WritesOf(q), b.write)
<1> DEFINE a == Append(q, b)
           w == WritesOf(q)
           e == Append(w, b.write)
<1>1. b.write \in Writes
  BY DEF Batch
<1>2. /\ a \in Seq(Batch) /\ Len(a) = Len(q) + 1 /\ Len(q) \in Nat
      /\ a[Len(q) + 1] = b
      /\ \A i \in 1..Len(q) : a[i] = q[i]
      /\ \A i \in 1..Len(a) : i = Len(q) + 1 \/ i \in 1..Len(q)
  BY AppendAt
<1>3. /\ w \in Seq(Writes) /\ Len(w) = Len(q)
      /\ \A i \in 1..Len(q) : w[i] = q[i].write
  BY WritesOfIs
<1>4. /\ e \in Seq(Writes) /\ Len(e) = Len(w) + 1
      /\ e[Len(w) + 1] = b.write
      /\ \A i \in 1..Len(w) : e[i] = w[i]
  BY <1>1, <1>3, AppendAt
<1> HIDE DEF a, e, w
<1>5. /\ WritesOf(a) \in Seq(Writes) /\ Len(WritesOf(a)) = Len(a)
      /\ \A i \in 1..Len(a) : WritesOf(a)[i] = a[i].write
  BY <1>2, WritesOfIs
<1>6. \A i \in 1..Len(a) : WritesOf(a)[i] = e[i]
  BY <1>2, <1>3, <1>4, <1>5
<1>7. WritesOf(a) = e
  BY <1>2, <1>3, <1>4, <1>5, <1>6, SeqEqual
<1> QED BY <1>7 DEF a, e, w

\* The oldest batch leaves a queue: the oldest write leaves its outbox.
LEMMA WritesOfTail ==
    ASSUME NEW q \in Seq(Batch), q # <<>>
    PROVE  /\ WritesOf(Tail(q)) = Tail(WritesOf(q))
           /\ WritesOf(q) # <<>>
<1> DEFINE t == Tail(q)
           w == WritesOf(q)
           e == Tail(w)
<1>1. /\ t \in Seq(Batch) /\ Len(t) = Len(q) - 1 /\ Len(q) \in Nat
      /\ 1 \in 1..Len(q)
      /\ \A i \in 1..Len(t) : i + 1 \in 1..Len(q) /\ t[i] = q[i + 1]
  BY TailAt
<1>2. /\ w \in Seq(Writes) /\ Len(w) = Len(q)
      /\ \A i \in 1..Len(q) : w[i] = q[i].write
  BY WritesOfIs
<1> HIDE DEF w
<1>3. w # <<>>
  BY <1>1, <1>2
<1>4. /\ e \in Seq(Writes) /\ Len(e) = Len(w) - 1
      /\ \A i \in 1..Len(e) : i + 1 \in 1..Len(w) /\ e[i] = w[i + 1]
  BY <1>2, <1>3, TailAt
<1> HIDE DEF t, e
<1>5. /\ WritesOf(t) \in Seq(Writes) /\ Len(WritesOf(t)) = Len(t)
      /\ \A i \in 1..Len(t) : WritesOf(t)[i] = t[i].write
  BY <1>1, WritesOfIs
<1>6. \A i \in 1..Len(t) : WritesOf(t)[i] = e[i]
  BY <1>1, <1>2, <1>4, <1>5
<1>7. WritesOf(t) = e
  BY <1>1, <1>2, <1>4, <1>5, <1>6, SeqEqual
<1> QED BY <1>3, <1>7 DEF t, e, w

\* What the server is about to report, with user v's stream n.
AheadOf(n, v) == [u \in Users |-> IF u = v THEN Tally(n.down, "ok") ELSE 0]

\* Steps that Delivery does not see.
LEMMA Nothing ==
    ASSUME UNCHANGED <<queue, applied, user>>,
           Tally(net'.down, "ok") = Tally(net.down, "ok")
    PROVE  UNCHANGED Outbox!vars
BY DEF Outbox!vars, Count, Tally

\* A step of Delivery is a step of one user's outbox.
LEMMA OneStep ==
    ASSUME NEW u \in Users,
           \/ Outbox!Apply(u) \/ Outbox!Forget(u)
           \/ Outbox!Confirm(u) \/ Outbox!Refuse(u)
    PROVE  Outbox!Next
<1>1. \E v \in Users :
         \/ \E w \in Writes : Outbox!Put(v, w)
         \/ Outbox!Apply(v) \/ Outbox!Forget(v)
         \/ Outbox!Confirm(v) \/ Outbox!Refuse(v)
  OBVIOUS
<1> QED BY <1>1, Zenon DEF Outbox!Next

\* The stream is closed, or another user's begun: what the server had to report
\* is forgotten.
LEMMA Forgets ==
    ASSUME user \in Users, UNCHANGED <<queue, applied>>,
           Tally(net'.down, "ok") = 0
    PROVE  Outbox!Next
<1>1. AheadOf(net', user') = [AheadOf(net, user) EXCEPT ![user] = 0]
  BY DEF AheadOf
<1> PICK v \in Users : v = user
  OBVIOUS
<1>2. Outbox!Forget(v)
  BY <1>1 DEF Outbox!Forget, AheadOf, Count, Tally
<1> QED BY <1>2, OneStep

\* A write is queued: it is put in its user's outbox, and it is a new one.
LEMMA Puts ==
    ASSUME WireInv, WriteInv, WriteMutations
    PROVE  Outbox!Next
<1> DEFINE w == Head(worker).write
           b == [id |-> nextId, write |-> w]
           q == queue[user]
<1>1. /\ TypeOK /\ worker # <<>> /\ Head(worker).op = "write"
      /\ UNCHANGED <<user, applied>>
      /\ queue' = [queue EXCEPT ![user] = Append(q, b)]
  BY DEF WireInv, WriteMutations
<1>2. /\ Head(worker) = worker[1] /\ Head(worker) \in WorkerTask
      /\ 1 \in 1..Len(worker)
  BY <1>1, TypesAre, TailAt
<1>3. w \in Writes /\ ToCome(w)
  BY <1>1, <1>2, TaskFields DEF ToCome
<1>4. Fresh(w)
  BY <1>3 DEF WriteInv
<1> HIDE DEF w
<1>5. b \in Batch /\ b.write = w
  BY <1>1, <1>3, TypesAre DEF Batch
<1>6. user \in Users /\ queue \in [Users -> Seq(Batch)] /\ q \in Seq(Batch)
  BY <1>1, TypesAre
<1> HIDE DEF b
<1>7. /\ Append(q, b) \in Seq(Batch)
      /\ WritesOf(Append(q, b)) = Append(WritesOf(q), w)
  BY <1>5, <1>6, AppendAt, WritesOfAppend
<1>8. OutboxOf(queue')
      = [OutboxOf(queue) EXCEPT ![user] = Append(WritesOf(q), w)]
  <2> DEFINE s == Append(q, b)
  <2>1. s \in Seq(Batch) /\ queue' = [queue EXCEPT ![user] = s]
    BY <1>1, <1>6, <1>7
  <2> HIDE DEF s
  <2>2. OutboxOf(queue') = [OutboxOf(queue) EXCEPT ![user] = WritesOf(s)]
    BY <2>1, <1>6, OutboxUpdate
  <2> QED BY <2>2, <1>7 DEF s
<1>9. OutboxOf(queue)[user] = WritesOf(q)
  BY <1>6 DEF OutboxOf
<1>10. \A v \in Users : \A i \in DOMAIN WritesOf(queue[v]) :
          WritesOf(queue[v])[i] # w
  BY <1>4 DEF Fresh, WritesOf
<1>11. \A i \in DOMAIN applied : applied[i].write # w
  BY <1>4 DEF Fresh, WasApplied
<1>12. Tally(net'.down, "ok") = Tally(net.down, "ok")
  BY WireBase, WriteMutationsNet
<1>13. AheadOf(net', user') = AheadOf(net, user)
  BY <1>1, <1>12 DEF AheadOf
<1> HIDE DEF q
<1>14. Outbox!Put(user, w)
  BY <1>1, <1>8, <1>9, <1>10, <1>11, <1>13
     DEF Outbox!Put, OutboxOf, AheadOf, Count, Tally
<1> QED BY <1>3, <1>6, <1>14 DEF Outbox!Next

\* A write is applied as its user, whose token the stream has.
LEMMA Applies ==
    ASSUME WireInv, WireInv', UserInv, NEW w \in Writes, ApplyWrite(w)
    PROVE  Outbox!Next
<1> DEFINE k == Len(net.down)
           q == queue[user]
<1>1. /\ Handles(w) /\ UNCHANGED <<user, queue>>
      /\ user \in Users /\ q \in Seq(Batch) /\ net \in Net /\ StreamOK(net)
      /\ NetOK(net, q)
  BY WireBase, BaseFacts DEF ApplyWrite
<1>2. /\ net.handshake /\ net.token \in Users
      /\ Oks(net.down) = k /\ k < Len(net.pipeline)
      /\ Len(net.pipeline) \in Nat /\ k \in Nat
      /\ net.pipeline[k + 1].write = w /\ ~Refuses(net.down)
  BY <1>1, WireBase, HandlesWrite
<1>3. /\ applied' = Append(applied, [write |-> w, by |-> net.token])
      /\ net'.down = Append(net.down, "ok") /\ net'.handshake
  BY WireBase, ApplyWriteNet
<1>4. net.token = user
  BY <1>2, WritesType DEF UserInv, TokensInv
<1>5. net' \in Net /\ StreamOK(net')
  BY DEF WireInv, NetInv, NetOK
<1>6. Tally(net.down, "ok") = k /\ Tally(net'.down, "ok") = k + 1
  <2>1. Tally(net.down, "ok") = k
    BY <1>1, <1>2, CountIs
  <2>2. Tally(net'.down, "ok") = Oks(net'.down)
    BY <1>3, <1>5, CountIs
  <2>3. /\ Len(net'.down) = k + 1 /\ net'.down[k + 1] = "ok"
    <3>1. net.down \in Seq({"hello", "ok", "refused"})
      BY <1>1, NetFields
    <3> QED BY <1>3, <3>1, AppendAt
  <2>4. Oks(net'.down) = k + 1
    BY <2>3 DEF Oks, Refuses
  <2> QED BY <2>1, <2>2, <2>4
<1> HIDE DEF k
<1>7. /\ k + 1 \in 1..Len(q) /\ q[k + 1].write = w
      /\ k < Len(q)
  <2>1. /\ IsPrefixOf(net.pipeline, q) /\ Len(q) \in Nat
    BY <1>1 DEF NetOK
  <2> HIDE DEF q
  <2>2. k + 1 \in 1..Len(net.pipeline) /\ k + 1 \in 1..Len(q) /\ k < Len(q)
    BY <1>2, <2>1 DEF IsPrefixOf
  <2> QED BY <1>2, <2>1, <2>2 DEF IsPrefixOf
<1>8. /\ Len(WritesOf(q)) = Len(q) /\ WritesOf(q)[k + 1] = w
  BY <1>1, <1>7, WritesOfIs
<1>9. /\ AheadOf(net, user)[user] = k
      /\ AheadOf(net', user') = [AheadOf(net, user) EXCEPT ![user] = k + 1]
  BY <1>1, <1>6 DEF AheadOf
<1>10. OutboxOf(queue)[user] = WritesOf(q)
  BY <1>1 DEF OutboxOf
<1> HIDE DEF q
<1> PICK v \in Users : v = user
  BY <1>1
<1>11. Outbox!Apply(v)
  BY <1>1, <1>3, <1>4, <1>7, <1>8, <1>9, <1>10
     DEF Outbox!Apply, OutboxOf, AheadOf, Count, Tally
<1> QED BY <1>11, OneStep

\* The oldest write was applied: the first of the answers confirms it.
LEMMA Confirms ==
    ASSUME WireInv, WireInv', MutationResult
    PROVE  Outbox!Next
<1> DEFINE d == net.down
           q == queue[user]
<1>1. /\ UNCHANGED <<user, applied>> /\ Head(d) = "ok" /\ d # <<>>
      /\ queue' = [queue EXCEPT ![user] = Tail(q)] /\ q # <<>>
      /\ net'.down = Tail(d) /\ net.handshake /\ net'.handshake
  BY WireBase, MutationResultNet DEF MutationResult, Hears
<1>2. /\ user \in Users /\ queue \in [Users -> Seq(Batch)] /\ q \in Seq(Batch)
      /\ net \in Net /\ StreamOK(net) /\ net' \in Net /\ StreamOK(net')
      /\ d \in Seq({"hello", "ok", "refused"})
  BY WireBase, BaseFacts DEF WireInv, NetInv, NetOK
<1>3. Tally(d, "ok") = Oks(d) /\ Tally(net'.down, "ok") = Oks(net'.down)
  BY <1>1, <1>2, CountIs
<1>4. Oks(d) \in Nat /\ Oks(d) > 0 /\ Oks(net'.down) = Oks(d) - 1
  <2> DEFINE t == Tail(d)
  <2>1. /\ d[1] = "ok" /\ Len(t) = Len(d) - 1 /\ Len(d) \in Nat \ {0}
        /\ \A i \in 1..Len(t) : t[i] = d[i + 1]
        /\ t # <<>> <=> Len(t) # 0
    <3>1. /\ Head(d) = d[1] /\ 1 \in 1..Len(d) /\ Len(t) = Len(d) - 1
          /\ Len(d) \in Nat /\ t \in Seq({"hello", "ok", "refused"})
          /\ \A i \in 1..Len(t) : t[i] = d[i + 1]
      BY <1>1, <1>2, TailAt
    <3> HIDE DEF t, d
    <3>2. t # <<>> <=> Len(t) # 0
      BY <3>1, EmptySeq
    <3> QED BY <1>1, <3>1, <3>2
  <2>2. net'.down = t
    BY <1>1
  <2> HIDE DEF t, d
  <2>3. CASE Len(d) = 1
    <3>1. ~Refuses(d) /\ ~Refuses(t)
      BY <2>1, <2>3 DEF Refuses
    <3> QED BY <2>1, <2>2, <2>3, <3>1 DEF Oks
  <2>4. CASE Len(d) # 1
    <3>1. Len(t) \in 1..Len(t) /\ Len(t) + 1 = Len(d)
      BY <2>1, <2>4
    <3>2. t[Len(t)] = d[Len(d)]
      BY <2>1, <3>1
    <3>3. Refuses(d) <=> Refuses(t)
      BY <1>1, <2>1, <3>1, <3>2 DEF Refuses
    <3> QED BY <2>1, <2>2, <2>4, <3>1, <3>3 DEF Oks
  <2> QED BY <2>3, <2>4
<1>5. /\ Tail(q) \in Seq(Batch)
      /\ WritesOf(Tail(q)) = Tail(WritesOf(q))
  BY <1>1, <1>2, TailAt, WritesOfTail
<1> HIDE DEF d
<1>6. OutboxOf(queue') = [OutboxOf(queue) EXCEPT ![user] = Tail(WritesOf(q))]
  <2> DEFINE s == Tail(q)
  <2>1. s \in Seq(Batch) /\ queue' = [queue EXCEPT ![user] = s]
    BY <1>1, <1>2, <1>5
  <2> HIDE DEF s
  <2>2. OutboxOf(queue') = [OutboxOf(queue) EXCEPT ![user] = WritesOf(s)]
    BY <2>1, <1>2, OutboxUpdate
  <2> QED BY <2>2, <1>5 DEF s
<1>7. OutboxOf(queue)[user] = WritesOf(q)
  BY <1>2 DEF OutboxOf
<1>8. /\ AheadOf(net, user)[user] = Oks(d)
      /\ AheadOf(net', user') = [AheadOf(net, user) EXCEPT ![user] = Oks(d) - 1]
  BY <1>1, <1>2, <1>3, <1>4 DEF AheadOf, d
<1> HIDE DEF q
<1> PICK v \in Users : v = user
  BY <1>2
<1>9. Outbox!Confirm(v)
  BY <1>1, <1>4, <1>6, <1>7, <1>8
     DEF Outbox!Confirm, OutboxOf, AheadOf, Count, Tally
<1> QED BY <1>9, OneStep

\* What a refusal makes of the queues, whether the process is killed or not
\* when the batch has been removed.
Refusal ==
    /\ Hears("refused") /\ queue[user] # <<>>
    /\ queue' = [queue EXCEPT ![user] = Tail(queue[user])]
    /\ UNCHANGED applied /\ net'.down = <<>>

\* The oldest write was refused: nothing was applied on this stream since.
LEMMA RefusesOldest ==
    ASSUME WireInv, Refusal
    PROVE  Outbox!Next
<1> DEFINE d == net.down
           q == queue[user]
<1>1. /\ UNCHANGED applied /\ Head(d) = "refused" /\ d # <<>>
      /\ queue' = [queue EXCEPT ![user] = Tail(q)] /\ q # <<>>
      /\ net'.down = <<>>
  BY DEF Refusal, Hears
<1>2. /\ user \in Users /\ queue \in [Users -> Seq(Batch)] /\ q \in Seq(Batch)
      /\ net \in Net /\ StreamOK(net)
      /\ d \in Seq({"hello", "ok", "refused"})
  BY WireBase, BaseFacts
<1>3. /\ Head(d) = d[1] /\ 1 \in 1..Len(d) /\ Len(d) \in Nat
  BY <1>1, <1>2, TailAt
<1>4. net.handshake
  <2>1. ~net.handshake => d = <<>> \/ d = <<"hello">>
    BY <1>2 DEF StreamOK
  <2>2. <<"hello">>[1] = "hello"
    OBVIOUS
  <2> QED BY <1>1, <1>3, <2>1, <2>2
<1>5. Tally(d, "ok") = 0
  <2>1. \A i \in 1..(Len(d) - 1) : d[i] = "ok"
    BY <1>2, <1>4 DEF StreamOK
  <2>2. Tally(d, "ok") = Oks(d)
    BY <1>2, <1>4, CountIs
  <2> HIDE DEF d
  <2>3. Len(d) = 1
    <3>1. Len(d) # 1 => 1 \in 1..(Len(d) - 1)
      BY <1>3
    <3> QED BY <1>1, <1>3, <2>1, <3>1
  <2>4. Refuses(d)
    BY <1>1, <1>3, <2>3 DEF Refuses
  <2> QED BY <2>2, <2>3, <2>4 DEF Oks
<1>6. Tally(net'.down, "ok") = 0
  <2>1. {i \in DOMAIN <<>> : <<>>[i] = "ok"} = {}
    OBVIOUS
  <2> QED BY <1>1, <2>1, FS_EmptySet DEF Tally
<1>7. /\ Tail(q) \in Seq(Batch)
      /\ WritesOf(Tail(q)) = Tail(WritesOf(q)) /\ WritesOf(q) # <<>>
  BY <1>1, <1>2, TailAt, WritesOfTail
<1>8. OutboxOf(queue') = [OutboxOf(queue) EXCEPT ![user] = Tail(WritesOf(q))]
  <2> DEFINE s == Tail(q)
  <2>1. s \in Seq(Batch) /\ queue' = [queue EXCEPT ![user] = s]
    BY <1>1, <1>2, <1>7
  <2> HIDE DEF s
  <2>2. OutboxOf(queue') = [OutboxOf(queue) EXCEPT ![user] = WritesOf(s)]
    BY <2>1, <1>2, OutboxUpdate
  <2> QED BY <2>2, <1>7 DEF s
<1>9. OutboxOf(queue)[user] = WritesOf(q)
  BY <1>2 DEF OutboxOf
<1>10. /\ AheadOf(net, user)[user] = 0
       /\ AheadOf(net', user') = AheadOf(net, user)
  BY <1>1, <1>2, <1>5, <1>6 DEF AheadOf
<1> HIDE DEF q
<1>11. Outbox!Refuse(user)
  BY <1>1, <1>7, <1>8, <1>9, <1>10
     DEF Outbox!Refuse, OutboxOf, AheadOf, Count, Tally
<1> QED BY <1>2, <1>11, OneStep

\* An empty list of answers confirms nothing, nor does a greeting.
LEMMA TallyNothing ==
    /\ Tally(<<>>, "ok") = 0
    /\ Tally(<<"hello">>, "ok") = 0
<1>1. {i \in DOMAIN <<>> : <<>>[i] = "ok"} = {}
  OBVIOUS
<1>2. {i \in DOMAIN <<"hello">> : <<"hello">>[i] = "ok"} = {}
  OBVIOUS
<1> QED BY <1>1, <1>2, FS_EmptySet DEF Tally

\* A refusal confirms nothing more.
LEMMA RefusesNothing ==
    ASSUME WireInv, WireInv', NEW w \in Writes, RefuseWrite(w)
    PROVE  Tally(net'.down, "ok") = Tally(net.down, "ok")
<1> DEFINE d == net.down
           e == Append(d, "refused")
<1>1. /\ net'.down = e /\ net'.handshake /\ net.handshake
      /\ Oks(d) = Len(d)
  BY WireBase, RefuseWriteNet
<1>2. /\ net \in Net /\ StreamOK(net) /\ net' \in Net /\ StreamOK(net')
      /\ d \in Seq({"hello", "ok", "refused"})
  BY WireBase, BaseFacts DEF WireInv, NetInv, NetOK
<1>3. Tally(d, "ok") = Oks(d) /\ Tally(net'.down, "ok") = Oks(net'.down)
  BY <1>1, <1>2, CountIs
<1>4. Oks(e) = Len(d)
  <2>1. Len(e) = Len(d) + 1 /\ Len(d) \in Nat /\ e[Len(d) + 1] = "refused"
    BY <1>2, AppendAt
  <2> HIDE DEF e, d
  <2>2. e # <<>> /\ e[Len(e)] = "refused"
    BY <2>1
  <2> QED BY <2>1, <2>2 DEF Oks, Refuses
<1> QED BY <1>1, <1>3, <1>4

\* The pipeline begins as Delivery does.
LEMMA InitOutbox ==
    ASSUME Init
    PROVE  Outbox!Init
<1>1. /\ queue = [u \in Users |-> <<>>] /\ applied = <<>>
      /\ net.down = <<>>
  BY DEF Init, EmptyNet
<1>2. WritesOf(<<>>) = <<>>
  BY DEF WritesOf
<1>3. Count("ok") = 0
  BY <1>1, TallyNothing DEF Count, Tally
<1> QED BY <1>1, <1>2, <1>3 DEF Outbox!Init

\* Every step of the pipeline is a step of Delivery, or none.
LEMMA NextOutbox ==
    ASSUME PipelineInv, PipelineInv', [Next]_vars
    PROVE  [Outbox!Next]_(Outbox!vars)
<1>1. /\ WireInv /\ WireInv' /\ UserInv /\ WriteInv /\ BaseInv
      /\ user \in Users
  BY WireBase, BaseFacts DEF PipelineInv
<1>2. CASE /\ UNCHANGED <<queue, applied, user>>
           /\ net'.down = net.down
  BY <1>2, Nothing
<1>3. CASE /\ UNCHANGED <<queue, applied>>
           /\ net'.down = <<>>
  BY <1>1, <1>3, Forgets, TallyNothing
<1>4. CASE SetData \/ (\E u \in Users : ChangeUser(u)) \/ HandleNotice
            \/ UNCHANGED vars
  BY <1>2, <1>4 DEF SetData, ChangeUser, HandleNotice, vars
<1>5. CASE \E u \in Users : Crash(u)
  <2>1. TypeOK /\ QueueInv /\ NetOK(net, queue[user])
    BY <1>1 DEF WireInv, NetInv
  <2>2. net'.down = <<>> /\ applied' = applied /\ LeftBehind
    BY <1>5, <2>1, CrashNet DEF Crash
  <2>3. \/ queue' = queue
        \/ /\ Hears("refused") /\ queue[user] # <<>>
           /\ queue' = [queue EXCEPT ![user] = Tail(queue[user])]
    BY <2>1, <2>2, LeftBehindQueues
  <2>4. queue' = queue \/ Refusal
    BY <2>2, <2>3 DEF Refusal
  <2> QED BY <1>1, <1>3, <2>2, <2>4, RefusesOldest
<1>6. CASE FirAuth \/ \E r \in net.asked : AnswerToken(r, NoUser)
  <2>1. UNCHANGED <<queue, applied, user>>
    BY <1>6 DEF FirAuth, ReadUser, AnswerToken
  <2>2. net'.down = net.down
    BY <1>1, <1>6, BaseFacts DEF FirAuth, ReadUser, AnswerToken, Net
  <2> QED BY <1>2, <2>1, <2>2
<1>7. CASE HandleToken
  <2>1. UNCHANGED <<queue, applied, user>>
    BY <1>7 DEF HandleToken
  <2>2. net'.down = net.down
    BY <1>1, <1>7, BaseFacts DEF HandleToken, AskForToken, Net
  <2> QED BY <1>2, <2>1, <2>2
<1>8. CASE WriteMutations
  BY <1>1, <1>8, Puts
<1>9. CASE HandleCredentialChange
  <2>1. UNCHANGED <<queue, applied>>
    BY <1>9 DEF HandleCredentialChange
  <2>2. net'.down = <<>>
    BY <1>1, <1>9, HandleCredentialChangeNet DEF Closed
  <2> QED BY <1>3, <2>1, <2>2
<1>10. CASE ResumeWithToken
  <2>1. UNCHANGED <<queue, applied, user>>
    BY <1>10 DEF ResumeWithToken
  <2>2. net'.down = <<>> \/ net'.down = net.down
    BY <1>1, <1>10, ResumeWithTokenNet DEF Closed
  <2> QED BY <1>2, <1>3, <2>1, <2>2
<1>11. CASE OpenStream \/ BackoffElapses
  <2>1. UNCHANGED <<queue, applied, user>>
    BY <1>11 DEF OpenStream, BackoffElapses, OnlyNet
  <2>2. net'.down = net.down
    BY <1>1, <1>11, OpenStreamNet, BackoffElapsesNet
  <2> QED BY <1>2, <2>1, <2>2
<1>12. CASE HandshakeComplete \/ Greet
  <2>1. UNCHANGED <<queue, applied, user>>
    BY <1>12 DEF HandshakeComplete, Greet, OnlyNet
  <2>2. \/ net.down = <<>> /\ net'.down = <<"hello">>
        \/ net.down = <<"hello">> /\ net'.down = <<>>
    BY <1>1, <1>12, HandshakeCompleteNet, GreetNet
  <2>3. Tally(net'.down, "ok") = Tally(net.down, "ok")
    BY <2>2, TallyNothing
  <2> QED BY <2>1, <2>3, Nothing
<1>13. CASE MutationResult \/ WriteRefused
  <2>1. CASE MutationResult
    BY <1>1, <2>1, Confirms
  <2>2. CASE WriteRefused
    <3>1. Refusal
      BY <1>1, <2>2, WriteRefusedNet DEF WriteRefused, Closed, Refusal
    <3> QED BY <1>1, <3>1, RefusesOldest
  <2> QED BY <1>13, <2>1, <2>2
<1>14. ASSUME NEW w \in Writes, ApplyWrite(w) \/ RefuseWrite(w)
       PROVE  [Outbox!Next]_(Outbox!vars)
  <2>1. CASE ApplyWrite(w)
    BY <1>1, <2>1, Applies
  <2>2. CASE RefuseWrite(w)
    <3>1. UNCHANGED <<queue, applied, user>>
      BY <2>2 DEF RefuseWrite, OnlyNet
    <3> QED BY <1>1, <2>2, <3>1, RefusesNothing, Nothing
  <2> QED BY <1>14, <2>1, <2>2
<1>15. CASE StreamFails \/ IdleTimeout \/ ConnectivityChange
  <2>1. OnlyNet
    BY <1>15 DEF StreamFails, IdleTimeout, ConnectivityChange
  <2>2. \/ net' = Break(net)
        \/ net.idle /\ net' = Close(net, "initial")
        \/ net' = Restart(net, queue[user])
    BY <1>15 DEF StreamFails, IdleTimeout, ConnectivityChange
  <2>3. net'.down = <<>>
    BY <1>1, <2>1, <2>2, ClosedNet DEF OnlyNet, Closed
  <2> QED BY <1>3, <2>1, <2>3 DEF OnlyNet
<1> QED
  BY <1>4, <1>5, <1>6, <1>7, <1>8, <1>9, <1>10, <1>11, <1>12, <1>13, <1>14,
     <1>15
     DEF Next, MainQueue, WorkerQueue, Stream, Server

\* The pipeline implements Delivery: whatever happens to streams, tokens, users
\* and the process, the writes of every user reach the server in the order they
\* were made and as that user, at least once unless refused, and the outbox
\* gives up only what was reported on.
THEOREM Delivers == Spec => Delivered
<1>1. Init => Outbox!Init
  BY InitOutbox
<1>2. PipelineInv /\ PipelineInv' /\ [Next]_vars => [Outbox!Next]_(Outbox!vars)
  BY NextOutbox
<1> QED BY <1>1, <1>2, PipelineHolds, PTL DEF Spec, Delivered, Outbox!Spec
=============================================================================
