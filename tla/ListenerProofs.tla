--------------------------- MODULE ListenerProofs ---------------------------
EXTENDS Listener, ListLemmas

(***************************************************************************)
(* What a listener that is raised as synced shows is what the server has,  *)
(* with the phone's own writes laid over it, unless keys were lost         *)
(* (ShownCorrect).                                                         *)
(*                                                                         *)
(* The invariant relates each part of the phone to the history of the      *)
(* collection at some version: a target to the version it has been told    *)
(* (Tracked: what is on its way names exactly what changed since), the     *)
(* acknowledgements to the phone's own changes (AcksInv, OwnInv), a cached *)
(* document to the version it is from (CacheInv), a snapshot to what it    *)
(* counts (MessagesInv), the view to the queue laid over the cache         *)
(* (ViewInv), and the token to the keys it stands for (KnowInv).           *)
(***************************************************************************)

-----------------------------------------------------------------------------
(* The operators the model is built from *)

\* LastOf of a set that has a largest element is that element.
LEMMA LastOfIs ==
    ASSUME NEW S \in SUBSET Nat, NEW m \in S, \A j \in S : j <= m
    PROVE  LastOf(S) = m
<1>1. LastOf(S) \in S /\ \A j \in S : j <= LastOf(S)
  BY DEF LastOf
<1>2. LastOf(S) \in Nat /\ m \in Nat
  BY <1>1
<1>3. LastOf(S) <= m /\ m <= LastOf(S)
  BY <1>1
<1> QED BY <1>2, <1>3

\* Positions up to n, and 0, have a last one.
LEMMA LastOfIsMax ==
    ASSUME NEW n \in Nat, NEW S \in SUBSET (0..n), S # {}
    PROVE  LastOf(S) \in S /\ \A j \in S : j <= LastOf(S)
<1>1. CASE S = {0}
  <2>1. \A j \in S : j <= 0
    BY <1>1
  <2> QED BY <2>1, <1>1 DEF LastOf
<1>2. CASE S # {0}
  <2> DEFINE P == S \ {0}
  <2>1. P \in SUBSET (1..n) /\ P # {}
    BY <1>2
  <2> HIDE DEF P
  <2>2. Latest(P) \in P /\ \A j \in P : j <= Latest(P)
    BY <2>1, LatestIsMax
  <2>3. Latest(P) \in S /\ \A j \in S : j <= Latest(P)
    <3>1. Latest(P) \in 1..n /\ \A j \in S : j = 0 \/ j \in P
      BY <2>1, <2>2 DEF P
    <3> QED BY <3>1, <2>2 DEF P
  <2> QED BY <2>3 DEF LastOf
<1> QED BY <1>1, <1>2

\* The sequence of a finite set has all its elements and nothing else.
LEMMA SetToSeqIs ==
    ASSUME NEW S, IsFiniteSet(S)
    PROVE  /\ SetToSeq(S) \in Seq(S)
           /\ Len(SetToSeq(S)) = Cardinality(S)
           /\ \A x \in S : \E i \in 1..Len(SetToSeq(S)) : SetToSeq(S)[i] = x
           /\ \A i, j \in 1..Len(SetToSeq(S)) :
                 SetToSeq(S)[i] = SetToSeq(S)[j] => i = j
<1> DEFINE n == Cardinality(S)
           Good(f) == f \in [1..n -> S] /\ IsInjective(f)
<1>1. n \in Nat /\ IsFiniteSet(1..n) /\ Cardinality(1..n) = n
  BY FS_CardinalityType, FS_Interval
<1>2. PICK g : g \in Bijection(1..n, S)
  BY FS_CardinalityType DEF ExistsBijection
<1>3. Good(g)
  <2>1. g \in [1..n -> S] /\ \A a, b \in 1..n : g[a] = g[b] => a = b
    BY <1>2 DEF Bijection, Injection, IsInjective
  <2> QED BY <2>1 DEF IsInjective
<1>4. PICK f : f = SetToSeq(S)
  OBVIOUS
<1>5. f = CHOOSE h \in [1..n -> S] : IsInjective(h)
  BY <1>4 DEF SetToSeq
<1>6. Good(f)
  BY <1>3, <1>5
<1>7. f \in [1..n -> S] /\ \A a, b \in 1..n : f[a] = f[b] => a = b
  BY <1>6 DEF IsInjective
<1>8. f \in Injection(1..n, S)
  BY <1>7 DEF Injection, IsInjective
<1>9. f \in Surjection(1..n, S)
  BY <1>1, <1>8, FS_Injection
<1>10. f \in Seq(S) /\ Len(f) = n
  BY <1>1, <1>7
<1>11. \A x \in S : \E i \in 1..n : f[i] = x
  BY <1>9 DEF Surjection
<1> QED BY <1>4, <1>7, <1>10, <1>11

\* Positions that are moved down by one are as many.
LEMMA ShiftedCardinality ==
    ASSUME NEW n \in Nat, NEW S \in SUBSET (2..n)
    PROVE  /\ IsFiniteSet(S)
           /\ Cardinality({i \in 1..(n - 1) : i + 1 \in S}) = Cardinality(S)
<1> DEFINE T == {i \in 1..(n - 1) : i + 1 \in S}
           f == [i \in S |-> i - 1]
<1>1. IsFiniteSet(S)
  <2>1. IsFiniteSet(2..n)
    BY FS_Interval
  <2> QED BY <2>1, FS_Subset
<1>2. f \in Bijection(S, T)
  <2>1. f \in [S -> T]
    <3>1. ASSUME NEW i \in S PROVE i - 1 \in T
      BY <3>1
    <3> QED BY <3>1
  <2>2. \A i, j \in S : f[i] = f[j] => i = j
    OBVIOUS
  <2>3. \A k \in T : \E i \in S : f[i] = k
    <3> TAKE k \in T
    <3> WITNESS k + 1 \in S
    <3> QED OBVIOUS
  <2> QED BY <2>1, <2>2, <2>3 DEF Bijection, Injection, Surjection, IsInjective
<1>3. ExistsBijection(S, T)
  BY <1>2 DEF ExistsBijection
<1> HIDE DEF T, f
<1>4. Cardinality(T) = Cardinality(S)
  BY <1>1, <1>3, FS_Bijection
<1> QED BY <1>1, <1>4 DEF T

-----------------------------------------------------------------------------
(* Documents at versions of the server *)

\* What ServerDoc returns, if version v of the server has been reached.
LEMMA ServerDocIs ==
    ASSUME history \in Seq(Change), NEW d, NEW v \in 0..Now
    PROVE  /\ ServerDoc(d, v).version \in 0..v
           /\ ServerDoc(d, v).version > 0 =>
                 history[ServerDoc(d, v).version].doc = d
           /\ \A i \in 1..v : history[i].doc = d => i <= ServerDoc(d, v).version
           /\ ServerDoc(d, v).value =
                 IF ServerDoc(d, v).version = 0 THEN Nothing
                 ELSE history[ServerDoc(d, v).version].value
           /\ ServerDoc(d, v) = [version |-> ServerDoc(d, v).version,
                                 value |-> ServerDoc(d, v).value]
           /\ ServerDoc(d, v).value \in Value
<1> DEFINE S == {0} \cup {i \in 1..v : history[i].doc = d}
<1>1. S \in SUBSET (0..v) /\ S # {} /\ v \in Nat
  BY DEF Now
<1> HIDE DEF S
<1>2. LastOf(S) \in S /\ \A j \in S : j <= LastOf(S)
  BY <1>1, LastOfIsMax
<1>3. ServerDoc(d, v) = [version |-> LastOf(S),
                         value |-> IF LastOf(S) = 0 THEN Nothing
                                   ELSE history[LastOf(S)].value]
  BY DEF ServerDoc, S
<1>4. /\ LastOf(S) \in 0..v
      /\ LastOf(S) > 0 => history[LastOf(S)].doc = d
      /\ \A i \in 1..v : history[i].doc = d => i <= LastOf(S)
  BY <1>1, <1>2 DEF S
<1>5. LastOf(S) > 0 => history[LastOf(S)].value \in Value
  <2>1. \A i \in 1..Len(history) : history[i] \in Change
    OBVIOUS
  <2>2. LastOf(S) > 0 => LastOf(S) \in 1..Len(history)
    BY <1>1, <1>4 DEF Now
  <2> QED BY <2>1, <2>2 DEF Change
<1> QED BY <1>3, <1>4, <1>5 DEF Value

\* A change that no other follows is the one ServerDoc returns.
LEMMA ServerDocAt ==
    ASSUME history \in Seq(Change), NEW d, NEW v \in 0..Now, NEW i \in 0..v,
           i > 0 => history[i].doc = d,
           \A j \in (i + 1)..v : history[j].doc # d
    PROVE  ServerDoc(d, v) = [version |-> i,
                              value |-> IF i = 0 THEN Nothing
                                        ELSE history[i].value]
<1>1. Now \in Nat
  BY DEF Now
<1>2. ServerDoc(d, v).version = i
  <2>1. ServerDoc(d, v).version >= i
    BY <1>1, ServerDocIs
  <2>2. ~(ServerDoc(d, v).version > i)
    BY <1>1, ServerDocIs
  <2> QED BY <2>1, <2>2, <1>1, ServerDocIs
<1> QED BY <1>2, ServerDocIs

\* A document that did not change in between is the same at both versions.
LEMMA ServerDocSame ==
    ASSUME history \in Seq(Change), NEW d, NEW w \in 0..Now, NEW v \in 0..w,
           ServerDoc(d, w).version <= v
    PROVE  ServerDoc(d, w) = ServerDoc(d, v)
<1> DEFINE i == ServerDoc(d, w).version
<1>1. Now \in Nat /\ v \in 0..Now
  BY DEF Now
<1>2. /\ i \in 0..v
      /\ i > 0 => history[i].doc = d
      /\ \A j \in (i + 1)..v : history[j].doc # d
  BY <1>1, ServerDocIs
<1>3. ServerDoc(d, w) = [version |-> i, value |-> IF i = 0 THEN Nothing
                                                  ELSE history[i].value]
  BY ServerDocIs
<1> HIDE DEF i
<1>4. ServerDoc(d, v) = [version |-> i, value |-> IF i = 0 THEN Nothing
                                                  ELSE history[i].value]
  BY <1>1, <1>2, ServerDocAt
<1> QED BY <1>3, <1>4

\* Versions of a document only grow.
LEMMA ServerDocGrows ==
    ASSUME history \in Seq(Change), NEW d, NEW w \in 0..Now, NEW v \in 0..w
    PROVE  ServerDoc(d, v).version <= ServerDoc(d, w).version
<1>1. Now \in Nat /\ v \in 0..Now
  BY DEF Now
<1> QED BY <1>1, ServerDocIs

\* What was at a version stays when the server commits more.
LEMMA HistoryGrows ==
    ASSUME history \in Seq(Change), NEW c, history' = Append(history, c),
           NEW d, NEW v \in 0..Now
    PROVE  ServerDoc(d, v)' = ServerDoc(d, v)
<1>1. \A i \in 1..v : history'[i] = history[i]
  BY DEF Now
<1>2. {i \in 1..v : history'[i].doc = d} = {i \in 1..v : history[i].doc = d}
  BY <1>1
<1>3. LastOf({0} \cup {i \in 1..v : history'[i].doc = d}) =
      LastOf({0} \cup {i \in 1..v : history[i].doc = d})
  BY <1>2
<1>4. ServerDoc(d, v).version = LastOf({0} \cup {i \in 1..v : history[i].doc = d})
  BY DEF ServerDoc
<1>5. LET i == ServerDoc(d, v).version
      IN  i # 0 => history'[i] = history[i]
  BY <1>1, ServerDocIs DEF Now
<1> QED BY <1>3, <1>4, <1>5 DEF ServerDoc

-----------------------------------------------------------------------------
(* What the phone and the server know of a target while it is asked for *)

\* The requests of stream s about a target that are on their way, and the
\* answers and snapshots that are on their way back.
Requests(id, s) == {k \in 1..Len(s.up) : s.up[k].target = id}
Answers(id, s) ==
    {k \in 1..Len(s.down) : s.down[k].kind = "answer" /\ s.down[k].target = id}
Snapshots(s) == {k \in 1..Len(s.down) : s.down[k].kind = "snapshot"}

\* The snapshots that will count for the target when they arrive, if no request
\* is on its way.
Live(id, s) == {k \in Snapshots(s) : \A j \in Answers(id, s) : j < k}

\* The version up to which target t has been told when message k comes.
Base(t, k, s) ==
    LastOf({t.token} \cup
           {s.down[j].version : j \in {i \in Live(t.id, s) : i < k}})

\* The documents that message m names for a target, and those it should name
\* if the last it told was version base.
NamedIn(id, m) == {d \in Docs : id \in m.docs[d]}
NamedSince(id, base, m) ==
    {d \in Docs :
        /\ id.doc \in {d, Collection}
        /\ \/ ServerDoc(d, m.version).version > base
           \/ m.how = "reset" /\ id = Query
        /\ \/ Exists(d, m.version)
           \/ base > 0 /\ (id = Query => m.how = "replay")}

\* The phone waits for as many answers as will come.  The last request asks for
\* what comes after the target's token; once the server has taken it, it goes
\* on from there.
Tracked(t, s) ==
    /\ Cardinality(Requests(t.id, s)) + Cardinality(Answers(t.id, s))
          = t.responses
    /\ Requests(t.id, s) # {} => s.up[LastOf(Requests(t.id, s))] = Watch(t)
    /\ Requests(t.id, s) = {} /\ s.open =>
          /\ \E w \in s.watched :
                /\ w.target = t.id /\ w.told = Base(t, Len(s.down) + 1, s)
                /\ w.current => w.told > 0
          /\ \A k \in Live(t.id, s) :
                NamedIn(t.id, s.down[k]) =
                NamedSince(t.id, Base(t, k, s), s.down[k])

\* The types of a stream's fields and messages.
LEMMA StreamFields ==
    ASSUME NEW s \in Stream
    PROVE  /\ s.open \in BOOLEAN /\ s.up \in Seq(Request)
           /\ s.down \in Seq(Message)
           /\ s.watched \in SUBSET [target : Id, told : Nat, current : BOOLEAN]
           /\ Len(s.up) \in Nat /\ Len(s.down) \in Nat
           /\ \A k \in 1..Len(s.up) : s.up[k] \in Request
           /\ \A k \in 1..Len(s.down) : s.down[k] \in Message
           /\ s = [open |-> s.open, up |-> s.up, down |-> s.down,
                   watched |-> s.watched]
<1>1. /\ s.open \in BOOLEAN /\ s.up \in Seq(Request)
      /\ s.down \in Seq(Message)
      /\ s.watched \in SUBSET [target : Id, told : Nat, current : BOOLEAN]
      /\ s = [open |-> s.open, up |-> s.up, down |-> s.down,
              watched |-> s.watched]
  BY DEF Stream
<1> QED BY <1>1, ElementOfSeq, LenProperties

\* The fields of a message, by its kind.
LEMMA MessageFields ==
    ASSUME NEW m \in Message
    PROVE  /\ m.kind \in {"answer", "snapshot"}
           /\ m.kind = "answer" => m.target \in Id
           /\ m.kind = "snapshot" =>
                 /\ m.version \in Nat /\ m.count \in Nat
                 /\ m.how \in {"replay", "count", "reset"}
                 /\ m.docs \in [Docs -> SUBSET Id]
BY DEF Message

\* What is on its way about a target is finite.
LEMMA RequestsFinite ==
    ASSUME NEW id, NEW s \in Stream
    PROVE  /\ IsFiniteSet(Requests(id, s)) /\ IsFiniteSet(Answers(id, s))
           /\ Cardinality(Requests(id, s)) \in Nat
           /\ Cardinality(Answers(id, s)) \in Nat
           /\ Cardinality(Requests(id, s)) = 0 <=> Requests(id, s) = {}
           /\ Cardinality(Answers(id, s)) = 0 <=> Answers(id, s) = {}
<1>1. Len(s.up) \in Nat /\ Len(s.down) \in Nat
  BY StreamFields
<1>2. IsFiniteSet(1..Len(s.up)) /\ IsFiniteSet(1..Len(s.down))
  <2>1. \A n \in Nat : IsFiniteSet(1..n)
    BY FS_Interval
  <2> QED BY <1>1, <2>1
<1>3. /\ Requests(id, s) \in SUBSET (1..Len(s.up))
      /\ Answers(id, s) \in SUBSET (1..Len(s.down))
  BY DEF Requests, Answers
<1>4. IsFiniteSet(Requests(id, s)) /\ IsFiniteSet(Answers(id, s))
  BY <1>2, <1>3, FS_Subset
<1> QED BY <1>4, FS_CardinalityType, FS_EmptySet

\* A target that no answer is missing for is told by all snapshots.
LEMMA ActiveIs ==
    ASSUME NEW t \in Target, NEW s \in Stream, Tracked(t, s)
    PROVE  IsActive(t) <=> Requests(t.id, s) = {} /\ Answers(t.id, s) = {}
<1>1. /\ Cardinality(Requests(t.id, s)) + Cardinality(Answers(t.id, s))
            = t.responses
  BY DEF Tracked
<1> QED BY <1>1, RequestsFinite DEF IsActive

\* On a closed stream a target that waits for no answer is in step with the
\* server.
LEMMA ClosedTracked ==
    ASSUME NEW t \in Target, t.responses = 0
    PROVE  Tracked(t, Closed)
<1>1. Requests(t.id, Closed) = {} /\ Answers(t.id, Closed) = {}
  BY DEF Requests, Answers, Closed
<1>2. Cardinality(Requests(t.id, Closed)) = 0
      /\ Cardinality(Answers(t.id, Closed)) = 0
  BY <1>1, FS_EmptySet
<1>3. ~Closed.open
  BY DEF Closed
<1> QED BY <1>1, <1>2, <1>3 DEF Tracked

\* Requests about other targets change nothing.
LEMMA OthersTracked ==
    ASSUME NEW t \in Target, NEW s \in Stream, NEW r \in Seq(Request),
           \A i \in 1..Len(r) : r[i].target # t.id,
           Tracked(t, s)
    PROVE  Tracked(t, [s EXCEPT !.up = @ \o r])
<1> DEFINE z == [s EXCEPT !.up = @ \o r]
<1>1. s.up \in Seq(Request) /\ Len(s.up) \in Nat /\ Len(r) \in Nat
  BY StreamFields
<1>2. /\ z.up = s.up \o r /\ z.down = s.down
      /\ z.open = s.open /\ z.watched = s.watched
  BY DEF Stream
<1>3. /\ Len(z.up) = Len(s.up) + Len(r)
      /\ \A i \in 1..Len(s.up) : z.up[i] = s.up[i]
      /\ \A i \in 1..Len(r) : z.up[Len(s.up) + i] = r[i]
  BY <1>1, <1>2, ConcatProperties
<1> HIDE DEF z
<1>4. Requests(t.id, z) = Requests(t.id, s)
  <2>1. ASSUME NEW k \in 1..Len(z.up), z.up[k].target = t.id
        PROVE  k \in 1..Len(s.up)
    <3>1. CASE k > Len(s.up)
      <4>1. /\ k - Len(s.up) \in 1..Len(r)
            /\ Len(s.up) + (k - Len(s.up)) = k
        BY <1>1, <1>3, <3>1
      <4>2. z.up[Len(s.up) + (k - Len(s.up))] = r[k - Len(s.up)]
        BY <4>1, <1>3
      <4>3. z.up[k] = r[k - Len(s.up)]
        BY <4>1, <4>2
      <4> QED BY <4>1, <4>2, <2>1
    <3> QED BY <3>1, <1>1, <2>1
  <2>2. 1..Len(s.up) \subseteq 1..Len(z.up)
    BY <1>1, <1>3
  <2> QED BY <2>1, <2>2, <1>3 DEF Requests
<1>5. /\ Answers(t.id, z) = Answers(t.id, s)
      /\ Live(t.id, z) = Live(t.id, s)
  BY <1>2 DEF Answers, Live, Snapshots
<1>6. \A k : Base(t, k, z) = Base(t, k, s)
  BY <1>2, <1>5 DEF Base
<1>7. Requests(t.id, s) # {} =>
         z.up[LastOf(Requests(t.id, s))] = s.up[LastOf(Requests(t.id, s))]
  <2>1. Requests(t.id, s) \in SUBSET (0..Len(s.up))
    BY <1>1 DEF Requests
  <2>2. Requests(t.id, s) # {} => LastOf(Requests(t.id, s)) \in 1..Len(s.up)
    BY <2>1, <1>1, LastOfIsMax DEF Requests
  <2> QED BY <2>2, <1>3
<1> QED BY <1>2, <1>4, <1>5, <1>6, <1>7 DEF Tracked, z

\* A target that is asked for after nothing is on its way about it, with a last
\* request for its token.
LEMMA AskedTracked ==
    ASSUME NEW t \in Target, NEW s \in Stream, NEW r \in Seq(Request),
           Requests(t.id, s) = {}, Answers(t.id, s) = {},
           NEW i \in 1..Len(r), r[i] = Watch(t),
           \A j \in (i + 1)..Len(r) : r[j].target # t.id,
           Cardinality({j \in 1..Len(r) : r[j].target = t.id}) = t.responses
    PROVE  Tracked(t, [s EXCEPT !.up = @ \o r])
<1> DEFINE z == [s EXCEPT !.up = @ \o r]
           n == Len(s.up)
           J == {j \in 1..Len(r) : r[j].target = t.id}
<1>1. s.up \in Seq(Request) /\ n \in Nat /\ Len(r) \in Nat
  BY StreamFields
<1>2. z.up = s.up \o r /\ z.down = s.down
  BY DEF Stream
<1>3. /\ Len(z.up) = n + Len(r)
      /\ \A k \in 1..n : z.up[k] = s.up[k]
      /\ \A k \in 1..Len(r) : z.up[n + k] = r[k]
  <2> HIDE DEF z
  <2>1. /\ Len(s.up \o r) = n + Len(r)
        /\ \A k \in 1..n : (s.up \o r)[k] = s.up[k]
        /\ \A k \in 1..Len(r) : (s.up \o r)[n + k] = r[k]
    BY <1>1, ConcatProperties
  <2> QED BY <1>2, <2>1
<1> HIDE DEF z
<1>4. Requests(t.id, z) = {n + j : j \in J}
  <2>1. ASSUME NEW k \in Requests(t.id, z) PROVE k \in {n + j : j \in J}
    <3>1. k \in 1..(n + Len(r)) /\ z.up[k].target = t.id
      BY <1>3 DEF Requests
    <3>2. k > n
      <4>1. k \in 1..n => k \in Requests(t.id, s)
        BY <3>1, <1>3 DEF Requests
      <4> QED BY <4>1, <3>1, <1>1
    <3>3. k - n \in 1..Len(r) /\ k = n + (k - n)
      BY <3>1, <3>2, <1>1
    <3>4. z.up[k] = r[k - n]
      BY <3>3, <1>3
    <3> QED BY <3>1, <3>3, <3>4
  <2>2. ASSUME NEW j \in J PROVE n + j \in Requests(t.id, z)
    <3>1. j \in 1..Len(r) /\ r[j].target = t.id
      OBVIOUS
    <3>2. n + j \in 1..Len(z.up) /\ z.up[n + j] = r[j]
      BY <3>1, <1>1, <1>3
    <3> QED BY <3>1, <3>2 DEF Requests
  <2> QED BY <2>1, <2>2
<1>5. Answers(t.id, z) = {}
  BY <1>2 DEF Answers
<1>6. Cardinality(Requests(t.id, z)) = t.responses
  <2> DEFINE f == [j \in J |-> n + j]
  <2>1. f \in Bijection(J, Requests(t.id, z))
    <3>1. f \in [J -> Requests(t.id, z)]
      BY <1>4
    <3>2. \A j, k \in J : f[j] = f[k] => j = k
      BY <1>1
    <3>3. \A k \in Requests(t.id, z) : \E j \in J : f[j] = k
      BY <1>4
    <3> QED BY <3>1, <3>2, <3>3
            DEF Bijection, Injection, Surjection, IsInjective
  <2>2. IsFiniteSet(J)
    <3>1. IsFiniteSet(1..Len(r)) /\ J \in SUBSET (1..Len(r))
      BY <1>1, FS_Interval
    <3> QED BY <3>1, FS_Subset
  <2>3. ExistsBijection(J, Requests(t.id, z))
    BY <2>1 DEF ExistsBijection
  <2> HIDE DEF f, J
  <2>4. Cardinality(Requests(t.id, z)) = Cardinality(J)
    BY <2>2, <2>3, FS_Bijection
  <2> QED BY <2>4 DEF J
<1>7. n + i \in Requests(t.id, z) /\ z.up[n + i] = Watch(t)
  <2>1. i \in J
    BY DEF Watch
  <2> QED BY <2>1, <1>3, <1>4
<1>8. LastOf(Requests(t.id, z)) = n + i
  <2>1. \A j \in J : j <= i
    BY <1>1
  <2>2. \A k \in Requests(t.id, z) : k <= n + i
    BY <2>1, <1>1, <1>4
  <2>3. Requests(t.id, z) \in SUBSET Nat
    BY <1>3 DEF Requests
  <2> QED BY <1>7, <2>2, <2>3, LastOfIs
<1>9. Cardinality(Answers(t.id, z)) = 0 /\ t.responses \in Nat
  BY <1>5, FS_EmptySet DEF Target
<1>10. Tracked(t, z)
  BY <1>6, <1>7, <1>8, <1>9 DEF Tracked
<1> QED BY <1>10 DEF z

\* A number that is not the largest can be left out.
LEMMA LastOfMore ==
    ASSUME NEW n \in Nat, NEW S \in SUBSET (0..n), NEW v \in S,
           NEW u \in Nat, u <= v
    PROVE  LastOf({u} \cup S) = LastOf(S)
<1>1. LastOf(S) \in S /\ \A j \in S : j <= LastOf(S)
  BY LastOfIsMax
<1>2. /\ LastOf(S) \in {u} \cup S /\ {u} \cup S \in SUBSET Nat
      /\ \A j \in {u} \cup S : j <= LastOf(S)
  <2>1. v <= LastOf(S) /\ v \in Nat /\ LastOf(S) \in Nat
    <3>1. \A j \in S : j \in Nat
      OBVIOUS
    <3> QED BY <1>1, <3>1
  <2>2. u <= LastOf(S)
    BY <2>1
  <2> QED BY <1>1, <2>2
<1> QED BY <1>2, LastOfIs

\* Snapshots come in the order of the versions.
Ordered(s) ==
    /\ \A k \in Snapshots(s) : s.down[k].version \in 1..Now
    /\ \A j, k \in Snapshots(s) :
          j < k => s.down[j].version <= s.down[k].version

\* The phone takes a message: all others move up.
LEMMA RestIs ==
    ASSUME NEW s \in Stream, s.down # <<>>, NEW id
    PROVE  LET z == [s EXCEPT !.down = Tail(@)]
               n == Len(s.down)
           IN  /\ z \in Stream /\ n \in Nat /\ n > 0
               /\ Head(s.down) = s.down[1] /\ Head(s.down) \in Message
               /\ Len(z.down) = n - 1
               /\ \A i \in 1..(n - 1) : z.down[i] = s.down[i + 1]
               /\ z.up = s.up /\ z.open = s.open /\ z.watched = s.watched
               /\ Requests(id, z) = Requests(id, s)
               /\ Answers(id, z) = {i \in 1..(n - 1) : i + 1 \in Answers(id, s)}
               /\ Snapshots(z) = {i \in 1..(n - 1) : i + 1 \in Snapshots(s)}
               /\ Live(id, z) = {i \in 1..(n - 1) : i + 1 \in Live(id, s)}
<1> DEFINE z == [s EXCEPT !.down = Tail(@)]
           n == Len(s.down)
<1>1. s.down \in Seq(Message) /\ n \in Nat
  BY StreamFields
<1>2. /\ Head(s.down) \in Message /\ Tail(s.down) \in Seq(Message)
      /\ Len(Tail(s.down)) = n - 1 /\ Head(s.down) = s.down[1]
      /\ \A i \in 1..(n - 1) : Tail(s.down)[i] = s.down[i + 1]
  BY <1>1, HeadTailProperties
<1>3. n > 0
  BY <1>1, EmptySeq
<1>4. /\ z \in Stream /\ z.down = Tail(s.down)
      /\ z.up = s.up /\ z.open = s.open /\ z.watched = s.watched
  BY <1>2 DEF Stream
<1> HIDE DEF z
<1>5. Requests(id, z) = Requests(id, s)
  BY <1>4 DEF Requests
<1>6. \A i \in 1..(n - 1) : i + 1 \in 1..n /\ z.down[i] = s.down[i + 1]
  BY <1>1, <1>2, <1>4
<1>7. Answers(id, z) = {i \in 1..(n - 1) : i + 1 \in Answers(id, s)}
  BY <1>2, <1>4, <1>6 DEF Answers
<1>8. Snapshots(z) = {i \in 1..(n - 1) : i + 1 \in Snapshots(s)}
  BY <1>2, <1>4, <1>6 DEF Snapshots
<1>9. Live(id, z) = {i \in 1..(n - 1) : i + 1 \in Live(id, s)}
  <2>1. ASSUME NEW i \in Live(id, z) PROVE i + 1 \in Live(id, s)
    <3>1. i + 1 \in Snapshots(s) /\ i \in 1..(n - 1)
      BY <1>8 DEF Live
    <3>2. ASSUME NEW j \in Answers(id, s) PROVE j < i + 1
      <4>1. j \in 1..n
        BY DEF Answers
      <4>2. CASE j = 1
        BY <4>2, <3>1
      <4>3. CASE j # 1
        <5>1. j - 1 \in 1..(n - 1) /\ (j - 1) + 1 = j
          BY <4>1, <4>3, <1>1
        <5>2. j - 1 \in Answers(id, z)
          BY <5>1, <1>7
        <5>3. j - 1 < i
          BY <5>2 DEF Live
        <5> QED BY <5>1, <5>3, <3>1, <4>1
      <4> QED BY <4>2, <4>3
    <3> QED BY <3>1, <3>2 DEF Live
  <2>2. ASSUME NEW i \in 1..(n - 1), i + 1 \in Live(id, s)
        PROVE  i \in Live(id, z)
    <3>1. i \in Snapshots(z)
      BY <2>2, <1>8 DEF Live
    <3>2. ASSUME NEW j \in Answers(id, z) PROVE j < i
      <4>1. j \in 1..(n - 1) /\ j + 1 \in Answers(id, s)
        BY <1>7
      <4>2. j + 1 < i + 1
        BY <4>1, <2>2 DEF Live
      <4> QED BY <4>1, <4>2, <1>1
    <3> QED BY <3>1, <3>2 DEF Live
  <2>3. \A i \in Live(id, z) : i \in 1..(n - 1)
    BY <1>8 DEF Live
  <2> QED BY <2>1, <2>2, <2>3
<1>10. /\ z \in Stream /\ n \in Nat /\ n > 0
       /\ Head(s.down) = s.down[1] /\ Head(s.down) \in Message
       /\ Len(z.down) = n - 1
       /\ \A i \in 1..(n - 1) : z.down[i] = s.down[i + 1]
       /\ z.up = s.up /\ z.open = s.open /\ z.watched = s.watched
  BY <1>1, <1>2, <1>3, <1>4, <1>6
<1> QED BY <1>5, <1>7, <1>8, <1>9, <1>10 DEF z

\* If the message was not one that counts for t, nothing else has changed for
\* it; neither if it was, but for the token.
LEMMA RestBase ==
    ASSUME NEW t \in Target, NEW u \in Target, u.id = t.id,
           NEW s \in Stream, s.down # <<>>, Ordered(s), Now \in Nat,
           \/ u.token = t.token /\ 1 \notin Live(t.id, s)
           \/ /\ 1 \in Live(t.id, s) /\ t.token <= u.token
              /\ u.token = s.down[1].version,
           NEW k \in 1..Len(s.down)
    PROVE  Base(u, k, [s EXCEPT !.down = Tail(@)]) = Base(t, k + 1, s)
<1> DEFINE z == [s EXCEPT !.down = Tail(@)]
           n == Len(s.down)
           A == {z.down[j].version : j \in {i \in Live(t.id, z) : i < k}}
           B == {s.down[j].version : j \in {i \in Live(t.id, s) : i < k + 1}}
           C == {s.down[j].version :
                    j \in {i \in Live(t.id, s) : i < k + 1 /\ i # 1}}
<1>1. /\ n \in Nat /\ n > 0
      /\ \A i \in 1..(n - 1) : z.down[i] = s.down[i + 1]
      /\ Live(t.id, z) = {i \in 1..(n - 1) : i + 1 \in Live(t.id, s)}
  BY RestIs
<1> HIDE DEF z
<1>2. /\ Base(u, k, z) = LastOf({u.token} \cup A)
      /\ Base(t, k + 1, s) = LastOf({t.token} \cup B)
  BY DEF Base
<1>3. A = C
  <2>1. ASSUME NEW x \in A PROVE x \in C
    <3>1. PICK j \in Live(t.id, z) : j < k /\ x = z.down[j].version
      OBVIOUS
    <3>2. j \in 1..(n - 1) /\ j + 1 \in Live(t.id, s)
      BY <1>1
    <3>3. j + 1 < k + 1 /\ j + 1 # 1 /\ x = s.down[j + 1].version
      BY <3>1, <3>2, <1>1
    <3> QED BY <3>2, <3>3
  <2>2. ASSUME NEW x \in C PROVE x \in A
    <3>1. PICK j \in Live(t.id, s) :
             j < k + 1 /\ j # 1 /\ x = s.down[j].version
      OBVIOUS
    <3>2. j \in 1..n
      BY DEF Live, Snapshots
    <3>3. j - 1 \in 1..(n - 1) /\ (j - 1) + 1 = j /\ j - 1 < k
      BY <3>1, <3>2, <1>1
    <3>4. j - 1 \in Live(t.id, z)
      BY <3>3, <1>1
    <3>5. x = z.down[j - 1].version
      BY <3>1, <3>3, <1>1
    <3> QED BY <3>3, <3>4, <3>5
  <2> QED BY <2>1, <2>2
<1>4. CASE u.token = t.token /\ 1 \notin Live(t.id, s)
  <2>1. B = C
    BY <1>4
  <2> HIDE DEF A, B, C
  <2> QED BY <1>2, <1>3, <1>4, <2>1 DEF z
<1>5. CASE /\ 1 \in Live(t.id, s) /\ t.token <= u.token
           /\ u.token = s.down[1].version
  <2>1. B = {u.token} \cup C
    <3>1. 1 < k + 1
      OBVIOUS
    <3> QED BY <3>1, <1>5
  <2>2. {u.token} \cup C \in SUBSET (0..Now)
    <3>1. \A j \in Live(t.id, s) : s.down[j].version \in 0..Now
      BY DEF Live, Ordered
    <3> QED BY <3>1, <1>5
  <2>3. t.token \in Nat
    BY DEF Target
  <2> HIDE DEF A, B, C
  <2>4. LastOf({t.token} \cup ({u.token} \cup C)) = LastOf({u.token} \cup C)
    BY <2>2, <2>3, <1>5, LastOfMore
  <2> QED BY <1>2, <1>3, <2>1, <2>4 DEF z
<1> QED BY <1>4, <1>5

\* The phone takes an answer.
LEMMA AnswerHeardTracked ==
    ASSUME NEW t \in Target, NEW s \in Stream, s.down # <<>>, Ordered(s),
           Now \in Nat, Head(s.down).kind = "answer", Tracked(t, s)
    PROVE  LET u == IF t.id = Head(s.down).target
                    THEN [t EXCEPT !.responses = @ - 1] ELSE t
           IN  u \in Target /\ Tracked(u, [s EXCEPT !.down = Tail(@)])
<1> DEFINE z == [s EXCEPT !.down = Tail(@)]
           n == Len(s.down)
           u == IF t.id = Head(s.down).target
                THEN [t EXCEPT !.responses = @ - 1] ELSE t
           R == Requests(t.id, s)
           A == Answers(t.id, s)
<1>1. /\ z \in Stream /\ n \in Nat /\ n > 0
      /\ Head(s.down) = s.down[1]
      /\ Len(z.down) = n - 1
      /\ \A i \in 1..(n - 1) : z.down[i] = s.down[i + 1]
      /\ z.up = s.up /\ z.open = s.open /\ z.watched = s.watched
      /\ Requests(t.id, z) = Requests(t.id, s)
      /\ Answers(t.id, z) = {i \in 1..(n - 1) : i + 1 \in Answers(t.id, s)}
      /\ Live(t.id, z) = {i \in 1..(n - 1) : i + 1 \in Live(t.id, s)}
  BY RestIs
<1>2. /\ IsFiniteSet(A) /\ Cardinality(R) \in Nat /\ Cardinality(A) \in Nat
      /\ Cardinality(R) + Cardinality(A) = t.responses
  BY RequestsFinite DEF Tracked
<1> HIDE DEF z
<1>3. Cardinality(Answers(t.id, z)) = Cardinality(A \ {1})
  <2>1. A \ {1} \in SUBSET (2..n)
    BY <1>1 DEF Answers
  <2>2. Answers(t.id, z) = {i \in 1..(n - 1) : i + 1 \in A \ {1}}
    BY <1>1
  <2> HIDE DEF A
  <2> QED BY <2>1, <2>2, <1>1, ShiftedCardinality
<1>4. 1 \in A <=> t.id = Head(s.down).target
  BY <1>1 DEF Answers
<1>5. /\ Cardinality(A \ {1}) = IF 1 \in A THEN Cardinality(A) - 1
                                ELSE Cardinality(A)
      /\ Cardinality(A \ {1}) \in Nat
  <2> HIDE DEF A
  <2>1. IsFiniteSet(A \ {1})
    BY <1>2, FS_RemoveElement
  <2> QED BY <2>1, <1>2, FS_RemoveElement, FS_CardinalityType
<1>6. /\ u \in Target /\ u.id = t.id /\ u.token = t.token
      /\ u.responses = Cardinality(R) + Cardinality(A \ {1})
      /\ Watch(u) = Watch(t)
  <2>1. /\ t.id = Head(s.down).target => t.responses - 1 =
              Cardinality(R) + Cardinality(A \ {1})
        /\ t.id # Head(s.down).target => t.responses =
              Cardinality(R) + Cardinality(A \ {1})
        /\ Cardinality(R) + Cardinality(A \ {1}) \in Nat
    <3> HIDE DEF A, R
    <3> QED BY <1>2, <1>4, <1>5
  <2> HIDE DEF A, R
  <2> QED BY <2>1 DEF Target, Watch
<1> HIDE DEF u
<1>7. 1 \notin Live(t.id, s)
  BY <1>1 DEF Live, Snapshots
<1>8. \A k \in 1..n : Base(u, k, z) = Base(t, k + 1, s)
  BY <1>6, <1>7, RestBase DEF z
<1>9. Requests(u.id, z) = {} /\ z.open =>
         /\ \E w \in z.watched :
                /\ w.target = u.id /\ w.told = Base(u, Len(z.down) + 1, z)
                /\ w.current => w.told > 0
         /\ \A k \in Live(u.id, z) :
                NamedIn(u.id, z.down[k]) =
                NamedSince(u.id, Base(u, k, z), z.down[k])
  <2> SUFFICES ASSUME Requests(t.id, s) = {}, s.open
               PROVE  /\ \E w \in s.watched :
                           /\ w.target = t.id /\ w.told = Base(t, n + 1, s)
                           /\ w.current => w.told > 0
                      /\ \A k \in Live(t.id, z) :
                           NamedIn(t.id, s.down[k + 1]) =
                           NamedSince(t.id, Base(t, k + 1, s), s.down[k + 1])
    <3>1. (n - 1) + 1 = n /\ n \in 1..n
      BY <1>1
    <3>2. Base(u, Len(z.down) + 1, z) = Base(t, n + 1, s)
      BY <3>1, <1>1, <1>8
    <3>3. \A k \in Live(t.id, z) : /\ Base(u, k, z) = Base(t, k + 1, s)
                                   /\ z.down[k] = s.down[k + 1]
      BY <1>1, <1>8
    <3> QED BY <1>1, <1>6, <3>2, <3>3
  <2>1. \A k \in Live(t.id, z) : k + 1 \in Live(t.id, s)
    BY <1>1
  <2> QED BY <2>1 DEF Tracked
<1>10. Tracked(u, z)
  <2>1. Requests(u.id, z) # {} => z.up[LastOf(Requests(u.id, z))] = Watch(u)
    BY <1>1, <1>6 DEF Tracked
  <2> QED BY <2>1, <1>1, <1>3, <1>6, <1>9 DEF Tracked
<1> QED BY <1>6, <1>10 DEF z, u

\* The phone takes a snapshot, which sets the token of a target it counts for.
LEMMA SnapshotHeardTracked ==
    ASSUME NEW t \in Target, NEW s \in Stream, s.down # <<>>, Ordered(s),
           Now \in Nat, Head(s.down).kind = "snapshot", Tracked(t, s),
           NEW u \in Target, u.id = t.id, u.responses = t.responses,
           IsActive(t) => /\ t.token <= u.token
                          /\ u.token = Head(s.down).version,
           ~IsActive(t) => u.token = t.token
    PROVE  Tracked(u, [s EXCEPT !.down = Tail(@)])
<1> DEFINE z == [s EXCEPT !.down = Tail(@)]
           n == Len(s.down)
           R == Requests(t.id, s)
           A == Answers(t.id, s)
<1>1. /\ z \in Stream /\ n \in Nat /\ n > 0
      /\ Head(s.down) = s.down[1]
      /\ Len(z.down) = n - 1
      /\ \A i \in 1..(n - 1) : z.down[i] = s.down[i + 1]
      /\ z.up = s.up /\ z.open = s.open /\ z.watched = s.watched
      /\ Requests(t.id, z) = Requests(t.id, s)
      /\ Answers(t.id, z) = {i \in 1..(n - 1) : i + 1 \in Answers(t.id, s)}
      /\ Live(t.id, z) = {i \in 1..(n - 1) : i + 1 \in Live(t.id, s)}
  BY RestIs
<1>2. IsActive(t) <=> R = {} /\ A = {}
  BY ActiveIs
<1>3. Cardinality(R) + Cardinality(A) = t.responses
  BY DEF Tracked
<1> HIDE DEF z
<1>4. Cardinality(Answers(t.id, z)) = Cardinality(A)
  <2>1. A \in SUBSET (2..n)
    BY <1>1 DEF Answers
  <2> HIDE DEF A
  <2>2. Cardinality({i \in 1..(n - 1) : i + 1 \in A}) = Cardinality(A)
    BY <2>1, <1>1, ShiftedCardinality
  <2> QED BY <2>2, <1>1 DEF A
<1>5. R # {} => Watch(u) = Watch(t)
  BY <1>2 DEF Watch
<1>6. ASSUME R = {}, NEW k \in 1..n
      PROVE  Base(u, k, z) = Base(t, k + 1, s)
  <2>1. CASE A = {}
    <3>1. 1 \in Live(t.id, s)
      BY <2>1, <1>1 DEF Live, Snapshots
    <3>2. t.token <= u.token /\ u.token = s.down[1].version
      BY <1>1, <1>2, <1>6, <2>1
    <3> QED BY <3>1, <3>2, RestBase DEF z
  <2>2. CASE A # {}
    <3>1. 1 \notin Live(t.id, s)
      BY <2>2, <1>1 DEF Live, Answers
    <3>2. u.token = t.token
      BY <1>2, <1>6, <2>2
    <3> QED BY <3>1, <3>2, RestBase DEF z
  <2> QED BY <2>1, <2>2
<1>7. Requests(u.id, z) = {} /\ z.open =>
         /\ \E w \in z.watched :
                /\ w.target = u.id /\ w.told = Base(u, Len(z.down) + 1, z)
                /\ w.current => w.told > 0
         /\ \A k \in Live(u.id, z) :
                NamedIn(u.id, z.down[k]) =
                NamedSince(u.id, Base(u, k, z), z.down[k])
  <2> SUFFICES ASSUME R = {}, s.open
               PROVE  /\ \E w \in s.watched :
                           /\ w.target = t.id /\ w.told = Base(t, n + 1, s)
                           /\ w.current => w.told > 0
                      /\ \A k \in Live(t.id, z) :
                           NamedIn(t.id, s.down[k + 1]) =
                           NamedSince(t.id, Base(t, k + 1, s), s.down[k + 1])
    <3>1. (n - 1) + 1 = n /\ n \in 1..n
      BY <1>1
    <3>2. R = {} => Base(u, Len(z.down) + 1, z) = Base(t, n + 1, s)
      BY <3>1, <1>1, <1>6
    <3>3. R = {} => \A k \in Live(t.id, z) :
                       /\ Base(u, k, z) = Base(t, k + 1, s)
                       /\ z.down[k] = s.down[k + 1]
      BY <1>1, <1>6
    <3> QED BY <1>1, <3>2, <3>3
  <2>1. \A k \in Live(t.id, z) : k + 1 \in Live(t.id, s)
    BY <1>1
  <2> QED BY <2>1 DEF Tracked
<1>8. Tracked(u, z)
  <2>1. Requests(u.id, z) # {} => z.up[LastOf(Requests(u.id, z))] = Watch(u)
    BY <1>1, <1>5 DEF Tracked
  <2> QED BY <2>1, <1>1, <1>3, <1>4, <1>7 DEF Tracked
<1> QED BY <1>8 DEF z

\* The server has at most one entry for a target.
OneEach(s) == \A w, x \in s.watched : w.target = x.target => w = x

\* What Answer does to the stream.
Answering(s) ==
    LET r == Head(s.up)
        rest == {w \in s.watched : w.target # r.target}
    IN  [s EXCEPT
         !.up = Tail(@),
         !.down = Append(@, [kind |-> "answer", target |-> r.target]),
         !.watched = IF r.op = "unwatch" THEN rest
                     ELSE rest \cup {[target |-> r.target, told |-> r.token,
                                      current |-> FALSE]}]

\* What the server's answer to the first request changes in the stream.
LEMMA AnsweringIs ==
    ASSUME NEW s \in Stream, s.up # <<>>
    PROVE  LET r == Head(s.up)
               z == Answering(s)
               n == Len(s.down)
               m == Len(s.up)
           IN  /\ r \in Request /\ z \in Stream /\ n \in Nat /\ m \in Nat
               /\ m > 0 /\ r = s.up[1]
               /\ Len(z.up) = m - 1
               /\ \A i \in 1..(m - 1) : z.up[i] = s.up[i + 1]
               /\ Len(z.down) = n + 1
               /\ \A i \in 1..n : z.down[i] = s.down[i]
               /\ z.down[n + 1] = [kind |-> "answer", target |-> r.target]
               /\ z.open = s.open
               /\ z.watched =
                    {w \in s.watched : w.target # r.target} \cup
                    (IF r.op = "unwatch" THEN {}
                     ELSE {[target |-> r.target, told |-> r.token,
                            current |-> FALSE]})
<1> DEFINE r == Head(s.up)
           z == Answering(s)
           n == Len(s.down)
           m == Len(s.up)
           a == [kind |-> "answer", target |-> r.target]
           x == [target |-> r.target, told |-> r.token, current |-> FALSE]
<1>1. /\ s.up \in Seq(Request) /\ s.down \in Seq(Message)
      /\ n \in Nat /\ m \in Nat
      /\ s.watched \in SUBSET [target : Id, told : Nat, current : BOOLEAN]
  BY StreamFields
<1>2. /\ r \in Request /\ r = s.up[1] /\ Tail(s.up) \in Seq(Request)
      /\ Len(Tail(s.up)) = m - 1
      /\ \A i \in 1..(m - 1) : Tail(s.up)[i] = s.up[i + 1]
  BY <1>1, HeadTailProperties
<1>3. m > 0
  BY <1>1, EmptySeq
<1>4. r.target \in Id /\ r.token \in Nat
  BY <1>2 DEF Request
<1>5. a \in Message /\ x \in [target : Id, told : Nat, current : BOOLEAN]
  BY <1>4 DEF Message
<1>6. /\ Append(s.down, a) \in Seq(Message)
      /\ Len(Append(s.down, a)) = n + 1
      /\ \A i \in 1..n : Append(s.down, a)[i] = s.down[i]
      /\ Append(s.down, a)[n + 1] = a
  BY <1>1, <1>5, AppendProperties
<1>7. /\ z.up = Tail(s.up) /\ z.down = Append(s.down, a) /\ z.open = s.open
      /\ z.watched = {w \in s.watched : w.target # r.target} \cup
                     (IF r.op = "unwatch" THEN {} ELSE {x})
      /\ z = [open |-> s.open, up |-> Tail(s.up), down |-> Append(s.down, a),
              watched |-> z.watched]
  <2> DEFINE rest == {w \in s.watched : w.target # r.target}
             v == IF r.op = "unwatch" THEN rest ELSE rest \cup {x}
  <2>1. z = [s EXCEPT !.up = Tail(@), !.down = Append(@, a), !.watched = v]
    BY DEF Answering
  <2>2. s = [open |-> s.open, up |-> s.up, down |-> s.down,
             watched |-> s.watched]
    BY StreamFields
  <2>3. v = rest \cup (IF r.op = "unwatch" THEN {} ELSE {x})
    OBVIOUS
  <2> HIDE DEF z, v, a, x
  <2>4. z = [open |-> s.open, up |-> Tail(s.up), down |-> Append(s.down, a),
             watched |-> v]
    BY <2>1, <2>2
  <2> QED BY <2>3, <2>4
<1>8. z \in Stream
  <2>1. z.watched \in SUBSET [target : Id, told : Nat, current : BOOLEAN]
    BY <1>1, <1>5, <1>7
  <2>2. s.open \in BOOLEAN
    BY StreamFields
  <2> HIDE DEF z, a, x
  <2> QED BY <1>2, <1>6, <1>7, <2>1, <2>2 DEF Stream
<1> HIDE DEF z
<1> QED BY <1>1, <1>2, <1>3, <1>6, <1>7, <1>8 DEF z

\* The last of some positions when they are moved down by one.
Shifted(n, S, T) ==
    /\ S \in SUBSET (1..n) /\ T \in SUBSET (1..(n - 1))
    /\ \A i \in 1..(n - 1) : i \in T <=> i + 1 \in S

\* The last position of a set that is shifted by one is shifted by one.
LEMMA ShiftedLast ==
    ASSUME NEW n \in Nat, NEW S, NEW T, Shifted(n, S, T), T # {}
    PROVE  LastOf(S) = LastOf(T) + 1
<1>0. /\ S \in SUBSET (1..n) /\ T \in SUBSET (1..(n - 1))
      /\ \A i \in 1..(n - 1) : i \in T <=> i + 1 \in S
  BY DEF Shifted
<1>1. T \in SUBSET (0..n)
  BY <1>0
<1>2. LastOf(T) \in T /\ \A j \in T : j <= LastOf(T)
  BY <1>1, LastOfIsMax
<1>3. LastOf(T) + 1 \in S /\ LastOf(T) \in Nat
  <2>1. LastOf(T) \in 1..(n - 1)
    BY <1>0, <1>2
  <2> QED BY <1>0, <1>2, <2>1
<1>4. ASSUME NEW j \in S PROVE j <= LastOf(T) + 1
  <2>1. CASE j = 1
    BY <2>1, <1>3
  <2>2. CASE j # 1
    <3>1. j - 1 \in T
      <4>1. j - 1 \in 1..(n - 1) /\ (j - 1) + 1 = j
        BY <1>0, <2>2
      <4> QED BY <1>0, <4>1
    <3>2. j - 1 <= LastOf(T)
      BY <3>1, <1>2
    <3> QED BY <1>0, <3>2, <1>3
  <2> QED BY <2>1, <2>2
<1>5. S \in SUBSET Nat
  BY <1>0
<1> QED BY <1>3, <1>4, <1>5, LastOfIs

\* The server takes a request of another target.
LEMMA OtherAnsweringTracked ==
    ASSUME NEW t \in Target, NEW s \in Stream, s.up # <<>>, Tracked(t, s),
           Head(s.up).target # t.id
    PROVE  Tracked(t, Answering(s))
<1> DEFINE r == Head(s.up)
           z == Answering(s)
           n == Len(s.down)
           m == Len(s.up)
<1>1. /\ z \in Stream /\ n \in Nat /\ m \in Nat
      /\ m > 0 /\ r = s.up[1]
      /\ Len(z.up) = m - 1
      /\ \A i \in 1..(m - 1) : z.up[i] = s.up[i + 1]
      /\ Len(z.down) = n + 1
      /\ \A i \in 1..n : z.down[i] = s.down[i]
      /\ z.down[n + 1] = [kind |-> "answer", target |-> r.target]
      /\ z.open = s.open
      /\ \A w \in s.watched : w.target = t.id => w \in z.watched
  <2>1. \A w \in s.watched : w.target = t.id =>
            w \in {x \in s.watched : x.target # r.target}
    OBVIOUS
  <2> HIDE DEF z, n, m
  <2> QED BY <2>1, AnsweringIs DEF z, n, m
<1> HIDE DEF z
<1>2. /\ Requests(t.id, z) = {i \in 1..(m - 1) : i + 1 \in Requests(t.id, s)}
      /\ Requests(t.id, s) \in SUBSET (2..m)
  <2>1. \A i \in 1..(m - 1) : i + 1 \in 1..m /\ z.up[i] = s.up[i + 1]
    BY <1>1
  <2>2. Requests(t.id, z) = {i \in 1..(m - 1) : i + 1 \in Requests(t.id, s)}
    BY <1>1, <2>1 DEF Requests
  <2>3. ASSUME NEW k \in Requests(t.id, s) PROVE k \in 2..m
    <3>1. k \in 1..m /\ k # 1
      BY <1>1 DEF Requests
    <3> QED BY <3>1, <1>1
  <2> QED BY <2>2, <2>3
<1>3. Cardinality(Requests(t.id, z)) = Cardinality(Requests(t.id, s))
  <2> DEFINE R == Requests(t.id, s)
  <2> HIDE DEF R
  <2>1. Cardinality({i \in 1..(m - 1) : i + 1 \in R}) = Cardinality(R)
    BY <1>1, <1>2, ShiftedCardinality DEF R
  <2> QED BY <2>1, <1>2 DEF R
<1>4. /\ Answers(t.id, z) = Answers(t.id, s)
      /\ Snapshots(z) = Snapshots(s)
  <2>1. \A k \in 1..(n + 1) : k \in 1..n \/ k = n + 1
    BY <1>1
  <2>2. 1..n \subseteq 1..(n + 1)
    BY <1>1
  <2>3. Answers(t.id, z) = Answers(t.id, s)
    BY <1>1, <2>1, <2>2, SMTT(20) DEF Answers
  <2>4. Snapshots(z) = Snapshots(s)
    BY <1>1, <2>1, <2>2 DEF Snapshots
  <2> QED BY <2>3, <2>4
<1>5. Live(t.id, z) = Live(t.id, s) /\ Live(t.id, s) \subseteq 1..n
  BY <1>4 DEF Live, Snapshots
<1>6. \A k : Base(t, k, z) = Base(t, k, s)
  <2> TAKE k
  <2>1. {z.down[j].version : j \in {i \in Live(t.id, z) : i < k}} =
        {s.down[j].version : j \in {i \in Live(t.id, s) : i < k}}
    BY <1>1, <1>5, SMTT(20)
  <2> QED BY <2>1 DEF Base
<1>7. Base(t, n + 2, s) = Base(t, n + 1, s)
  <2>1. {i \in Live(t.id, s) : i < n + 2} = {i \in Live(t.id, s) : i < n + 1}
    BY <1>5, <1>1
  <2> QED BY <2>1 DEF Base
<1>8. Requests(t.id, z) # {} => z.up[LastOf(Requests(t.id, z))] = Watch(t)
  <2> HAVE Requests(t.id, z) # {}
  <2>1. Requests(t.id, s) # {} /\ Requests(t.id, s) \in SUBSET (1..m)
    BY <1>2
  <2>2. LastOf(Requests(t.id, s)) = LastOf(Requests(t.id, z)) + 1
    <3>1. Shifted(m, Requests(t.id, s), Requests(t.id, z)) /\ m \in Nat
      BY <2>1, <1>1, <1>2 DEF Shifted
    <3> QED BY <3>1, ShiftedLast
  <2>3. Requests(t.id, z) \in SUBSET (0..m)
    BY <1>2
  <2>4. LastOf(Requests(t.id, z)) \in 1..(m - 1)
    BY <2>3, <1>1, <1>2, LastOfIsMax
  <2> QED BY <2>1, <2>2, <2>4, <1>1 DEF Tracked
<1>9. Requests(t.id, z) = {} => Requests(t.id, s) = {}
  <2> SUFFICES ASSUME NEW k \in Requests(t.id, s)
               PROVE  k - 1 \in Requests(t.id, z)
    OBVIOUS
  <2>1. k - 1 \in 1..(m - 1) /\ (k - 1) + 1 = k
    BY <1>1, <1>2
  <2> QED BY <2>1, <1>2
<1>10. Requests(t.id, z) = {} /\ z.open =>
          /\ \E w \in z.watched :
                /\ w.target = t.id /\ w.told = Base(t, Len(z.down) + 1, z)
                /\ w.current => w.told > 0
          /\ \A k \in Live(t.id, z) :
                NamedIn(t.id, z.down[k]) =
                NamedSince(t.id, Base(t, k, z), z.down[k])
  <2> HAVE Requests(t.id, z) = {} /\ z.open
  <2>1. Requests(t.id, s) = {} /\ s.open
    BY <1>1, <1>9
  <2>2. Base(t, Len(z.down) + 1, z) = Base(t, n + 1, s)
    <3>1. (n + 1) + 1 = n + 2
      BY <1>1
    <3> QED BY <3>1, <1>1, <1>6, <1>7
  <2>3. PICK w \in s.watched :
                /\ w.target = t.id /\ w.told = Base(t, n + 1, s)
                /\ w.current => w.told > 0
    BY <2>1 DEF Tracked
  <2>4. w \in z.watched
    BY <2>3, <1>1
  <2>5. \A k \in Live(t.id, z) :
                NamedIn(t.id, z.down[k]) =
                NamedSince(t.id, Base(t, k, z), z.down[k])
    <3> TAKE k \in Live(t.id, z)
    <3>1. z.down[k] = s.down[k] /\ k \in Live(t.id, s)
      BY <1>1, <1>5
    <3>2. NamedIn(t.id, s.down[k]) =
          NamedSince(t.id, Base(t, k, s), s.down[k])
      BY <3>1, <2>1 DEF Tracked
    <3> QED BY <3>1, <3>2, <1>6
  <2> QED BY <2>2, <2>3, <2>4, <2>5
<1>11. Tracked(t, z)
  BY <1>3, <1>4, <1>8, <1>10 DEF Tracked
<1> QED BY <1>11 DEF z

\* The server takes a request of the target: if it is the last, it goes on from
\* the target's token.
LEMMA OwnAnsweringTracked ==
    ASSUME NEW t \in Target, NEW s \in Stream, s.up # <<>>, Tracked(t, s),
           Head(s.up).target = t.id
    PROVE  Tracked(t, Answering(s))
<1> DEFINE r == Head(s.up)
           z == Answering(s)
           n == Len(s.down)
           m == Len(s.up)
           R == Requests(t.id, s)
           A == Answers(t.id, s)
<1>1. /\ z \in Stream /\ n \in Nat /\ m \in Nat /\ r \in Request
      /\ m > 0 /\ r = s.up[1]
      /\ Len(z.up) = m - 1
      /\ \A i \in 1..(m - 1) : z.up[i] = s.up[i + 1]
      /\ Len(z.down) = n + 1
      /\ \A i \in 1..n : z.down[i] = s.down[i]
      /\ z.down[n + 1] = [kind |-> "answer", target |-> r.target]
      /\ z.open = s.open
      /\ z.watched =
              {w \in s.watched : w.target # r.target} \cup
                    (IF r.op = "unwatch" THEN {}
                     ELSE {[target |-> r.target, told |-> r.token,
                            current |-> FALSE]})
  BY AnsweringIs
<1> HIDE DEF z
<1>2. /\ 1 \in R /\ R \in SUBSET (1..m)
      /\ Requests(t.id, z) = {i \in 1..(m - 1) : i + 1 \in R}
      /\ R \ {1} \in SUBSET (2..m)
      /\ Requests(t.id, z) = {i \in 1..(m - 1) : i + 1 \in R \ {1}}
  <2>1. \A i \in 1..(m - 1) : i + 1 \in 1..m /\ z.up[i] = s.up[i + 1]
    BY <1>1
  <2>2. Requests(t.id, z) = {i \in 1..(m - 1) : i + 1 \in R}
    BY <1>1, <2>1 DEF Requests
  <2>3. 1 \in R /\ R \in SUBSET (1..m)
    BY <1>1 DEF Requests
  <2>4. ASSUME NEW k \in R \ {1} PROVE k \in 2..m
    BY <2>3, <1>1
  <2>5. \A i \in 1..(m - 1) : i + 1 # 1
    BY <1>1
  <2>6. Requests(t.id, z) = {i \in 1..(m - 1) : i + 1 \in R \ {1}}
    <3> HIDE DEF R
    <3> QED BY <2>2, <2>5
  <2> QED BY <2>2, <2>3, <2>4, <2>6
<1>3. Cardinality(Requests(t.id, z)) = Cardinality(R \ {1})
  <2>1. PICK P : P = R \ {1}
    OBVIOUS
  <2> HIDE DEF R
  <2>2. P \in SUBSET (2..m) /\ m \in Nat
    BY <1>1, <1>2, <2>1
  <2>3. Cardinality({i \in 1..(m - 1) : i + 1 \in P}) = Cardinality(P)
    BY <2>2, ShiftedCardinality
  <2>4. Requests(t.id, z) = {i \in 1..(m - 1) : i + 1 \in P}
    BY <1>2, <2>1
  <2> QED BY <2>1, <2>3, <2>4
<1>4. /\ Answers(t.id, z) = A \cup {n + 1} /\ n + 1 \notin A
      /\ Snapshots(z) = Snapshots(s) /\ Snapshots(s) \subseteq 1..n
  <2>1. \A k \in 1..(n + 1) : k \in 1..n \/ k = n + 1
    BY <1>1
  <2>2. 1..n \subseteq 1..(n + 1) /\ n + 1 \in 1..(n + 1) /\ n + 1 \notin 1..n
    BY <1>1
  <2>3. Answers(t.id, z) = A \cup {n + 1} /\ n + 1 \notin A
    BY <1>1, <2>1, <2>2 DEF Answers
  <2>4. Snapshots(z) = Snapshots(s) /\ Snapshots(s) \subseteq 1..n
    BY <1>1, <2>1, <2>2 DEF Snapshots
  <2> QED BY <2>3, <2>4
<1>5. Live(t.id, z) = {}
  <2>1. \A k \in 1..n : ~(n + 1 < k)
    BY <1>1
  <2> QED BY <2>1, <1>4 DEF Live
<1>6. \A k : Base(t, k, z) = t.token
  <2> TAKE k
  <2>1. {z.down[j].version : j \in {i \in Live(t.id, z) : i < k}} = {}
    BY <1>5
  <2>2. LastOf({t.token}) = t.token
    <3>1. t.token \in Nat
      BY DEF Target
    <3>2. {t.token} \in SUBSET Nat /\ \A j \in {t.token} : j <= t.token
      BY <3>1
    <3> QED BY <3>2, LastOfIs
  <2>3. {t.token} \cup {} = {t.token}
    OBVIOUS
  <2> QED BY <2>1, <2>2, <2>3 DEF Base
<1>7. Cardinality(Requests(t.id, z)) + Cardinality(Answers(t.id, z))
         = t.responses
  <2>1. /\ IsFiniteSet(R) /\ IsFiniteSet(A) /\ Cardinality(R) \in Nat
        /\ Cardinality(A) \in Nat
        /\ Cardinality(R) + Cardinality(A) = t.responses
    BY RequestsFinite DEF Tracked
  <2> HIDE DEF R, A
  <2>2. Cardinality(R \ {1}) = Cardinality(R) - 1
    BY <1>2, <2>1, FS_RemoveElement
  <2>3. Cardinality(A \cup {n + 1}) = Cardinality(A) + 1
    BY <1>4, <2>1, FS_AddElement
  <2> QED BY <2>1, <2>2, <2>3, <1>3, <1>4
<1>8. Requests(t.id, z) # {} => z.up[LastOf(Requests(t.id, z))] = Watch(t)
  <2> HAVE Requests(t.id, z) # {}
  <2>2. LastOf(R) = LastOf(Requests(t.id, z)) + 1
    <3>1. /\ m \in Nat /\ R \in SUBSET (1..m)
          /\ Requests(t.id, z) = {i \in 1..(m - 1) : i + 1 \in R}
      BY <1>1, <1>2 DEF Requests
    <3>2. PICK T : T = Requests(t.id, z)
      OBVIOUS
    <3>3. PICK S : S = R
      OBVIOUS
    <3> HIDE DEF R, m
    <3>4. m \in Nat /\ T # {} /\ Shifted(m, S, T)
      BY <3>1, <3>2, <3>3 DEF Shifted
    <3>5. LastOf(S) = LastOf(T) + 1
      BY <3>4, ShiftedLast
    <3> QED BY <3>2, <3>3, <3>5
  <2>3. Requests(t.id, z) \in SUBSET (0..m)
    BY <1>2
  <2>4. LastOf(Requests(t.id, z)) \in 1..(m - 1)
    BY <2>3, <1>1, <1>2, LastOfIsMax
  <2>5. s.up[LastOf(R)] = Watch(t)
    BY <1>2 DEF Tracked
  <2> QED BY <2>2, <2>4, <2>5, <1>1
<1>9. Requests(t.id, z) = {} =>
         [target |-> t.id, told |-> t.token, current |-> FALSE] \in z.watched
  <2> HAVE Requests(t.id, z) = {}
  <2>1. R = {1}
    <3> SUFFICES ASSUME NEW k \in R, k # 1 PROVE k - 1 \in Requests(t.id, z)
      BY <1>2
    <3>1. k - 1 \in 1..(m - 1) /\ (k - 1) + 1 = k
      BY <1>1, <1>2
    <3> QED BY <3>1, <1>2
  <2>2. LastOf(R) = 1
    BY <2>1, LastOfIs
  <2>3. r = Watch(t)
    BY <2>1, <2>2, <1>1 DEF Tracked
  <2>4. r.op = "watch" /\ r.target = t.id /\ r.token = t.token
    BY <2>3 DEF Watch
  <2> QED BY <2>4, <1>1
<1>10. Tracked(t, z)
  <2>1. Requests(t.id, z) = {} =>
          \E w \in z.watched :
              /\ w.target = t.id /\ w.told = Base(t, Len(z.down) + 1, z)
              /\ w.current => w.told > 0
    BY <1>6, <1>9
  <2> QED BY <2>1, <1>5, <1>7, <1>8 DEF Tracked
<1> QED BY <1>10 DEF z

\* The order of the snapshots and what the server watches, after an answer.
LEMMA AnsweringOrdered ==
    ASSUME NEW s \in Stream, s.up # <<>>, Ordered(s), OneEach(s)
    PROVE  Ordered(Answering(s)) /\ OneEach(Answering(s))
<1> DEFINE r == Head(s.up)
           z == Answering(s)
           n == Len(s.down)
<1>1. /\ n \in Nat
      /\ Len(z.down) = n + 1
      /\ \A i \in 1..n : z.down[i] = s.down[i]
      /\ z.down[n + 1] = [kind |-> "answer", target |-> r.target]
      /\ z.watched =
              {w \in s.watched : w.target # r.target} \cup
                    (IF r.op = "unwatch" THEN {}
                     ELSE {[target |-> r.target, told |-> r.token,
                            current |-> FALSE]})
  BY AnsweringIs
<1> HIDE DEF z
<1>2. Snapshots(z) = Snapshots(s)
  <2>1. \A k \in 1..(n + 1) : k \in 1..n \/ k = n + 1
    BY <1>1
  <2>2. 1..n \subseteq 1..(n + 1)
    BY <1>1
  <2> QED BY <1>1, <2>1, <2>2 DEF Snapshots
<1>3. \A k \in Snapshots(s) : z.down[k] = s.down[k]
  BY <1>1 DEF Snapshots
<1>4. Ordered(z)
  BY <1>2, <1>3 DEF Ordered
<1>5. OneEach(z)
  <2>1. \A w \in z.watched :
           \/ w \in s.watched /\ w.target # r.target
           \/ w = [target |-> r.target, told |-> r.token, current |-> FALSE]
    BY <1>1
  <2> SUFFICES ASSUME NEW w \in z.watched, NEW x \in z.watched,
                      w.target = x.target
               PROVE  w = x
    BY DEF OneEach
  <2>2. CASE w \in s.watched /\ w.target # r.target
    BY <2>1, <2>2 DEF OneEach
  <2>3. CASE w = [target |-> r.target, told |-> r.token, current |-> FALSE]
    BY <2>1, <2>3
  <2> QED BY <2>1, <2>2, <2>3
<1> QED BY <1>4, <1>5 DEF z

\* What Tell does to the stream.
TargetsNaming(s, how) ==
    [d \in Docs |-> {w.target : w \in {w \in s.watched : d \in Named(w, how)}}]
ToldUpToNow(s) ==
    {[w EXCEPT !.told = Now, !.current = TRUE] : w \in s.watched}
Existing(v) == {d \in Docs : Exists(d, v)}
Telling(s, how) ==
    [s EXCEPT
     !.down = Append(@,
        [kind |-> "snapshot", version |-> Now, how |-> how,
         docs |-> TargetsNaming(s, how), count |-> Cardinality(Existing(Now))]),
     !.watched = ToldUpToNow(s)]

\* What a snapshot the server sends changes in the stream.
LEMMA TellingIs ==
    ASSUME NEW s \in Stream, Now \in Nat,
           NEW how \in {"replay", "count", "reset"}
    PROVE  LET z == Telling(s, how)
               n == Len(s.down)
               m == z.down[n + 1]
           IN  /\ z \in Stream /\ n \in Nat
               /\ Len(z.down) = n + 1
               /\ \A i \in 1..n : z.down[i] = s.down[i]
               /\ m.kind = "snapshot" /\ m.version = Now /\ m.how = how
               /\ m.docs = TargetsNaming(s, how)
               /\ m.count = Cardinality(Existing(Now))
               /\ z.up = s.up /\ z.open = s.open
               /\ z.watched = ToldUpToNow(s)
               /\ Snapshots(z) = Snapshots(s) \cup {n + 1}
               /\ Snapshots(s) \subseteq 1..n
               /\ \A id : Requests(id, z) = Requests(id, s)
               /\ \A id : Answers(id, z) = Answers(id, s)
               /\ \A id : Live(id, z) = Live(id, s) \cup {n + 1}
<1> DEFINE z == Telling(s, how)
           n == Len(s.down)
           docs == TargetsNaming(s, how)
           count == Cardinality(Existing(Now))
           m == [kind |-> "snapshot", version |-> Now, how |-> how,
                 docs |-> docs, count |-> count]
           v == ToldUpToNow(s)
           W == [target : Id, told : Nat, current : BOOLEAN]
<1>1. /\ s.down \in Seq(Message) /\ n \in Nat
      /\ s.watched \in SUBSET W
      /\ s = [open |-> s.open, up |-> s.up, down |-> s.down,
              watched |-> s.watched]
      /\ s.open \in BOOLEAN /\ s.up \in Seq(Request)
  BY StreamFields
<1>2. docs \in [Docs -> SUBSET Id]
  <2>1. ASSUME NEW w \in s.watched PROVE w.target \in Id
    BY <1>1
  <2> QED BY <2>1 DEF TargetsNaming
<1>3. count \in Nat
  <2>1. Existing(Now) \in SUBSET Docs
    BY DEF Existing
  <2> QED BY <2>1, DocsAssumption, FS_Subset, FS_CardinalityType
<1>4. v \in SUBSET W
  <2>1. ASSUME NEW w \in s.watched
        PROVE  [w EXCEPT !.told = Now, !.current = TRUE] \in W
    BY <1>1
  <2> QED BY <2>1 DEF ToldUpToNow
<1>5. m \in Message
  <2> HIDE DEF docs, count
  <2> QED BY <1>2, <1>3 DEF Message
<1>6. /\ Append(s.down, m) \in Seq(Message)
      /\ Len(Append(s.down, m)) = n + 1
      /\ \A i \in 1..n : Append(s.down, m)[i] = s.down[i]
      /\ Append(s.down, m)[n + 1] = m
  BY <1>1, <1>5, AppendProperties
<1>7. z = [s EXCEPT !.down = Append(@, m), !.watched = v]
  BY DEF Telling
<1>8. /\ z = [open |-> s.open, up |-> s.up, down |-> Append(s.down, m),
              watched |-> v]
      /\ z.up = s.up /\ z.down = Append(s.down, m)
      /\ z.open = s.open /\ z.watched = v
  <2> HIDE DEF z, m, v
  <2> QED BY <1>1, <1>7
<1>9. z \in Stream
  <2> HIDE DEF z, m, v, W
  <2> QED BY <1>1, <1>4, <1>6, <1>8 DEF Stream, W
<1>10. m.kind = "snapshot" /\ m.version = Now /\ m.how = how
       /\ m.docs = docs /\ m.count = count
  OBVIOUS
<1> HIDE DEF z, m
<1>11. /\ Snapshots(z) = Snapshots(s) \cup {n + 1}
       /\ Snapshots(s) \subseteq 1..n
       /\ \A id : Requests(id, z) = Requests(id, s)
       /\ \A id : Answers(id, z) = Answers(id, s)
  <2>1. /\ \A k \in 1..(n + 1) : k \in 1..n \/ k = n + 1
        /\ 1..n \subseteq 1..(n + 1) /\ n + 1 \in 1..(n + 1)
        /\ Len(z.down) = n + 1
        /\ \A i \in 1..n : z.down[i] = s.down[i]
        /\ z.down[n + 1].kind = "snapshot"
    <3>1. n \in Nat
      BY <1>1
    <3>2. /\ \A k \in 1..(n + 1) : k \in 1..n \/ k = n + 1
          /\ 1..n \subseteq 1..(n + 1) /\ n + 1 \in 1..(n + 1)
      BY <3>1
    <3>3. /\ Len(z.down) = n + 1
          /\ \A i \in 1..n : z.down[i] = s.down[i]
          /\ z.down[n + 1].kind = "snapshot"
      BY <1>6, <1>8, <1>10
    <3> QED BY <3>2, <3>3
  <2>2. Snapshots(z) = Snapshots(s) \cup {n + 1}
    BY <2>1 DEF Snapshots
  <2>3. \A id : Answers(id, z) = Answers(id, s)
    BY <2>1 DEF Answers
  <2>4. \A id : Requests(id, z) = Requests(id, s)
    BY <1>8 DEF Requests
  <2> QED BY <2>2, <2>3, <2>4 DEF Snapshots
<1>12. ASSUME NEW id PROVE Live(id, z) = Live(id, s) \cup {n + 1}
  <2>1. \A j \in Answers(id, s) : j < n + 1
    BY <1>1 DEF Answers
  <2> QED BY <2>1, <1>11 DEF Live
<1>13. /\ Len(z.down) = n + 1
       /\ \A i \in 1..n : z.down[i] = s.down[i]
       /\ z.down[n + 1] = m
  BY <1>6, <1>8
<1> QED BY <1>1, <1>8, <1>9, <1>10, <1>11, <1>12, <1>13 DEF z

\* A snapshot the server sends keeps a target in step with the server.
LEMMA TellingTracked ==
    ASSUME NEW t \in Target, NEW s \in Stream, Now \in Nat, Now > 0,
           NEW how \in {"replay", "count", "reset"},
           Tracked(t, s), Ordered(s), OneEach(s), t.token <= Now,
           how # "replay" => \E w \in s.watched :
                                w.target = Query /\ ~w.current /\ w.told > 0
    PROVE  Tracked(t, Telling(s, how))
<1> DEFINE z == Telling(s, how)
           n == Len(s.down)
           m == z.down[n + 1]
<1>1. /\ z \in Stream /\ n \in Nat
      /\ Len(z.down) = n + 1
      /\ \A i \in 1..n : z.down[i] = s.down[i]
      /\ m.version = Now /\ m.how = how
      /\ m.docs = TargetsNaming(s, how)
      /\ z.up = s.up /\ z.open = s.open
      /\ z.watched = ToldUpToNow(s)
      /\ Snapshots(s) \subseteq 1..n
      /\ Requests(t.id, z) = Requests(t.id, s)
      /\ Answers(t.id, z) = Answers(t.id, s)
      /\ Live(t.id, z) = Live(t.id, s) \cup {n + 1}
  <2> QED BY TellingIs, SMTT(90)
<1> HIDE DEF z
<1>2. Live(t.id, s) \subseteq 1..n
  BY <1>1 DEF Live
<1>3. ASSUME NEW k \in 1..(n + 1) PROVE Base(t, k, z) = Base(t, k, s)
  <2>1. {i \in Live(t.id, z) : i < k} = {i \in Live(t.id, s) : i < k}
    BY <1>1
  <2>2. {z.down[j].version : j \in {i \in Live(t.id, z) : i < k}} =
        {s.down[j].version : j \in {i \in Live(t.id, s) : i < k}}
    BY <1>1, <1>2, <2>1
  <2> QED BY <2>2 DEF Base
<1>4. Base(t, n + 2, z) = Now
  <2> DEFINE S == {t.token} \cup
                  {z.down[j].version : j \in {i \in Live(t.id, z) : i < n + 2}}
  <2>1. \A j \in Live(t.id, z) : z.down[j].version \in Nat
                                 /\ z.down[j].version <= Now
    <3>1. \A j \in Live(t.id, s) : s.down[j].version \in 1..Now
      BY DEF Live, Ordered
    <3> QED BY <3>1, <1>1, <1>2
  <2>2. n + 1 \in Live(t.id, z) /\ n + 1 < n + 2
    BY <1>1
  <2>3. Now \in S
    BY <2>2, <1>1
  <2>4. S \in SUBSET Nat /\ \A j \in S : j <= Now
    BY <2>1 DEF Target
  <2> HIDE DEF S
  <2>5. LastOf(S) = Now
    BY <2>3, <2>4, LastOfIs
  <2> QED BY <2>5 DEF Base, S
<1>5. Requests(t.id, z) = {} /\ z.open =>
          /\ \E w \in z.watched :
                /\ w.target = t.id /\ w.told = Base(t, Len(z.down) + 1, z)
                /\ w.current => w.told > 0
          /\ \A k \in Live(t.id, z) :
                NamedIn(t.id, z.down[k]) =
                NamedSince(t.id, Base(t, k, z), z.down[k])
  <2> HAVE Requests(t.id, z) = {} /\ z.open
  <2>1. Requests(t.id, s) = {} /\ s.open
    BY <1>1
  <2>2. PICK w \in s.watched :
                /\ w.target = t.id /\ w.told = Base(t, n + 1, s)
                /\ w.current => w.told > 0
    BY <2>1 DEF Tracked
  <2>3. w \in [target : Id, told : Nat, current : BOOLEAN]
    BY StreamFields
  <2>4. \E x \in z.watched :
                /\ x.target = t.id /\ x.told = Base(t, Len(z.down) + 1, z)
                /\ x.current => x.told > 0
    <3> DEFINE x == [w EXCEPT !.told = Now, !.current = TRUE]
    <3>1. x.target = t.id /\ x.told = Now
      BY <2>2, <2>3
    <3>2. (n + 1) + 1 = n + 2
      BY <1>1
    <3>3. x \in z.watched
      BY <1>1 DEF ToldUpToNow
    <3> QED BY <3>1, <3>2, <3>3, <1>1, <1>4
  <2>5. ASSUME NEW k \in Live(t.id, s)
        PROVE  NamedIn(t.id, z.down[k]) =
               NamedSince(t.id, Base(t, k, z), z.down[k])
    <3>1. k \in 1..n /\ k \in 1..(n + 1)
      BY <1>1, <1>2
    <3>2. NamedIn(t.id, s.down[k]) =
          NamedSince(t.id, Base(t, k, s), s.down[k])
      BY <2>1 DEF Tracked
    <3> QED BY <3>1, <3>2, <1>1, <1>3
  <2>6. NamedIn(t.id, m) = {d \in Docs : d \in Named(w, how)}
    <3>1. ASSUME NEW d \in Docs
          PROVE  t.id \in m.docs[d] <=> d \in Named(w, how)
      <4>1. m.docs[d] = {x.target : x \in {x \in s.watched : d \in Named(x, how)}}
        BY <1>1 DEF TargetsNaming
      <4>2. \A x \in s.watched : x.target = t.id => x = w
        BY <2>2 DEF OneEach
      <4> QED BY <4>1, <4>2, <2>2
    <3> QED BY <3>1 DEF NamedIn
  <2>7. ASSUME NEW d \in Docs
        PROVE  d \in Named(w, how) <=> d \in NamedSince(t.id, w.told, m)
    <3>1. w.current => (w.told > 0 /\ (t.id = Query => how = "replay"))
      <4>1. w.target = Query /\ w.current => how = "replay"
        <5> SUFFICES ASSUME w.target = Query, w.current, how # "replay"
                     PROVE  FALSE
          OBVIOUS
        <5>1. PICK x \in s.watched : x.target = Query /\ ~x.current
          OBVIOUS
        <5> QED BY <5>1 DEF OneEach
      <4> QED BY <4>1, <2>2
    <3> QED BY <3>1, <2>2, <1>1 DEF Named, NamedSince
  <2>8. NamedIn(t.id, m) = NamedSince(t.id, Base(t, n + 1, z), m)
    <3>1. n + 1 \in 1..(n + 1)
      BY <1>1
    <3>2. Base(t, n + 1, z) = w.told
      BY <3>1, <1>3, <2>2
    <3>3. NamedSince(t.id, w.told, m) \subseteq Docs
      BY DEF NamedSince
    <3> QED BY <2>6, <2>7, <3>2, <3>3
  <2>9. \A k \in Live(t.id, z) : k \in Live(t.id, s) \/ k = n + 1
    BY <1>1
  <2> QED BY <2>4, <2>5, <2>8, <2>9
<1>6. Tracked(t, z)
  BY <1>1, <1>5 DEF Tracked
<1> QED BY <1>6 DEF z

\* A snapshot the server sends comes after those it has sent before, and no
\* target is watched twice.
LEMMA TellingOrdered ==
    ASSUME NEW s \in Stream, Now \in Nat, Now > 0,
           NEW how \in {"replay", "count", "reset"}, Ordered(s), OneEach(s)
    PROVE  Ordered(Telling(s, how)) /\ OneEach(Telling(s, how))
<1> DEFINE z == Telling(s, how)
           n == Len(s.down)
<1>1. /\ n \in Nat
      /\ \A i \in 1..n : z.down[i] = s.down[i]
      /\ z.down[n + 1].version = Now
      /\ z.watched = ToldUpToNow(s)
      /\ Snapshots(z) = Snapshots(s) \cup {n + 1}
      /\ Snapshots(s) \subseteq 1..n
  BY TellingIs
<1> HIDE DEF z
<1>2. /\ \A k \in Snapshots(s) : z.down[k] = s.down[k] /\ k < n + 1
      /\ \A k \in Snapshots(s) : z.down[k].version \in 1..Now
  BY <1>1 DEF Ordered
<1>3. Ordered(z)
  <2>1. \A j, k \in Snapshots(s) :
           j < k => z.down[j].version <= z.down[k].version
    BY <1>2 DEF Ordered
  <2>2. Now \in 1..Now
    OBVIOUS
  <2>3. \A k \in Snapshots(z) : k \in Snapshots(s) \/ k = n + 1
    BY <1>1
  <2>4. \A k \in Snapshots(s) : k \in 1..n
    BY <1>1
  <2>5. \A k \in Snapshots(z) : z.down[k].version \in 1..Now
    BY <1>1, <1>2, <2>2, <2>3
  <2>6. ASSUME NEW j \in Snapshots(z), NEW k \in Snapshots(z), j < k
        PROVE  z.down[j].version <= z.down[k].version
    <3>1. CASE k = n + 1
      <4>1. z.down[j].version \in 1..Now
        BY <2>5
      <4> QED BY <4>1, <1>1, <3>1
    <3>2. CASE k # n + 1
      <4>1. k \in Snapshots(s) /\ k \in 1..n
        BY <2>3, <2>4, <3>2
      <4>2. j \in Snapshots(s)
        BY <2>3, <2>6, <4>1, <1>1
      <4> QED BY <4>1, <4>2, <2>1, <2>6
    <3> QED BY <3>1, <3>2
  <2> QED BY <2>5, <2>6 DEF Ordered
<1>4. OneEach(z)
  <2> SUFFICES ASSUME NEW w \in z.watched, NEW x \in z.watched,
                      w.target = x.target
               PROVE  w = x
    BY DEF OneEach
  <2>1. s.watched \in SUBSET [target : Id, told : Nat, current : BOOLEAN]
    BY StreamFields
  <2>2. PICK a \in s.watched : w = [a EXCEPT !.told = Now, !.current = TRUE]
    BY <1>1 DEF ToldUpToNow
  <2>3. PICK b \in s.watched : x = [b EXCEPT !.told = Now, !.current = TRUE]
    BY <1>1 DEF ToldUpToNow
  <2>4. a.target = b.target
    BY <2>1, <2>2, <2>3
  <2> QED BY <2>2, <2>3, <2>4 DEF OneEach
<1> QED BY <1>3, <1>4 DEF z

-----------------------------------------------------------------------------
(* Targets and the stream when snapshots are emitted *)

\* There is one target for the query and at most one for each document; a limbo
\* target knows whether its document exists at its token.
TargetsOK(ts, last) ==
    /\ ts \in SUBSET Target /\ IsFiniteSet(ts)
    /\ \E t \in ts : t.id = Query
    /\ \A t \in ts : t.token <= Now
    /\ \A t \in ts :
          t.id # Query => /\ t.id.doc \in Docs
                          /\ t.id.number > 0 /\ t.id.number <= last
                          /\ t.received = Exists(t.id.doc, t.token)
    /\ \A t, u \in ts : t.id.doc = u.id.doc => t = u

\* No message is about a target still to come, snapshots come in order, and
\* all is tracked.
StreamOK(s, ts, last) ==
    /\ s \in Stream /\ Ordered(s) /\ OneEach(s)
    /\ ~s.open => s = Closed
    /\ \A k \in 1..Len(s.up) : s.up[k].target.number <= last
    /\ \A k \in 1..Len(s.down) :
          s.down[k].kind = "answer" => s.down[k].target.number <= last
    /\ \A t \in ts : \A k \in Snapshots(s) : t.token <= s.down[k].version
    /\ \A t \in ts : Tracked(t, s)

\* The pieces of Emit: the documents to listen to on their own, the targets that
\* go, those that come, and the requests.
Lost(v, ts) == IF v.current THEN InLimbo(v) ELSE LimboDocs(ts)
Gone(v, ts) == {t \in ts : t.id # Query /\ t.id.doc \notin Lost(v, ts)}
LimboTarget(d) == [id |-> [number |-> lastLimbo + 1, doc |-> d], token |-> 0,
                   received |-> FALSE, responses |-> 0]
Found(v, ts) == {LimboTarget(d) : d \in Lost(v, ts) \ LimboDocs(ts)}
Sent(v, ts) == SetToSeq({Unwatch(t) : t \in Gone(v, ts)})
               \o SetToSeq({Watch(t) : t \in Found(v, ts)})

\* What a view that is computed changes: the targets of the documents in limbo,
\* the requests for them and what the app is told.
LEMMA EmitIs ==
    ASSUME NEW v, NEW ts, NEW s, NEW state, Emit(v, ts, s, state)
    PROVE  /\ view' = v
           /\ targets' = (ts \ Gone(v, ts)) \cup {Asked(t) : t \in Found(v, ts)}
           /\ lastLimbo' = IF Found(v, ts) = {} THEN lastLimbo
                           ELSE lastLimbo + 1
           /\ stream' = IF s.open THEN [s EXCEPT !.up = @ \o Sent(v, ts)] ELSE s
           /\ Raise(v, targets', state)
BY DEF Emit, Gone, Found, Sent, Lost, LimboTarget

\* The assumptions on the constants in the form the provers need.
LEMMA ConstantsType ==
    /\ IsFiniteSet(Docs) /\ Docs # {} /\ Collection \notin Docs
    /\ Nothing \notin Nat
    /\ MaxCommits \in Nat /\ MaxWrites \in Nat /\ MaxTroubles \in Nat
BY DocsAssumption, NothingAssumption, ListenerBoundsAssumption

\* The query's own target id.
LEMMA QueryType ==
    Query \in Id /\ Query.number = 0 /\ Query.doc = Collection
BY DEF Query, Id

\* The documents that come into limbo and the targets for them.
LEMMA FoundIs ==
    ASSUME NEW v \in View, NEW ts \in SUBSET Target, lastLimbo \in Nat
    PROVE  /\ Lost(v, ts) \ LimboDocs(ts) \subseteq Docs
           /\ Found(v, ts) \in SUBSET Target
           /\ {Asked(t) : t \in Found(v, ts)} \in SUBSET Target
           /\ \A t \in Found(v, ts) :
                 /\ t.id.number = lastLimbo + 1 /\ t.id.doc \in Docs
                 /\ t.id.doc \in Lost(v, ts) \ LimboDocs(ts)
                 /\ t.id # Query /\ t.token = 0 /\ t.received = FALSE
                 /\ t.responses = 0
                 /\ t = LimboTarget(t.id.doc)
                 /\ Asked(t).id = t.id /\ Asked(t).token = t.token
                 /\ Asked(t).received = t.received
                 /\ Asked(t).responses = IF stream.open THEN 1 ELSE 0
           /\ IsFiniteSet(Found(v, ts))
           /\ IsFiniteSet({Asked(t) : t \in Found(v, ts)})
           /\ IsFiniteSet({Watch(t) : t \in Found(v, ts)})
<1> DEFINE D == Lost(v, ts) \ LimboDocs(ts)
           F == Found(v, ts)
<1>1. D \subseteq Docs
  BY DEF Lost, InLimbo, LimboDocs
<1>2. \A d \in D : LimboTarget(d) \in Target
  BY <1>1 DEF LimboTarget, Target, Id
<1>3. ASSUME NEW t \in F
      PROVE  /\ t \in Target
             /\ t.id.number = lastLimbo + 1 /\ t.id.doc \in D
             /\ t.id # Query /\ t.token = 0 /\ t.received = FALSE
             /\ t.responses = 0
             /\ t = LimboTarget(t.id.doc)
  <2>1. PICK d \in D : t = LimboTarget(d)
    BY DEF Found
  <2> HIDE DEF D
  <2>2. t.id.number = lastLimbo + 1 /\ t.id.doc = d /\ t.token = 0
        /\ t.received = FALSE /\ t.responses = 0
    BY <2>1 DEF LimboTarget
  <2>3. t.id.number # Query.number
    BY <2>2, QueryType
  <2> QED BY <1>2, <2>1, <2>2, <2>3
<1>4. ASSUME NEW t \in F
      PROVE  /\ Asked(t) \in Target /\ Asked(t).id = t.id
             /\ Asked(t).token = t.token /\ Asked(t).received = t.received
             /\ Asked(t).responses = IF stream.open THEN 1 ELSE 0
  BY <1>3 DEF Asked, Target
<1>5. IsFiniteSet(D)
  BY <1>1, ConstantsType, FS_Subset
<1>6. IsFiniteSet(F)
  <2> DEFINE f == [d \in D |-> LimboTarget(d)]
  <2>1. f \in Surjection(D, F)
    BY DEF Surjection, Found
  <2> HIDE DEF D, F, f
  <2> QED BY <1>5, <2>1, FS_Surjection
<1>7. IsFiniteSet({Asked(t) : t \in F})
  <2> DEFINE f == [t \in F |-> Asked(t)]
             S == {Asked(t) : t \in F}
  <2>1. f \in Surjection(F, S)
    BY DEF Surjection
  <2> HIDE DEF F, f, S
  <2>2. IsFiniteSet(S)
    BY <1>6, <2>1, FS_Surjection
  <2> QED BY <2>2 DEF S
<1>8. IsFiniteSet({Watch(t) : t \in F})
  <2> DEFINE f == [t \in F |-> Watch(t)]
             S == {Watch(t) : t \in F}
  <2>1. f \in Surjection(F, S)
    BY DEF Surjection
  <2> HIDE DEF F, f, S
  <2>2. IsFiniteSet(S)
    BY <1>6, <2>1, FS_Surjection
  <2> QED BY <2>2 DEF S
<1> HIDE DEF F
<1>9. {Asked(t) : t \in F} \in SUBSET Target /\ F \in SUBSET Target
  BY <1>3, <1>4
<1> QED BY <1>1, <1>3, <1>4, <1>6, <1>7, <1>8, <1>9 DEF F

\* The requests that are sent: none about a target that stays, and one about
\* each that comes.
LEMMA SentIs ==
    ASSUME NEW v \in View, NEW ts \in SUBSET Target, lastLimbo \in Nat,
           TargetsOK(ts, lastLimbo)
    PROVE  /\ Sent(v, ts) \in Seq(Request)
           /\ \A i \in 1..Len(Sent(v, ts)) :
                 \/ Sent(v, ts)[i].target.number <= lastLimbo
                 \/ /\ Found(v, ts) # {}
                    /\ Sent(v, ts)[i].target.number = lastLimbo + 1
           /\ \A t \in ts \ Gone(v, ts) : \A i \in 1..Len(Sent(v, ts)) :
                 Sent(v, ts)[i].target # t.id
           /\ \A t \in Found(v, ts) : \E i \in 1..Len(Sent(v, ts)) :
                 /\ Sent(v, ts)[i] = Watch(t)
                 /\ \A j \in 1..Len(Sent(v, ts)) :
                       Sent(v, ts)[j].target = t.id => j = i
<1> DEFINE U == {Unwatch(t) : t \in Gone(v, ts)}
           W == {Watch(t) : t \in Found(v, ts)}
           a == SetToSeq(U)
           b == SetToSeq(W)
           r == Sent(v, ts)
<1>1. \A t \in ts : t \in Target /\ t.id \in Id /\ t.token \in Nat
  BY DEF Target
<1>2. Gone(v, ts) \in SUBSET ts
  BY DEF Gone
<1>3. IsFiniteSet(Gone(v, ts))
  BY <1>2, FS_Subset DEF TargetsOK
<1>4. IsFiniteSet(U)
  <2> DEFINE f == [t \in Gone(v, ts) |-> Unwatch(t)]
  <2>1. f \in Surjection(Gone(v, ts), U)
    BY DEF Surjection
  <2> HIDE DEF f, U
  <2> QED BY <1>3, <2>1, FS_Surjection
<1>5. IsFiniteSet(W)
  BY FoundIs
<1>6. U \in SUBSET Request
  BY <1>1, <1>2 DEF Unwatch, Request
<1>7. W \in SUBSET Request
  <2>1. ASSUME NEW t \in Found(v, ts) PROVE Watch(t) \in Request
    <3>1. t \in Target
      BY FoundIs
    <3> QED BY <3>1 DEF Target, Watch, Request
  <2> QED BY <2>1
<1>8. \A x \in U : \E t \in Gone(v, ts) : x.target = t.id
  BY DEF Unwatch
<1>9. \A x \in W : \E t \in Found(v, ts) : x = Watch(t) /\ x.target = t.id
  BY DEF Watch
<1>10. /\ a \in Seq(U) /\ b \in Seq(W)
       /\ \A x \in W : \E i \in 1..Len(b) : b[i] = x
       /\ \A i, j \in 1..Len(b) : b[i] = b[j] => i = j
  <2> HIDE DEF U, W
  <2> QED BY <1>4, <1>5, SetToSeqIs
<1>11. r = a \o b
  BY DEF Sent
<1> HIDE DEF U, W, a, b, r
<1>12. a \in Seq(Request) /\ b \in Seq(Request)
  BY <1>6, <1>7, <1>10, SeqMonotonic
<1>13. /\ r \in Seq(Request) /\ Len(r) = Len(a) + Len(b)
       /\ Len(a) \in Nat /\ Len(b) \in Nat
       /\ \A i \in 1..Len(a) : r[i] = a[i] /\ r[i] \in U
       /\ \A i \in 1..Len(b) : r[Len(a) + i] = b[i] /\ b[i] \in W
  <2>1. \A i \in 1..Len(a) : a[i] \in U
    BY <1>10, ElementOfSeq
  <2>2. \A i \in 1..Len(b) : b[i] \in W
    BY <1>10, ElementOfSeq
  <2>3. Len(a) \in Nat /\ Len(b) \in Nat
    BY <1>12, LenProperties
  <2> QED BY <1>11, <1>12, <2>1, <2>2, <2>3, ConcatProperties
<1>14. \A i \in 1..Len(r) :
          \/ i \in 1..Len(a) /\ r[i] \in U
          \/ /\ i - Len(a) \in 1..Len(b) /\ r[i] = b[i - Len(a)]
             /\ r[i] \in W
  <2> TAKE i \in 1..Len(r)
  <2>1. CASE i <= Len(a)
    BY <2>1, <1>13
  <2>2. CASE i > Len(a)
    <3>1. i - Len(a) \in 1..Len(b) /\ Len(a) + (i - Len(a)) = i
      BY <2>2, <1>13
    <3>2. r[i] = b[i - Len(a)] /\ b[i - Len(a)] \in W
      BY <3>1, <1>13
    <3> QED BY <3>1, <3>2
  <2> QED BY <2>1, <2>2, <1>13
<1>15. \A x \in U : /\ x.target.number <= lastLimbo
                    /\ \A t \in ts \ Gone(v, ts) : x.target # t.id
  <2> TAKE x \in U
  <2>1. PICK u \in Gone(v, ts) : x.target = u.id
    BY <1>8
  <2>2. u \in ts /\ u.id # Query
    BY DEF Gone
  <2>3. u.id.number <= lastLimbo
    BY <2>2 DEF TargetsOK
  <2>4. \A t \in ts \ Gone(v, ts) : t.id # u.id
    BY <2>2 DEF TargetsOK
  <2> QED BY <2>1, <2>3, <2>4
<1>16. \A t \in ts : t.id.number <= lastLimbo
  BY QueryType DEF TargetsOK
<1>17. \A x \in W : /\ Found(v, ts) # {} /\ x.target.number = lastLimbo + 1
                    /\ \A t \in ts : x.target # t.id
  <2> TAKE x \in W
  <2>1. PICK u \in Found(v, ts) : x.target = u.id
    BY <1>9
  <2>2. u.id.number = lastLimbo + 1
    BY FoundIs
  <2>3. \A t \in ts : t.id.number # lastLimbo + 1
    BY <1>1, <1>16 DEF Id
  <2> QED BY <2>1, <2>2, <2>3
<1>18. ASSUME NEW t \in Found(v, ts)
       PROVE  \E i \in 1..Len(r) :
                 /\ r[i] = Watch(t)
                 /\ \A j \in 1..Len(r) : r[j].target = t.id => j = i
  <2>1. Watch(t) \in W
    BY DEF W
  <2>2. PICK k \in 1..Len(b) : b[k] = Watch(t)
    BY <2>1, <1>10
  <2>3. Len(a) + k \in 1..Len(r) /\ r[Len(a) + k] = Watch(t)
    BY <2>2, <1>13
  <2>4. ASSUME NEW j \in 1..Len(r), r[j].target = t.id
        PROVE  j = Len(a) + k
    <3>1. t.id.number = lastLimbo + 1 /\ t = LimboTarget(t.id.doc)
      BY FoundIs
    <3>2. r[j] \notin U
      BY <2>4, <3>1, <1>15
    <3>3. j - Len(a) \in 1..Len(b) /\ r[j] = b[j - Len(a)] /\ r[j] \in W
      BY <1>14, <3>2
    <3>4. PICK u \in Found(v, ts) : r[j] = Watch(u) /\ r[j].target = u.id
      BY <3>3, <1>9
    <3>5. u = t
      <4>1. u = LimboTarget(u.id.doc)
        BY FoundIs
      <4> QED BY <4>1, <3>1, <3>4, <2>4
    <3>6. b[j - Len(a)] = b[k]
      BY <3>3, <3>4, <3>5, <2>2
    <3>7. j - Len(a) = k
      BY <3>3, <3>6, <1>10
    <3> QED BY <3>7, <1>13
  <2> QED BY <2>3, <2>4
<1>19. /\ \A i \in 1..Len(r) :
             \/ r[i].target.number <= lastLimbo
             \/ Found(v, ts) # {} /\ r[i].target.number = lastLimbo + 1
       /\ \A t \in ts \ Gone(v, ts) : \A i \in 1..Len(r) : r[i].target # t.id
  BY <1>14, <1>15, <1>17
<1> QED BY <1>13, <1>18, <1>19 DEF r

\* Emitting a view's snapshots leaves targets and stream in order, and its limbo
\* documents followed.
LEMMA EmitTracked ==
    ASSUME NEW v \in View, NEW ts, NEW s, NEW state,
           lastLimbo \in Nat, Now \in Nat, history \in Seq(Change),
           TargetsOK(ts, lastLimbo), StreamOK(s, ts, lastLimbo),
           s.open = stream.open, Emit(v, ts, s, state)
    PROVE  /\ TargetsOK(targets', lastLimbo')
           /\ StreamOK(stream', targets', lastLimbo')
           /\ lastLimbo' \in Nat
           /\ stream'.down = s.down
           /\ v.current => LimboDocs(targets') = InLimbo(v)
           /\ \A t \in ts : t.id = Query => t \in targets'
<1> DEFINE r == Sent(v, ts)
           F == Found(v, ts)
           G == Gone(v, ts)
           N == {Asked(t) : t \in F}
           z == IF s.open THEN [s EXCEPT !.up = @ \o r] ELSE s
           last == IF F = {} THEN lastLimbo ELSE lastLimbo + 1
           us == (ts \ G) \cup N
<1>1. /\ ts \in SUBSET Target /\ IsFiniteSet(ts)
      /\ s \in Stream
  BY DEF TargetsOK, StreamOK
<1>2. /\ targets' = us /\ lastLimbo' = last /\ stream' = z
  BY EmitIs
<1>3. /\ Lost(v, ts) \ LimboDocs(ts) \subseteq Docs
      /\ N \in SUBSET Target /\ IsFiniteSet(N)
      /\ \A t \in F :
            /\ t.id.number = lastLimbo + 1 /\ t.id.doc \in Docs
            /\ t.id.doc \in Lost(v, ts) \ LimboDocs(ts)
            /\ t.id # Query /\ t.token = 0 /\ t.received = FALSE
            /\ t = LimboTarget(t.id.doc) /\ t.responses = 0
            /\ Asked(t).id = t.id /\ Asked(t).token = t.token
            /\ Asked(t).received = t.received
            /\ Asked(t).responses = IF stream.open THEN 1 ELSE 0
  BY <1>1, FoundIs, ZenonT(40)
<1>4. /\ r \in Seq(Request)
      /\ \A i \in 1..Len(r) :
            \/ r[i].target.number <= lastLimbo
            \/ F # {} /\ r[i].target.number = lastLimbo + 1
      /\ \A t \in ts \ G : \A i \in 1..Len(r) : r[i].target # t.id
      /\ \A t \in F : \E i \in 1..Len(r) :
            /\ r[i] = Watch(t)
            /\ \A j \in 1..Len(r) : r[j].target = t.id => j = i
  BY <1>1, SentIs
<1>5. \A u \in N : \E t \in F : u = Asked(t)
  OBVIOUS
<1>6. G \subseteq ts
  BY DEF Gone
<1>7. /\ last \in Nat /\ lastLimbo <= last
      /\ F # {} => last = lastLimbo + 1
  OBVIOUS
<1>8. \A t \in ts : t.id = Query => t \in ts \ G
  BY DEF Gone
<1> HIDE DEF r, F, G, N, last, us, z
<1>9. \A u \in N :
         /\ u \in Target /\ u.token = 0 /\ u.id # Query /\ u.received = FALSE
         /\ u.id.doc \in Docs /\ u.id.number = lastLimbo + 1 /\ F # {}
         /\ u.id.doc \in Lost(v, ts) \ LimboDocs(ts)
         /\ u.responses = IF stream.open THEN 1 ELSE 0
  <2> TAKE u \in N
  <2>1. PICK t \in F : u = Asked(t)
    BY <1>5
  <2>2. F # {}
    BY <2>1
  <2> QED BY <1>3, <2>1, <2>2
<1>10. us = (ts \ G) \cup N
  BY DEF us
<1>11. TargetsOK(us, last)
  <2>1. us \in SUBSET Target
    BY <1>1, <1>3, <1>10
  <2>2. IsFiniteSet(us)
    <3>1. ts \ G \in SUBSET ts
      OBVIOUS
    <3>2. IsFiniteSet(ts \ G)
      BY <1>1, <3>1, FS_Subset
    <3> QED BY <3>2, <1>3, <1>10, FS_Union
  <2>3. \E t \in us : t.id = Query
    BY <1>8, <1>10 DEF TargetsOK
  <2>4. \A t \in us : t.token <= Now
    BY <1>9, <1>10 DEF TargetsOK
  <2>5. ASSUME NEW t \in us, t.id # Query
        PROVE  /\ t.id.doc \in Docs /\ t.id.number > 0 /\ t.id.number <= last
               /\ t.received = Exists(t.id.doc, t.token)
    <3>1. CASE t \in ts
      <4>1. /\ t.id.doc \in Docs /\ t.id.number > 0 /\ t.id.number <= lastLimbo
            /\ t.received = Exists(t.id.doc, t.token)
        BY <3>1, <2>5 DEF TargetsOK
      <4>2. t.id.number \in Nat
        BY <1>1, <3>1 DEF Target, Id
      <4> QED BY <4>1, <4>2, <1>7
    <3>2. CASE t \in N
      <4>1. ServerDoc(t.id.doc, 0).version = 0
        <5>1. 0 \in 0..Now
          OBVIOUS
        <5> QED BY <5>1, ServerDocIs
      <4>2. ServerDoc(t.id.doc, 0).value = Nothing
        <5>1. 0 \in 0..Now
          OBVIOUS
        <5> QED BY <5>1, <4>1, ServerDocIs
      <4>3. Exists(t.id.doc, 0) = FALSE
        BY <4>2 DEF Exists
      <4>4. /\ t.token = 0 /\ t.received = FALSE /\ t.id.doc \in Docs
            /\ t.id.number = lastLimbo + 1 /\ F # {}
        BY <3>2, <1>9
      <4>5. t.received = Exists(t.id.doc, t.token)
        BY <4>3, <4>4
      <4>6. t.id.number > 0 /\ t.id.number <= last
        BY <4>4, <1>7
      <4> QED BY <4>4, <4>5, <4>6
    <3> QED BY <3>1, <3>2, <1>10
  <2>6. ASSUME NEW t \in us, NEW u \in us, t.id.doc = u.id.doc
        PROVE  t = u
    <3>1. ASSUME NEW x \in ts, NEW y \in N PROVE x.id.doc # y.id.doc
      <4>1. y.id.doc \in Docs /\ y.id.doc \notin LimboDocs(ts)
        BY <1>9
      <4>2. y.id.doc # Collection
        BY <4>1, ConstantsType
      <4> QED BY <4>1, <4>2 DEF LimboDocs
    <3>2. CASE t \in ts /\ u \in ts
      BY <3>2, <2>6 DEF TargetsOK
    <3>3. CASE t \in N /\ u \in N
      <4>1. PICK a \in F : t = Asked(a)
        BY <3>3, <1>5
      <4>2. PICK b \in F : u = Asked(b)
        BY <3>3, <1>5
      <4>3. a.id.doc = b.id.doc
        BY <4>1, <4>2, <1>3, <2>6
      <4>4. a = b
        BY <4>3, <1>3
      <4> QED BY <4>1, <4>2, <4>4
    <3> QED BY <3>1, <3>2, <3>3, <2>6, <1>10
  <2> QED BY <2>1, <2>2, <2>3, <2>4, <2>5, <2>6 DEF TargetsOK
<1>12. z \in Stream /\ z.down = s.down /\ z.watched = s.watched
       /\ z.open = s.open
  <2>1. CASE ~s.open
    BY <2>1, <1>1 DEF z
  <2>2. CASE s.open
    <3>1. /\ s.up \in Seq(Request)
          /\ s = [open |-> s.open, up |-> s.up, down |-> s.down,
                  watched |-> s.watched]
      BY <1>1, StreamFields
    <3>2. s.up \o r \in Seq(Request)
      BY <3>1, <1>4, ConcatProperties
    <3>3. z = [open |-> s.open, up |-> s.up \o r, down |-> s.down,
               watched |-> s.watched]
      BY <2>2, <3>1 DEF z
    <3> QED BY <1>1, <3>2, <3>3 DEF Stream
  <2> QED BY <2>1, <2>2
<1>13. \A k \in 1..Len(z.up) : z.up[k].target.number <= last
  <2>1. \A k \in 1..Len(s.up) : s.up[k].target.number <= last
    <3>1. \A k \in 1..Len(s.up) : s.up[k] \in Request
      BY <1>1, StreamFields
    <3>2. \A k \in 1..Len(s.up) : s.up[k].target.number \in Nat
                                  /\ s.up[k].target.number <= lastLimbo
      BY <3>1 DEF Request, Id, StreamOK
    <3> QED BY <3>2, <1>7
  <2>2. CASE ~s.open
    BY <2>1, <2>2 DEF z
  <2>3. CASE s.open
    <3>1. \A i \in 1..Len(r) : r[i].target.number <= last
      <4>1. \A i \in 1..Len(r) : r[i].target.number \in Nat
        <5>1. \A i \in 1..Len(r) : r[i] \in Request
          BY <1>4, ElementOfSeq
        <5> QED BY <5>1 DEF Request, Id
      <4> QED BY <4>1, <1>4, <1>7
    <3>2. z.up = s.up \o r /\ s.up \in Seq(Request)
      BY <2>3, <1>1, StreamFields DEF z, Stream
    <3>3. /\ Len(z.up) = Len(s.up) + Len(r)
          /\ Len(s.up) \in Nat /\ Len(r) \in Nat
          /\ \A i \in 1..Len(z.up) :
                z.up[i] = IF i <= Len(s.up) THEN s.up[i] ELSE r[i - Len(s.up)]
      BY <3>2, <1>4, ConcatProperties, LenProperties
    <3> TAKE k \in 1..Len(z.up)
    <3>4. CASE k <= Len(s.up)
      <4>1. k \in 1..Len(s.up) /\ z.up[k] = s.up[k]
        BY <3>3, <3>4
      <4> QED BY <4>1, <2>1
    <3>5. CASE k > Len(s.up)
      <4>1. k - Len(s.up) \in 1..Len(r) /\ z.up[k] = r[k - Len(s.up)]
        BY <3>3, <3>5
      <4> QED BY <4>1, <3>1
    <3> QED BY <3>3, <3>4, <3>5
  <2> QED BY <2>2, <2>3
<1>14. ASSUME NEW t \in us
       PROVE  Tracked(t, z)
  <2>1. CASE t \in ts \ G
    <3>1. Tracked(t, s) /\ t \in Target
      BY <2>1, <1>1 DEF StreamOK
    <3>2. CASE s.open
      <4>1. Tracked(t, [s EXCEPT !.up = @ \o r])
        BY <2>1, <3>1, <1>1, <1>4, OthersTracked
      <4> QED BY <4>1, <3>2 DEF z
    <3>3. CASE ~s.open
      BY <3>1, <3>3 DEF z
    <3> QED BY <3>2, <3>3
  <2>2. CASE t \in N
    <3>0. t \in Target
      BY <2>2, <1>9
    <3>1. CASE ~s.open
      <4>1. t.responses = 0 /\ z = Closed
        BY <3>1, <2>2, <1>9 DEF z, StreamOK
      <4> QED BY <4>1, <3>0, ClosedTracked
    <3>2. CASE s.open
      <4>1. PICK a \in F : t = Asked(a)
        BY <2>2, <1>5
      <4>2. t.id = a.id /\ t.token = a.token
        BY <4>1, <1>3
      <4>3. Watch(t) = Watch(a)
        BY <4>2 DEF Watch
      <4>4. PICK i \in 1..Len(r) :
               /\ r[i] = Watch(t)
               /\ \A j \in 1..Len(r) : r[j].target = t.id => j = i
        BY <4>2, <4>3, <1>4
      <4>5. t.responses = 1 /\ t.id.number = lastLimbo + 1
        BY <3>2, <2>2, <1>9
      <4>6. Requests(t.id, s) = {}
        BY <4>5 DEF StreamOK, Requests
      <4>7. Answers(t.id, s) = {}
        BY <4>5 DEF StreamOK, Answers
      <4>8. {j \in 1..Len(r) : r[j].target = t.id} = {i}
        BY <4>4 DEF Watch
      <4>9. Cardinality({j \in 1..Len(r) : r[j].target = t.id}) = t.responses
        BY <4>8, <4>5, FS_Singleton
      <4>10. \A j \in (i + 1)..Len(r) : r[j].target # t.id
        <5>1. Len(r) \in Nat
          BY <1>4, LenProperties
        <5>2. \A j \in (i + 1)..Len(r) : j \in 1..Len(r) /\ j # i
          BY <5>1
        <5> QED BY <5>2, <4>4
      <4>11. Tracked(t, [s EXCEPT !.up = @ \o r])
        BY <3>0, <1>1, <1>4, <4>4, <4>6, <4>7, <4>9, <4>10, AskedTracked
      <4> QED BY <4>11, <3>2 DEF z
    <3> QED BY <3>1, <3>2
  <2> QED BY <2>1, <2>2, <1>10
<1>15. StreamOK(z, us, last)
  <2>1. Ordered(z) /\ OneEach(z) /\ (~z.open => z = Closed)
    <3>1. ~s.open => z = s
      BY DEF z
    <3> QED BY <1>12, <3>1 DEF StreamOK, Ordered, OneEach, Snapshots
  <2>2. \A k \in 1..Len(z.down) :
            z.down[k].kind = "answer" => z.down[k].target.number <= last
    <3>1. \A k \in 1..Len(s.down) : s.down[k] \in Message
      BY <1>1, StreamFields
    <3>2. \A k \in 1..Len(s.down) : s.down[k].kind = "answer" =>
              /\ s.down[k].target.number \in Nat
              /\ s.down[k].target.number <= lastLimbo
      BY <3>1, MessageFields DEF Id, StreamOK
    <3> QED BY <3>2, <1>7, <1>12
  <2>3. \A t \in us : \A k \in Snapshots(z) : t.token <= z.down[k].version
    <3>1. Snapshots(z) = Snapshots(s)
      BY <1>12 DEF Snapshots
    <3>2. \A k \in Snapshots(s) : 0 <= s.down[k].version
      BY DEF StreamOK, Ordered
    <3>3. \A t \in us : t \in ts \/ t.token = 0
      BY <1>9, <1>10
    <3> QED BY <3>1, <3>2, <3>3, <1>12 DEF StreamOK
  <2> QED BY <2>1, <2>2, <2>3, <1>12, <1>13, <1>14 DEF StreamOK
<1>16. v.current => LimboDocs(us) = InLimbo(v)
  <2> HAVE v.current
  <2>1. Lost(v, ts) = InLimbo(v) /\ InLimbo(v) \subseteq Docs
    BY DEF Lost, InLimbo
  <2>2. G = {t \in ts : t.id # Query /\ t.id.doc \notin InLimbo(v)}
    BY <2>1 DEF G, Gone
  <2>3. ASSUME NEW d \in LimboDocs(us) PROVE d \in InLimbo(v)
    <3>1. PICK t \in us : t.id.doc = d /\ d # Collection
      BY DEF LimboDocs
    <3>2. t.id # Query
      BY <3>1, QueryType
    <3>3. CASE t \in ts \ G
      BY <3>1, <3>2, <3>3, <2>2
    <3>4. CASE t \in N
      BY <3>1, <3>4, <1>9, <2>1
    <3> QED BY <3>3, <3>4, <1>10
  <2>4. ASSUME NEW d \in InLimbo(v) PROVE d \in LimboDocs(us)
    <3>1. d # Collection
      BY <2>1, ConstantsType
    <3>2. CASE d \in LimboDocs(ts)
      <4>1. PICK t \in ts : t.id.doc = d
        BY <3>2 DEF LimboDocs
      <4>2. t \in us
        BY <4>1, <2>2, <1>10
      <4> QED BY <4>1, <4>2, <3>1 DEF LimboDocs
    <3>3. CASE d \notin LimboDocs(ts)
      <4>1. LimboTarget(d) \in F
        BY <3>3, <2>1 DEF F, Found
      <4>2. Asked(LimboTarget(d)) \in N
        BY <4>1 DEF N
      <4>3. Asked(LimboTarget(d)).id = LimboTarget(d).id
        BY <4>1, <1>3
      <4>4. LimboTarget(d).id.doc = d
        BY DEF LimboTarget
      <4> QED BY <4>2, <4>3, <4>4, <3>1, <1>10 DEF LimboDocs
    <3> QED BY <3>2, <3>3
  <2> QED BY <2>3, <2>4
<1>17. \A t \in ts : t.id = Query => t \in us
  BY <1>8, <1>10
<1> QED BY <1>2, <1>7, <1>11, <1>12, <1>15, <1>16, <1>17

-----------------------------------------------------------------------------
(* The inductive invariant *)

\* Version i is a write of this phone to document d.
IsOwn(d, i) == history[i].doc = d /\ history[i].own

\* What is on its way back are the versions that the first writes of the queue
\* got, in order.
AcksInv ==
    /\ Len(acks) <= Len(queue)
    /\ \A j \in 1..Len(acks) :
          /\ acks[j] \in 1..Now
          /\ history[acks[j]].doc = queue[j].doc
          /\ history[acks[j]].value = queue[j].value
          /\ history[acks[j]].own
    /\ \A j, k \in 1..Len(acks) : j < k => acks[j] < acks[k]

\* No write of this phone is newer than what is cached of its document, but for
\* those the queue still holds.
OwnInv ==
    \A d \in Docs : \A i \in 1..Now :
        IsOwn(d, i) =>
            \/ i <= cache[d].version
            \/ \E j \in Mine(d, queue) : j <= Len(acks) => i <= acks[j]

\* The cache holds what the server had; a document is marked as committed only
\* while it is the phone's own and older than all that will be acknowledged.
CacheInv ==
    \A d \in Docs :
        /\ cache[d].version <= Now
        /\ cache[d].value = ServerDoc(d, cache[d].version).value
        /\ cache[d].committed =>
              /\ cache[d].version > 0 /\ IsOwn(d, cache[d].version)
              /\ \A j \in 1..Len(acks) : cache[d].version < acks[j]

\* The phone does not hold d back for the watch stream.
Settled(d) ==
    \/ ~cache[d].committed
    \/ Mine(d, queue) = {} /\ cache[d].value # Nothing /\ ~view.docs[d].local

\* A snapshot counts the documents of its version, and what it brings is news
\* but of documents held back.
MessagesInv ==
    \A k \in Snapshots(stream) :
        /\ stream.down[k].count = Cardinality(Existing(stream.down[k].version))
        /\ \A d \in Docs :
              Settled(d) => cache[d].version <= stream.down[k].version

\* What a view has of d when queue q is laid over cache c.
LastValue(d, q) == q[LastOf(Mine(d, q))].value
Laid(d, x, q, c) ==
    IF Mine(d, q) # {}
    THEN x.value = LastValue(d, q) /\ x.local = (LastValue(d, q) # Nothing)
    ELSE /\ x.value = c[d].value
         /\ x.local => c[d].committed /\ c[d].value # Nothing

\* The view shows the queue laid over the cache, and its documents in limbo are
\* those that are listened to.
ViewInv ==
    /\ \A d \in Docs : Laid(d, view.docs[d], queue, cache)
    /\ view.current => LimboDocs(targets) = InLimbo(view)
    /\ raised => shown = Values(view)
    /\ IsSynced(view, targets) => raised

\* All that existed at version token is in the cache.
Knows(token) ==
    \A d \in Docs : Exists(d, token) =>
        ServerDoc(d, token).version <= cache[d].version

\* The query's token is that of its keys, and a current view is ahead of it only
\* in documents that were in limbo.
KnowInv ==
    /\ disk.token <= Now /\ Knows(disk.token)
    /\ Knows(QueryTarget.token)
    /\ ~keysLost => view.synced = Existing(QueryTarget.token)
    /\ view.current =>
          \A d \in Docs :
              cache[d].version > QueryTarget.token /\ Settled(d) =>
                  /\ ~cache[d].committed
                  /\ d \notin view.synced
                  /\ \A i \in (QueryTarget.token + 1)..cache[d].version :
                        ~IsOwn(d, i)

\* The inductive invariant: every part of the state is in order, and the parts
\* agree with the history of the collection.
Inv ==
    /\ TypeOK /\ Now > 0
    /\ TargetsOK(targets, lastLimbo) /\ StreamOK(stream, targets, lastLimbo)
    /\ AcksInv /\ OwnInv /\ CacheInv
    /\ MessagesInv /\ ViewInv /\ KnowInv

-----------------------------------------------------------------------------
(* What a longer history leaves as it was *)

\* What the server had stays what it had.
Kept ==
    /\ Now \in Nat /\ Now' \in Nat /\ Now <= Now'
    /\ \A d \in Docs : \A v \in 0..Now : ServerDoc(d, v)' = ServerDoc(d, v)

\* A history that stays the same keeps what the server had.
LEMMA SameKept ==
    ASSUME history \in Seq(Change), UNCHANGED history
    PROVE  Kept
<1>1. Now \in Nat /\ Now' = Now
  BY LenProperties DEF Now
<1>2. ASSUME NEW d \in Docs, NEW v \in 0..Now
      PROVE  ServerDoc(d, v)' = ServerDoc(d, v)
  <2>1. ({0} \cup {i \in 1..v : history[i].doc = d})'
          = {0} \cup {i \in 1..v : history[i].doc = d}
    OBVIOUS
  <2> QED BY <2>1 DEF ServerDoc
<1> QED BY <1>1, <1>2 DEF Kept

\* A history that grows by one change keeps what the server had before it.
LEMMA GrowsKept ==
    ASSUME history \in Seq(Change), NEW c \in Change,
           history' = Append(history, c)
    PROVE  /\ Kept /\ Now' = Now + 1 /\ history' \in Seq(Change)
           /\ \A i \in 1..Now : history'[i] = history[i]
           /\ history'[Now + 1] = c
<1>1. Now \in Nat /\ Now' = Now + 1 /\ history' \in Seq(Change)
  BY LenProperties, AppendProperties DEF Now
<1>2. \A d \in Docs : \A v \in 0..Now : ServerDoc(d, v)' = ServerDoc(d, v)
  BY HistoryGrows
<1>3. /\ \A i \in 1..Now : history'[i] = history[i]
      /\ history'[Now + 1] = c
  BY AppendProperties DEF Now
<1>4. Now <= Now'
  BY <1>1
<1>5. Kept
  BY <1>1, <1>2, <1>4 DEF Kept
<1> QED BY <1>1, <1>3, <1>5

\* Documents exist at versions up to now as they did.
LEMMA ExistsKept ==
    ASSUME Kept, NEW v \in 0..Now
    PROVE  /\ \A d \in Docs : Exists(d, v)' = Exists(d, v)
           /\ Existing(v)' = Existing(v)
<1>1. \A d \in Docs : Exists(d, v)' = Exists(d, v)
  BY DEF Kept, Exists
<1> QED BY <1>1 DEF Existing

\* Targets stay in order.
LEMMA TargetsKept ==
    ASSUME Kept, NEW ts, NEW last, TargetsOK(ts, last)
    PROVE  TargetsOK(ts, last)'
<1>1. \A t \in ts : t \in Target /\ t.token \in 0..Now
  BY DEF TargetsOK, Target, Kept
<1>2. \A t \in ts : t.token <= Now'
  BY <1>1 DEF Kept
<1>3. ASSUME NEW t \in ts, t.id # Query
      PROVE  t.received = Exists(t.id.doc, t.token)'
  <2>1. t.id.doc \in Docs /\ t.received = Exists(t.id.doc, t.token)
    BY <1>3 DEF TargetsOK
  <2>2. t.token \in 0..Now
    BY <1>1
  <2> QED BY <2>1, <2>2, ExistsKept
<1> QED BY <1>2, <1>3 DEF TargetsOK

\* What is tracked stays tracked.
LEMMA TrackedKept ==
    ASSUME Kept, NEW t \in Target, NEW s \in Stream, Ordered(s),
           Tracked(t, s)
    PROVE  Tracked(t, s)'
<1>1. ASSUME NEW k \in Live(t.id, s)
      PROVE  /\ k \in 1..Len(s.down) /\ s.down[k].version \in 0..Now
             /\ NamedSince(t.id, Base(t, k, s), s.down[k])'
                  = NamedSince(t.id, Base(t, k, s), s.down[k])
  <2>1. s.down[k].version \in 0..Now /\ k \in 1..Len(s.down)
    BY DEF Live, Ordered, Snapshots, Kept
  <2>2. \A d \in Docs :
           /\ ServerDoc(d, s.down[k].version)' = ServerDoc(d, s.down[k].version)
           /\ Exists(d, s.down[k].version)' = Exists(d, s.down[k].version)
    BY <2>1, ExistsKept DEF Kept
  <2>3. PICK b : b = Base(t, k, s)
    OBVIOUS
  <2>4. PICK m : m = s.down[k]
    OBVIOUS
  <2>5. NamedSince(t.id, b, m)' = NamedSince(t.id, b, m)
    BY <2>2, <2>4 DEF NamedSince
  <2> QED BY <2>1, <2>3, <2>4, <2>5
<1> QED BY <1>1 DEF Tracked

\* The stream stays in order.
LEMMA StreamKept ==
    ASSUME Kept, NEW s, NEW ts \in SUBSET Target, NEW last,
           StreamOK(s, ts, last)
    PROVE  StreamOK(s, ts, last)'
<1>1. s \in Stream /\ Ordered(s)
  BY DEF StreamOK
<1>2. \A t \in ts : Tracked(t, s)'
  <2> TAKE t \in ts
  <2>1. t \in Target /\ Tracked(t, s)
    BY DEF StreamOK
  <2> QED BY <1>1, <2>1, TrackedKept
<1>3. Ordered(s)'
  <2>1. \A k \in Snapshots(s) : s.down[k].version \in 1..Now'
    BY <1>1 DEF Ordered, Kept
  <2> QED BY <1>1, <2>1 DEF Ordered
<1> QED BY <1>2, <1>3 DEF StreamOK

-----------------------------------------------------------------------------
(* A snapshot emitted to the listener *)

\* The query's target is the one with its id.
LEMMA QueryTargetIs ==
    ASSUME NEW ts, NEW last, TargetsOK(ts, last)
    PROVE  LET q == CHOOSE t \in ts : t.id = Query
           IN  /\ q \in ts /\ q \in Target /\ q.id = Query
               /\ q.token \in Nat /\ q.token <= Now
               /\ \A t \in ts : t.id = Query => t = q
               /\ \A t \in ts : t.id.doc = Collection => t = q
<1> DEFINE q == CHOOSE t \in ts : t.id = Query
<1>1. PICK p \in ts : p.id = Query
  BY DEF TargetsOK
<1>2. q \in ts /\ q.id = Query
  BY <1>1
<1> HIDE DEF q
<1>3. \A t \in ts : t.id.doc = Collection => t = q
  BY <1>2, QueryType DEF TargetsOK
<1>4. \A t \in ts : t.id = Query => t = q
  BY <1>3, QueryType
<1>5. q \in Target /\ q.token \in Nat /\ q.token <= Now
  BY <1>2 DEF TargetsOK, Target
<1> QED BY <1>2, <1>3, <1>4, <1>5 DEF q

\* What the listener is told is the view, and a query that is synced has told it.
LEMMA RaiseIs ==
    ASSUME NEW v \in View, NEW ts, NEW state, Raise(v, ts, state),
           raised \in BOOLEAN, shown \in [Docs -> Value]
    PROVE  /\ raised' \in BOOLEAN /\ shown' \in [Docs -> Value]
           /\ IsSynced(v, ts) => raised'
           /\ state = "offline" => raised'
           /\ raised' => shown' = Values(v)
<1>1. Values(v) \in [Docs -> Value]
  BY DEF Values, View
<1>2. CASE raised
  BY <1>1, <1>2 DEF Raise
<1>3. CASE ~raised
  <2>1. raised' \in BOOLEAN
    BY <1>3 DEF Raise
  <2>2. shown' = IF raised' THEN Values(v) ELSE shown
    BY <1>3 DEF Raise
  <2>3. IsSynced(v, ts) \/ state = "offline" => raised'
    BY <1>3 DEF Raise
  <2> QED BY <1>1, <2>1, <2>2, <2>3
<1> QED BY <1>2, <1>3

\* A snapshot that is emitted leaves everything in order.
LEMMA EmitKeeps ==
    ASSUME NEW v \in View, NEW ts, NEW s, NEW state,
           lastLimbo \in Nat, history \in Seq(Change), Kept,
           TargetsOK(ts, lastLimbo), StreamOK(s, ts, lastLimbo),
           s.open = stream.open, Emit(v, ts, s, state),
           raised \in BOOLEAN, shown \in [Docs -> Value]
    PROVE  /\ view' = v
           /\ TargetsOK(targets, lastLimbo)'
           /\ StreamOK(stream, targets, lastLimbo)'
           /\ lastLimbo' \in Nat
           /\ targets' \in SUBSET Target /\ stream' \in Stream
           /\ raised' \in BOOLEAN /\ shown' \in [Docs -> Value]
           /\ stream'.down = s.down
           /\ view'.current => (LimboDocs(targets) = InLimbo(view))'
           /\ raised' => (shown = Values(view))'
           /\ IsSynced(view, targets)' => raised'
           /\ QueryTarget' = CHOOSE t \in ts : t.id = Query
<1>1. Now \in Nat
  BY DEF Kept
<1>2. /\ TargetsOK(targets', lastLimbo')
      /\ StreamOK(stream', targets', lastLimbo')
      /\ lastLimbo' \in Nat
      /\ stream'.down = s.down
      /\ v.current => LimboDocs(targets') = InLimbo(v)
      /\ \A t \in ts : t.id = Query => t \in targets'
  BY <1>1, EmitTracked
<1>3. view' = v /\ Raise(v, targets', state)
  BY EmitIs
<1>4. PICK us : us = targets'
  OBVIOUS
<1>5. PICK z : z = stream'
  OBVIOUS
<1>6. PICK last : last = lastLimbo'
  OBVIOUS
<1>7. TargetsOK(us, last) /\ StreamOK(z, us, last)
  BY <1>2, <1>4, <1>5, <1>6
<1>8. us \in SUBSET Target /\ z \in Stream
  BY <1>7 DEF TargetsOK, StreamOK
<1>9. TargetsOK(us, last)' /\ StreamOK(z, us, last)'
  BY <1>7, <1>8, TargetsKept, StreamKept
<1>10. TargetsOK(targets, lastLimbo)'
  BY <1>4, <1>6, <1>9
<1>11. StreamOK(stream, targets, lastLimbo)'
  BY <1>4, <1>5, <1>6, <1>9
<1>12. /\ raised' \in BOOLEAN /\ shown' \in [Docs -> Value]
       /\ IsSynced(v, us) => raised'
       /\ raised' => shown' = Values(v)
  BY <1>3, <1>4, RaiseIs
<1>13. (shown = Values(view))' <=> shown' = Values(v)
  BY <1>3 DEF Values
<1>14. IsSynced(view, targets)' <=> IsSynced(v, us)
  BY <1>3, <1>4 DEF IsSynced, LimboDocs
<1>15. (LimboDocs(targets) = InLimbo(view))' <=> LimboDocs(us) = InLimbo(v)
  BY <1>3, <1>4 DEF LimboDocs, InLimbo
<1>16. QueryTarget' = CHOOSE t \in ts : t.id = Query
  <2> DEFINE q == CHOOSE t \in ts : t.id = Query
             p == CHOOSE t \in us : t.id = Query
  <2>1. q \in ts /\ q.id = Query
    BY QueryTargetIs
  <2>2. q \in us
    BY <2>1, <1>2, <1>4
  <2>3. q = p
    BY <2>1, <2>2, <1>7, QueryTargetIs
  <2>4. QueryTarget' = p
    BY <1>4 DEF QueryTarget
  <2> QED BY <2>3, <2>4
<1> QED
  BY <1>2, <1>3, <1>4, <1>5, <1>8, <1>10, <1>11, <1>12, <1>13, <1>14, <1>15,
     <1>16

-----------------------------------------------------------------------------
(* The queue, laid over the cache *)

\* A write in the queue and a document in the view.
Write == [doc : Docs, value : Value]
Shown == [value : Value, local : BOOLEAN]

\* The phone's writes to a document are positions of the queue.
LEMMA MineIs ==
    ASSUME NEW q \in Seq(Write), NEW d
    PROVE  /\ Mine(d, q) = {i \in 1..Len(q) : q[i].doc = d}
           /\ Mine(d, q) \in SUBSET (1..Len(q))
           /\ Len(q) \in Nat
           /\ Mine(d, q) # {} =>
                 /\ LastOf(Mine(d, q)) \in Mine(d, q)
                 /\ \A j \in Mine(d, q) : j <= LastOf(Mine(d, q))
                 /\ LastValue(d, q) \in Value
<1>1. Len(q) \in Nat /\ DOMAIN q = 1..Len(q)
  BY LenProperties
<1>2. Mine(d, q) = {i \in 1..Len(q) : q[i].doc = d}
  BY <1>1 DEF Mine
<1>3. ASSUME Mine(d, q) # {}
      PROVE  /\ LastOf(Mine(d, q)) \in Mine(d, q)
             /\ \A j \in Mine(d, q) : j <= LastOf(Mine(d, q))
             /\ LastValue(d, q) \in Value
  <2>1. Mine(d, q) \in SUBSET (0..Len(q))
    BY <1>1, <1>2
  <2>2. /\ LastOf(Mine(d, q)) \in Mine(d, q)
        /\ \A j \in Mine(d, q) : j <= LastOf(Mine(d, q))
    BY <1>1, <1>3, <2>1, LastOfIsMax
  <2>3. LastOf(Mine(d, q)) \in 1..Len(q)
    BY <1>2, <2>2
  <2>4. q[LastOf(Mine(d, q))] \in Write
    BY <2>3, ElementOfSeq
  <2> QED BY <2>2, <2>4 DEF Write, LastValue
<1> QED BY <1>1, <1>2, <1>3

\* A new write is the last of its document.
LEMMA MineAppended ==
    ASSUME NEW q \in Seq(Write), NEW w \in Write, NEW d
    PROVE  /\ Append(q, w) \in Seq(Write)
           /\ Len(Append(q, w)) = Len(q) + 1
           /\ \A i \in 1..Len(q) : Append(q, w)[i] = q[i]
           /\ Mine(d, Append(q, w)) =
                 IF d = w.doc THEN Mine(d, q) \cup {Len(q) + 1} ELSE Mine(d, q)
           /\ d = w.doc => LastValue(d, Append(q, w)) = w.value
           /\ d # w.doc /\ Mine(d, q) # {} =>
                 LastValue(d, Append(q, w)) = LastValue(d, q)
<1> DEFINE p == Append(q, w)
<1>1. /\ p \in Seq(Write) /\ Len(p) = Len(q) + 1 /\ Len(q) \in Nat
      /\ \A i \in 1..Len(q) : p[i] = q[i]
      /\ p[Len(q) + 1] = w
  BY AppendProperties, LenProperties
<1> HIDE DEF p
<1>2. Mine(d, p) = {i \in 1..Len(p) : p[i].doc = d}
  BY <1>1, MineIs
<1>3. Mine(d, q) = {i \in 1..Len(q) : q[i].doc = d}
  BY MineIs
<1>4. \A i \in 1..Len(p) : i \in 1..Len(q) \/ i = Len(q) + 1
  BY <1>1
<1>5. Mine(d, p) = IF d = w.doc THEN Mine(d, q) \cup {Len(q) + 1} ELSE Mine(d, q)
  <2>1. CASE d = w.doc
    <3>1. Len(q) + 1 \in 1..Len(p) /\ \A i \in 1..Len(q) : i \in 1..Len(p)
      BY <1>1
    <3> QED BY <1>1, <1>2, <1>3, <1>4, <2>1, <3>1
  <2>2. CASE d # w.doc
    <3>1. \A i \in 1..Len(q) : i \in 1..Len(p)
      BY <1>1
    <3> QED BY <1>1, <1>2, <1>3, <1>4, <2>2, <3>1
  <2> QED BY <2>1, <2>2
<1>6. ASSUME d = w.doc PROVE LastValue(d, p) = w.value
  <2>1. /\ Mine(d, p) \in SUBSET Nat /\ Len(q) + 1 \in Mine(d, p)
        /\ \A j \in Mine(d, p) : j <= Len(q) + 1
    BY <1>1, <1>2, <1>5, <1>6
  <2>2. LastOf(Mine(d, p)) = Len(q) + 1
    BY <2>1, LastOfIs
  <2> QED BY <2>2, <1>1 DEF LastValue
<1>7. ASSUME d # w.doc, Mine(d, q) # {} PROVE LastValue(d, p) = LastValue(d, q)
  <2>1. Mine(d, p) = Mine(d, q)
    BY <1>5, <1>7
  <2>2. LastOf(Mine(d, q)) \in 1..Len(q)
    BY <1>7, MineIs
  <2> QED BY <1>1, <2>1, <2>2 DEF LastValue
<1> QED BY <1>1, <1>5, <1>6, <1>7 DEF p

\* Without its first write, the queue has the same last writes.
LEMMA MineTail ==
    ASSUME NEW q \in Seq(Write), q # <<>>, NEW d
    PROVE  /\ Tail(q) \in Seq(Write) /\ Len(Tail(q)) = Len(q) - 1
           /\ Len(q) > 0 /\ Head(q) = q[1] /\ Head(q) \in Write
           /\ \A i \in 1..(Len(q) - 1) : Tail(q)[i] = q[i + 1]
           /\ Mine(d, Tail(q)) = {i \in 1..(Len(q) - 1) : i + 1 \in Mine(d, q)}
           /\ Mine(d, Tail(q)) # {} =>
                 /\ Mine(d, q) # {}
                 /\ LastValue(d, Tail(q)) = LastValue(d, q)
           /\ d # Head(q).doc /\ Mine(d, q) # {} => Mine(d, Tail(q)) # {}
           /\ d = Head(q).doc => 1 \in Mine(d, q)
           /\ d = Head(q).doc /\ Mine(d, Tail(q)) = {} =>
                 LastValue(d, q) = Head(q).value
<1> DEFINE p == Tail(q)
<1>1. /\ p \in Seq(Write) /\ Len(p) = Len(q) - 1 /\ Len(q) \in Nat
      /\ Len(q) > 0 /\ Head(q) = q[1] /\ Head(q) \in Write
      /\ \A i \in 1..(Len(q) - 1) : p[i] = q[i + 1]
  BY HeadTailProperties, LenProperties, EmptySeq, ElementOfSeq
<1> HIDE DEF p
<1>2. Mine(d, p) = {i \in 1..Len(p) : p[i].doc = d}
  BY <1>1, MineIs
<1>3. Mine(d, q) = {i \in 1..Len(q) : q[i].doc = d}
  BY MineIs
<1>4. \A i \in 1..(Len(q) - 1) : i + 1 \in 1..Len(q)
  BY <1>1
<1>5. Mine(d, p) = {i \in 1..(Len(q) - 1) : i + 1 \in Mine(d, q)}
  BY <1>1, <1>2, <1>3, <1>4
<1>6. ASSUME Mine(d, p) # {}
      PROVE  Mine(d, q) # {} /\ LastValue(d, p) = LastValue(d, q)
  <2>1. PICK k \in Mine(d, p) : TRUE
    BY <1>6
  <2>2. k + 1 \in Mine(d, q)
    BY <1>5, <2>1
  <2>3. Mine(d, q) \in SUBSET (1..Len(q))
    BY <1>3
  <2>4. LastOf(Mine(d, q)) = LastOf(Mine(d, p)) + 1
    <3> DEFINE S == Mine(d, q)
               T == Mine(d, p)
    <3>1. S \in SUBSET (1..Len(q)) /\ T = {i \in 1..(Len(q) - 1) : i + 1 \in S}
      BY <1>5, <2>3
    <3> HIDE DEF S, T
    <3>2. T # {}
      BY <1>6 DEF T
    <3>3. LastOf(S) = LastOf(T) + 1
      <4>1. Len(q) \in Nat
        BY <1>1
      <4>2. Shifted(Len(q), S, T)
        BY <3>1 DEF Shifted
      <4> QED BY <3>2, <4>1, <4>2, ShiftedLast
    <3> QED BY <3>3 DEF S, T
  <2>5. LastOf(Mine(d, p)) \in 1..(Len(q) - 1)
    BY <1>1, <1>2, <1>6, MineIs
  <2>6. p[LastOf(Mine(d, p))] = q[LastOf(Mine(d, p)) + 1]
    BY <1>1, <2>5
  <2> QED BY <2>2, <2>4, <2>6 DEF LastValue
<1>7. ASSUME d # Head(q).doc, Mine(d, q) # {} PROVE Mine(d, p) # {}
  <2>1. PICK i \in Mine(d, q) : TRUE
    BY <1>7
  <2>2. i \in 1..Len(q) /\ i # 1
    BY <1>1, <1>3, <1>7, <2>1
  <2>3. i - 1 \in 1..(Len(q) - 1) /\ (i - 1) + 1 = i
    BY <1>1, <2>2
  <2>4. i - 1 \in Mine(d, p)
    BY <1>5, <2>1, <2>3
  <2> QED BY <2>4
<1>8. ASSUME d = Head(q).doc PROVE 1 \in Mine(d, q)
  BY <1>1, <1>3, <1>8
<1>9. ASSUME d = Head(q).doc, Mine(d, p) = {}
      PROVE  LastValue(d, q) = Head(q).value
  <2>1. ASSUME NEW j \in Mine(d, q) PROVE j <= 1
    <3>1. j \in 1..Len(q)
      BY <1>3
    <3>2. CASE j > 1
      <4>1. j - 1 \in 1..(Len(q) - 1) /\ (j - 1) + 1 = j
        BY <1>1, <3>1, <3>2
      <4>2. j - 1 \in Mine(d, p)
        BY <1>5, <4>1
      <4> QED BY <4>2, <1>9
    <3> QED BY <3>1, <3>2
  <2>2. Mine(d, q) \in SUBSET Nat /\ 1 \in Mine(d, q)
    BY <1>3, <1>8, <1>9
  <2>3. LastOf(Mine(d, q)) = 1
    BY <2>1, <2>2, LastOfIs
  <2> QED BY <2>3, <1>1 DEF LastValue
<1> QED BY <1>1, <1>5, <1>6, <1>7, <1>8, <1>9 DEF p

\* The document that the local store returns.
LEMMA LocalDocIs ==
    ASSUME NEW q \in Seq(Write), NEW c \in [Docs -> Cached], NEW d \in Docs
    PROVE  LET new == LocalDoc(d, q, c)
           IN  /\ new.value \in Value /\ new.local \in BOOLEAN
               /\ Mine(d, q) = {} =>
                     /\ new.value = c[d].value /\ new.local = FALSE
                     /\ new.committed = c[d].committed
               /\ Mine(d, q) # {} =>
                     /\ new.value = LastValue(d, q)
                     /\ new.local = (LastValue(d, q) # Nothing)
                     /\ new.committed = FALSE
<1>1. c[d] \in Cached
  OBVIOUS
<1>2. Mine(d, q) # {} => LastValue(d, q) \in Value
  BY MineIs
<1> QED BY <1>1, <1>2 DEF LocalDoc, LastValue, Cached

\* A document that changed is laid over the cache, if one that is held back has
\* the value that was cached.
LEMMA ChangedLaid ==
    ASSUME NEW old \in Shown, NEW q \in Seq(Write), NEW c \in [Docs -> Cached],
           NEW d \in Docs,
           Mine(d, q) = {} /\ c[d].committed /\ old.local
              => old.value = c[d].value
    PROVE  LET new == LocalDoc(d, q, c)
               x == IF Waits(old, new) THEN old
                    ELSE [value |-> new.value, local |-> new.local]
           IN  x \in Shown /\ Laid(d, x, q, c)
<1> DEFINE new == LocalDoc(d, q, c)
           x == IF Waits(old, new) THEN old
                ELSE [value |-> new.value, local |-> new.local]
<1>1. /\ new.value \in Value /\ new.local \in BOOLEAN
      /\ Mine(d, q) = {} =>
            /\ new.value = c[d].value /\ new.local = FALSE
            /\ new.committed = c[d].committed
      /\ Mine(d, q) # {} =>
            /\ new.value = LastValue(d, q)
            /\ new.local = (LastValue(d, q) # Nothing)
            /\ new.committed = FALSE
  BY LocalDocIs
<1> HIDE DEF new
<1>2. CASE Waits(old, new)
  <2>1. x = old /\ new.committed /\ old.local /\ new.value # Nothing
    BY <1>2 DEF Waits
  <2>2. Mine(d, q) = {} /\ c[d].committed /\ new.value = c[d].value
    BY <1>1, <2>1
  <2>3. Laid(d, old, q, c)
    BY <2>1, <2>2 DEF Laid
  <2> QED BY <2>1, <2>3 DEF new
<1>3. CASE ~Waits(old, new)
  <2>1. x = [value |-> new.value, local |-> new.local]
    BY <1>3
  <2> HIDE DEF x
  <2>2. x \in Shown /\ x.value = new.value /\ x.local = new.local
    BY <1>1, <2>1 DEF Shown
  <2>3. Laid(d, x, q, c)
    BY <1>1, <2>2 DEF Laid
  <2> QED BY <2>2, <2>3 DEF x, new
<1> QED BY <1>2, <1>3

\* What the changed documents of a view are.
LEMMA ChangedIs ==
    ASSUME NEW docs \in [Docs -> Shown], NEW changes, NEW q \in Seq(Write),
           NEW c \in [Docs -> Cached]
    PROVE  /\ Changed(docs, changes, q, c) \in [Docs -> Shown]
           /\ \A d \in Docs \ changes : Changed(docs, changes, q, c)[d] = docs[d]
           /\ \A d \in Docs \cap changes :
                 Changed(docs, changes, q, c)[d] =
                    IF Waits(docs[d], LocalDoc(d, q, c)) THEN docs[d]
                    ELSE [value |-> LocalDoc(d, q, c).value,
                          local |-> LocalDoc(d, q, c).local]
<1>1. \A d \in Docs : /\ docs[d] \in Shown
                      /\ LocalDoc(d, q, c).value \in Value
                      /\ LocalDoc(d, q, c).local \in BOOLEAN
  BY LocalDocIs
<1>2. \A d \in Docs :
         Changed(docs, changes, q, c)[d] =
            IF d \notin changes \/ Waits(docs[d], LocalDoc(d, q, c)) THEN docs[d]
            ELSE [value |-> LocalDoc(d, q, c).value,
                  local |-> LocalDoc(d, q, c).local]
  BY DEF Changed
<1>3. ASSUME NEW d \in Docs PROVE Changed(docs, changes, q, c)[d] \in Shown
  <2>1. PICK new : new = LocalDoc(d, q, c)
    OBVIOUS
  <2>2. docs[d] \in Shown /\ new.value \in Value /\ new.local \in BOOLEAN
    BY <1>1, <2>1
  <2>3. Changed(docs, changes, q, c)[d] =
          IF d \notin changes \/ Waits(docs[d], new) THEN docs[d]
          ELSE [value |-> new.value, local |-> new.local]
    BY <1>2, <2>1
  <2> QED BY <2>2, <2>3 DEF Shown
<1>4. Changed(docs, changes, q, c) \in [Docs -> Shown]
  BY <1>1, <1>3 DEF Changed, Shown
<1> QED BY <1>2, <1>4

-----------------------------------------------------------------------------
(* What all steps but a launch and a snapshot of the watch stream keep *)

\* The types of what the invariant relates.
LEMMA InvTypes ==
    ASSUME Inv
    PROVE  /\ history \in Seq(Change) /\ Now \in Nat /\ Now > 0
           /\ queue \in Seq(Write) /\ Len(queue) \in Nat
           /\ acks \in Seq(Nat) /\ Len(acks) \in Nat
           /\ cache \in [Docs -> Cached]
           /\ \A d \in Docs : /\ cache[d].version \in Nat
                              /\ cache[d].version <= Now
                              /\ cache[d].value \in Value
                              /\ cache[d].committed \in BOOLEAN
           /\ view \in View /\ view.docs \in [Docs -> Shown]
           /\ view.synced \in SUBSET Docs /\ view.current \in BOOLEAN
           /\ raised \in BOOLEAN /\ shown \in [Docs -> Value]
           /\ disk.token \in Nat /\ disk.token <= Now
           /\ disk.keys \in SUBSET Docs
           /\ targets \in SUBSET Target /\ stream \in Stream
           /\ lastLimbo \in Nat
           /\ QueryTarget \in targets /\ QueryTarget \in Target
           /\ QueryTarget.id = Query /\ QueryTarget.token \in Nat
           /\ QueryTarget.token <= Now
<1>1. TypeOK
  BY DEF Inv
<1>2. /\ history \in Seq(Change) /\ Now \in Nat /\ Now > 0
      /\ queue \in Seq(Write) /\ Len(queue) \in Nat
      /\ acks \in Seq(Nat) /\ Len(acks) \in Nat
  BY <1>1, LenProperties DEF TypeOK, Now, Write, Inv
<1>3. /\ cache \in [Docs -> Cached]
      /\ view \in View /\ raised \in BOOLEAN /\ shown \in [Docs -> Value]
      /\ targets \in SUBSET Target /\ stream \in Stream
      /\ lastLimbo \in Nat
      /\ disk.token \in Nat /\ disk.keys \in SUBSET Docs
  BY <1>1 DEF TypeOK
<1>4. ASSUME NEW d \in Docs
      PROVE  /\ cache[d].version \in Nat /\ cache[d].version <= Now
             /\ cache[d].value \in Value /\ cache[d].committed \in BOOLEAN
  <2>1. cache[d] \in Cached
    BY <1>3
  <2>2. cache[d].version <= Now
    BY DEF Inv, CacheInv
  <2> QED BY <2>1, <2>2 DEF Cached
<1>5. /\ view.docs \in [Docs -> Shown]
      /\ view.synced \in SUBSET Docs /\ view.current \in BOOLEAN
  BY <1>3 DEF View, Shown
<1>6. disk.token <= Now
  BY DEF Inv, KnowInv
<1>7. TargetsOK(targets, lastLimbo)
  BY DEF Inv
<1>8. /\ QueryTarget \in targets /\ QueryTarget \in Target
      /\ QueryTarget.id = Query /\ QueryTarget.token \in Nat
      /\ QueryTarget.token <= Now
  BY <1>7, QueryTargetIs DEF QueryTarget
<1> QED BY <1>2, <1>3, <1>4, <1>5, <1>6, <1>8

\* If what is settled was settled, with the same in the cache, and the token and
\* the keys stay, then what they know stays known, and no message gets old.
LEMMA StepKeeps ==
    ASSUME Inv, Kept, \A i \in 1..Now : history'[i] = history[i],
           disk' = disk, keysLost' = keysLost,
           QueryTarget'.token = QueryTarget.token,
           view'.synced = view.synced,
           view'.current => view.current,
           \A d \in Docs : /\ cache'[d].version \in Nat
                           /\ cache[d].version <= cache'[d].version,
           \A d \in Docs : Settled(d)' => Settled(d) /\ cache'[d] = cache[d],
           \A k \in Snapshots(stream') :
              \/ \E j \in Snapshots(stream) : stream'.down[k] = stream.down[j]
              \/ /\ stream'.down[k].version = Now
                 /\ stream'.down[k].count = Cardinality(Existing(Now))
    PROVE  KnowInv' /\ MessagesInv'
<1>1. /\ Now \in Nat /\ Now > 0
      /\ disk.token \in 0..Now /\ QueryTarget.token \in 0..Now
      /\ \A d \in Docs : cache[d].version \in 0..Now
  BY InvTypes
<1>2. MessagesInv'
  <2>1. ASSUME NEW k \in Snapshots(stream')
        PROVE  /\ stream'.down[k].version \in 0..Now
               /\ stream'.down[k].count =
                     Cardinality(Existing(stream'.down[k].version))
               /\ \A d \in Docs :
                     Settled(d)' => cache'[d].version <= stream'.down[k].version
    <3>1. CASE \E j \in Snapshots(stream) : stream'.down[k] = stream.down[j]
      <4>1. PICK j \in Snapshots(stream) : stream'.down[k] = stream.down[j]
        BY <3>1
      <4>2. stream.down[j].version \in 1..Now
        BY DEF Inv, StreamOK, Ordered
      <4>3. /\ stream.down[j].count = Cardinality(Existing(stream.down[j].version))
            /\ \A d \in Docs : Settled(d) =>
                  cache[d].version <= stream.down[j].version
        BY DEF Inv, MessagesInv
      <4> QED BY <1>1, <4>1, <4>2, <4>3
    <3>2. CASE /\ stream'.down[k].version = Now
               /\ stream'.down[k].count = Cardinality(Existing(Now))
      BY <1>1, <3>2
    <3> QED BY <2>1, <3>1, <3>2
  <2>2. ASSUME NEW k \in Snapshots(stream')
        PROVE  stream'.down[k].count =
                  Cardinality(Existing(stream.down[k].version))'
    <3>1. PICK v : v = stream'.down[k].version
      OBVIOUS
    <3>2. Existing(v)' = Existing(v)
      BY <2>1, <3>1, ExistsKept
    <3>3. Existing(stream.down[k].version)' = Existing(v)'
      BY <3>1
    <3> QED BY <2>1, <3>1, <3>2, <3>3
  <2> QED BY <2>1, <2>2 DEF MessagesInv
<1>3. KnowInv'
  <2>1. KnowInv
    BY DEF Inv
  <2>2. disk'.token <= Now'
    BY <1>1 DEF Kept
  <2>3. ASSUME NEW v \in 0..Now, Knows(v) PROVE Knows(v)'
    <3> SUFFICES ASSUME NEW d \in Docs, Exists(d, v)'
                 PROVE  ServerDoc(d, v)'.version <= cache'[d].version
      BY DEF Knows
    <3>1. Exists(d, v) /\ ServerDoc(d, v)' = ServerDoc(d, v)
      BY ExistsKept DEF Kept
    <3>2. ServerDoc(d, v).version <= cache[d].version
      BY <3>1, <2>3 DEF Knows
    <3>3. ServerDoc(d, v).version \in 0..v
      BY InvTypes, ServerDocIs
    <3> QED BY <1>1, <3>1, <3>2, <3>3
  <2>4. Knows(disk.token)'
    <3>1. PICK v : v = disk.token
      OBVIOUS
    <3>2. Knows(v)'
      BY <3>1, <1>1, <2>1, <2>3 DEF KnowInv
    <3>3. v = disk'.token
      BY <3>1
    <3> QED BY <3>2, <3>3
  <2>5. PICK v : v = QueryTarget.token
    OBVIOUS
  <2>6. Knows(QueryTarget.token)'
    <3>1. Knows(v)'
      BY <2>5, <1>1, <2>1, <2>3 DEF KnowInv
    <3>2. v = QueryTarget'.token
      BY <2>5
    <3> QED BY <3>1, <3>2
  <2>7. ASSUME ~keysLost' PROVE (view.synced = Existing(QueryTarget.token))'
    <3>1. view.synced = Existing(v)
      BY <2>1, <2>5, <2>7 DEF KnowInv
    <3>2. Existing(v)' = Existing(v)
      BY <2>5, <1>1, ExistsKept
    <3>3. v = QueryTarget'.token
      BY <2>5
    <3>4. Existing(QueryTarget.token)' = Existing(v)'
      BY <3>3
    <3> QED BY <3>1, <3>2, <3>4
  <2>8. ASSUME view'.current, NEW d \in Docs,
               cache'[d].version > QueryTarget'.token, Settled(d)'
        PROVE  /\ ~cache'[d].committed
               /\ d \notin view'.synced
               /\ \A i \in (QueryTarget'.token + 1)..cache'[d].version :
                     ~IsOwn(d, i)'
    <3>1. Settled(d) /\ cache'[d] = cache[d] /\ view.current
      BY <2>8
    <3>2. /\ ~cache[d].committed /\ d \notin view.synced
          /\ \A i \in (QueryTarget.token + 1)..cache[d].version : ~IsOwn(d, i)
      BY <2>1, <2>8, <3>1 DEF KnowInv
    <3>3. ASSUME NEW i \in (QueryTarget'.token + 1)..cache'[d].version
          PROVE  ~IsOwn(d, i)'
      <4>1. /\ i \in (QueryTarget.token + 1)..cache[d].version
            /\ i \in 1..Now
        BY <1>1, <3>1
      <4>2. ~IsOwn(d, i) /\ history'[i] = history[i]
        BY <4>1, <3>2
      <4> QED BY <4>2 DEF IsOwn
    <3> QED BY <3>1, <3>2, <3>3
  <2> QED BY <2>2, <2>4, <2>6, <2>7, <2>8 DEF KnowInv
<1> QED BY <1>2, <1>3

\* The store does not change without its variables.
LEMMA StoreSame ==
    ASSUME Inv, UNCHANGED <<history, acks, queue, cache>>
    PROVE  Kept /\ AcksInv' /\ OwnInv' /\ CacheInv'
<1>1. Kept /\ Now' = Now
  BY InvTypes, SameKept DEF Now
<1>2. AcksInv'
  BY <1>1 DEF Inv, AcksInv
<1>3. OwnInv'
  <2>1. \A d \in Docs : Mine(d, queue)' = Mine(d, queue)
    OBVIOUS
  <2>2. \A d \in Docs : \A i \in 1..Now : IsOwn(d, i)' <=> IsOwn(d, i)
    BY DEF IsOwn
  <2> QED BY <1>1, <2>1, <2>2 DEF Inv, OwnInv
<1>4. CacheInv'
  <2>1. ASSUME NEW d \in Docs
        PROVE  /\ cache[d].version \in 0..Now
               /\ ServerDoc(d, cache[d].version)' = ServerDoc(d, cache[d].version)
    <3>1. PICK v : v = cache[d].version
      OBVIOUS
    <3>2. v \in 0..Now
      BY <3>1, InvTypes
    <3>3. ServerDoc(d, v)' = ServerDoc(d, v)
      BY <1>1, <3>2 DEF Kept
    <3>4. v = cache'[d].version
      BY <3>1
    <3>5. ServerDoc(d, cache[d].version)' = ServerDoc(d, v)'
      BY <3>4
    <3> QED BY <3>1, <3>2, <3>3, <3>5
  <2>2. \A d \in Docs : \A i : IsOwn(d, i)' <=> IsOwn(d, i)
    BY DEF IsOwn
  <2>3. \A d \in Docs : IsOwn(d, cache[d].version)' <=> IsOwn(d, cache[d].version)
    BY DEF IsOwn
  <2> QED BY <1>1, <2>1, <2>3 DEF Inv, CacheInv
<1> QED BY <1>1, <1>2, <1>3, <1>4

-----------------------------------------------------------------------------
(* The streams open, close, and carry requests and messages *)

\* Steps that leave the store as it is, and the view but for its being current.
LEMMA NetworkKeeps ==
    ASSUME Inv,
           UNCHANGED <<history, acks, queue, cache, disk, writes, keysLost,
                       lastLimbo>>,
           troubles' \in Nat, online' \in {"unknown", "online", "offline"},
           TargetsOK(targets, lastLimbo)',
           StreamOK(stream, targets, lastLimbo)',
           view' \in View, view'.docs = view.docs, view'.synced = view.synced,
           view'.current => view.current,
           LimboDocs(targets') = LimboDocs(targets),
           raised' \in BOOLEAN, shown' \in [Docs -> Value],
           raised' => shown' = Values(view'),
           IsSynced(view', targets') => raised',
           QueryTarget'.token = QueryTarget.token,
           \A k \in Snapshots(stream') :
              \/ \E j \in Snapshots(stream) : stream'.down[k] = stream.down[j]
              \/ /\ stream'.down[k].version = Now
                 /\ stream'.down[k].count = Cardinality(Existing(Now))
    PROVE  Inv'
<1>1. Kept /\ AcksInv' /\ OwnInv' /\ CacheInv'
  BY StoreSame
<1>2. Now' = Now /\ Now > 0
  BY InvTypes DEF Now
<1>3. \A d \in Docs : Settled(d)' => Settled(d) /\ cache'[d] = cache[d]
  BY DEF Settled
<1>4. KnowInv' /\ MessagesInv'
  <2>1. \A i \in 1..Now : history'[i] = history[i]
    OBVIOUS
  <2>2. \A d \in Docs : /\ cache'[d].version \in Nat
                        /\ cache[d].version <= cache'[d].version
    BY InvTypes
  <2> QED BY <1>1, <1>3, <2>1, <2>2, StepKeeps
<1>5. ViewInv'
  <2>1. \A d \in Docs : Laid(d, view.docs[d], queue, cache)'
    BY DEF Inv, ViewInv, Laid, LastValue
  <2>2. InLimbo(view') = InLimbo(view)
    BY DEF InLimbo
  <2>3. view'.current => LimboDocs(targets') = InLimbo(view')
    BY <2>2 DEF Inv, ViewInv
  <2> QED BY <2>1, <2>3 DEF ViewInv
<1>6. TypeOK'
  <2>1. targets' \in SUBSET Target /\ stream' \in Stream
    BY DEF TargetsOK, StreamOK
  <2> QED BY <2>1 DEF Inv, TypeOK
<1> QED BY <1>1, <1>2, <1>4, <1>5, <1>6 DEF Inv

\* The targets after each of them has changed.
Mapped(f, ts) == {f[t] : t \in ts}

\* Targets that change, each for itself, stay in order while they keep their
\* ids and those of documents know whether their document exists.
LEMMA MappedTargets ==
    ASSUME NEW ts, NEW last, TargetsOK(ts, last), NEW f \in [ts -> Target],
           \A t \in ts : f[t].id = t.id /\ f[t].token <= Now,
           \A t \in ts : t.id # Query =>
              f[t].received = Exists(t.id.doc, f[t].token),
           NEW us, us = Mapped(f, ts)
    PROVE  /\ TargetsOK(us, last)
           /\ LimboDocs(us) = LimboDocs(ts)
           /\ (CHOOSE u \in us : u.id = Query)
                = f[CHOOSE t \in ts : t.id = Query]
<1> DEFINE q == CHOOSE t \in ts : t.id = Query
<1>1. \A u \in us : \E t \in ts : u = f[t]
  BY DEF Mapped
<1>2. \A t \in ts : f[t] \in us
  BY DEF Mapped
<1>3. IsFiniteSet(us)
  <2>1. f \in Surjection(ts, us)
    <3>1. f \in [ts -> us]
      BY <1>2
    <3>2. \A u \in us : \E t \in ts : f[t] = u
      BY <1>1
    <3> QED BY <3>1, <3>2 DEF Surjection
  <2>2. IsFiniteSet(ts)
    BY DEF TargetsOK
  <2> QED BY <2>1, <2>2, FS_Surjection
<1>4. q \in ts /\ q.id = Query
  BY QueryTargetIs
<1> HIDE DEF q
<1>5. TargetsOK(us, last)
  <2>1. us \in SUBSET Target
    BY <1>1
  <2>2. \E u \in us : u.id = Query
    BY <1>2, <1>4
  <2>3. \A u \in us : u.token <= Now
    BY <1>1
  <2>4. \A u \in us :
           u.id # Query => /\ u.id.doc \in Docs
                           /\ u.id.number > 0 /\ u.id.number <= last
                           /\ u.received = Exists(u.id.doc, u.token)
    <3> TAKE u \in us
    <3>1. PICK t \in ts : u = f[t]
      BY <1>1
    <3>2. u.id = t.id
      BY <3>1
    <3>3. t.id # Query => u.received = Exists(t.id.doc, u.token)
      BY <3>1
    <3> QED BY <3>2, <3>3 DEF TargetsOK
  <2>5. ASSUME NEW u \in us, NEW w \in us, u.id.doc = w.id.doc
        PROVE  u = w
    <3>1. PICK t \in ts : u = f[t]
      BY <1>1
    <3>2. PICK x \in ts : w = f[x]
      BY <1>1
    <3>3. t.id.doc = x.id.doc
      BY <2>5, <3>1, <3>2
    <3>4. t = x
      BY <3>3 DEF TargetsOK
    <3> QED BY <3>1, <3>2, <3>4
  <2> QED BY <1>3, <2>1, <2>2, <2>3, <2>4, <2>5 DEF TargetsOK
<1>6. LimboDocs(us) = LimboDocs(ts)
  <2>1. \A u \in us : \E t \in ts : u.id.doc = t.id.doc
    BY <1>1
  <2>2. ASSUME NEW t \in ts PROVE \E u \in us : t.id.doc = u.id.doc
    <3>1. f[t] \in us /\ f[t].id = t.id
      BY <1>2
    <3> QED BY <3>1
  <2>3. {t.id.doc : t \in us} = {t.id.doc : t \in ts}
    BY <2>1, <2>2
  <2> QED BY <2>3 DEF LimboDocs
<1>7. (CHOOSE u \in us : u.id = Query) = f[q]
  <2>1. f[q] \in us /\ f[q].id = Query
    BY <1>2, <1>4
  <2> QED BY <2>1, <1>5, QueryTargetIs
<1> QED BY <1>5, <1>6, <1>7 DEF q

\* Targets that are all asked for, or for none of which an answer is awaited.
AllWaiting(ts, n) == {[t EXCEPT !.responses = n] : t \in ts}

\* Targets that all wait for n answers stay in order.
LEMMA AllWaitingIs ==
    ASSUME Inv, NEW n \in Nat
    PROVE  LET us == AllWaiting(targets, n)
           IN  /\ TargetsOK(us, lastLimbo)
               /\ \A u \in us : u \in Target /\ u.responses = n
               /\ \A u \in us : \E t \in targets : u.id = t.id
               /\ LimboDocs(us) = LimboDocs(targets)
               /\ \A u \in us : u.id = Query => u.token = QueryTarget.token
<1> DEFINE us == AllWaiting(targets, n)
           f == [t \in targets |-> [t EXCEPT !.responses = n]]
<1>1. TargetsOK(targets, lastLimbo) /\ targets \in SUBSET Target
  BY DEF Inv, TargetsOK
<1>2. ASSUME NEW t \in targets
      PROVE  /\ f[t] \in Target /\ f[t].id = t.id /\ f[t].token = t.token
             /\ f[t].received = t.received /\ f[t].responses = n
  BY <1>1 DEF Target
<1>3. us = Mapped(f, targets)
  BY DEF AllWaiting, Mapped
<1>4. f \in [targets -> Target]
  BY <1>2
<1> HIDE DEF us, f
<1>5. \A t \in targets : t.id # Query =>
         f[t].received = Exists(t.id.doc, f[t].token)
  BY <1>1, <1>2 DEF TargetsOK
<1>6. \A t \in targets : f[t].id = t.id /\ f[t].token <= Now
  BY <1>1, <1>2 DEF TargetsOK
<1>7. /\ TargetsOK(us, lastLimbo) /\ LimboDocs(us) = LimboDocs(targets)
      /\ (CHOOSE u \in us : u.id = Query) = f[QueryTarget]
  <2>1. /\ TargetsOK(us, lastLimbo) /\ LimboDocs(us) = LimboDocs(targets)
        /\ (CHOOSE u \in us : u.id = Query)
             = f[CHOOSE t \in targets : t.id = Query]
    BY <1>1, <1>3, <1>4, <1>5, <1>6, MappedTargets
  <2> QED BY <2>1 DEF QueryTarget
<1>8. \A u \in us : /\ u \in Target /\ u.responses = n
                    /\ \E t \in targets : u.id = t.id
  <2> TAKE u \in us
  <2>1. PICK t \in targets : u = f[t]
    BY <1>3 DEF Mapped
  <2> QED BY <1>2, <2>1
<1>9. \A u \in us : u.id = Query => u.token = QueryTarget.token
  <2>1. \A u \in us : u.id = Query => u = f[QueryTarget]
    BY <1>7, QueryTargetIs
  <2>2. QueryTarget \in targets
    BY InvTypes
  <2> QED BY <1>2, <2>1, <2>2
<1> QED BY <1>7, <1>8, <1>9 DEF us

\* The closed stream is in order.
LEMMA ClosedOK ==
    ASSUME NEW ts \in SUBSET Target, NEW last,
           \A t \in ts : t.responses = 0
    PROVE  StreamOK(Closed, ts, last) /\ Snapshots(Closed) = {}
<1>1. Closed \in Stream
  BY EmptySeq DEF Closed, Stream
<1>2. Len(Closed.up) = 0 /\ Len(Closed.down) = 0 /\ Closed.watched = {}
  BY EmptySeq DEF Closed
<1>3. Snapshots(Closed) = {}
  BY <1>2 DEF Snapshots
<1>4. Ordered(Closed) /\ OneEach(Closed)
  BY <1>2, <1>3 DEF Ordered, OneEach
<1>5. \A t \in ts : Tracked(t, Closed)
  BY ClosedTracked
<1> QED BY <1>1, <1>2, <1>3, <1>4, <1>5 DEF StreamOK

\* The primed form of what holds of targets and a stream now.
LEMMA OrderKept ==
    ASSUME Kept, NEW ts, NEW s, NEW last,
           TargetsOK(ts, last), StreamOK(s, ts, last),
           targets' = ts, stream' = s, lastLimbo' = last
    PROVE  /\ TargetsOK(targets, lastLimbo)'
           /\ StreamOK(stream, targets, lastLimbo)'
<1>1. ts \in SUBSET Target
  BY DEF TargetsOK
<1>2. TargetsOK(ts, last)' /\ StreamOK(s, ts, last)'
  BY <1>1, TargetsKept, StreamKept
<1> QED BY <1>2

\* The token of the query in targets that replace the others.
LEMMA TokenIs ==
    ASSUME NEW ts, NEW last, TargetsOK(ts, last), targets' = ts, NEW n,
           \A t \in ts : t.id = Query => t.token = n
    PROVE  QueryTarget'.token = n
<1>1. QueryTarget' = CHOOSE t \in ts : t.id = Query
  BY DEF QueryTarget
<1> QED BY <1>1, QueryTargetIs

\* A stream with more requests.
LEMMA RequestedIs ==
    ASSUME NEW s \in Stream, NEW r \in Seq(Request)
    PROVE  LET z == [s EXCEPT !.up = @ \o r]
           IN  /\ z = [open |-> s.open, up |-> s.up \o r, down |-> s.down,
                       watched |-> s.watched]
               /\ z \in Stream
<1> DEFINE z == [s EXCEPT !.up = @ \o r]
<1>1. s.up \o r \in Seq(Request)
  BY StreamFields, ConcatProperties
<1>2. /\ z.up = s.up \o r /\ z.down = s.down
      /\ z.open = s.open /\ z.watched = s.watched
  BY DEF Stream
<1>3. z \in Stream
  BY <1>1 DEF Stream
<1> HIDE DEF z
<1>4. z = [open |-> z.open, up |-> z.up, down |-> z.down,
           watched |-> z.watched]
  BY <1>3, StreamFields
<1> QED BY <1>2, <1>3, <1>4 DEF z

\* OnWatchStreamOpen: every target is asked for once.
LEMMA OpenInv ==
    ASSUME Inv, OnWatchStreamOpen
    PROVE  Inv'
<1> DEFINE W == {Watch(t) : t \in targets}
           r == SetToSeq(W)
           o == [open |-> TRUE, up |-> <<>>, down |-> <<>>, watched |-> {}]
           s == [o EXCEPT !.up = @ \o r]
           us == AllWaiting(targets, 1)
<1>1. /\ TargetsOK(targets, lastLimbo) /\ targets \in SUBSET Target
      /\ IsFiniteSet(targets) /\ Kept
  BY InvTypes, SameKept DEF Inv, TargetsOK, OnWatchStreamOpen
<1>2. /\ TargetsOK(us, lastLimbo)
      /\ \A u \in us : u \in Target /\ u.responses = 1
      /\ \A u \in us : \E t \in targets : u.id = t.id
      /\ LimboDocs(us) = LimboDocs(targets)
      /\ \A u \in us : u.id = Query => u.token = QueryTarget.token
  BY AllWaitingIs
<1>3. stream = Closed
  BY DEF Inv, StreamOK, OnWatchStreamOpen
<1>4. IsFiniteSet(W) /\ W \in SUBSET Request
  <2> DEFINE f == [t \in targets |-> Watch(t)]
  <2>1. f \in Surjection(targets, W)
    BY DEF Surjection
  <2>2. W \in SUBSET Request
    BY <1>1 DEF Watch, Request, Target
  <2> HIDE DEF W, f
  <2> QED BY <1>1, <2>1, <2>2, FS_Surjection
<1>5. \A x \in W : \E t \in targets : x = Watch(t) /\ x.target = t.id
  BY DEF Watch
<1>6. \A u \in us : Watch(u) \in W
  <2> TAKE u \in us
  <2>1. PICK t \in targets : u = [t EXCEPT !.responses = 1]
    BY DEF AllWaiting
  <2>2. Watch(u) = Watch(t)
    BY <1>1, <2>1 DEF Watch, Target
  <2> QED BY <2>2
<1> HIDE DEF W
<1>7. /\ r \in Seq(W) /\ r \in Seq(Request) /\ Len(r) \in Nat
      /\ \A x \in W : \E i \in 1..Len(r) : r[i] = x
      /\ \A i, j \in 1..Len(r) : r[i] = r[j] => i = j
      /\ \A i \in 1..Len(r) : r[i] \in W
  BY <1>4, SetToSeqIs, SeqMonotonic, LenProperties, ElementOfSeq
<1> HIDE DEF r, us
<1>8. /\ o = [open |-> TRUE, up |-> <<>>, down |-> <<>>, watched |-> {}]
      /\ o \in Stream
  <2>1. <<>> \in Seq(Request) /\ <<>> \in Seq(Message)
    BY EmptySeq
  <2> QED BY <2>1 DEF Stream
<1>9. /\ s = [open |-> TRUE, up |-> r, down |-> <<>>, watched |-> {}]
      /\ s \in Stream
  <2>1. <<>> \o r = r
    BY <1>7, ConcatEmptySeq
  <2>2. <<>> \in Seq(Message)
    BY EmptySeq
  <2> HIDE DEF o
  <2>3. s = [open |-> TRUE, up |-> <<>> \o r, down |-> <<>>, watched |-> {}]
    <3>2. s = [open |-> o.open, up |-> o.up \o r, down |-> o.down,
               watched |-> o.watched]
      BY <1>7, <1>8, RequestedIs
    <3>3. o.open = TRUE /\ o.up = <<>> /\ o.down = <<>> /\ o.watched = {}
      BY <1>8
    <3> QED BY <3>2, <3>3
  <2> HIDE DEF s
  <2> QED BY <1>7, <2>1, <2>2, <2>3 DEF Stream
<1>10. stream' = s /\ targets' = us /\ lastLimbo' = lastLimbo
  <2>1. stream' = [open |-> TRUE, up |-> r, down |-> <<>>, watched |-> {}]
    BY <1>3 DEF OnWatchStreamOpen, r, W, Closed
  <2>2. targets' = us /\ lastLimbo' = lastLimbo
    BY DEF OnWatchStreamOpen, us, AllWaiting
  <2> QED BY <1>9, <2>1, <2>2 DEF Closed
<1>11. ASSUME NEW u \in us PROVE Tracked(u, s)
  <2>1. PICK i \in 1..Len(r) : r[i] = Watch(u)
    BY <1>6, <1>7
  <2>2. ASSUME NEW j \in 1..Len(r), r[j].target = u.id PROVE j = i
    <3>1. PICK t \in targets : r[j] = Watch(t) /\ r[j].target = t.id
      BY <1>5, <1>7
    <3>2. PICK x \in targets : r[i] = Watch(x) /\ r[i].target = x.id
      BY <1>5, <1>7
    <3>3. x.id = u.id
      BY <2>1, <3>2 DEF Watch
    <3>4. t = x
      BY <1>1, <2>2, <3>1, <3>3 DEF TargetsOK
    <3> QED BY <3>1, <3>2, <3>4, <1>7
  <2>3. {j \in 1..Len(r) : r[j].target = u.id} = {i}
    BY <2>1, <2>2 DEF Watch
  <2>4. Cardinality({j \in 1..Len(r) : r[j].target = u.id}) = u.responses
    BY <1>2, <2>3, FS_Singleton
  <2>5. Requests(u.id, o) = {} /\ Answers(u.id, o) = {}
    BY <1>8, EmptySeq DEF Requests, Answers
  <2>6. \A j \in (i + 1)..Len(r) : r[j].target # u.id
    <3>1. \A j \in (i + 1)..Len(r) : j \in 1..Len(r) /\ j # i
      BY <1>7
    <3> QED BY <3>1, <2>2
  <2>7. u \in Target
    BY <1>2
  <2> HIDE DEF o
  <2> QED BY <1>7, <1>8, <2>1, <2>4, <2>5, <2>6, <2>7, AskedTracked
<1>12. /\ StreamOK(s, us, lastLimbo) /\ Snapshots(s) = {}
  <2> HIDE DEF s
  <2>1. Len(s.down) = 0 /\ s.up = r /\ s.watched = {} /\ s.open
    BY <1>9, EmptySeq
  <2>2. Snapshots(s) = {}
    BY <2>1 DEF Snapshots
  <2>3. Ordered(s) /\ OneEach(s)
    BY <2>1, <2>2 DEF Ordered, OneEach
  <2>4. \A k \in 1..Len(s.up) : s.up[k].target.number <= lastLimbo
    <3> TAKE k \in 1..Len(s.up)
    <3>1. PICK t \in targets : s.up[k].target = t.id
      BY <1>5, <1>7, <2>1
    <3>2. CASE t.id = Query
      BY <3>1, <3>2, QueryType, InvTypes
    <3>3. CASE t.id # Query
      BY <1>1, <3>1, <3>3 DEF TargetsOK
    <3> QED BY <3>2, <3>3
  <2>5. \A t \in us : Tracked(t, s)
    BY <1>11
  <2>6. s \in Stream
    BY <1>9
  <2>7. \A k \in 1..Len(s.down) :
           s.down[k].kind = "answer" => s.down[k].target.number <= lastLimbo
    BY <2>1
  <2> QED BY <2>1, <2>2, <2>3, <2>4, <2>5, <2>6, <2>7 DEF StreamOK
<1>13. /\ TargetsOK(targets, lastLimbo)'
       /\ StreamOK(stream, targets, lastLimbo)'
  BY <1>1, <1>2, <1>10, <1>12, OrderKept
<1>14. QueryTarget'.token = QueryTarget.token
  BY <1>2, <1>10, TokenIs
<1>15. Snapshots(stream') = {}
  BY <1>10, <1>12
<1>16. LimboDocs(targets') = LimboDocs(targets)
  BY <1>2, <1>10
<1>17. /\ UNCHANGED <<history, acks, queue, cache, disk, writes, keysLost,
                      lastLimbo>>
       /\ UNCHANGED <<view, online, raised, shown, troubles>>
  BY DEF OnWatchStreamOpen
<1>18. /\ troubles' \in Nat /\ online' \in {"unknown", "online", "offline"}
       /\ view' \in View /\ raised' \in BOOLEAN /\ shown' \in [Docs -> Value]
       /\ raised' => shown' = Values(view')
  BY <1>17 DEF Inv, TypeOK, ViewInv
<1>19. IsSynced(view', targets') => raised'
  BY <1>16, <1>17 DEF Inv, ViewInv, IsSynced
<1> QED
  BY <1>13, <1>14, <1>15, <1>16, <1>17, <1>18, <1>19, NetworkKeeps

\* The online state changes, with the targets and the stream in order.
LEMMA BroadcastInv ==
    ASSUME Inv, NEW state \in {"unknown", "online", "offline"}, NEW ts, NEW s,
           Broadcast(state, ts, s),
           TargetsOK(ts, lastLimbo), StreamOK(s, ts, lastLimbo),
           LimboDocs(ts) = LimboDocs(targets),
           \A t \in ts : t.id = Query => t.token = QueryTarget.token,
           \A k \in Snapshots(s) :
              k \in Snapshots(stream) /\ s.down[k] = stream.down[k],
           UNCHANGED <<history, acks, queue, cache, disk, writes, keysLost,
                       lastLimbo>>,
           troubles' \in Nat
    PROVE  Inv'
<1> DEFINE v == [view EXCEPT !.current = @ /\ state # "offline"]
<1>1. online' = state /\ view' = v /\ targets' = ts /\ stream' = s
  BY DEF Broadcast
<1>2. /\ v \in View /\ v.docs = view.docs /\ v.synced = view.synced
      /\ v.current = (view.current /\ state # "offline")
  BY InvTypes DEF View
<1> HIDE DEF v
<1>3. /\ raised' \in BOOLEAN /\ shown' \in [Docs -> Value]
      /\ raised' => shown' = Values(v)
      /\ IsSynced(v, ts) => raised'
  <2>1. Values(v) = Values(view)
    BY <1>2 DEF Values
  <2>2. CASE state = "offline" /\ ~raised
    <3>1. Raise(v, ts, state)
      BY <2>2 DEF Broadcast, v
    <3> QED BY <1>2, <3>1, InvTypes, RaiseIs
  <2>3. CASE ~(state = "offline" /\ ~raised)
    <3>1. UNCHANGED <<raised, shown>>
      BY <2>3 DEF Broadcast
    <3>2. raised => shown = Values(view)
      BY DEF Inv, ViewInv
    <3>3. IsSynced(v, ts) => IsSynced(view, targets)
      BY <1>2 DEF IsSynced
    <3>4. IsSynced(view, targets) => raised
      BY DEF Inv, ViewInv
    <3> QED BY <2>1, <3>1, <3>2, <3>3, <3>4, InvTypes
  <2> QED BY <2>2, <2>3
<1>4. Kept
  BY InvTypes, SameKept
<1>5. /\ TargetsOK(targets, lastLimbo)'
      /\ StreamOK(stream, targets, lastLimbo)'
  BY <1>1, <1>4, OrderKept
<1>6. QueryTarget'.token = QueryTarget.token
  BY <1>1, TokenIs
<1> QED BY <1>1, <1>2, <1>3, <1>5, <1>6, NetworkKeeps

\* The stream closes: targets are not waited for, and what was on its way is
\* lost.
LEMMA CloseInv ==
    ASSUME Inv, WatchStreamFails \/ RestartNetwork
    PROVE  Inv'
<1> DEFINE us == AllWaiting(targets, 0)
<1>1. /\ UNCHANGED <<history, acks, queue, cache, disk, writes, keysLost,
                     lastLimbo>>
      /\ troubles' \in Nat
      /\ \E state \in {"unknown", "online", "offline"} :
            Broadcast(state, us, Closed)
  <2>1. troubles \in Nat
    BY DEF Inv, TypeOK
  <2>2. CASE WatchStreamFails
    <3>1. Broadcast(IF online = "online" THEN "unknown" ELSE "offline", us,
                    Closed)
      BY <2>2 DEF WatchStreamFails, AllWaiting
    <3> HIDE DEF us
    <3> QED BY <2>1, <2>2, <3>1 DEF WatchStreamFails, Trouble
  <2>3. CASE RestartNetwork
    <3>1. Broadcast("unknown", us, Closed)
      BY <2>3 DEF RestartNetwork, AllWaiting
    <3> HIDE DEF us
    <3> QED BY <2>1, <2>3, <3>1 DEF RestartNetwork, Trouble
  <2> QED BY <2>2, <2>3
<1>2. PICK state \in {"unknown", "online", "offline"} :
         Broadcast(state, us, Closed)
  BY <1>1
<1>3. /\ TargetsOK(us, lastLimbo)
      /\ \A u \in us : u \in Target /\ u.responses = 0
      /\ LimboDocs(us) = LimboDocs(targets)
      /\ \A u \in us : u.id = Query => u.token = QueryTarget.token
  BY AllWaitingIs
<1> HIDE DEF us
<1>4. us \in SUBSET Target
  BY <1>3
<1>5. StreamOK(Closed, us, lastLimbo) /\ Snapshots(Closed) = {}
  BY <1>3, <1>4, ClosedOK
<1> QED BY <1>1, <1>2, <1>3, <1>5, BroadcastInv

\* OnlineStateTimeout: only the online state changes.
LEMMA TimeoutInv ==
    ASSUME Inv, OnlineStateTimeout
    PROVE  Inv'
<1>1. /\ UNCHANGED <<history, acks, queue, cache, disk, writes, keysLost,
                     lastLimbo>>
      /\ troubles' \in Nat
      /\ Broadcast("offline", targets, stream)
  BY DEF OnlineStateTimeout, Trouble, Inv, TypeOK
<1>2. /\ TargetsOK(targets, lastLimbo) /\ StreamOK(stream, targets, lastLimbo)
  BY DEF Inv
<1>3. \A t \in targets : t.id = Query => t.token = QueryTarget.token
  BY <1>2, QueryTargetIs DEF QueryTarget
<1> QED BY <1>1, <1>2, <1>3, BroadcastInv

\* A step of the stream alone.
LEMMA OnlyStreamKeeps ==
    ASSUME Inv, OnlyStream, NEW s, stream' = s,
           StreamOK(s, targets, lastLimbo),
           \A k \in Snapshots(s) :
              \/ \E j \in Snapshots(stream) : s.down[k] = stream.down[j]
              \/ /\ s.down[k].version = Now
                 /\ s.down[k].count = Cardinality(Existing(Now))
    PROVE  Inv'
<1>1. /\ UNCHANGED <<history, acks, queue, cache, disk, writes, keysLost,
                     lastLimbo>>
      /\ UNCHANGED <<targets, view, online, raised, shown, troubles>>
  BY DEF OnlyStream
<1>2. Kept /\ TargetsOK(targets, lastLimbo)
  BY <1>1, InvTypes, SameKept DEF Inv
<1>3. PICK ts : ts = targets
  OBVIOUS
<1>4. PICK last : last = lastLimbo
  OBVIOUS
<1>5. /\ TargetsOK(targets, lastLimbo)'
      /\ StreamOK(stream, targets, lastLimbo)'
  BY <1>1, <1>2, <1>3, <1>4, OrderKept
<1>6. QueryTarget'.token = QueryTarget.token
  <2>1. QueryTarget' = QueryTarget
    BY <1>1 DEF QueryTarget
  <2> QED BY <2>1
<1>7. /\ troubles' \in Nat /\ online' \in {"unknown", "online", "offline"}
      /\ view' \in View /\ raised' \in BOOLEAN /\ shown' \in [Docs -> Value]
      /\ raised' => shown' = Values(view')
      /\ IsSynced(view', targets') => raised'
  BY <1>1 DEF Inv, TypeOK, ViewInv
<1> QED BY <1>1, <1>5, <1>6, <1>7, NetworkKeeps

\* Answer.
LEMMA AnswerInv ==
    ASSUME Inv, Answer
    PROVE  Inv'
<1> DEFINE z == Answering(stream)
           m == Len(stream.up)
           n == Len(stream.down)
           r == Head(stream.up)
<1>1. /\ stream' = z /\ stream.up # <<>> /\ OnlyStream
  BY DEF Answer, Answering
<1>2. /\ StreamOK(stream, targets, lastLimbo) /\ stream \in Stream
      /\ targets \in SUBSET Target
  BY InvTypes DEF Inv
<1>3. /\ r \in Request /\ z \in Stream /\ n \in Nat /\ m \in Nat
      /\ m > 0 /\ r = stream.up[1]
      /\ Len(z.up) = m - 1
      /\ \A i \in 1..(m - 1) : z.up[i] = stream.up[i + 1]
      /\ Len(z.down) = n + 1
      /\ \A i \in 1..n : z.down[i] = stream.down[i]
      /\ z.down[n + 1] = [kind |-> "answer", target |-> r.target]
      /\ z.open = stream.open
  BY <1>1, <1>2, AnsweringIs
<1>4. \A t \in targets : Tracked(t, z)
  <2> TAKE t \in targets
  <2>1. t \in Target /\ Tracked(t, stream)
    BY <1>2 DEF StreamOK
  <2> QED BY <1>1, <1>2, <2>1, OtherAnsweringTracked, OwnAnsweringTracked
<1>5. Ordered(z) /\ OneEach(z)
  BY <1>1, <1>2, AnsweringOrdered DEF StreamOK
<1> HIDE DEF z, m, n, r
<1>6. \A k \in Snapshots(z) :
         k \in Snapshots(stream) /\ z.down[k] = stream.down[k]
  <2> TAKE k \in Snapshots(z)
  <2>1. k \in 1..(n + 1) /\ z.down[k].kind = "snapshot"
    BY <1>3 DEF Snapshots
  <2>2. k # n + 1
    BY <1>3, <2>1
  <2>3. k \in 1..n
    BY <1>3, <2>1, <2>2
  <2> QED BY <1>3, <2>1, <2>3 DEF Snapshots, n
<1>7. \A k \in 1..Len(z.up) : z.up[k].target.number <= lastLimbo
  <2> TAKE k \in 1..Len(z.up)
  <2>1. k \in 1..(m - 1) /\ k + 1 \in 1..m
    BY <1>3
  <2> QED BY <1>2, <1>3, <2>1 DEF StreamOK, m
<1>8. \A k \in 1..Len(z.down) :
         z.down[k].kind = "answer" => z.down[k].target.number <= lastLimbo
  <2> TAKE k \in 1..Len(z.down)
  <2>1. CASE k \in 1..n
    BY <1>2, <1>3, <2>1 DEF StreamOK, n
  <2>2. CASE k = n + 1
    <3>1. 1 \in 1..m
      BY <1>3
    <3>2. r.target.number <= lastLimbo
      BY <1>2, <1>3, <3>1 DEF StreamOK, m
    <3> QED BY <1>3, <2>2, <3>2
  <2> QED BY <1>3, <2>1, <2>2
<1>9. ~z.open => z = Closed
  <2>1. stream.open
    <3>1. ~stream.open => stream = Closed
      BY <1>2 DEF StreamOK
    <3> QED BY <1>1, <3>1 DEF Closed
  <2> QED BY <1>3, <2>1
<1>10. \A t \in targets : \A k \in Snapshots(z) : t.token <= z.down[k].version
  BY <1>2, <1>6 DEF StreamOK
<1>11. StreamOK(z, targets, lastLimbo)
  BY <1>3, <1>4, <1>5, <1>7, <1>8, <1>9, <1>10 DEF StreamOK
<1> QED BY <1>1, <1>6, <1>11, OnlyStreamKeeps

\* Tell.
LEMMA TellInv ==
    ASSUME Inv, NEW how \in {"replay", "count", "reset"}, Tell(how)
    PROVE  Inv'
<1> DEFINE z == Telling(stream, how)
           n == Len(stream.down)
<1>1. /\ stream' = z /\ OnlyStream
      /\ how # "replay" => \E w \in stream.watched :
                              w.target = Query /\ ~w.current /\ w.told > 0
  BY DEF Tell, Telling, TargetsNaming, ToldUpToNow, Existing
<1>2. /\ StreamOK(stream, targets, lastLimbo) /\ stream \in Stream
      /\ targets \in SUBSET Target /\ Now \in Nat /\ Now > 0
      /\ TargetsOK(targets, lastLimbo)
  BY InvTypes DEF Inv
<1>3. /\ z \in Stream /\ n \in Nat /\ Len(z.down) = n + 1
      /\ \A i \in 1..n : z.down[i] = stream.down[i]
      /\ z.down[n + 1].kind = "snapshot" /\ z.down[n + 1].version = Now
      /\ z.down[n + 1].count = Cardinality(Existing(Now))
      /\ z.up = stream.up /\ z.open = stream.open
      /\ Snapshots(z) = Snapshots(stream) \cup {n + 1}
      /\ Snapshots(stream) \subseteq 1..n
  BY <1>2, TellingIs, SMTT(40)
<1>4. \A t \in targets : Tracked(t, z)
  <2> TAKE t \in targets
  <2>1. t \in Target /\ Tracked(t, stream) /\ t.token <= Now
    BY <1>2 DEF StreamOK, TargetsOK
  <2>2. Ordered(stream) /\ OneEach(stream)
    BY <1>2 DEF StreamOK
  <2> QED BY <1>1, <1>2, <2>1, <2>2, TellingTracked
<1>5. Ordered(z) /\ OneEach(z)
  BY <1>1, <1>2, TellingOrdered DEF StreamOK
<1> HIDE DEF z, n
<1>6. \A k \in Snapshots(z) : \/ k \in Snapshots(stream)
                              \/ k = n + 1
  BY <1>3
<1>7. \A k \in Snapshots(stream) : z.down[k] = stream.down[k]
  BY <1>3
<1>8. \A k \in 1..Len(z.down) :
         z.down[k].kind = "answer" => z.down[k].target.number <= lastLimbo
  <2> TAKE k \in 1..Len(z.down)
  <2>1. CASE k \in 1..n
    BY <1>2, <1>3, <2>1 DEF StreamOK, n
  <2>2. CASE k = n + 1
    BY <1>3, <2>2
  <2> QED BY <1>3, <2>1, <2>2
<1>9. ~z.open => z = Closed
  <2>1. stream.open
    <3>1. stream.watched # {}
      BY DEF Tell
    <3>2. ~stream.open => stream = Closed
      BY <1>2 DEF StreamOK
    <3> QED BY <3>1, <3>2 DEF Closed
  <2> QED BY <1>3, <2>1
<1>10. \A t \in targets : \A k \in Snapshots(z) : t.token <= z.down[k].version
  <2> TAKE t \in targets
  <2> TAKE k \in Snapshots(z)
  <2>1. CASE k \in Snapshots(stream)
    BY <1>2, <1>7, <2>1 DEF StreamOK
  <2>2. CASE k = n + 1
    BY <1>2, <1>3, <2>2 DEF TargetsOK
  <2> QED BY <1>6, <2>1, <2>2
<1>11. StreamOK(z, targets, lastLimbo)
  BY <1>2, <1>3, <1>4, <1>5, <1>8, <1>9, <1>10 DEF StreamOK
<1> QED BY <1>1, <1>3, <1>6, <1>7, <1>11, OnlyStreamKeeps

\* The stream when its first message is taken.
Taken(s) == [s EXCEPT !.down = Tail(@)]

\* What is left of the stream when a message is taken, and the targets have
\* taken note of it.
LEMMA RestOK ==
    ASSUME NEW ts, NEW us \in SUBSET Target, NEW s, NEW last,
           StreamOK(s, ts, last), s.down # <<>>,
           NEW z, z = Taken(s),
           \A u \in us : Tracked(u, z),
           \A u \in us : \/ \E t \in ts : u.token = t.token
                         \/ /\ Head(s.down).kind = "snapshot"
                            /\ u.token = Head(s.down).version
                         \/ u.token = 0
    PROVE  /\ StreamOK(z, us, last)
           /\ \A k \in Snapshots(z) : /\ k + 1 \in Snapshots(s)
                                      /\ z.down[k] = s.down[k + 1]
<1> DEFINE n == Len(s.down)
<1>1. s \in Stream
  BY DEF StreamOK
<1>2. /\ z \in Stream /\ n \in Nat /\ n > 0 /\ Head(s.down) = s.down[1]
      /\ Len(z.down) = n - 1
      /\ \A i \in 1..(n - 1) : z.down[i] = s.down[i + 1]
      /\ z.up = s.up /\ z.open = s.open /\ z.watched = s.watched
      /\ Snapshots(z) = {i \in 1..(n - 1) : i + 1 \in Snapshots(s)}
  <2> DEFINE y == [s EXCEPT !.down = Tail(@)]
  <2>1. /\ y \in Stream /\ n \in Nat /\ n > 0 /\ Head(s.down) = s.down[1]
        /\ Len(y.down) = n - 1
        /\ \A i \in 1..(n - 1) : y.down[i] = s.down[i + 1]
        /\ y.up = s.up /\ y.open = s.open /\ y.watched = s.watched
        /\ Snapshots(y) = {i \in 1..(n - 1) : i + 1 \in Snapshots(s)}
    BY <1>1, RestIs
  <2>2. z = y
    BY DEF Taken
  <2> HIDE DEF y
  <2> QED BY <2>1, <2>2
<1>3. /\ \A k \in Snapshots(s) : s.down[k].version \in 1..Now
      /\ \A j, k \in Snapshots(s) :
            j < k => s.down[j].version <= s.down[k].version
  BY DEF StreamOK, Ordered
<1>4. \A k \in Snapshots(z) : /\ k \in 1..(n - 1) /\ k + 1 \in Snapshots(s)
                              /\ z.down[k] = s.down[k + 1]
  BY <1>2
<1>5. Ordered(z)
  <2>1. \A j, k \in Snapshots(z) :
           j < k => z.down[j].version <= z.down[k].version
    <3> TAKE j, k \in Snapshots(z)
    <3> HAVE j < k
    <3>1. j + 1 \in Snapshots(s) /\ k + 1 \in Snapshots(s) /\ j + 1 < k + 1
      BY <1>4
    <3>2. s.down[j + 1].version <= s.down[k + 1].version
      BY <1>3, <3>1
    <3> QED BY <1>4, <3>2
  <2>2. \A k \in Snapshots(z) : z.down[k].version \in 1..Now
    BY <1>3, <1>4
  <2> QED BY <2>1, <2>2 DEF Ordered
<1>6. OneEach(z)
  BY <1>2 DEF StreamOK, OneEach
<1>7. ~z.open => z = Closed
  <2>1. s.open
    <3>1. ~s.open => s = Closed
      BY DEF StreamOK
    <3> QED BY <3>1 DEF Closed
  <2> QED BY <1>2, <2>1
<1>8. \A k \in 1..Len(z.up) : z.up[k].target.number <= last
  BY <1>2 DEF StreamOK
<1>9. \A k \in 1..Len(z.down) :
         z.down[k].kind = "answer" => z.down[k].target.number <= last
  <2> TAKE k \in 1..Len(z.down)
  <2>1. k \in 1..(n - 1) /\ k + 1 \in 1..n
    BY <1>2
  <2> QED BY <1>2, <2>1 DEF StreamOK, n
<1>10. \A u \in us : \A k \in Snapshots(z) : u.token <= z.down[k].version
  <2> TAKE u \in us
  <2> TAKE k \in Snapshots(z)
  <2>0. k \in 1..(n - 1)
    BY <1>4
  <2>1. k + 1 \in Snapshots(s) /\ z.down[k] = s.down[k + 1] /\ 1 < k + 1
    BY <2>0, <1>4, <1>2
  <2>2. CASE \E t \in ts : u.token = t.token
    <3>1. PICK t \in ts : u.token = t.token
      BY <2>2
    <3>2. t.token <= s.down[k + 1].version
      BY <2>1 DEF StreamOK
    <3> QED BY <2>1, <3>1, <3>2
  <2>3. CASE Head(s.down).kind = "snapshot" /\ u.token = Head(s.down).version
    <3>1. 1 \in Snapshots(s)
      BY <1>2, <2>3 DEF Snapshots, n
    <3>2. s.down[1].version <= s.down[k + 1].version
      BY <1>3, <2>1, <3>1
    <3> QED BY <1>2, <2>1, <2>3, <3>2
  <2>4. CASE u.token = 0
    <3>1. s.down[k + 1].version > 0
      BY <1>3, <2>1
    <3>2. s.down[k + 1].version \in Nat
      BY <1>3, <2>1
    <3> QED BY <2>1, <2>4, <3>1, <3>2
  <2>5. \/ \E t \in ts : u.token = t.token
        \/ Head(s.down).kind = "snapshot" /\ u.token = Head(s.down).version
        \/ u.token = 0
    OBVIOUS
  <2> QED BY <2>2, <2>3, <2>4, <2>5
<1>11. StreamOK(z, us, last)
  BY <1>2, <1>5, <1>6, <1>7, <1>8, <1>9, <1>10 DEF StreamOK
<1> QED BY <1>4, <1>11

\* HandleAnswer: the target waits for one answer less.
LEMMA HandleAnswerInv ==
    ASSUME Inv, HandleAnswer
    PROVE  Inv'
<1> DEFINE f == [t \in targets |->
                    IF t.id = Heard.target
                    THEN [t EXCEPT !.responses = @ - 1] ELSE t]
           us == Mapped(f, targets)
           z == [stream EXCEPT !.down = Tail(@)]
<1>1. /\ StreamOK(stream, targets, lastLimbo) /\ stream \in Stream
      /\ targets \in SUBSET Target /\ Now \in Nat
      /\ TargetsOK(targets, lastLimbo)
  BY InvTypes DEF Inv
<1>2. /\ stream.down # <<>> /\ Heard.kind = "answer" /\ stream' = z
      /\ targets' = us
      /\ UNCHANGED <<history, acks, queue, cache, disk, writes, keysLost,
                     lastLimbo>>
      /\ UNCHANGED <<view, raised, shown, troubles>>
      /\ online' = "online"
  BY DEF HandleAnswer, Mapped, Rest
<1>3. ASSUME NEW t \in targets
      PROVE  /\ f[t] \in Target /\ Tracked(f[t], z)
             /\ f[t].id = t.id /\ f[t].token = t.token
             /\ f[t].received = t.received
  <2>1. t \in Target /\ Tracked(t, stream) /\ Ordered(stream)
    BY <1>1 DEF StreamOK
  <2>2. /\ (IF t.id = Head(stream.down).target
            THEN [t EXCEPT !.responses = @ - 1] ELSE t) \in Target
        /\ Tracked(IF t.id = Head(stream.down).target
                   THEN [t EXCEPT !.responses = @ - 1] ELSE t, z)
    BY <1>1, <1>2, <2>1, AnswerHeardTracked DEF Heard
  <2>3. f[t] = IF t.id = Head(stream.down).target
               THEN [t EXCEPT !.responses = @ - 1] ELSE t
    BY DEF Heard
  <2>4. f[t].id = t.id /\ f[t].token = t.token /\ f[t].received = t.received
    BY <2>1, <2>3 DEF Target
  <2> QED BY <2>2, <2>3, <2>4
<1>4. f \in [targets -> Target]
  BY <1>3
<1> HIDE DEF f, us, z
<1>5. /\ TargetsOK(us, lastLimbo) /\ LimboDocs(us) = LimboDocs(targets)
      /\ (CHOOSE u \in us : u.id = Query)
           = f[CHOOSE t \in targets : t.id = Query]
  <2>1. \A t \in targets : f[t].id = t.id /\ f[t].token <= Now
    BY <1>1, <1>3 DEF TargetsOK
  <2>2. \A t \in targets : t.id # Query =>
           f[t].received = Exists(t.id.doc, f[t].token)
    BY <1>1, <1>3 DEF TargetsOK
  <2>3. us = Mapped(f, targets)
    BY DEF us
  <2> QED BY <1>1, <1>4, <2>1, <2>2, <2>3, MappedTargets
<1>6. \A u \in us : \E t \in targets : u = f[t]
  BY DEF us, Mapped
<1>7. /\ StreamOK(z, us, lastLimbo)
      /\ \A k \in Snapshots(z) : /\ k + 1 \in Snapshots(stream)
                                 /\ z.down[k] = stream.down[k + 1]
  <2>1. us \in SUBSET Target
    BY <1>3, <1>6
  <2>2. /\ \A u \in us : Tracked(u, z)
        /\ \A u \in us :
              \/ \E t \in targets : u.token = t.token
              \/ /\ Head(stream.down).kind = "snapshot"
                 /\ u.token = Head(stream.down).version
              \/ u.token = 0
    <3>1. ASSUME NEW u \in us
          PROVE  Tracked(u, z) /\ \E t \in targets : u.token = t.token
      <4>1. PICK t \in targets : u = f[t]
        BY <1>6
      <4> QED BY <1>3, <4>1
    <3> QED BY <3>1
  <2>3. z = Taken(stream)
    BY DEF z, Taken
  <2>4. StreamOK(stream, targets, lastLimbo) /\ stream.down # <<>>
    BY <1>1, <1>2
  <2> QED BY <2>1, <2>2, <2>3, <2>4, RestOK
<1>8. Kept
  BY <1>2, InvTypes, SameKept
<1>9. /\ TargetsOK(targets, lastLimbo)'
      /\ StreamOK(stream, targets, lastLimbo)'
  BY <1>2, <1>5, <1>7, <1>8, OrderKept
<1>10. QueryTarget'.token = QueryTarget.token
  <2>1. QueryTarget' = f[QueryTarget]
    BY <1>2, <1>5 DEF QueryTarget
  <2>2. QueryTarget \in targets
    BY InvTypes
  <2> QED BY <1>3, <2>1, <2>2
<1>11. /\ troubles' \in Nat /\ online' \in {"unknown", "online", "offline"}
       /\ view' \in View /\ raised' \in BOOLEAN /\ shown' \in [Docs -> Value]
       /\ raised' => shown' = Values(view')
  BY <1>2 DEF Inv, TypeOK, ViewInv
<1>12. LimboDocs(targets') = LimboDocs(targets)
  BY <1>2, <1>5
<1>13. IsSynced(view', targets') => raised'
  BY <1>2, <1>12 DEF Inv, ViewInv, IsSynced
<1>14. \A k \in Snapshots(stream') :
          \E j \in Snapshots(stream) : stream'.down[k] = stream.down[j]
  BY <1>2, <1>7
<1> QED
  BY <1>2, <1>9, <1>10, <1>11, <1>12, <1>13, <1>14, NetworkKeeps

-----------------------------------------------------------------------------
(* The server commits *)

\* Steps of the server's history and of the answers to the phone's writes.
LEMMA ServerKeeps ==
    ASSUME Inv, Kept, history' \in Seq(Change), Now' > 0,
           \A i \in 1..Now : history'[i] = history[i],
           UNCHANGED <<stream, queue, cache, disk, targets, lastLimbo, view,
                       online, raised, shown, keysLost>>,
           writes' \in Nat, troubles' \in Nat,
           acks' \in Seq(Nat), AcksInv', OwnInv',
           \A d \in Docs : cache[d].committed =>
              \A j \in 1..Len(acks') : cache[d].version < acks'[j]
    PROVE  Inv'
<1>1. /\ \A d \in Docs : /\ cache[d].version \in Nat /\ cache[d].version <= Now
                         /\ cache[d].version \in 0..Now
      /\ Now \in Nat
  BY InvTypes
<1>2. CacheInv'
  <2>1. ASSUME NEW d \in Docs
        PROVE  /\ cache'[d].version <= Now'
               /\ cache'[d].value = ServerDoc(d, cache[d].version)'.value
               /\ cache'[d].committed =>
                     /\ cache'[d].version > 0 /\ IsOwn(d, cache[d].version)'
                     /\ \A j \in 1..Len(acks') : cache'[d].version < acks'[j]
    <3>1. /\ cache[d].value = ServerDoc(d, cache[d].version).value
          /\ cache[d].committed =>
                cache[d].version > 0 /\ IsOwn(d, cache[d].version)
      BY DEF Inv, CacheInv
    <3>2. PICK v : v = cache[d].version
      OBVIOUS
    <3>3. ServerDoc(d, v)' = ServerDoc(d, v)
      BY <1>1, <3>2 DEF Kept
    <3>4. v = cache'[d].version
      BY <3>2
    <3>5. ServerDoc(d, cache[d].version)' = ServerDoc(d, v)'
      BY <3>4
    <3>6. v > 0 => history'[v] = history[v]
      BY <1>1, <3>2
    <3>7. cache[d].committed => IsOwn(d, cache[d].version)'
      BY <3>1, <3>2, <3>6 DEF IsOwn
    <3>8. cache'[d].version <= Now'
      BY <1>1 DEF Kept
    <3> QED BY <3>1, <3>2, <3>3, <3>5, <3>7, <3>8
  <2> QED BY <2>1 DEF CacheInv
<1>3. \A d \in Docs : Settled(d)' => Settled(d) /\ cache'[d] = cache[d]
  BY DEF Settled
<1>4. QueryTarget' = QueryTarget
  BY DEF QueryTarget
<1>5. KnowInv' /\ MessagesInv'
  BY <1>1, <1>3, <1>4, StepKeeps
<1>6. ViewInv'
  <2>1. \A d \in Docs : Laid(d, view.docs[d], queue, cache)'
    BY DEF Inv, ViewInv, Laid, LastValue
  <2>2. view'.current => (LimboDocs(targets) = InLimbo(view))'
    BY DEF Inv, ViewInv, LimboDocs, InLimbo
  <2>3. raised' => (shown = Values(view))'
    BY DEF Inv, ViewInv, Values
  <2>4. IsSynced(view, targets)' => raised'
    BY DEF Inv, ViewInv, IsSynced, LimboDocs
  <2> QED BY <2>1, <2>2, <2>3, <2>4 DEF ViewInv
<1>7. /\ TargetsOK(targets, lastLimbo)'
      /\ StreamOK(stream, targets, lastLimbo)'
  <2>1. PICK ts : ts = targets
    OBVIOUS
  <2>2. PICK s : s = stream
    OBVIOUS
  <2>3. PICK last : last = lastLimbo
    OBVIOUS
  <2>4. TargetsOK(ts, last) /\ StreamOK(s, ts, last)
    BY <2>1, <2>2, <2>3 DEF Inv
  <2> QED BY <2>1, <2>2, <2>3, <2>4, OrderKept
<1>8. TypeOK'
  BY DEF Inv, TypeOK
<1> QED BY <1>2, <1>5, <1>6, <1>7, <1>8 DEF Inv

\* OtherWrites: what others write is not the phone's own.
LEMMA OtherWritesInv ==
    ASSUME Inv, NEW d \in Docs, NEW value \in Value, OtherWrites(d, value)
    PROVE  Inv'
<1> DEFINE c == [doc |-> d, value |-> value, own |-> FALSE]
<1>1. c \in Change /\ history' = Append(history, c) /\ history \in Seq(Change)
  BY InvTypes DEF OtherWrites, Commit, Change
<1>2. /\ Kept /\ Now' = Now + 1 /\ history' \in Seq(Change)
      /\ \A i \in 1..Now : history'[i] = history[i]
      /\ history'[Now + 1] = c
  BY <1>1, GrowsKept
<1>3. UNCHANGED <<stream, acks, queue, cache, disk, targets, lastLimbo, view,
                  online, raised, shown, writes, troubles, keysLost>>
  BY DEF OtherWrites
<1>4. Now \in Nat /\ Len(acks) \in Nat
  BY InvTypes
<1> HIDE DEF c
<1>5. AcksInv'
  <2>1. \A j \in 1..Len(acks) :
           /\ acks[j] \in 1..Now' /\ history'[acks[j]] = history[acks[j]]
    BY <1>2, <1>4 DEF Inv, AcksInv
  <2> QED BY <1>3, <2>1 DEF Inv, AcksInv
<1>6. OwnInv'
  <2> SUFFICES ASSUME NEW e \in Docs, NEW i \in 1..Now', IsOwn(e, i)'
               PROVE  \/ i <= cache'[e].version
                      \/ \E j \in Mine(e, queue') :
                            j <= Len(acks') => i <= acks'[j]
    BY DEF OwnInv
  <2>1. i # Now + 1
    BY <1>2 DEF IsOwn, c
  <2>2. i \in 1..Now /\ IsOwn(e, i)
    BY <1>2, <1>4, <2>1 DEF IsOwn
  <2> QED BY <1>3, <2>2 DEF Inv, OwnInv
<1>7. /\ Now' > 0 /\ writes' \in Nat /\ troubles' \in Nat /\ acks' \in Seq(Nat)
  BY <1>2, <1>3, <1>4 DEF Inv, TypeOK
<1>8. \A e \in Docs : cache[e].committed =>
         \A j \in 1..Len(acks') : cache[e].version < acks'[j]
  BY <1>3 DEF Inv, CacheInv
<1> QED BY <1>2, <1>3, <1>5, <1>6, <1>7, <1>8, ServerKeeps

\* ApplyWrite: the next write of the queue becomes the newest version.
LEMMA ApplyWriteInv ==
    ASSUME Inv, ApplyWrite
    PROVE  Inv'
<1> DEFINE n == Len(acks) + 1
           c == [doc |-> queue[n].doc, value |-> queue[n].value, own |-> TRUE]
<1>1. /\ n \in 1..Len(queue) /\ Now \in Nat /\ Len(acks) \in Nat
      /\ Len(queue) \in Nat /\ acks \in Seq(Nat) /\ queue \in Seq(Write)
  BY InvTypes DEF ApplyWrite
<1>2. queue[n] \in Write
  BY <1>1, ElementOfSeq
<1>3. c \in Change /\ history' = Append(history, c) /\ history \in Seq(Change)
  BY <1>2, InvTypes DEF ApplyWrite, Commit, Change, Write
<1>4. /\ Kept /\ Now' = Now + 1 /\ history' \in Seq(Change)
      /\ \A i \in 1..Now : history'[i] = history[i]
      /\ history'[Now + 1] = c
  BY <1>3, GrowsKept
<1>5. UNCHANGED <<stream, queue, cache, disk, targets, lastLimbo, view,
                  online, raised, shown, writes, troubles, keysLost>>
  BY DEF ApplyWrite
<1>6. acks' = Append(acks, Now + 1)
  BY <1>4 DEF ApplyWrite, Now
<1>7. /\ acks' \in Seq(Nat) /\ Len(acks') = n
      /\ \A j \in 1..Len(acks) : acks'[j] = acks[j]
      /\ acks'[n] = Now + 1
  BY <1>1, <1>6, AppendProperties
<1>8. /\ history'[Now + 1].doc = queue[n].doc
      /\ history'[Now + 1].value = queue[n].value
      /\ history'[Now + 1].own
  BY <1>4
<1> HIDE DEF c
<1>9. \A j \in 1..n : j \in 1..Len(acks) \/ j = n
  BY <1>1
<1>10. AcksInv
  BY DEF Inv
<1>11. AcksInv'
  <2>1. ASSUME NEW j \in 1..Len(acks')
        PROVE  /\ acks'[j] \in 1..Now'
               /\ history'[acks'[j]].doc = queue[j].doc
               /\ history'[acks'[j]].value = queue[j].value
               /\ history'[acks'[j]].own
    <3>1. CASE j \in 1..Len(acks)
      <4>1. acks[j] \in 1..Now /\ acks'[j] = acks[j]
        BY <1>7, <1>10, <3>1 DEF AcksInv
      <4>2. history'[acks[j]] = history[acks[j]]
        BY <1>4, <4>1
      <4> QED BY <1>1, <1>4, <1>10, <3>1, <4>1, <4>2 DEF AcksInv
    <3>2. CASE j = n
      <4>1. acks'[j] = Now + 1 /\ Now + 1 \in 1..Now'
        BY <1>1, <1>4, <1>7, <3>2
      <4> QED BY <1>8, <3>2, <4>1
    <3> QED BY <1>7, <1>9, <3>1, <3>2
  <2>2. ASSUME NEW j \in 1..Len(acks'), NEW k \in 1..Len(acks'), j < k
        PROVE  acks'[j] < acks'[k]
    <3>1. j \in 1..Len(acks) /\ acks'[j] = acks[j] /\ acks[j] \in 1..Now
      BY <1>1, <1>7, <1>10, <2>2 DEF AcksInv
    <3>2. CASE k \in 1..Len(acks)
      BY <1>7, <1>10, <2>2, <3>1, <3>2 DEF AcksInv
    <3>3. CASE k = n
      BY <1>1, <1>7, <3>1, <3>3
    <3> QED BY <1>7, <1>9, <3>2, <3>3
  <2>3. Len(acks') <= Len(queue)
    BY <1>1, <1>7
  <2> QED BY <1>5, <2>1, <2>2, <2>3 DEF AcksInv
<1>12. OwnInv'
  <2> SUFFICES ASSUME NEW e \in Docs, NEW i \in 1..Now', IsOwn(e, i)'
               PROVE  \/ i <= cache'[e].version
                      \/ \E j \in Mine(e, queue') :
                            j <= Len(acks') => i <= acks'[j]
    BY DEF OwnInv
  <2>1. i \in 1..Now \/ i = Now + 1
    BY <1>1, <1>4
  <2>2. Mine(e, queue) = {j \in 1..Len(queue) : queue[j].doc = e}
    BY <1>1, MineIs
  <2>3. CASE i = Now + 1
    <3>1. n \in Mine(e, queue)
      BY <1>1, <1>8, <2>2, <2>3 DEF IsOwn
    <3> QED BY <1>1, <1>5, <1>7, <2>3, <3>1
  <2>4. CASE i \in 1..Now
    <3>1. IsOwn(e, i)
      BY <1>4, <2>4 DEF IsOwn
    <3>2. \/ i <= cache[e].version
          \/ \E j \in Mine(e, queue) : j <= Len(acks) => i <= acks[j]
      BY <2>4, <3>1 DEF Inv, OwnInv
    <3>3. ASSUME NEW j \in Mine(e, queue), j <= Len(acks) => i <= acks[j]
          PROVE  j <= Len(acks') => i <= acks'[j]
      <4>1. j \in 1..Len(queue)
        BY <2>2
      <4>2. CASE j \in 1..Len(acks)
        BY <1>7, <3>3, <4>2
      <4>3. CASE j = n
        BY <1>1, <1>7, <2>4, <4>3
      <4>4. CASE j > n
        BY <1>1, <1>7, <4>1, <4>4
      <4> QED BY <1>1, <4>1, <4>2, <4>3, <4>4
    <3> QED BY <1>5, <3>2, <3>3
  <2> QED BY <2>1, <2>3, <2>4
<1>13. Now' > 0 /\ writes' \in Nat /\ troubles' \in Nat
  BY <1>1, <1>4, <1>5 DEF Inv, TypeOK
<1>14. \A d \in Docs : cache[d].committed =>
          \A j \in 1..Len(acks') : cache[d].version < acks'[j]
  <2> TAKE d \in Docs
  <2> HAVE cache[d].committed
  <2> TAKE j \in 1..Len(acks')
  <2>1. CASE j \in 1..Len(acks)
    BY <1>7, <2>1 DEF Inv, CacheInv
  <2>2. CASE j = n
    BY <1>1, <1>7, <2>2, InvTypes
  <2> QED BY <1>7, <1>9, <2>1, <2>2
<1> HIDE DEF n
<1> QED BY <1>4, <1>5, <1>7, <1>11, <1>12, <1>13, <1>14, ServerKeeps

\* LoseAcks.
LEMMA LoseAcksInv ==
    ASSUME Inv, LoseAcks
    PROVE  Inv'
<1>1. /\ acks' = <<>> /\ troubles' = troubles + 1
      /\ UNCHANGED <<history, stream, queue, cache, disk, targets, lastLimbo,
                     view, online, raised, shown, writes, keysLost>>
  BY DEF LoseAcks, Trouble
<1>2. acks' \in Seq(Nat) /\ Len(acks') = 0
  BY <1>1, EmptySeq
<1>3. /\ Kept /\ Now' = Now /\ Now > 0 /\ history' \in Seq(Change)
      /\ Len(queue) \in Nat
  BY <1>1, InvTypes, SameKept DEF Now
<1>4. AcksInv'
  BY <1>1, <1>2, <1>3 DEF AcksInv
<1>5. OwnInv'
  <2> SUFFICES ASSUME NEW e \in Docs, NEW i \in 1..Now', IsOwn(e, i)'
               PROVE  \/ i <= cache'[e].version
                      \/ \E j \in Mine(e, queue') :
                            j <= Len(acks') => i <= acks'[j]
    BY DEF OwnInv
  <2>1. i \in 1..Now /\ IsOwn(e, i)
    BY <1>1, <1>3 DEF IsOwn
  <2>2. \/ i <= cache[e].version
        \/ \E j \in Mine(e, queue) : j <= Len(acks) => i <= acks[j]
    BY <2>1 DEF Inv, OwnInv
  <2>3. \A j \in Mine(e, queue) : j \in 1..Len(queue)
    BY InvTypes, MineIs
  <2> QED BY <1>1, <1>2, <2>2, <2>3
<1>6. writes' \in Nat /\ troubles' \in Nat
  BY <1>1 DEF Inv, TypeOK
<1> QED BY <1>1, <1>2, <1>3, <1>4, <1>5, <1>6, ServerKeeps

-----------------------------------------------------------------------------
(* The phone writes *)

\* A change of the queue and the cache, with its snapshot emitted.
LEMMA LocalKeeps ==
    ASSUME Inv, UNCHANGED <<history, disk, online, keysLost>>,
           NEW v \in View, Emit(v, targets, stream, online),
           v.synced = view.synced, v.current = view.current,
           queue' \in Seq(Write), acks' \in Seq(Nat),
           cache' \in [Docs -> Cached], writes' \in Nat, troubles' \in Nat,
           AcksInv', OwnInv', CacheInv',
           \A e \in Docs : Laid(e, v.docs[e], queue', cache'),
           \A e \in Docs : cache[e].version <= cache'[e].version,
           \A e \in Docs : Settled(e)' => Settled(e) /\ cache'[e] = cache[e]
    PROVE  Inv'
<1>1. Kept /\ Now' = Now /\ Now > 0 /\ history' \in Seq(Change)
  BY InvTypes, SameKept DEF Now
<1>2. /\ view' = v
      /\ TargetsOK(targets, lastLimbo)'
      /\ StreamOK(stream, targets, lastLimbo)'
      /\ lastLimbo' \in Nat
      /\ targets' \in SUBSET Target /\ stream' \in Stream
      /\ raised' \in BOOLEAN /\ shown' \in [Docs -> Value]
      /\ stream'.down = stream.down
      /\ view'.current => (LimboDocs(targets) = InLimbo(view))'
      /\ raised' => (shown = Values(view))'
      /\ IsSynced(view, targets)' => raised'
      /\ QueryTarget' = CHOOSE t \in targets : t.id = Query
  <2>1. /\ TargetsOK(targets, lastLimbo) /\ StreamOK(stream, targets, lastLimbo)
        /\ lastLimbo \in Nat /\ history \in Seq(Change)
        /\ raised \in BOOLEAN /\ shown \in [Docs -> Value]
    BY InvTypes DEF Inv
  <2> QED BY <1>1, <2>1, EmitKeeps
<1>3. ViewInv'
  <2>1. \A e \in Docs : Laid(e, view.docs[e], queue, cache)'
    BY <1>2
  <2> QED BY <1>2, <2>1 DEF ViewInv
<1>4. KnowInv' /\ MessagesInv'
  <2>1. Snapshots(stream') = Snapshots(stream)
    BY <1>2 DEF Snapshots
  <2>2. QueryTarget' = QueryTarget
    BY <1>2 DEF QueryTarget
  <2>3. \A e \in Docs : cache'[e].version \in Nat
    BY DEF Cached
  <2>4. \A k \in Snapshots(stream') :
           \/ \E j \in Snapshots(stream) : stream'.down[k] = stream.down[j]
           \/ /\ stream'.down[k].version = Now
              /\ stream'.down[k].count = Cardinality(Existing(Now))
    BY <1>2, <2>1
  <2>5. view'.synced = view.synced /\ (view'.current => view.current)
    BY <1>2
  <2>6. \A i \in 1..Now : history'[i] = history[i]
    OBVIOUS
  <2>7. \A e \in Docs : /\ cache'[e].version \in Nat
                        /\ cache[e].version <= cache'[e].version
    BY <2>3
  <2>8. QueryTarget'.token = QueryTarget.token
    BY <2>2
  <2> QED BY <1>1, <2>4, <2>5, <2>6, <2>7, <2>8, StepKeeps
<1>5. TypeOK'
  <2>1. TypeOK
    BY DEF Inv
  <2> QED BY <1>1, <1>2, <2>1 DEF TypeOK, Write
<1> QED BY <1>1, <1>2, <1>3, <1>4, <1>5 DEF Inv

\* WriteLocally: the write is shown, and settles nothing.
LEMMA WriteLocallyInv ==
    ASSUME Inv, NEW d \in Docs, NEW value \in Value, WriteLocally(d, value)
    PROVE  Inv'
<1> DEFINE w == [doc |-> d, value |-> value]
<1>1. PICK q : q = queue'
  OBVIOUS
<1>2. PICK v : v = [view EXCEPT !.docs = Changed(@, {d}, q, cache)]
  OBVIOUS
<1>3. /\ q = Append(queue, w) /\ w \in Write /\ w.doc = d
      /\ Emit(v, targets, stream, online)
      /\ UNCHANGED <<history, acks, cache, disk, online, troubles, keysLost>>
      /\ writes' = writes + 1
  BY <1>1, <1>2 DEF WriteLocally, Write
<1>4. /\ queue \in Seq(Write) /\ Len(queue) \in Nat /\ Len(acks) \in Nat
      /\ Len(acks) <= Len(queue)
      /\ cache \in [Docs -> Cached] /\ view \in View
      /\ view.docs \in [Docs -> Shown]
  BY InvTypes DEF Inv, AcksInv
<1> HIDE DEF w
<1>5. /\ q \in Seq(Write) /\ Len(q) = Len(queue) + 1
      /\ \A i \in 1..Len(queue) : q[i] = queue[i]
      /\ \A e : Mine(e, q) = IF e = d THEN Mine(e, queue) \cup {Len(queue) + 1}
                             ELSE Mine(e, queue)
      /\ \A e : e # d /\ Mine(e, queue) # {} =>
                   LastValue(e, q) = LastValue(e, queue)
  BY <1>3, <1>4, MineAppended
<1>6. /\ v \in View /\ v.synced = view.synced /\ v.current = view.current
      /\ v.docs = Changed(view.docs, {d}, q, cache)
  <2>1. Changed(view.docs, {d}, q, cache) \in [Docs -> Shown]
    BY <1>4, <1>5, ChangedIs
  <2> QED BY <1>2, <1>4, <2>1 DEF View, Shown
<1>7. \A e \in Docs : Laid(e, v.docs[e], q, cache)
  <2> TAKE e \in Docs
  <2>1. CASE e = d
    <3>1. Mine(d, q) # {}
      BY <1>5
    <3>2. view.docs[d] \in Shown
      BY <1>4
    <3>3. LET new == LocalDoc(d, q, cache)
              x == IF Waits(view.docs[d], new) THEN view.docs[d]
                   ELSE [value |-> new.value, local |-> new.local]
          IN  Laid(d, x, q, cache)
      BY <1>4, <1>5, <3>1, <3>2, ChangedLaid
    <3>4. d \in Docs \cap {d} /\ q \in Seq(Write)
      BY <1>5
    <3>5. v.docs[d] = IF Waits(view.docs[d], LocalDoc(d, q, cache))
                      THEN view.docs[d]
                      ELSE [value |-> LocalDoc(d, q, cache).value,
                            local |-> LocalDoc(d, q, cache).local]
      BY <1>4, <1>6, <3>4, ChangedIs
    <3> QED BY <2>1, <3>3, <3>5
  <2>2. CASE e # d
    <3>1. v.docs[e] = view.docs[e]
      <4>1. e \in Docs \ {d}
        BY <2>2
      <4>2. Changed(view.docs, {d}, q, cache)[e] = view.docs[e]
        BY <1>4, <1>5, <4>1, ChangedIs, SMTT(20)
      <4> QED BY <1>6, <4>2
    <3>2. Laid(e, view.docs[e], queue, cache)
      BY DEF Inv, ViewInv
    <3>3. /\ Mine(e, q) = Mine(e, queue)
          /\ Mine(e, queue) # {} => LastValue(e, q) = LastValue(e, queue)
      BY <1>5, <2>2
    <3> QED BY <3>1, <3>2, <3>3 DEF Laid
  <2> QED BY <2>1, <2>2
<1>8. ASSUME NEW e \in Docs, Settled(e)' PROVE Settled(e)
  <2>1. CASE ~cache[e].committed
    BY <2>1 DEF Settled
  <2>2. CASE cache[e].committed
    <3>1. /\ Mine(e, q) = {} /\ cache[e].value # Nothing
          /\ ~view'.docs[e].local
      BY <1>1, <1>3, <1>8, <2>2 DEF Settled
    <3>2. e # d
      BY <1>5, <3>1
    <3>3. view'.docs[e] = view.docs[e]
      <4>1. e \in Docs \ {d} /\ q \in Seq(Write)
        BY <3>2, <1>5
      <4>2. view' = v
        BY <1>3, EmitIs
      <4>3. v.docs[e] = view.docs[e]
        BY <1>4, <1>6, <4>1, ChangedIs
      <4> QED BY <4>2, <4>3
    <3> QED BY <1>5, <3>1, <3>2, <3>3 DEF Settled
  <2> QED BY <2>1, <2>2
<1>9. AcksInv'
  <2>1. \A j \in 1..Len(acks) : q[j] = queue[j]
    BY <1>4, <1>5
  <2>2. Len(acks) <= Len(q)
    BY <1>4, <1>5
  <2>3. Now' = Now
    BY <1>3 DEF Now
  <2> QED BY <1>1, <1>3, <2>1, <2>2, <2>3 DEF Inv, AcksInv
<1>10. OwnInv'
  <2>1. \A e \in Docs : Mine(e, queue) \subseteq Mine(e, q)
    BY <1>5
  <2>2. Now' = Now /\ \A e \in Docs, i \in 1..Now : IsOwn(e, i)' <=> IsOwn(e, i)
    BY <1>3 DEF Now, IsOwn
  <2>3. ASSUME NEW e \in Docs, NEW i \in 1..Now, IsOwn(e, i)
        PROVE  \/ i <= cache[e].version
               \/ \E j \in Mine(e, q) : j <= Len(acks) => i <= acks[j]
    BY <2>1, <2>3 DEF Inv, OwnInv
  <2> QED BY <1>1, <1>3, <2>2, <2>3 DEF OwnInv
<1>11. CacheInv'
  <2>1. \A e \in Docs :
           ServerDoc(e, cache[e].version)' = ServerDoc(e, cache[e].version)
    <3> TAKE e \in Docs
    <3>1. Kept
      BY <1>3, InvTypes, SameKept
    <3>2. PICK n : n = cache[e].version
      OBVIOUS
    <3>3. n \in 0..Now
      BY <3>2, InvTypes
    <3>4. ServerDoc(e, n)' = ServerDoc(e, n)
      BY <3>1, <3>3 DEF Kept
    <3>5. n = cache'[e].version
      BY <1>3, <3>2
    <3>6. ServerDoc(e, cache[e].version)' = ServerDoc(e, n)'
      BY <3>5
    <3> QED BY <3>2, <3>4, <3>6
  <2>2. /\ Now' = Now
        /\ \A e \in Docs : IsOwn(e, cache[e].version)'
                           <=> IsOwn(e, cache[e].version)
    BY <1>3 DEF Now, IsOwn
  <2> QED BY <1>3, <2>1, <2>2 DEF Inv, CacheInv
<1>12. /\ writes' \in Nat /\ troubles' \in Nat /\ acks' \in Seq(Nat)
       /\ cache' \in [Docs -> Cached]
  BY <1>3 DEF Inv, TypeOK
<1>13. \A e \in Docs : cache[e].version <= cache'[e].version
  BY <1>3, InvTypes
<1> QED
  BY <1>1, <1>3, <1>5, <1>6, <1>7, <1>8, <1>9, <1>10, <1>11, <1>12, <1>13,
     LocalKeeps

\* HandleSuccessfulWrite: what becomes of the first write of the queue, whose
\* version is known.
Acked == [version |-> Head(acks), value |-> Head(queue).value,
          committed |-> TRUE]

\* What an acknowledged write changes in the queue, the answers and the cache.
LEMMA AckedIs ==
    ASSUME Inv, HandleSuccessfulWrite
    PROVE  LET d == Head(queue).doc
           IN  /\ queue # <<>> /\ acks # <<>> /\ d \in Docs
               /\ Head(queue) = queue[1] /\ Head(acks) = acks[1]
               /\ acks[1] \in 1..Now /\ IsOwn(d, acks[1])
               /\ acks' = Tail(acks) /\ acks' \in Seq(Nat)
               /\ Len(acks) \in Nat /\ Len(acks) > 0
               /\ Len(acks') = Len(acks) - 1
               /\ \A j \in 1..(Len(acks) - 1) : acks'[j] = acks[j + 1]
               /\ queue' = Tail(queue)
               /\ Acked \in Cached
               /\ Acked.value = ServerDoc(d, Acked.version).value
               /\ cache' \in [Docs -> Cached]
               /\ \A e \in Docs : e # d => cache'[e] = cache[e]
               /\ IF cache[d].version < acks[1] THEN cache'[d] = Acked
                  ELSE cache'[d] = cache[d] /\ ~cache[d].committed
<1> DEFINE d == Head(queue).doc
<1>1. /\ acks \in Seq(Nat) /\ Len(acks) \in Nat /\ Now \in Nat
      /\ queue \in Seq(Write) /\ Len(queue) \in Nat
      /\ cache \in [Docs -> Cached] /\ history \in Seq(Change)
  BY InvTypes
<1>2. acks # <<>> /\ acks' = Tail(acks) /\ queue' = Tail(queue)
  BY DEF HandleSuccessfulWrite
<1>3. /\ acks' \in Seq(Nat) /\ Len(acks) > 0 /\ Head(acks) = acks[1]
      /\ Len(acks') = Len(acks) - 1
      /\ \A j \in 1..(Len(acks) - 1) : acks'[j] = acks[j + 1]
  BY <1>1, <1>2, HeadTailProperties, LenProperties, EmptySeq
<1>4. AcksInv /\ Len(acks) <= Len(queue)
  BY DEF Inv, AcksInv
<1>5. queue # <<>> /\ Head(queue) = queue[1] /\ queue[1] \in Write
  <2>1. queue # <<>>
    BY <1>1, <1>3, <1>4, EmptySeq
  <2> QED BY <1>1, <2>1, MineTail
<1>6. 1 \in 1..Len(acks)
  BY <1>1, <1>3
<1>7. /\ acks[1] \in 1..Now /\ history[acks[1]].doc = queue[1].doc
      /\ history[acks[1]].value = queue[1].value
      /\ history[acks[1]].own
  BY <1>4, <1>6 DEF AcksInv
<1>8. d \in Docs /\ IsOwn(d, acks[1]) /\ Head(queue).value \in Value
  BY <1>5, <1>7 DEF IsOwn, Write
<1>9. /\ Acked \in Cached /\ Acked.version = acks[1]
      /\ Acked.value = queue[1].value
  BY <1>3, <1>5, <1>7, <1>8 DEF Acked, Cached
<1>10. Acked.value = ServerDoc(d, acks[1]).value
  <2>1. PICK n : n = acks[1]
    OBVIOUS
  <2>2. n \in 0..Now /\ n \in 0..n /\ n > 0
    BY <1>1, <1>7, <2>1
  <2>3. history[n].doc = d
    BY <1>5, <1>7, <2>1
  <2>4. \A j \in (n + 1)..n : history[j].doc # d
    BY <2>2
  <2>5. ServerDoc(d, n) = [version |-> n,
                           value |-> IF n = 0 THEN Nothing
                                     ELSE history[n].value]
    BY <1>1, <2>2, <2>3, <2>4, ServerDocAt
  <2>6. ServerDoc(d, n).value = history[n].value
    BY <2>2, <2>5
  <2> QED BY <1>7, <1>9, <2>1, <2>6
<1>11. cache' = IF cache[d].version < acks[1]
                THEN [cache EXCEPT ![d] = Acked] ELSE cache
  BY <1>3 DEF HandleSuccessfulWrite, Acked
<1> HIDE DEF d
<1>12. cache' \in [Docs -> Cached]
  BY <1>1, <1>9, <1>11
<1>13. \A e \in Docs : e # d => cache'[e] = cache[e]
  BY <1>1, <1>11
<1>14. IF cache[d].version < acks[1] THEN cache'[d] = Acked
       ELSE cache'[d] = cache[d] /\ ~cache[d].committed
  <2>1. CASE cache[d].version < acks[1]
    BY <1>1, <1>8, <1>11, <2>1
  <2>2. CASE ~(cache[d].version < acks[1])
    <3>1. cache[d].committed => cache[d].version < acks[1]
      BY <1>6, <1>8 DEF Inv, CacheInv
    <3> QED BY <1>11, <2>2, <3>1
  <2> QED BY <2>1, <2>2
<1>15. /\ queue # <<>> /\ Head(queue) = queue[1] /\ Head(acks) = acks[1]
       /\ acks[1] \in 1..Now /\ d \in Docs
       /\ Acked.value = ServerDoc(d, Acked.version).value
  BY <1>3, <1>5, <1>7, <1>8, <1>9, <1>10
<1> QED
  BY <1>1, <1>2, <1>3, <1>8, <1>9, <1>12, <1>13, <1>14, <1>15 DEF d

\* HandleSuccessfulWrite: what it settles was settled, or is not a write of the
\* phone's any more but still held back.
LEMMA HandleSuccessfulWriteInv ==
    ASSUME Inv, HandleSuccessfulWrite
    PROVE  Inv'
<1> DEFINE d == Head(queue).doc
           m == Head(queue)
<1>1. /\ queue # <<>> /\ acks # <<>> /\ d \in Docs
      /\ Head(queue) = queue[1] /\ Head(acks) = acks[1]
      /\ acks[1] \in 1..Now /\ IsOwn(d, acks[1])
      /\ acks' = Tail(acks) /\ acks' \in Seq(Nat)
      /\ Len(acks) \in Nat /\ Len(acks) > 0
      /\ Len(acks') = Len(acks) - 1
      /\ \A j \in 1..(Len(acks) - 1) : acks'[j] = acks[j + 1]
      /\ queue' = Tail(queue)
      /\ Acked \in Cached
      /\ Acked.value = ServerDoc(d, Acked.version).value
      /\ cache' \in [Docs -> Cached]
      /\ \A e \in Docs : e # d => cache'[e] = cache[e]
      /\ IF cache[d].version < acks[1] THEN cache'[d] = Acked
         ELSE cache'[d] = cache[d] /\ ~cache[d].committed
  BY AckedIs
<1>2. PICK q : q = queue'
  OBVIOUS
<1>3. PICK c : c = cache'
  OBVIOUS
<1>4. PICK v : v = [view EXCEPT !.docs = Changed(@, {d}, q, c)]
  OBVIOUS
<1>5. /\ Emit(v, targets, stream, online)
      /\ UNCHANGED <<history, disk, online, writes, troubles, keysLost>>
  BY <1>2, <1>3, <1>4 DEF HandleSuccessfulWrite
<1>6. /\ queue \in Seq(Write) /\ Len(queue) \in Nat
      /\ cache \in [Docs -> Cached] /\ view \in View
      /\ view.docs \in [Docs -> Shown] /\ Now \in Nat
      /\ AcksInv /\ Len(acks) <= Len(queue)
  BY InvTypes DEF Inv, AcksInv
<1>7. /\ q \in Seq(Write) /\ Len(q) = Len(queue) - 1
      /\ \A i \in 1..(Len(queue) - 1) : q[i] = queue[i + 1]
      /\ Mine(d, queue) # {}
      /\ Mine(d, q) = {} => LastValue(d, queue) = m.value
  BY <1>1, <1>2, <1>6, MineTail
<1>8. \A e \in Docs :
         /\ Mine(e, q) = {i \in 1..(Len(queue) - 1) : i + 1 \in Mine(e, queue)}
         /\ Mine(e, q) # {} =>
               Mine(e, queue) # {} /\ LastValue(e, q) = LastValue(e, queue)
         /\ e # d /\ Mine(e, queue) # {} => Mine(e, q) # {}
  <2>1. queue \in Seq(Write) /\ queue # <<>> /\ q = Tail(queue)
    BY <1>1, <1>2, <1>6
  <2> QED BY <2>1, MineTail
<1> HIDE DEF d, m
<1>9. c \in [Docs -> Cached] /\ q \in Seq(Write)
  BY <1>1, <1>3, <1>7
<1>10. /\ v \in View /\ v.synced = view.synced /\ v.current = view.current
       /\ v.docs = Changed(view.docs, {d}, q, c)
  <2>1. view.docs \in [Docs -> Shown]
    BY <1>6
  <2>2. Changed(view.docs, {d}, q, c) \in [Docs -> Shown]
    BY <1>9, <2>1, ChangedIs
  <2> QED BY <1>4, <1>6, <2>2 DEF View, Shown
<1>11. \A e \in Docs \ {d} : v.docs[e] = view.docs[e]
  <2>1. view.docs \in [Docs -> Shown]
    BY <1>6
  <2>2. \A e \in Docs \ {d} :
            Changed(view.docs, {d}, q, c)[e] = view.docs[e]
    BY <1>9, <2>1, ChangedIs
  <2>3. v.docs = Changed(view.docs, {d}, q, c)
    BY <1>10
  <2> QED BY <2>2, <2>3
<1>12. v.docs[d] = IF Waits(view.docs[d], LocalDoc(d, q, c)) THEN view.docs[d]
                   ELSE [value |-> LocalDoc(d, q, c).value,
                         local |-> LocalDoc(d, q, c).local]
  <2>1. d \in Docs \cap {d} /\ view.docs \in [Docs -> Shown]
    BY <1>1, <1>6
  <2>2. v.docs = Changed(view.docs, {d}, q, c)
    BY <1>10
  <2>3. Changed(view.docs, {d}, q, c)[d]
          = IF Waits(view.docs[d], LocalDoc(d, q, c)) THEN view.docs[d]
            ELSE [value |-> LocalDoc(d, q, c).value,
                  local |-> LocalDoc(d, q, c).local]
    BY <1>9, <2>1, ChangedIs
  <2> QED BY <2>2, <2>3
<1>13. /\ view.docs[d] \in Shown
       /\ view.docs[d].value = LastValue(d, queue)
       /\ view.docs[d].local = (LastValue(d, queue) # Nothing)
  BY <1>1, <1>6, <1>7 DEF Inv, ViewInv, Laid
<1>14. c[d].committed => c[d] = Acked
  BY <1>1, <1>3
<1>15. Acked.value = m.value /\ Acked.version = acks[1] /\ Acked.committed
  BY <1>1 DEF Acked, m
<1>16. \A e \in Docs : Laid(e, v.docs[e], q, c)
  <2> TAKE e \in Docs
  <2>1. CASE e = d
    <3>1. Mine(d, q) = {} /\ c[d].committed /\ view.docs[d].local
             => view.docs[d].value = c[d].value
      BY <1>7, <1>13, <1>14, <1>15
    <3>2. LET new == LocalDoc(d, q, c)
              x == IF Waits(view.docs[d], new) THEN view.docs[d]
                   ELSE [value |-> new.value, local |-> new.local]
          IN  Laid(d, x, q, c)
      BY <1>1, <1>9, <1>13, <3>1, ChangedLaid
    <3> QED BY <1>12, <2>1, <3>2
  <2>2. CASE e # d
    <3>1. v.docs[e] = view.docs[e] /\ c[e] = cache[e]
      BY <1>1, <1>3, <1>11, <2>2
    <3>2. Laid(e, view.docs[e], queue, cache)
      BY DEF Inv, ViewInv
    <3>3. /\ Mine(e, q) = {} <=> Mine(e, queue) = {}
          /\ Mine(e, q) # {} => LastValue(e, q) = LastValue(e, queue)
      BY <1>8, <2>2
    <3> QED BY <3>1, <3>2, <3>3 DEF Laid
  <2> QED BY <2>1, <2>2
<1>17. ASSUME NEW e \in Docs, Settled(e)'
       PROVE  Settled(e) /\ cache'[e] = cache[e]
  <2>1. view' = v
    BY <1>5, EmitIs
  <2>2. \/ ~c[e].committed
        \/ Mine(e, q) = {} /\ c[e].value # Nothing /\ ~v.docs[e].local
    BY <1>2, <1>3, <1>17, <2>1 DEF Settled
  <2>3. CASE e # d
    <3>1. v.docs[e] = view.docs[e] /\ c[e] = cache[e]
      BY <1>1, <1>3, <1>11, <2>3
    <3>2. Mine(e, q) = {} => Mine(e, queue) = {}
      BY <1>8, <2>3
    <3> QED BY <1>3, <2>2, <3>1, <3>2 DEF Settled
  <2>4. CASE e = d
    <3>1. CASE c[d] = Acked
      <4>1. Mine(d, q) = {} /\ c[d].value # Nothing /\ ~v.docs[d].local
        BY <1>15, <2>2, <2>4, <3>1
      <4>2. view.docs[d].value = c[d].value /\ view.docs[d].local
        BY <1>7, <1>13, <1>15, <3>1, <4>1
      <4>3. LET new == LocalDoc(d, q, c)
            IN  new.value = c[d].value /\ new.local = FALSE
                /\ new.committed = c[d].committed
        BY <1>1, <1>9, <4>1, LocalDocIs
      <4>4. Waits(view.docs[d], LocalDoc(d, q, c))
        BY <1>15, <3>1, <4>1, <4>2, <4>3 DEF Waits
      <4>5. v.docs[d] = view.docs[d]
        BY <1>12, <4>4
      <4> QED BY <4>1, <4>2, <4>5
    <3>2. CASE c[d] # Acked
      <4>1. cache'[d] = cache[d] /\ ~cache[d].committed
        BY <1>1, <1>3, <3>2
      <4> QED BY <2>4, <4>1 DEF Settled
    <3> QED BY <3>1, <3>2
  <2> QED BY <2>3, <2>4
<1>18. Now' = Now /\ \A e \in Docs, i \in 1..Now : IsOwn(e, i)' <=> IsOwn(e, i)
  BY <1>5 DEF Now, IsOwn
<1>19. AcksInv'
  <2>1. ASSUME NEW j \in 1..Len(acks')
        PROVE  /\ j + 1 \in 1..Len(acks) /\ acks'[j] = acks[j + 1]
               /\ q[j] = queue[j + 1]
    BY <1>1, <1>6, <1>7
  <2>2. ASSUME NEW j \in 1..Len(acks')
        PROVE  /\ acks'[j] \in 1..Now
               /\ history[acks'[j]].doc = q[j].doc
               /\ history[acks'[j]].value = q[j].value
               /\ history[acks'[j]].own
    <3>1. PICK k : k = j + 1
      OBVIOUS
    <3>2. k \in 1..Len(acks) /\ acks'[j] = acks[k] /\ q[j] = queue[k]
      BY <2>1, <3>1
    <3> QED BY <1>6, <3>2 DEF AcksInv
  <2>3. ASSUME NEW j \in 1..Len(acks'), NEW k \in 1..Len(acks'), j < k
        PROVE  acks'[j] < acks'[k]
    <3>1. j + 1 < k + 1
      BY <1>1, <2>3
    <3> QED BY <1>6, <2>1, <3>1 DEF AcksInv
  <2>4. Len(acks') <= Len(q)
    BY <1>1, <1>6, <1>7
  <2> QED BY <1>2, <1>5, <1>18, <2>2, <2>3, <2>4 DEF AcksInv
<1>20. \A e \in Docs : cache[e].version <= c[e].version /\ c[e].version \in Nat
  <2> TAKE e \in Docs
  <2>1. CASE e # d \/ c[e] = cache[e]
    BY <1>1, <1>3, <2>1, InvTypes
  <2>2. CASE e = d /\ c[e] # cache[e]
    <3>1. cache[d].version < acks[1] /\ c[d].version = acks[1]
      BY <1>1, <1>3, <1>15, <2>2
    <3> QED BY <1>1, <1>6, <2>2, <3>1, InvTypes
  <2> QED BY <2>1, <2>2
<1>21. OwnInv'
  <2>1. ASSUME NEW e \in Docs, NEW i \in 1..Now, IsOwn(e, i)
        PROVE  \/ i <= c[e].version
               \/ \E j \in Mine(e, q) : j <= Len(acks') => i <= acks'[j]
    <3>1. CASE i <= cache[e].version
      BY <1>6, <1>20, <3>1, InvTypes
    <3>2. CASE ~(i <= cache[e].version)
      <4>1. PICK j \in Mine(e, queue) : j <= Len(acks) => i <= acks[j]
        BY <2>1, <3>2 DEF Inv, OwnInv
      <4>2. j \in 1..Len(queue) /\ queue[j].doc = e
        BY <1>6, <4>1, MineIs
      <4>3. CASE j = 1
        <5>1. e = d /\ i <= acks[1]
          BY <1>1, <4>1, <4>2, <4>3 DEF d
        <5>2. c[d].version = acks[1] \/ acks[1] <= c[d].version
          BY <1>1, <1>3, <1>6, <1>15, InvTypes
        <5>3. c[d].version \in Nat /\ acks[1] \in Nat /\ i \in Nat
          BY <1>1, <1>6, <1>20
        <5> QED BY <5>1, <5>2, <5>3
      <4>4. CASE j # 1
        <5>1. j - 1 \in 1..(Len(queue) - 1) /\ (j - 1) + 1 = j
          BY <1>6, <4>2, <4>4
        <5>2. j - 1 \in Mine(e, q)
          BY <1>8, <4>1, <5>1
        <5>3. ASSUME j - 1 <= Len(acks') PROVE i <= acks'[j - 1]
          <6>1. j <= Len(acks) /\ j - 1 \in 1..(Len(acks) - 1)
            BY <1>1, <5>1, <5>3
          <6>2. acks'[j - 1] = acks[j]
            BY <1>1, <5>1, <6>1
          <6> QED BY <4>1, <6>1, <6>2
        <5> QED BY <5>2, <5>3
      <4> QED BY <4>3, <4>4
    <3> QED BY <3>1, <3>2
  <2> QED BY <1>2, <1>3, <1>18, <2>1 DEF OwnInv
<1>22. CacheInv'
  <2>1. ASSUME NEW e \in Docs
        PROVE  /\ c[e].version \in 0..Now
               /\ c[e].value = ServerDoc(e, c[e].version).value
               /\ c[e].committed =>
                     /\ c[e].version > 0 /\ IsOwn(e, c[e].version)
                     /\ \A j \in 1..Len(acks') : c[e].version < acks'[j]
    <3>1. CASE c[e] = cache[e]
      <4>1. \A j \in 1..Len(acks') :
               j + 1 \in 1..Len(acks) /\ acks'[j] = acks[j + 1]
        BY <1>1
      <4>2. /\ cache[e].value = ServerDoc(e, cache[e].version).value
            /\ cache[e].committed =>
                  /\ cache[e].version > 0 /\ IsOwn(e, cache[e].version)
                  /\ \A j \in 1..Len(acks) : cache[e].version < acks[j]
        BY DEF Inv, CacheInv
      <4>3. cache[e].version \in 0..Now
        BY <1>6, InvTypes
      <4> QED BY <3>1, <4>1, <4>2, <4>3
    <3>2. CASE c[e] # cache[e]
      <4>1. e = d /\ c[e] = Acked
        BY <1>1, <1>3, <3>2
      <4>2. \A j \in 1..Len(acks') : acks[1] < acks'[j]
        <5> TAKE j \in 1..Len(acks')
        <5>1. /\ 1 \in 1..Len(acks) /\ j + 1 \in 1..Len(acks) /\ 1 < j + 1
              /\ acks'[j] = acks[j + 1]
          BY <1>1
        <5> QED BY <1>6, <5>1 DEF AcksInv
      <4>3. acks[1] > 0 /\ acks[1] \in 0..Now
        BY <1>1, <1>6
      <4> QED BY <1>1, <1>15, <4>1, <4>2, <4>3
    <3> QED BY <3>1, <3>2
  <2>2. ASSUME NEW e \in Docs
        PROVE  /\ ServerDoc(e, cache[e].version)' = ServerDoc(e, c[e].version)
               /\ IsOwn(e, cache[e].version)' <=> IsOwn(e, c[e].version)
    <3>1. PICK n : n = c[e].version
      OBVIOUS
    <3>2. ServerDoc(e, n)' = ServerDoc(e, n)
      BY <1>5, <2>1, <3>1, InvTypes, SameKept DEF Kept
    <3>3. n = cache'[e].version
      BY <1>3, <3>1
    <3>4. ServerDoc(e, cache[e].version)' = ServerDoc(e, n)'
      BY <3>3
    <3>5. IsOwn(e, cache[e].version)' <=> IsOwn(e, c[e].version)
      BY <1>3, <1>5 DEF IsOwn
    <3> QED BY <3>1, <3>2, <3>4, <3>5
  <2> QED BY <1>3, <1>18, <2>1, <2>2 DEF CacheInv
<1>23. writes' \in Nat /\ troubles' \in Nat
  BY <1>5 DEF Inv, TypeOK
<1> QED
  BY <1>1, <1>2, <1>3, <1>5, <1>9, <1>10, <1>16, <1>17, <1>19, <1>20, <1>21,
     <1>22, <1>23, LocalKeeps

-----------------------------------------------------------------------------
(* The app is killed and launched again *)

\* What is known stays known while the cache does not get older.
LEMMA KnowsKept ==
    ASSUME Inv, Kept, NEW v \in 0..Now, Knows(v),
           \A d \in Docs : /\ cache'[d].version \in Nat
                           /\ cache[d].version <= cache'[d].version
    PROVE  Knows(v)'
<1> SUFFICES ASSUME NEW d \in Docs, Exists(d, v)'
             PROVE  ServerDoc(d, v)'.version <= cache'[d].version
  BY DEF Knows
<1>1. Exists(d, v) /\ ServerDoc(d, v)' = ServerDoc(d, v)
  BY ExistsKept DEF Kept
<1>2. ServerDoc(d, v).version <= cache[d].version
  BY <1>1 DEF Knows
<1>3. ServerDoc(d, v).version \in 0..v
  BY InvTypes, ServerDocIs
<1>4. cache[d].version \in Nat
  BY InvTypes
<1> QED BY <1>1, <1>2, <1>3, <1>4

\* A kill keeps the invariant: what is read back from the disk is laid out anew.
LEMMA KillInv ==
    ASSUME Inv, Kill
    PROVE  Inv'
<1> DEFINE T == [id |-> Query, token |-> disk.token, received |-> FALSE,
                 responses |-> 0]
           docs == [d \in Docs |-> [value |-> LocalDoc(d, queue, cache).value,
                                    local |-> LocalDoc(d, queue, cache).local]]
<1>1. /\ acks' = <<>> /\ stream' = Closed /\ targets' = {T} /\ lastLimbo' = 0
      /\ view' = [docs |-> docs, synced |-> disk.keys, current |-> FALSE]
      /\ shown' = Values(view') /\ raised' \in BOOLEAN
      /\ online' = "unknown"
      /\ keysLost' = (disk.keys # Existing(disk.token))
      /\ UNCHANGED <<history, queue, cache, disk, writes>>
      /\ troubles' = troubles + 1
  BY DEF Kill, Launched, Trouble, Existing
<1>2. /\ Kept /\ Now' = Now /\ Now > 0 /\ Now \in Nat /\ Len(queue) \in Nat
      /\ queue \in Seq(Write) /\ cache \in [Docs -> Cached]
      /\ disk.token \in 0..Now /\ disk.keys \in SUBSET Docs
  BY <1>1, InvTypes, SameKept DEF Now
<1>3. T \in Target /\ T.id = Query /\ T.token = disk.token /\ T.responses = 0
  BY <1>2, QueryType DEF Target
<1>4. \A d \in Docs : /\ docs[d] \in Shown /\ Laid(d, docs[d], queue, cache)
                      /\ Mine(d, queue) = {} => ~docs[d].local
  <2> TAKE d \in Docs
  <2>1. PICK new : new = LocalDoc(d, queue, cache)
    OBVIOUS
  <2>2. docs[d] = [value |-> new.value, local |-> new.local]
    BY <2>1
  <2>3. /\ new.value \in Value /\ new.local \in BOOLEAN
        /\ Mine(d, queue) = {} => new.value = cache[d].value /\ new.local = FALSE
        /\ Mine(d, queue) # {} =>
              /\ new.value = LastValue(d, queue)
              /\ new.local = (LastValue(d, queue) # Nothing)
    BY <1>2, <2>1, LocalDocIs
  <2> HIDE DEF docs
  <2>4. docs[d].value = new.value /\ docs[d].local = new.local
    BY <2>2
  <2> QED BY <2>2, <2>3, <2>4 DEF Laid, Shown
<1>5. docs \in [Docs -> Shown]
  BY <1>4
<1> HIDE DEF T, docs
<1>6. /\ view' \in View /\ view'.docs = docs /\ view'.synced = disk.keys
      /\ view'.current = FALSE /\ shown' \in [Docs -> Value]
  <2>1. view' \in View
    BY <1>1, <1>2, <1>5 DEF View, Shown
  <2> QED BY <1>1, <2>1 DEF Values, View
<1>7. PICK ts : ts = {T}
  OBVIOUS
<1>8. TargetsOK(ts, 0) /\ StreamOK(Closed, ts, 0) /\ Snapshots(Closed) = {}
  <2>1. ts \in SUBSET Target /\ IsFiniteSet(ts) /\ \A t \in ts : t = T
    BY <1>3, <1>7, FS_Singleton
  <2>2. TargetsOK(ts, 0)
    BY <1>2, <1>3, <1>7, <2>1 DEF TargetsOK
  <2> QED BY <1>3, <2>1, <2>2, ClosedOK
<1>9. /\ TargetsOK(targets, lastLimbo)'
      /\ StreamOK(stream, targets, lastLimbo)'
  BY <1>1, <1>2, <1>7, <1>8, OrderKept
<1>10. QueryTarget'.token = disk.token
  <2>1. \A t \in ts : t.id = Query => t.token = disk.token
    BY <1>3, <1>7
  <2> QED BY <1>1, <1>7, <1>8, <2>1, TokenIs
<1>11. acks' \in Seq(Nat) /\ Len(acks') = 0
  BY <1>1, EmptySeq
<1>12. AcksInv'
  BY <1>1, <1>2, <1>11 DEF AcksInv
<1>13. OwnInv'
  <2> SUFFICES ASSUME NEW e \in Docs, NEW i \in 1..Now', IsOwn(e, i)'
               PROVE  \/ i <= cache'[e].version
                      \/ \E j \in Mine(e, queue') :
                            j <= Len(acks') => i <= acks'[j]
    BY DEF OwnInv
  <2>1. i \in 1..Now /\ IsOwn(e, i)
    BY <1>1, <1>2 DEF IsOwn
  <2>2. \/ i <= cache[e].version
        \/ \E j \in Mine(e, queue) : j <= Len(acks) => i <= acks[j]
    BY <2>1 DEF Inv, OwnInv
  <2>3. \A j \in Mine(e, queue) : j \in 1..Len(queue)
    BY <1>2, MineIs
  <2> QED BY <1>1, <1>11, <2>2, <2>3
<1>14. CacheInv'
  <2>1. ASSUME NEW e \in Docs
        PROVE  /\ ServerDoc(e, cache[e].version)'
                    = ServerDoc(e, cache[e].version)
               /\ IsOwn(e, cache[e].version)' <=> IsOwn(e, cache[e].version)
    <3>1. PICK n : n = cache[e].version
      OBVIOUS
    <3>2. ServerDoc(e, n)' = ServerDoc(e, n)
      BY <1>2, <3>1, InvTypes DEF Kept
    <3>3. n = cache'[e].version
      BY <1>1, <3>1
    <3>4. ServerDoc(e, cache[e].version)' = ServerDoc(e, n)'
      BY <3>3
    <3>5. IsOwn(e, cache[e].version)' <=> IsOwn(e, cache[e].version)
      BY <1>1 DEF IsOwn
    <3> QED BY <3>1, <3>2, <3>4, <3>5
  <2> QED BY <1>1, <1>2, <1>11, <2>1 DEF Inv, CacheInv
<1>15. MessagesInv'
  <2>1. Snapshots(stream') = {}
    BY <1>1, <1>8
  <2> QED BY <2>1 DEF MessagesInv
<1>16. ViewInv'
  <2>1. \A d \in Docs : Laid(d, view.docs[d], queue, cache)'
    BY <1>1, <1>4, <1>6
  <2>2. ~view'.current /\ ~IsSynced(view', targets')
    BY <1>6 DEF IsSynced
  <2>3. (shown = Values(view))'
    BY <1>1
  <2> QED BY <2>1, <2>2, <2>3 DEF ViewInv
<1>17. KnowInv'
  <2>1. PICK v : v = disk.token
    OBVIOUS
  <2>2. Knows(v)'
    <3>1. Knows(v)
      BY <2>1 DEF Inv, KnowInv
    <3>2. v \in 0..Now
      BY <1>2, <2>1
    <3>3. \A d \in Docs : /\ cache'[d].version \in Nat
                          /\ cache[d].version <= cache'[d].version
      BY <1>1, InvTypes
    <3> QED BY <1>2, <3>1, <3>2, <3>3, KnowsKept
  <2>3. v = disk'.token /\ v = QueryTarget'.token
    BY <1>1, <1>10, <2>1
  <2>4. Knows(disk.token)' /\ Knows(QueryTarget.token)'
    BY <2>2, <2>3
  <2>5. ~keysLost' => (view.synced = Existing(QueryTarget.token))'
    <3>1. Existing(v)' = Existing(v)
      BY <1>2, <2>1, ExistsKept
    <3>2. Existing(QueryTarget.token)' = Existing(v)'
      BY <2>3
    <3> QED BY <1>1, <1>6, <2>1, <3>1, <3>2
  <2>6. ~view'.current /\ disk'.token <= Now'
    BY <1>1, <1>2, <1>6
  <2> QED BY <2>4, <2>5, <2>6 DEF KnowInv
<1>18. TypeOK'
  <2>1. TypeOK
    BY DEF Inv
  <2>2. targets' \in SUBSET Target /\ stream' \in Stream
    BY <1>9 DEF TargetsOK, StreamOK
  <2>3. keysLost' \in BOOLEAN
    BY <1>1
  <2>4. /\ history' \in Seq(Change) /\ queue' \in Seq(Write)
        /\ cache' \in [Docs -> Cached] /\ writes' \in Nat
        /\ disk' \in [token : Nat, keys : SUBSET Docs]
    BY <1>1, <1>2, <2>1, InvTypes DEF TypeOK
  <2>5. /\ lastLimbo' \in Nat /\ troubles' \in Nat /\ raised' \in BOOLEAN
        /\ online' \in {"unknown", "online", "offline"}
    BY <1>1, <2>1 DEF TypeOK
  <2> QED BY <1>6, <1>11, <2>2, <2>3, <2>4, <2>5 DEF TypeOK, Write
<1> QED
  BY <1>2, <1>9, <1>12, <1>13, <1>14, <1>15, <1>16, <1>17, <1>18 DEF Inv

-----------------------------------------------------------------------------
(* The phone hears a snapshot *)

\* The message that is heard, its version, and the documents it names for a
\* target that counts.
LEMMA HeardIs ==
    ASSUME Inv, stream.down # <<>>, Heard.kind = "snapshot"
    PROVE  /\ 1 \in Snapshots(stream) /\ Heard = stream.down[1]
           /\ Heard.version \in 1..Now /\ Heard.version \in 0..Now
           /\ Heard.how \in {"replay", "count", "reset"}
           /\ Heard.docs \in [Docs -> SUBSET Id]
           /\ Heard.count = Cardinality(Existing(Heard.version))
           /\ \A t \in targets : t.token \in 0..Heard.version
           /\ \A d \in Docs : Settled(d) => cache[d].version <= Heard.version
           /\ \A k \in Snapshots(stream) :
                 Heard.version <= stream.down[k].version
           /\ \A t \in targets : IsActive(t) =>
                 NamedFor(t) = NamedSince(t.id, t.token, Heard)
           /\ stream.open
<1>1. /\ StreamOK(stream, targets, lastLimbo) /\ stream \in Stream
      /\ targets \in SUBSET Target /\ Now \in Nat
      /\ Len(stream.down) \in Nat /\ stream.down \in Seq(Message)
      /\ \A k \in 1..Len(stream.down) : stream.down[k] \in Message
  BY InvTypes, StreamFields DEF Inv
<1>2. /\ 1 \in 1..Len(stream.down) /\ Heard = stream.down[1]
  BY <1>1, EmptySeq, HeadTailProperties DEF Heard
<1>3. 1 \in Snapshots(stream)
  BY <1>2 DEF Snapshots
<1>4. Ordered(stream)
  BY <1>1 DEF StreamOK
<1>5. Heard.version \in 1..Now /\ Heard.version \in 0..Now
  BY <1>1, <1>2, <1>3, <1>4 DEF Ordered
<1>6. Heard \in Message
  BY <1>1, <1>2
<1>7. /\ Heard.how \in {"replay", "count", "reset"}
      /\ Heard.docs \in [Docs -> SUBSET Id]
  BY <1>6, MessageFields
<1>8. /\ Heard.count = Cardinality(Existing(Heard.version))
      /\ \A d \in Docs : Settled(d) => cache[d].version <= Heard.version
  BY <1>2, <1>3 DEF Inv, MessagesInv
<1>9. \A t \in targets : t.token \in 0..Heard.version
  <2> TAKE t \in targets
  <2>1. t.token <= Heard.version
    BY <1>1, <1>2, <1>3 DEF StreamOK
  <2>2. t.token \in Nat
    BY <1>1 DEF Target
  <2> QED BY <2>1, <2>2, <1>5
<1>10. \A k \in Snapshots(stream) : Heard.version <= stream.down[k].version
  <2> TAKE k \in Snapshots(stream)
  <2>1. k \in 1..Len(stream.down)
    BY DEF Snapshots
  <2>2. CASE k = 1
    BY <1>2, <1>5, <2>2
  <2>3. CASE k # 1
    <3>1. 1 < k
      BY <2>1, <2>3
    <3> QED BY <1>2, <1>3, <1>4, <3>1 DEF Ordered
  <2> QED BY <2>2, <2>3
<1>11. stream.open
  <2>1. ~stream.open => stream = Closed
    BY <1>1 DEF StreamOK
  <2> QED BY <2>1 DEF Closed
<1>12. ASSUME NEW t \in targets, IsActive(t)
       PROVE  NamedFor(t) = NamedSince(t.id, t.token, Heard)
  <2>1. t \in Target /\ Tracked(t, stream) /\ t.token \in Nat
    BY <1>1 DEF StreamOK, Target
  <2>2. Requests(t.id, stream) = {} /\ Answers(t.id, stream) = {}
    BY <1>1, <1>12, <2>1, ActiveIs
  <2>3. 1 \in Live(t.id, stream)
    BY <1>3, <2>2 DEF Live
  <2>4. Base(t, 1, stream) = t.token
    <3>1. \A i \in Live(t.id, stream) : ~(i < 1)
      BY DEF Live, Snapshots
    <3>2. {t.token} \cup {stream.down[j].version :
                             j \in {i \in Live(t.id, stream) : i < 1}}
            = {t.token}
      BY <3>1
    <3>3. LastOf({t.token}) = t.token
      BY <2>1, LastOfIs
    <3> QED BY <3>2, <3>3 DEF Base
  <2>5. NamedIn(t.id, stream.down[1])
          = NamedSince(t.id, Base(t, 1, stream), stream.down[1])
    BY <1>11, <2>1, <2>2, <2>3 DEF Tracked
  <2> QED BY <1>2, <2>4, <2>5 DEF NamedFor, NamedIn
<1> QED
  BY <1>2, <1>3, <1>5, <1>7, <1>8, <1>9, <1>10, <1>11, <1>12

\* A document that is named for nothing that counts, though the target is about
\* it, is as it was when the target was told last.
LEMMA UnnamedIs ==
    ASSUME Inv, stream.down # <<>>, Heard.kind = "snapshot",
           NEW t \in targets, IsActive(t), NEW d \in Docs,
           t.id.doc \in {d, Collection}, d \notin NamedFor(t)
    PROVE  /\ Exists(d, Heard.version) =>
                 /\ ServerDoc(d, Heard.version) = ServerDoc(d, t.token)
                 /\ Exists(d, t.token)
                 /\ t.id = Query => Heard.how # "reset"
           /\ t.id # Query \/ Heard.how = "replay" =>
                 Exists(d, t.token) = Exists(d, Heard.version)
<1>1. /\ Heard.version \in 0..Now /\ t.token \in 0..Heard.version
      /\ NamedFor(t) = NamedSince(t.id, t.token, Heard)
      /\ Now \in Nat /\ history \in Seq(Change)
  BY HeardIs, InvTypes
<1>2. ~(/\ \/ ServerDoc(d, Heard.version).version > t.token
           \/ Heard.how = "reset" /\ t.id = Query
        /\ \/ Exists(d, Heard.version)
           \/ t.token > 0 /\ (t.id = Query => Heard.how = "replay"))
  BY <1>1 DEF NamedSince
<1>3. ServerDoc(d, Heard.version).version \in 0..Heard.version
  BY <1>1, ServerDocIs
<1>4. ServerDoc(d, Heard.version).version <= t.token =>
         /\ ServerDoc(d, Heard.version) = ServerDoc(d, t.token)
         /\ Exists(d, Heard.version) = Exists(d, t.token)
  <2>1. ASSUME ServerDoc(d, Heard.version).version <= t.token
        PROVE  ServerDoc(d, Heard.version) = ServerDoc(d, t.token)
    BY <1>1, <2>1, ServerDocSame
  <2> QED BY <2>1 DEF Exists
<1>5. t.token = 0 => ~Exists(d, t.token)
  <2>1. ASSUME t.token = 0 PROVE ServerDoc(d, t.token).value = Nothing
    <3>1. t.token \in 0..Now
      BY <1>1
    <3>2. ServerDoc(d, t.token).version \in 0..t.token
      BY <1>1, <3>1, ServerDocIs
    <3>3. ServerDoc(d, t.token).version = 0
      BY <2>1, <3>2
    <3> QED BY <1>1, <3>1, <3>3, ServerDocIs
  <2> QED BY <2>1 DEF Exists
<1>6. \/ ServerDoc(d, Heard.version).version <= t.token
      \/ ServerDoc(d, Heard.version).version > t.token
  BY <1>1, <1>3
<1>7. t.token = 0 \/ t.token > 0
  BY <1>1
<1>8. ASSUME Exists(d, Heard.version)
      PROVE  /\ ServerDoc(d, Heard.version) = ServerDoc(d, t.token)
             /\ Exists(d, t.token)
             /\ t.id = Query => Heard.how # "reset"
  BY <1>2, <1>4, <1>6, <1>8
<1>9. ASSUME t.id # Query \/ Heard.how = "replay", ~Exists(d, Heard.version)
      PROVE  ~Exists(d, t.token)
  BY <1>2, <1>4, <1>5, <1>6, <1>7, <1>9
<1>10. /\ Exists(d, t.token) \in BOOLEAN
       /\ Exists(d, Heard.version) \in BOOLEAN
  BY DEF Exists
<1> QED BY <1>8, <1>9, <1>10

\* A document that the phone takes for gone is gone.
LEMMA DeducedIs ==
    ASSUME Inv, stream.down # <<>>, Heard.kind = "snapshot",
           NEW d \in Deduced
    PROVE  d \in Docs /\ ~Exists(d, Heard.version) /\ d \in LimboDocs(targets)
<1>1. d \notin Told
  BY DEF Deduced
<1>2. PICK t \in Active : t.id # Query /\ ~t.received /\ t.id.doc = d
  BY DEF Deduced
<1>3. t \in targets /\ IsActive(t)
  BY <1>2 DEF Active
<1>4. /\ t.id.doc \in Docs /\ t.received = Exists(t.id.doc, t.token)
  BY <1>2, <1>3 DEF Inv, TargetsOK
<1>5. d \notin NamedFor(t)
  BY <1>1, <1>2 DEF Told
<1>6. Exists(d, t.token) = Exists(d, Heard.version)
  BY <1>2, <1>3, <1>4, <1>5, UnnamedIs
<1>7. d \in LimboDocs(targets)
  BY <1>2, <1>3, <1>4, ConstantsType DEF LimboDocs
<1> QED BY <1>2, <1>4, <1>6, <1>7

\* A document that comes for a target other than the query is in limbo.
LEMMA ToldIs ==
    ASSUME Inv, stream.down # <<>>, Heard.kind = "snapshot",
           NEW d \in Told
    PROVE  /\ d \in Docs
           /\ ~IsActive(QueryTarget) => d \in LimboDocs(targets)
<1>1. PICK t \in Active : d \in NamedFor(t)
  BY DEF Told
<1>2. t \in targets /\ IsActive(t)
  BY DEF Active
<1>3. d \in Docs /\ d \in NamedSince(t.id, t.token, Heard)
  BY <1>1, <1>2, HeardIs DEF NamedFor
<1>4. t.id.doc \in {d, Collection}
  BY <1>3 DEF NamedSince
<1>5. ASSUME ~IsActive(QueryTarget) PROVE d \in LimboDocs(targets)
  <2>1. t.id.doc # Collection
    BY <1>2, <1>5, QueryTargetIs DEF Inv, QueryTarget
  <2>2. t.id.doc = d
    BY <1>4, <2>1
  <2> QED BY <1>2, <2>1, <2>2 DEF LimboDocs
<1> QED BY <1>3, <1>5

\* What the message says of a document is what the server had at a version that
\* is not older than its last change.
LEMMA UpdatesAre ==
    ASSUME Inv, stream.down # <<>>, Heard.kind = "snapshot", NEW d \in Docs
    PROVE  /\ Updates[d].version \in 0..Heard.version
           /\ Updates[d].version \in 0..Now
           /\ Updates[d].value \in Value
           /\ Updates[d].value = ServerDoc(d, Updates[d].version).value
           /\ ServerDoc(d, Heard.version).version <= Updates[d].version
<1>1. /\ Heard.version \in 0..Now /\ Now \in Nat /\ history \in Seq(Change)
  BY HeardIs, InvTypes
<1>2. PICK v : v = Heard.version
  OBVIOUS
<1>3. PICK w : w = ServerDoc(d, v).version
  OBVIOUS
<1>4. /\ w \in 0..v /\ v \in 0..Now /\ v \in 0..v
      /\ ServerDoc(d, v).value \in Value
  BY <1>1, <1>2, <1>3, ServerDocIs
<1>5. CASE d \in Deduced
  <2>1. Updates[d] = [version |-> v, value |-> Nothing]
    BY <1>2, <1>5 DEF Updates
  <2>2. ServerDoc(d, v).value = Nothing
    BY <1>2, <1>5, DeducedIs DEF Exists
  <2> QED BY <1>2, <1>3, <1>4, <2>1, <2>2 DEF Value
<1>6. CASE d \notin Deduced
  <2>1. Updates[d] = ServerDoc(d, v)
    BY <1>2, <1>6 DEF Updates
  <2>2. ServerDoc(d, v) = ServerDoc(d, w)
    <3>1. w <= w /\ w \in 0..v
      BY <1>4
    <3> QED BY <1>1, <1>3, <1>4, <3>1, ServerDocSame
  <2> QED BY <1>1, <1>2, <1>3, <1>4, <2>1, <2>2
<1> QED BY <1>5, <1>6

\* What the snapshot makes of the cache.
CachedFrom(changes) ==
    [d \in Docs |-> IF d \in changes
                    THEN [version |-> Updates[d].version,
                          value |-> Updates[d].value, committed |-> FALSE]
                    ELSE cache[d]]
Changes == {d \in Told \cup Deduced : Supersedes(Updates[d], cache[d])}

\* The cache after a snapshot: the documents that change are as old as the
\* snapshot and committed no longer, the others stay.
LEMMA CachedFromIs ==
    ASSUME Inv, stream.down # <<>>, Heard.kind = "snapshot",
           NEW c, c = CachedFrom(Changes)
    PROVE  /\ c \in [Docs -> Cached]
           /\ Changes \in SUBSET Docs
           /\ \A d \in Changes :
                 /\ d \in Told \cup Deduced
                 /\ ~c[d].committed
                 /\ c[d].version <= Heard.version
           /\ \A d \in Docs \ Changes : c[d] = cache[d]
           /\ \A d \in Docs :
                 /\ c[d].version \in 0..Now
                 /\ cache[d].version <= c[d].version
                 /\ c[d].value = ServerDoc(d, c[d].version).value
           /\ \A d \in Told :
                 ServerDoc(d, Heard.version).version <= c[d].version
<1>1. /\ Now \in Nat /\ history \in Seq(Change) /\ cache \in [Docs -> Cached]
      /\ Heard.version \in 0..Now
      /\ \A d \in Docs : cache[d].version \in 0..Now
  BY HeardIs, InvTypes
<1>2. Changes \in SUBSET Docs /\ Told \in SUBSET Docs
  BY DeducedIs, ToldIs DEF Changes
<1>3. ASSUME NEW d \in Changes
      PROVE  /\ c[d] \in Cached /\ ~c[d].committed
             /\ c[d].version \in 0..Heard.version
             /\ c[d].version \in 0..Now
             /\ cache[d].version <= c[d].version
             /\ c[d].value = ServerDoc(d, c[d].version).value
             /\ ServerDoc(d, Heard.version).version <= c[d].version
  <2>1. d \in Docs /\ Supersedes(Updates[d], cache[d])
    BY <1>2 DEF Changes
  <2>2. c[d] = [version |-> Updates[d].version, value |-> Updates[d].value,
                committed |-> FALSE]
    BY <2>1 DEF CachedFrom
  <2>3. c[d].version = Updates[d].version /\ c[d].value = Updates[d].value
        /\ c[d].committed = FALSE
    BY <2>2
  <2>4. /\ Updates[d].version \in 0..Heard.version
        /\ Updates[d].version \in 0..Now
        /\ Updates[d].value \in Value
        /\ Updates[d].value = ServerDoc(d, Updates[d].version).value
        /\ ServerDoc(d, Heard.version).version <= Updates[d].version
    BY <2>1, UpdatesAre
  <2>5. cache[d].version <= Updates[d].version
    BY <1>1, <2>1, <2>4 DEF Supersedes
  <2>6. c[d] \in Cached
    BY <2>2, <2>4, <1>1 DEF Cached
  <2> QED BY <2>3, <2>4, <2>5, <2>6
<1>4. \A d \in Docs \ Changes : c[d] = cache[d]
  BY DEF CachedFrom
<1>5. ASSUME NEW d \in Docs
      PROVE  /\ c[d] \in Cached
             /\ c[d].version \in 0..Now
             /\ cache[d].version <= c[d].version
             /\ c[d].value = ServerDoc(d, c[d].version).value
  <2>1. CASE d \in Changes
    BY <1>3, <2>1
  <2>2. CASE d \notin Changes
    <3>1. c[d] = cache[d] /\ cache[d] \in Cached
      BY <1>1, <1>4, <2>2
    <3>2. cache[d].value = ServerDoc(d, cache[d].version).value
      BY DEF Inv, CacheInv
    <3> QED BY <1>1, <3>1, <3>2
  <2> QED BY <2>1, <2>2
<1>6. ASSUME NEW d \in Told
      PROVE  ServerDoc(d, Heard.version).version <= c[d].version
  <2>1. CASE d \in Changes
    BY <1>3, <2>1
  <2>2. CASE d \notin Changes
    <3>1. d \in Docs /\ ~Supersedes(Updates[d], cache[d])
      BY <1>2, <2>2 DEF Changes
    <3>2. /\ Updates[d].version \in 0..Now
          /\ ServerDoc(d, Heard.version).version <= Updates[d].version
      BY <3>1, UpdatesAre
    <3>3. Updates[d].version <= cache[d].version
      BY <1>1, <3>1, <3>2 DEF Supersedes
    <3>4. ServerDoc(d, Heard.version).version \in Nat
      BY <1>1, ServerDocIs
    <3> QED BY <1>1, <1>4, <2>2, <3>1, <3>2, <3>3, <3>4
  <2> QED BY <2>1, <2>2
<1>7. c \in [Docs -> Cached]
  <2>1. c = [d \in Docs |-> c[d]]
    BY DEF CachedFrom
  <2> QED BY <1>5, <2>1
<1>8. \A d \in Changes : d \in Told \cup Deduced
  BY DEF Changes
<1>9. \A d \in Changes : c[d].version <= Heard.version
  BY <1>1, <1>3
<1> QED BY <1>2, <1>3, <1>4, <1>5, <1>6, <1>7, <1>8, <1>9

\* What the snapshot makes of the targets.
LEMMA TargetAfterIs ==
    ASSUME Inv, stream.down # <<>>, Heard.kind = "snapshot",
           NEW t \in targets, NEW u, u = TargetAfter(t)
    PROVE  /\ u \in Target /\ u.id = t.id /\ u.token <= Now
           /\ t.id # Query => u.received = Exists(t.id.doc, u.token)
           /\ ~IsActive(t) => u = t
           /\ IsActive(t) /\ ~(t.id = Query /\ Mismatch) =>
                 u.token = Heard.version /\ u.responses = t.responses
           /\ t.id = Query /\ Mismatch =>
                 IsActive(t) /\ u.token = 0 /\ u.responses = 2
<1>1. /\ Heard.version \in 0..Now /\ Now \in Nat
      /\ TargetsOK(targets, lastLimbo) /\ t \in Target
  BY HeardIs, InvTypes DEF Inv
<1>2. /\ t.token <= Now
      /\ t.id # Query => /\ t.id.doc \in Docs
                         /\ t.received = Exists(t.id.doc, t.token)
  BY <1>1 DEF TargetsOK
<1>3. t.id = Query => t = QueryTarget
  BY <1>1, QueryTargetIs DEF QueryTarget
<1>4. t.id = Query /\ Mismatch => IsActive(t)
  BY <1>3 DEF Mismatch
<1>5. CASE ~IsActive(t)
  <2>1. u = t
    BY <1>5 DEF TargetAfter
  <2> QED BY <1>1, <1>2, <1>4, <1>5, <2>1
<1>6. CASE IsActive(t) /\ t.id = Query /\ Mismatch
  <2>1. u = [t EXCEPT !.token = 0, !.responses = 2]
    BY <1>6 DEF TargetAfter
  <2>2. /\ u \in Target /\ u.id = t.id /\ u.token = 0 /\ u.responses = 2
    <3>1. t \in Target
      BY <1>1
    <3>2. /\ u.id = t.id /\ u.token = 0 /\ u.responses = 2
          /\ u.received = t.received
          /\ u = [id |-> u.id, token |-> u.token, received |-> u.received,
                  responses |-> u.responses]
      BY <2>1, <3>1 DEF Target
    <3>3. t.id \in Id /\ t.received \in BOOLEAN
      BY <3>1 DEF Target
    <3> QED BY <3>2, <3>3 DEF Target
  <2> QED BY <1>1, <1>6, <2>2
<1>7. CASE IsActive(t) /\ ~(t.id = Query /\ Mismatch)
  <2> DEFINE x == IF t.id.doc \in NamedFor(t)
                  THEN Exists(t.id.doc, Heard.version) ELSE t.received
  <2>1. u = [t EXCEPT !.token = Heard.version, !.received = x]
    BY <1>7 DEF TargetAfter
  <2>2. x \in BOOLEAN
    BY <1>1 DEF Exists, Target
  <2>3. t.id # Query => x = Exists(t.id.doc, Heard.version)
    <3>1. CASE t.id.doc \in NamedFor(t)
      BY <3>1
    <3>2. CASE t.id.doc \notin NamedFor(t) /\ t.id # Query
      <4>1. t.id.doc \in Docs
        BY <1>2, <3>2
      <4>2. Exists(t.id.doc, t.token) = Exists(t.id.doc, Heard.version)
        BY <1>7, <3>2, <4>1, UnnamedIs
      <4> QED BY <1>2, <3>2, <4>2
    <3> QED BY <3>1, <3>2
  <2> HIDE DEF x
  <2>4. /\ u \in Target /\ u.id = t.id /\ u.token = Heard.version
        /\ u.responses = t.responses /\ u.received = x
    <3>1. t \in Target
      BY <1>1
    <3>2. /\ u.id = t.id /\ u.token = Heard.version /\ u.received = x
          /\ u.responses = t.responses
          /\ u = [id |-> u.id, token |-> u.token, received |-> u.received,
                  responses |-> u.responses]
      BY <2>1, <3>1 DEF Target
    <3>3. t.id \in Id /\ t.responses \in Nat /\ Heard.version \in Nat
      BY <1>1, <3>1 DEF Target
    <3> QED BY <2>2, <3>2, <3>3 DEF Target
  <2> QED BY <1>1, <1>7, <2>3, <2>4
<1> QED BY <1>5, <1>6, <1>7

\* All targets after the snapshot.
TargetsAfter == {TargetAfter(t) : t \in targets}

\* The targets stay in order when a snapshot is applied.
LEMMA TargetsAfterOK ==
    ASSUME Inv, stream.down # <<>>, Heard.kind = "snapshot",
           NEW us, us = TargetsAfter
    PROVE  /\ TargetsOK(us, lastLimbo) /\ us \in SUBSET Target
           /\ LimboDocs(us) = LimboDocs(targets)
           /\ (CHOOSE u \in us : u.id = Query) = TargetAfter(QueryTarget)
<1> DEFINE f == [t \in targets |-> TargetAfter(t)]
<1>1. TargetsOK(targets, lastLimbo)
  BY DEF Inv
<1>2. \A t \in targets : f[t] = TargetAfter(t)
  OBVIOUS
<1>3. us = Mapped(f, targets)
  BY DEF Mapped, TargetsAfter
<1>4. ASSUME NEW t \in targets
      PROVE  /\ f[t] \in Target /\ f[t].id = t.id /\ f[t].token <= Now
             /\ t.id # Query => f[t].received = Exists(t.id.doc, f[t].token)
  <2>1. PICK u : u = f[t]
    OBVIOUS
  <2>2. u = TargetAfter(t)
    BY <1>2, <2>1
  <2>3. /\ u \in Target /\ u.id = t.id /\ u.token <= Now
        /\ t.id # Query => u.received = Exists(t.id.doc, u.token)
    BY <2>2, TargetAfterIs
  <2> QED BY <2>1, <2>3
<1>5. f \in [targets -> Target]
  BY <1>4
<1> HIDE DEF f
<1>6. /\ TargetsOK(us, lastLimbo)
      /\ LimboDocs(us) = LimboDocs(targets)
      /\ (CHOOSE u \in us : u.id = Query)
           = f[CHOOSE t \in targets : t.id = Query]
  <2>1. \A t \in targets : f[t].id = t.id /\ f[t].token <= Now
    BY <1>4
  <2>2. \A t \in targets : t.id # Query =>
           f[t].received = Exists(t.id.doc, f[t].token)
    BY <1>4
  <2> QED BY <1>1, <1>3, <1>5, <2>1, <2>2, MappedTargets
<1>7. f[CHOOSE t \in targets : t.id = Query] = TargetAfter(QueryTarget)
  BY <1>2, InvTypes DEF QueryTarget
<1>8. us \in SUBSET Target
  BY <1>6 DEF TargetsOK
<1> QED BY <1>6, <1>7, <1>8

\* The requests that start the query over, and the stream after the snapshot.
StartOver == <<Unwatch(QueryTarget), [Watch(QueryTarget) EXCEPT !.token = 0]>>
StreamAfter ==
    IF Mismatch THEN [Rest EXCEPT !.up = @ \o StartOver] ELSE Rest

\* The requests that start the query over: it is unwatched and watched again.
LEMMA StartOverIs ==
    ASSUME Inv, stream.down # <<>>, Heard.kind = "snapshot", Mismatch,
           NEW u, u = TargetAfter(QueryTarget)
    PROVE  /\ StartOver \in Seq(Request) /\ Len(StartOver) = 2
           /\ \A j \in 1..2 : StartOver[j].target = Query
           /\ StartOver[2] = Watch(u)
           /\ Cardinality({j \in 1..Len(StartOver) :
                             StartOver[j].target = Query}) = 2
<1>1. /\ QueryTarget \in targets /\ QueryTarget.id = Query
      /\ QueryTarget.token \in Nat
  BY InvTypes
<1>2. u \in Target /\ u.id = Query /\ u.token = 0
  BY <1>1, TargetAfterIs
<1>3. Watch(u) = [op |-> "watch", target |-> Query, token |-> 0]
  BY <1>2 DEF Watch
<1>4. [Watch(QueryTarget) EXCEPT !.token = 0] = Watch(u)
  <2>1. Watch(QueryTarget) = [op |-> "watch", target |-> Query,
                              token |-> QueryTarget.token]
    BY <1>1 DEF Watch
  <2> QED BY <1>3, <2>1
<1>5. Unwatch(QueryTarget) = [op |-> "unwatch", target |-> Query, token |-> 0]
  BY <1>1 DEF Unwatch
<1>6. StartOver = <<Unwatch(QueryTarget), Watch(u)>>
  BY <1>4 DEF StartOver
<1>7. Unwatch(QueryTarget) \in Request /\ Watch(u) \in Request
  BY <1>3, <1>5, QueryType DEF Request
<1>8. /\ StartOver \in Seq(Request) /\ Len(StartOver) = 2
      /\ StartOver[1] = Unwatch(QueryTarget) /\ StartOver[2] = Watch(u)
  BY <1>6, <1>7
<1>9. Unwatch(QueryTarget).target = Query /\ Watch(u).target = Query
  BY <1>3, <1>5
<1>10. \A j \in 1..2 : StartOver[j].target = Query
  BY <1>8, <1>9
<1>11. {j \in 1..Len(StartOver) : StartOver[j].target = Query} = 1..2
  BY <1>8, <1>10
<1>12. Cardinality(1..2) = 2
  <2>1. PICK n \in Nat : n = 2
    OBVIOUS
  <2>2. Cardinality(1..n) = IF 1 > n THEN 0 ELSE n - 1 + 1
    BY FS_Interval
  <2> QED BY <2>1, <2>2
<1> QED BY <1>8, <1>10, <1>11, <1>12

\* The stream stays in order when a snapshot is applied.
LEMMA StreamAfterOK ==
    ASSUME Inv, stream.down # <<>>, Heard.kind = "snapshot",
           NEW us, us = TargetsAfter,
           NEW s, s = StreamAfter
    PROVE  /\ StreamOK(s, us, lastLimbo) /\ s.open = stream.open
           /\ \A k \in Snapshots(s) : /\ k + 1 \in Snapshots(stream)
                                      /\ s.down[k] = stream.down[k + 1]
<1> DEFINE z == Taken(stream)
           others == {u \in us : ~(u.id = Query /\ Mismatch)}
<1>1. /\ StreamOK(stream, targets, lastLimbo) /\ stream \in Stream
      /\ Ordered(stream) /\ Now \in Nat /\ targets \in SUBSET Target
      /\ \A t \in targets : Tracked(t, stream) /\ t.token \in 0..Heard.version
      /\ Heard.version \in 0..Now /\ lastLimbo \in Nat
  BY InvTypes, HeardIs DEF Inv, StreamOK
<1>2. us \in SUBSET Target /\ TargetsOK(us, lastLimbo)
  BY TargetsAfterOK
<1>3. Rest = z
  BY DEF Rest, Taken
<1>4. /\ z \in Stream /\ z.up = stream.up /\ z.open = stream.open
      /\ \A id : /\ Requests(id, z) = Requests(id, stream)
                 /\ Answers(id, stream) = {} => Answers(id, z) = {}
  <2> SUFFICES ASSUME NEW id
               PROVE  /\ z \in Stream /\ z.up = stream.up
                      /\ z.open = stream.open
                      /\ Requests(id, z) = Requests(id, stream)
                      /\ Answers(id, stream) = {} => Answers(id, z) = {}
    OBVIOUS
  <2> DEFINE y == [stream EXCEPT !.down = Tail(@)]
             n == Len(stream.down)
  <2>1. /\ y \in Stream /\ y.up = stream.up /\ y.open = stream.open
        /\ Requests(id, y) = Requests(id, stream)
        /\ Answers(id, y) = {i \in 1..(n - 1) : i + 1 \in Answers(id, stream)}
    BY <1>1, RestIs
  <2>2. z = y
    BY DEF Taken
  <2> HIDE DEF y, z
  <2> QED BY <2>1, <2>2
<1> HIDE DEF z
<1>5. ASSUME NEW u \in others
      PROVE  /\ Tracked(u, z)
             /\ \/ \E t \in targets : u.token = t.token
                \/ u.token = Heard.version
  <2>1. PICK t \in targets : u = TargetAfter(t)
    BY DEF TargetsAfter
  <2>2. /\ u \in Target /\ u.id = t.id
        /\ ~IsActive(t) => u = t
        /\ IsActive(t) /\ ~(t.id = Query /\ Mismatch) =>
              u.token = Heard.version /\ u.responses = t.responses
    BY <2>1, TargetAfterIs
  <2>3. ~(t.id = Query /\ Mismatch)
    BY <2>2
  <2>4. /\ u.responses = t.responses
        /\ IsActive(t) => /\ t.token <= u.token
                          /\ u.token = Head(stream.down).version
        /\ ~IsActive(t) => u.token = t.token
    BY <1>1, <2>2, <2>3 DEF Heard
  <2>5. Tracked(u, [stream EXCEPT !.down = Tail(@)])
    <3>1. t \in Target /\ Tracked(t, stream)
      BY <1>1
    <3>2. Head(stream.down).kind = "snapshot"
      BY DEF Heard
    <3> QED BY <1>1, <2>2, <2>4, <3>1, <3>2, SnapshotHeardTracked
  <2> QED BY <2>2, <2>4, <2>5 DEF z, Taken, Heard
<1>6. others \in SUBSET Target
  BY <1>2
<1> HIDE DEF others
<1>7. /\ StreamOK(z, others, lastLimbo)
      /\ \A k \in Snapshots(z) : /\ k + 1 \in Snapshots(stream)
                                 /\ z.down[k] = stream.down[k + 1]
  <2>1. \A u \in others : Tracked(u, z)
    BY <1>5
  <2>2. \A u \in others :
           \/ \E t \in targets : u.token = t.token
           \/ /\ Head(stream.down).kind = "snapshot"
              /\ u.token = Head(stream.down).version
           \/ u.token = 0
    BY <1>5 DEF Heard
  <2>3. z = Taken(stream)
    BY DEF z
  <2>4. StreamOK(stream, targets, lastLimbo) /\ stream.down # <<>>
    BY <1>1
  <2> QED BY <1>6, <2>1, <2>2, <2>3, <2>4, RestOK
<1>8. CASE ~Mismatch
  <2>1. others = us /\ s = z
    BY <1>3, <1>8 DEF others, StreamAfter
  <2> QED BY <1>4, <1>7, <2>1
<1>9. CASE Mismatch
  <2>1. PICK q : q = TargetAfter(QueryTarget)
    OBVIOUS
  <2>2. /\ QueryTarget \in targets /\ QueryTarget \in Target
        /\ QueryTarget.id = Query
    BY InvTypes
  <2>3. /\ q \in us /\ q \in Target /\ q.id = Query /\ q.token = 0
        /\ q.responses = 2 /\ IsActive(QueryTarget)
    BY <1>9, <2>1, <2>2, TargetAfterIs DEF TargetsAfter
  <2>4. \A u \in us : u.id = Query => u = q
    BY <1>2, <2>3, QueryTargetIs
  <2>5. \A u \in us : u = q \/ (u \in others /\ u.id # Query)
    BY <2>4 DEF others
  <2>6. PICK r : r = StartOver
    OBVIOUS
  <2>7. /\ r \in Seq(Request) /\ Len(r) = 2
        /\ \A j \in 1..2 : r[j].target = Query
        /\ r[2] = Watch(q)
        /\ Cardinality({j \in 1..Len(r) : r[j].target = Query}) = 2
    BY <1>9, <2>1, <2>6, StartOverIs
  <2>8. s = [z EXCEPT !.up = @ \o r]
    BY <1>3, <1>9, <2>6 DEF StreamAfter
  <2>9. /\ s = [open |-> z.open, up |-> z.up \o r, down |-> z.down,
                watched |-> z.watched]
        /\ s \in Stream
    <3>1. z \in Stream /\ r \in Seq(Request)
      BY <1>4, <2>7
    <3> QED BY <2>8, <3>1, RequestedIs, ZenonT(100)
  <2>10. /\ s.open = z.open /\ s.up = z.up \o r /\ s.down = z.down
         /\ s.watched = z.watched
    BY <2>9
  <2>11. /\ Requests(Query, z) = {} /\ Answers(Query, z) = {}
    <3>1. /\ Requests(Query, stream) = {} /\ Answers(Query, stream) = {}
      BY <1>1, <2>2, <2>3, ActiveIs
    <3> QED BY <1>4, <3>1
  <2>12. Tracked(q, s)
    <3>1. 2 \in 1..Len(r) /\ \A j \in (2 + 1)..Len(r) : r[j].target # q.id
      BY <2>7
    <3>2. Requests(q.id, z) = {} /\ Answers(q.id, z) = {}
      BY <2>3, <2>11
    <3>3. Cardinality({j \in 1..Len(r) : r[j].target = q.id}) = q.responses
      BY <2>3, <2>7
    <3>4. Tracked(q, [z EXCEPT !.up = @ \o r])
      BY <1>4, <2>3, <2>7, <3>1, <3>2, <3>3, AskedTracked
    <3> QED BY <2>8, <3>4
  <2>13. \A u \in us : Tracked(u, s)
    <3> TAKE u \in us
    <3>1. CASE u = q
      BY <2>12, <3>1
    <3>2. CASE u \in others /\ u.id # Query
      <4>1. Tracked(u, z) /\ u \in Target
        BY <1>5, <1>6, <3>2
      <4>2. \A i \in 1..Len(r) : r[i].target # u.id
        BY <2>7, <3>2
      <4>3. Tracked(u, [z EXCEPT !.up = @ \o r])
        BY <1>4, <2>7, <4>1, <4>2, OthersTracked
      <4> QED BY <2>8, <4>3
    <3> QED BY <2>5, <3>1, <3>2
  <2>14. Snapshots(s) = Snapshots(z)
    BY <2>10 DEF Snapshots
  <2>15. /\ Ordered(s) /\ OneEach(s) /\ s.open
         /\ \A k \in 1..Len(s.down) :
              s.down[k].kind = "answer" => s.down[k].target.number <= lastLimbo
    <3>1. /\ Ordered(z) /\ OneEach(z)
          /\ \A k \in 1..Len(z.down) :
              z.down[k].kind = "answer" => z.down[k].target.number <= lastLimbo
      BY <1>7 DEF StreamOK
    <3>2. stream.open
      BY HeardIs
    <3> QED BY <1>4, <2>10, <2>14, <3>1, <3>2 DEF Ordered, OneEach
  <2>16. \A k \in 1..Len(s.up) : s.up[k].target.number <= lastLimbo
    <3>1. z.up \in Seq(Request) /\ Len(z.up) \in Nat
      BY <1>4, StreamFields
    <3>2. /\ Len(s.up) = Len(z.up) + 2
          /\ \A k \in 1..Len(z.up) : s.up[k] = z.up[k]
          /\ \A k \in 1..2 : s.up[Len(z.up) + k] = r[k]
      <4>1. r \in Seq(Request) /\ Len(r) \in Nat /\ s.up = z.up \o r
        BY <2>7, <2>10
      <4>2. /\ Len(s.up) = Len(z.up) + Len(r)
            /\ \A k \in 1..Len(z.up) : s.up[k] = z.up[k]
            /\ \A k \in 1..Len(r) : s.up[Len(z.up) + k] = r[k]
        BY <3>1, <4>1, ConcatProperties
      <4> QED BY <2>7, <4>2
    <3> TAKE k \in 1..Len(s.up)
    <3>3. CASE k \in 1..Len(z.up)
      BY <1>7, <3>2, <3>3 DEF StreamOK
    <3>4. CASE k \notin 1..Len(z.up)
      <4>1. k - Len(z.up) \in 1..2 /\ k = Len(z.up) + (k - Len(z.up))
        BY <3>1, <3>2, <3>4
      <4>2. s.up[k] = r[k - Len(z.up)]
        BY <3>2, <4>1
      <4>3. s.up[k].target = Query
        BY <2>7, <4>1, <4>2
      <4> QED BY <1>1, <4>3, QueryType
    <3> QED BY <3>3, <3>4
  <2>17. \A u \in us : \A k \in Snapshots(s) : u.token <= s.down[k].version
    <3> TAKE u \in us
    <3> TAKE k \in Snapshots(s)
    <3>1. CASE u = q
      <4>1. s.down[k].version \in 1..Now
        BY <2>15 DEF Ordered
      <4> QED BY <1>1, <2>3, <3>1, <4>1
    <3>2. CASE u \in others
      <4>1. k \in Snapshots(z)
        BY <2>14
      <4>2. u.token <= z.down[k].version
        BY <1>7, <3>2, <4>1 DEF StreamOK
      <4> QED BY <2>10, <4>2
    <3> QED BY <2>5, <3>1, <3>2
  <2>18. StreamOK(s, us, lastLimbo)
    BY <2>9, <2>13, <2>15, <2>16, <2>17 DEF StreamOK
  <2>19. \A k \in Snapshots(s) : /\ k + 1 \in Snapshots(stream)
                                 /\ s.down[k] = stream.down[k + 1]
    BY <1>7, <2>10, <2>14
  <2> QED BY <1>4, <2>10, <2>18, <2>19
<1> QED BY <1>8, <1>9

\* At version 0 there is nothing.
LEMMA ExistingZero ==
    ASSUME history \in Seq(Change)
    PROVE  Existing(0) = {} /\ Knows(0)
<1>1. ASSUME NEW d \in Docs PROVE ~Exists(d, 0)
  <2>1. 0 \in 0..Now
    BY LenProperties DEF Now
  <2>2. ServerDoc(d, 0).version \in 0..0
    BY <2>1, ServerDocIs
  <2>3. ServerDoc(d, 0).version = 0
    BY <2>2
  <2> QED BY <2>1, <2>3, ServerDocIs DEF Exists
<1> QED BY <1>1 DEF Existing, Knows

\* The query's keys after a snapshot that counts for it are those of its version,
\* if they were those of its token, unless they are given up.
LEMMA SyncedIs ==
    ASSUME Inv, stream.down # <<>>, Heard.kind = "snapshot",
           IsActive(QueryTarget),
           view.synced = Existing(QueryTarget.token)
    PROVE  SyncedAfter = IF Mismatch THEN Existing(0)
                         ELSE Existing(Heard.version)
<1> DEFINE N == NamedFor(QueryTarget)
           there == {d \in N : Exists(d, Heard.version)}
           V == Heard.version
<1>1. /\ QueryTarget \in targets /\ QueryTarget.id = Query
      /\ Heard.how \in {"replay", "count", "reset"}
      /\ Heard.count = Cardinality(Existing(V))
  BY InvTypes, HeardIs
<1>2. KeysTold = there \cup (IF Heard.how = "reset" THEN {}
                             ELSE view.synced \ N)
  BY DEF KeysTold
<1>3. N \in SUBSET Docs
  BY DEF NamedFor
<1>4. ASSUME NEW d \in Docs, d \notin N
      PROVE  /\ Exists(d, V) => Exists(d, QueryTarget.token)
                                /\ Heard.how # "reset"
             /\ Heard.how = "replay" =>
                   Exists(d, QueryTarget.token) = Exists(d, V)
  <2>1. QueryTarget.id.doc \in {d, Collection}
    BY <1>1, QueryType
  <2> QED BY <1>1, <1>4, <2>1, UnnamedIs
<1> HIDE DEF N, V
<1>5. Existing(V) \in SUBSET KeysTold
  <2>1. ASSUME NEW d \in Existing(V) PROVE d \in KeysTold
    <3>1. d \in Docs /\ Exists(d, V)
      BY DEF Existing
    <3>2. CASE d \in N
      BY <1>2, <3>1, <3>2 DEF V
    <3>3. CASE d \notin N
      <4>1. Exists(d, QueryTarget.token) /\ Heard.how # "reset"
        BY <1>4, <3>1, <3>3
      <4>2. d \in view.synced
        BY <3>1, <4>1 DEF Existing
      <4> QED BY <1>2, <3>3, <4>1, <4>2
    <3> QED BY <3>2, <3>3
  <2> QED BY <2>1
<1>6. KeysTold \in SUBSET Docs
  BY <1>2, <1>3, InvTypes
<1>7. CASE Mismatch
  <2>1. SyncedAfter = {}
    BY <1>7 DEF SyncedAfter
  <2> QED BY <1>7, <2>1, ExistingZero, InvTypes
<1>8. CASE ~Mismatch /\ Heard.how = "count"
  <2>1. SyncedAfter = KeysTold /\ Cardinality(KeysTold) = Heard.count
    BY <1>8 DEF SyncedAfter, Mismatch
  <2>2. IsFiniteSet(KeysTold)
    BY <1>6, ConstantsType, FS_Subset
  <2>3. Existing(V) = KeysTold
    BY <1>1, <1>5, <2>1, <2>2, FS_Subset
  <2> QED BY <1>8, <2>1, <2>3 DEF V
<1>9. CASE ~Mismatch /\ Heard.how # "count"
  <2>1. SyncedAfter = KeysTold
    BY <1>9 DEF SyncedAfter
  <2>2. ASSUME NEW d \in KeysTold PROVE d \in Existing(V)
    <3>1. d \in Docs
      BY <1>6
    <3>2. CASE d \in there
      BY <3>1, <3>2 DEF Existing, V
    <3>3. CASE d \notin there
      <4>1. Heard.how # "reset" /\ d \in view.synced /\ d \notin N
        BY <1>2, <3>3
      <4>2. Heard.how = "replay" /\ Exists(d, QueryTarget.token)
        BY <1>1, <1>9, <4>1 DEF Existing
      <4>3. Exists(d, V)
        BY <1>4, <3>1, <4>1, <4>2
      <4> QED BY <3>1, <4>3 DEF Existing
    <3> QED BY <3>2, <3>3
  <2>3. KeysTold = Existing(V)
    BY <1>5, <2>2
  <2> QED BY <1>9, <2>1, <2>3 DEF V
<1> QED BY <1>7, <1>8, <1>9

\* What a snapshot that counts for the query leaves known of its version.
LEMMA KnowsHeard ==
    ASSUME Inv, stream.down # <<>>, Heard.kind = "snapshot",
           IsActive(QueryTarget), NEW c, c = CachedFrom(Changes),
           NEW d \in Docs, Exists(d, Heard.version)
    PROVE  ServerDoc(d, Heard.version).version <= c[d].version
<1>1. /\ QueryTarget \in targets /\ QueryTarget.id = Query
      /\ QueryTarget.token \in 0..Now
      /\ Heard.version \in 0..Now /\ Now \in Nat /\ history \in Seq(Change)
      /\ cache[d].version \in 0..Now
  BY InvTypes, HeardIs
<1>2. /\ c[d].version \in 0..Now
      /\ cache[d].version <= c[d].version
      /\ d \in Told => ServerDoc(d, Heard.version).version <= c[d].version
  BY CachedFromIs
<1>3. CASE d \in NamedFor(QueryTarget)
  <2>1. d \in Told
    BY <1>1, <1>3 DEF Told, Active
  <2> QED BY <1>2, <2>1
<1>4. CASE d \notin NamedFor(QueryTarget)
  <2>1. /\ ServerDoc(d, Heard.version) = ServerDoc(d, QueryTarget.token)
        /\ Exists(d, QueryTarget.token)
    BY <1>1, <1>4, QueryType, UnnamedIs
  <2>2. ServerDoc(d, QueryTarget.token).version <= cache[d].version
    BY <2>1 DEF Inv, KnowInv, Knows
  <2>3. ServerDoc(d, Heard.version).version \in Nat
    BY <1>1, ServerDocIs
  <2> QED BY <1>1, <1>2, <2>1, <2>2, <2>3
<1> QED BY <1>3, <1>4

\* The view that is emitted, with cache c.
ViewAfter(c) ==
    [docs |-> Changed(view.docs, Changes, queue, c), synced |-> SyncedAfter,
     current |-> IF IsActive(QueryTarget) THEN ~Mismatch ELSE view.current]

\* HandleSnapshot, in these terms.
LEMMA SnapshotIs ==
    ASSUME Inv, HandleSnapshot
    PROVE  /\ stream.down # <<>> /\ Heard.kind = "snapshot"
           /\ cache' = CachedFrom(Changes)
           /\ Emit(ViewAfter(cache'), TargetsAfter, StreamAfter, "online")
           /\ \/ /\ IsActive(QueryTarget)
                 /\ disk' = [token |-> Heard.version, keys |-> SyncedAfter]
              \/ disk' = disk
           /\ online' = "online"
           /\ UNCHANGED <<history, acks, queue, writes, troubles, keysLost>>
<1>1. PICK update \in {Updates} :
      \E changes \in {{d \in Told \cup Deduced :
                          Supersedes(update[d], cache[d])}} :
         /\ cache' = [d \in Docs |->
                        IF d \in changes
                        THEN [version |-> update[d].version,
                              value |-> update[d].value, committed |-> FALSE]
                        ELSE cache[d]]
         /\ \E v \in {[docs |-> Changed(view.docs, changes, queue, cache'),
                       synced |-> SyncedAfter,
                       current |-> IF IsActive(QueryTarget) THEN ~Mismatch
                                   ELSE view.current]} :
            Emit(v, {TargetAfter(t) : t \in targets},
                 IF Mismatch
                 THEN [Rest EXCEPT !.up = @ \o
                         <<Unwatch(QueryTarget),
                           [Watch(QueryTarget) EXCEPT !.token = 0]>>]
                 ELSE Rest,
                 "online")
  BY DEF HandleSnapshot
<1>2. /\ cache' = CachedFrom(Changes)
      /\ Emit(ViewAfter(cache'), TargetsAfter, StreamAfter, "online")
  BY <1>1 DEF Changes, CachedFrom, ViewAfter, TargetsAfter, StreamAfter,
              StartOver
<1>3. /\ stream.down # <<>> /\ Heard.kind = "snapshot"
      /\ online' = "online"
      /\ UNCHANGED <<history, acks, queue, writes, troubles, keysLost>>
      /\ \/ /\ IsActive(QueryTarget)
            /\ disk' = [token |-> Heard.version, keys |-> SyncedAfter]
         \/ disk' = disk
  BY DEF HandleSnapshot
<1> QED BY <1>2, <1>3

\* HandleSnapshot: the view is ahead of the query's token only in documents that
\* were in limbo, which come with targets of their own.
LEMMA HandleSnapshotInv ==
    ASSUME Inv, HandleSnapshot
    PROVE  Inv'
<1>1. /\ stream.down # <<>> /\ Heard.kind = "snapshot"
      /\ cache' = CachedFrom(Changes)
      /\ Emit(ViewAfter(cache'), TargetsAfter, StreamAfter, "online")
      /\ \/ /\ IsActive(QueryTarget)
            /\ disk' = [token |-> Heard.version, keys |-> SyncedAfter]
         \/ disk' = disk
      /\ online' = "online"
      /\ UNCHANGED <<history, acks, queue, writes, troubles, keysLost>>
  BY SnapshotIs
<1>2. PICK c : c = cache'
  OBVIOUS
<1>3. PICK v : v = ViewAfter(c)
  OBVIOUS
<1>4. PICK ts : ts = TargetsAfter
  OBVIOUS
<1>5. PICK s : s = StreamAfter
  OBVIOUS
<1>6. PICK V : V = Heard.version
  OBVIOUS
<1>7. Emit(v, ts, s, "online")
  BY <1>1, <1>2, <1>3, <1>4, <1>5
<1>8. /\ history \in Seq(Change) /\ Now \in Nat /\ Now > 0
      /\ queue \in Seq(Write) /\ Len(queue) \in Nat
      /\ acks \in Seq(Nat) /\ Len(acks) \in Nat
      /\ cache \in [Docs -> Cached]
      /\ \A d \in Docs : cache[d].version \in 0..Now
      /\ view \in View /\ view.docs \in [Docs -> Shown]
      /\ view.synced \in SUBSET Docs /\ view.current \in BOOLEAN
      /\ raised \in BOOLEAN /\ shown \in [Docs -> Value]
      /\ disk.token \in 0..Now /\ disk.keys \in SUBSET Docs
      /\ lastLimbo \in Nat
      /\ QueryTarget \in targets /\ QueryTarget.id = Query
      /\ QueryTarget.token \in 0..Now
  BY InvTypes
<1>9. /\ V \in 0..Now
      /\ \A d \in Docs : Settled(d) => cache[d].version <= V
      /\ \A k \in Snapshots(stream) : V <= stream.down[k].version
  BY <1>1, <1>6, HeardIs
<1>10. /\ c \in [Docs -> Cached] /\ Changes \in SUBSET Docs
       /\ \A d \in Changes : /\ d \in Told \cup Deduced /\ ~c[d].committed
                             /\ c[d].version <= V
       /\ \A d \in Docs \ Changes : c[d] = cache[d]
       /\ \A d \in Docs : /\ c[d].version \in 0..Now
                          /\ cache[d].version <= c[d].version
                          /\ c[d].value = ServerDoc(d, c[d].version).value
  BY <1>1, <1>2, <1>6, CachedFromIs
<1>11. Kept /\ Now' = Now
  BY <1>1, <1>8, SameKept DEF Now
<1>12. /\ v.docs = Changed(view.docs, Changes, queue, c)
       /\ v.synced = SyncedAfter
       /\ v.current = IF IsActive(QueryTarget) THEN ~Mismatch ELSE view.current
       /\ v = [docs |-> v.docs, synced |-> v.synced, current |-> v.current]
  BY <1>3 DEF ViewAfter
<1>13. SyncedAfter \in SUBSET Docs
  <2>1. KeysTold \in SUBSET Docs
    BY <1>8 DEF KeysTold, NamedFor
  <2> QED BY <1>8, <2>1 DEF SyncedAfter
<1>14. /\ v.docs \in [Docs -> Shown]
       /\ \A d \in Docs \ Changes : v.docs[d] = view.docs[d]
       /\ \A d \in Changes :
             v.docs[d] = IF Waits(view.docs[d], LocalDoc(d, queue, c))
                         THEN view.docs[d]
                         ELSE [value |-> LocalDoc(d, queue, c).value,
                               local |-> LocalDoc(d, queue, c).local]
  <2>1. /\ Changed(view.docs, Changes, queue, c) \in [Docs -> Shown]
        /\ \A d \in Docs \ Changes :
              Changed(view.docs, Changes, queue, c)[d] = view.docs[d]
        /\ \A d \in Docs \cap Changes :
              Changed(view.docs, Changes, queue, c)[d] =
                 IF Waits(view.docs[d], LocalDoc(d, queue, c)) THEN view.docs[d]
                 ELSE [value |-> LocalDoc(d, queue, c).value,
                       local |-> LocalDoc(d, queue, c).local]
    <3>1. /\ view.docs \in [Docs -> Shown] /\ queue \in Seq(Write)
          /\ c \in [Docs -> Cached]
      BY <1>8, <1>10
    <3> QED BY <3>1, ChangedIs
  <2>2. \A d \in Changes : d \in Docs \cap Changes
    BY <1>10
  <2> QED BY <1>12, <2>1, <2>2
<1>15. v \in View
  <2>1. v.current \in BOOLEAN
    BY <1>8, <1>12 DEF Mismatch
  <2> QED BY <1>12, <1>13, <1>14, <2>1 DEF View, Shown
<1>16. /\ TargetsOK(ts, lastLimbo)
       /\ (CHOOSE u \in ts : u.id = Query) = TargetAfter(QueryTarget)
  BY <1>1, <1>4, TargetsAfterOK
<1>17. /\ StreamOK(s, ts, lastLimbo) /\ s.open = stream.open
       /\ \A k \in Snapshots(s) : /\ k + 1 \in Snapshots(stream)
                                  /\ s.down[k] = stream.down[k + 1]
  BY <1>1, <1>4, <1>5, StreamAfterOK
<1>18. /\ view' = v
       /\ TargetsOK(targets, lastLimbo)'
       /\ StreamOK(stream, targets, lastLimbo)'
       /\ lastLimbo' \in Nat
       /\ targets' \in SUBSET Target /\ stream' \in Stream
       /\ raised' \in BOOLEAN /\ shown' \in [Docs -> Value]
       /\ stream'.down = s.down
       /\ view'.current => (LimboDocs(targets) = InLimbo(view))'
       /\ raised' => (shown = Values(view))'
       /\ IsSynced(view, targets)' => raised'
       /\ QueryTarget' = CHOOSE t \in ts : t.id = Query
  BY <1>7, <1>8, <1>11, <1>15, <1>16, <1>17, EmitKeeps
<1>19. /\ QueryTarget' = TargetAfter(QueryTarget)
       /\ ~IsActive(QueryTarget) => QueryTarget'.token = QueryTarget.token
       /\ IsActive(QueryTarget) =>
             QueryTarget'.token = IF Mismatch THEN 0 ELSE V
  <2>1. PICK u : u = TargetAfter(QueryTarget)
    OBVIOUS
  <2>2. /\ ~IsActive(QueryTarget) => u = QueryTarget
        /\ IsActive(QueryTarget) /\ ~Mismatch => u.token = V
        /\ Mismatch => u.token = 0
    BY <1>1, <1>6, <1>8, <2>1, TargetAfterIs
  <2>3. QueryTarget' = u
    BY <1>16, <1>18, <2>1
  <2> QED BY <2>1, <2>2, <2>3
<1>20. \A d \in Docs, i \in 1..Now : IsOwn(d, i)' <=> IsOwn(d, i)
  BY <1>1 DEF IsOwn
<1>21. AcksInv'
  BY <1>1, <1>11 DEF Inv, AcksInv
<1>22. OwnInv'
  <2>1. ASSUME NEW d \in Docs, NEW i \in 1..Now, IsOwn(d, i)
        PROVE  \/ i <= c[d].version
               \/ \E j \in Mine(d, queue) : j <= Len(acks) => i <= acks[j]
    <3>1. \/ i <= cache[d].version
          \/ \E j \in Mine(d, queue) : j <= Len(acks) => i <= acks[j]
      BY <2>1 DEF Inv, OwnInv
    <3>2. cache[d].version <= c[d].version /\ c[d].version \in Nat
          /\ cache[d].version \in Nat
      BY <1>8, <1>10
    <3> QED BY <3>1, <3>2
  <2> QED BY <1>1, <1>2, <1>11, <1>20, <2>1 DEF OwnInv
<1>23. CacheInv'
  <2>1. ASSUME NEW d \in Docs
        PROVE  c[d].committed =>
                  /\ c[d].version > 0 /\ IsOwn(d, c[d].version)
                  /\ \A j \in 1..Len(acks) : c[d].version < acks[j]
    <3>1. c[d].committed => c[d] = cache[d]
      BY <1>10
    <3> QED BY <3>1 DEF Inv, CacheInv
  <2>2. ASSUME NEW d \in Docs
        PROVE  /\ ServerDoc(d, cache[d].version)' = ServerDoc(d, c[d].version)
               /\ IsOwn(d, cache[d].version)' <=> IsOwn(d, c[d].version)
    <3>1. PICK n : n = c[d].version
      OBVIOUS
    <3>2. ServerDoc(d, n)' = ServerDoc(d, n)
      BY <1>10, <1>11, <3>1 DEF Kept
    <3>3. n = cache'[d].version
      BY <1>2, <3>1
    <3>4. ServerDoc(d, cache[d].version)' = ServerDoc(d, n)'
      BY <3>3
    <3>5. IsOwn(d, cache[d].version)' <=> IsOwn(d, c[d].version)
      BY <1>1, <1>2 DEF IsOwn
    <3> QED BY <3>1, <3>2, <3>4, <3>5
  <2>3. \A d \in Docs : /\ c[d].version <= Now
                        /\ c[d].value = ServerDoc(d, c[d].version).value
    BY <1>8, <1>10
  <2> QED BY <1>1, <1>2, <1>11, <2>1, <2>2, <2>3 DEF CacheInv
<1>24. ASSUME NEW d \in Docs, Settled(d)'
       PROVE  /\ d \notin Changes => Settled(d)
              /\ c[d].version <= V
  <2>1. CASE d \in Changes
    BY <1>10, <2>1
  <2>2. CASE d \notin Changes
    <3>1. c[d] = cache[d] /\ v.docs[d] = view.docs[d]
      BY <1>10, <1>14, <2>2
    <3>2. Settled(d)
      BY <1>1, <1>2, <1>18, <1>24, <3>1 DEF Settled
    <3> QED BY <1>9, <3>1, <3>2
  <2> QED BY <2>1, <2>2
<1>25. MessagesInv'
  <2>1. ASSUME NEW k \in Snapshots(stream')
        PROVE  /\ stream'.down[k].count
                    = Cardinality(Existing(stream.down[k].version))'
               /\ V <= stream'.down[k].version
               /\ stream'.down[k].version \in Nat
    <3>1. PICK m : m = stream'.down[k]
      OBVIOUS
    <3>2. k \in Snapshots(s) /\ m = s.down[k]
      BY <1>18, <3>1 DEF Snapshots
    <3>3. k + 1 \in Snapshots(stream) /\ m = stream.down[k + 1]
      BY <1>17, <3>2
    <3>4. m.count = Cardinality(Existing(m.version)) /\ V <= m.version
      BY <1>9, <3>3 DEF Inv, MessagesInv
    <3>5. m.version \in 1..Now
      BY <3>3 DEF Inv, StreamOK, Ordered
    <3>6. PICK w : w = m.version
      OBVIOUS
    <3>7. Existing(w)' = Existing(w)
      BY <1>8, <1>11, <3>5, <3>6, ExistsKept
    <3>8. Existing(stream.down[k].version)' = Existing(w)'
      BY <3>1, <3>6
    <3> QED BY <3>1, <3>4, <3>5, <3>6, <3>7, <3>8
  <2>2. ASSUME NEW k \in Snapshots(stream'), NEW d \in Docs, Settled(d)'
        PROVE  cache'[d].version <= stream'.down[k].version
    <3>1. c[d].version <= V /\ c[d].version \in Nat
      BY <1>10, <1>24, <2>2
    <3>2. V \in Nat
      BY <1>8, <1>9
    <3>3. V <= stream'.down[k].version /\ stream'.down[k].version \in Nat
      BY <2>1
    <3> QED BY <1>2, <3>1, <3>2, <3>3
  <2> QED BY <2>1, <2>2 DEF MessagesInv
<1>26. ViewInv'
  <2>1. ASSUME NEW d \in Docs PROVE Laid(d, v.docs[d], queue, c)
    <3>1. CASE d \in Changes
      <4>1. LET new == LocalDoc(d, queue, c)
                x == IF Waits(view.docs[d], new) THEN view.docs[d]
                     ELSE [value |-> new.value, local |-> new.local]
            IN  Laid(d, x, queue, c)
        <5>1. ~c[d].committed /\ view.docs[d] \in Shown
          BY <1>8, <1>10, <3>1
        <5> QED BY <1>8, <1>10, <5>1, ChangedLaid
      <4> QED BY <1>14, <3>1, <4>1
    <3>2. CASE d \notin Changes
      <4>1. c[d] = cache[d] /\ v.docs[d] = view.docs[d]
        BY <1>10, <1>14, <3>2
      <4>2. Laid(d, view.docs[d], queue, cache)
        BY DEF Inv, ViewInv
      <4> QED BY <4>1, <4>2 DEF Laid
    <3> QED BY <3>1, <3>2
  <2>2. ASSUME NEW d \in Docs PROVE Laid(d, view.docs[d], queue, cache)'
    <3>1. queue' = queue /\ cache' = c /\ view' = v
      BY <1>1, <1>2, <1>18
    <3> QED BY <2>1, <3>1 DEF Laid, LastValue, Mine
  <2> QED BY <1>18, <2>2 DEF ViewInv
<1>27. \A d \in Docs : /\ cache'[d].version \in Nat
                       /\ cache[d].version <= cache'[d].version
  BY <1>2, <1>8, <1>10
<1>28. IsActive(QueryTarget) => Knows(V)'
  <2> SUFFICES ASSUME IsActive(QueryTarget), NEW d \in Docs, Exists(d, V)'
               PROVE  ServerDoc(d, V)'.version <= cache'[d].version
    BY DEF Knows
  <2>1. Exists(d, V) /\ ServerDoc(d, V)' = ServerDoc(d, V)
    BY <1>9, <1>11, ExistsKept DEF Kept
  <2>2. ServerDoc(d, V).version <= c[d].version
    BY <1>1, <1>2, <1>6, <2>1, KnowsHeard
  <2> QED BY <1>2, <2>1, <2>2
<1>29. disk'.token \in 0..Now /\ Knows(disk.token)'
       /\ disk' \in [token : Nat, keys : SUBSET Docs]
  <2>1. CASE IsActive(QueryTarget)
             /\ disk' = [token |-> Heard.version, keys |-> SyncedAfter]
    <3>1. disk'.token = V
      BY <1>6, <2>1
    <3>2. Knows(disk.token)'
      BY <1>28, <2>1, <3>1
    <3> QED BY <1>8, <1>9, <1>13, <1>6, <2>1, <3>1, <3>2
  <2>2. CASE disk' = disk
    <3>1. PICK n : n = disk.token
      OBVIOUS
    <3>2. Knows(n)
      BY <3>1 DEF Inv, KnowInv
    <3>3. Knows(n)'
      BY <1>8, <1>11, <1>27, <3>1, <3>2, KnowsKept
    <3>4. disk'.token = n
      BY <2>2, <3>1
    <3>5. Knows(disk.token)'
      BY <3>3, <3>4
    <3> QED BY <1>8, <2>2, <3>5 DEF Inv, TypeOK
  <2> QED BY <1>1, <2>1, <2>2
<1>30. PICK n : n = QueryTarget'.token
  OBVIOUS
<1>31. n \in 0..Now /\ Knows(QueryTarget.token)'
  <2>1. Knows(n)' /\ n \in 0..Now
    <3>1. CASE IsActive(QueryTarget) /\ ~Mismatch
      BY <1>9, <1>19, <1>28, <1>30, <3>1
    <3>2. CASE IsActive(QueryTarget) /\ Mismatch
      <4>1. n = 0 /\ Knows(n)
        BY <1>8, <1>19, <1>30, <3>2, ExistingZero
      <4>2. n \in 0..Now
        BY <1>8, <4>1
      <4> QED BY <1>11, <1>27, <4>1, <4>2, KnowsKept
    <3>3. CASE ~IsActive(QueryTarget)
      <4>1. n = QueryTarget.token
        BY <1>19, <1>30, <3>3
      <4>2. n \in 0..Now /\ Knows(n)
        BY <1>8, <4>1 DEF Inv, KnowInv
      <4> QED BY <1>11, <1>27, <4>2, KnowsKept
    <3> QED BY <3>1, <3>2, <3>3
  <2> QED BY <1>30, <2>1
<1>32. ~keysLost' => (view.synced = Existing(QueryTarget.token))'
  <2> SUFFICES ASSUME ~keysLost
               PROVE  view'.synced = Existing(QueryTarget.token)'
    BY <1>1
  <2>1. view.synced = Existing(QueryTarget.token)
    BY DEF Inv, KnowInv
  <2>2. v.synced = Existing(n)
    <3>1. CASE IsActive(QueryTarget)
      <4>1. SyncedAfter = IF Mismatch THEN Existing(0) ELSE Existing(V)
        BY <1>1, <1>6, <2>1, <3>1, SyncedIs
      <4> QED BY <1>12, <1>19, <1>30, <3>1, <4>1
    <3>2. CASE ~IsActive(QueryTarget)
      <4>1. SyncedAfter = view.synced
        BY <3>2 DEF SyncedAfter
      <4>2. n = QueryTarget.token
        BY <1>19, <1>30, <3>2
      <4> QED BY <1>12, <2>1, <4>1, <4>2
    <3> QED BY <3>1, <3>2
  <2>3. Existing(n)' = Existing(n)
    BY <1>11, <1>31, ExistsKept
  <2>4. Existing(QueryTarget.token)' = Existing(n)'
    BY <1>30
  <2> QED BY <1>18, <2>2, <2>3, <2>4
<1>33. ASSUME view'.current, NEW d \in Docs,
              cache'[d].version > QueryTarget'.token, Settled(d)'
       PROVE  /\ ~cache'[d].committed
              /\ d \notin view'.synced
              /\ \A i \in (QueryTarget'.token + 1)..cache'[d].version :
                    ~IsOwn(d, i)'
  <2>1. c[d].version > n /\ v.current
    BY <1>2, <1>18, <1>30, <1>33
  <2>2. c[d].version <= V
    BY <1>24, <1>33
  <2>3. ~IsActive(QueryTarget)
    <3> SUFFICES ASSUME IsActive(QueryTarget) PROVE FALSE
      OBVIOUS
    <3>1. n = V
      BY <1>12, <1>19, <1>30, <2>1
    <3>2. c[d].version \in Nat /\ V \in Nat
      BY <1>8, <1>9, <1>10
    <3> QED BY <2>1, <2>2, <3>1, <3>2
  <2>4. /\ n = QueryTarget.token /\ v.synced = view.synced /\ view.current
    BY <1>12, <1>19, <1>30, <2>1, <2>3 DEF SyncedAfter
  <2>5. \A e \in Docs :
           cache[e].version > QueryTarget.token /\ Settled(e) =>
              /\ ~cache[e].committed
              /\ e \notin view.synced
              /\ \A i \in (QueryTarget.token + 1)..cache[e].version :
                    ~IsOwn(e, i)
    BY <2>4 DEF Inv, KnowInv
  <2>6. /\ ~c[d].committed /\ d \notin view.synced
        /\ \A i \in (n + 1)..c[d].version : ~IsOwn(d, i)
    <3>1. CASE d \notin Changes
      <4>1. Settled(d) /\ c[d] = cache[d]
        BY <1>10, <1>24, <1>33, <3>1
      <4> QED BY <2>1, <2>4, <2>5, <4>1
    <3>2. CASE d \in Changes
      <4>1. d \in LimboDocs(targets)
        <5>1. d \in Told \/ d \in Deduced
          BY <1>10, <3>2
        <5>2. d \in Told => d \in LimboDocs(targets)
          BY <1>1, <2>3, ToldIs
        <5>3. d \in Deduced => d \in LimboDocs(targets)
          BY <1>1, DeducedIs
        <5> QED BY <5>1, <5>2, <5>3
      <4>2. d \in InLimbo(view)
        BY <2>4, <4>1 DEF Inv, ViewInv
      <4>3. /\ d \notin view.synced /\ view.docs[d].value # Nothing
            /\ ~view.docs[d].local
        BY <4>2 DEF InLimbo
      <4>4. Laid(d, view.docs[d], queue, cache)
        BY DEF Inv, ViewInv
      <4>5. Mine(d, queue) = {} /\ view.docs[d].value = cache[d].value
        BY <4>3, <4>4 DEF Laid
      <4>6. Settled(d)
        BY <4>3, <4>5 DEF Settled
      <4>7. ASSUME NEW i \in (n + 1)..c[d].version, IsOwn(d, i)
            PROVE  FALSE
        <5>1. i \in 1..Now
          BY <1>8, <1>10, <1>31
        <5>2. i <= cache[d].version
          BY <4>5, <4>7, <5>1 DEF Inv, OwnInv
        <5>3. cache[d].version \in Nat /\ n \in Nat
          BY <1>8, <1>31
        <5>4. i \in (n + 1)..cache[d].version /\ cache[d].version > n
          BY <5>1, <5>2, <5>3
        <5> QED BY <2>4, <2>5, <4>6, <4>7, <5>4
      <4> QED BY <1>10, <3>2, <4>3, <4>7
    <3> QED BY <3>1, <3>2
  <2>7. ASSUME NEW i \in (n + 1)..c[d].version
        PROVE  ~IsOwn(d, i)'
    <3>1. i \in 1..Now
      BY <1>8, <1>10, <1>31
    <3> QED BY <1>20, <2>6, <3>1
  <2> QED BY <1>2, <1>18, <1>30, <2>4, <2>6, <2>7
<1>34. KnowInv'
  <2>1. disk'.token <= Now'
    BY <1>8, <1>11, <1>29
  <2> QED BY <1>29, <1>31, <1>32, <1>33, <2>1 DEF KnowInv
<1>35. TypeOK'
  <2>1. TypeOK
    BY DEF Inv
  <2>2. /\ history' \in Seq(Change) /\ queue' \in Seq(Write)
        /\ acks' \in Seq(Nat)
        /\ writes' \in Nat /\ troubles' \in Nat /\ keysLost' \in BOOLEAN
        /\ online' \in {"unknown", "online", "offline"}
    BY <1>1, <1>8, <2>1 DEF TypeOK
  <2>3. cache' \in [Docs -> Cached] /\ view' \in View
    BY <1>2, <1>10, <1>15, <1>18
  <2>4. /\ targets' \in SUBSET Target /\ stream' \in Stream
        /\ lastLimbo' \in Nat /\ raised' \in BOOLEAN
        /\ shown' \in [Docs -> Value]
    BY <1>18
  <2> QED BY <1>29, <2>2, <2>3, <2>4 DEF TypeOK, Write
<1>36. Now' > 0
  BY <1>8, <1>11
<1>37. TargetsOK(targets, lastLimbo)' /\ StreamOK(stream, targets, lastLimbo)'
  BY <1>18
<1> QED
  BY <1>21, <1>22, <1>23, <1>25, <1>26, <1>34, <1>35, <1>36, <1>37 DEF Inv

-----------------------------------------------------------------------------
(* The invariant holds *)

\* At the start there is one document, which the phone does not know of.
LEMMA InitInv ==
    ASSUME Init
    PROVE  Inv
<1> DEFINE first == [doc |-> CHOOSE d \in Docs : TRUE, value |-> MaxWrites + 1,
                     own |-> FALSE]
           T == [id |-> Query, token |-> 0, received |-> FALSE, responses |-> 0]
           c == [version |-> 0, value |-> Nothing, committed |-> FALSE]
           x == [value |-> Nothing, local |-> FALSE]
<1>1. /\ history = <<first>> /\ stream = Closed /\ acks = <<>> /\ queue = <<>>
      /\ cache = [d \in Docs |-> c]
      /\ disk = [token |-> 0, keys |-> {}]
      /\ targets = {T} /\ lastLimbo = 0
      /\ view = [docs |-> [d \in Docs |-> x], synced |-> {}, current |-> FALSE]
      /\ online = "unknown" /\ raised = FALSE
      /\ shown = [d \in Docs |-> Nothing]
      /\ writes = 0 /\ troubles = 0 /\ keysLost = FALSE
  BY DEF Init
<1>2. first \in Change /\ first.own = FALSE
  <2>1. (CHOOSE d \in Docs : TRUE) \in Docs
    BY ConstantsType
  <2>2. MaxWrites + 1 \in Value
    BY ListenerBoundsAssumption DEF Value
  <2> QED BY <2>1, <2>2 DEF Change
<1>3. T \in Target /\ T.id = Query /\ T.token = 0 /\ T.responses = 0
  BY QueryType DEF Target
<1>4. c \in Cached /\ c.version = 0 /\ c.value = Nothing /\ c.committed = FALSE
  BY DEF Cached, Value
<1>5. x \in Shown /\ x.value = Nothing /\ x.local = FALSE
  BY DEF Shown, Value
<1> HIDE DEF first, T, c, x
<1>6. history \in Seq(Change) /\ Now = 1 /\ history[1] = first
  BY <1>1, <1>2 DEF Now
<1>7. /\ cache \in [Docs -> Cached] /\ \A d \in Docs : cache[d] = c
      /\ view.docs = [d \in Docs |-> x] /\ view.synced = {}
      /\ view.current = FALSE
      /\ view \in View
  BY <1>1, <1>4, <1>5 DEF View, Shown
<1>8. /\ acks \in Seq(Nat) /\ queue \in Seq(Write)
      /\ Len(acks) = 0 /\ Len(queue) = 0
  BY <1>1, EmptySeq
<1>9. PICK ts : ts = {T}
  OBVIOUS
<1>10. TargetsOK(ts, 0) /\ StreamOK(Closed, ts, 0) /\ Snapshots(Closed) = {}
  <2>1. ts \in SUBSET Target /\ IsFiniteSet(ts) /\ \A t \in ts : t = T
    BY <1>3, <1>9, FS_Singleton
  <2>2. TargetsOK(ts, 0)
    BY <1>3, <1>6, <1>9, <2>1 DEF TargetsOK
  <2> QED BY <1>3, <2>1, <2>2, ClosedOK
<1>11. TargetsOK(targets, lastLimbo) /\ StreamOK(stream, targets, lastLimbo)
  BY <1>1, <1>9, <1>10
<1>12. QueryTarget.token = 0
  <2>1. QueryTarget \in targets
    BY <1>11, QueryTargetIs DEF QueryTarget
  <2> QED BY <1>1, <1>3, <2>1
<1>13. AcksInv
  BY <1>8 DEF AcksInv
<1>14. OwnInv
  <2>1. \A d \in Docs : \A i \in 1..Now : ~IsOwn(d, i)
    BY <1>2, <1>6 DEF IsOwn
  <2> QED BY <2>1 DEF OwnInv
<1>15. Existing(0) = {} /\ Knows(0)
  BY <1>6, ExistingZero
<1>16. CacheInv
  <2>1. \A d \in Docs : ServerDoc(d, 0).value = Nothing
    BY <1>15 DEF Existing, Exists
  <2> QED BY <1>4, <1>6, <1>7, <2>1 DEF CacheInv
<1>17. MessagesInv
  BY <1>1, <1>10 DEF MessagesInv
<1>18. ViewInv
  <2>1. \A d \in Docs : Mine(d, queue) = {}
    BY <1>1, <1>8 DEF Mine
  <2>2. \A d \in Docs : view.docs[d] = x
    BY <1>7
  <2>3. \A d \in Docs : Laid(d, view.docs[d], queue, cache)
    BY <1>4, <1>5, <1>7, <2>1, <2>2 DEF Laid
  <2> QED BY <1>1, <1>7, <2>3 DEF ViewInv, IsSynced
<1>19. KnowInv
  BY <1>1, <1>6, <1>7, <1>12, <1>15 DEF KnowInv
<1>20. TypeOK
  <2>1. disk \in [token : Nat, keys : SUBSET Docs] /\ shown \in [Docs -> Value]
    BY <1>1 DEF Value
  <2>2. targets \in SUBSET Target /\ stream \in Stream
    BY <1>11 DEF TargetsOK, StreamOK
  <2> QED BY <1>1, <1>6, <1>7, <1>8, <2>1, <2>2 DEF TypeOK, Write
<1> QED
  BY <1>6, <1>11, <1>13, <1>14, <1>16, <1>17, <1>18, <1>19, <1>20 DEF Inv

\* A step that changes nothing.
LEMMA StutterInv ==
    ASSUME Inv, UNCHANGED vars
    PROVE  Inv'
<1>1. /\ UNCHANGED <<history, acks, queue, cache, disk, writes, keysLost,
                     lastLimbo>>
      /\ UNCHANGED <<stream, targets, view, online, raised, shown, troubles>>
  BY DEF vars
<1>2. Kept
  BY <1>1, InvTypes, SameKept
<1>3. /\ TargetsOK(targets, lastLimbo)'
      /\ StreamOK(stream, targets, lastLimbo)'
  BY <1>1, <1>2, OrderKept DEF Inv
<1>4. /\ troubles' \in Nat /\ online' \in {"unknown", "online", "offline"}
      /\ view' \in View /\ raised' \in BOOLEAN /\ shown' \in [Docs -> Value]
  BY <1>1 DEF Inv, TypeOK
<1>5. /\ raised' => shown' = Values(view')
      /\ IsSynced(view', targets') => raised'
      /\ LimboDocs(targets') = LimboDocs(targets)
  BY <1>1 DEF Inv, ViewInv
<1>6. QueryTarget'.token = QueryTarget.token
  BY <1>1 DEF QueryTarget
<1>7. \A k \in Snapshots(stream') :
         \E j \in Snapshots(stream) : stream'.down[k] = stream.down[j]
  BY <1>1
<1>8. view'.docs = view.docs /\ view'.synced = view.synced
      /\ view'.current => view.current
  BY <1>1
<1> QED BY <1>1, <1>3, <1>4, <1>5, <1>6, <1>7, <1>8, NetworkKeeps

\* Every step keeps the invariant.
LEMMA NextInv ==
    ASSUME Inv, [Next]_vars
    PROVE  Inv'
<1>1. CASE Others
  <2>1. PICK d \in Docs, value \in {Nothing, MaxWrites + 1 + Now} :
           OtherWrites(d, value)
    BY <1>1 DEF Others
  <2>2. value \in Value
    BY InvTypes, ListenerBoundsAssumption DEF Value
  <2> QED BY <2>1, <2>2, OtherWritesInv
<1>2. CASE App
  <2>1. PICK d \in Docs, value \in {Nothing, writes + 1} :
           WriteLocally(d, value)
    BY <1>2 DEF App
  <2>2. writes \in Nat
    BY DEF Inv, TypeOK
  <2>3. value \in Value
    BY <2>2 DEF Value
  <2> QED BY <2>1, <2>3, WriteLocallyInv
<1>3. CASE Server
  BY <1>3, AnswerInv, TellInv DEF Server
<1>4. CASE Phone
  BY <1>4, OpenInv, HandleAnswerInv, HandleSnapshotInv DEF Phone
<1>5. CASE Writing
  BY <1>5, ApplyWriteInv, HandleSuccessfulWriteInv DEF Writing
<1>6. CASE LoseAcks
  BY <1>6, LoseAcksInv
<1>7. CASE WatchStreamFails \/ RestartNetwork
  BY <1>7, CloseInv
<1>8. CASE OnlineStateTimeout
  BY <1>8, TimeoutInv
<1>9. CASE Kill
  BY <1>9, KillInv
<1>10. CASE UNCHANGED vars
  BY <1>10, StutterInv
<1> QED
  BY <1>1, <1>2, <1>3, <1>4, <1>5, <1>6, <1>7, <1>8, <1>9, <1>10 DEF Next

-----------------------------------------------------------------------------
(* What the listener shows *)

\* While the query is synced, what is shown of a document is what the invariant
\* says of it: the phone's last write; what was acknowledged and is held back;
\* what is cached; or nothing, where it was in limbo and is gone.
LEMMA InvShown ==
    ASSUME Inv
    PROVE  ShownIsServer
<1> SUFFICES ASSUME IsSynced(view, targets), ~keysLost, NEW d \in Docs
             PROVE  \/ shown[d] = Expected(d, QueryTarget.token)
                    \/ PassedBy(d)
  BY DEF ShownIsServer
<1>1. PICK v : v = QueryTarget.token
  OBVIOUS
<1>2. PICK c : c = cache[d]
  OBVIOUS
<1>3. PICK x : x = view.docs[d]
  OBVIOUS
<1>4. /\ history \in Seq(Change) /\ Now \in Nat
      /\ v \in 0..Now /\ c.version \in 0..Now
      /\ queue \in Seq(Write) /\ cache \in [Docs -> Cached]
  BY <1>1, <1>2, InvTypes
<1>5. /\ shown[d] = x.value
      /\ view.current /\ InLimbo(view) = {}
  BY <1>3 DEF Inv, ViewInv, IsSynced, Values
<1>6. view.synced = Existing(v) /\ Knows(v)
  BY <1>1 DEF Inv, KnowInv
<1>7. d \in view.synced \/ x.value = Nothing \/ x.local
  BY <1>3, <1>5 DEF InLimbo
<1>8. Laid(d, x, queue, cache)
  BY <1>3 DEF Inv, ViewInv
<1>9. CASE Mine(d, queue) # {}
  BY <1>1, <1>5, <1>8, <1>9 DEF Laid, LastValue, Expected
<1>10. CASE Mine(d, queue) = {}
  <2> DEFINE newer == {i \in (v + 1)..Now : history[i].doc = d
                                             /\ history[i].own}
  <2>1. /\ x.value = c.value
        /\ x.local => c.committed /\ c.value # Nothing
    BY <1>2, <1>8, <1>10 DEF Laid
  <2>2. \A i \in 1..Now : IsOwn(d, i) => i <= c.version
    BY <1>2, <1>10 DEF Inv, OwnInv
  <2>3. /\ c.value = ServerDoc(d, c.version).value
        /\ c.committed => c.version > 0 /\ IsOwn(d, c.version)
    BY <1>2 DEF Inv, CacheInv
  <2>4. Expected(d, v) = IF newer # {} THEN history[LastOf(newer)].value
                         ELSE ServerDoc(d, v).value
    BY <1>10 DEF Expected
  <2>5. \A i \in newer : /\ i \in 1..Now /\ i \in (v + 1)..Now
                         /\ IsOwn(d, i) /\ i <= c.version
    <3>1. \A i \in newer : i \in 1..Now /\ i \in (v + 1)..Now /\ IsOwn(d, i)
      BY <1>4 DEF IsOwn
    <3> QED BY <2>2, <3>1
  <2>6. ASSUME newer = {}, x.value = ServerDoc(d, v).value
        PROVE  shown[d] = Expected(d, QueryTarget.token)
    BY <1>1, <1>5, <2>4, <2>6
  <2>7. d \notin view.synced => ServerDoc(d, v).value = Nothing
    BY <1>6 DEF Existing, Exists
  <2>8. CASE c.version > v /\ c.committed
    <3>1. c.version \in newer
      BY <1>4, <2>3, <2>8 DEF IsOwn
    <3> HIDE DEF newer
    <3>2. LastOf(newer) = c.version
      <4>1. newer \in SUBSET Nat
        BY <1>4, <2>5
      <4> QED BY <2>5, <3>1, <4>1, LastOfIs
    <3>3. ServerDoc(d, c.version).value = history[c.version].value
      <4>1. PICK n : n = c.version
        OBVIOUS
      <4>2. n \in 0..Now /\ n \in 0..n /\ n > 0 /\ history[n].doc = d
        <5>1. n > 0 /\ IsOwn(d, n)
          BY <2>3, <2>8, <4>1
        <5>2. n \in 0..Now
          BY <1>4, <4>1
        <5> QED BY <5>1, <5>2 DEF IsOwn
      <4>3. \A j \in (n + 1)..n : history[j].doc # d
        BY <4>2
      <4>4. ServerDoc(d, n) = [version |-> n,
                               value |-> IF n = 0 THEN Nothing
                                         ELSE history[n].value]
        BY <1>4, <4>2, <4>3, ServerDocAt
      <4> QED BY <4>1, <4>2, <4>4
    <3> QED BY <1>1, <1>5, <2>1, <2>3, <2>4, <3>1, <3>2, <3>3
  <2>9. CASE c.version > v /\ ~c.committed
    <3>1. Settled(d)
      BY <1>2, <2>9 DEF Settled
    <3>2. /\ d \notin view.synced
          /\ \A i \in (v + 1)..c.version : ~IsOwn(d, i)
      BY <1>1, <1>2, <1>5, <2>9, <3>1 DEF Inv, KnowInv
    <3>3. newer = {}
      <4>1. \A i \in newer : i \in (v + 1)..c.version
        BY <1>4, <2>5
      <4> QED BY <2>5, <3>2, <4>1
    <3>4. x.value = Nothing
      BY <1>7, <2>1, <2>9, <3>2
    <3> QED BY <2>6, <2>7, <3>2, <3>3, <3>4
  <2>10. CASE c.version <= v
    <3>1. newer = {}
      <4>1. \A i \in newer : i > v /\ i <= v
        BY <1>4, <2>5, <2>10
      <4> QED BY <1>4, <2>5, <4>1
    <3>2. CASE x.local
      <4>1. LET new == LocalDoc(d, queue, cache)
            IN  /\ new.value = cache[d].value /\ new.local = FALSE
                /\ new.committed = cache[d].committed
        BY <1>4, <1>10, LocalDocIs
      <4>2. Waits(view.docs[d], LocalDoc(d, queue, cache))
        BY <1>2, <1>3, <2>1, <3>2, <4>1 DEF Waits
      <4> QED BY <1>1, <1>2, <2>10, <4>2 DEF PassedBy
    <3>3. CASE ~x.local /\ d \notin view.synced
      BY <1>7, <2>6, <2>7, <3>1, <3>3
    <3>4. CASE ~x.local /\ d \in view.synced
      <4>1. Exists(d, v)
        BY <1>6, <3>4 DEF Existing
      <4>2. ServerDoc(d, v).version <= c.version
        BY <1>2, <1>6, <4>1 DEF Knows
      <4>3. c.version \in 0..v
        BY <1>4, <2>10
      <4>4. ServerDoc(d, v) = ServerDoc(d, c.version)
        BY <1>4, <4>2, <4>3, ServerDocSame
      <4> QED BY <2>1, <2>3, <2>6, <3>1, <4>4
    <3> QED BY <3>2, <3>3, <3>4
  <2>11. c.version > v \/ c.version <= v
    BY <1>4
  <2> QED BY <2>8, <2>9, <2>10, <2>11
<1> QED BY <1>9, <1>10

-----------------------------------------------------------------------------
(* Theorems *)

\* All variables keep their types: in particular the phone never waits for fewer
\* answers than none.
THEOREM TypeCorrect == Spec => []TypeOK
<1>1. Init => Inv
  BY InitInv
<1>2. Inv /\ [Next]_vars => Inv'
  BY NextInv
<1>3. Inv => TypeOK
  BY DEF Inv
<1> QED BY <1>1, <1>2, <1>3, PTL DEF Spec

\* While the query is synced, the listener shows one version of the server under
\* the phone's own writes: whichever of the two streams is faster, whatever is
\* lost on them and however often the app is killed, as long as it was not
\* launched with keys that are not those of its resume token.
THEOREM ShownCorrect == Spec => []ShownIsServer
<1>1. Init => Inv
  BY InitInv
<1>2. Inv /\ [Next]_vars => Inv'
  BY NextInv
<1>3. Inv => ShownIsServer
  BY InvShown
<1> QED BY <1>1, <1>2, <1>3, PTL DEF Spec

\* The query's keys are those of its token (KeysMatchToken), through broken
\* streams, mismatches and new starts, until the app is launched with others.
THEOREM KeysKept == Spec => [](keysLost \/ KeysMatchToken)
<1>1. Inv => keysLost \/ KeysMatchToken
  BY DEF Inv, KnowInv, KeysMatchToken, Existing
<1> QED BY <1>1, InitInv, NextInv, PTL DEF Spec
=============================================================================
