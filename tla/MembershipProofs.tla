------------------------- MODULE MembershipProofs -------------------------
(***************************************************************************)
(* Theorems about Membership for every set of users, teams and bounds, in  *)
(* three parts.                                                            *)
(*                                                                         *)
(* Types.                                                                  *)
(*                                                                         *)
(* References: user documents on the server only name teams that are on    *)
(* the server.  The argument is about the order of writes.  A client that  *)
(* puts a team id in a user document either read it from the server or     *)
(* wrote the team itself, and then the team is earlier in its mutation     *)
(* queue; the queue is sent in order and survives a crash.  Team documents *)
(* are never deleted.  The inductive invariant is RefInv.                  *)
(*                                                                         *)
(* Roles: who has which role in a team, as long as users let a screen load *)
(* before they move on.  Lists are overwritten as a whole, by admins and   *)
(* by those who join, from copies that may be stale.  What makes every     *)
(* copy good nevertheless is that each is edited on a screen whose rows    *)
(* are the lists of the copy, by somebody who is an admin in the copy and  *)
(* cannot act on their own row.  The inductive invariant is RoleInv.       *)
(***************************************************************************)
EXTENDS Membership, ListLemmas

-----------------------------------------------------------------------------
(* Types *)

\* What a query record carries, by its kind.
LEMMA RequestFields ==
    ASSUME NEW r \in Request
    PROVE  /\ r.op = "fetchTeams" => r.ids \in Seq(Teams)
           /\ r.op = "replaceTeams" => r.docs \in [Teams -> TeamDoc \cup {NoDoc}]
           /\ r.op = "upload" => r.team \in Teams /\ r.code \in Codes
           /\ r.op = "join" => r.code \in Codes
           /\ r.op = "joinFound" => r.team \in Teams /\ r.doc \in TeamDoc
           /\ r.op = "addTeam" => r.team \in Teams
           /\ r.op = "addTeamFound" => r.team \in Teams /\ r.ids \in Seq(Teams)
           /\ r.op = "block" => r.team \in Teams /\ r.user \in Users
           /\ r.op = "blockFound" => /\ r.team \in Teams /\ r.user \in Users
                                     /\ r.ids \in Seq(Teams)
BY DEF Request

LEMMA RequestType ==
    /\ Idle \in Request
    /\ [op |-> "home"] \in Request
    /\ \A ids \in Seq(Teams) : [op |-> "fetchTeams", ids |-> ids] \in Request
    /\ \A docs \in [Teams -> TeamDoc \cup {NoDoc}] :
          [op |-> "replaceTeams", docs |-> docs] \in Request
    /\ \A t \in Teams, k \in Codes :
          [op |-> "upload", team |-> t, code |-> k] \in Request
    /\ \A k \in Codes : [op |-> "join", code |-> k] \in Request
    /\ \A t \in Teams : [op |-> "addTeam", team |-> t] \in Request
    /\ \A t \in Teams, d \in TeamDoc :
          [op |-> "joinFound", team |-> t, doc |-> d] \in Request
    /\ \A t \in Teams, ids \in Seq(Teams) :
          [op |-> "addTeamFound", team |-> t, ids |-> ids] \in Request
    /\ \A t \in Teams, u \in Users :
          [op |-> "block", team |-> t, user |-> u] \in Request
    /\ \A t \in Teams, u \in Users, ids \in Seq(Teams) :
          [op |-> "blockFound", team |-> t, user |-> u, ids |-> ids] \in Request
BY DEF Request, Idle

\* The newest pending write of a document is one of the queue's writes to it.
LEMMA LatestPending ==
    ASSUME NEW S, NEW q \in Seq(S), NEW col, NEW id, Pending(q, col, id) # {}
    PROVE  LET i == Latest(Pending(q, col, id))
           IN  i \in 1..Len(q) /\ q[i].col = col /\ q[i].id = id
<1>1. Pending(q, col, id) \in SUBSET (1..Len(q)) /\ Len(q) \in Nat
  BY DEF Pending
<1>2. Latest(Pending(q, col, id)) \in Pending(q, col, id)
  BY <1>1, LatestIsMax
<1> QED BY <1>1, <1>2 DEF Pending

LEMMA ViewType ==
    ASSUME TypeOK, NEW c \in Clients
    PROVE  /\ \A t \in Teams : TeamView(c, t) \in TeamDoc \cup {NoDoc}
           /\ \A u \in Users : UserTeams(c, u) \in Seq(Teams)
<1>1. queue[c] \in Seq(PendingWrite)
  BY DEF TypeOK
<1>2. ASSUME NEW t \in Teams
      PROVE  TeamView(c, t) \in TeamDoc \cup {NoDoc}
  <2>1. CASE Pending(queue[c], "teams", t) = {}
    BY <2>1 DEF TypeOK, TeamView, LocalView
  <2>2. CASE Pending(queue[c], "teams", t) # {}
    <3> DEFINE i == Latest(Pending(queue[c], "teams", t))
    <3>1. i \in 1..Len(queue[c]) /\ queue[c][i].col = "teams"
      BY <1>1, <2>2, LatestPending
    <3>2. queue[c][i] \in PendingWrite
      BY <1>1, <3>1
    <3>3. queue[c][i].doc \in TeamDoc
      BY <3>1, <3>2 DEF PendingWrite
    <3> QED BY <2>2, <3>3 DEF TeamView, LocalView
  <2> QED BY <2>1, <2>2
<1>3. ASSUME NEW u \in Users
      PROVE  UserTeams(c, u) \in Seq(Teams)
  <2>1. CASE Pending(queue[c], "users", u) = {}
    BY <2>1 DEF TypeOK, UserTeams, LocalView, UserDoc
  <2>2. CASE Pending(queue[c], "users", u) # {}
    <3> DEFINE i == Latest(Pending(queue[c], "users", u))
    <3>1. i \in 1..Len(queue[c]) /\ queue[c][i].col = "users"
      BY <1>1, <2>2, LatestPending
    <3>2. queue[c][i] \in PendingWrite
      BY <1>1, <3>1
    <3>3. queue[c][i].doc \in UserDoc
      BY <3>1, <3>2 DEF PendingWrite
    <3> QED BY <2>2, <3>3 DEF UserTeams, LocalView, UserDoc
  <2> QED BY <2>1, <2>2
<1> QED BY <1>2, <1>3

LEMMA LaunchType ==
    /\ LaunchCalls \in [Slots -> Request]
    /\ NoRows \in [Roles -> [Users -> Nat]]
BY RequestType DEF LaunchCalls, NoRows

LEMMA PutType ==
    ASSUME TypeOK, NEW c \in Clients, NEW s \in Slots, NEW r \in Request, Put(c, s, r)
    PROVE  call' \in [Clients -> [Slots -> Request]]
BY DEF TypeOK, Put

LEMMA AskType ==
    ASSUME TypeOK, NEW c \in Clients, NEW r \in Request, Ask(c, r)
    PROVE  call' \in [Clients -> [Slots -> Request]]
BY PutType DEF Ask

LEMMA EnqueueType ==
    ASSUME TypeOK, NEW c \in Clients, NEW w \in PendingWrite, Enqueue(c, w)
    PROVE  queue' \in [Clients -> Seq(PendingWrite)]
<1>1. Append(queue[c], w) \in Seq(PendingWrite)
  BY AppendProperties DEF TypeOK
<1> QED BY <1>1 DEF TypeOK, Enqueue

LEMMA WriteType ==
    /\ \A t \in Teams, d \in TeamDoc : Write("teams", t, d) \in PendingWrite
    /\ \A u \in Users, d \in UserDoc : Write("users", u, d) \in PendingWrite
BY DEF Write, PendingWrite

LEMMA RelaunchType ==
    ASSUME TypeOK, NEW c \in Clients, Relaunch(c), UNCHANGED <<teamDoc, userDoc, queue>>,
           edits' \in 0..MaxEdits
    PROVE  TypeOK'
BY LaunchType DEF TypeOK, Relaunch

\* A client with a screen of a team has that team open.
ScreenInv ==
    \A c \in Clients : screen[c] \in {"team", "manage"} =>
        open[c] \in Teams /\ copy[c] \in TeamDoc

LEMMA EditTeamType ==
    ASSUME TypeOK, ScreenInv, NEW c \in Clients, screen[c] = "manage",
           NEW d \in TeamDoc, EditTeam(c, d)
    PROVE  /\ queue' \in [Clients -> Seq(PendingWrite)]
           /\ teams' \in [Clients -> [Teams -> TeamDoc \cup {NoDoc}]]
           /\ copy' \in [Clients -> TeamDoc \cup {NoDoc}]
<1>1. open[c] \in Teams
  BY DEF ScreenInv
<1>2. Write("teams", open[c], d) \in PendingWrite
  BY <1>1, WriteType
<1>3. CASE teams[c][open[c]] = NoDoc
  BY <1>3 DEF EditTeam, TypeOK
<1>4. CASE teams[c][open[c]] # NoDoc
  <2>1. queue' \in [Clients -> Seq(PendingWrite)]
    BY <1>2, <1>4, EnqueueType DEF EditTeam
  <2>2. teams' \in [Clients -> [Teams -> TeamDoc \cup {NoDoc}]]
    <3>1. [teams[c] EXCEPT ![open[c]] = d] \in [Teams -> TeamDoc \cup {NoDoc}]
      BY <1>1 DEF TypeOK
    <3>2. teams' = [teams EXCEPT ![c] = [teams[c] EXCEPT ![open[c]] = d]]
      BY <1>4 DEF EditTeam
    <3> QED BY <3>1, <3>2 DEF TypeOK
  <2>3. copy' \in [Clients -> TeamDoc \cup {NoDoc}]
    BY <1>4 DEF EditTeam, TypeOK
  <2> QED BY <2>1, <2>2, <2>3
<1> QED BY <1>3, <1>4

\* The document after a row has moved.
LEMMA MovedDoc ==
    ASSUME NEW d \in TeamDoc, NEW u \in Users, NEW from \in Roles, NEW to \in Roles,
           from # to, d[from] # <<>>
    PROVE  /\ [d EXCEPT ![from] = RemoveLast(@, u), ![to] = Append(@, u)] \in TeamDoc
           /\ [d EXCEPT ![from] = RemoveLast(@, u)] \in TeamDoc
<1>1. /\ d["admins"] \in Seq(Users) /\ d["members"] \in Seq(Users)
      /\ d["blocked"] \in Seq(Users)
  BY DEF TeamDoc
<1>2. d[from] \in Seq(Users) /\ d[to] \in Seq(Users)
  BY <1>1 DEF Roles
<1>3. RemoveLast(d[from], u) \in Seq(Users) /\ Append(d[to], u) \in Seq(Users)
  BY <1>2, RemoveLastType, AppendProperties
<1> QED BY <1>3 DEF TeamDoc, Roles

LEMMA MoveRowType ==
    ASSUME TypeOK, ScreenInv, NEW c \in Clients, NEW u \in Users,
           NEW from \in Roles, NEW to \in Roles, from # to, MoveRow(c, u, from, to)
    PROVE  TypeOK' /\ ScreenInv'
<1>1. open[c] \in Teams /\ copy[c] \in TeamDoc /\ screen[c] = "manage"
  BY DEF MoveRow, ScreenInv
<1>2. edits' \in 0..MaxEdits
  BY BoundsAssumption DEF MoveRow, CountEdit, TypeOK
<1>3. CASE copy[c][from] = <<>>
  <2>1. Relaunch(c) /\ UNCHANGED <<teamDoc, userDoc, queue>>
    BY <1>3 DEF MoveRow
  <2>2. TypeOK'
    BY <1>2, <2>1, RelaunchType
  <2>3. ScreenInv'
    <3>1. screen'[c] = "home"
      BY <2>1 DEF Relaunch, TypeOK
    <3> QED BY <2>1, <3>1 DEF Relaunch, ScreenInv, TypeOK
  <2> QED BY <2>2, <2>3
<1>4. CASE copy[c][from] # <<>>
  <2> DEFINE d == [copy[c] EXCEPT ![from] = RemoveLast(@, u), ![to] = Append(@, u)]
  <2>1. d \in TeamDoc
    BY <1>1, <1>4, MovedDoc
  <2>2. EditTeam(c, d)
    BY <1>4 DEF MoveRow
  <2> HIDE DEF d
  <2>3. /\ queue' \in [Clients -> Seq(PendingWrite)]
        /\ teams' \in [Clients -> [Teams -> TeamDoc \cup {NoDoc}]]
        /\ copy' \in [Clients -> TeamDoc \cup {NoDoc}]
    BY <1>1, <2>1, <2>2, EditTeamType
  <2>4. call' \in [Clients -> [Slots -> Request]]
    BY <1>1, <1>4, AskType, RequestType DEF MoveRow, TypeOK
  <2>5. listed' \in [Clients -> [Roles -> [Users -> Nat]]]
    <3> DEFINE L1 == [listed EXCEPT ![c][from][u] = @ - 1]
    <3>1. listed[c][from][u] \in Nat /\ listed[c][from][u] > 0
      BY DEF MoveRow, TypeOK
    <3>2. L1 \in [Clients -> [Roles -> [Users -> Nat]]]
      BY <3>1 DEF TypeOK
    <3>3. listed' = [L1 EXCEPT ![c][to][u] = @ + 1]
      BY <1>4 DEF MoveRow
    <3> HIDE DEF L1
    <3> QED BY <3>2, <3>3
  <2>6. UNCHANGED <<teamDoc, userDoc, open, isAdmin, screen, loading, crashes>>
    BY <1>4 DEF MoveRow
  <2>7. TypeOK'
    BY <1>2, <2>3, <2>4, <2>5, <2>6 DEF TypeOK
  <2>8. copy'[c] \in TeamDoc /\ \A e \in Clients \ {c} : copy'[e] = copy[e]
    BY <1>1, <2>1, <2>2 DEF EditTeam, TypeOK
  <2> QED BY <2>6, <2>7, <2>8 DEF ScreenInv
<1> QED BY <1>3, <1>4

LEMMA NewTeamType ==
    ASSUME TypeOK, NEW c \in Clients, NEW t \in Teams, NEW k \in Codes, NewTeam(c, t, k)
    PROVE  /\ queue' \in [Clients -> Seq(PendingWrite)]
           /\ teams' \in [Clients -> [Teams -> TeamDoc \cup {NoDoc}]]
<1> DEFINE d == [admins |-> <<c>>, members |-> <<>>, blocked |-> <<>>, code |-> k]
<1>1. <<c>> \in Seq(Users) /\ <<>> \in Seq(Users)
  BY ClientsAssumption
<1>2. d \in TeamDoc
  BY <1>1 DEF TeamDoc
<1>3. Enqueue(c, Write("teams", t, d)) /\ teams' = [teams EXCEPT ![c][t] = d]
  BY DEF NewTeam
<1> HIDE DEF d
<1>4. queue' \in [Clients -> Seq(PendingWrite)]
  BY <1>2, <1>3, EnqueueType, WriteType
<1>5. teams' \in [Clients -> [Teams -> TeamDoc \cup {NoDoc}]]
  BY <1>2, <1>3 DEF TypeOK
<1> QED BY <1>4, <1>5

LEMMA UnblockType ==
    ASSUME TypeOK, ScreenInv, NEW c \in Clients, NEW u \in Users, Unblock(c, u)
    PROVE  TypeOK' /\ ScreenInv'
<1>1. open[c] \in Teams /\ copy[c] \in TeamDoc /\ screen[c] = "manage"
  BY DEF Unblock, ScreenInv
<1>2. edits' \in 0..MaxEdits
  BY BoundsAssumption DEF Unblock, CountEdit, TypeOK
<1>3. CASE copy[c].blocked = <<>>
  <2>1. Relaunch(c) /\ UNCHANGED <<teamDoc, userDoc, queue>>
    BY <1>3 DEF Unblock
  <2>2. TypeOK'
    BY <1>2, <2>1, RelaunchType
  <2> QED BY <2>1, <2>2 DEF Relaunch, ScreenInv, TypeOK
<1>4. CASE copy[c].blocked # <<>>
  <2> DEFINE d == [copy[c] EXCEPT !.blocked = RemoveLast(@, u)]
  <2>1. d \in TeamDoc
    BY <1>1, <1>4, MovedDoc DEF Roles
  <2>2. EditTeam(c, d)
    BY <1>4 DEF Unblock
  <2> HIDE DEF d
  <2>3. /\ queue' \in [Clients -> Seq(PendingWrite)]
        /\ teams' \in [Clients -> [Teams -> TeamDoc \cup {NoDoc}]]
        /\ copy' \in [Clients -> TeamDoc \cup {NoDoc}]
    BY <1>1, <2>1, <2>2, EditTeamType
  <2>4. listed' \in [Clients -> [Roles -> [Users -> Nat]]]
    <3>1. "blocked" \in Roles
      BY DEF Roles
    <3>2. listed[c]["blocked"][u] \in Nat /\ listed[c]["blocked"][u] > 0
      BY <3>1 DEF Unblock, TypeOK
    <3>3. listed' = [listed EXCEPT ![c]["blocked"][u] = @ - 1]
      BY <1>4 DEF Unblock
    <3>4. listed \in [Clients -> [Roles -> [Users -> Nat]]]
      BY DEF TypeOK
    <3> QED BY <3>1, <3>2, <3>3, <3>4
  <2>5. UNCHANGED <<teamDoc, userDoc, call, open, isAdmin, screen, loading, crashes>>
    BY <1>4 DEF Unblock
  <2>6. TypeOK'
    BY <1>2, <2>3, <2>4, <2>5 DEF TypeOK
  <2>7. copy'[c] \in TeamDoc /\ \A e \in Clients \ {c} : copy'[e] = copy[e]
    BY <1>1, <2>1, <2>2 DEF EditTeam, TypeOK
  <2> QED BY <2>5, <2>6, <2>7 DEF ScreenInv
<1> QED BY <1>3, <1>4

\* What the phone does on its own keeps the types.
LEMMA RespondType ==
    ASSUME TypeOK, NEW c \in Clients, NEW s \in Slots, Respond(c, s)
    PROVE  TypeOK' /\ (UNCHANGED <<screen, open, copy>> \/ Relaunch(c))
<1> DEFINE r == call[c][s]
<1>1. r \in Request
  BY DEF TypeOK
<1>2. CASE FetchTeams(c, s)
  <2>1. call' \in [Clients -> [Slots -> Request]]
    BY <1>2, PutType, RequestType, ViewType, ClientsAssumption DEF FetchTeams
  <2> QED BY <1>2, <2>1 DEF FetchTeams, TypeOK, appVars
<1>3. CASE AnswerTeams(c, s)
  <2>1. \A ids : [t \in Teams |-> IF t \in ids THEN TeamView(c, t) ELSE NoDoc]
                    \in [Teams -> TeamDoc \cup {NoDoc}]
    BY ViewType
  <2>2. call' \in [Clients -> [Slots -> Request]]
    BY <1>3, <2>1, PutType, RequestType DEF AnswerTeams
  <2> QED BY <1>3, <2>2 DEF AnswerTeams, TypeOK, appVars
<1>4. CASE ReplaceTeams(c, s)
  <2>1. call' \in [Clients -> [Slots -> Request]]
    BY <1>4, PutType, RequestType DEF ReplaceTeams
  <2>2. teams' \in [Clients -> [Teams -> TeamDoc \cup {NoDoc}]]
    BY <1>1, <1>4, RequestFields DEF ReplaceTeams, TypeOK
  <2> QED BY <1>4, <2>1, <2>2 DEF ReplaceTeams, TypeOK
<1>5. CASE AnswerJoin(c, s)
  <2>1. \A t \in TeamsWithCode(c, r.code) : t \in Teams /\ TeamView(c, t) \in TeamDoc
    BY ViewType DEF TeamsWithCode
  <2>2. call' \in [Clients -> [Slots -> Request]]
    BY <1>5, <2>1, PutType, RequestType DEF AnswerJoin
  <2> QED BY <1>5, <2>2 DEF AnswerJoin, TypeOK, appVars
<1>6. CASE FinishJoin(c, s)
  <2>1. r.team \in Teams /\ r.doc \in TeamDoc
    BY <1>1, <1>6, RequestFields DEF FinishJoin
  <2>2. Append(r.doc.members, c) \in Seq(Users)
    BY <2>1, ClientsAssumption, AppendProperties DEF TeamDoc
  <2>3. [r.doc EXCEPT !.members = Append(@, c)] \in TeamDoc
    BY <2>1, <2>2 DEF TeamDoc
  <2>4. call' \in [Clients -> [Slots -> Request]]
    BY <1>6, <2>1, PutType, RequestType DEF FinishJoin
  <2>5. queue' \in [Clients -> Seq(PendingWrite)]
    BY <1>6, <2>1, <2>3, EnqueueType, WriteType DEF FinishJoin, TypeOK
  <2> QED BY <1>6, <2>4, <2>5 DEF FinishJoin, TypeOK, appVars
<1>7. CASE AnswerAddTeam(c, s)
  <2>1. r.team \in Teams /\ UserTeams(c, c) \in Seq(Teams)
    BY <1>1, <1>7, RequestFields, ViewType, ClientsAssumption DEF AnswerAddTeam
  <2>2. call' \in [Clients -> [Slots -> Request]]
    BY <1>7, <2>1, PutType, RequestType DEF AnswerAddTeam
  <2> QED BY <1>7, <2>2 DEF AnswerAddTeam, TypeOK, appVars
<1>8. CASE AddTeamToUser(c, s)
  <2>1. r.team \in Teams /\ r.ids \in Seq(Teams)
    BY <1>1, <1>8, RequestFields DEF AddTeamToUser
  <2>2. [teams |-> Append(r.ids, r.team)] \in UserDoc
    BY <2>1, AppendProperties DEF UserDoc
  <2>3. queue' \in [Clients -> Seq(PendingWrite)]
    BY <1>8, <2>2, EnqueueType, WriteType, ClientsAssumption DEF AddTeamToUser
  <2>4. call' \in [Clients -> [Slots -> Request]]
    BY <1>8, PutType, RequestType DEF AddTeamToUser
  <2> QED BY <1>8, <2>3, <2>4 DEF AddTeamToUser, TypeOK, appVars
<1>9. CASE AnswerBlock(c, s)
  <2>1. r.team \in Teams /\ r.user \in Users /\ UserTeams(c, r.user) \in Seq(Teams)
    BY <1>1, <1>9, RequestFields, ViewType DEF AnswerBlock
  <2>2. call' \in [Clients -> [Slots -> Request]]
    BY <1>9, <2>1, PutType, RequestType DEF AnswerBlock
  <2> QED BY <1>9, <2>2 DEF AnswerBlock, TypeOK, appVars
<1>10. CASE BlockUserFromTeam(c, s)
  <2>1. r.team \in Teams /\ r.user \in Users /\ r.ids \in Seq(Teams)
    BY <1>1, <1>10, RequestFields DEF BlockUserFromTeam
  <2>2. CASE r.ids = <<>>
    <3>1. Relaunch(c) /\ UNCHANGED <<teamDoc, userDoc, queue, edits>>
      BY <1>10, <2>2 DEF BlockUserFromTeam
    <3>2. edits' \in 0..MaxEdits
      BY <3>1 DEF TypeOK
    <3> QED BY <3>1, <3>2, RelaunchType
  <2>3. CASE r.ids # <<>>
    <3>1. [teams |-> RemoveLast(r.ids, r.team)] \in UserDoc
      BY <2>1, <2>3, RemoveLastType DEF UserDoc
    <3>2. queue' \in [Clients -> Seq(PendingWrite)]
      BY <1>10, <2>1, <2>3, <3>1, EnqueueType, WriteType DEF BlockUserFromTeam
    <3>3. call' \in [Clients -> [Slots -> Request]]
      BY <1>10, <2>3, PutType, RequestType DEF BlockUserFromTeam
    <3> QED BY <1>10, <2>3, <3>2, <3>3 DEF BlockUserFromTeam, TypeOK, appVars
  <2> QED BY <2>2, <2>3
<1>11. CASE PhotoStored(c, s)
  <2>1. r.team \in Teams /\ r.code \in Codes
    BY <1>1, <1>11, RequestFields DEF PhotoStored
  <2>2. call' \in [Clients -> [Slots -> Request]]
    BY <1>11, <2>1, PutType, RequestType DEF PhotoStored
  <2>3. /\ queue' \in [Clients -> Seq(PendingWrite)]
        /\ teams' \in [Clients -> [Teams -> TeamDoc \cup {NoDoc}]]
    BY <1>11, <2>1, NewTeamType DEF PhotoStored
  <2> QED BY <1>11, <2>2, <2>3 DEF PhotoStored, TypeOK
<1> QED BY <1>2, <1>3, <1>4, <1>5, <1>6, <1>7, <1>8, <1>9, <1>10, <1>11 DEF Respond

\* What the user does keeps the types.
LEMMA TapType ==
    ASSUME TypeOK, ScreenInv, NEW c \in Clients, Tap(c)
    PROVE  TypeOK' /\ ScreenInv'
<1> USE DEF ScreenInv
<1>1. CASE HomeAppear(c)
  <2>1. call' \in [Clients -> [Slots -> Request]]
    BY <1>1, AskType, RequestType DEF HomeAppear
  <2>2. TypeOK'
    BY <1>1, <2>1 DEF HomeAppear, TypeOK
  <2> QED BY <1>1, <2>2 DEF HomeAppear, TypeOK
<1>2. ASSUME NEW t \in Teams, OpenTeam(c, t)
      PROVE  TypeOK' /\ ScreenInv'
  <2>1. teams[c][t] \in TeamDoc
    BY <1>2 DEF OpenTeam, TypeOK
  <2>2. (isAdmin[c] \/ c \in Range(teams[c][t].admins)) \in BOOLEAN
    OBVIOUS
  <2>3. isAdmin' \in [Clients -> BOOLEAN]
    BY <1>2, <2>2 DEF OpenTeam, TypeOK
  <2>4. TypeOK'
    BY <1>2, <2>1, <2>3 DEF OpenTeam, TypeOK
  <2> QED BY <1>2, <2>1, <2>4 DEF OpenTeam, TypeOK
<1>3. ASSUME NEW t \in Teams, NEW k \in Codes, CreateTeam(c, t, k)
      PROVE  TypeOK' /\ ScreenInv'
  <2>1. /\ NewTeam(c, t, k)
        /\ Ask(c, [op |-> "addTeam", team |-> t])
        /\ screen' = [screen EXCEPT ![c] = "form"]
        /\ edits' = edits + 1 /\ edits < MaxEdits
        /\ UNCHANGED <<teamDoc, userDoc, open, copy, isAdmin, listed, loading, crashes>>
    BY <1>3 DEF CreateTeam, CountEdit
  <2>2. call' \in [Clients -> [Slots -> Request]]
    BY <2>1, AskType, RequestType
  <2>3. /\ queue' \in [Clients -> Seq(PendingWrite)]
        /\ teams' \in [Clients -> [Teams -> TeamDoc \cup {NoDoc}]]
    BY <2>1, NewTeamType
  <2>4. edits' \in 0..MaxEdits
    BY <2>1, BoundsAssumption DEF TypeOK
  <2>5. TypeOK'
    BY <2>1, <2>2, <2>3, <2>4 DEF TypeOK
  <2> QED BY <2>1, <2>5 DEF TypeOK
<1>9. ASSUME NEW t \in Teams, NEW k \in Codes, UploadPhoto(c, t, k)
      PROVE  TypeOK' /\ ScreenInv'
  <2>1. call' \in [Clients -> [Slots -> Request]]
    BY <1>9, AskType, RequestType DEF UploadPhoto
  <2>2. edits' \in 0..MaxEdits
    BY <1>9, BoundsAssumption DEF UploadPhoto, CountEdit, TypeOK
  <2>3. TypeOK'
    BY <1>9, <2>1, <2>2 DEF UploadPhoto, TypeOK
  <2> QED BY <1>9, <2>3 DEF UploadPhoto, TypeOK
<1>4. ASSUME NEW k \in Codes, JoinTeam(c, k)
      PROVE  TypeOK' /\ ScreenInv'
  <2>1. call' \in [Clients -> [Slots -> Request]]
    BY <1>4, AskType, RequestType DEF JoinTeam
  <2>2. edits' \in 0..MaxEdits
    BY <1>4, BoundsAssumption DEF JoinTeam, CountEdit, TypeOK
  <2>3. TypeOK'
    BY <1>4, <2>1, <2>2 DEF JoinTeam, TypeOK
  <2> QED BY <1>4, <2>3 DEF JoinTeam, TypeOK
<1>5. CASE OpenManage(c)
  <2>1. open[c] \in Teams /\ copy[c] \in TeamDoc
    BY <1>5 DEF OpenManage
  <2>2. \A r \in Roles, u \in Users : Occurrences(copy[c][r], u) \in Nat
    <3>1. \A r \in Roles : copy[c][r] \in Seq(Users)
      BY <2>1 DEF TeamDoc, Roles
    <3> QED BY <3>1, OccurrencesInjective
  <2>3. [r \in Roles |-> [u \in Users |-> loading[c][r][u] + Occurrences(copy[c][r], u)]]
            \in [Roles -> [Users -> Nat]]
    BY <2>2 DEF TypeOK
  <2>4. loading' \in [Clients -> [Roles -> [Users -> Nat]]]
    BY <1>5, <2>3 DEF OpenManage, TypeOK
  <2>5. listed' \in [Clients -> [Roles -> [Users -> Nat]]]
    BY <1>5, LaunchType DEF OpenManage, TypeOK
  <2>6. TypeOK'
    BY <1>5, <2>4, <2>5 DEF OpenManage, TypeOK
  <2> QED BY <1>5, <2>1, <2>6 DEF OpenManage, TypeOK
<1>6. ASSUME NEW u \in Users,
             Promote(c, u) \/ Demote(c, u) \/ BlockAdmin(c, u) \/ BlockMember(c, u)
      PROVE  TypeOK' /\ ScreenInv'
  BY <1>6, MoveRowType DEF Promote, Demote, BlockAdmin, BlockMember, Roles
<1>7. ASSUME NEW u \in Users, Unblock(c, u)
      PROVE  TypeOK' /\ ScreenInv'
  BY <1>7, UnblockType
<1>8. CASE EditDetails(c)
  <2>1. copy[c] \in TeamDoc /\ screen[c] = "manage" /\ EditTeam(c, copy[c])
    BY <1>8 DEF EditDetails
  <2>2. /\ queue' \in [Clients -> Seq(PendingWrite)]
        /\ teams' \in [Clients -> [Teams -> TeamDoc \cup {NoDoc}]]
        /\ copy' \in [Clients -> TeamDoc \cup {NoDoc}]
        /\ copy' = copy
    <3>1. copy' = copy
      BY <2>1 DEF EditTeam, TypeOK
    <3> QED BY <2>1, <3>1, EditTeamType
  <2>3. TypeOK'
    BY <1>8, <2>2, BoundsAssumption DEF EditDetails, CountEdit, TypeOK
  <2> QED BY <1>8, <2>2, <2>3 DEF EditDetails, TypeOK
<1> QED BY <1>1, <1>2, <1>3, <1>4, <1>5, <1>6, <1>7, <1>8, <1>9 DEF Tap

LEMMA FlushType ==
    ASSUME TypeOK, NEW c \in Clients, Flush(c)
    PROVE  TypeOK'
<1> DEFINE w == Head(queue[c])
<1>1. w \in PendingWrite /\ Tail(queue[c]) \in Seq(PendingWrite)
  BY HeadTailProperties DEF Flush, TypeOK
<1>2. w.col = "teams" => w.id \in Teams /\ w.doc \in TeamDoc
  BY <1>1 DEF PendingWrite
<1>3. w.col = "users" => w.id \in Users /\ w.doc \in UserDoc
  BY <1>1 DEF PendingWrite
<1>4. teamDoc' \in [Teams -> TeamDoc \cup {NoDoc}]
  BY <1>2 DEF Flush, Commit, TypeOK
<1>5. userDoc' \in [Users -> UserDoc]
  BY <1>3 DEF Flush, Commit, TypeOK
<1>6. queue' \in [Clients -> Seq(PendingWrite)]
  BY <1>1 DEF Flush, TypeOK
<1> QED BY <1>4, <1>5, <1>6 DEF Flush, TypeOK, appVars

LEMMA RowType ==
    ASSUME TypeOK, NEW c \in Clients, NEW r \in Roles, NEW u \in Users,
           LoadRow(c, r, u) \/ FailRow(c, r, u)
    PROVE  TypeOK'
<1>1. /\ loading[c][r][u] \in Nat /\ loading[c][r][u] > 0
      /\ listed[c][r][u] \in Nat
      /\ loading \in [Clients -> [Roles -> [Users -> Nat]]]
      /\ listed \in [Clients -> [Roles -> [Users -> Nat]]]
  BY DEF LoadRow, FailRow, TypeOK
<1>2. /\ loading' = [loading EXCEPT ![c][r][u] = @ - 1]
      /\ listed' = [listed EXCEPT ![c][r][u] = @ + 1] \/ listed' = listed
  BY DEF LoadRow, FailRow
<1>3. loading' \in [Clients -> [Roles -> [Users -> Nat]]]
  BY <1>1, <1>2
<1>4. listed' \in [Clients -> [Roles -> [Users -> Nat]]]
  <2>1. CASE listed' = listed
    BY <1>1, <2>1
  <2>2. CASE listed' = [listed EXCEPT ![c][r][u] = @ + 1]
    BY <1>1, <2>2
  <2> QED BY <1>2, <2>1, <2>2
<1> QED BY <1>3, <1>4 DEF LoadRow, FailRow, TypeOK

LEMMA InitType == Init => TypeOK /\ ScreenInv
<1> SUFFICES ASSUME Init PROVE TypeOK /\ ScreenInv
  OBVIOUS
<1>1. <<>> \in Seq(PendingWrite)
  OBVIOUS
<1>2. TypeOK
  BY <1>1, LaunchType, StartAssumption, BoundsAssumption DEF Init, TypeOK
<1> QED BY <1>2 DEF Init, ScreenInv

LEMMA NextType ==
    ASSUME TypeOK, ScreenInv, [Next]_vars
    PROVE  TypeOK' /\ ScreenInv'
<1>1. CASE UNCHANGED vars
  BY <1>1 DEF vars, TypeOK, ScreenInv
<1>2. ASSUME NEW c \in Clients, Tap(c)
      PROVE  TypeOK' /\ ScreenInv'
  BY <1>2, TapType
<1>3. ASSUME NEW c \in Clients, NEW s \in Slots, Respond(c, s)
      PROVE  TypeOK' /\ ScreenInv'
  <2>1. TypeOK' /\ (UNCHANGED <<screen, open, copy>> \/ Relaunch(c))
    BY <1>3, RespondType
  <2> QED BY <2>1 DEF Relaunch, ScreenInv, TypeOK
<1>4. ASSUME NEW c \in Clients, NEW s \in Slots, FailCall(c, s)
      PROVE  TypeOK' /\ ScreenInv'
  <2>1. call' \in [Clients -> [Slots -> Request]]
    BY <1>4, PutType, RequestType DEF FailCall
  <2> QED BY <1>4, <2>1 DEF FailCall, TypeOK, ScreenInv, appVars
<1>5. ASSUME NEW c \in Clients, NEW r \in Roles, NEW u \in Users,
             LoadRow(c, r, u) \/ FailRow(c, r, u)
      PROVE  TypeOK' /\ ScreenInv'
  <2>1. TypeOK'
    BY <1>5, RowType
  <2> QED BY <1>5, <2>1 DEF LoadRow, FailRow, ScreenInv
<1>6. ASSUME NEW c \in Clients, Flush(c)
      PROVE  TypeOK' /\ ScreenInv'
  <2>1. TypeOK'
    BY <1>6, FlushType
  <2> QED BY <1>6, <2>1 DEF Flush, ScreenInv, appVars
<1>7. ASSUME NEW c \in Clients, Crash(c)
      PROVE  TypeOK' /\ ScreenInv'
  <2>1. Relaunch(c) /\ UNCHANGED <<teamDoc, userDoc, queue, edits>>
    BY <1>7 DEF Crash
  <2>2. TypeOK'
    BY <2>1, RelaunchType DEF TypeOK
  <2> QED BY <2>1, <2>2 DEF Relaunch, ScreenInv, TypeOK
<1> QED BY <1>1, <1>2, <1>3, <1>4, <1>5, <1>6, <1>7 DEF Next

\* The state keeps its types, and a screen of a team always has a team.
THEOREM TypeCorrect == Spec => [](TypeOK /\ ScreenInv)
<1>1. Init => TypeOK /\ ScreenInv
  BY InitType
<1>2. TypeOK /\ ScreenInv /\ [Next]_vars => (TypeOK /\ ScreenInv)'
  BY NextType
<1> QED BY <1>1, <1>2, PTL DEF Spec

-----------------------------------------------------------------------------
(* References *)

\* Client c has a basis for naming team t: the server has it, or a write of
\* it is pending.
Known(c, t) == teamDoc[t] # NoDoc \/ Pending(queue[c], "teams", t) # {}

\* Write i of queue q names teams of the server, or teams written before it.
WriteRefs(q, i) ==
    q[i].col = "users" =>
        \A t \in Range(q[i].doc.teams) :
            \/ teamDoc[t] # NoDoc
            \/ \E j \in 1..(i - 1) : q[j].col = "teams" /\ q[j].id = t
QueueRefs == \A c \in Clients : \A i \in DOMAIN queue[c] : WriteRefs(queue[c], i)

\* What a query in flight will write is known.
CallRefs(c, r) ==
    /\ r.op \in {"addTeam", "addTeamFound"} => Known(c, r.team)
    /\ r.op \in {"addTeamFound", "blockFound"} =>
          \A t \in Range(r.ids) : Known(c, t)
AllCallRefs == \A c \in Clients, s \in Slots : CallRefs(c, call[c][s])

RefInv == RefIntegrity /\ QueueRefs /\ AllCallRefs

-----------------------------------------------------------------------------
(* The client's view *)

LEMMA RangeOf ==
    ASSUME NEW S, NEW list \in Seq(S)
    PROVE  Range(list) \subseteq S
BY DEF Range

\* Every team id a client reads in a user document is known to it.
LEMMA ViewRefs ==
    ASSUME TypeOK, RefIntegrity, QueueRefs, NEW c \in Clients, NEW u \in Users
    PROVE  \A t \in Range(UserTeams(c, u)) : Known(c, t)
<1> DEFINE P == Pending(queue[c], "users", u)
<1>1. CASE P = {}
  BY <1>1 DEF UserTeams, LocalView, RefIntegrity, Known
<1>2. CASE P # {}
  <2> DEFINE i == Latest(P)
  <2>1. queue[c] \in Seq(PendingWrite)
    BY DEF TypeOK
  <2>2. i \in 1..Len(queue[c]) /\ queue[c][i].col = "users"
    BY <1>2, <2>1, LatestPending
  <2>3. UserTeams(c, u) = queue[c][i].doc.teams
    BY <1>2 DEF UserTeams, LocalView
  <2>4. WriteRefs(queue[c], i)
    BY <2>1, <2>2 DEF QueueRefs
  <2> HIDE DEF i
  <2>5. \A t \in Range(queue[c][i].doc.teams) : Known(c, t)
    <3> SUFFICES ASSUME NEW t \in Range(queue[c][i].doc.teams), teamDoc[t] = NoDoc
                 PROVE  Pending(queue[c], "teams", t) # {}
      BY DEF Known
    <3>1. PICK j \in 1..(i - 1) : queue[c][j].col = "teams" /\ queue[c][j].id = t
      BY <2>2, <2>4 DEF WriteRefs
    <3>2. j \in DOMAIN queue[c]
      BY <2>1, <2>2, <3>1
    <3> QED BY <3>1, <3>2 DEF Pending
  <2> QED BY <2>3, <2>5
<1> QED BY <1>1, <1>2

-----------------------------------------------------------------------------
(* Steps that leave the queues alone or append to one *)

\* A client's write is appended, or nothing is written.
Writes(c, w) == Enqueue(c, w) /\ UNCHANGED <<teamDoc, userDoc>>

LEMMA AppendPending ==
    ASSUME NEW S, NEW q \in Seq(S), NEW w, NEW col, NEW id
    PROVE  /\ Pending(q, col, id) # {} => Pending(Append(q, w), col, id) # {}
           /\ w.col = col /\ w.id = id => Pending(Append(q, w), col, id) # {}
<1>1. /\ DOMAIN q = 1..Len(q) /\ Len(q) \in Nat
      /\ DOMAIN Append(q, w) = 1..(Len(q) + 1)
      /\ \A i \in 1..Len(q) : Append(q, w)[i] = q[i]
      /\ Append(q, w)[Len(q) + 1] = w
  OBVIOUS
<1>2. 1..Len(q) \subseteq 1..(Len(q) + 1) /\ Len(q) + 1 \in 1..(Len(q) + 1)
  BY <1>1
<1> QED BY <1>1, <1>2 DEF Pending

\* What is known stays known when writes are appended.
LEMMA KnownKept ==
    ASSUME TypeOK, NEW c \in Clients, NEW w, Writes(c, w)
    PROVE  /\ \A e \in Clients : \A t : Known(e, t) => Known(e, t)'
           /\ \A t : w.col = "teams" /\ w.id = t => Known(c, t)'
<1>1. queue[c] \in Seq(PendingWrite)
  BY DEF TypeOK
<1>2. queue'[c] = Append(queue[c], w) /\ \A e \in Clients \ {c} : queue'[e] = queue[e]
  BY DEF Writes, Enqueue, TypeOK
<1>3. teamDoc' = teamDoc
  BY DEF Writes
<1>4. ASSUME NEW t PROVE Known(c, t) => Known(c, t)'
  BY <1>1, <1>2, <1>3, AppendPending DEF Known
<1>5. ASSUME NEW e \in Clients \ {c}, NEW t PROVE Known(e, t) => Known(e, t)'
  BY <1>2, <1>3 DEF Known
<1>6. ASSUME NEW t, w.col = "teams", w.id = t PROVE Known(c, t)'
  BY <1>1, <1>2, <1>6, AppendPending DEF Known
<1> QED BY <1>4, <1>5, <1>6

\* A write whose teams are known keeps the queues right.
LEMMA WriteKeepsQueues ==
    ASSUME TypeOK, QueueRefs, NEW c \in Clients, NEW w, Writes(c, w),
           w.col = "users" => \A t \in Range(w.doc.teams) : Known(c, t)
    PROVE  QueueRefs'
<1> DEFINE q == queue[c]
<1>1. /\ q \in Seq(PendingWrite) /\ DOMAIN q = 1..Len(q) /\ Len(q) \in Nat
  BY DEF TypeOK
<1>2. queue'[c] = Append(q, w) /\ \A e \in Clients \ {c} : queue'[e] = queue[e]
  BY DEF Writes, Enqueue, TypeOK
<1>3. teamDoc' = teamDoc
  BY DEF Writes
<1> HIDE DEF q
<1>4. ASSUME NEW e \in Clients \ {c} PROVE \A i \in DOMAIN queue'[e] : WriteRefs(queue[e], i)'
  BY <1>2, <1>3 DEF QueueRefs, WriteRefs
<1>5. ASSUME NEW i \in DOMAIN queue'[c] PROVE WriteRefs(queue[c], i)'
  <2>1. /\ DOMAIN Append(q, w) = 1..(Len(q) + 1)
        /\ \A j \in 1..Len(q) : Append(q, w)[j] = q[j]
        /\ Append(q, w)[Len(q) + 1] = w
    BY <1>1
  <2>2. CASE i \in 1..Len(q)
    <3>1. WriteRefs(q, i)
      BY <1>1, <2>2 DEF QueueRefs, q
    <3>2. \A j \in 1..(i - 1) : j \in 1..Len(q)
      BY <1>1, <2>2
    <3> QED BY <1>2, <1>3, <2>1, <2>2, <3>1, <3>2 DEF WriteRefs
  <2>3. CASE i = Len(q) + 1
    <3> SUFFICES ASSUME w.col = "users", NEW t \in Range(w.doc.teams), teamDoc[t] = NoDoc
                 PROVE  \E j \in 1..(i - 1) : /\ Append(q, w)[j].col = "teams"
                                              /\ Append(q, w)[j].id = t
      BY <1>2, <1>3, <2>1, <2>3 DEF WriteRefs
    <3>1. PICK j \in DOMAIN q : q[j].col = "teams" /\ q[j].id = t
      BY DEF Known, Pending, q
    <3>2. j \in 1..(i - 1) /\ j \in 1..Len(q)
      BY <1>1, <2>3, <3>1
    <3> QED BY <2>1, <3>1, <3>2
  <2> QED BY <1>1, <1>2, <1>5, <2>1, <2>2, <2>3
<1> QED BY <1>4, <1>5 DEF QueueRefs

\* The writes of a step: none, a team, or a user document with known teams.
GoodWrites(c) ==
    \/ UNCHANGED <<teamDoc, userDoc, queue>>
    \/ \E w \in PendingWrite :
          /\ Writes(c, w)
          /\ w.col = "users" => \A t \in Range(w.doc.teams) : Known(c, t)

\* Every query is either the old one or one with known teams.
GoodCalls ==
    \A e \in Clients, s \in Slots :
        call'[e][s] = call[e][s] \/ CallRefs(e, call[e][s])'

LEMMA GoodStep ==
    ASSUME TypeOK, RefInv, NEW c \in Clients, GoodWrites(c), GoodCalls
    PROVE  RefInv'
<1>1. \A e \in Clients : \A t : Known(e, t) => Known(e, t)'
  <2>1. CASE UNCHANGED <<teamDoc, userDoc, queue>>
    BY <2>1 DEF Known
  <2>2. ASSUME NEW w \in PendingWrite, Writes(c, w)
        PROVE  \A e \in Clients : \A t : Known(e, t) => Known(e, t)'
    BY <2>2, KnownKept
  <2> QED BY <2>1, <2>2 DEF GoodWrites
<1>2. UNCHANGED <<teamDoc, userDoc>>
  BY DEF GoodWrites, Writes
<1>3. RefIntegrity'
  BY <1>2 DEF RefInv, RefIntegrity
<1>4. QueueRefs'
  <2>1. CASE UNCHANGED <<teamDoc, userDoc, queue>>
    BY <2>1 DEF RefInv, QueueRefs, WriteRefs
  <2>2. ASSUME NEW w \in PendingWrite, Writes(c, w),
               w.col = "users" => \A t \in Range(w.doc.teams) : Known(c, t)
        PROVE  QueueRefs'
    BY <2>2, WriteKeepsQueues DEF RefInv
  <2> QED BY <2>1, <2>2 DEF GoodWrites
<1>5. AllCallRefs'
  <2> SUFFICES ASSUME NEW e \in Clients, NEW s \in Slots
               PROVE  CallRefs(e, call[e][s])'
    BY DEF AllCallRefs
  <2>1. CASE call'[e][s] = call[e][s]
    <3>1. CallRefs(e, call[e][s])
      BY DEF RefInv, AllCallRefs
    <3> QED BY <1>1, <2>1, <3>1 DEF CallRefs
  <2> QED BY <2>1 DEF GoodCalls
<1> QED BY <1>3, <1>4, <1>5 DEF RefInv

LEMMA PutGood ==
    ASSUME TypeOK, NEW c \in Clients, NEW s \in Slots, NEW r, Put(c, s, r),
           r.op \in {"addTeam", "addTeamFound"} => Known(c, r.team)',
           r.op \in {"addTeamFound", "blockFound"} =>
              \A t \in Range(r.ids) : Known(c, t)'
    PROVE  GoodCalls
<1> SUFFICES ASSUME NEW e \in Clients, NEW x \in Slots, call'[e][x] # call[e][x]
             PROVE  CallRefs(e, call[e][x])'
  BY DEF GoodCalls
<1>1. e = c /\ x = s /\ call'[e][x] = r
  BY DEF Put, TypeOK
<1> QED BY <1>1 DEF CallRefs

LEMMA AskGood ==
    ASSUME TypeOK, NEW c \in Clients, NEW r, Ask(c, r),
           r.op # "addTeamFound", r.op # "blockFound",
           r.op = "addTeam" => Known(c, r.team)'
    PROVE  GoodCalls
BY PutGood DEF Ask

LEMMA RelaunchGood ==
    ASSUME TypeOK, NEW c \in Clients, Relaunch(c)
    PROVE  GoodCalls
<1> SUFFICES ASSUME NEW e \in Clients, NEW x \in Slots, call'[e][x] # call[e][x]
             PROVE  CallRefs(e, call[e][x])'
  BY DEF GoodCalls
<1>1. call'[e][x] = LaunchCalls[x]
  BY DEF Relaunch, TypeOK
<1>2. call'[e][x].op \in {"home", "idle"}
  BY <1>1 DEF LaunchCalls, Idle
<1> QED BY <1>2 DEF CallRefs

LEMMA EditTeamGood ==
    ASSUME TypeOK, ScreenInv, NEW c \in Clients, screen[c] = "manage",
           NEW d \in TeamDoc, EditTeam(c, d), UNCHANGED <<teamDoc, userDoc>>
    PROVE  GoodWrites(c)
<1>1. Write("teams", open[c], d) \in PendingWrite
  BY WriteType DEF ScreenInv
<1>2. Write("teams", open[c], d).col # "users"
  BY DEF Write
<1> QED BY <1>1, <1>2 DEF EditTeam, GoodWrites, Writes

\* A new team is known to its creator from the write on.
LEMMA NewTeamGood ==
    ASSUME TypeOK, NEW c \in Clients, NEW t \in Teams, NEW k \in Codes,
           NewTeam(c, t, k), UNCHANGED <<teamDoc, userDoc>>
    PROVE  GoodWrites(c) /\ Known(c, t)'
<1> DEFINE d == [admins |-> <<c>>, members |-> <<>>, blocked |-> <<>>, code |-> k]
           w == Write("teams", t, d)
<1>1. <<c>> \in Seq(Users) /\ <<>> \in Seq(Users)
  BY ClientsAssumption
<1>2. w \in PendingWrite /\ w.col = "teams" /\ w.id = t
  BY <1>1, WriteType DEF TeamDoc, Write
<1>3. Writes(c, w)
  BY DEF NewTeam, Writes
<1> HIDE DEF w
<1> QED BY <1>2, <1>3, KnownKept DEF GoodWrites

LEMMA MoveRowRefs ==
    ASSUME TypeOK, ScreenInv, RefInv, NEW c \in Clients, NEW u \in Users,
           NEW from \in Roles, NEW to \in Roles, from # to, MoveRow(c, u, from, to)
    PROVE  RefInv'
<1>1. screen[c] = "manage" /\ copy[c] \in TeamDoc /\ UNCHANGED <<teamDoc, userDoc>>
  BY DEF MoveRow, ScreenInv
<1>2. CASE copy[c][from] = <<>>
  <2>1. Relaunch(c) /\ UNCHANGED queue
    BY <1>2 DEF MoveRow
  <2> QED BY <1>1, <2>1, RelaunchGood, GoodStep DEF GoodWrites
<1>3. CASE copy[c][from] # <<>>
  <2> DEFINE d == [copy[c] EXCEPT ![from] = RemoveLast(@, u), ![to] = Append(@, u)]
  <2>1. d \in TeamDoc
    BY <1>1, <1>3, MovedDoc
  <2>2. EditTeam(c, d)
    BY <1>3 DEF MoveRow
  <2> HIDE DEF d
  <2>3. GoodWrites(c)
    BY <1>1, <2>1, <2>2, EditTeamGood
  <2>4. GoodCalls
    <3>1. CASE to = "blocked"
      <4>1. Ask(c, [op |-> "block", team |-> open[c], user |-> u])
        BY <1>3, <3>1 DEF MoveRow
      <4> QED BY <4>1, AskGood
    <3>2. CASE to # "blocked"
      BY <1>3, <3>2 DEF MoveRow, GoodCalls
    <3> QED BY <3>1, <3>2
  <2> QED BY <2>3, <2>4, GoodStep
<1> QED BY <1>2, <1>3

LEMMA UnblockRefs ==
    ASSUME TypeOK, ScreenInv, RefInv, NEW c \in Clients, NEW u \in Users, Unblock(c, u)
    PROVE  RefInv'
<1>1. screen[c] = "manage" /\ copy[c] \in TeamDoc /\ UNCHANGED <<teamDoc, userDoc>>
  BY DEF Unblock, ScreenInv
<1>2. CASE copy[c].blocked = <<>>
  <2>1. Relaunch(c) /\ UNCHANGED queue
    BY <1>2 DEF Unblock
  <2> QED BY <1>1, <2>1, RelaunchGood, GoodStep DEF GoodWrites
<1>3. CASE copy[c].blocked # <<>>
  <2> DEFINE d == [copy[c] EXCEPT !.blocked = RemoveLast(@, u)]
  <2>1. d \in TeamDoc
    BY <1>1, <1>3, MovedDoc DEF Roles
  <2>2. EditTeam(c, d) /\ UNCHANGED call
    BY <1>3 DEF Unblock
  <2> HIDE DEF d
  <2>3. GoodWrites(c) /\ GoodCalls
    BY <1>1, <2>1, <2>2, EditTeamGood DEF GoodCalls
  <2> QED BY <2>3, GoodStep
<1> QED BY <1>2, <1>3

LEMMA TapRefs ==
    ASSUME TypeOK, ScreenInv, RefInv, NEW c \in Clients, Tap(c)
    PROVE  RefInv'
<1>1. CASE HomeAppear(c)
  <2>1. Ask(c, [op |-> "home"]) /\ UNCHANGED <<teamDoc, userDoc, queue>>
    BY <1>1 DEF HomeAppear
  <2> QED BY <2>1, AskGood, GoodStep DEF GoodWrites
<1>2. ASSUME NEW t \in Teams, OpenTeam(c, t)
      PROVE  RefInv'
  BY <1>2, GoodStep DEF OpenTeam, GoodWrites, GoodCalls
<1>3. ASSUME NEW t \in Teams, NEW k \in Codes, CreateTeam(c, t, k)
      PROVE  RefInv'
  <2>1. NewTeam(c, t, k) /\ Ask(c, [op |-> "addTeam", team |-> t])
        /\ UNCHANGED <<teamDoc, userDoc>>
    BY <1>3 DEF CreateTeam
  <2>2. GoodWrites(c) /\ Known(c, t)'
    BY <2>1, NewTeamGood
  <2>3. GoodCalls
    BY <2>1, <2>2, AskGood
  <2> QED BY <2>2, <2>3, GoodStep
<1>9. ASSUME NEW t \in Teams, NEW k \in Codes, UploadPhoto(c, t, k)
      PROVE  RefInv'
  <2>1. /\ Ask(c, [op |-> "upload", team |-> t, code |-> k])
        /\ UNCHANGED <<teamDoc, userDoc, queue>>
    BY <1>9 DEF UploadPhoto
  <2> QED BY <2>1, AskGood, GoodStep DEF GoodWrites
<1>4. ASSUME NEW k \in Codes, JoinTeam(c, k)
      PROVE  RefInv'
  <2>1. Ask(c, [op |-> "join", code |-> k]) /\ UNCHANGED <<teamDoc, userDoc, queue>>
    BY <1>4 DEF JoinTeam
  <2> QED BY <2>1, AskGood, GoodStep DEF GoodWrites
<1>5. CASE OpenManage(c)
  BY <1>5, GoodStep DEF OpenManage, GoodWrites, GoodCalls
<1>6. ASSUME NEW u \in Users,
             Promote(c, u) \/ Demote(c, u) \/ BlockAdmin(c, u) \/ BlockMember(c, u)
      PROVE  RefInv'
  BY <1>6, MoveRowRefs DEF Promote, Demote, BlockAdmin, BlockMember, Roles
<1>7. ASSUME NEW u \in Users, Unblock(c, u)
      PROVE  RefInv'
  BY <1>7, UnblockRefs
<1>8. CASE EditDetails(c)
  <2>1. /\ screen[c] = "manage" /\ EditTeam(c, copy[c])
        /\ UNCHANGED <<teamDoc, userDoc, call>>
    BY <1>8 DEF EditDetails
  <2>2. GoodWrites(c) /\ GoodCalls
    BY <2>1, EditTeamGood DEF ScreenInv, GoodCalls
  <2> QED BY <2>2, GoodStep
<1> QED BY <1>1, <1>2, <1>3, <1>4, <1>5, <1>6, <1>7, <1>8, <1>9 DEF Tap

LEMMA RespondRefs ==
    ASSUME TypeOK, RefInv, NEW c \in Clients, NEW s \in Slots, Respond(c, s)
    PROVE  RefInv'
<1>1. PICK r \in Request : r = call[c][s] /\ CallRefs(c, r)
  BY DEF TypeOK, RefInv, AllCallRefs
<1>2. \A u \in Users : \A t \in Range(UserTeams(c, u)) : Known(c, t)
  BY ViewRefs DEF RefInv
<1>3. UNCHANGED <<teamDoc, queue>> => \A t : Known(c, t)' <=> Known(c, t)
  BY DEF Known
<1>4. CASE FetchTeams(c, s)
  BY <1>4, PutGood, GoodStep DEF FetchTeams, GoodWrites, Idle
<1>5. CASE AnswerTeams(c, s)
  BY <1>5, PutGood, GoodStep DEF AnswerTeams, GoodWrites, Idle
<1>6. CASE ReplaceTeams(c, s)
  BY <1>6, PutGood, GoodStep DEF ReplaceTeams, GoodWrites, Idle
<1>7. CASE AnswerJoin(c, s)
  BY <1>7, PutGood, GoodStep DEF AnswerJoin, GoodWrites, Idle
<1>8. CASE FinishJoin(c, s)
  <2> DEFINE d == [r.doc EXCEPT !.members = Append(@, c)]
             w == Write("teams", r.team, d)
  <2>1. r.team \in Teams /\ r.doc \in TeamDoc
    BY <1>1, <1>8, RequestFields DEF FinishJoin
  <2>2. Append(r.doc.members, c) \in Seq(Users)
    BY <2>1, ClientsAssumption, AppendProperties DEF TeamDoc
  <2>3. w \in PendingWrite /\ w.col = "teams" /\ w.id = r.team
    BY <2>1, <2>2, WriteType DEF TeamDoc, Write
  <2>4. CASE Put(c, s, Idle) /\ UNCHANGED <<teamDoc, userDoc, queue>>
    BY <2>4, PutGood, GoodStep DEF GoodWrites, Idle
  <2>5. CASE Writes(c, w) /\ Put(c, s, [op |-> "addTeam", team |-> r.team])
    <3> HIDE DEF w
    <3>1. Known(c, r.team)'
      BY <2>3, <2>5, KnownKept
    <3>2. GoodCalls
      BY <2>5, <3>1, PutGood
    <3> QED BY <2>3, <2>5, <3>2, GoodStep DEF GoodWrites
  <2> QED BY <1>1, <1>8, <2>4, <2>5 DEF FinishJoin, Writes
<1>9. CASE AnswerAddTeam(c, s)
  <2> DEFINE n == [op |-> "addTeamFound", team |-> r.team, ids |-> UserTeams(c, c)]
  <2>1. Put(c, s, n) /\ UNCHANGED <<teamDoc, userDoc, queue>>
    BY <1>1, <1>9 DEF AnswerAddTeam
  <2>2. Known(c, r.team)' /\ \A t \in Range(UserTeams(c, c)) : Known(c, t)'
    BY <1>1, <1>2, <1>3, <1>9, <2>1, ClientsAssumption DEF AnswerAddTeam, CallRefs
  <2>3. GoodCalls
    BY <2>1, <2>2, PutGood
  <2> QED BY <2>1, <2>3, GoodStep DEF GoodWrites
<1>10. CASE AddTeamToUser(c, s)
  <2> DEFINE d == [teams |-> Append(r.ids, r.team)]
             w == Write("users", c, d)
  <2>1. r.team \in Teams /\ r.ids \in Seq(Teams)
    BY <1>1, <1>10, RequestFields DEF AddTeamToUser
  <2>2. w \in PendingWrite /\ w.doc.teams = Append(r.ids, r.team)
    BY <2>1, WriteType, ClientsAssumption, AppendProperties DEF UserDoc, Write
  <2>3. Range(Append(r.ids, r.team)) \subseteq Range(r.ids) \cup {r.team}
    BY <2>1, AppendProperties DEF Range
  <2>4. \A t \in Range(w.doc.teams) : Known(c, t)
    BY <1>1, <1>10, <2>2, <2>3 DEF AddTeamToUser, CallRefs
  <2>5. Writes(c, w) /\ Put(c, s, Idle)
    BY <1>1, <1>10 DEF AddTeamToUser, Writes
  <2>6. GoodCalls
    BY <2>5, PutGood DEF Idle
  <2> QED BY <2>2, <2>4, <2>5, <2>6, GoodStep DEF GoodWrites
<1>11. CASE AnswerBlock(c, s)
  <2> DEFINE n == [op |-> "blockFound", team |-> r.team, user |-> r.user,
                   ids |-> UserTeams(c, r.user)]
  <2>1. Put(c, s, n) /\ UNCHANGED <<teamDoc, userDoc, queue>>
    BY <1>1, <1>11 DEF AnswerBlock
  <2>2. r.user \in Users
    BY <1>1, <1>11, RequestFields DEF AnswerBlock
  <2>3. \A t \in Range(UserTeams(c, r.user)) : Known(c, t)'
    BY <1>2, <1>3, <2>1, <2>2
  <2>4. GoodCalls
    BY <2>1, <2>3, PutGood
  <2> QED BY <2>1, <2>4, GoodStep DEF GoodWrites
<1>12. CASE BlockUserFromTeam(c, s)
  <2>1. CASE r.ids = <<>>
    <3>1. Relaunch(c) /\ UNCHANGED <<teamDoc, userDoc, queue>>
      BY <1>1, <1>12, <2>1 DEF BlockUserFromTeam
    <3> QED BY <3>1, RelaunchGood, GoodStep DEF GoodWrites
  <2>2. CASE r.ids # <<>>
    <3> DEFINE ids == RemoveLast(r.ids, r.team)
               w == Write("users", r.user, [teams |-> ids])
    <3>1. r.team \in Teams /\ r.user \in Users /\ r.ids \in Seq(Teams)
      BY <1>1, <1>12, RequestFields DEF BlockUserFromTeam
    <3>2. ids \in Seq(Teams) /\ Range(ids) \subseteq Range(r.ids)
      BY <2>2, <3>1, RemoveLastType
    <3>3. w \in PendingWrite /\ w.doc.teams = ids
      BY <3>1, <3>2, WriteType DEF UserDoc, Write
    <3>4. \A t \in Range(w.doc.teams) : Known(c, t)
      BY <1>1, <1>12, <3>2, <3>3 DEF BlockUserFromTeam, CallRefs
    <3>5. Writes(c, w) /\ Put(c, s, Idle)
      BY <1>1, <1>12, <2>2 DEF BlockUserFromTeam, Writes
    <3>6. GoodCalls
      BY <3>5, PutGood DEF Idle
    <3> QED BY <3>3, <3>4, <3>5, <3>6, GoodStep DEF GoodWrites
  <2> QED BY <2>1, <2>2
<1>13. CASE PhotoStored(c, s)
  <2>1. r.team \in Teams /\ r.code \in Codes
    BY <1>1, <1>13, RequestFields DEF PhotoStored
  <2>2. /\ NewTeam(c, r.team, r.code) /\ Put(c, s, [op |-> "addTeam", team |-> r.team])
        /\ UNCHANGED <<teamDoc, userDoc>>
    BY <1>1, <1>13 DEF PhotoStored
  <2>3. GoodWrites(c) /\ Known(c, r.team)'
    BY <2>1, <2>2, NewTeamGood
  <2>4. GoodCalls
    BY <2>2, <2>3, PutGood
  <2> QED BY <2>3, <2>4, GoodStep
<1> QED BY <1>4, <1>5, <1>6, <1>7, <1>8, <1>9, <1>10, <1>11, <1>12, <1>13 DEF Respond

-----------------------------------------------------------------------------
(* The oldest write reaches the server *)

\* A team the client knows is on the server or still pending once its oldest
\* write is committed.
LEMMA FlushRefs ==
    ASSUME TypeOK, RefInv, NEW c \in Clients, Flush(c)
    PROVE  RefInv'
<1> DEFINE q == queue[c]
           w == Head(q)
<1>1. /\ q \in Seq(PendingWrite) /\ Len(q) \in Nat /\ 1 \in 1..Len(q)
      /\ DOMAIN q = 1..Len(q) /\ w = q[1] /\ w \in PendingWrite
  BY DEF Flush, TypeOK
<1>2. /\ Tail(q) \in Seq(PendingWrite) /\ DOMAIN Tail(q) = 1..(Len(q) - 1)
      /\ \A i \in 1..(Len(q) - 1) : Tail(q)[i] = q[i + 1]
  BY <1>1
<1>3. /\ queue'[c] = Tail(q) /\ \A e \in Clients \ {c} : queue'[e] = queue[e]
      /\ teamDoc' = Commit(teamDoc, "teams", w)
      /\ userDoc' = Commit(userDoc, "users", w)
      /\ call' = call
  BY DEF Flush, TypeOK
<1>4. w.col = "teams" => w.id \in Teams /\ w.doc \in TeamDoc
  BY <1>1 DEF PendingWrite
<1>5. w.col = "users" => w.id \in Users
  BY <1>1 DEF PendingWrite
<1> HIDE DEF q, w
<1>6. \A t \in Teams : teamDoc[t] # NoDoc => teamDoc'[t] # NoDoc
  BY <1>3, <1>4, NoDocAssumption DEF Commit, TypeOK
<1>7. w.col = "teams" => teamDoc'[w.id] # NoDoc
  BY <1>3, <1>4, NoDocAssumption DEF Commit, TypeOK
<1>8. ASSUME NEW e \in Clients, NEW t \in Teams, Known(e, t)
      PROVE  Known(e, t)'
  <2>1. CASE teamDoc[t] # NoDoc
    BY <1>6, <2>1 DEF Known
  <2>2. CASE e # c /\ Pending(queue[e], "teams", t) # {}
    BY <1>3, <2>2 DEF Known
  <2>3. CASE e = c /\ Pending(queue[e], "teams", t) # {}
    <3>1. PICK i \in 1..Len(q) : q[i].col = "teams" /\ q[i].id = t
      BY <1>1, <2>3 DEF Pending, q
    <3>2. CASE i = 1
      BY <1>1, <1>7, <2>3, <3>1, <3>2 DEF Known
    <3>3. CASE i # 1
      <4>1. i - 1 \in DOMAIN Tail(q) /\ (i - 1) + 1 = i
        BY <1>1, <1>2, <3>1, <3>3
      <4>2. i - 1 \in Pending(Tail(q), "teams", t)
        BY <1>2, <3>1, <4>1 DEF Pending
      <4> QED BY <1>3, <2>3, <4>2 DEF Known
    <3> QED BY <3>2, <3>3
  <2> QED BY <1>8, <2>1, <2>2, <2>3 DEF Known
<1>9. RefIntegrity'
  <2> SUFFICES ASSUME NEW u \in Users, NEW t \in Range(userDoc'[u].teams)
               PROVE  teamDoc'[t] # NoDoc
    BY DEF RefIntegrity
  <2>1. CASE userDoc'[u] = userDoc[u]
    <3>1. t \in Teams
      BY <2>1, RangeOf DEF TypeOK, UserDoc
    <3> QED BY <1>6, <2>1, <3>1 DEF RefInv, RefIntegrity
  <2>2. CASE userDoc'[u] # userDoc[u]
    <3>1. w.col = "users" /\ userDoc'[u] = w.doc
      BY <1>3, <1>5, <2>2 DEF Commit, TypeOK
    <3>2. w.doc \in UserDoc /\ t \in Teams
      BY <1>1, <3>1, RangeOf DEF PendingWrite, UserDoc
    <3>3. WriteRefs(q, 1)
      BY <1>1 DEF RefInv, QueueRefs, q
    <3>4. teamDoc[t] # NoDoc
      BY <1>1, <3>1, <3>3 DEF WriteRefs
    <3> QED BY <1>6, <3>2, <3>4
  <2> QED BY <2>1, <2>2
<1>10. QueueRefs'
  <2> SUFFICES ASSUME NEW e \in Clients, NEW i \in DOMAIN queue'[e]
               PROVE  WriteRefs(queue[e], i)'
    BY DEF QueueRefs
  <2>1. CASE e # c
    <3>1. PICK p \in Seq(PendingWrite) :
             p = queue[e] /\ p = queue'[e] /\ i \in DOMAIN p /\ WriteRefs(p, i)
      BY <1>3, <2>1 DEF RefInv, QueueRefs, TypeOK
    <3>2. p[i].col = "users" => p[i].doc \in UserDoc
      BY <3>1 DEF PendingWrite
    <3>3. p[i].col = "users" => Range(p[i].doc.teams) \subseteq Teams
      BY <3>2, RangeOf DEF UserDoc
    <3>4. WriteRefs(p, i)'
      BY <1>6, <3>1, <3>3 DEF WriteRefs
    <3> QED BY <3>1, <3>4 DEF WriteRefs
  <2>2. CASE e = c
    <3>1. i \in 1..(Len(q) - 1) /\ Tail(q)[i] = q[i + 1] /\ i + 1 \in 1..Len(q)
      BY <1>1, <1>2, <1>3, <2>2
    <3>2. WriteRefs(q, i + 1)
      BY <1>1, <3>1 DEF RefInv, QueueRefs, q
    <3>3. queue'[e] = Tail(q) /\ queue'[e][i] = q[i + 1]
      BY <1>3, <2>2, <3>1
    <3> SUFFICES ASSUME queue'[e][i].col = "users",
                        NEW t \in Range(queue'[e][i].doc.teams),
                        teamDoc'[t] = NoDoc
                 PROVE  \E j \in 1..(i - 1) :
                           queue'[e][j].col = "teams" /\ queue'[e][j].id = t
      BY DEF WriteRefs
    <3>4. q[i + 1].col = "users" /\ t \in Range(q[i + 1].doc.teams)
      BY <3>3
    <3>5. t \in Teams
      <4>1. q[i + 1].doc \in UserDoc
        BY <1>1, <3>1, <3>4 DEF PendingWrite
      <4> QED BY <3>4, <4>1, RangeOf DEF UserDoc
    <3>6. PICK j \in 1..i : q[j].col = "teams" /\ q[j].id = t
      BY <1>6, <3>1, <3>2, <3>4, <3>5 DEF WriteRefs
    <3>7. j # 1
      BY <1>1, <1>7, <3>6
    <3>8. j - 1 \in 1..(i - 1) /\ j - 1 \in 1..(Len(q) - 1) /\ (j - 1) + 1 = j
      BY <1>1, <3>1, <3>6, <3>7
    <3> QED BY <1>2, <3>3, <3>6, <3>8
  <2> QED BY <2>1, <2>2
<1>11. AllCallRefs'
  <2> SUFFICES ASSUME NEW e \in Clients, NEW s \in Slots
               PROVE  CallRefs(e, call[e][s])'
    BY DEF AllCallRefs
  <2>1. CallRefs(e, call[e][s]) /\ call'[e][s] = call[e][s] /\ call[e][s] \in Request
    BY <1>3 DEF RefInv, AllCallRefs, TypeOK
  <2>2. /\ call[e][s].op \in {"addTeam", "addTeamFound"} => call[e][s].team \in Teams
        /\ call[e][s].op \in {"addTeamFound", "blockFound"} =>
              Range(call[e][s].ids) \subseteq Teams
    BY <2>1, RequestFields, RangeOf
  <2> QED BY <1>8, <2>1, <2>2 DEF CallRefs
<1> QED BY <1>9, <1>10, <1>11 DEF RefInv

LEMMA InitRefs == Init => RefInv
<1> SUFFICES ASSUME Init PROVE RefInv
  OBVIOUS
<1>1. RefIntegrity
  BY StartAssumption DEF Init, RefIntegrity
<1>2. QueueRefs
  BY DEF Init, QueueRefs
<1>3. \A c \in Clients, s \in Slots : call[c][s].op \in {"home", "idle"}
  BY DEF Init, LaunchCalls, Idle
<1>4. AllCallRefs
  BY <1>3 DEF AllCallRefs, CallRefs
<1> QED BY <1>1, <1>2, <1>4 DEF RefInv

LEMMA NextRefs ==
    ASSUME TypeOK, ScreenInv, RefInv, [Next]_vars
    PROVE  RefInv'
<1>1. CASE UNCHANGED vars
  <2>1. UNCHANGED <<teamDoc, userDoc, queue, call>>
    BY <1>1 DEF vars
  <2> QED BY <2>1 DEF RefInv, RefIntegrity, QueueRefs, WriteRefs, AllCallRefs,
                      CallRefs, Known
<1>2. ASSUME NEW c \in Clients, Tap(c)
      PROVE  RefInv'
  BY <1>2, TapRefs
<1>3. ASSUME NEW c \in Clients, NEW s \in Slots, Respond(c, s)
      PROVE  RefInv'
  BY <1>3, RespondRefs
<1>4. ASSUME NEW c \in Clients, NEW s \in Slots, FailCall(c, s)
      PROVE  RefInv'
  <2>1. Put(c, s, Idle) /\ UNCHANGED <<teamDoc, userDoc, queue>>
    BY <1>4 DEF FailCall
  <2> QED BY <2>1, PutGood, GoodStep DEF GoodWrites, Idle
<1>5. ASSUME NEW c \in Clients, NEW r \in Roles, NEW u \in Users,
             LoadRow(c, r, u) \/ FailRow(c, r, u)
      PROVE  RefInv'
  BY <1>5, GoodStep DEF LoadRow, FailRow, GoodWrites, GoodCalls
<1>6. ASSUME NEW c \in Clients, Flush(c)
      PROVE  RefInv'
  BY <1>6, FlushRefs
<1>7. ASSUME NEW c \in Clients, Crash(c)
      PROVE  RefInv'
  BY <1>7, RelaunchGood, GoodStep DEF Crash, GoodWrites
<1> QED BY <1>1, <1>2, <1>3, <1>4, <1>5, <1>6, <1>7 DEF Next

\* However clients interleave, crash and lose answers, no user document on
\* the server ever names a team the server does not have.
THEOREM ReferentialIntegrity == Spec => []RefIntegrity
<1>1. Init => RefInv
  BY InitRefs
<1>2. TypeOK /\ ScreenInv /\ RefInv /\ [Next]_vars => RefInv'
  BY NextRefs
<1>3. RefInv => RefIntegrity
  BY DEF RefInv
<1> QED BY <1>1, <1>2, <1>3, TypeCorrect, PTL DEF Spec

-----------------------------------------------------------------------------
(* Roles *)

\* A document, if there is one, has an admin, and nobody in two roles.
GoodDoc(d) == d # NoDoc => OneRole(d) /\ d.admins # <<>>

\* So do the documents a query has been answered with.
CallGood(r) ==
    /\ r.op = "joinFound" => GoodDoc(r.doc)
    /\ r.op = "replaceTeams" => \A t \in Teams : GoodDoc(r.docs[t])

\* Wherever there is a document of a team, it is good.
ServerGood == \A t \in Teams : GoodDoc(teamDoc[t])
QueueGood == \A c \in Clients : \A i \in DOMAIN queue[c] :
                queue[c][i].col = "teams" => GoodDoc(queue[c][i].doc)
CallsGood == \A c \in Clients, s \in Slots : CallGood(call[c][s])
CacheGood == /\ \A c \in Clients, t \in Teams : GoodDoc(teams[c][t])
             /\ \A c \in Clients : GoodDoc(copy[c])

\* The open team is among the cached ones, and none of Home's queries will
\* replace them.
Settled ==
    \A c \in Clients : screen[c] \in {"team", "manage"} =>
        /\ teams[c][open[c]] # NoDoc
        /\ \A s \in Slots : call[c][s].op \notin HomeOps

\* Whoever has an admin's screen is an admin in the copy it edits.
OwnAdmin ==
    \A c \in Clients :
        /\ isAdmin[c] => /\ screen[c] \in {"team", "manage"}
                         /\ c \in Range(copy[c].admins)
        /\ screen[c] = "manage" => isAdmin[c]

DocsInv == ServerGood /\ QueueGood /\ CallsGood /\ CacheGood
ScreensInv == Settled /\ OwnAdmin /\ RowsMatchTeam
RoleInv == DocsInv /\ ScreensInv

-----------------------------------------------------------------------------
(* Documents *)

\* The lists of a document.
LEMMA DocLists ==
    ASSUME NEW d \in TeamDoc, NEW r \in Roles
    PROVE  d[r] \in Seq(Users)
BY DEF TeamDoc, Roles

\* Document e is d once user u has moved from one list to another.
Moved(d, e, from, to, u) ==
    /\ e \in TeamDoc /\ OneRole(e)
    /\ Range(e[from]) = Range(d[from]) \ {u}
    /\ Range(e[to]) = Range(d[to]) \cup {u}
    /\ \A r \in Roles \ {from, to} : e[r] = d[r]

\* What a document is once a row has moved.
LEMMA MovedRoles ==
    ASSUME NEW d \in TeamDoc, OneRole(d), NEW from \in Roles, NEW to \in Roles,
           from # to, NEW u \in Users, u \in Range(d[from]), NEW e,
           e = [d EXCEPT ![from] = RemoveLast(@, u), ![to] = Append(@, u)]
    PROVE  Moved(d, e, from, to, u)
<1> DEFINE x == RemoveLast(d[from], u)
           y == Append(d[to], u)
<1>1. d[from] \in Seq(Users) /\ d[to] \in Seq(Users)
  BY DocLists
<1>2. /\ IsInjective(d[from]) /\ IsInjective(d[to]) /\ u \notin Range(d[to])
  BY DEF OneRole
<1>3. d[from] # <<>>
  BY DEF Range
<1>4. e \in TeamDoc
  BY <1>3, MovedDoc
<1>5. IsInjective(x) /\ Range(x) = Range(d[from]) \ {u}
  BY <1>1, <1>2, RemoveLastInjective
<1>6. IsInjective(y) /\ Range(y) = Range(d[to]) \cup {u}
  BY <1>1, <1>2, AppendNewcomer
<1> SUFFICES ASSUME e = [d EXCEPT ![from] = x, ![to] = y]
             PROVE  Moved(d, e, from, to, u)
  OBVIOUS
<1> HIDE DEF x, y
<1>7. /\ e[from] = x /\ e[to] = y
      /\ \A r \in Roles \ {from, to} : e[r] = d[r]
  BY DEF TeamDoc, Roles
<1>8. OneRole(e)
  <2>1. ASSUME NEW r \in Roles
        PROVE  IsInjective(e[r])
    BY <1>5, <1>6, <1>7 DEF OneRole
  <2>2. ASSUME NEW r \in Roles, NEW s \in Roles, r # s
        PROVE  Range(e[r]) \cap Range(e[s]) = {}
    <3>1. \A v \in Roles : \A w \in Range(e[v]) :
             \/ w \in Range(d[v]) /\ w # u
             \/ w = u /\ v = to
      BY <1>2, <1>5, <1>6, <1>7 DEF OneRole
    <3> QED BY <2>2, <3>1 DEF OneRole
  <2> QED BY <2>1, <2>2 DEF OneRole
<1> QED BY <1>4, <1>5, <1>6, <1>7, <1>8 DEF Moved

\* Document e is d once user u is unblocked.
Unblocked(d, e, u) ==
    /\ e \in TeamDoc /\ OneRole(e)
    /\ Range(e["blocked"]) = Range(d["blocked"]) \ {u}
    /\ e["admins"] = d["admins"] /\ e["members"] = d["members"]

LEMMA UnblockedRoles ==
    ASSUME NEW d \in TeamDoc, OneRole(d), NEW u \in Users,
           u \in Range(d["blocked"]), NEW e,
           e = [d EXCEPT !.blocked = RemoveLast(@, u)]
    PROVE  Unblocked(d, e, u)
<1> DEFINE x == RemoveLast(d["blocked"], u)
<1>1. d["blocked"] \in Seq(Users) /\ d["blocked"] # <<>>
  BY DocLists DEF Roles, Range
<1>2. e \in TeamDoc
  BY <1>1, MovedDoc DEF Roles
<1>3. IsInjective(x) /\ Range(x) = Range(d["blocked"]) \ {u}
  <2>1. IsInjective(d["blocked"])
    BY DEF OneRole, Roles
  <2> QED BY <1>1, <2>1, RemoveLastInjective
<1> SUFFICES ASSUME e = [d EXCEPT !["blocked"] = x]
             PROVE  Unblocked(d, e, u)
  OBVIOUS
<1> HIDE DEF x
<1>4. /\ e["blocked"] = x
      /\ e["admins"] = d["admins"] /\ e["members"] = d["members"]
  BY DEF TeamDoc
<1>5. OneRole(e)
  BY <1>3, <1>4 DEF OneRole, Roles
<1> QED BY <1>2, <1>3, <1>4, <1>5 DEF Unblocked

-----------------------------------------------------------------------------
(* Queries and queues *)

\* What a client sees of a team is good if the server's document is and its
\* own pending writes are.
LEMMA GoodView ==
    ASSUME TypeOK, DocsInv, NEW c \in Clients, NEW t \in Teams
    PROVE  GoodDoc(TeamView(c, t))
<1> DEFINE P == Pending(queue[c], "teams", t)
<1>1. CASE P = {}
  BY <1>1 DEF TeamView, LocalView, DocsInv, ServerGood
<1>2. CASE P # {}
  <2> DEFINE i == Latest(P)
  <2>1. queue[c] \in Seq(PendingWrite)
    BY DEF TypeOK
  <2>2. i \in DOMAIN queue[c] /\ queue[c][i].col = "teams"
    BY <1>2, <2>1, LatestPending
  <2>3. TeamView(c, t) = queue[c][i].doc
    BY <1>2 DEF TeamView, LocalView
  <2> HIDE DEF i
  <2> QED BY <2>2, <2>3 DEF DocsInv, QueueGood
<1> QED BY <1>1, <1>2

\* A good document may join the queue, and a user document always may.
LEMMA GoodWrite ==
    ASSUME TypeOK, QueueGood, NEW c \in Clients, NEW w \in PendingWrite,
           w.col = "teams" => GoodDoc(w.doc), Enqueue(c, w)
    PROVE  QueueGood'
<1>1. queue[c] \in Seq(PendingWrite)
  BY DEF TypeOK
<1>2. /\ queue'[c] = Append(queue[c], w)
      /\ \A e \in Clients \ {c} : queue'[e] = queue[e]
  BY DEF Enqueue, TypeOK
<1> DEFINE q == queue[c]
           p == Append(q, w)
<1>3. /\ DOMAIN q = 1..Len(q) /\ DOMAIN p = 1..(Len(q) + 1) /\ Len(q) \in Nat
      /\ \A i \in 1..Len(q) : p[i] = q[i]
      /\ p[Len(q) + 1] = w
  BY <1>1
<1> HIDE DEF p
<1>4. \A i \in DOMAIN p : p[i].col = "teams" => GoodDoc(p[i].doc)
  BY <1>3 DEF QueueGood
<1>5. queue'[c] = p
  BY <1>2 DEF p
<1>6. ASSUME NEW e \in Clients, NEW i \in DOMAIN queue'[e],
             queue'[e][i].col = "teams"
      PROVE  GoodDoc(queue'[e][i].doc)
  BY <1>2, <1>4, <1>5, <1>6 DEF QueueGood
<1> QED BY <1>6 DEF QueueGood, GoodDoc

\* What a new query or answer changes.
LEMMA GoodPut ==
    ASSUME TypeOK, CallsGood, NEW c \in Clients, NEW s \in Slots, NEW r,
           CallGood(r), Put(c, s, r)
    PROVE  /\ CallsGood'
           /\ \A e \in Clients \ {c} : call'[e] = call[e]
           /\ \A x \in Slots : call'[c][x] = call[c][x] \/ call'[c][x] = r
           /\ \A x \in Slots \ {s} : call'[c][x] = call[c][x]
<1>1. /\ \A e \in Clients \ {c} : call'[e] = call[e]
      /\ \A x \in Slots \ {s} : call'[c][x] = call[c][x]
      /\ call'[c][s] = r
  BY DEF Put, TypeOK
<1>2. ASSUME NEW e \in Clients, NEW x \in Slots
      PROVE  CallGood(call'[e][x])
  BY <1>1 DEF CallsGood
<1>3. CallsGood'
  BY <1>2 DEF CallsGood, CallGood, GoodDoc
<1> QED BY <1>1, <1>3

LEMMA GoodAsk ==
    ASSUME TypeOK, CallsGood, NEW c \in Clients, NEW r, CallGood(r), Ask(c, r)
    PROVE  /\ CallsGood'
           /\ \A e \in Clients \ {c} : call'[e] = call[e]
           /\ \A x \in Slots : call'[c][x] = call[c][x] \/ call'[c][x] = r
<1>1. PICK s \in Slots : Put(c, s, r)
  BY DEF Ask
<1> QED BY <1>1, GoodPut

\* A new team's document is good.
LEMMA GoodNewTeam ==
    ASSUME TypeOK, DocsInv, NEW c \in Clients, NEW t \in Teams, NEW k \in Codes,
           NewTeam(c, t, k)
    PROVE  /\ QueueGood'
           /\ \A e \in Clients, x \in Teams : GoodDoc(teams'[e][x])
           /\ \A e \in Clients \ {c} : teams'[e] = teams[e]
           /\ \A x \in Teams : teams[c][x] # NoDoc => teams'[c][x] # NoDoc
<1> DEFINE d == [admins |-> <<c>>, members |-> <<>>, blocked |-> <<>>,
                 code |-> k]
<1>1. d \in TeamDoc /\ d # NoDoc
  <2>1. <<c>> \in Seq(Users) /\ <<>> \in Seq(Users)
    BY ClientsAssumption
  <2>2. d \in TeamDoc
    BY <2>1 DEF TeamDoc
  <2> QED BY <2>2, NoDocAssumption
<1>2. GoodDoc(d)
  BY DEF GoodDoc, OneRole, Roles, IsInjective, Range
<1>3. /\ Enqueue(c, Write("teams", t, d))
      /\ teams' = [teams EXCEPT ![c][t] = d]
  BY DEF NewTeam
<1> HIDE DEF d
<1>4. QueueGood'
  <2>1. /\ Write("teams", t, d) \in PendingWrite
        /\ Write("teams", t, d).doc = d
    BY <1>1, WriteType DEF Write
  <2> QED BY <1>2, <1>3, <2>1, GoodWrite DEF DocsInv
<1>5. /\ \A e \in Clients \ {c} : teams'[e] = teams[e]
      /\ \A x \in Teams \ {t} : teams'[c][x] = teams[c][x]
      /\ teams'[c][t] = d
  BY <1>3 DEF TypeOK
<1> QED BY <1>1, <1>2, <1>4, <1>5 DEF DocsInv, CacheGood

-----------------------------------------------------------------------------
(* Screens *)

\* Nothing on a screen changes while the open team stays cached and no query
\* of Home appears.
LEMMA ScreensKept ==
    ASSUME TypeOK, ScreensInv,
           UNCHANGED <<open, copy, isAdmin, screen, listed, loading>>,
           \A c \in Clients : screen[c] \in {"team", "manage"} =>
              /\ teams[c][open[c]] # NoDoc => teams'[c][open[c]] # NoDoc
              /\ \A s \in Slots : call'[c][s].op \in HomeOps
                                  => \E x \in Slots : call[c][x].op \in HomeOps
    PROVE  ScreensInv'
<1>1. Settled'
  BY DEF ScreensInv, Settled
<1>2. OwnAdmin' /\ RowsMatchTeam'
  BY DEF ScreensInv, OwnAdmin, RowsMatchTeam
<1> QED BY <1>1, <1>2 DEF ScreensInv

\* A client that shows Home or a form has nothing to keep.
LEMMA LeavesTeam ==
    ASSUME TypeOK, ScreensInv, NEW c \in Clients, NEW x \in {"home", "form"},
           screen' = [screen EXCEPT ![c] = x],
           isAdmin'[c] = FALSE,
           \A e \in Clients \ {c} :
              /\ isAdmin'[e] = isAdmin[e] /\ open'[e] = open[e]
              /\ copy'[e] = copy[e] /\ listed'[e] = listed[e]
              /\ loading'[e] = loading[e]
              /\ teams'[e] = teams[e] /\ call'[e] = call[e]
    PROVE  ScreensInv'
<1>1. screen'[c] = x /\ \A e \in Clients \ {c} : screen'[e] = screen[e]
  BY DEF TypeOK
<1>2. Settled'
  BY <1>1 DEF ScreensInv, Settled
<1>3. OwnAdmin'
  BY <1>1 DEF ScreensInv, OwnAdmin
<1>4. RowsMatchTeam'
  BY <1>1 DEF ScreensInv, RowsMatchTeam
<1> QED BY <1>2, <1>3, <1>4 DEF ScreensInv

LEMMA RelaunchRoles ==
    ASSUME TypeOK, RoleInv, NEW c \in Clients, Relaunch(c),
           UNCHANGED <<teamDoc, queue>>
    PROVE  RoleInv'
<1>1. /\ teams'[c] = [t \in Teams |-> NoDoc] /\ copy'[c] = NoDoc
      /\ call'[c] = LaunchCalls /\ isAdmin'[c] = FALSE
      /\ \A e \in Clients \ {c} :
            /\ isAdmin'[e] = isAdmin[e] /\ open'[e] = open[e]
            /\ copy'[e] = copy[e] /\ listed'[e] = listed[e]
            /\ loading'[e] = loading[e]
            /\ teams'[e] = teams[e] /\ call'[e] = call[e]
  BY DEF Relaunch, TypeOK
<1>2. ScreensInv'
  <2>1. screen' = [screen EXCEPT ![c] = "home"]
    BY DEF Relaunch
  <2> QED BY <1>1, <2>1, LeavesTeam DEF RoleInv
<1>3. ServerGood' /\ QueueGood'
  BY DEF RoleInv, DocsInv, ServerGood, QueueGood, GoodDoc
<1>4. CallsGood'
  <2>1. \A s \in Slots : CallGood(LaunchCalls[s])
    BY DEF LaunchCalls, CallGood, Idle
  <2>2. ASSUME NEW e \in Clients, NEW s \in Slots
        PROVE  CallGood(call'[e][s])
    BY <1>1, <2>1 DEF RoleInv, DocsInv, CallsGood
  <2> QED BY <2>2 DEF CallsGood, CallGood, GoodDoc
<1>5. CacheGood'
  <2>1. ASSUME NEW e \in Clients, NEW t \in Teams
        PROVE  GoodDoc(teams'[e][t]) /\ GoodDoc(copy'[e])
    <3>1. CASE e = c
      BY <1>1, <3>1 DEF GoodDoc
    <3>2. CASE e # c
      BY <1>1, <3>2 DEF RoleInv, DocsInv, CacheGood
    <3> QED BY <3>1, <3>2
  <2>2. ASSUME NEW e \in Clients PROVE GoodDoc(copy'[e])
    BY <1>1 DEF GoodDoc, RoleInv, DocsInv, CacheGood
  <2> QED BY <2>1, <2>2 DEF CacheGood, GoodDoc
<1> QED BY <1>2, <1>3, <1>4, <1>5 DEF RoleInv, DocsInv

-----------------------------------------------------------------------------
(* Steps of the phone and the network *)

\* A step of the phone that leaves its screen alone.
LEMMA QuietRoles ==
    ASSUME TypeOK, RoleInv, QueueGood', CallsGood', CacheGood',
           UNCHANGED <<teamDoc, open, copy, isAdmin, screen, listed, loading>>,
           \A c \in Clients : screen[c] \in {"team", "manage"} =>
              /\ teams[c][open[c]] # NoDoc => teams'[c][open[c]] # NoDoc
              /\ \A s \in Slots : call'[c][s].op \in HomeOps
                                  => \E x \in Slots : call[c][x].op \in HomeOps
    PROVE  RoleInv'
<1>1. ScreensInv'
  BY ScreensKept DEF RoleInv
<1>2. ServerGood'
  BY DEF RoleInv, DocsInv, ServerGood, GoodDoc
<1> QED BY <1>1, <1>2 DEF RoleInv, DocsInv

\* One whose only effect is on a query.
LEMMA AnswerRoles ==
    ASSUME TypeOK, RoleInv, NEW c \in Clients, NEW s \in Slots, NEW r,
           CallGood(r), Put(c, s, r),
           r.op \in HomeOps => call[c][s].op \in HomeOps,
           UNCHANGED <<teamDoc, queue, appVars>>
    PROVE  RoleInv'
<1>1. /\ CallsGood'
      /\ \A e \in Clients \ {c} : call'[e] = call[e]
      /\ \A x \in Slots : call'[c][x] = call[c][x] \/ call'[c][x] = r
  BY GoodPut DEF RoleInv, DocsInv
<1>2. QueueGood' /\ CacheGood'
  BY DEF RoleInv, DocsInv, QueueGood, CacheGood, GoodDoc, appVars
<1>3. \A e \in Clients : \A x \in Slots :
         call'[e][x].op \in HomeOps
         => \E y \in Slots : call[e][y].op \in HomeOps
  BY <1>1
<1> QED BY <1>1, <1>2, <1>3, QuietRoles DEF appVars

\* One that writes as well.
LEMMA WriteRoles ==
    ASSUME TypeOK, RoleInv, NEW c \in Clients, NEW s \in Slots, NEW r,
           CallGood(r), Put(c, s, r), r.op \notin HomeOps,
           NEW w \in PendingWrite, Enqueue(c, w),
           w.col = "teams" => GoodDoc(w.doc),
           UNCHANGED <<teamDoc, appVars>>
    PROVE  RoleInv'
<1>1. /\ CallsGood'
      /\ \A e \in Clients \ {c} : call'[e] = call[e]
      /\ \A x \in Slots : call'[c][x] = call[c][x] \/ call'[c][x] = r
  BY GoodPut DEF RoleInv, DocsInv
<1>2. QueueGood' /\ CacheGood'
  BY GoodWrite DEF RoleInv, DocsInv, CacheGood, GoodDoc, appVars
<1>3. \A e \in Clients : \A x \in Slots :
         call'[e][x].op \in HomeOps
         => \E y \in Slots : call[e][y].op \in HomeOps
  BY <1>1
<1> QED BY <1>1, <1>2, <1>3, QuietRoles DEF appVars

\* A user who is in no role of a good document may become a member.
LEMMA GoodJoin ==
    ASSUME NEW d \in TeamDoc, GoodDoc(d), NEW c \in Users,
           \A r \in Roles : c \notin Range(d[r])
    PROVE  LET e == [d EXCEPT !.members = Append(@, c)]
           IN  e \in TeamDoc /\ GoodDoc(e)
<1> DEFINE m == Append(d.members, c)
           e == [d EXCEPT !.members = m]
<1>1. OneRole(d) /\ d.admins # <<>> /\ d.members \in Seq(Users)
  BY NoDocAssumption DEF GoodDoc, TeamDoc
<1>2. c \notin Range(d.members) /\ IsInjective(d.members)
  BY <1>1 DEF OneRole, Roles
<1>3. /\ m \in Seq(Users) /\ IsInjective(m)
      /\ Range(m) = Range(d.members) \cup {c}
  BY <1>1, <1>2, AppendNewcomer
<1> HIDE DEF m
<1>4. e \in TeamDoc
  BY <1>3 DEF TeamDoc
<1>5. /\ e["members"] = m /\ e["admins"] = d["admins"]
      /\ e["blocked"] = d["blocked"]
  BY DEF TeamDoc
<1> HIDE DEF e
<1>6. OneRole(e)
  BY <1>1, <1>3, <1>5 DEF OneRole, Roles
<1>7. GoodDoc(e)
  BY <1>1, <1>5, <1>6 DEF GoodDoc
<1> QED BY <1>4, <1>7 DEF e, m

LEMMA RespondRoles ==
    ASSUME TypeOK, ScreenInv, RoleInv, NEW c \in Clients, NEW s \in Slots,
           Respond(c, s)
    PROVE  RoleInv'
<1> DEFINE r == call[c][s]
<1>1. r \in Request /\ CallGood(r)
  BY DEF TypeOK, RoleInv, DocsInv, CallsGood
<1>2. \A t \in Teams : GoodDoc(TeamView(c, t))
  BY GoodView DEF RoleInv
<1>3. CASE FetchTeams(c, s)
  <2>1. PICK x : /\ Put(c, s, x) /\ x.op \in {"idle", "fetchTeams"}
                 /\ call[c][s].op = "home"
    <3>1. CASE UserTeams(c, c) = <<>>
      BY <1>3, <3>1 DEF FetchTeams, Idle
    <3>2. CASE UserTeams(c, c) # <<>>
      BY <1>3, <3>2 DEF FetchTeams
    <3> QED BY <3>1, <3>2
  <2>2. CallGood(x)
    BY <2>1 DEF CallGood
  <2> QED BY <1>3, <2>1, <2>2, AnswerRoles DEF FetchTeams, HomeOps
<1>4. CASE AnswerTeams(c, s)
  <2> DEFINE docs == [t \in Teams |-> IF t \in Range(r.ids)
                                      THEN TeamView(c, t) ELSE NoDoc]
  <2>1. PICK x : /\ Put(c, s, x) /\ call[c][s].op = "fetchTeams"
                 /\ x = Idle \/ x = [op |-> "replaceTeams", docs |-> docs]
    BY <1>4 DEF AnswerTeams
  <2>2. CallGood(x)
    <3>1. \A t \in Teams : GoodDoc(docs[t])
      BY <1>2 DEF GoodDoc
    <3> HIDE DEF docs
    <3> QED BY <2>1, <3>1 DEF CallGood, Idle
  <2> QED BY <1>4, <2>1, <2>2, AnswerRoles DEF AnswerTeams, HomeOps
<1>5. CASE ReplaceTeams(c, s)
  <2>1. /\ r.op = "replaceTeams" /\ Put(c, s, Idle)
        /\ teams' = [teams EXCEPT ![c] = r.docs]
        /\ UNCHANGED <<teamDoc, queue, open, copy, isAdmin, screen, listed,
                       loading>>
    BY <1>5 DEF ReplaceTeams
  <2>2. screen[c] \notin {"team", "manage"}
    BY <2>1 DEF RoleInv, ScreensInv, Settled, HomeOps
  <2>3. CallGood(Idle) /\ Idle.op \notin HomeOps
    BY DEF CallGood, Idle, HomeOps
  <2>4. /\ CallsGood' /\ \A e \in Clients \ {c} : call'[e] = call[e]
    BY <2>1, <2>3, GoodPut DEF RoleInv, DocsInv
  <2>5. teams'[c] = r.docs /\ \A e \in Clients \ {c} : teams'[e] = teams[e]
    BY <2>1 DEF TypeOK
  <2>6. CacheGood'
    <3>1. ASSUME NEW e \in Clients, NEW t \in Teams
          PROVE  GoodDoc(teams'[e][t])
      BY <1>1, <2>1, <2>5 DEF CallGood, RoleInv, DocsInv, CacheGood
    <3> QED BY <2>1, <3>1 DEF RoleInv, DocsInv, CacheGood, GoodDoc
  <2>7. QueueGood'
    BY <2>1 DEF RoleInv, DocsInv, QueueGood, GoodDoc
  <2> QED BY <2>1, <2>2, <2>4, <2>5, <2>6, <2>7, QuietRoles
<1>6. CASE PhotoStored(c, s)
  <2>1. /\ r.op = "upload" /\ NewTeam(c, r.team, r.code)
        /\ Put(c, s, [op |-> "addTeam", team |-> r.team])
        /\ UNCHANGED <<teamDoc, open, copy, isAdmin, screen, listed, loading>>
    BY <1>6 DEF PhotoStored
  <2>2. r.team \in Teams /\ r.code \in Codes
    BY <1>1, <2>1, RequestFields
  <2> DEFINE x == [op |-> "addTeam", team |-> r.team]
  <2>3. CallGood(x) /\ x.op \notin HomeOps
    BY DEF CallGood, HomeOps
  <2> HIDE DEF x
  <2>4. /\ CallsGood'
        /\ \A e \in Clients \ {c} : call'[e] = call[e]
        /\ \A y \in Slots : call'[c][y] = call[c][y] \/ call'[c][y] = x
    BY <2>1, <2>3, GoodPut DEF RoleInv, DocsInv, x
  <2>5. /\ QueueGood'
        /\ \A e \in Clients, t \in Teams : GoodDoc(teams'[e][t])
        /\ \A e \in Clients \ {c} : teams'[e] = teams[e]
        /\ \A t \in Teams : teams[c][t] # NoDoc => teams'[c][t] # NoDoc
    BY <2>1, <2>2, GoodNewTeam DEF RoleInv
  <2>6. CacheGood'
    BY <2>1, <2>5 DEF RoleInv, DocsInv, CacheGood, GoodDoc
  <2>7. ASSUME NEW e \in Clients, screen[e] \in {"team", "manage"}
        PROVE  /\ teams[e][open[e]] # NoDoc => teams'[e][open[e]] # NoDoc
               /\ \A y \in Slots : call'[e][y].op \in HomeOps
                     => \E z \in Slots : call[e][z].op \in HomeOps
    <3>1. open[e] \in Teams
      BY <2>7 DEF ScreenInv
    <3> QED BY <2>3, <2>4, <2>5, <3>1
  <2> QED BY <2>1, <2>4, <2>5, <2>6, <2>7, QuietRoles
<1>7. CASE AnswerJoin(c, s)
  <2> DEFINE found == TeamsWithCode(c, r.code)
  <2>1. PICK x : /\ Put(c, s, x) /\ call[c][s].op = "join"
                 /\ \/ x = Idle
                    \/ \E t \in found : x = [op |-> "joinFound", team |-> t,
                                            doc |-> TeamView(c, t)]
    BY <1>7 DEF AnswerJoin
  <2>2. CallGood(x) /\ x.op \notin HomeOps
    <3>1. CASE x = Idle
      BY <3>1 DEF CallGood, Idle, HomeOps
    <3>2. ASSUME NEW t \in found, x = [op |-> "joinFound", team |-> t,
                                      doc |-> TeamView(c, t)]
          PROVE  CallGood(x) /\ x.op \notin HomeOps
      <4>1. t \in Teams
        BY DEF TeamsWithCode
      <4>2. x.op = "joinFound" /\ x.doc = TeamView(c, t)
        BY <3>2
      <4> QED BY <1>2, <4>1, <4>2 DEF CallGood, HomeOps
    <3> QED BY <2>1, <3>1, <3>2
  <2> QED BY <1>7, <2>1, <2>2, AnswerRoles DEF AnswerJoin
<1>8. CASE FinishJoin(c, s)
  <2>1. r.op = "joinFound" /\ r.team \in Teams /\ r.doc \in TeamDoc
    BY <1>1, <1>8, RequestFields DEF FinishJoin
  <2>2. CASE \E x \in Roles : c \in Range(r.doc[x])
    <3>1. Put(c, s, Idle) /\ UNCHANGED <<teamDoc, queue, appVars>>
      BY <1>8, <2>2 DEF FinishJoin
    <3>2. CallGood(Idle) /\ Idle.op \notin HomeOps
      BY DEF CallGood, Idle, HomeOps
    <3> QED BY <3>1, <3>2, AnswerRoles
  <2>3. CASE ~ \E x \in Roles : c \in Range(r.doc[x])
    <3> DEFINE d == [r.doc EXCEPT !.members = Append(@, c)]
               x == [op |-> "addTeam", team |-> r.team]
    <3>1. /\ Enqueue(c, Write("teams", r.team, d)) /\ Put(c, s, x)
          /\ UNCHANGED <<teamDoc, appVars>>
      BY <1>8, <2>3 DEF FinishJoin
    <3>2. d \in TeamDoc /\ GoodDoc(d)
      <4>1. GoodDoc(r.doc)
        BY <1>1, <2>1 DEF CallGood
      <4>2. \A y \in Roles : c \notin Range(r.doc[y])
        BY <2>3
      <4> HIDE DEF r
      <4> QED BY <2>1, <4>1, <4>2, GoodJoin, ClientsAssumption
    <3> HIDE DEF d
    <3>3. /\ Write("teams", r.team, d) \in PendingWrite
          /\ Write("teams", r.team, d).doc = d
      BY <2>1, <3>2, WriteType DEF Write
    <3>4. CallGood(x) /\ x.op \notin HomeOps
      BY DEF CallGood, HomeOps
    <3> HIDE DEF x
    <3> QED BY <3>1, <3>2, <3>3, <3>4, WriteRoles
  <2> QED BY <2>2, <2>3
<1>9. CASE AnswerAddTeam(c, s)
  <2>1. PICK x : Put(c, s, x) /\ x.op = "addTeamFound"
    BY <1>9 DEF AnswerAddTeam
  <2>2. CallGood(x)
    BY <2>1 DEF CallGood
  <2> QED BY <1>9, <2>1, <2>2, AnswerRoles DEF AnswerAddTeam, HomeOps
<1>10. CASE AddTeamToUser(c, s)
  <2> DEFINE d == [teams |-> Append(r.ids, r.team)]
  <2>1. r.team \in Teams /\ r.ids \in Seq(Teams)
    BY <1>1, <1>10, RequestFields DEF AddTeamToUser
  <2>2. d \in UserDoc
    BY <2>1, AppendProperties DEF UserDoc
  <2>3. /\ Enqueue(c, Write("users", c, d)) /\ Put(c, s, Idle)
        /\ UNCHANGED <<teamDoc, appVars>>
    BY <1>10 DEF AddTeamToUser
  <2> HIDE DEF d
  <2>4. /\ Write("users", c, d) \in PendingWrite
        /\ Write("users", c, d).col # "teams"
    BY <2>2, WriteType, ClientsAssumption DEF Write
  <2>5. CallGood(Idle) /\ Idle.op \notin HomeOps
    BY DEF CallGood, Idle, HomeOps
  <2> QED BY <2>3, <2>4, <2>5, WriteRoles
<1>11. CASE AnswerBlock(c, s)
  <2>1. PICK x : Put(c, s, x) /\ x.op = "blockFound"
    BY <1>11 DEF AnswerBlock
  <2>2. CallGood(x)
    BY <2>1 DEF CallGood
  <2> QED BY <1>11, <2>1, <2>2, AnswerRoles DEF AnswerBlock, HomeOps
<1>12. CASE BlockUserFromTeam(c, s)
  <2>1. r.team \in Teams /\ r.user \in Users /\ r.ids \in Seq(Teams)
    BY <1>1, <1>12, RequestFields DEF BlockUserFromTeam
  <2>2. CASE r.ids = <<>>
    BY <1>12, <2>2, RelaunchRoles DEF BlockUserFromTeam
  <2>3. CASE r.ids # <<>>
    <3> DEFINE d == [teams |-> RemoveLast(r.ids, r.team)]
    <3>1. d \in UserDoc
      BY <2>1, <2>3, RemoveLastType DEF UserDoc
    <3>2. /\ Enqueue(c, Write("users", r.user, d)) /\ Put(c, s, Idle)
          /\ UNCHANGED <<teamDoc, appVars>>
      BY <1>12, <2>3 DEF BlockUserFromTeam
    <3> HIDE DEF d
    <3>3. /\ Write("users", r.user, d) \in PendingWrite
          /\ Write("users", r.user, d).col # "teams"
      BY <2>1, <3>1, WriteType DEF Write
    <3>4. CallGood(Idle) /\ Idle.op \notin HomeOps
      BY DEF CallGood, Idle, HomeOps
    <3> QED BY <3>2, <3>3, <3>4, WriteRoles
  <2> QED BY <2>2, <2>3
<1> QED BY <1>3, <1>4, <1>5, <1>6, <1>7, <1>8, <1>9, <1>10, <1>11, <1>12
        DEF Respond

\* The write that reaches the server was good in the queue.
LEMMA FlushRoles ==
    ASSUME TypeOK, RoleInv, NEW c \in Clients, Flush(c)
    PROVE  RoleInv'
<1> DEFINE q == queue[c]
           w == q[1]
<1>1. /\ q \in Seq(PendingWrite) /\ q # <<>> /\ Head(q) = w
      /\ w \in PendingWrite /\ 1 \in DOMAIN q
      /\ \A i \in DOMAIN Tail(q) : i + 1 \in DOMAIN q /\ Tail(q)[i] = q[i + 1]
  BY HeadTailProperties DEF Flush, TypeOK
<1>2. w.col = "teams" => w.id \in Teams /\ GoodDoc(w.doc)
  BY <1>1 DEF PendingWrite, RoleInv, DocsInv, QueueGood
<1>3. /\ teamDoc' = Commit(teamDoc, "teams", w)
      /\ queue'[c] = Tail(q) /\ \A e \in Clients \ {c} : queue'[e] = queue[e]
      /\ UNCHANGED <<call, appVars>>
  BY <1>1 DEF Flush, TypeOK
<1>4. ServerGood'
  <2>1. ASSUME NEW t \in Teams PROVE GoodDoc(teamDoc'[t])
    <3>1. CASE w.col = "teams" /\ t = w.id
      BY <1>2, <1>3, <3>1 DEF Commit, TypeOK
    <3>2. CASE ~(w.col = "teams" /\ t = w.id)
      <4>1. teamDoc'[t] = teamDoc[t]
        BY <1>2, <1>3, <3>2 DEF Commit, TypeOK
      <4> QED BY <4>1 DEF RoleInv, DocsInv, ServerGood
    <3> QED BY <3>1, <3>2
  <2> QED BY <2>1 DEF ServerGood, GoodDoc
<1>5. QueueGood'
  <2>1. ASSUME NEW e \in Clients, NEW i \in DOMAIN queue'[e],
               queue'[e][i].col = "teams"
        PROVE  GoodDoc(queue'[e][i].doc)
    <3>1. CASE e = c
      <4>1. i + 1 \in DOMAIN q /\ queue'[e][i] = q[i + 1]
        BY <1>1, <1>3, <3>1
      <4>2. \A j \in DOMAIN q : q[j].col = "teams" => GoodDoc(q[j].doc)
        BY DEF RoleInv, DocsInv, QueueGood
      <4> QED BY <2>1, <4>1, <4>2
    <3>2. CASE e # c
      BY <1>3, <2>1, <3>2 DEF RoleInv, DocsInv, QueueGood
    <3> QED BY <3>1, <3>2
  <2> QED BY <2>1 DEF QueueGood, GoodDoc
<1>6. CallsGood' /\ CacheGood'
  BY <1>3 DEF RoleInv, DocsInv, CallsGood, CacheGood, CallGood, GoodDoc, appVars
<1>7. ScreensInv'
  BY <1>3, ScreensKept DEF RoleInv, appVars
<1> QED BY <1>4, <1>5, <1>6, <1>7 DEF RoleInv, DocsInv

-----------------------------------------------------------------------------
(* The user screen *)

\* A row that arrives or fails.
LEMMA RowRoles ==
    ASSUME TypeOK, RoleInv, NEW c \in Clients, NEW r \in Roles, NEW u \in Users,
           LoadRow(c, r, u) \/ FailRow(c, r, u)
    PROVE  RoleInv'
<1>1. UNCHANGED <<teamDoc, queue, call, teams, open, copy, isAdmin, screen>>
  BY DEF LoadRow, FailRow
<1>2. DocsInv'
  BY <1>1 DEF RoleInv, DocsInv, ServerGood, QueueGood, CallsGood, CacheGood,
              CallGood, GoodDoc
<1>3. Settled' /\ OwnAdmin'
  BY <1>1 DEF RoleInv, ScreensInv, Settled, OwnAdmin
<1>4. ASSUME NEW e \in Clients, NEW x \in Roles, NEW v \in Users
      PROVE  /\ listed'[e][x][v] + loading'[e][x][v]
                   <= listed[e][x][v] + loading[e][x][v]
             /\ listed'[e][x][v] + loading'[e][x][v] \in Nat
             /\ listed[e][x][v] + loading[e][x][v] \in Nat
  <2>1. /\ listed[e][x][v] \in Nat /\ loading[e][x][v] \in Nat
        /\ loading \in [Clients -> [Roles -> [Users -> Nat]]]
        /\ listed \in [Clients -> [Roles -> [Users -> Nat]]]
    <3>1. /\ loading \in [Clients -> [Roles -> [Users -> Nat]]]
          /\ listed \in [Clients -> [Roles -> [Users -> Nat]]]
      BY DEF TypeOK
    <3> QED BY <3>1
  <2>2. /\ loading[c][r][u] > 0
        /\ loading' = [loading EXCEPT ![c][r][u] = @ - 1]
    BY DEF LoadRow, FailRow
  <2>3. \/ listed' = [listed EXCEPT ![c][r][u] = @ + 1]
        \/ listed' = listed
    BY DEF LoadRow, FailRow
  <2>4. loading'[e][x][v] = IF e = c /\ x = r /\ v = u
                            THEN loading[e][x][v] - 1 ELSE loading[e][x][v]
    BY <2>1, <2>2
  <2>5. \/ listed'[e][x][v] = IF e = c /\ x = r /\ v = u
                              THEN listed[e][x][v] + 1 ELSE listed[e][x][v]
        \/ listed'[e][x][v] = listed[e][x][v]
    BY <2>1, <2>3
  <2> QED BY <2>1, <2>2, <2>4, <2>5
<1>5. RowsMatchTeam'
  <2> SUFFICES ASSUME NEW e \in Clients, screen[e] = "manage",
                      NEW x \in Roles, NEW v \in Users
               PROVE  /\ listed'[e][x][v] + loading'[e][x][v] <= 1
                      /\ listed'[e][x][v] + loading'[e][x][v] > 0
                         => v \in Range(copy[e][x])
    BY <1>1 DEF RowsMatchTeam
  <2>1. /\ listed[e][x][v] + loading[e][x][v] <= 1
        /\ listed[e][x][v] + loading[e][x][v] > 0 => v \in Range(copy[e][x])
    BY DEF RoleInv, ScreensInv, RowsMatchTeam
  <2> QED BY <1>4, <2>1
<1> QED BY <1>2, <1>3, <1>5 DEF RoleInv, ScreensInv

\* Manage appears: one query for everybody in a list, and none is in flight
\* for the rows of before.
LEMMA ManageRoles ==
    ASSUME Patient, TypeOK, ScreenInv, RoleInv, NEW c \in Clients, OpenManage(c)
    PROVE  RoleInv'
<1>1. /\ UNCHANGED <<teamDoc, queue, call, teams, open, copy, isAdmin>>
      /\ screen' = [screen EXCEPT ![c] = "manage"]
      /\ screen[c] \in {"team", "manage"} /\ isAdmin[c]
      /\ loading[c] = NoRows
  BY DEF OpenManage
<1>2. DocsInv'
  BY <1>1 DEF RoleInv, DocsInv, ServerGood, QueueGood, CallsGood, CacheGood,
              CallGood, GoodDoc
<1>3. screen'[c] = "manage" /\ \A e \in Clients \ {c} : screen'[e] = screen[e]
  BY <1>1 DEF TypeOK
<1>4. Settled'
  BY <1>1, <1>3 DEF RoleInv, ScreensInv, Settled
<1>5. OwnAdmin'
  BY <1>1, <1>3 DEF RoleInv, ScreensInv, OwnAdmin
<1>6. copy[c] \in TeamDoc /\ OneRole(copy[c])
  <2>1. copy[c] \in TeamDoc
    BY <1>1 DEF ScreenInv
  <2> QED BY <2>1, NoDocAssumption DEF RoleInv, DocsInv, CacheGood, GoodDoc
<1>7. ASSUME NEW r \in Roles, NEW u \in Users
      PROVE  /\ listed'[c][r][u] + loading'[c][r][u] <= 1
             /\ listed'[c][r][u] + loading'[c][r][u] > 0
                => u \in Range(copy[c][r])
  <2>1. copy[c][r] \in Seq(Users) /\ IsInjective(copy[c][r])
    BY <1>6, DocLists DEF OneRole
  <2>2. /\ Occurrences(copy[c][r], u) \in Nat
        /\ Occurrences(copy[c][r], u) <= 1
        /\ Occurrences(copy[c][r], u) > 0 => u \in Range(copy[c][r])
    BY <2>1, OccurrencesInjective
  <2>3. listed'[c][r][u] = 0
    BY DEF OpenManage, NoRows, TypeOK
  <2>4. loading[c][r][u] = 0
    BY <1>1 DEF NoRows
  <2>5. loading'[c][r][u] = loading[c][r][u] + Occurrences(copy[c][r], u)
    BY DEF OpenManage, TypeOK
  <2> QED BY <2>2, <2>3, <2>4, <2>5
<1>8. RowsMatchTeam'
  <2>1. \A e \in Clients \ {c} : /\ listed'[e] = listed[e]
                                 /\ loading'[e] = loading[e]
    BY DEF OpenManage, TypeOK
  <2> QED BY <1>1, <1>3, <1>7, <2>1 DEF RoleInv, ScreensInv, RowsMatchTeam
<1> QED BY <1>2, <1>4, <1>5, <1>8 DEF RoleInv, ScreensInv

\* A good edit of the open team reaches the queue, the cache and the copy.
LEMMA EditRoles ==
    ASSUME TypeOK, ScreenInv, RoleInv, NEW c \in Clients, screen[c] = "manage",
           NEW d \in TeamDoc, GoodDoc(d), EditTeam(c, d)
    PROVE  /\ QueueGood' /\ CacheGood'
           /\ copy'[c] = d /\ \A e \in Clients \ {c} : copy'[e] = copy[e]
           /\ \A e \in Clients \ {c} : teams'[e] = teams[e]
           /\ teams'[c][open[c]] # NoDoc
<1>1. open[c] \in Teams /\ teams[c][open[c]] # NoDoc
  BY DEF ScreenInv, RoleInv, ScreensInv, Settled
<1>2. /\ Enqueue(c, Write("teams", open[c], d))
      /\ teams' = [teams EXCEPT ![c][open[c]] = d]
      /\ copy' = [copy EXCEPT ![c] = d]
  BY <1>1 DEF EditTeam
<1>3. QueueGood'
  <2>1. /\ Write("teams", open[c], d) \in PendingWrite
        /\ Write("teams", open[c], d).doc = d
    BY <1>1, WriteType DEF Write
  <2> QED BY <1>2, <2>1, GoodWrite DEF RoleInv, DocsInv
<1>4. /\ copy'[c] = d /\ \A e \in Clients \ {c} : copy'[e] = copy[e]
      /\ \A e \in Clients \ {c} : teams'[e] = teams[e]
      /\ teams'[c][open[c]] = d
      /\ \A t \in Teams \ {open[c]} : teams'[c][t] = teams[c][t]
  BY <1>1, <1>2 DEF TypeOK
<1>5. CacheGood'
  <2>1. ASSUME NEW e \in Clients PROVE GoodDoc(copy'[e])
    BY <1>4 DEF RoleInv, DocsInv, CacheGood
  <2>2. ASSUME NEW e \in Clients, NEW t \in Teams PROVE GoodDoc(teams'[e][t])
    BY <1>4 DEF RoleInv, DocsInv, CacheGood
  <2> QED BY <2>1, <2>2 DEF CacheGood, GoodDoc
<1> QED BY <1>3, <1>4, <1>5, NoDocAssumption

\* What TappedRowMoves says of one step.
TappedStep ==
    \A c \in Clients, r \in Roles, u \in Users :
       /\ screen[c] = "manage" /\ screen'[c] = "manage"
       /\ u \in Range(copy[c][r]) /\ u \notin Range(copy'[c][r])
       => listed'[c][r][u] < listed[c][r][u]

\* A row is tapped that is not the admin's own, or it is not an admin's.
LEMMA MoveRowRoles ==
    ASSUME TypeOK, ScreenInv, RoleInv, NEW c \in Clients, NEW u \in Users,
           NEW from \in Roles, NEW to \in Roles, from # to,
           from = "admins" => u # c, MoveRow(c, u, from, to)
    PROVE  RoleInv' /\ TappedStep
<1> DEFINE d == copy[c]
           x == [d EXCEPT ![from] = RemoveLast(@, u), ![to] = Append(@, u)]
<1>1. /\ screen[c] = "manage" /\ listed[c][from][u] > 0
      /\ d \in TeamDoc /\ OneRole(d) /\ c \in Range(d.admins)
  <2>1. screen[c] = "manage" /\ listed[c][from][u] > 0
    BY DEF MoveRow
  <2>2. d \in TeamDoc
    BY <2>1 DEF ScreenInv
  <2>3. OneRole(d)
    BY <2>2, NoDocAssumption DEF RoleInv, DocsInv, CacheGood, GoodDoc
  <2>4. c \in Range(d.admins)
    BY <2>1 DEF RoleInv, ScreensInv, OwnAdmin
  <2> QED BY <2>1, <2>2, <2>3, <2>4
<1>2. ASSUME NEW r \in Roles, NEW v \in Users
      PROVE  /\ listed[c][r][v] \in Nat /\ loading[c][r][v] \in Nat
             /\ listed[c][r][v] + loading[c][r][v] <= 1
             /\ listed[c][r][v] + loading[c][r][v] > 0 => v \in Range(d[r])
  BY <1>1 DEF RoleInv, ScreensInv, RowsMatchTeam, TypeOK
<1>3. u \in Range(d[from]) /\ d[from] # <<>>
  <2>1. u \in Range(d[from])
    BY <1>1, <1>2
  <2> QED BY <2>1 DEF Range
<1>4. /\ x \in TeamDoc /\ OneRole(x)
      /\ Range(x[from]) = Range(d[from]) \ {u}
      /\ Range(x[to]) = Range(d[to]) \cup {u}
      /\ \A r \in Roles \ {from, to} : x[r] = d[r]
  <2>1. x = [d EXCEPT ![from] = RemoveLast(@, u), ![to] = Append(@, u)]
    OBVIOUS
  <2>2. d \in TeamDoc /\ OneRole(d) /\ u \in Range(d[from])
    BY <1>1, <1>3
  <2> HIDE DEF x, d
  <2>3. Moved(d, x, from, to, u)
    BY <2>1, <2>2, MovedRoles
  <2> QED BY <2>3 DEF Moved
<1>5. EditTeam(c, x)
  BY <1>3 DEF MoveRow
<1>6. /\ UNCHANGED <<teamDoc, open, isAdmin, screen, loading>>
      /\ listed' = [listed EXCEPT ![c][from][u] = @ - 1, ![c][to][u] = @ + 1]
      /\ \/ UNCHANGED call
         \/ Ask(c, [op |-> "block", team |-> open[c], user |-> u])
  BY <1>3 DEF MoveRow
<1> HIDE DEF x
<1>7. c \in Range(x["admins"])
  BY <1>1, <1>4 DEF Roles
<1>8. GoodDoc(x)
  BY <1>4, <1>7 DEF GoodDoc, Range
<1>9. /\ QueueGood' /\ CacheGood'
      /\ copy'[c] = x /\ \A e \in Clients \ {c} : copy'[e] = copy[e]
      /\ \A e \in Clients \ {c} : teams'[e] = teams[e]
      /\ teams'[c][open[c]] # NoDoc
  BY <1>1, <1>4, <1>5, <1>8, EditRoles
<1>10. /\ CallsGood'
       /\ \A e \in Clients \ {c} : call'[e] = call[e]
       /\ \A s \in Slots : \/ call'[c][s] = call[c][s]
                           \/ call'[c][s].op \notin HomeOps
  <2>1. CASE UNCHANGED call
    BY <2>1 DEF RoleInv, DocsInv, CallsGood, CallGood, GoodDoc
  <2>2. CASE Ask(c, [op |-> "block", team |-> open[c], user |-> u])
    <3> DEFINE r == [op |-> "block", team |-> open[c], user |-> u]
    <3>1. CallGood(r) /\ r.op \notin HomeOps
      BY DEF CallGood, HomeOps
    <3> HIDE DEF r
    <3>2. /\ CallsGood'
          /\ \A e \in Clients \ {c} : call'[e] = call[e]
          /\ \A s \in Slots : call'[c][s] = call[c][s] \/ call'[c][s] = r
      BY <2>2, <3>1, GoodAsk DEF RoleInv, DocsInv, r
    <3> QED BY <3>1, <3>2
  <2> QED BY <1>6, <2>1, <2>2
<1>11. /\ \A e \in Clients \ {c} : listed'[e] = listed[e]
       /\ listed'[c][from][u] = listed[c][from][u] - 1
       /\ listed'[c][to][u] = listed[c][to][u] + 1
       /\ \A r \in Roles, v \in Users :
             (r \notin {from, to} \/ v # u) => listed'[c][r][v] = listed[c][r][v]
  <2> DEFINE L == [listed EXCEPT ![c][from][u] = @ - 1]
  <2>1. listed \in [Clients -> [Roles -> [Users -> Nat]]]
    BY DEF TypeOK
  <2>2. /\ listed[c][from][u] - 1 \in Nat
    BY <1>1, <1>2
  <2>3. /\ L \in [Clients -> [Roles -> [Users -> Nat]]]
        /\ L[c][from][u] = listed[c][from][u] - 1
        /\ \A e \in Clients \ {c} : L[e] = listed[e]
        /\ \A r \in Roles, v \in Users :
              r # from \/ v # u => L[c][r][v] = listed[c][r][v]
    BY <2>1, <2>2
  <2>4. listed' = [L EXCEPT ![c][to][u] = @ + 1]
    BY <1>6
  <2> HIDE DEF L
  <2>5. /\ listed'[c][to][u] = L[c][to][u] + 1
        /\ \A e \in Clients \ {c} : listed'[e] = L[e]
        /\ \A r \in Roles, v \in Users :
              r # to \/ v # u => listed'[c][r][v] = L[c][r][v]
    BY <2>3, <2>4
  <2> QED BY <2>3, <2>5
<1>12. Settled'
  <2>1. ASSUME NEW e \in Clients, screen[e] \in {"team", "manage"}
        PROVE  /\ teams'[e][open[e]] # NoDoc
               /\ \A s \in Slots : call'[e][s].op \notin HomeOps
    BY <1>9, <1>10, <2>1 DEF RoleInv, ScreensInv, Settled
  <2> QED BY <1>6, <2>1 DEF Settled
<1>13. OwnAdmin'
  BY <1>1, <1>6, <1>7, <1>9 DEF RoleInv, ScreensInv, OwnAdmin
<1>14. RowsMatchTeam'
  <2>1. ASSUME NEW r \in Roles, NEW v \in Users
        PROVE  /\ listed'[c][r][v] + loading[c][r][v] <= 1
               /\ listed'[c][r][v] + loading[c][r][v] > 0 => v \in Range(x[r])
    <3>1. CASE r \notin {from, to} \/ v # u
      <4>1. v \in Range(d[r]) => v \in Range(x[r])
        BY <1>4, <3>1
      <4> QED BY <1>2, <1>11, <3>1, <4>1
    <3>2. CASE r = from /\ v = u
      BY <1>1, <1>2, <1>11, <3>2
    <3>3. CASE r = to /\ v = u
      <4>1. u \notin Range(d[to])
        BY <1>1, <1>3 DEF OneRole
      <4>2. listed[c][to][u] = 0 /\ loading[c][to][u] = 0
        BY <1>2, <4>1
      <4> QED BY <1>4, <1>11, <3>3, <4>2
    <3> QED BY <3>1, <3>2, <3>3
  <2>2. ASSUME NEW e \in Clients, screen[e] = "manage",
               NEW r \in Roles, NEW v \in Users
        PROVE  /\ listed'[e][r][v] + loading[e][r][v] <= 1
               /\ listed'[e][r][v] + loading[e][r][v] > 0
                  => v \in Range(copy'[e][r])
    BY <1>9, <1>11, <2>1, <2>2 DEF RoleInv, ScreensInv, RowsMatchTeam
  <2> QED BY <1>6, <2>2 DEF RowsMatchTeam
<1>15. ServerGood'
  BY <1>6 DEF RoleInv, DocsInv, ServerGood, GoodDoc
<1>16. TappedStep
  <2> SUFFICES ASSUME NEW e \in Clients, NEW r \in Roles, NEW v \in Users,
                      v \in Range(copy[e][r]), v \notin Range(copy'[e][r])
               PROVE  listed'[e][r][v] < listed[e][r][v]
    BY DEF TappedStep
  <2>1. e = c
    BY <1>9
  <2>2. r = from /\ v = u
    BY <1>4, <1>9, <2>1
  <2> QED BY <1>1, <1>2, <1>11, <2>1, <2>2
<1> QED BY <1>9, <1>10, <1>12, <1>13, <1>14, <1>15, <1>16
        DEF RoleInv, DocsInv, ScreensInv

LEMMA UnblockRoles ==
    ASSUME TypeOK, ScreenInv, RoleInv, NEW c \in Clients, NEW u \in Users,
           Unblock(c, u)
    PROVE  RoleInv' /\ TappedStep
<1> DEFINE d == copy[c]
           x == [d EXCEPT !.blocked = RemoveLast(@, u)]
<1>1. /\ screen[c] = "manage" /\ listed[c]["blocked"][u] > 0
      /\ d \in TeamDoc /\ OneRole(d) /\ c \in Range(d["admins"])
  <2>1. screen[c] = "manage" /\ listed[c]["blocked"][u] > 0
    BY DEF Unblock
  <2>2. d \in TeamDoc
    BY <2>1 DEF ScreenInv
  <2>3. OneRole(d)
    BY <2>2, NoDocAssumption DEF RoleInv, DocsInv, CacheGood, GoodDoc
  <2>4. c \in Range(d["admins"])
    BY <2>1 DEF RoleInv, ScreensInv, OwnAdmin
  <2> QED BY <2>1, <2>2, <2>3, <2>4
<1>2. ASSUME NEW r \in Roles, NEW v \in Users
      PROVE  /\ listed[c][r][v] \in Nat /\ loading[c][r][v] \in Nat
             /\ listed[c][r][v] + loading[c][r][v] <= 1
             /\ listed[c][r][v] + loading[c][r][v] > 0 => v \in Range(d[r])
  BY <1>1 DEF RoleInv, ScreensInv, RowsMatchTeam, TypeOK
<1>3. u \in Range(d["blocked"]) /\ d["blocked"] # <<>>
  <2>1. "blocked" \in Roles
    BY DEF Roles
  <2>2. u \in Range(d["blocked"])
    BY <1>1, <1>2, <2>1
  <2> QED BY <2>2 DEF Range
<1>4. Unblocked(d, x, u)
  <2>1. x = [d EXCEPT !.blocked = RemoveLast(@, u)]
    OBVIOUS
  <2> HIDE DEF x, d
  <2> QED BY <1>1, <1>3, <2>1, UnblockedRoles
<1>5. EditTeam(c, x)
  BY <1>3 DEF Unblock
<1>6. /\ UNCHANGED <<teamDoc, call, open, isAdmin, screen, loading>>
      /\ listed' = [listed EXCEPT ![c]["blocked"][u] = @ - 1]
  BY <1>3 DEF Unblock
<1> HIDE DEF x
<1>7. x \in TeamDoc /\ GoodDoc(x) /\ c \in Range(x["admins"])
  BY <1>1, <1>4 DEF Unblocked, GoodDoc, Range
<1>8. /\ QueueGood' /\ CacheGood'
      /\ copy'[c] = x /\ \A e \in Clients \ {c} : copy'[e] = copy[e]
      /\ \A e \in Clients \ {c} : teams'[e] = teams[e]
      /\ teams'[c][open[c]] # NoDoc
  BY <1>1, <1>5, <1>7, EditRoles
<1>9. /\ \A e \in Clients \ {c} : listed'[e] = listed[e]
      /\ listed'[c]["blocked"][u] = listed[c]["blocked"][u] - 1
      /\ \A r \in Roles, v \in Users :
            (r # "blocked" \/ v # u) => listed'[c][r][v] = listed[c][r][v]
  <2>1. /\ listed \in [Clients -> [Roles -> [Users -> Nat]]]
        /\ "blocked" \in Roles
    BY DEF TypeOK, Roles
  <2> QED BY <1>6, <2>1
<1>10. \A r \in Roles, v \in Users :
          r # "blocked" \/ v # u => (v \in Range(d[r]) => v \in Range(x[r]))
  BY <1>4 DEF Unblocked, Roles
<1>11. RowsMatchTeam'
  <2>1. ASSUME NEW r \in Roles, NEW v \in Users
        PROVE  /\ listed'[c][r][v] + loading[c][r][v] <= 1
               /\ listed'[c][r][v] + loading[c][r][v] > 0 => v \in Range(x[r])
    <3>1. CASE r # "blocked" \/ v # u
      BY <1>2, <1>9, <1>10, <3>1
    <3>2. CASE r = "blocked" /\ v = u
      BY <1>1, <1>2, <1>9, <3>2
    <3> QED BY <3>1, <3>2
  <2>2. ASSUME NEW e \in Clients, screen[e] = "manage",
               NEW r \in Roles, NEW v \in Users
        PROVE  /\ listed'[e][r][v] + loading[e][r][v] <= 1
               /\ listed'[e][r][v] + loading[e][r][v] > 0
                  => v \in Range(copy'[e][r])
    BY <1>8, <1>9, <2>1, <2>2 DEF RoleInv, ScreensInv, RowsMatchTeam
  <2> QED BY <1>6, <2>2 DEF RowsMatchTeam
<1>12. Settled'
  BY <1>6, <1>8 DEF RoleInv, ScreensInv, Settled
<1>13. OwnAdmin'
  BY <1>1, <1>6, <1>7, <1>8 DEF RoleInv, ScreensInv, OwnAdmin
<1>14. ServerGood' /\ CallsGood'
  BY <1>6 DEF RoleInv, DocsInv, ServerGood, CallsGood, CallGood, GoodDoc
<1>15. TappedStep
  <2> SUFFICES ASSUME NEW e \in Clients, NEW r \in Roles, NEW v \in Users,
                      v \in Range(copy[e][r]), v \notin Range(copy'[e][r])
               PROVE  listed'[e][r][v] < listed[e][r][v]
    BY DEF TappedStep
  <2>1. e = c
    BY <1>8
  <2>2. r = "blocked" /\ v = u
    BY <1>8, <1>10, <2>1
  <2> QED BY <1>1, <1>2, <1>9, <2>1, <2>2
<1> QED BY <1>8, <1>11, <1>12, <1>13, <1>14, <1>15
        DEF RoleInv, DocsInv, ScreensInv

\* The details are written with the lists as they are.
LEMMA DetailsRoles ==
    ASSUME TypeOK, ScreenInv, RoleInv, NEW c \in Clients, EditDetails(c)
    PROVE  RoleInv' /\ copy' = copy
<1>1. /\ screen[c] = "manage" /\ EditTeam(c, copy[c])
      /\ UNCHANGED <<teamDoc, call, open, isAdmin, screen, listed, loading>>
  BY DEF EditDetails
<1>2. copy[c] \in TeamDoc /\ GoodDoc(copy[c])
  BY <1>1 DEF ScreenInv, RoleInv, DocsInv, CacheGood
<1>3. /\ QueueGood' /\ CacheGood'
      /\ \A e \in Clients \ {c} : teams'[e] = teams[e]
      /\ teams'[c][open[c]] # NoDoc
  BY <1>1, <1>2, EditRoles
<1>4. copy' = copy
  BY <1>1 DEF EditTeam, TypeOK
<1>5. CallsGood'
  BY <1>1 DEF RoleInv, DocsInv, CallsGood, CallGood, GoodDoc
<1> QED BY <1>1, <1>3, <1>4, <1>5, QuietRoles

-----------------------------------------------------------------------------
(* Home, the forms and the open team *)

\* A row of Home is tapped once the list is loaded.
LEMMA OpenRoles ==
    ASSUME Patient, TypeOK, RoleInv, NEW c \in Clients, NEW t \in Teams,
           OpenTeam(c, t)
    PROVE  RoleInv'
<1>1. /\ screen[c] = "home" /\ teams[c][t] # NoDoc
      /\ \A s \in Slots : call[c][s].op \notin HomeOps
      /\ UNCHANGED <<teamDoc, queue, call, teams, listed, loading>>
  BY DEF OpenTeam
<1>2. /\ open'[c] = t /\ copy'[c] = teams[c][t] /\ screen'[c] = "team"
      /\ \A e \in Clients \ {c} : /\ open'[e] = open[e] /\ copy'[e] = copy[e]
                                  /\ screen'[e] = screen[e]
                                  /\ isAdmin'[e] = isAdmin[e]
  BY DEF OpenTeam, TypeOK
<1>3. isAdmin'[c] => c \in Range(copy'[c].admins)
  <2>1. isAdmin[c] = FALSE
    BY <1>1 DEF RoleInv, ScreensInv, OwnAdmin, TypeOK
  <2>2. isAdmin'[c] = (isAdmin[c] \/ c \in Range(teams[c][t].admins))
    BY DEF OpenTeam, TypeOK
  <2> QED BY <1>2, <2>1, <2>2
<1>4. CacheGood'
  <2>1. ASSUME NEW e \in Clients PROVE GoodDoc(copy'[e])
    BY <1>2 DEF RoleInv, DocsInv, CacheGood
  <2> QED BY <1>1, <2>1 DEF RoleInv, DocsInv, CacheGood, GoodDoc
<1>5. ServerGood' /\ QueueGood' /\ CallsGood'
  BY <1>1 DEF RoleInv, DocsInv, ServerGood, QueueGood, CallsGood, CallGood,
              GoodDoc
<1>6. Settled'
  BY <1>1, <1>2 DEF RoleInv, ScreensInv, Settled
<1>7. OwnAdmin'
  BY <1>2, <1>3 DEF RoleInv, ScreensInv, OwnAdmin
<1>8. RowsMatchTeam'
  BY <1>1, <1>2 DEF RoleInv, ScreensInv, RowsMatchTeam
<1> QED BY <1>4, <1>5, <1>6, <1>7, <1>8 DEF RoleInv, DocsInv, ScreensInv

\* Home appears, or a form is sent: the client shows no team afterwards.
LEMMA AwayRoles ==
    ASSUME TypeOK, RoleInv, NEW c \in Clients, NEW t, NEW k,
           \/ HomeAppear(c)
           \/ /\ t \in Teams /\ k \in Codes
              /\ CreateTeam(c, t, k) \/ UploadPhoto(c, t, k)
           \/ JoinTeam(c, k)
    PROVE  RoleInv' /\ copy' = copy
<1>1. /\ UNCHANGED <<teamDoc, open, copy, listed, loading>>
      /\ \A e \in Clients \ {c} : isAdmin'[e] = isAdmin[e]
      /\ isAdmin'[c] = FALSE
  <2>1. screen[c] \in {"home", "form"} => isAdmin[c] = FALSE
    BY DEF RoleInv, ScreensInv, OwnAdmin, TypeOK
  <2>2. CASE HomeAppear(c)
    BY <2>2 DEF HomeAppear, TypeOK
  <2>3. CASE CreateTeam(c, t, k)
    BY <2>1, <2>3 DEF CreateTeam
  <2>4. CASE UploadPhoto(c, t, k)
    BY <2>1, <2>4 DEF UploadPhoto
  <2>5. CASE JoinTeam(c, k)
    BY <2>1, <2>5 DEF JoinTeam
  <2> QED BY <2>2, <2>3, <2>4, <2>5
<1>2. PICK x \in {"home", "form"} : screen' = [screen EXCEPT ![c] = x]
  BY DEF HomeAppear, CreateTeam, UploadPhoto, JoinTeam
<1>3. PICK r : Ask(c, r) /\ r.op \in {"home", "addTeam", "upload", "join"}
  <2>1. CASE HomeAppear(c)
    BY <2>1 DEF HomeAppear
  <2>2. CASE CreateTeam(c, t, k)
    BY <2>2 DEF CreateTeam
  <2>3. CASE UploadPhoto(c, t, k)
    BY <2>3 DEF UploadPhoto
  <2>4. CASE JoinTeam(c, k)
    BY <2>4 DEF JoinTeam
  <2> QED BY <2>1, <2>2, <2>3, <2>4
<1>4. CallsGood' /\ \A e \in Clients \ {c} : call'[e] = call[e]
  <2>1. CallGood(r)
    BY <1>3 DEF CallGood
  <2> QED BY <1>3, <2>1, GoodAsk DEF RoleInv, DocsInv
<1>5. /\ QueueGood'
      /\ \A e \in Clients, y \in Teams : GoodDoc(teams'[e][y])
      /\ \A e \in Clients \ {c} : teams'[e] = teams[e]
  <2>1. CASE t \in Teams /\ k \in Codes /\ CreateTeam(c, t, k)
    BY <2>1, GoodNewTeam DEF CreateTeam, RoleInv
  <2>2. CASE ~(t \in Teams /\ k \in Codes /\ CreateTeam(c, t, k))
    <3>1. UNCHANGED <<queue, teams>>
      BY <2>2 DEF HomeAppear, UploadPhoto, JoinTeam
    <3> QED BY <3>1 DEF RoleInv, DocsInv, QueueGood, CacheGood, GoodDoc
  <2> QED BY <2>1, <2>2
<1>6. CacheGood'
  BY <1>1, <1>5 DEF RoleInv, DocsInv, CacheGood, GoodDoc
<1>7. ScreensInv'
  BY <1>1, <1>2, <1>4, <1>5, LeavesTeam DEF RoleInv
<1>8. ServerGood'
  BY <1>1 DEF RoleInv, DocsInv, ServerGood, GoodDoc
<1> QED BY <1>1, <1>4, <1>5, <1>6, <1>7, <1>8 DEF RoleInv, DocsInv

-----------------------------------------------------------------------------
(* The theorems *)

LEMMA TapRoles ==
    ASSUME Patient, TypeOK, ScreenInv, RoleInv, NEW c \in Clients, Tap(c)
    PROVE  RoleInv' /\ TappedStep
<1>1. ASSUME NEW t, NEW k,
             \/ HomeAppear(c)
             \/ /\ t \in Teams /\ k \in Codes
                /\ CreateTeam(c, t, k) \/ UploadPhoto(c, t, k)
             \/ JoinTeam(c, k)
      PROVE  RoleInv' /\ TappedStep
  BY <1>1, AwayRoles DEF TappedStep
<1>2. ASSUME NEW t \in Teams, OpenTeam(c, t)
      PROVE  RoleInv' /\ TappedStep
  <2>1. RoleInv'
    BY <1>2, OpenRoles
  <2>2. /\ screen[c] # "manage"
        /\ \A e \in Clients \ {c} : copy'[e] = copy[e]
    BY <1>2 DEF OpenTeam, TypeOK
  <2> QED BY <2>1, <2>2 DEF TappedStep
<1>3. CASE OpenManage(c)
  BY <1>3, ManageRoles DEF OpenManage, TappedStep
<1>4. ASSUME NEW u \in Users,
             Promote(c, u) \/ Demote(c, u) \/ BlockAdmin(c, u) \/ BlockMember(c, u)
      PROVE  RoleInv' /\ TappedStep
  BY <1>4, MoveRowRoles DEF Promote, Demote, BlockAdmin, BlockMember, Roles
<1>5. ASSUME NEW u \in Users, Unblock(c, u)
      PROVE  RoleInv' /\ TappedStep
  BY <1>5, UnblockRoles
<1>6. CASE EditDetails(c)
  BY <1>6, DetailsRoles DEF TappedStep
<1>7. HomeAppear(c) => RoleInv' /\ TappedStep
  BY <1>1
<1>8. \A t \in Teams, k \in Codes :
         CreateTeam(c, t, k) \/ UploadPhoto(c, t, k) => RoleInv' /\ TappedStep
  BY <1>1
<1>9. \A k \in Codes : JoinTeam(c, k) => RoleInv' /\ TappedStep
  BY <1>1
<1> QED BY <1>2, <1>3, <1>4, <1>5, <1>6, <1>7, <1>8, <1>9 DEF Tap

\* A relaunched client is at Home.
LEMMA RelaunchMoves ==
    ASSUME TypeOK, NEW c \in Clients, Relaunch(c)
    PROVE  TappedStep
<1>1. screen'[c] = "home" /\ \A e \in Clients \ {c} : copy'[e] = copy[e]
  BY DEF Relaunch, TypeOK
<1> QED BY <1>1 DEF TappedStep

LEMMA InitRoles == Init => RoleInv
<1> SUFFICES ASSUME Init PROVE RoleInv
  OBVIOUS
<1>1. ServerGood
  BY StartAssumption DEF Init, ServerGood, GoodDoc
<1>2. QueueGood /\ CallsGood /\ CacheGood
  BY DEF Init, QueueGood, CallsGood, CallGood, CacheGood, GoodDoc,
         LaunchCalls, Idle
<1>3. ScreensInv
  BY DEF Init, ScreensInv, Settled, OwnAdmin, RowsMatchTeam
<1> QED BY <1>1, <1>2, <1>3 DEF RoleInv, DocsInv

LEMMA NextRoles ==
    ASSUME Patient, TypeOK, ScreenInv, RoleInv, [Next]_vars
    PROVE  RoleInv' /\ TappedStep
<1>1. CASE UNCHANGED vars
  BY <1>1 DEF vars, RoleInv, DocsInv, ServerGood, QueueGood, CallsGood,
              CallGood, CacheGood, GoodDoc, ScreensInv, Settled, OwnAdmin,
              RowsMatchTeam, TappedStep
<1>2. ASSUME NEW c \in Clients, Tap(c)
      PROVE  RoleInv' /\ TappedStep
  BY <1>2, TapRoles
<1>3. ASSUME NEW c \in Clients, NEW s \in Slots, Respond(c, s)
      PROVE  RoleInv' /\ TappedStep
  <2>1. RoleInv'
    BY <1>3, RespondRoles
  <2>2. TappedStep
    <3>1. UNCHANGED copy \/ Relaunch(c)
      BY <1>3, RespondType
    <3> QED BY <3>1, RelaunchMoves DEF TappedStep
  <2> QED BY <2>1, <2>2
<1>4. ASSUME NEW c \in Clients, NEW s \in Slots, FailCall(c, s)
      PROVE  RoleInv' /\ TappedStep
  <2>1. CallGood(Idle) /\ Idle.op \notin HomeOps
    BY DEF CallGood, Idle, HomeOps
  <2>2. RoleInv'
    BY <1>4, <2>1, AnswerRoles DEF FailCall
  <2> QED BY <1>4, <2>2 DEF FailCall, appVars, TappedStep
<1>5. ASSUME NEW c \in Clients, NEW r \in Roles, NEW u \in Users,
             LoadRow(c, r, u) \/ FailRow(c, r, u)
      PROVE  RoleInv' /\ TappedStep
  BY <1>5, RowRoles DEF LoadRow, FailRow, TappedStep
<1>6. ASSUME NEW c \in Clients, Flush(c)
      PROVE  RoleInv' /\ TappedStep
  BY <1>6, FlushRoles DEF Flush, appVars, TappedStep
<1>7. ASSUME NEW c \in Clients, Crash(c)
      PROVE  RoleInv' /\ TappedStep
  BY <1>7, RelaunchRoles, RelaunchMoves DEF Crash
<1> QED BY <1>1, <1>2, <1>3, <1>4, <1>5, <1>6, <1>7 DEF Next

\* All documents are good, and every screen edits its own team's lists, as
\* long as users wait for Home's list and for the rows of the user screen.
LEMMA RolesInvariant ==
    ASSUME Patient
    PROVE  Spec => [](TypeOK /\ ScreenInv /\ RoleInv)
<1>1. Init => TypeOK /\ ScreenInv /\ RoleInv
  BY InitType, InitRoles
<1>2. TypeOK /\ ScreenInv /\ RoleInv /\ [Next]_vars
      => (TypeOK /\ ScreenInv /\ RoleInv)'
  BY NextType, NextRoles
<1> QED BY <1>1, <1>2, PTL DEF Spec

\* No interleaving of admins' stale edits, joins, blocks and crashes leaves a
\* team on the server without an admin.
THEOREM AlwaysAnAdmin ==
    ASSUME Patient
    PROVE  Spec => []HasAdmin
<1>1. RoleInv => HasAdmin
  BY DEF RoleInv, DocsInv, ServerGood, GoodDoc, HasAdmin
<1> QED BY <1>1, RolesInvariant, PTL

\* Nor does it list anybody in two roles, or twice.
THEOREM OneRoleEach ==
    ASSUME Patient
    PROVE  Spec => []RolesDisjoint
<1>1. RoleInv => RolesDisjoint
  BY DEF RoleInv, DocsInv, ServerGood, GoodDoc, RolesDisjoint
<1> QED BY <1>1, RolesInvariant, PTL

\* The rows of the user screen, loaded or loading, are the lists they edit.
THEOREM RowsAreTheLists ==
    ASSUME Patient
    PROVE  Spec => []RowsMatchTeam
<1>1. RoleInv => RowsMatchTeam
  BY DEF RoleInv, ScreensInv
<1> QED BY <1>1, RolesInvariant, PTL

\* On the user screen nobody leaves a list but by their own row.
THEOREM OnlyTappedRowMoves ==
    ASSUME Patient
    PROVE  Spec => TappedRowMoves
<1>1. TypeOK /\ ScreenInv /\ RoleInv /\ [Next]_vars => TappedStep
  BY NextRoles
<1> QED BY <1>1, RolesInvariant, PTL DEF Spec, TappedRowMoves, TappedStep
=============================================================================
