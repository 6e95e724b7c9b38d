--------------------------- MODULE Membership ---------------------------
(***************************************************************************)
(* Who belongs to which team.                                              *)
(*                                                                         *)
(* A team document lists its admins, members and blocked users; a user     *)
(* document lists the user's teams.  No transaction ties them: each client *)
(* reads documents with a query, edits its copy on a later callback and    *)
(* writes the whole document back through its own mutation queue.          *)
(***************************************************************************)
EXTENDS Firestore, Lists

CONSTANTS
    Users,          \* everybody with an account
    Clients,        \* the users whose app runs
    Teams,          \* team ids (UUIDs)
    Codes,          \* six digit join codes
    Slots,          \* 1..n: a client has at most n queries in flight
    Starts,         \* the documents there may be at the start
    Patient,        \* TRUE: users let a screen load before they move on
    Failures,       \* the queries that may fail
    MaxEdits,       \* bound on the taps that write documents
    MaxRows,        \* bound on the queries in flight for one user's row
    MaxCrashes      \* bound on the times an app is killed

Roles == {"admins", "members", "blocked"}

TeamDoc == [admins : Seq(Users), members : Seq(Users), blocked : Seq(Users),
            code : Codes]
UserDoc == [teams : Seq(Teams)]

\* A document lists nobody in two roles or twice in one.
OneRole(doc) ==
    /\ \A r \in Roles : IsInjective(doc[r])
    /\ \A r, s \in Roles : r # s => Range(doc[r]) \cap Range(doc[s]) = {}

ASSUME ClientsAssumption == Clients \subseteq Users
ASSUME NoDocAssumption == /\ NoDoc \notin TeamDoc
                          /\ NoDoc \notin Teams
                          /\ NoDoc \notin UserDoc
ASSUME PatienceAssumption == Patient \in BOOLEAN
ASSUME FailuresAssumption ==
    Failures \subseteq {"home", "fetchTeams", "upload", "join", "addTeam",
                        "block", "row"}
ASSUME BoundsAssumption == /\ MaxEdits \in Nat
                           /\ MaxRows \in Nat
                           /\ MaxCrashes \in Nat
                           /\ Slots \subseteq Nat
ASSUME StartAssumption ==
    \A s \in Starts :
        /\ s.teams \in [Teams -> TeamDoc \cup {NoDoc}]
        /\ s.users \in [Users -> UserDoc]
        /\ \A u \in Users : \A t \in Range(s.users[u].teams) :
              s.teams[t] # NoDoc
        /\ \A t \in Teams : s.teams[t] # NoDoc =>
              OneRole(s.teams[t]) /\ s.teams[t].admins # <<>>

VARIABLES
    teamDoc,    \* the server's teams collection
    userDoc,    \* the server's users collection: who is in which team
    queue,      \* per client: writes not yet sent to the server
    call,       \* per client and slot: the query in flight and its answer
    teams,      \* TeamController.teams, by id
    open,       \* the id of EventController.team
    copy,       \* EventController.team
    isAdmin,    \* EventController.isAdmin
    screen,     \* which view controller is in front
    listed,     \* UserController.admins, .members, .blocked: copies per user
    loading,    \* fetchUsers queries in flight, per role and user
    edits,      \* how many editing taps there have been
    crashes     \* how often an app was killed or trapped

vars == <<teamDoc, userDoc, queue, call, teams, open, copy, isAdmin, screen,
          listed, loading, edits, crashes>>
appVars == <<teams, open, copy, isAdmin, screen, listed, loading>>

-----------------------------------------------------------------------------
(* The queries a client can have in flight, before and after the answer.   *)

Idle == [op |-> "idle"]
HomeOps == {"home", "fetchTeams", "replaceTeams"}

Request ==
    [op : {"idle", "home"}]
    \cup [op : {"fetchTeams"}, ids : Seq(Teams)]
    \cup [op : {"replaceTeams"}, docs : [Teams -> TeamDoc \cup {NoDoc}]]
    \cup [op : {"upload"}, team : Teams, code : Codes]
    \cup [op : {"join"}, code : Codes]
    \cup [op : {"joinFound"}, team : Teams, doc : TeamDoc]
    \cup [op : {"addTeam"}, team : Teams]
    \cup [op : {"addTeamFound"}, team : Teams, ids : Seq(Teams)]
    \cup [op : {"block"}, team : Teams, user : Users]
    \cup [op : {"blockFound"}, team : Teams, user : Users, ids : Seq(Teams)]

PendingWrite ==
    [col : {"teams"}, id : Teams, doc : TeamDoc]
    \cup [col : {"users"}, id : Users, doc : UserDoc]

\* Types of all the state.
TypeOK ==
    /\ teamDoc \in [Teams -> TeamDoc \cup {NoDoc}]
    /\ userDoc \in [Users -> UserDoc]
    /\ queue \in [Clients -> Seq(PendingWrite)]
    /\ call \in [Clients -> [Slots -> Request]]
    /\ teams \in [Clients -> [Teams -> TeamDoc \cup {NoDoc}]]
    /\ open \in [Clients -> Teams \cup {NoDoc}]
    /\ copy \in [Clients -> TeamDoc \cup {NoDoc}]
    /\ isAdmin \in [Clients -> BOOLEAN]
    /\ screen \in [Clients -> {"home", "form", "team", "manage"}]
    /\ listed \in [Clients -> [Roles -> [Users -> Nat]]]
    /\ loading \in [Clients -> [Roles -> [Users -> Nat]]]
    /\ edits \in 0..MaxEdits
    /\ crashes \in Nat

-----------------------------------------------------------------------------
(* Helpers *)

NoRows == [r \in Roles |-> [u \in Users |-> 0]]

TeamView(c, t) == LocalView(teamDoc, queue[c], "teams", t)
UserTeams(c, u) == LocalView(userDoc, queue[c], "users", u).teams

Enqueue(c, w) == queue' = [queue EXCEPT ![c] = Append(@, w)]

FreeSlot(c, s) == /\ call[c][s] = Idle
                  /\ \A r \in Slots : r < s => call[c][r] # Idle
Put(c, s, r) == call' = [call EXCEPT ![c][s] = r]
Ask(c, r) == \E s \in Slots : FreeSlot(c, s) /\ Put(c, s, r)

CountEdit == edits < MaxEdits /\ edits' = edits + 1

\* The state of an app that has just been launched: nothing cached, Home
\* appears and fetches the user.  Only the mutation queue is on disk.
LaunchCalls == [s \in Slots |-> IF \A r \in Slots : s <= r
                                THEN [op |-> "home"] ELSE Idle]
Relaunch(c) ==
    /\ crashes' = crashes + 1
    /\ call' = [call EXCEPT ![c] = LaunchCalls]
    /\ teams' = [teams EXCEPT ![c] = [t \in Teams |-> NoDoc]]
    /\ open' = [open EXCEPT ![c] = NoDoc]
    /\ copy' = [copy EXCEPT ![c] = NoDoc]
    /\ isAdmin' = [isAdmin EXCEPT ![c] = FALSE]
    /\ screen' = [screen EXCEPT ![c] = "home"]
    /\ listed' = [listed EXCEPT ![c] = NoRows]
    /\ loading' = [loading EXCEPT ![c] = NoRows]

\* editTeam: nothing happens unless the team is still in the cached list.
EditTeam(c, doc) ==
    IF teams[c][open[c]] = NoDoc
    THEN UNCHANGED <<queue, teams, copy>>
    ELSE /\ Enqueue(c, Write("teams", open[c], doc))
         /\ teams' = [teams EXCEPT ![c][open[c]] = doc]
         /\ copy' = [copy EXCEPT ![c] = doc]

Init ==
    /\ \E s \in Starts : teamDoc = s.teams /\ userDoc = s.users
    /\ queue = [c \in Clients |-> <<>>]
    /\ call = [c \in Clients |-> LaunchCalls]
    /\ teams = [c \in Clients |-> [t \in Teams |-> NoDoc]]
    /\ open = [c \in Clients |-> NoDoc]
    /\ copy = [c \in Clients |-> NoDoc]
    /\ isAdmin = [c \in Clients |-> FALSE]
    /\ screen = [c \in Clients |-> "home"]
    /\ listed = [c \in Clients |-> NoRows]
    /\ loading = [c \in Clients |-> NoRows]
    /\ edits = 0
    /\ crashes = 0

-----------------------------------------------------------------------------
(* Home: fetch the user, then the user's teams, then replace the list.     *)

\* Home comes back in front: it fetches the user and clears isAdmin.
HomeAppear(c) ==
    /\ screen[c] # "home"
    /\ Ask(c, [op |-> "home"])
    /\ screen' = [screen EXCEPT ![c] = "home"]
    /\ isAdmin' = [isAdmin EXCEPT ![c] = FALSE]
    /\ UNCHANGED <<teamDoc, userDoc, queue, teams, open, copy, listed, loading,
                   edits, crashes>>

\* The user arrived: one query per team id.  With no ids nothing is asked
\* and the old list stays.
FetchTeams(c, s) ==
    /\ call[c][s].op = "home"
    /\ Put(c, s, IF UserTeams(c, c) = <<>>
                 THEN Idle ELSE [op |-> "fetchTeams", ids |-> UserTeams(c, c)])
    /\ UNCHANGED <<teamDoc, userDoc, queue, appVars, edits, crashes>>

\* The team queries are answered.  The call never completes if one of the
\* teams is missing.
AnswerTeams(c, s) ==
    /\ call[c][s].op = "fetchTeams"
    /\ LET ids == Range(call[c][s].ids)
       IN  Put(c, s, IF \E t \in ids : TeamView(c, t) = NoDoc THEN Idle ELSE
                [op |-> "replaceTeams",
                 docs |-> [t \in Teams |->
                              IF t \in ids THEN TeamView(c, t) ELSE NoDoc]])
    /\ UNCHANGED <<teamDoc, userDoc, queue, appVars, edits, crashes>>

ReplaceTeams(c, s) ==
    /\ call[c][s].op = "replaceTeams"
    /\ teams' = [teams EXCEPT ![c] = call[c][s].docs]
    /\ Put(c, s, Idle)
    /\ UNCHANGED <<teamDoc, userDoc, queue, open, copy, isAdmin, screen,
                   listed, loading, edits, crashes>>

\* A row of Home is tapped.  isAdmin is only ever set here, never cleared.
OpenTeam(c, t) ==
    /\ screen[c] = "home" /\ teams[c][t] # NoDoc
    /\ Patient => \A s \in Slots : call[c][s].op \notin HomeOps
    /\ open' = [open EXCEPT ![c] = t]
    /\ copy' = [copy EXCEPT ![c] = teams[c][t]]
    /\ isAdmin' = [isAdmin EXCEPT ![c] = @ \/ c \in Range(teams[c][t].admins)]
    /\ screen' = [screen EXCEPT ![c] = "team"]
    /\ UNCHANGED <<teamDoc, userDoc, queue, call, teams, listed, loading,
                   edits, crashes>>

-----------------------------------------------------------------------------
(* Create and join *)

\* A team id nobody has drawn yet.
Fresh(t) ==
    /\ teamDoc[t] = NoDoc
    /\ \A c \in Clients :
          /\ Pending(queue[c], "teams", t) = {}
          /\ \A s \in Slots : call[c][s].op = "upload" => call[c][s].team # t

\* The creator is the only admin; the team document is written at once, the
\* creator's own document after a query.
NewTeam(c, t, k) ==
    LET doc == [admins |-> <<c>>, members |-> <<>>, blocked |-> <<>>,
                code |-> k]
    IN  /\ Enqueue(c, Write("teams", t, doc))
        /\ teams' = [teams EXCEPT ![c][t] = doc]

\* Create is tapped on a form without a photo.
CreateTeam(c, t, k) ==
    /\ screen[c] \in {"home", "form"} /\ Fresh(t)
    /\ CountEdit
    /\ NewTeam(c, t, k)
    /\ Ask(c, [op |-> "addTeam", team |-> t])
    /\ screen' = [screen EXCEPT ![c] = "form"]
    /\ UNCHANGED <<teamDoc, userDoc, open, copy, isAdmin, listed, loading,
                   crashes>>

\* With a photo nothing is written before the photo is stored ...
UploadPhoto(c, t, k) ==
    /\ screen[c] \in {"home", "form"} /\ Fresh(t)
    /\ CountEdit
    /\ Ask(c, [op |-> "upload", team |-> t, code |-> k])
    /\ screen' = [screen EXCEPT ![c] = "form"]
    /\ UNCHANGED <<teamDoc, userDoc, queue, teams, open, copy, isAdmin, listed,
                   loading, crashes>>

\* ... and by then the user may be on any screen.
PhotoStored(c, s) ==
    /\ call[c][s].op = "upload"
    /\ NewTeam(c, call[c][s].team, call[c][s].code)
    /\ Put(c, s, [op |-> "addTeam", team |-> call[c][s].team])
    /\ UNCHANGED <<teamDoc, userDoc, open, copy, isAdmin, screen, listed,
                   loading, edits, crashes>>

\* The result of the query by code.
TeamsWithCode(c, k) ==
    {t \in Teams : TeamView(c, t) # NoDoc /\ TeamView(c, t).code = k}

\* A code is confirmed; nothing stops a second tap.
JoinTeam(c, k) ==
    /\ screen[c] \in {"home", "form"}
    /\ CountEdit
    /\ Ask(c, [op |-> "join", code |-> k])
    /\ screen' = [screen EXCEPT ![c] = "form"]
    /\ UNCHANGED <<teamDoc, userDoc, queue, teams, open, copy, isAdmin, listed,
                   loading, crashes>>

\* The query by code is answered.  Only a single match is used.
AnswerJoin(c, s) ==
    /\ call[c][s].op = "join"
    /\ LET found == TeamsWithCode(c, call[c][s].code)
       IN  IF Cardinality(found) = 1
           THEN \E t \in found :
                   Put(c, s, [op |-> "joinFound", team |-> t,
                              doc |-> TeamView(c, t)])
           ELSE Put(c, s, Idle)
    /\ UNCHANGED <<teamDoc, userDoc, queue, appVars, edits, crashes>>

\* A slip in FinishJoin: the answer is not searched for the user.
FinishJoinUnchecked(c, s) ==
    /\ call[c][s].op = "joinFound"
    /\ Enqueue(c, Write("teams", call[c][s].team,
                  [call[c][s].doc EXCEPT !.members = Append(@, c)]))
    /\ Put(c, s, [op |-> "addTeam", team |-> call[c][s].team])
    /\ UNCHANGED <<teamDoc, userDoc, appVars, edits, crashes>>

\* The user is refused if listed, else appended to the members of the answer;
\* all the fields of the answer are written back (a merge, which only spares
\* the image), and then the user's own document is fetched.
FinishJoin(c, s) ==
    /\ call[c][s].op = "joinFound"
    /\ LET t == call[c][s].team
           doc == call[c][s].doc
       IN  IF \E r \in Roles : c \in Range(doc[r])
           THEN Put(c, s, Idle) /\ UNCHANGED queue
           ELSE /\ Enqueue(c, Write("teams", t,
                              [doc EXCEPT !.members = Append(@, c)]))
                /\ Put(c, s, [op |-> "addTeam", team |-> t])
    /\ UNCHANGED <<teamDoc, userDoc, appVars, edits, crashes>>

AnswerAddTeam(c, s) ==
    /\ call[c][s].op = "addTeam"
    /\ Put(c, s, [op |-> "addTeamFound", team |-> call[c][s].team,
                  ids |-> UserTeams(c, c)])
    /\ UNCHANGED <<teamDoc, userDoc, queue, appVars, edits, crashes>>

\* A slip in AddTeamToUser: the list is written back as it was fetched.
AddTeamToUserNoAppend(c, s) ==
    /\ call[c][s].op = "addTeamFound"
    /\ Enqueue(c, Write("users", c, [teams |-> call[c][s].ids]))
    /\ Put(c, s, Idle)
    /\ UNCHANGED <<teamDoc, userDoc, appVars, edits, crashes>>

\* The team id is appended to the fetched list, which is written back whole.
AddTeamToUser(c, s) ==
    /\ call[c][s].op = "addTeamFound"
    /\ Enqueue(c, Write("users", c,
                  [teams |-> Append(call[c][s].ids, call[c][s].team)]))
    /\ Put(c, s, Idle)
    /\ UNCHANGED <<teamDoc, userDoc, appVars, edits, crashes>>

-----------------------------------------------------------------------------
(* Managing the users of the open team *)

\* A slip in OpenManage: the lists are not emptied first.
OpenManageKeepingRows(c) ==
    /\ screen[c] \in {"team", "manage"} /\ isAdmin[c]
    /\ Patient => loading[c] = NoRows
    /\ loading' = [loading EXCEPT ![c] = [r \in Roles |-> [u \in Users |->
                      @[r][u] + Occurrences(copy[c][r], u)]]]
    /\ screen' = [screen EXCEPT ![c] = "manage"]
    /\ UNCHANGED <<teamDoc, userDoc, queue, call, teams, open, copy, isAdmin,
                   listed, edits, crashes>>

\* Manage appears: the three user lists are emptied and one query per listed
\* user starts.  Earlier queries still in flight are not cancelled.
OpenManage(c) ==
    /\ screen[c] \in {"team", "manage"} /\ isAdmin[c]
    /\ Patient => loading[c] = NoRows
    /\ \A r \in Roles, u \in Users :
          loading[c][r][u] + Occurrences(copy[c][r], u) <= MaxRows
    /\ listed' = [listed EXCEPT ![c] = NoRows]
    /\ loading' = [loading EXCEPT ![c] = [r \in Roles |-> [u \in Users |->
                      @[r][u] + Occurrences(copy[c][r], u)]]]
    /\ screen' = [screen EXCEPT ![c] = "manage"]
    /\ UNCHANGED <<teamDoc, userDoc, queue, call, teams, open, copy, isAdmin,
                   edits, crashes>>

\* A slip in LoadRow: an answer is counted again.
LoadRowAgain(c, r, u) ==
    /\ screen[c] = "manage"
    /\ loading' = [loading EXCEPT ![c][r][u] = @ - 1]
    /\ listed' = [listed EXCEPT ![c][r][u] = @ + 1]
    /\ UNCHANGED <<teamDoc, userDoc, queue, call, teams, open, copy, isAdmin,
                   screen, edits, crashes>>

\* One of these queries is answered: its user becomes a row.
LoadRow(c, r, u) ==
    /\ loading[c][r][u] > 0
    /\ loading' = [loading EXCEPT ![c][r][u] = @ - 1]
    /\ listed' = [listed EXCEPT ![c][r][u] = @ + 1]
    /\ UNCHANGED <<teamDoc, userDoc, queue, call, teams, open, copy, isAdmin,
                   screen, edits, crashes>>

\* The row of user u moves from one list to the other, in the lists of the
\* screen and in the open team.  Removing from an empty list kills the app.
MoveRow(c, u, from, to) ==
    /\ screen[c] = "manage"
    /\ listed[c][from][u] > 0
    /\ CountEdit
    /\ IF copy[c][from] = <<>>
       THEN Relaunch(c) /\ UNCHANGED queue
       ELSE /\ listed' = [listed EXCEPT ![c][from][u] = @ - 1,
                                        ![c][to][u] = @ + 1]
            /\ EditTeam(c, [copy[c] EXCEPT ![from] = RemoveLast(@, u),
                                           ![to] = Append(@, u)])
            /\ IF to = "blocked"
               THEN Ask(c, [op |-> "block", team |-> open[c], user |-> u])
               ELSE UNCHANGED call
            /\ UNCHANGED <<open, isAdmin, screen, loading, crashes>>
    /\ UNCHANGED <<teamDoc, userDoc>>

Promote(c, u) == MoveRow(c, u, "members", "admins")
\* A slip in Demote: the own row offers it too.
DemoteAnyRow(c, u) == MoveRow(c, u, "admins", "members")
\* The row of the user's own account offers no action.
Demote(c, u) == u # c /\ MoveRow(c, u, "admins", "members")
BlockAdmin(c, u) == u # c /\ MoveRow(c, u, "admins", "blocked")
BlockMember(c, u) == MoveRow(c, u, "members", "blocked")

Unblock(c, u) ==
    /\ screen[c] = "manage"
    /\ listed[c]["blocked"][u] > 0
    /\ CountEdit
    /\ IF copy[c].blocked = <<>>
       THEN Relaunch(c) /\ UNCHANGED queue
       ELSE /\ listed' = [listed EXCEPT ![c]["blocked"][u] = @ - 1]
            /\ EditTeam(c, [copy[c] EXCEPT !.blocked = RemoveLast(@, u)])
            /\ UNCHANGED <<call, open, isAdmin, screen, loading, crashes>>
    /\ UNCHANGED <<teamDoc, userDoc>>

\* Name, bio or colour: the whole team is written, lists included.
EditDetails(c) ==
    /\ screen[c] = "manage"
    /\ CountEdit
    /\ EditTeam(c, copy[c])
    /\ UNCHANGED <<teamDoc, userDoc, call, open, isAdmin, screen, listed,
                   loading, crashes>>

AnswerBlock(c, s) ==
    /\ call[c][s].op = "block"
    /\ Put(c, s, [op |-> "blockFound", team |-> call[c][s].team,
                  user |-> call[c][s].user,
                  ids |-> UserTeams(c, call[c][s].user)])
    /\ UNCHANGED <<teamDoc, userDoc, queue, appVars, edits, crashes>>

\* The team leaves the blocked user's document, by index.
BlockUserFromTeam(c, s) ==
    /\ call[c][s].op = "blockFound"
    /\ IF call[c][s].ids = <<>>
       THEN Relaunch(c) /\ UNCHANGED queue
       ELSE /\ Enqueue(c, Write("users", call[c][s].user,
                  [teams |-> RemoveLast(call[c][s].ids, call[c][s].team)]))
            /\ Put(c, s, Idle)
            /\ UNCHANGED <<appVars, crashes>>
    /\ UNCHANGED <<teamDoc, userDoc, edits>>

-----------------------------------------------------------------------------
(* The network and the process *)

\* A slip in Flush: the newest write is sent first.
FlushNewest(c) ==
    /\ queue[c] # <<>>
    /\ LET n == Len(queue[c])
       IN  /\ teamDoc' = Commit(teamDoc, "teams", queue[c][n])
           /\ userDoc' = Commit(userDoc, "users", queue[c][n])
           /\ queue' = [queue EXCEPT ![c] = SubSeq(@, 1, n - 1)]
    /\ UNCHANGED <<call, appVars, edits, crashes>>

\* The oldest pending write of a client reaches the server.
Flush(c) ==
    /\ queue[c] # <<>>
    /\ teamDoc' = Commit(teamDoc, "teams", Head(queue[c]))
    /\ userDoc' = Commit(userDoc, "users", Head(queue[c]))
    /\ queue' = [queue EXCEPT ![c] = Tail(@)]
    /\ UNCHANGED <<call, appVars, edits, crashes>>

\* A query ends with an error or without a document: every handler then
\* returns (or prints) and changes nothing.
FailCall(c, s) ==
    /\ call[c][s].op \in Failures
    /\ Put(c, s, Idle)
    /\ UNCHANGED <<teamDoc, userDoc, queue, appVars, edits, crashes>>

FailRow(c, r, u) ==
    /\ "row" \in Failures
    /\ loading[c][r][u] > 0
    /\ loading' = [loading EXCEPT ![c][r][u] = @ - 1]
    /\ UNCHANGED <<teamDoc, userDoc, queue, call, teams, open, copy, isAdmin,
                   screen, listed, edits, crashes>>

\* The process is killed and launched again.
Crash(c) ==
    /\ crashes < MaxCrashes
    /\ Relaunch(c)
    /\ UNCHANGED <<teamDoc, userDoc, queue, edits>>

-----------------------------------------------------------------------------
\* What the phone does on its own: answers arrive and callbacks run.
Respond(c, s) ==
    \/ FetchTeams(c, s) \/ AnswerTeams(c, s) \/ ReplaceTeams(c, s)
    \/ PhotoStored(c, s)
    \/ AnswerJoin(c, s) \/ FinishJoin(c, s)
    \/ AnswerAddTeam(c, s) \/ AddTeamToUser(c, s)
    \/ AnswerBlock(c, s) \/ BlockUserFromTeam(c, s)

\* What its user does.
Tap(c) ==
    \/ HomeAppear(c)
    \/ \E t \in Teams : OpenTeam(c, t)
    \/ \E t \in Teams, k \in Codes :
          CreateTeam(c, t, k) \/ UploadPhoto(c, t, k)
    \/ \E k \in Codes : JoinTeam(c, k)
    \/ OpenManage(c)
    \/ \E u \in Users : \/ Promote(c, u) \/ Demote(c, u)
                        \/ BlockAdmin(c, u) \/ BlockMember(c, u)
                        \/ Unblock(c, u)
    \/ EditDetails(c)

Next ==
    \E c \in Clients :
        \/ Tap(c)
        \/ \E s \in Slots : Respond(c, s) \/ FailCall(c, s)
        \/ \E r \in Roles, u \in Users : LoadRow(c, r, u) \/ FailRow(c, r, u)
        \/ Flush(c)
        \/ Crash(c)

Spec == Init /\ [][Next]_vars

\* Answers arrive, those on the way to the user's own document at least, and a
\* connected client sends its writes.
Fairness == \A c \in Clients :
    /\ WF_vars(Flush(c))
    /\ \A s \in Slots : WF_vars(AnswerAddTeam(c, s) \/ AddTeamToUser(c, s))
FairSpec == Spec /\ Fairness

-----------------------------------------------------------------------------
(* Properties *)

\* Every team on the server has an admin, whatever admins do to each other
\* from stale copies: nobody's own row offers Demote or Block, and a whole
\* list is written by somebody who is in it.
HasAdmin == \A t \in Teams : teamDoc[t] # NoDoc => teamDoc[t].admins # <<>>

\* On the server nobody has two roles in a team or is listed twice, although
\* joins, promotions and blocks overwrite each other's lists.
RolesDisjoint == \A t \in Teams : teamDoc[t] # NoDoc => OneRole(teamDoc[t])

\* A user document never names a team that is not on the server, at any
\* point of a client's stream of writes and across crashes of the app.
RefIntegrity ==
    \A u \in Users : \A t \in Range(userDoc[u].teams) : teamDoc[t] # NoDoc

\* The rows of the user screen, loaded or still loading, are the lists of the
\* open team: nobody has two rows in a section, and every row's user is in
\* the list that the row's action will edit.
RowsMatchTeam ==
    \A c \in Clients : screen[c] = "manage" =>
        \A r \in Roles, u \in Users :
            /\ listed[c][r][u] + loading[c][r][u] <= 1
            /\ listed[c][r][u] + loading[c][r][u] > 0
               => u \in Range(copy[c][r])

\* While the user screen is up, somebody leaves a list of the open team only
\* when it is their own row that is acted on.
TappedRowMoves ==
    [][\A c \in Clients, r \in Roles, u \in Users :
          /\ screen[c] = "manage" /\ screen'[c] = "manage"
          /\ u \in Range(copy[c][r]) /\ u \notin Range(copy'[c][r])
          => listed'[c][r][u] < listed[c][r][u]]_vars

\* A user the server lists as blocked does not turn up among the members or
\* the admins in one write: that takes an unblock and a new join.
BlockedStaysOut ==
    [][\A t \in Teams, u \in Users :
          teamDoc[t] # NoDoc /\ u \in Range(teamDoc[t].blocked)
          => \A r \in {"members", "admins"} : u \notin Range(teamDoc'[t][r])
      ]_teamDoc

\* A team that was created or joined gets into the user's own document on the
\* server, unless an app is killed in between.
JoinRecorded ==
    \A c \in Clients, t \in Teams :
        (\E s \in Slots : call[c][s].op = "addTeam" /\ call[c][s].team = t)
        ~> (t \in Range(userDoc[c].teams) \/ crashes > 0)
=========================================================================
