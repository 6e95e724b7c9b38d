------------------------------ MODULE Session ------------------------------
(***************************************************************************)
(* One phone and the accounts that use it in turn.                         *)
(*                                                                         *)
(* Signing up, signing in, the two fetches that follow and the two steps   *)
(* of deleting an account are all answered later, and the answers go to    *)
(* shared objects whoever is signed in by then.                            *)
(***************************************************************************)
EXTENDS Naturals, FiniteSets

CONSTANTS
    Users,      \* user ids; an id is given to one account, ever
    Nobody,     \* no user
    HasTeams,   \* those with an account at the start, and with teams
    Slots,      \* as many as calls may be in flight
    Patient,    \* TRUE: users wait for every answer before they go on
    MaxFailures,\* bound on the calls that fail
    MaxCrashes  \* bound on the times the app is killed

ASSUME NobodyAssumption == Nobody \notin Users
ASSUME HasTeamsAssumption == HasTeams \subseteq Users
ASSUME PatientAssumption == Patient \in BOOLEAN
ASSUME SessionBoundsAssumption ==
    MaxFailures \in Nat /\ MaxCrashes \in Nat /\ Slots \subseteq Nat

VARIABLES
    account,    \* Firebase Auth's account of each user id
    docs,       \* the users collection
    currentUser,\* Auth.auth().currentUser, kept on disk
    user,       \* UserController.user
    teams,      \* whose teams TeamController.teams holds
    call,       \* per slot: the call in flight; here if the screen that made
                \* it is still in front
    screen,     \* which view controller is in front
    failures,   \* how many calls have failed
    crashes     \* how often the app was killed

vars == <<account, docs, currentUser, user, teams, call, screen, failures,
          crashes>>

Idle == [op |-> "idle", who |-> Nobody, here |-> FALSE]
Ops == {"createAccount", "accountCreated", "signIn", "fetchUser", "fetchTeams",
        "reauthenticate", "deleteUser"}
Call == [op : Ops, who : Users, here : BOOLEAN]

\* Types of all the state.
TypeOK ==
    /\ account \in [Users -> {"new", "open", "deleted"}]
    /\ docs \subseteq Users
    /\ currentUser \in Users \cup {Nobody}
    /\ user \in Users \cup {Nobody}
    /\ teams \in Users \cup {Nobody}
    /\ call \in [Slots -> Call \cup {Idle}]
    /\ screen \in {"auth", "home", "settings"}
    /\ failures \in 0..MaxFailures
    /\ crashes \in 0..MaxCrashes

-----------------------------------------------------------------------------
(* Helpers *)

Resting == \A s \in Slots : call[s] = Idle
Wait == Patient => Resting

Free(f) == {s \in Slots : f[s] = Idle}
Ready(op, u) == [op |-> op, who |-> u, here |-> TRUE]

\* f and one more call, r.
With(f, r) ==
    LET s == CHOOSE t \in Free(f) : \A o \in Free(f) : t <= o
    IN  [f EXCEPT ![s] = r]

\* f once another screen is in front.
Left(f) == [s \in Slots |-> [f[s] EXCEPT !.here = FALSE]]

Put(s, r) == call' = [call EXCEPT ![s] = r]
Ask(r) == Free(call) # {} /\ call' = With(call, r)

\* Home appears with calls f in flight: the signed in user is fetched.
Home(u, f) ==
    /\ screen' = "home"
    /\ IF u = Nobody THEN call' = Left(f)
       ELSE Free(f) # {} /\ call' = With(Left(f), Ready("fetchUser", u))

Init ==
    /\ account = [u \in Users |-> IF u \in HasTeams THEN "open" ELSE "new"]
    /\ docs = HasTeams
    /\ currentUser = Nobody
    /\ user = Nobody
    /\ teams = Nobody
    /\ call = [s \in Slots |-> Idle]
    /\ screen = "auth"
    /\ failures = 0
    /\ crashes = 0

-----------------------------------------------------------------------------
(* Sign up and login *)

SignUp(u) ==
    /\ screen = "auth" /\ Wait /\ account[u] = "new"
    /\ Ask(Ready("createAccount", u))
    /\ UNCHANGED <<account, docs, currentUser, user, teams, screen, failures,
                   crashes>>

\* The account exists and is signed in before the app hears of it ...
CreateAccount(s) ==
    /\ call[s].op = "createAccount" /\ account[call[s].who] = "new"
    /\ account' = [account EXCEPT ![call[s].who] = "open"]
    /\ currentUser' = call[s].who
    /\ Put(s, [call[s] EXCEPT !.op = "accountCreated"])
    /\ UNCHANGED <<docs, user, teams, screen, failures, crashes>>

\* ... and writes the user's document.  The form gives way to Home.
CreateUser(s) ==
    /\ call[s].op = "accountCreated"
    /\ docs' = docs \cup {call[s].who}
    /\ user' = call[s].who
    /\ IF call[s].here THEN Home(currentUser, [call EXCEPT ![s] = Idle])
       ELSE Put(s, Idle) /\ UNCHANGED screen
    /\ UNCHANGED <<account, currentUser, teams, failures, crashes>>

Login(u) ==
    /\ screen = "auth" /\ Wait /\ account[u] = "open"
    /\ Ask(Ready("signIn", u))
    /\ UNCHANGED <<account, docs, currentUser, user, teams, screen, failures,
                   crashes>>

\* Signed in: the login screen fetches the user, and gives way to Home, which
\* fetches the user as well.
SignedIn(s) ==
    /\ call[s].op = "signIn" /\ account[call[s].who] = "open"
    /\ currentUser' = call[s].who
    /\ LET f == [call EXCEPT ![s].op = "fetchUser"]
       IN  IF call[s].here THEN Home(call[s].who, f)
           ELSE call' = f /\ UNCHANGED screen
    /\ UNCHANGED <<account, docs, user, teams, failures, crashes>>

\* A slip in FetchUser: the teams are only fetched for a new user.
FetchUserOnce(s) ==
    /\ call[s].op = "fetchUser"
    /\ LET u == call[s].who
       IN  /\ user' = IF u \in docs THEN u ELSE user
           /\ Put(s, IF u \in docs \cap HasTeams /\ u # user
                     THEN Ready("fetchTeams", u) ELSE Idle)
    /\ UNCHANGED <<account, docs, currentUser, teams, screen, failures,
                   crashes>>

\* A slip in FetchUser: only the first user is kept.
FetchUserFirst(s) ==
    /\ call[s].op = "fetchUser"
    /\ LET u == call[s].who
       IN  /\ user' = IF u \in docs /\ user = Nobody THEN u ELSE user
           /\ Put(s, IF u \in docs \cap HasTeams
                     THEN Ready("fetchTeams", u) ELSE Idle)
    /\ UNCHANGED <<account, docs, currentUser, teams, screen, failures,
                   crashes>>

\* A slip in FetchUser: the teams asked for are those of the user kept so far.
FetchUserLate(s) ==
    /\ call[s].op = "fetchUser"
    /\ LET u == call[s].who
       IN  /\ user' = IF u \in docs THEN u ELSE user
           /\ Put(s, IF u \in docs \cap HasTeams
                     THEN Ready("fetchTeams", user) ELSE Idle)
    /\ UNCHANGED <<account, docs, currentUser, teams, screen, failures,
                   crashes>>

\* The user document arrived: it becomes the cached user, and its teams are
\* asked for.  No answer follows if it has none.
FetchUser(s) ==
    /\ call[s].op = "fetchUser"
    /\ LET u == call[s].who
       IN  /\ user' = IF u \in docs THEN u ELSE user
           /\ Put(s, IF u \in docs \cap HasTeams
                     THEN Ready("fetchTeams", u) ELSE Idle)
    /\ UNCHANGED <<account, docs, currentUser, teams, screen, failures,
                   crashes>>

FetchTeams(s) ==
    /\ call[s].op = "fetchTeams"
    /\ teams' = call[s].who
    /\ Put(s, Idle)
    /\ UNCHANGED <<account, docs, currentUser, user, screen, failures,
                   crashes>>

-----------------------------------------------------------------------------
(* Settings *)

OpenSettings ==
    /\ screen = "home" /\ Wait
    /\ screen' = "settings"
    /\ call' = Left(call)
    /\ UNCHANGED <<account, docs, currentUser, user, teams, failures, crashes>>

\* Back to Home, which fetches again.
BackHome ==
    /\ screen = "settings" /\ Wait
    /\ Home(currentUser, call)
    /\ UNCHANGED <<account, docs, currentUser, user, teams, failures, crashes>>

\* A slip in Logout: the teams stay.
LogoutKeepingTeams ==
    /\ screen = "settings" /\ Wait
    /\ currentUser' = Nobody
    /\ screen' = "auth"
    /\ call' = Left(call)
    /\ UNCHANGED <<account, docs, user, teams, failures, crashes>>

\* The teams are emptied; the cached user stays, and so do calls in flight.
Logout ==
    /\ screen = "settings" /\ Wait
    /\ currentUser' = Nobody
    /\ teams' = Nobody
    /\ screen' = "auth"
    /\ call' = Left(call)
    /\ UNCHANGED <<account, docs, user, failures, crashes>>

DeleteAccount ==
    /\ screen = "settings" /\ Wait /\ currentUser # Nobody
    /\ Ask(Ready("reauthenticate", currentUser))
    /\ UNCHANGED <<account, docs, currentUser, user, teams, screen, failures,
                   crashes>>

\* A slip in DeleteUserInfo: only the account is deleted.
DeleteUserInfoSkipped(s) ==
    /\ call[s].op = "reauthenticate"
    /\ Put(s, IF currentUser = Nobody THEN Idle
              ELSE [call[s] EXCEPT !.op = "deleteUser", !.who = currentUser])
    /\ UNCHANGED <<account, docs, currentUser, user, teams, screen, failures,
                   crashes>>

\* The password was right: the document of the cached user is deleted, and
\* the account of the current one is asked to go.
DeleteUserInfo(s) ==
    /\ call[s].op = "reauthenticate"
    /\ docs' = docs \ {user}
    /\ Put(s, IF currentUser = Nobody THEN Idle
              ELSE [call[s] EXCEPT !.op = "deleteUser", !.who = currentUser])
    /\ UNCHANGED <<account, currentUser, user, teams, screen, failures,
                   crashes>>

\* The account is gone.  Neither the cached user nor the teams are emptied.
\* Only the screen that asked can put the login in front.
DeleteUser(s) ==
    /\ call[s].op = "deleteUser"
    /\ account' = [account EXCEPT ![call[s].who] = "deleted"]
    /\ currentUser' = IF currentUser = call[s].who THEN Nobody ELSE currentUser
    /\ LET f == [call EXCEPT ![s] = Idle]
       IN  IF call[s].here THEN screen' = "auth" /\ call' = Left(f)
           ELSE call' = f /\ UNCHANGED screen
    /\ UNCHANGED <<docs, user, teams, failures, crashes>>

-----------------------------------------------------------------------------
(* Failure *)

\* A call is answered with an error, which is only logged.
FailCall(s) ==
    /\ failures < MaxFailures /\ call[s].op \in Ops \ {"accountCreated"}
    /\ failures' = failures + 1
    /\ Put(s, Idle)
    /\ UNCHANGED <<account, docs, currentUser, user, teams, screen, crashes>>

\* The process is killed and launched again.  Whoever was signed in still is.
Crash ==
    /\ crashes < MaxCrashes
    /\ crashes' = crashes + 1
    /\ user' = Nobody
    /\ teams' = Nobody
    /\ IF currentUser # Nobody THEN Home(currentUser, [s \in Slots |-> Idle])
       ELSE screen' = "auth" /\ call' = [s \in Slots |-> Idle]
    /\ UNCHANGED <<account, docs, currentUser, failures>>

-----------------------------------------------------------------------------
Respond(s) ==
    \/ CreateAccount(s) \/ CreateUser(s) \/ SignedIn(s)
    \/ FetchUser(s) \/ FetchTeams(s)
    \/ DeleteUserInfo(s) \/ DeleteUser(s)

Next ==
    \/ \E u \in Users : SignUp(u) \/ Login(u)
    \/ OpenSettings \/ BackHome \/ Logout \/ DeleteAccount
    \/ \E s \in Slots : Respond(s) \/ FailCall(s)
    \/ Crash

Spec == Init /\ [][Next]_vars

\* Every call is answered.
FairSpec == Spec /\ \A s \in Slots : WF_vars(Respond(s))

-----------------------------------------------------------------------------
(* Properties *)

\* As long as no call has failed, Home shows a user with teams those teams and
\* not the last user's, once nothing is in flight: what the login and Home
\* fetch replaces what others have left behind.
OwnTeams ==
    (failures = 0 /\ Resting /\ screen = "home"
     /\ currentUser \in HasTeams \cap docs)
    => teams = currentUser

\* As long as nothing has failed, accounts and user documents come and go
\* together: between calls nobody has one without the other.
DocsMatchAccounts ==
    (failures = 0 /\ crashes = 0 /\ Resting)
    => docs = {u \in Users : account[u] = "open"}

\* As long as no call has failed and the app was never killed, typing one's
\* password deletes one's own document and nobody else's, although the document
\* is that of the user fetched last.
DeletesOwnInfo ==
    [][failures = 0 /\ crashes = 0 => \A u \in docs \ docs' : \E s \in Slots :
           call[s].op = "reauthenticate" /\ call[s].who = u]_docs

\* A user with teams who signs in gets to see them, signs out first, or a call
\* has failed.
TeamsShown ==
    \A u \in HasTeams :
        (currentUser = u /\ u \in docs)
        ~> (teams = u \/ currentUser # u \/ u \notin docs \/ failures > 0)

\* Whatever calls fail and whenever the app is killed, users who wait for
\* answers leave no teams on the phone for the next one to see, unless they
\* deleted their account.
OnlyDeletedLinger ==
    (currentUser # Nobody /\ teams \notin {Nobody, currentUser})
    => account[teams] = "deleted"
=============================================================================
