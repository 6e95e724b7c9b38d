--------------------------- MODULE SessionProofs ---------------------------
(***************************************************************************)
(* Whose teams and documents a phone shows and deletes.                    *)
(*                                                                         *)
(* The types hold for all users.  What follows holds for those who wait    *)
(* for every answer before they go on: then the calls in flight always     *)
(* belong to the screen in front and to whoever is signed in (CallsFit),   *)
(* and what an answer overwrites is never somebody else's.                 *)
(***************************************************************************)
EXTENDS Session, WellFoundedInduction, TLAPS

Calls == [Slots -> Call \cup {Idle}]

-----------------------------------------------------------------------------
(* Slots *)

\* An empty slot is one whose call is called idle.
LEMMA IdleOp ==
    ASSUME NEW r \in Call \cup {Idle}
    PROVE  /\ (r = Idle) <=> (r.op = "idle")
           /\ (r = Idle) <=> (r.op \notin Ops)
           /\ r # Idle => r \in Call /\ r.who \in Users
<1>1. CASE r = Idle
  BY <1>1 DEF Idle, Ops
<1>2. CASE r \in Call
  <2>1. r.op \in Ops /\ r.who \in Users
    BY <1>2 DEF Call
  <2>2. r.op # "idle" /\ Idle.op = "idle"
    BY <2>1 DEF Ops, Idle
  <2> QED BY <1>2, <2>1, <2>2 DEF Ops
<1> QED BY <1>1, <1>2

\* A new call goes to an empty slot.
LEMMA WithSlot ==
    ASSUME NEW f \in Calls, Free(f) # {}, NEW r
    PROVE  \E s \in Slots : f[s] = Idle /\ With(f, r) = [f EXCEPT ![s] = r]
<1>1. Free(f) \subseteq Nat
  BY SessionBoundsAssumption DEF Free
<1>2. PICK q \in Free(f) : \A y \in Free(f) : ~(<<y, q>> \in OpToRel(<, Nat))
  BY <1>1, NatLessThanWellFounded, WFMin
<1>3. \A o \in Free(f) : q <= o
  <2>1. \A y \in Free(f) : ~(y < q)
    BY <1>1, <1>2 DEF OpToRel
  <2> QED BY <1>1, <2>1
<1> DEFINE s == CHOOSE t \in Free(f) : \A o \in Free(f) : t <= o
<1>4. s \in Free(f)
  BY <1>3
<1>5. With(f, r) = [f EXCEPT ![s] = r]
  BY DEF With
<1> HIDE DEF s
<1> QED BY <1>4, <1>5 DEF Free

LEMMA ReadyCall ==
    ASSUME NEW op \in Ops, NEW u \in Users
    PROVE  Ready(op, u) \in Call
BY DEF Ready, Call

LEMMA AskCalls ==
    ASSUME TypeOK, NEW r \in Call, Ask(r)
    PROVE  \E s \in Slots : /\ call[s] = Idle /\ call' \in Calls
                            /\ call'[s] = r
                            /\ \A x \in Slots \ {s} : call'[x] = call[x]
<1>1. call \in Calls /\ Free(call) # {} /\ call' = With(call, r)
  BY DEF TypeOK, Calls, Ask
<1>2. PICK s \in Slots : call[s] = Idle /\ call' = [call EXCEPT ![s] = r]
  BY <1>1, WithSlot
<1> QED BY <1>1, <1>2 DEF Calls

LEMMA PutCalls ==
    ASSUME TypeOK, NEW s \in Slots, NEW r \in Call \cup {Idle}, Put(s, r)
    PROVE  /\ call' \in Calls /\ call'[s] = r
           /\ \A x \in Slots \ {s} : call'[x] = call[x]
BY DEF TypeOK, Calls, Put

\* Leaving a screen does not change which calls there are.
LEMMA LeftCalls ==
    ASSUME NEW f \in Calls
    PROVE  /\ Left(f) \in Calls
           /\ \A s \in Slots : /\ Left(f)[s].op = f[s].op
                               /\ Left(f)[s].who = f[s].who
<1>1. ASSUME NEW s \in Slots
      PROVE  /\ [f[s] EXCEPT !.here = FALSE] \in Call \cup {Idle}
             /\ [f[s] EXCEPT !.here = FALSE].op = f[s].op
             /\ [f[s] EXCEPT !.here = FALSE].who = f[s].who
  <2>1. CASE f[s] = Idle
    <3> DEFINE r == Idle
    <3>1. r \in [op : {"idle"}, who : {Nobody}, here : BOOLEAN] /\ ~r.here
      BY DEF Idle
    <3> HIDE DEF r
    <3>2. [r EXCEPT !.here = FALSE] = r
      BY <3>1
    <3> QED BY <2>1, <3>2 DEF r
  <2>2. CASE f[s] \in Call
    <3> DEFINE r == f[s]
    <3>1. r \in Call
      BY <2>2
    <3> HIDE DEF r
    <3>2. /\ [r EXCEPT !.here = FALSE] \in Call
          /\ [r EXCEPT !.here = FALSE].op = r.op
          /\ [r EXCEPT !.here = FALSE].who = r.who
      BY <3>1 DEF Call
    <3> QED BY <3>2 DEF r
  <2> QED BY <2>1, <2>2 DEF Calls
<1> QED BY <1>1 DEF Left, Calls

\* Home appears for user u: one more call, for u.
LEMMA HomeCalls ==
    ASSUME NEW f \in Calls, NEW u \in Users, Home(u, f)
    PROVE  /\ call' \in Calls /\ screen' = "home"
           /\ \E s \in Slots :
                 /\ f[s].op = "idle" /\ call'[s] = Ready("fetchUser", u)
                 /\ \A x \in Slots \ {s} : /\ call'[x].op = f[x].op
                                           /\ call'[x].who = f[x].who
<1> DEFINE g == Left(f)
           r == Ready("fetchUser", u)
<1>1. g \in Calls /\ \A s \in Slots : g[s].op = f[s].op /\ g[s].who = f[s].who
  BY LeftCalls
<1>2. screen' = "home" /\ Free(f) # {} /\ call' = With(g, r)
  BY NobodyAssumption DEF Home
<1>3. Free(g) # {}
  <2>1. PICK s \in Slots : f[s] = Idle
    BY <1>2 DEF Free
  <2>2. g[s].op = "idle"
    BY <1>1, <2>1 DEF Idle
  <2>3. g[s] \in Call \cup {Idle}
    BY <1>1 DEF Calls
  <2>4. g[s] = Idle
    BY <2>2, <2>3, IdleOp
  <2> QED BY <2>4 DEF Free
<1> HIDE DEF g
<1>4. PICK s \in Slots : g[s] = Idle /\ call' = [g EXCEPT ![s] = r]
  BY <1>1, <1>2, <1>3, WithSlot
<1>5. r \in Call
  BY ReadyCall DEF Ops
<1> HIDE DEF r
<1>6. f[s].op = "idle"
  BY <1>1, <1>4 DEF Idle
<1>7. call' \in Calls /\ call'[s] = r /\ \A x \in Slots \ {s} : call'[x] = g[x]
  BY <1>1, <1>4, <1>5 DEF Calls
<1> QED BY <1>1, <1>2, <1>6, <1>7 DEF r

-----------------------------------------------------------------------------
(* Types *)

LEMMA HomeType ==
    ASSUME NEW f \in Calls, NEW u \in Users \cup {Nobody}, Home(u, f)
    PROVE  call' \in Calls /\ screen' = "home"
<1>1. CASE u = Nobody
  BY <1>1, LeftCalls DEF Home
<1>2. CASE u \in Users
  BY <1>2, HomeCalls
<1> QED BY <1>1, <1>2

LEMMA RespondType ==
    ASSUME TypeOK, NEW s \in Slots, Respond(s)
    PROVE  TypeOK'
<1> DEFINE r == call[s]
<1>1. call \in Calls /\ r \in Call \cup {Idle}
  BY DEF TypeOK, Calls
<1>2. r.op \in Ops => r \in Call /\ r.who \in Users
  BY <1>1, IdleOp
<1>3. \A op \in Ops, u \in Users : Ready(op, u) \in Call
  BY ReadyCall
<1>4. CASE CreateAccount(s)
  <2>1. r.op = "createAccount" /\ r.who \in Users /\ r \in Call
    BY <1>2, <1>4 DEF CreateAccount, Ops
  <2>2. [r EXCEPT !.op = "accountCreated"] \in Call
    BY <2>1 DEF Call, Ops
  <2>3. call' \in Calls
    BY <1>4, <2>2, PutCalls DEF CreateAccount
  <2> QED BY <1>4, <2>1, <2>3 DEF CreateAccount, TypeOK, Calls
<1>5. CASE CreateUser(s)
  <2>1. r.who \in Users
    BY <1>2, <1>5 DEF CreateUser, Ops
  <2>2. call' \in Calls /\ screen' \in {"auth", "home", "settings"}
    <3>1. CASE r.here
      <4> DEFINE f == [call EXCEPT ![s] = Idle]
      <4>1. f \in Calls
        BY <1>1 DEF Calls
      <4>2. Home(currentUser, f) /\ currentUser \in Users \cup {Nobody}
        BY <1>5, <3>1 DEF CreateUser, TypeOK
      <4> HIDE DEF f
      <4> QED BY <4>1, <4>2, HomeType
    <3>2. CASE ~r.here
      BY <1>5, <3>2, PutCalls DEF CreateUser, TypeOK
    <3> QED BY <3>1, <3>2
  <2> QED BY <1>5, <2>1, <2>2 DEF CreateUser, TypeOK, Calls
<1>6. CASE SignedIn(s)
  <2> DEFINE f == [call EXCEPT ![s].op = "fetchUser"]
  <2>1. r.who \in Users /\ r \in Call
    BY <1>2, <1>6 DEF SignedIn, Ops
  <2>2. f \in Calls
    <3>1. [r EXCEPT !.op = "fetchUser"] \in Call
      BY <2>1 DEF Call, Ops
    <3> QED BY <1>1, <3>1 DEF Calls
  <2>3. \/ Home(r.who, f)
        \/ call' = f /\ UNCHANGED screen
    BY <1>6 DEF SignedIn
  <2> HIDE DEF f
  <2>4. call' \in Calls /\ screen' \in {"auth", "home", "settings"}
    BY <2>1, <2>2, <2>3, HomeType DEF TypeOK
  <2> QED BY <1>6, <2>1, <2>4 DEF SignedIn, TypeOK, Calls
<1>7. CASE FetchUser(s)
  <2>1. r.who \in Users
    BY <1>2, <1>7 DEF FetchUser, Ops
  <2>2. call' \in Calls
    BY <1>3, <1>7, <2>1, PutCalls DEF FetchUser, Ops
  <2> QED BY <1>7, <2>1, <2>2 DEF FetchUser, TypeOK, Calls
<1>8. CASE FetchTeams(s)
  <2>1. r.who \in Users /\ call' \in Calls
    BY <1>2, <1>8, PutCalls DEF FetchTeams, Ops
  <2> QED BY <1>8, <2>1 DEF FetchTeams, TypeOK, Calls
<1>9. CASE DeleteUserInfo(s)
  <2>1. r \in Call
    BY <1>2, <1>9 DEF DeleteUserInfo, Ops
  <2>2. currentUser # Nobody =>
           [r EXCEPT !.op = "deleteUser", !.who = currentUser] \in Call
    BY <2>1 DEF Call, Ops, TypeOK
  <2>3. call' \in Calls
    BY <1>9, <2>2, PutCalls DEF DeleteUserInfo
  <2> QED BY <1>9, <2>3 DEF DeleteUserInfo, TypeOK, Calls
<1>10. CASE DeleteUser(s)
  <2> DEFINE f == [call EXCEPT ![s] = Idle]
  <2>1. f \in Calls
    BY <1>1 DEF Calls
  <2>2. \/ call' = Left(f) /\ screen' = "auth"
        \/ call' = f /\ UNCHANGED screen
    BY <1>10 DEF DeleteUser
  <2> HIDE DEF f
  <2>3. call' \in Calls /\ screen' \in {"auth", "home", "settings"}
    BY <2>1, <2>2, LeftCalls DEF TypeOK
  <2>4. account' \in [Users -> {"new", "open", "deleted"}]
    BY <1>10 DEF DeleteUser, TypeOK
  <2>5. currentUser' \in Users \cup {Nobody}
    BY <1>10 DEF DeleteUser, TypeOK
  <2> QED BY <1>10, <2>3, <2>4, <2>5 DEF DeleteUser, TypeOK, Calls
<1> QED BY <1>4, <1>5, <1>6, <1>7, <1>8, <1>9, <1>10 DEF Respond

LEMMA TapType ==
    ASSUME TypeOK,
           \/ \E u \in Users : SignUp(u) \/ Login(u)
           \/ OpenSettings \/ BackHome \/ Logout \/ DeleteAccount
    PROVE  TypeOK'
<1>1. call \in Calls
  BY DEF TypeOK, Calls
<1>2. ASSUME NEW u \in Users, SignUp(u) \/ Login(u)
      PROVE  TypeOK'
  <2>1. /\ Ready("createAccount", u) \in Call /\ Ready("signIn", u) \in Call
    BY ReadyCall DEF Ops
  <2>2. call' \in Calls
    BY <1>2, <2>1, AskCalls DEF SignUp, Login
  <2> QED BY <1>2, <2>2 DEF SignUp, Login, TypeOK, Calls
<1>3. CASE OpenSettings \/ Logout
  BY <1>1, <1>3, LeftCalls DEF OpenSettings, Logout, TypeOK, Calls
<1>4. CASE BackHome
  <2>1. call' \in Calls /\ screen' = "home"
    BY <1>1, <1>4, HomeType DEF BackHome, TypeOK
  <2> QED BY <1>4, <2>1 DEF BackHome, TypeOK, Calls
<1>5. CASE DeleteAccount
  <2>1. Ready("reauthenticate", currentUser) \in Call
    BY <1>5, ReadyCall DEF DeleteAccount, TypeOK, Ops
  <2>2. call' \in Calls
    BY <1>5, <2>1, AskCalls DEF DeleteAccount
  <2> QED BY <1>5, <2>2 DEF DeleteAccount, TypeOK, Calls
<1> QED BY <1>2, <1>3, <1>4, <1>5

LEMMA FailureType ==
    ASSUME TypeOK, Crash \/ \E s \in Slots : FailCall(s)
    PROVE  TypeOK'
<1>1. ASSUME NEW s \in Slots, FailCall(s)
      PROVE  TypeOK'
  <2>1. call' \in Calls
    BY <1>1, PutCalls DEF FailCall
  <2>2. failures' \in 0..MaxFailures
    BY <1>1, SessionBoundsAssumption DEF FailCall, TypeOK
  <2> QED BY <1>1, <2>1, <2>2 DEF FailCall, TypeOK, Calls
<1>2. CASE Crash
  <2> DEFINE f == [s \in Slots |-> Idle]
  <2>1. f \in Calls
    BY DEF Calls
  <2>2. \/ Home(currentUser, f)
        \/ screen' = "auth" /\ call' = f
    BY <1>2 DEF Crash
  <2> HIDE DEF f
  <2>3. call' \in Calls /\ screen' \in {"auth", "home"}
    BY <2>1, <2>2, HomeType DEF TypeOK
  <2>4. crashes' \in 0..MaxCrashes
    BY <1>2, SessionBoundsAssumption DEF Crash, TypeOK
  <2> QED BY <1>2, <2>3, <2>4 DEF Crash, TypeOK, Calls
<1> QED BY <1>1, <1>2

LEMMA InitType == Init => TypeOK
BY HasTeamsAssumption, SessionBoundsAssumption DEF Init, TypeOK

LEMMA NextType == TypeOK /\ [Next]_vars => TypeOK'
<1> SUFFICES ASSUME TypeOK, [Next]_vars PROVE TypeOK'
  OBVIOUS
<1>1. CASE UNCHANGED vars
  BY <1>1 DEF vars, TypeOK
<1> QED BY <1>1, RespondType, TapType, FailureType DEF Next

\* The state keeps its types, whatever users do and whatever fails.
THEOREM TypeCorrect == Spec => []TypeOK
BY InitType, NextType, PTL DEF Spec

-----------------------------------------------------------------------------
(* The inductive invariant *)

Entering == {"createAccount", "accountCreated", "signIn"}
Fetching == {"fetchUser", "fetchTeams"}
Deleting == {"reauthenticate", "deleteUser"}

\* Slot s has the only call in flight.
Alone(s) == \A x \in Slots \ {s} : call[x].op = "idle"

\* The calls in flight are those of the screen in front and, once somebody is
\* signed in, theirs.
CallsFit ==
    \A s \in Slots :
        /\ call[s].op \in Entering =>
              screen = "auth" /\ call[s].here /\ Alone(s)
        /\ call[s].op \in Deleting =>
              screen = "settings" /\ call[s].here /\ Alone(s)
        /\ call[s].op \in Fetching => screen = "home"
        /\ call[s].op \in {"accountCreated"} \cup Fetching \cup Deleting =>
              call[s].who = currentUser

\* Home and the settings belong to somebody with an account; on the login
\* screen somebody is signed in only while the app has yet to hear of it.
SignedInFits ==
    /\ screen # "auth" => currentUser # Nobody
    /\ currentUser # Nobody => account[currentUser] = "open"
    /\ screen = "auth" /\ currentUser # Nobody
       => \E s \in Slots : call[s].op = "accountCreated"

\* Teams on the phone are those of the current user, or of somebody deleted,
\* also while nobody is signed in.
TeamsLinger ==
    teams \notin {Nobody, currentUser} => account[teams] = "deleted"

\* Home shows the teams or is fetching them.
TeamsComing ==
    failures = 0 /\ screen = "home" /\ currentUser \in HasTeams \cap docs
    => teams = currentUser \/ \E s \in Slots : call[s].op \in Fetching

\* An account is without its document only between the two steps of creating
\* or deleting it, and a document is never without its account.
DocsFollow ==
    /\ \A u \in Users \ docs : account[u] = "open" =>
          /\ u = currentUser
          /\ \E s \in Slots : call[s].op \in {"accountCreated", "deleteUser"}
    /\ \A u \in docs : account[u] = "open"
    /\ \A s \in Slots : call[s].op = "deleteUser" => currentUser \notin docs

\* The cached user is the current one, or is being fetched.
UserCached ==
    /\ screen = "settings" => user = currentUser
    /\ screen = "home" =>
          user = currentUser \/ \E s \in Slots : call[s].op = "fetchUser"

Unharmed == failures = 0 /\ crashes = 0
SessionInv ==
    /\ CallsFit /\ SignedInFits /\ TeamsLinger /\ TeamsComing
    /\ Unharmed => DocsFollow /\ UserCached

\* What a slot's call may be.
LEMMA CallOf ==
    ASSUME TypeOK, NEW s \in Slots
    PROVE  /\ call[s] \in Call \cup {Idle}
           /\ call[s].op # "idle" => call[s] \in Call /\ call[s].who \in Users
           /\ (call[s] = Idle) <=> (call[s].op = "idle")
<1>1. call[s] \in Call \cup {Idle}
  BY DEF TypeOK
<1> QED BY <1>1, IdleOp

\* Users who wait act when no call is in flight.
LEMMA Waits ==
    ASSUME Patient, Wait
    PROVE  \A s \in Slots : call[s].op = "idle"
BY DEF Wait, Resting, Idle

LEMMA InitSession == Init => SessionInv
<1> SUFFICES ASSUME Init PROVE SessionInv
  OBVIOUS
<1>1. \A s \in Slots : call[s].op = "idle"
  BY DEF Init, Idle
<1>2. CallsFit
  BY <1>1 DEF CallsFit, Entering, Fetching, Deleting
<1>3. SignedInFits /\ TeamsLinger /\ TeamsComing
  BY DEF Init, SignedInFits, TeamsLinger, TeamsComing
<1>4. DocsFollow /\ UserCached
  BY <1>1, HasTeamsAssumption DEF Init, DocsFollow, UserCached
<1> QED BY <1>2, <1>3, <1>4 DEF SessionInv

-----------------------------------------------------------------------------
(* What the user does *)

\* A form is sent, or the password to delete the account.
LEMMA AsksKeep ==
    ASSUME Patient, TypeOK, SessionInv,
           DeleteAccount \/ \E u \in Users : SignUp(u) \/ Login(u)
    PROVE  SessionInv'
<1>1. PICK r \in Call :
         /\ Ask(r) /\ Wait /\ r.here
         /\ \/ screen = "auth" /\ r.op \in {"createAccount", "signIn"}
            \/ /\ screen = "settings" /\ r.op = "reauthenticate"
               /\ r.who = currentUser
         /\ UNCHANGED <<account, docs, currentUser, user, teams, screen,
                        failures, crashes>>
  <2>1. ASSUME NEW u \in Users, SignUp(u)
        PROVE  LET r == Ready("createAccount", u)
               IN  /\ r \in Call /\ Ask(r) /\ Wait /\ r.here
                   /\ screen = "auth" /\ r.op = "createAccount"
    BY <2>1, ReadyCall DEF SignUp, Ready, Ops
  <2>2. ASSUME NEW u \in Users, Login(u)
        PROVE  LET r == Ready("signIn", u)
               IN  /\ r \in Call /\ Ask(r) /\ Wait /\ r.here
                   /\ screen = "auth" /\ r.op = "signIn"
    BY <2>2, ReadyCall DEF Login, Ready, Ops
  <2>3. ASSUME DeleteAccount
        PROVE  LET r == Ready("reauthenticate", currentUser)
               IN  /\ r \in Call /\ Ask(r) /\ Wait /\ r.here
                   /\ screen = "settings" /\ r.op = "reauthenticate"
                   /\ r.who = currentUser
    BY <2>3, ReadyCall DEF DeleteAccount, Ready, Ops, TypeOK
  <2>4. UNCHANGED <<account, docs, currentUser, user, teams, screen, failures,
                    crashes>>
    BY DEF SignUp, Login, DeleteAccount
  <2> QED BY <2>1, <2>2, <2>3, <2>4
<1>2. \A x \in Slots : call[x].op = "idle"
  BY <1>1, Waits
<1>3. PICK s \in Slots : /\ call'[s] = r
                         /\ \A x \in Slots \ {s} : call'[x] = call[x]
  BY <1>1, AskCalls
<1>4. CallsFit'
  BY <1>1, <1>2, <1>3 DEF CallsFit, Entering, Fetching, Deleting, Alone
<1>5. SignedInFits' /\ TeamsLinger'
  BY <1>1, <1>2 DEF SessionInv, SignedInFits, TeamsLinger
<1>6. TeamsComing'
  BY <1>1 DEF TeamsComing
<1>7. Unharmed' => DocsFollow' /\ UserCached'
  BY <1>1, <1>2, <1>3 DEF SessionInv, Unharmed, DocsFollow, UserCached
<1> QED BY <1>4, <1>5, <1>6, <1>7 DEF SessionInv

\* Another screen is asked for.
LEMMA MovesKeep ==
    ASSUME Patient, TypeOK, SessionInv, OpenSettings \/ BackHome \/ Logout
    PROVE  SessionInv'
<1>1. \A s \in Slots : call[s].op = "idle"
  BY Waits DEF OpenSettings, BackHome, Logout
<1>2. call \in Calls
  BY DEF TypeOK, Calls
<1>3. CASE OpenSettings \/ Logout
  <2>1. \A s \in Slots : call'[s].op = "idle"
    BY <1>1, <1>2, <1>3, LeftCalls DEF OpenSettings, Logout
  <2>2. CallsFit'
    BY <2>1 DEF CallsFit, Entering, Fetching, Deleting
  <2>3. SignedInFits' /\ TeamsLinger'
    BY <1>3 DEF OpenSettings, Logout, SessionInv, SignedInFits, TeamsLinger
  <2>4. TeamsComing'
    BY <1>3 DEF OpenSettings, Logout, TeamsComing
  <2>5. Unharmed' => DocsFollow' /\ UserCached'
    BY <1>1, <1>3, <2>1
       DEF OpenSettings, Logout, SessionInv, Unharmed, DocsFollow, UserCached
  <2> QED BY <2>2, <2>3, <2>4, <2>5 DEF SessionInv
<1>4. CASE BackHome
  <2>1. /\ screen = "settings" /\ currentUser \in Users
        /\ UNCHANGED <<account, docs, currentUser, user, teams, failures,
                       crashes>>
    BY <1>4 DEF BackHome, SessionInv, SignedInFits, TypeOK
  <2>2. PICK s \in Slots :
           /\ screen' = "home" /\ call'[s] = Ready("fetchUser", currentUser)
           /\ \A x \in Slots \ {s} : call'[x].op = "idle"
    BY <1>1, <1>2, <1>4, <2>1, HomeCalls DEF BackHome
  <2>3. call'[s].op = "fetchUser" /\ call'[s].who = currentUser
    BY <2>2 DEF Ready
  <2>4. CallsFit'
    BY <2>1, <2>2, <2>3 DEF CallsFit, Entering, Fetching, Deleting
  <2>5. SignedInFits' /\ TeamsLinger'
    BY <2>1, <2>2 DEF SessionInv, SignedInFits, TeamsLinger
  <2>6. TeamsComing'
    BY <2>3 DEF TeamsComing, Fetching
  <2>7. Unharmed' => DocsFollow' /\ UserCached'
    BY <1>1, <2>1, <2>2, <2>3 DEF SessionInv, Unharmed, DocsFollow, UserCached
  <2> QED BY <2>4, <2>5, <2>6, <2>7 DEF SessionInv
<1> QED BY <1>3, <1>4

-----------------------------------------------------------------------------
(* Answers *)

\* On the login screen with a call in flight nobody is signed in before the
\* call is a created account.
LEMMA NotYetSignedIn ==
    ASSUME SessionInv, NEW s \in Slots,
           call[s].op \in {"createAccount", "signIn"}
    PROVE  /\ screen = "auth" /\ call[s].here /\ Alone(s)
           /\ currentUser = Nobody
<1>1. screen = "auth" /\ call[s].here /\ Alone(s)
  BY DEF SessionInv, CallsFit, Entering
<1>2. \A x \in Slots : call[x].op # "accountCreated"
  BY <1>1 DEF Alone
<1> QED BY <1>1, <1>2 DEF SessionInv, SignedInFits

\* The account is created and signed in.
LEMMA CreateAccountKeeps ==
    ASSUME TypeOK, SessionInv, NEW s \in Slots, CreateAccount(s)
    PROVE  SessionInv'
<1> DEFINE r == call[s]
<1>1. /\ r.op = "createAccount" /\ account[r.who] = "new"
      /\ UNCHANGED <<docs, user, teams, screen, failures, crashes>>
      /\ currentUser' = r.who
  BY DEF CreateAccount
<1>2. screen = "auth" /\ r.here /\ Alone(s) /\ currentUser = Nobody
  BY <1>1, NotYetSignedIn
<1>3. r \in Call /\ r.who \in Users
  BY <1>1, CallOf
<1>4. /\ account'[r.who] = "open"
      /\ \A u \in Users \ {r.who} : account'[u] = account[u]
  BY <1>3 DEF CreateAccount, TypeOK
<1>5. /\ call'[s].op = "accountCreated" /\ call'[s].who = r.who
      /\ call'[s].here
      /\ \A x \in Slots \ {s} : call'[x].op = "idle"
  <2>1. /\ [r EXCEPT !.op = "accountCreated"] \in Call
        /\ [r EXCEPT !.op = "accountCreated"].op = "accountCreated"
        /\ [r EXCEPT !.op = "accountCreated"].who = r.who
        /\ [r EXCEPT !.op = "accountCreated"].here = r.here
    BY <1>3 DEF Call, Ops
  <2>2. /\ call'[s] = [r EXCEPT !.op = "accountCreated"]
        /\ \A x \in Slots \ {s} : call'[x] = call[x]
    BY <2>1, PutCalls DEF CreateAccount
  <2> QED BY <1>2, <2>1, <2>2 DEF Alone
<1> HIDE DEF r
<1>6. CallsFit'
  BY <1>1, <1>2, <1>5 DEF CallsFit, Entering, Fetching, Deleting, Alone
<1>7. SignedInFits'
  BY <1>1, <1>2, <1>4, <1>5 DEF SignedInFits
<1>8. TeamsLinger'
  BY <1>1, <1>2, <1>3, <1>4 DEF SessionInv, TeamsLinger, TypeOK
<1>9. TeamsComing'
  BY <1>1, <1>2 DEF TeamsComing
<1>10. Unharmed' => DocsFollow' /\ UserCached'
  <2> SUFFICES ASSUME Unharmed PROVE DocsFollow' /\ UserCached'
    BY <1>1 DEF Unharmed
  <2>1. DocsFollow
    BY DEF SessionInv
  <2>2. DocsFollow'
    BY <1>1, <1>2, <1>3, <1>4, <1>5, <2>1, NobodyAssumption
       DEF DocsFollow, TypeOK
  <2>3. UserCached'
    BY <1>1, <1>2 DEF UserCached
  <2> QED BY <2>2, <2>3
<1> QED BY <1>6, <1>7, <1>8, <1>9, <1>10 DEF SessionInv

\* The app hears of it, writes the document, and Home appears.
LEMMA CreateUserKeeps ==
    ASSUME TypeOK, SessionInv, NEW s \in Slots, CreateUser(s)
    PROVE  SessionInv'
<1> DEFINE w == call[s].who
           f == [call EXCEPT ![s] = Idle]
<1>1. /\ call[s].op = "accountCreated" /\ docs' = docs \cup {w} /\ user' = w
      /\ UNCHANGED <<account, currentUser, teams, failures, crashes>>
  BY DEF CreateUser
<1>2. screen = "auth" /\ call[s].here /\ Alone(s) /\ w = currentUser
  BY <1>1 DEF SessionInv, CallsFit, Entering
<1>3. w \in Users /\ account[w] = "open"
  BY <1>1, <1>2, CallOf, NobodyAssumption DEF SessionInv, SignedInFits
<1>4. f \in Calls /\ \A x \in Slots : f[x].op = "idle"
  BY <1>2 DEF TypeOK, Calls, Alone, Idle
<1>5. Home(w, f)
  BY <1>2 DEF CreateUser
<1> HIDE DEF f
<1>6. PICK x \in Slots :
         /\ screen' = "home" /\ call'[x] = Ready("fetchUser", w)
         /\ \A y \in Slots \ {x} : call'[y].op = "idle"
  BY <1>3, <1>4, <1>5, HomeCalls
<1>7. call'[x].op = "fetchUser" /\ call'[x].who = w
  BY <1>6 DEF Ready
<1> HIDE DEF w
<1>8. CallsFit'
  BY <1>1, <1>2, <1>6, <1>7 DEF CallsFit, Entering, Fetching, Deleting
<1>9. SignedInFits' /\ TeamsLinger'
  BY <1>1, <1>2, <1>3, <1>6, NobodyAssumption
     DEF SessionInv, SignedInFits, TeamsLinger
<1>10. TeamsComing'
  BY <1>7 DEF TeamsComing, Fetching
<1>11. Unharmed' => DocsFollow' /\ UserCached'
  BY <1>1, <1>2, <1>3, <1>6, <1>7
     DEF SessionInv, Unharmed, DocsFollow, UserCached
<1> QED BY <1>8, <1>9, <1>10, <1>11 DEF SessionInv

\* The user is signed in, and both screens fetch the user.
LEMMA SignedInKeeps ==
    ASSUME TypeOK, SessionInv, NEW s \in Slots, SignedIn(s)
    PROVE  SessionInv'
<1> DEFINE r == call[s]
           g == [r EXCEPT !.op = "fetchUser"]
           f == [call EXCEPT ![s] = g]
<1>1. /\ r.op = "signIn" /\ account[r.who] = "open" /\ currentUser' = r.who
      /\ UNCHANGED <<account, docs, user, teams, failures, crashes>>
  BY DEF SignedIn
<1>2. screen = "auth" /\ r.here /\ Alone(s) /\ currentUser = Nobody
  BY <1>1, NotYetSignedIn
<1>3. r \in Call /\ r.who \in Users
  BY <1>1, CallOf
<1>4. g \in Call /\ g.op = "fetchUser" /\ g.who = r.who
  BY <1>3 DEF Call, Ops
<1>5. Home(r.who, f)
  BY <1>2 DEF SignedIn
<1> HIDE DEF g
<1>6. f \in Calls /\ f[s] = g /\ \A x \in Slots \ {s} : f[x].op = "idle"
  BY <1>2, <1>4 DEF TypeOK, Calls, Alone
<1> HIDE DEF f
<1>7. PICK x \in Slots :
         /\ screen' = "home" /\ call'[x] = Ready("fetchUser", r.who)
         /\ \A y \in Slots \ {x} : /\ call'[y].op = f[y].op
                                   /\ call'[y].who = f[y].who
  BY <1>3, <1>5, <1>6, HomeCalls
<1>8. /\ call'[x].op = "fetchUser" /\ call'[x].who = r.who
      /\ \A y \in Slots : call'[y].op \in {"idle", "fetchUser"}
      /\ \A y \in Slots : call'[y].op = "fetchUser" => call'[y].who = r.who
  BY <1>4, <1>6, <1>7 DEF Ready
<1> HIDE DEF r
<1>9. CallsFit'
  BY <1>1, <1>7, <1>8 DEF CallsFit, Entering, Fetching, Deleting
<1>10. SignedInFits' /\ TeamsLinger'
  BY <1>1, <1>2, <1>3, <1>7, NobodyAssumption
     DEF SessionInv, SignedInFits, TeamsLinger
<1>11. TeamsComing'
  BY <1>8 DEF TeamsComing, Fetching
<1>12. Unharmed' => DocsFollow' /\ UserCached'
  <2> SUFFICES ASSUME Unharmed PROVE DocsFollow' /\ UserCached'
    BY <1>1 DEF Unharmed
  <2>1. DocsFollow
    BY DEF SessionInv
  <2>2. DocsFollow'
    BY <1>1, <1>2, <1>8, <2>1, NobodyAssumption DEF DocsFollow
  <2>3. UserCached'
    BY <1>7, <1>8 DEF UserCached
  <2> QED BY <2>2, <2>3
<1> QED BY <1>9, <1>10, <1>11, <1>12 DEF SessionInv

\* The fetched user is the current one, and so are the fetched teams.
LEMMA FetchesKeep ==
    ASSUME TypeOK, SessionInv, NEW s \in Slots, FetchUser(s) \/ FetchTeams(s)
    PROVE  SessionInv'
<1>1. /\ call[s].op \in Fetching
      /\ UNCHANGED <<account, docs, currentUser, screen, failures, crashes>>
  BY DEF FetchUser, FetchTeams, Fetching
<1>2. screen = "home" /\ call[s].who = currentUser
  BY <1>1 DEF SessionInv, CallsFit
<1>3. currentUser \in Users /\ account[currentUser] = "open"
  BY <1>2 DEF SessionInv, SignedInFits, TypeOK
<1>4. \A x \in Slots : call[x].op \notin Entering \cup Deleting
  BY <1>2 DEF SessionInv, CallsFit
<1>5. /\ call'[s].op \in {"idle", "fetchTeams"}
      /\ call'[s].op = "fetchTeams" => call'[s].who = currentUser
      /\ \A x \in Slots \ {s} : call'[x] = call[x]
  <2>1. CASE FetchUser(s)
    <3>1. PICK r \in {Idle, Ready("fetchTeams", currentUser)} : Put(s, r)
      BY <1>2, <2>1 DEF FetchUser
    <3>2. r \in Call \cup {Idle}
      BY <1>3, <3>1, ReadyCall DEF Ops
    <3> QED BY <3>1, <3>2, PutCalls DEF Idle, Ready
  <2>2. CASE FetchTeams(s)
    BY <2>2, PutCalls DEF FetchTeams, Idle
  <2> QED BY <2>1, <2>2
<1>6. CallsFit'
  BY <1>1, <1>2, <1>4, <1>5
     DEF SessionInv, CallsFit, Entering, Fetching, Deleting
<1>7. SignedInFits'
  BY <1>1, <1>2 DEF SessionInv, SignedInFits
<1>8. TeamsLinger'
  BY <1>1, <1>2 DEF FetchUser, FetchTeams, SessionInv, TeamsLinger
<1>9. TeamsComing'
  <2>1. CASE FetchUser(s)
    <3> SUFFICES ASSUME currentUser \in HasTeams \cap docs
                 PROVE  \E x \in Slots : call'[x].op \in Fetching
      BY <1>1 DEF TeamsComing
    <3>1. Put(s, Ready("fetchTeams", currentUser))
      BY <1>2, <2>1 DEF FetchUser
    <3>2. Ready("fetchTeams", currentUser) \in Call
      BY <1>3, ReadyCall DEF Ops
    <3>3. call'[s] = Ready("fetchTeams", currentUser)
      BY <3>1, <3>2, PutCalls
    <3> QED BY <3>3 DEF Ready, Fetching
  <2>2. CASE FetchTeams(s)
    BY <1>1, <1>2, <2>2 DEF FetchTeams, TeamsComing
  <2> QED BY <2>1, <2>2
<1>10. Unharmed' => DocsFollow' /\ UserCached'
  <2> SUFFICES ASSUME Unharmed PROVE DocsFollow' /\ UserCached'
    BY <1>1 DEF Unharmed
  <2>1. DocsFollow /\ UserCached
    BY DEF SessionInv
  <2>2. currentUser \in docs
    BY <1>3, <1>4, <2>1 DEF DocsFollow, Entering, Deleting
  <2>3. DocsFollow'
    BY <1>1, <1>4, <1>5, <2>1, <2>2 DEF DocsFollow, Entering, Deleting
  <2>4. UserCached'
    <3>1. CASE FetchUser(s)
      BY <1>1, <1>2, <2>2, <3>1 DEF FetchUser, UserCached
    <3>2. CASE FetchTeams(s)
      BY <1>1, <1>2, <1>5, <2>1, <3>2 DEF FetchTeams, UserCached
    <3> QED BY <3>1, <3>2
  <2> QED BY <2>3, <2>4
<1> QED BY <1>6, <1>7, <1>8, <1>9, <1>10 DEF SessionInv

-----------------------------------------------------------------------------
(* Deletion *)

\* What holds while an account is being deleted.
LEMMA WhileDeleting ==
    ASSUME TypeOK, SessionInv, NEW s \in Slots, call[s].op \in Deleting
    PROVE  /\ screen = "settings" /\ call[s].here /\ Alone(s)
           /\ call[s].who = currentUser /\ currentUser \in Users
           /\ Unharmed => user = currentUser
<1>1. /\ screen = "settings" /\ call[s].here /\ Alone(s)
      /\ call[s].who = currentUser
  BY DEF SessionInv, CallsFit
<1>2. currentUser \in Users
  BY <1>1 DEF SessionInv, SignedInFits, TypeOK
<1> QED BY <1>1, <1>2 DEF SessionInv, UserCached

\* The document goes first ...
LEMMA DeleteUserInfoKeeps ==
    ASSUME TypeOK, SessionInv, NEW s \in Slots, DeleteUserInfo(s)
    PROVE  SessionInv'
<1>1. /\ call[s].op = "reauthenticate" /\ docs' = docs \ {user}
      /\ UNCHANGED <<account, currentUser, user, teams, screen, failures,
                     crashes>>
  BY DEF DeleteUserInfo
<1>2. /\ screen = "settings" /\ call[s].here /\ Alone(s)
      /\ call[s].who = currentUser /\ currentUser \in Users
      /\ Unharmed => user = currentUser
  BY <1>1, WhileDeleting DEF Deleting
<1>3. /\ call'[s].op = "deleteUser" /\ call'[s].who = currentUser
      /\ call'[s].here
      /\ \A x \in Slots \ {s} : call'[x] = call[x] /\ call[x].op = "idle"
  <2> DEFINE r == call[s]
             g == [r EXCEPT !.op = "deleteUser", !.who = currentUser]
  <2>1. r \in Call
    BY <1>1, CallOf
  <2>2. Put(s, g)
    BY <1>2, NobodyAssumption DEF DeleteUserInfo
  <2>3. r.here
    BY <1>2
  <2> HIDE DEF r
  <2>4. g \in Call /\ g.op = "deleteUser" /\ g.who = currentUser /\ g.here
    BY <1>2, <2>1, <2>3 DEF Call, Ops
  <2> HIDE DEF g
  <2>5. call'[s] = g /\ \A x \in Slots \ {s} : call'[x] = call[x]
    BY <2>2, <2>4, PutCalls
  <2> QED BY <1>2, <2>4, <2>5 DEF Alone
<1>4. CallsFit'
  BY <1>1, <1>2, <1>3 DEF CallsFit, Entering, Fetching, Deleting, Alone
<1>5. SignedInFits' /\ TeamsLinger'
  BY <1>1, <1>2 DEF SessionInv, SignedInFits, TeamsLinger
<1>6. TeamsComing'
  BY <1>1, <1>2 DEF TeamsComing
<1>7. Unharmed' => DocsFollow' /\ UserCached'
  <2> SUFFICES ASSUME Unharmed PROVE DocsFollow' /\ UserCached'
    BY <1>1 DEF Unharmed
  <2>1. DocsFollow
    BY DEF SessionInv
  <2>2. \A x \in Slots : call[x].op \in {"idle", "reauthenticate"}
    BY <1>1, <1>3
  <2>3. DocsFollow'
    BY <1>1, <1>2, <1>3, <2>1, <2>2 DEF DocsFollow
  <2>4. UserCached'
    BY <1>1, <1>2 DEF UserCached
  <2> QED BY <2>3, <2>4
<1> QED BY <1>4, <1>5, <1>6, <1>7 DEF SessionInv

\* ... and then the account.
LEMMA DeleteUserKeeps ==
    ASSUME TypeOK, SessionInv, NEW s \in Slots, DeleteUser(s)
    PROVE  SessionInv'
<1>1. /\ call[s].op = "deleteUser"
      /\ UNCHANGED <<docs, user, teams, failures, crashes>>
  BY DEF DeleteUser
<1>2. /\ call[s].here /\ Alone(s)
      /\ call[s].who = currentUser /\ currentUser \in Users
  BY <1>1, WhileDeleting DEF Deleting
<1>3. /\ account'[currentUser] = "deleted"
      /\ \A u \in Users \ {currentUser} : account'[u] = account[u]
      /\ currentUser' = Nobody
  BY <1>2 DEF DeleteUser, TypeOK
<1>4. screen' = "auth" /\ \A x \in Slots : call'[x].op = "idle"
  <2> DEFINE f == [call EXCEPT ![s] = Idle]
  <2>1. f \in Calls /\ \A x \in Slots : f[x].op = "idle"
    BY <1>2 DEF TypeOK, Calls, Alone, Idle
  <2>2. screen' = "auth" /\ call' = Left(f)
    BY <1>2 DEF DeleteUser
  <2> HIDE DEF f
  <2> QED BY <2>1, <2>2, LeftCalls
<1>5. CallsFit'
  BY <1>4 DEF CallsFit, Entering, Fetching, Deleting
<1>6. SignedInFits'
  BY <1>3, <1>4 DEF SignedInFits
<1>7. TeamsLinger'
  BY <1>1, <1>2, <1>3 DEF SessionInv, TeamsLinger, TypeOK
<1>8. TeamsComing'
  BY <1>4 DEF TeamsComing
<1>9. Unharmed' => DocsFollow' /\ UserCached'
  <2> SUFFICES ASSUME Unharmed PROVE DocsFollow' /\ UserCached'
    BY <1>1 DEF Unharmed
  <2>1. DocsFollow /\ currentUser \notin docs
    BY <1>1 DEF SessionInv, DocsFollow
  <2>2. DocsFollow'
    BY <1>1, <1>3, <1>4, <2>1 DEF DocsFollow, TypeOK
  <2>3. UserCached'
    BY <1>4 DEF UserCached
  <2> QED BY <2>2, <2>3
<1> QED BY <1>5, <1>6, <1>7, <1>8, <1>9 DEF SessionInv

-----------------------------------------------------------------------------
(* Failure *)

LEMMA FailCallKeeps ==
    ASSUME TypeOK, SessionInv, NEW s \in Slots, FailCall(s)
    PROVE  SessionInv'
<1>1. /\ call[s].op # "accountCreated" /\ failures' = failures + 1
      /\ UNCHANGED <<account, docs, currentUser, user, teams, screen, crashes>>
  BY DEF FailCall
<1>2. failures' # 0
  BY <1>1 DEF TypeOK
<1>3. call'[s].op = "idle" /\ \A x \in Slots \ {s} : call'[x] = call[x]
  BY PutCalls DEF FailCall, Idle
<1>4. CallsFit'
  BY <1>1, <1>3 DEF SessionInv, CallsFit, Entering, Fetching, Deleting, Alone
<1>5. SignedInFits' /\ TeamsLinger'
  BY <1>1, <1>3 DEF SessionInv, SignedInFits, TeamsLinger
<1>6. TeamsComing' /\ ~Unharmed'
  BY <1>2 DEF TeamsComing, Unharmed
<1> QED BY <1>4, <1>5, <1>6 DEF SessionInv

LEMMA CrashKeeps ==
    ASSUME TypeOK, SessionInv, Crash
    PROVE  SessionInv'
<1>1. /\ crashes' = crashes + 1 /\ teams' = Nobody
      /\ UNCHANGED <<account, docs, currentUser, failures>>
  BY DEF Crash
<1>2. ~Unharmed'
  BY <1>1 DEF Unharmed, TypeOK
<1> DEFINE f == [s \in Slots |-> Idle]
<1>3. f \in Calls /\ \A s \in Slots : f[s].op = "idle"
  BY DEF Calls, Idle
<1>4. TeamsLinger'
  BY <1>1 DEF TeamsLinger
<1>5. CASE currentUser # Nobody
  <2>1. Home(currentUser, f) /\ currentUser \in Users
    BY <1>5 DEF Crash, TypeOK
  <2> HIDE DEF f
  <2>2. PICK s \in Slots :
           /\ screen' = "home" /\ call'[s] = Ready("fetchUser", currentUser)
           /\ \A x \in Slots \ {s} : call'[x].op = "idle"
    BY <1>3, <2>1, HomeCalls
  <2>3. call'[s].op = "fetchUser" /\ call'[s].who = currentUser
    BY <2>2 DEF Ready
  <2>4. CallsFit'
    BY <1>1, <2>2, <2>3 DEF CallsFit, Entering, Fetching, Deleting
  <2>5. SignedInFits'
    BY <1>1, <1>5, <2>2 DEF SessionInv, SignedInFits
  <2>6. TeamsComing'
    BY <2>3 DEF TeamsComing, Fetching
  <2> QED BY <1>2, <1>4, <2>4, <2>5, <2>6 DEF SessionInv
<1>6. CASE currentUser = Nobody
  <2>1. screen' = "auth" /\ call' = f
    BY <1>6 DEF Crash
  <2> HIDE DEF f
  <2>2. CallsFit' /\ SignedInFits' /\ TeamsComing'
    BY <1>1, <1>3, <1>6, <2>1
       DEF CallsFit, Entering, Fetching, Deleting, SignedInFits, TeamsComing
  <2> QED BY <1>2, <1>4, <2>2 DEF SessionInv
<1> QED BY <1>5, <1>6

-----------------------------------------------------------------------------
(* The theorems *)

LEMMA NextSession ==
    ASSUME Patient, TypeOK, SessionInv, [Next]_vars
    PROVE  SessionInv'
<1>1. CASE UNCHANGED vars
  BY <1>1 DEF vars, SessionInv, CallsFit, Alone, SignedInFits, TeamsLinger,
              TeamsComing, Unharmed, DocsFollow, UserCached
<1>2. ASSUME NEW s \in Slots, Respond(s)
      PROVE  SessionInv'
  BY <1>2, CreateAccountKeeps, CreateUserKeeps, SignedInKeeps, FetchesKeep,
     DeleteUserInfoKeeps, DeleteUserKeeps DEF Respond
<1> QED BY <1>1, <1>2, AsksKeep, MovesKeep, FailCallKeeps, CrashKeeps DEF Next

LEMMA SessionInvariant ==
    ASSUME Patient
    PROVE  Spec => [](TypeOK /\ SessionInv)
<1>1. Init => TypeOK /\ SessionInv
  BY InitType, InitSession
<1>2. TypeOK /\ SessionInv /\ [Next]_vars => (TypeOK /\ SessionInv)'
  BY NextType, NextSession
<1> QED BY <1>1, <1>2, PTL DEF Spec

\* Home shows the teams of whoever is signed in.
THEOREM ShowsOwnTeams ==
    ASSUME Patient
    PROVE  Spec => []OwnTeams
<1>1. SessionInv => OwnTeams
  BY DEF SessionInv, TeamsComing, OwnTeams, Resting, Idle, Fetching
<1> QED BY <1>1, SessionInvariant, PTL

\* Between calls, accounts and user documents are the same.
THEOREM AccountsHaveDocs ==
    ASSUME Patient
    PROVE  Spec => []DocsMatchAccounts
<1>1. TypeOK /\ SessionInv => DocsMatchAccounts
  BY DEF TypeOK, SessionInv, Unharmed, DocsFollow, DocsMatchAccounts, Resting,
         Idle
<1> QED BY <1>1, SessionInvariant, PTL

\* Whatever fails, the next user sees no teams but those of a deleted account.
THEOREM NoTeamsLeftBehind ==
    ASSUME Patient
    PROVE  Spec => []OnlyDeletedLinger
<1>1. SessionInv => OnlyDeletedLinger
  BY DEF SessionInv, TeamsLinger, OnlyDeletedLinger
<1> QED BY <1>1, SessionInvariant, PTL

\* The only document a step deletes is that of whoever typed the password.
THEOREM OnlyOwnInfoDeleted ==
    ASSUME Patient
    PROVE  Spec => DeletesOwnInfo
<1> DEFINE Own == failures = 0 /\ crashes = 0 =>
                     \A u \in docs \ docs' : \E s \in Slots :
                        call[s].op = "reauthenticate" /\ call[s].who = u
<1>1. TypeOK /\ SessionInv /\ [Next]_vars => [Own]_docs
  <2> SUFFICES ASSUME TypeOK, SessionInv, [Next]_vars, docs' # docs, Unharmed,
                      NEW u \in docs \ docs'
               PROVE  \E s \in Slots : /\ call[s].op = "reauthenticate"
                                       /\ call[s].who = u
    BY DEF Unharmed
  <2>1. \E s \in Slots : DeleteUserInfo(s)
    BY DEF Next, vars, SignUp, Login, OpenSettings, BackHome, Logout,
           DeleteAccount, Respond, CreateAccount, CreateUser, SignedIn,
           FetchUser, FetchTeams, DeleteUser, FailCall, Crash
  <2>2. PICK s \in Slots : DeleteUserInfo(s)
    BY <2>1
  <2>3. call[s].op = "reauthenticate" /\ docs' = docs \ {user}
    BY <2>2 DEF DeleteUserInfo
  <2>4. call[s].who = currentUser /\ user = currentUser
    BY <2>3, WhileDeleting DEF Deleting
  <2> QED BY <2>3, <2>4
<1>2. DeletesOwnInfo <=> [][Own]_docs
  BY DEF DeletesOwnInfo
<1> HIDE DEF Own
<1> QED BY <1>1, <1>2, SessionInvariant, PTL DEF Spec
=============================================================================
