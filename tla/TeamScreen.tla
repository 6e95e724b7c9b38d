---------------------------- MODULE TeamScreen ----------------------------
(***************************************************************************)
(* The table of a team: which cell each row shows and what a tap on it     *)
(* opens.                                                                  *)
(*                                                                         *)
(* The rows are counted when the table is reloaded; a row is drawn when it *)
(* scrolls into view and looked up again when it is tapped.  In between    *)
(* listeners replace the arrays the rows are computed from, and only the   *)
(* one of the events reloads.  Rows and sections count from 0 as they do   *)
(* in the code.                                                            *)
(***************************************************************************)
EXTENDS Integers, Sequences, FiniteSets

CONSTANTS
    Teams,          \* the teams of the user
    AdminOf,        \* those among them the user is an admin of
    Contacts, Announcements, Events,    \* the lists a snapshot can bring, in
                                        \* which each document is once
    Home            \* no team is open

ASSUME AdminOfAssumption == AdminOf \subseteq Teams
ASSUME HomeAssumption == Home \notin Teams
ASSUME ListsAssumption ==
    \A S \in {Contacts, Announcements, Events} :
        /\ <<>> \in S
        /\ \A l \in S : /\ l \in Seq(STRING)
                        /\ \A i, j \in DOMAIN l : l[i] = l[j] => i = j

VARIABLES
    screen,     \* the open team, or Home
    now,        \* the shared arrays, and EventController.isAdmin
    seen,       \* what these were when the table was last laid out
    roleDue,    \* whether team.didSet has yet to set isAdmin
    appearing,  \* whether viewWillAppear's reload is not laid out yet
    reload,     \* whether the reload of fetchEvents is waiting
    answered,   \* whether this screen's own listener has answered
    left        \* whether an earlier screen has left a listener behind

vars == <<screen, now, seen, roleDue, appearing, reload, answered, left>>

State == [contacts : Contacts, announcements : Announcements, events : Events,
          admin : BOOLEAN]
Empty == [contacts |-> <<>>, announcements |-> <<>>, events |-> <<>>,
          admin |-> FALSE]

\* Types of all the state; without a team screen it has no table and no reload.
TypeOK ==
    /\ screen \in Teams \cup {Home}
    /\ {now, seen} \subseteq State
    /\ {roleDue, appearing, reload, answered, left} \subseteq BOOLEAN
    /\ screen = Home => /\ seen = Empty
                        /\ ~roleDue /\ ~appearing /\ ~reload /\ ~answered

-----------------------------------------------------------------------------
(* Rows *)

AdminRows(v) == IF v.admin THEN 1 ELSE 0

\* numberOfRowsInSection
NumberOfRows(v, section) ==
    CASE section = 0 -> Len(v.contacts) + 2 + AdminRows(v)
      [] section = 1 -> Len(v.announcements)
      [] section = 2 -> Len(v.events) + AdminRows(v)

\* list[index]: out of range, Swift traps.
At(list, index) ==
    IF index + 1 \in DOMAIN list THEN <<"item", list[index + 1]>>
    ELSE <<"trap">>

\* A slip in CellForRow: an admin's contacts start where a member's do.
CellForRowShifted(v, section, row) ==
    IF section = 0
    THEN IF row = 0 THEN <<"league">>
         ELSE IF v.admin /\ row = 1 THEN <<"manage">>
         ELSE IF row = 1 + AdminRows(v) THEN <<"roster">>
         ELSE IF row <= Len(v.contacts) + 1 + AdminRows(v)
              THEN At(v.contacts, row - 2) ELSE <<"blank">>
    ELSE IF section = 1 THEN At(v.announcements, row)
    ELSE IF v.admin /\ row = 0 THEN <<"addEvent">>
    ELSE At(v.events, row - AdminRows(v))

\* A slip in CellForRow: contacts are looked for one row too far as well.
CellForRowBeyond(v, section, row) ==
    IF section = 0
    THEN IF row = 0 THEN <<"league">>
         ELSE IF v.admin /\ row = 1 THEN <<"manage">>
         ELSE IF row = 1 + AdminRows(v) THEN <<"roster">>
         ELSE IF row <= Len(v.contacts) + 2 + AdminRows(v)
              THEN At(v.contacts, row - 2 - AdminRows(v)) ELSE <<"blank">>
    ELSE IF section = 1 THEN At(v.announcements, row)
    ELSE IF v.admin /\ row = 0 THEN <<"addEvent">>
    ELSE At(v.events, row - AdminRows(v))

\* cellForRowAt.  A row beyond the contacts is blank; for announcements and
\* events the row just beyond the last is looked up.
CellForRow(v, section, row) ==
    CASE section = 0 /\ row = 0 -> <<"league">>
      [] section = 0 /\ row = 1 /\ v.admin -> <<"manage">>
      [] section = 0 /\ row = 1 + AdminRows(v) -> <<"roster">>
      [] section = 0 /\ row > 1 + AdminRows(v)
           /\ row <= Len(v.contacts) + 1 + AdminRows(v) ->
             At(v.contacts, row - 2 - AdminRows(v))
      [] section = 1 /\ row <= Len(v.announcements) -> At(v.announcements, row)
      [] section = 2 /\ row = 0 /\ v.admin -> <<"addEvent">>
      [] section = 2 /\ row >= AdminRows(v)
           /\ row <= Len(v.events) + AdminRows(v) ->
             At(v.events, row - AdminRows(v))
      [] OTHER -> <<"blank">>

\* A slip in ToSend: the row of the add button is forgotten.
ToSendUncorrected(v, section, row) ==
    IF section = 2 THEN At(v.events, row)
    ELSE At(v.contacts, row - 2 - AdminRows(v))

\* prepare: what a tap on a row of contacts or events opens.
ToSend(v, section, row) ==
    IF section = 2 THEN At(v.events, row - AdminRows(v))
    ELSE At(v.contacts, row - 2 - AdminRows(v))

-----------------------------------------------------------------------------
Init ==
    /\ screen = Home
    /\ now = Empty
    /\ seen = Empty
    /\ roleDue = FALSE
    /\ appearing = FALSE
    /\ reload = FALSE
    /\ answered = FALSE
    /\ left = FALSE

\* A team is tapped on Home.  The arrays are still those of the last one.
OpenTeam(t) ==
    /\ screen = Home
    /\ screen' = t
    /\ roleDue' = TRUE
    /\ appearing' = TRUE
    /\ UNCHANGED <<now, seen, reload, answered, left>>

\* What team.didSet has put on the main queue.
SetRole ==
    /\ roleDue
    /\ roleDue' = FALSE
    /\ now' = [now EXCEPT !.admin = @ \/ screen \in AdminOf]
    /\ UNCHANGED <<screen, seen, appearing, reload, answered, left>>

\* A slip in LeaveTeam: Home does not reset isAdmin.
LeaveTeamAsAdmin ==
    /\ screen # Home /\ ~roleDue
    /\ screen' = Home
    /\ seen' = Empty
    /\ appearing' = FALSE /\ reload' = FALSE /\ answered' = FALSE
    /\ left' = TRUE
    /\ UNCHANGED <<now, roleDue>>

\* A slip in LeaveTeam: the reload keeps the screen alive.
LeaveTeamReloading ==
    /\ screen # Home /\ ~roleDue
    /\ screen' = Home
    /\ now' = [now EXCEPT !.admin = FALSE]
    /\ seen' = Empty
    /\ appearing' = FALSE /\ answered' = FALSE
    /\ left' = TRUE
    /\ UNCHANGED <<roleDue, reload>>

\* Back to Home, which resets isAdmin as it appears.  The screen goes, its
\* listeners stay.
LeaveTeam ==
    /\ screen # Home /\ ~roleDue
    /\ screen' = Home
    /\ now' = [now EXCEPT !.admin = FALSE]
    /\ seen' = Empty
    /\ appearing' = FALSE /\ reload' = FALSE /\ answered' = FALSE
    /\ left' = TRUE
    /\ UNCHANGED roleDue

\* The table appears, for the first time or after another screen, is counted
\* and drawn.
Appear ==
    /\ appearing
    /\ appearing' = FALSE
    /\ seen' = now
    /\ UNCHANGED <<screen, now, roleDue, reload, answered, left>>

\* A snapshot of the contacts or the announcements: nothing is reloaded.
FetchDetails(field, list) ==
    /\ screen # Home \/ left
    /\ now' = [now EXCEPT ![field] = list]
    /\ UNCHANGED <<screen, seen, roleDue, appearing, reload, answered, left>>

\* A slip in FetchEvents: the completion reloads nothing.
FetchEventsQuietly(list, mine) ==
    /\ mine /\ screen # Home
    /\ now' = [now EXCEPT !.events = list]
    /\ answered' = TRUE
    /\ UNCHANGED <<screen, seen, roleDue, appearing, reload, left>>

\* A snapshot of the events: the table is reloaded if it is this screen's
\* listener, whose first answer is behind didSet's block on the main queue.
FetchEvents(list, mine) ==
    /\ IF mine THEN screen # Home /\ ~roleDue ELSE left
    /\ now' = [now EXCEPT !.events = list]
    /\ answered' = (answered \/ mine)
    /\ reload' = (reload \/ mine)
    /\ UNCHANGED <<screen, seen, roleDue, appearing, left>>

\* The reload of fetchEvents' completion runs.
Reload ==
    /\ reload
    /\ reload' = FALSE
    /\ seen' = now
    /\ UNCHANGED <<screen, now, roleDue, appearing, answered, left>>

\* A trap: the app is gone and started again.
Die ==
    /\ screen' = Home
    /\ now' = Empty /\ seen' = Empty
    /\ roleDue' = FALSE /\ appearing' = FALSE /\ reload' = FALSE
    /\ answered' = FALSE /\ left' = FALSE

\* A row scrolls into view and is drawn from the arrays as they are.
DrawRow(section, row) ==
    /\ screen # Home /\ row < NumberOfRows(seen, section)
    /\ CellForRow(now, section, row) = <<"trap">>
    /\ Die

\* A contact or an event is tapped: its screen opens and closes again, or
\* there is no such index any more.
TapRow(section, row) ==
    /\ screen # Home /\ row < NumberOfRows(seen, section)
    /\ section \in {0, 2} /\ CellForRow(seen, section, row)[1] = "item"
    /\ IF ToSend(now, section, row) = <<"trap">> THEN Die
       ELSE /\ appearing' = TRUE
            /\ UNCHANGED <<screen, now, seen, roleDue, reload, answered, left>>

Next ==
    \/ \E t \in Teams : OpenTeam(t)
    \/ SetRole \/ LeaveTeam \/ Appear \/ Reload
    \/ \E l \in Contacts : FetchDetails("contacts", l)
    \/ \E l \in Announcements : FetchDetails("announcements", l)
    \/ \E l \in Events, mine \in BOOLEAN : FetchEvents(l, mine)
    \/ \E section \in 0..2 : \E row \in 0..(NumberOfRows(seen, section) - 1) :
          DrawRow(section, row) \/ TapRow(section, row)

Spec == Init /\ [][Next]_vars

\* The main queue runs, and a new listener is answered.
Fairness ==
    /\ WF_vars(SetRole) /\ WF_vars(Appear) /\ WF_vars(Reload)
    /\ WF_vars(~answered /\ \E l \in Events : FetchEvents(l, TRUE))
FairSpec == Spec /\ Fairness

-----------------------------------------------------------------------------
(* Properties *)

\* How many rows of a section show cell.
Shown(v, section, cell) ==
    Cardinality({row \in 0..(NumberOfRows(v, section) - 1) :
                    CellForRow(v, section, row) = cell})

\* Laid out at once, the table shows every contact, announcement and event in
\* one row of its section, the fixed rows once, an admin's only to an admin,
\* and nothing blank.
EveryItemOnce ==
    /\ \A k \in DOMAIN now.contacts :
          Shown(now, 0, <<"item", now.contacts[k]>>) = 1
    /\ \A k \in DOMAIN now.announcements :
          Shown(now, 1, <<"item", now.announcements[k]>>) = 1
    /\ \A k \in DOMAIN now.events :
          Shown(now, 2, <<"item", now.events[k]>>) = 1
    /\ Shown(now, 0, <<"league">>) = 1 /\ Shown(now, 0, <<"roster">>) = 1
    /\ Shown(now, 0, <<"manage">>) = AdminRows(now)
    /\ Shown(now, 2, <<"addEvent">>) = AdminRows(now)
    /\ \A section \in 0..2 : Shown(now, section, <<"blank">>) = 0

\* The two places that turn a row into an index agree: a row opens what it
\* would show.
TapOpensCell ==
    \A section \in {0, 2} : \A row \in 0..(NumberOfRows(now, section) - 1) :
        CellForRow(now, section, row)[1] = "item"
        => ToSend(now, section, row) = CellForRow(now, section, row)

\* Nobody sees an admin's rows in a team of which they are no admin, whatever
\* teams were open before.
AdminRowsOwn ==
    \/ screen \in AdminOf
    \/ ~now.admin /\ ~seen.admin

\* However the contacts change under rows that were counted before, drawing a
\* row of theirs does not trap.
ContactRowsExist ==
    \A row \in 0..(NumberOfRows(seen, 0) - 1) :
        CellForRow(now, 0, row) # <<"trap">>

\* An admin who stays on the screen gets the admin's rows, although the table
\* may have been counted before isAdmin was set.
AdminSees ==
    \A t \in AdminOf : (screen = t) ~> (seen.admin \/ screen # t)
===========================================================================
