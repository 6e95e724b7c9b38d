------------------------- MODULE TeamScreenProofs -------------------------
(***************************************************************************)
(* The table of a team, for lists of every length and every set of teams.  *)
(*                                                                         *)
(* Which cell a row shows is a function of what the arrays are when it is  *)
(* asked, so the two places that compute it are compared for every such    *)
(* state; isAdmin is shared by all teams, so that it says nothing about    *)
(* another team needs the inductive invariant RoleInv.                     *)
(***************************************************************************)
EXTENDS TeamScreen, FiniteSetTheorems, TLAPS

-----------------------------------------------------------------------------
(* Rows *)

\* What the three lists are.
LEMMA StateFields ==
    ASSUME NEW v \in State
    PROVE  /\ v.contacts \in Seq(STRING)
           /\ v.announcements \in Seq(STRING)
           /\ v.events \in Seq(STRING)
           /\ v.admin \in BOOLEAN
BY ListsAssumption DEF State

LEMMA EmptyIsState == Empty \in State
BY ListsAssumption DEF Empty, State

LEMMA AdminRowsType ==
    ASSUME NEW v
    PROVE  AdminRows(v) \in {0, 1}
BY DEF AdminRows

\* A row of section 0 that is looked up at all is looked up in range.
LEMMA ContactsInRange ==
    ASSUME NEW v \in State, NEW row \in Nat,
           row > 1 + AdminRows(v), row <= Len(v.contacts) + 1 + AdminRows(v)
    PROVE  row - 2 - AdminRows(v) + 1 \in DOMAIN v.contacts
<1>1. AdminRows(v) \in {0, 1}
  BY AdminRowsType
<1>2. v.contacts \in Seq(STRING)
  BY StateFields
<1> QED BY <1>1, <1>2

\* cellForRowAt never traps on a row of section 0, however many contacts there
\* were when the rows were counted.
LEMMA NoTrapInContacts ==
    ASSUME NEW v \in State, NEW row \in Nat
    PROVE  CellForRow(v, 0, row) # <<"trap">>
<1>1. CASE row > 1 + AdminRows(v) /\ row <= Len(v.contacts) + 1 + AdminRows(v)
  <2>1. At(v.contacts, row - 2 - AdminRows(v)) # <<"trap">>
    BY <1>1, ContactsInRange DEF At
  <2> QED BY <1>1, <2>1, AdminRowsType DEF CellForRow
<1>2. CASE ~(row > 1 + AdminRows(v) /\ row <= Len(v.contacts) + 1 + AdminRows(v))
  BY <1>2, AdminRowsType DEF CellForRow
<1> QED BY <1>1, <1>2

\* A row that shows a contact or an event opens that one.
LEMMA TapMatches ==
    ASSUME NEW v \in State, NEW section \in {0, 2}, NEW row \in Nat,
           CellForRow(v, section, row)[1] = "item"
    PROVE  ToSend(v, section, row) = CellForRow(v, section, row)
<1>1. CASE section = 0
  <2>1. row > 1 + AdminRows(v) /\ row <= Len(v.contacts) + 1 + AdminRows(v)
    BY <1>1, AdminRowsType DEF CellForRow
  <2>2. CellForRow(v, 0, row) = At(v.contacts, row - 2 - AdminRows(v))
    BY <2>1, AdminRowsType DEF CellForRow
  <2> QED BY <1>1, <2>2 DEF ToSend
<1>2. CASE section = 2
  <2>1. row >= AdminRows(v) /\ row <= Len(v.events) + AdminRows(v)
        /\ ~(row = 0 /\ v.admin)
    <3>1. CASE v.admin
      BY <1>2, <3>1 DEF CellForRow, AdminRows
    <3>2. CASE ~v.admin
      BY <1>2, <3>2 DEF CellForRow, AdminRows
    <3> QED BY <3>1, <3>2
  <2>2. CellForRow(v, 2, row) = At(v.events, row - AdminRows(v))
    BY <2>1, AdminRowsType DEF CellForRow
  <2> QED BY <1>2, <2>2 DEF ToSend
<1> QED BY <1>1, <1>2

\* A section has as many rows as it has, a natural number.
LEMMA RowsType ==
    ASSUME NEW v \in State, NEW section \in 0..2
    PROVE  NumberOfRows(v, section) \in Nat
<1>1. /\ Len(v.contacts) \in Nat /\ Len(v.announcements) \in Nat
      /\ Len(v.events) \in Nat /\ AdminRows(v) \in Nat
  BY StateFields, AdminRowsType
<1> QED BY <1>1 DEF NumberOfRows

\* In no list is a document twice.
LEMMA EachOnce ==
    ASSUME NEW v \in State,
           NEW l \in {v.contacts, v.announcements, v.events},
           NEW i \in DOMAIN l, NEW j \in DOMAIN l, l[i] = l[j]
    PROVE  i = j
BY ListsAssumption DEF State

\* Which rows of a section show what.
ShowsAt(v, section, row, cell) ==
    /\ row \in 0..(NumberOfRows(v, section) - 1)
    /\ CellForRow(v, section, row) = cell

\* A cell that one row shows is counted once, one that none shows not at all.
LEMMA Counted ==
    ASSUME NEW v, NEW section, NEW cell
    PROVE  /\ \A row :
                 /\ ShowsAt(v, section, row, cell)
                 /\ \A other : ShowsAt(v, section, other, cell) => other = row
                 => Shown(v, section, cell) = 1
           /\ (\A row : ~ShowsAt(v, section, row, cell))
              => Shown(v, section, cell) = 0
<1> DEFINE S == {row \in 0..(NumberOfRows(v, section) - 1) :
                    CellForRow(v, section, row) = cell}
<1>1. \A row : row \in S <=> ShowsAt(v, section, row, cell)
  BY DEF ShowsAt
<1>2. Shown(v, section, cell) = Cardinality(S)
  BY DEF Shown
<1> HIDE DEF S
<1>3. ASSUME NEW row, ShowsAt(v, section, row, cell),
             \A other : ShowsAt(v, section, other, cell) => other = row
      PROVE  Cardinality(S) = 1
  <2>1. S = {row}
    BY <1>1, <1>3
  <2> QED BY <2>1, FS_Singleton
<1>4. ASSUME \A row : ~ShowsAt(v, section, row, cell)
      PROVE  Cardinality(S) = 0
  <2>1. S = {}
    BY <1>1, <1>4
  <2> QED BY <2>1, FS_EmptySet
<1> QED BY <1>2, <1>3, <1>4

\* What each row of a section shows.
LEMMA ContactCells ==
    ASSUME NEW v \in State, NEW row \in 0..(NumberOfRows(v, 0) - 1)
    PROVE  \/ row = 0 /\ CellForRow(v, 0, row) = <<"league">>
           \/ row = 1 /\ v.admin /\ CellForRow(v, 0, row) = <<"manage">>
           \/ /\ row = 1 + AdminRows(v)
              /\ CellForRow(v, 0, row) = <<"roster">>
           \/ /\ row - 1 - AdminRows(v) \in DOMAIN v.contacts
              /\ CellForRow(v, 0, row) =
                    <<"item", v.contacts[row - 1 - AdminRows(v)]>>
<1>1. /\ v.contacts \in Seq(STRING) /\ Len(v.contacts) \in Nat
      /\ v.admin \in BOOLEAN /\ AdminRows(v) \in {0, 1}
      /\ v.admin <=> AdminRows(v) = 1
  BY StateFields, AdminRowsType DEF AdminRows
<1>2. row \in Nat /\ row < Len(v.contacts) + 2 + AdminRows(v)
  BY <1>1 DEF NumberOfRows
<1>3. CASE row <= 1 + AdminRows(v)
  BY <1>1, <1>2, <1>3 DEF CellForRow
<1>4. CASE row > 1 + AdminRows(v)
  <2>1. row - 1 - AdminRows(v) \in DOMAIN v.contacts
    BY <1>1, <1>2, <1>4
  <2>2. CellForRow(v, 0, row) = At(v.contacts, row - 2 - AdminRows(v))
    BY <1>1, <1>2, <1>4 DEF CellForRow
  <2>3. row - 2 - AdminRows(v) + 1 = row - 1 - AdminRows(v)
    BY <1>1, <1>2
  <2> QED BY <2>1, <2>2, <2>3 DEF At
<1> QED BY <1>1, <1>2, <1>3, <1>4

LEMMA AnnouncementCells ==
    ASSUME NEW v \in State, NEW row \in 0..(NumberOfRows(v, 1) - 1)
    PROVE  /\ row + 1 \in DOMAIN v.announcements
           /\ CellForRow(v, 1, row) = <<"item", v.announcements[row + 1]>>
<1>1. v.announcements \in Seq(STRING) /\ Len(v.announcements) \in Nat
  BY StateFields
<1>2. row \in Nat /\ row < Len(v.announcements)
  BY <1>1 DEF NumberOfRows
<1>3. CellForRow(v, 1, row) = At(v.announcements, row)
  BY <1>1, <1>2 DEF CellForRow
<1> QED BY <1>1, <1>2, <1>3 DEF At

LEMMA EventCells ==
    ASSUME NEW v \in State, NEW row \in 0..(NumberOfRows(v, 2) - 1)
    PROVE  \/ row = 0 /\ v.admin /\ CellForRow(v, 2, row) = <<"addEvent">>
           \/ /\ row + 1 - AdminRows(v) \in DOMAIN v.events
              /\ CellForRow(v, 2, row) =
                    <<"item", v.events[row + 1 - AdminRows(v)]>>
<1>1. /\ v.events \in Seq(STRING) /\ Len(v.events) \in Nat
      /\ v.admin \in BOOLEAN /\ AdminRows(v) \in {0, 1}
      /\ v.admin <=> AdminRows(v) = 1
  BY StateFields, AdminRowsType DEF AdminRows
<1>2. row \in Nat /\ row < Len(v.events) + AdminRows(v)
  BY <1>1 DEF NumberOfRows
<1>3. CASE row = 0 /\ v.admin
  BY <1>1, <1>2, <1>3 DEF CellForRow
<1>4. CASE ~(row = 0 /\ v.admin)
  <2>1. row + 1 - AdminRows(v) \in DOMAIN v.events /\ row >= AdminRows(v)
    BY <1>1, <1>2, <1>4
  <2>2. CellForRow(v, 2, row) = At(v.events, row - AdminRows(v))
    BY <1>1, <1>2, <1>4, <2>1 DEF CellForRow
  <2>3. row - AdminRows(v) + 1 = row + 1 - AdminRows(v)
    BY <1>1, <1>2
  <2> QED BY <2>1, <2>2, <2>3 DEF At
<1> QED BY <1>3, <1>4

\* The cells are all different.
LEMMA CellsDiffer ==
    /\ \A x : \A cell \in {<<"league">>, <<"manage">>, <<"roster">>,
                            <<"addEvent">>, <<"blank">>} : <<"item", x>> # cell
    /\ \A x, y : <<"item", x>> = <<"item", y>> => x = y
    /\ <<"league">> # <<"manage">> /\ <<"league">> # <<"roster">>
    /\ <<"manage">> # <<"roster">> /\ <<"addEvent">> # <<"blank">>
    /\ \A cell \in {<<"league">>, <<"manage">>, <<"roster">>} :
          cell # <<"blank">>
OBVIOUS

-----------------------------------------------------------------------------
(* Types *)

\* Replacing one list by another that a snapshot can bring.
LEMMA NewList ==
    /\ \A v \in State, l \in Contacts :
          [v EXCEPT !["contacts"] = l] \in State
    /\ \A v \in State, l \in Announcements :
          [v EXCEPT !["announcements"] = l] \in State
    /\ \A v \in State, l \in Events :
          [v EXCEPT !["events"] = l] \in State
BY DEF State

LEMMA InitType == Init => TypeOK
BY EmptyIsState DEF Init, TypeOK

LEMMA DieType == Die => TypeOK'
BY EmptyIsState DEF Die, TypeOK

\* Every step keeps the types.
LEMMA NextType ==
    ASSUME TypeOK, [Next]_vars
    PROVE  TypeOK'
<1> USE DEF TypeOK
<1>1. CASE UNCHANGED vars
  BY <1>1 DEF vars
<1>2. ASSUME NEW t \in Teams, OpenTeam(t)
      PROVE  TypeOK'
  BY <1>2, HomeAssumption DEF OpenTeam
<1>3. CASE SetRole
  <2>1. now' \in State
    BY <1>3 DEF SetRole, State
  <2> QED BY <1>3, <2>1 DEF SetRole
<1>4. CASE LeaveTeam
  <2>1. now' \in State
    BY <1>4 DEF LeaveTeam, State
  <2> QED BY <1>4, <2>1, EmptyIsState DEF LeaveTeam
<1>5. CASE Appear
  BY <1>5 DEF Appear
<1>6. CASE Reload
  BY <1>6 DEF Reload
<1>7. ASSUME NEW l \in Contacts, FetchDetails("contacts", l)
      PROVE  TypeOK'
  <2>1. now' \in State
    BY <1>7, NewList DEF FetchDetails
  <2> QED BY <1>7, <2>1 DEF FetchDetails
<1>8. ASSUME NEW l \in Announcements, FetchDetails("announcements", l)
      PROVE  TypeOK'
  <2>1. now' \in State
    BY <1>8, NewList DEF FetchDetails
  <2> QED BY <1>8, <2>1 DEF FetchDetails
<1>9. ASSUME NEW l \in Events, NEW mine \in BOOLEAN, FetchEvents(l, mine)
      PROVE  TypeOK'
  <2>1. now' \in State
    BY <1>9, NewList DEF FetchEvents
  <2>2. screen = Home => ~mine
    BY <1>9 DEF FetchEvents
  <2> QED BY <1>9, <2>1, <2>2 DEF FetchEvents
<1>10. ASSUME NEW section \in 0..2,
              NEW row \in 0..(NumberOfRows(seen, section) - 1),
              DrawRow(section, row) \/ TapRow(section, row)
       PROVE  TypeOK'
  <2>1. CASE Die
    BY <2>1, DieType
  <2>2. CASE ~Die
    <3>1. screen # Home /\ appearing'
          /\ UNCHANGED <<screen, now, seen, roleDue, reload, answered, left>>
      BY <1>10, <2>2 DEF DrawRow, TapRow
    <3>2. appearing' \in BOOLEAN
      BY <1>10, <2>2 DEF DrawRow, TapRow
    <3> QED BY <3>1, <3>2
  <2> QED BY <2>1, <2>2
<1> QED
  BY <1>1, <1>2, <1>3, <1>4, <1>5, <1>6, <1>7, <1>8, <1>9, <1>10 DEF Next

\* Types of all the state of the team screen.
THEOREM TypeCorrect == Spec => []TypeOK
<1>1. TypeOK /\ [Next]_vars => TypeOK'
  BY NextType
<1> QED BY InitType, <1>1, PTL DEF Spec

-----------------------------------------------------------------------------
(* Rows of the table, whatever has changed since they were counted *)

\* A contact's row never traps, however many contacts a snapshot has left.
THEOREM ContactsAlwaysDrawn == Spec => []ContactRowsExist
<1>1. TypeOK => ContactRowsExist
  <2> SUFFICES ASSUME TypeOK, NEW row \in 0..(NumberOfRows(seen, 0) - 1)
               PROVE  CellForRow(now, 0, row) # <<"trap">>
    BY DEF ContactRowsExist
  <2>1. row \in Nat
    BY RowsType DEF TypeOK
  <2> QED BY <2>1, NoTrapInContacts DEF TypeOK
<1> QED BY TypeCorrect, <1>1, PTL

\* A tap on a contact or an event opens what its row shows.
THEOREM TapsOpenCells == Spec => []TapOpensCell
<1>1. TypeOK => TapOpensCell
  <2> SUFFICES ASSUME TypeOK, NEW section \in {0, 2},
                      NEW row \in 0..(NumberOfRows(now, section) - 1),
                      CellForRow(now, section, row)[1] = "item"
               PROVE  ToSend(now, section, row) = CellForRow(now, section, row)
    BY DEF TapOpensCell
  <2>1. row \in Nat
    BY RowsType DEF TypeOK
  <2> QED BY <2>1, TapMatches DEF TypeOK
<1> QED BY TypeCorrect, <1>1, PTL

\* A contact has its one row, and so have the fixed rows and an admin's.
LEMMA ContactsOnce ==
    ASSUME NEW v \in State
    PROVE  /\ \A k \in DOMAIN v.contacts :
                 Shown(v, 0, <<"item", v.contacts[k]>>) = 1
           /\ Shown(v, 0, <<"league">>) = 1 /\ Shown(v, 0, <<"roster">>) = 1
           /\ Shown(v, 0, <<"manage">>) = AdminRows(v)
           /\ Shown(v, 0, <<"blank">>) = 0
<1>1. /\ v.contacts \in Seq(STRING) /\ Len(v.contacts) \in Nat
      /\ DOMAIN v.contacts = 1..Len(v.contacts)
      /\ v.admin \in BOOLEAN /\ AdminRows(v) \in {0, 1}
      /\ v.admin <=> AdminRows(v) = 1
  BY StateFields, AdminRowsType DEF AdminRows
<1>2. NumberOfRows(v, 0) = Len(v.contacts) + 2 + AdminRows(v)
  BY DEF NumberOfRows
<1>3. ASSUME NEW k \in DOMAIN v.contacts
      PROVE  Shown(v, 0, <<"item", v.contacts[k]>>) = 1
  <2> DEFINE cell == <<"item", v.contacts[k]>>
  <2>1. k + 1 + AdminRows(v) \in 0..(NumberOfRows(v, 0) - 1)
    BY <1>1, <1>2
  <2>2. CellForRow(v, 0, k + 1 + AdminRows(v)) = cell
    <3> DEFINE row == k + 1 + AdminRows(v)
    <3>1. /\ row # 0 /\ row # 1 + AdminRows(v) /\ ~(row = 1 /\ v.admin)
          /\ row - 1 - AdminRows(v) = k
      BY <1>1
    <3>2. row \in 0..(NumberOfRows(v, 0) - 1)
      BY <2>1
    <3> HIDE DEF row
    <3>3. CellForRow(v, 0, row) =
            <<"item", v.contacts[row - 1 - AdminRows(v)]>>
      BY <3>1, <3>2, ContactCells
    <3> QED BY <3>1, <3>3 DEF row
  <2>3. ASSUME NEW other, ShowsAt(v, 0, other, cell)
        PROVE  other = k + 1 + AdminRows(v)
    <3>1. other \in 0..(NumberOfRows(v, 0) - 1)
      BY <2>3 DEF ShowsAt
    <3>2. /\ other - 1 - AdminRows(v) \in DOMAIN v.contacts
          /\ v.contacts[other - 1 - AdminRows(v)] = v.contacts[k]
      BY <2>3, <3>1, ContactCells, CellsDiffer DEF ShowsAt
    <3>3. other - 1 - AdminRows(v) = k
      BY <3>2, EachOnce
    <3> QED BY <1>1, <3>1, <3>3
  <2> QED BY <2>1, <2>2, <2>3, Counted DEF ShowsAt
<1>4. Shown(v, 0, <<"league">>) = 1
  <2>1. ShowsAt(v, 0, 0, <<"league">>)
    BY <1>1, <1>2 DEF ShowsAt, CellForRow
  <2>2. \A other : ShowsAt(v, 0, other, <<"league">>) => other = 0
    BY ContactCells, CellsDiffer DEF ShowsAt
  <2> QED BY <2>1, <2>2, Counted
<1>5. Shown(v, 0, <<"roster">>) = 1
  <2>1. 1 + AdminRows(v) \in 0..(NumberOfRows(v, 0) - 1)
    BY <1>1, <1>2
  <2>2. CellForRow(v, 0, 1 + AdminRows(v)) = <<"roster">>
    BY <1>1 DEF CellForRow
  <2>3. \A other : ShowsAt(v, 0, other, <<"roster">>)
                  => other = 1 + AdminRows(v)
    BY ContactCells, CellsDiffer DEF ShowsAt
  <2> QED BY <2>1, <2>2, <2>3, Counted DEF ShowsAt
<1>6. Shown(v, 0, <<"manage">>) = AdminRows(v)
  <2>1. CASE v.admin
    <3>1. ShowsAt(v, 0, 1, <<"manage">>)
      BY <1>1, <1>2, <2>1 DEF ShowsAt, CellForRow
    <3>2. \A other : ShowsAt(v, 0, other, <<"manage">>) => other = 1
      BY ContactCells, CellsDiffer DEF ShowsAt
    <3> QED BY <1>1, <2>1, <3>1, <3>2, Counted
  <2>2. CASE ~v.admin
    <3>1. \A row : ~ShowsAt(v, 0, row, <<"manage">>)
      BY <2>2, ContactCells, CellsDiffer DEF ShowsAt
    <3> QED BY <1>1, <2>2, <3>1, Counted
  <2> QED BY <1>1, <2>1, <2>2
<1>7. Shown(v, 0, <<"blank">>) = 0
  <2>1. \A row : ~ShowsAt(v, 0, row, <<"blank">>)
    BY ContactCells, CellsDiffer DEF ShowsAt
  <2> QED BY <2>1, Counted
<1> QED BY <1>3, <1>4, <1>5, <1>6, <1>7

LEMMA AnnouncementsOnce ==
    ASSUME NEW v \in State
    PROVE  /\ \A k \in DOMAIN v.announcements :
                 Shown(v, 1, <<"item", v.announcements[k]>>) = 1
           /\ Shown(v, 1, <<"blank">>) = 0
<1>1. /\ v.announcements \in Seq(STRING) /\ Len(v.announcements) \in Nat
      /\ DOMAIN v.announcements = 1..Len(v.announcements)
      /\ NumberOfRows(v, 1) = Len(v.announcements)
  BY StateFields DEF NumberOfRows
<1>2. ASSUME NEW k \in DOMAIN v.announcements
      PROVE  Shown(v, 1, <<"item", v.announcements[k]>>) = 1
  <2> DEFINE cell == <<"item", v.announcements[k]>>
  <2>1. k - 1 \in 0..(NumberOfRows(v, 1) - 1) /\ k - 1 + 1 = k
    BY <1>1
  <2>2. CellForRow(v, 1, k - 1) = cell
    BY <2>1, AnnouncementCells
  <2>3. ASSUME NEW other, ShowsAt(v, 1, other, cell)
        PROVE  other = k - 1
    <3>1. other \in 0..(NumberOfRows(v, 1) - 1)
      BY <2>3 DEF ShowsAt
    <3>2. /\ other + 1 \in DOMAIN v.announcements
          /\ v.announcements[other + 1] = v.announcements[k]
      BY <2>3, <3>1, AnnouncementCells, CellsDiffer DEF ShowsAt
    <3>3. other + 1 = k
      BY <3>2, EachOnce
    <3> QED BY <1>1, <3>1, <3>3
  <2> QED BY <2>1, <2>2, <2>3, Counted DEF ShowsAt
<1>3. \A row : ~ShowsAt(v, 1, row, <<"blank">>)
  BY AnnouncementCells, CellsDiffer DEF ShowsAt
<1> QED BY <1>2, <1>3, Counted

LEMMA EventsOnce ==
    ASSUME NEW v \in State
    PROVE  /\ \A k \in DOMAIN v.events :
                 Shown(v, 2, <<"item", v.events[k]>>) = 1
           /\ Shown(v, 2, <<"addEvent">>) = AdminRows(v)
           /\ Shown(v, 2, <<"blank">>) = 0
<1>1. /\ v.events \in Seq(STRING) /\ Len(v.events) \in Nat
      /\ DOMAIN v.events = 1..Len(v.events)
      /\ NumberOfRows(v, 2) = Len(v.events) + AdminRows(v)
      /\ v.admin \in BOOLEAN /\ AdminRows(v) \in {0, 1}
      /\ v.admin <=> AdminRows(v) = 1
  BY StateFields, AdminRowsType DEF NumberOfRows, AdminRows
<1>2. ASSUME NEW k \in DOMAIN v.events
      PROVE  Shown(v, 2, <<"item", v.events[k]>>) = 1
  <2> DEFINE cell == <<"item", v.events[k]>>
  <2>1. /\ k - 1 + AdminRows(v) \in 0..(NumberOfRows(v, 2) - 1)
        /\ k - 1 + AdminRows(v) + 1 - AdminRows(v) = k
        /\ ~(k - 1 + AdminRows(v) = 0 /\ v.admin)
    BY <1>1
  <2>2. CellForRow(v, 2, k - 1 + AdminRows(v)) = cell
    BY <2>1, EventCells
  <2>3. ASSUME NEW other, ShowsAt(v, 2, other, cell)
        PROVE  other = k - 1 + AdminRows(v)
    <3>1. other \in 0..(NumberOfRows(v, 2) - 1)
      BY <2>3 DEF ShowsAt
    <3>2. /\ other + 1 - AdminRows(v) \in DOMAIN v.events
          /\ v.events[other + 1 - AdminRows(v)] = v.events[k]
      BY <2>3, <3>1, EventCells, CellsDiffer DEF ShowsAt
    <3>3. other + 1 - AdminRows(v) = k
      BY <3>2, EachOnce
    <3> QED BY <1>1, <3>1, <3>3
  <2> QED BY <2>1, <2>2, <2>3, Counted DEF ShowsAt
<1>3. Shown(v, 2, <<"addEvent">>) = AdminRows(v)
  <2>1. CASE v.admin
    <3>1. ShowsAt(v, 2, 0, <<"addEvent">>)
      BY <1>1, <2>1 DEF ShowsAt, CellForRow
    <3>2. \A other : ShowsAt(v, 2, other, <<"addEvent">>) => other = 0
      BY EventCells, CellsDiffer DEF ShowsAt
    <3> QED BY <1>1, <2>1, <3>1, <3>2, Counted
  <2>2. CASE ~v.admin
    <3>1. \A row : ~ShowsAt(v, 2, row, <<"addEvent">>)
      BY <2>2, EventCells, CellsDiffer DEF ShowsAt
    <3> QED BY <1>1, <2>2, <3>1, Counted
  <2> QED BY <1>1, <2>1, <2>2
<1>4. \A row : ~ShowsAt(v, 2, row, <<"blank">>)
  BY EventCells, CellsDiffer DEF ShowsAt
<1> QED BY <1>2, <1>3, <1>4, Counted

\* Laid out at once, the table shows each document in one row, the rows of an
\* admin to an admin only, and no row is blank.
THEOREM ItemsOnce == Spec => []EveryItemOnce
<1>1. TypeOK => EveryItemOnce
  <2> SUFFICES ASSUME now \in State PROVE EveryItemOnce
    BY DEF TypeOK
  <2>1. \A section \in 0..2 : Shown(now, section, <<"blank">>) = 0
    BY ContactsOnce, AnnouncementsOnce, EventsOnce
  <2> QED BY <2>1, ContactsOnce, AnnouncementsOnce, EventsOnce
          DEF EveryItemOnce
<1> QED BY TypeCorrect, <1>1, PTL

-----------------------------------------------------------------------------
(* isAdmin *)

\* Nothing but a team of which the user is an admin sets isAdmin, and no team
\* is opened before Home has reset it.
LEMMA NextRole ==
    ASSUME TypeOK, AdminRowsOwn, [Next]_vars
    PROVE  AdminRowsOwn'
<1> USE DEF AdminRowsOwn
<1>1. CASE UNCHANGED vars
  BY <1>1 DEF vars
<1>2. ASSUME NEW t \in Teams, OpenTeam(t)
      PROVE  AdminRowsOwn'
  BY <1>2, HomeAssumption, AdminOfAssumption DEF OpenTeam
<1>3. CASE SetRole
  BY <1>3 DEF SetRole, TypeOK, State
<1>4. CASE LeaveTeam
  BY <1>4 DEF LeaveTeam, TypeOK, State, Empty
<1>5. CASE Appear
  BY <1>5 DEF Appear
<1>6. CASE Reload
  BY <1>6 DEF Reload
<1>7. ASSUME NEW l, FetchDetails("contacts", l)
      PROVE  AdminRowsOwn'
  BY <1>7 DEF FetchDetails, TypeOK, State
<1>8. ASSUME NEW l, FetchDetails("announcements", l)
      PROVE  AdminRowsOwn'
  BY <1>8 DEF FetchDetails, TypeOK, State
<1>9. ASSUME NEW l, NEW mine, FetchEvents(l, mine)
      PROVE  AdminRowsOwn'
  BY <1>9 DEF FetchEvents, TypeOK, State
<1>10. CASE Die
  BY <1>10 DEF Die, Empty
<1>11. ASSUME NEW section, NEW row,
              DrawRow(section, row) \/ TapRow(section, row), ~Die
       PROVE  AdminRowsOwn'
  BY <1>11 DEF DrawRow, TapRow
<1> QED
  BY <1>1, <1>2, <1>3, <1>4, <1>5, <1>6, <1>7, <1>8, <1>9, <1>10, <1>11
  DEF Next

\* Nobody sees an admin's rows in a team of which they are no admin.
THEOREM OwnRole == Spec => []AdminRowsOwn
<1>1. Init => AdminRowsOwn
  BY DEF Init, AdminRowsOwn, Empty
<1>2. TypeOK /\ AdminRowsOwn /\ [Next]_vars => AdminRowsOwn'
  BY NextRole
<1> QED BY <1>1, <1>2, TypeCorrect, PTL DEF Spec
===========================================================================
