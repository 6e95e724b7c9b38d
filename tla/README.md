# Teamy in TLA+

Teamy is an iOS app for amateur sports teams. It has no server of its own: every
phone reads and writes Cloud Firestore through the Firebase SDK, keeps what it has
read in shared singletons, and edits those from view controllers. All the rules of
the system (who is an admin, who is blocked, what a code joins) are therefore kept,
or not kept, by what the phones do to whole documents from copies they read before.

Paths below are relative to `src/TeamyApp/TeamyApp/`; `MC/` is
`Controllers/Model Controllers/`, `VC/` is `Controllers/View Controllers/`.

## 1. The system

| Component | State | Operations | Talks to |
|---|---|---|---|
| Users (`MC/UserController`) | `users/{uid}` documents; cached `user`; arrays `admins`, `members`, `blocked` of the management screen | `createUser`, `fetchUser`, `fetchUsers`, `userjoinsTeam`, `blockUserFromTeam`, `deleteUser`, `deleteUserInfo`, `updatePassword` | Firestore, Auth, Teams |
| Teams (`MC/TeamController`) | `teams/{id}` documents; cached `teams` | `fetchTeamsForUser`, `createTeam`, `editTeam`, `addTeamToUser`, (`deleteTeam`, `uploadTeamPhoto`: no callers) | Firestore, Storage |
| Home (`VC/HomeViewController`) | the table of teams | fetch user, fetch teams, open a team, clear `isAdmin` | Users, Teams, Team screen |
| Create and join (`VC/CreateNewTeam…`, `VC/JoinTeam…`, `VC/CodeModal…`) | a drawn number, a masked text field | draw and pad a code, create with or without a photo, confirm a code | Users, Teams |
| Management (`VC/TeamDetail…/ManageTeam…`, `VC/Admin…/UserManagement…`) | rows per role | promote, demote, block, unblock, rename, bio, colour | Users, Teams |
| Players, contacts, announcements (`MC/TeamNested…`) | one sub-collection each, a cached array, a table | listener, create, update, delete | Firestore |
| Events (`MC/EventController`, `VC/CreateEvent…`, `VC/TeamDetail…/EventDetail…`) | sub-collection, cached sorted array, `team`, `isAdmin`, the event on the detail screen | listener, create, update in place (`deleteEvent`: no callers) | Firestore |
| Team screen (`VC/TeamViewController`) | the rows of three sections | count, draw and tap rows, set `isAdmin`, reload | the four arrays |
| Session (`VC/Auth…`, `VC/UserSettings…`) | Auth account, `currentUser`, the caches | sign up, log in, log out, delete account | Auth, Users, Teams, Home |
| Location search (`VC/Map…`) | a list of search results | search as you type, choose | MapKit |
| Cells, styles, layout | none | none | |
| Firestore SDK, writes (`../Pods/FirebaseFirestore`: `remote/`, `local/`, `core/`, `auth/`) | per user a mutation queue on disk; the write pipeline, the write stream and its token, the completion handlers | `setData`, fill, handshake, result, refusal, backoff, idleness, restart, change of user | FirebaseAuth, the server |
| Firestore SDK, listeners (the same) | document cache and resume tokens on disk; targets, view, online state, what the listener was told | listen, watch messages, acknowledgments, limbo resolution, existence filters | the server, the app's listeners |
| Other pods (gRPC, leveldb, …) | | | |

What is hard about it:

* **Interleaving.** Queries are answered on later turns of the main queue, in any
  order, to singletons that another screen, or another signed in user, owns by then.
  Two admins edit the same team from two copies.
* **Whole-document writes.** `editTeam`, `userjoinsTeam`, `addTeamToUser` and
  `blockUserFromTeam` write back every list of a document they read earlier. No
  transaction, no field update, no version.
* **Ordering.** A phone's writes reach the server in the order they were made, even
  after a kill; writes of different phones mix freely.
* **Delivery.** The SDK below does not promise what the app takes for granted: writes
  are delivered at least once, not once; tokens and users change on other threads; what
  a listener shows is put together from two streams that race, a cache, and guesses
  about documents the server did not mention.
* **Indices.** Rows are counted at one time, drawn at another, tapped at a third,
  and each time turned into an index of an array that a listener may have replaced.
* **Failure.** Every error path prints and returns: what had been done stays done.

`PROJECT.json` lists the places where these bite as hazards, each with its line and
the properties that cover it.

## 2. Modules

| Module | Models | Extends |
|---|---|---|
| `Lists` | the remove-by-index loop that the controllers share | community modules |
| `Firestore` | mutation queue, reads overlaid with it, commit | `Lists` |
| `Membership` | team and user documents, Home, create, join, management, blocking | `Firestore` |
| `TeamLists` | players, contacts or announcements (`kind`) | `Firestore` |
| `Events` | the events, the detail screen, the later reload | `Firestore` |
| `TeamScreen` | rows of the team screen and `isAdmin` | |
| `Session` | accounts, signed in user and caches of one phone | |
| `JoinCode` | a code: number, padding, mask, lookup | |
| `Delivery` | what Firestore promises about the writes of a phone's users | |
| `WritePipeline` | how the SDK sends them; implements `Delivery` | |
| `Listener` | how the SDK keeps a listener up to date | community modules |
| `ListLemmas` | facts about `Lists` | `Lists`, `TLAPS` |
| `MembershipProofs` | types; referential integrity; who has which role | `Membership`, `ListLemmas` |
| `TeamListsProofs` | types; array and collection | `TeamLists`, `ListLemmas` |
| `EventsProofs` | types; array and collection, rows, detail screen | `Events`, `ListLemmas` |
| `TeamScreenProofs` | types, roles, rows | `TeamScreen`, `TLAPS` |
| `SessionProofs` | types; whose teams and documents | `Session`, `TLAPS` |
| `WritePipelineProofs` | assertions, answers; the refinement of `Delivery` | `WritePipeline`, `ListLemmas` |
| `ListenerProofs` | types; what a synced listener shows | `Listener`, `ListLemmas` |
| `MC…` | instances for TLC | |

**Firestore.** `Write`, `LocalView` and `Commit` are what the app can observe of the
vendored SDK: `setData` goes to a queue on disk, a query answers with the server's
documents under the client's own pending writes, the queue is sent in order. The
lines mapped are those of the SDK that do this.

**Membership.** One phone per element of `Clients`. A query in flight is a record in a
slot of `call[c]`; asking, the answer and the callback that uses it are separate
actions (`AnswerJoin` reads, `FinishJoin` writes what was read), because anything may
happen in between. `listed` and `loading` are the rows of the management screen and
the `fetchUsers` queries behind them. A tap on a row (`MoveRow`) edits the rows,
`copy` (the open team), `teams` (the cache) and the queue, as the handler does, and
ends in a relaunch where Swift would trap. `Patient` says whether users let a screen
load before they go on.

**TeamLists, Events.** `server`, `queue`, `told` and `mailbox` are the collection, the
writes under way, the last snapshot a listener took and the snapshots whose handlers
still have to run. `cache` or `events` is the shared array, `rows` what the table was
drawn from. The three controllers of `TeamLists` differ in what update and delete do;
`kind` says which one a behaviour is about. In `Events`, `held` is the event of the
detail screen and `aliased` says whether it is still the object in the array: `Event`
is a class, so an edit in place reaches both until a snapshot makes new objects.

**TeamScreen.** `now` is what the shared arrays and `isAdmin` are, `seen` what they
were when the table was last laid out. `NumberOfRows`, `CellForRow` and `ToSend` are
the three methods of the table. Sections and rows count from 0 as in the code. A list
has each document once, as a snapshot and a new document's fresh id leave it.

**Session.** One phone, several users. A call in flight knows whose it is and whether
the screen that made it is still in front; the answers go to the shared `user` and
`teams` whoever is signed in by then.

**JoinCode.** `Base` digits and `Size` of them, 10 and 6 in the app. `Decimal`,
`AddZeros`, `Format` and `FinalCode` are the string functions of the code over
sequences of digits, blanks and one other character.

**Delivery.** An outbox per user. The server applies its writes in order and as that
user; the phone hears of them, oldest first, or the connection is lost (`Forget`) and
everything not yet heard of is applied again.

**WritePipeline.** The three threads are three queues: `main` (what FIRAuth posts),
`net.asked` (requests for a token in FIRAuth's queue) and `worker`. `net` is
RemoteStore with its stream: `pipeline`, `state` as in `stream.h`, `closes` the close
count, `up` and `down` the two directions. `Fill`, `Close`, `Restart`, `Start` are
functions of `net`, because handlers call one another; an action is one turn of a
queue, a timer or the server. A token is the user it is for. Signing in is
`ChangeUser`, which only posts a notice, as FIRAuth does; everything that follows takes
a turn of its own on another thread. Completion handlers are found by user and batch
id (`callbacks`), and ids are used again (`FreshId`); `ended` is what was posted to
them. `Crash` keeps what is on disk and starts over, with a user who may still be
missing. A process may be killed at any point of a turn, and for most turns that is a
kill before or after it, since what they do in memory is lost. Two turns both tell a
handler and change the disk: `HandleSuccessfulWrite` tells first, `HandleRejectedWrite`
removes first (`core/sync_engine.cc:350`, `362`). `LeftBehind` has the states in
between; no other queue looks at either, so only a kill can tell.

**Listener.** `history` is all the server has committed, so a version is a position in
it. `cache` and `disk` are on disk, `targets` is `listen_targets_` together with what
the aggregator and limbo resolution keep per target (`responses` counts the requests
not yet answered: until it is 0, messages about a target are ignored). `view` is the
query's `View`; `Emit` is `EmitNewSnapshotsAndNotifyLocalStore` with all that follows
from it: new documents, limbo targets that come and go, the listener told. A snapshot
message stands for the document changes, existence filter, CURRENT and global snapshot
that the server sends together; `how` is one of the three ways a resumed query may
learn of deletes. `keysLost` is nothing the code keeps: it remembers whether the app was
last launched with keys on disk that were not those of the resume token beside them, and
no guard reads it.

Modules do not share variables: the team that `TeamScreen` and `TeamLists` open is the
one that `Membership` opens, and the arrays that `TeamScreen` lets change freely are
those that `TeamLists` and `Events` fill. Every list `TeamScreen` quantifies over is
one that those modules can deliver. `Firestore` is the SDK as the app sees it, what
`WritePipeline` and `Listener` do underneath without their failures: commits happen
once. Where a lost answer makes a write happen twice, the app's documents are written
whole, so that only the time of a write changes, not its content: a write may undo
what others wrote between its two applications, which is one more way for the
overwriting that `v_blocked` shows.

Operators whose comment begins with "A slip in" are not part of the system. Each is a
definition with one plausible programming error, kept next to the original to show
that a property notices it.

## 3. What is checked

Nine runs pass and three find violations. All but `codes` and `team_screen` turn deadlock
checking off: taps, writes and failures are bounded and optional, so phones may come to
rest.

| Run | Instance | Properties | What it shows |
|---|---|---|---|
| `two_admins` | users a, b, c; a and b admins with phones, c a member; 2 edits | `TypeOK` `HasAdmin` `RolesDisjoint` `RowsMatchTeam` `TappedRowMoves` | stale copies of two admins cannot lose the last admin or give somebody two roles, and the row acted on is the row tapped, if users wait for rows to load |
| `create_join` | an admin and a newcomer, with a team or without one (`Starts`), two queries in flight each, failing queries, one kill, 2 edits | `RefIntegrity` `RolesDisjoint` `JoinRecorded` | a user document never names a team the server lacks; two taps on Confirm list nobody twice; who joined gets the team in the own document |
| `lists_two_admins` | two admins; players with 2 edits, announcements with 1; two documents | `TypeOK` `Converged` `Propagates` | array and collection agree when nothing is under way, also where updates leave the array alone; a document reaches every listener |
| `events_two_admins` | two admins, two events, two dates, 2 edits, 1 snapshot waiting | `TypeOK` `Agrees` `RowsCurrent` `DetailAgrees` `Shown` | appended and edited in place as they are, arrays end up sorted and equal to the collection, rows and detail screen with them; whoever stays on the screen ends up with a row for each event on the server |
| `session` | three users, two with teams, three calls in flight, 2 failures, 1 kill | `TypeOK` `OwnTeams` `DocsMatchAccounts` `OnlyDeletedLinger` `DeletesOwnInfo` `TeamsShown` | whose teams are shown and whose document is deleted, for users who wait |
| `codes` | two digits, codes of three, two teams, inserts of up to three characters | `TypeOK` `Spaced` `BackspaceErases` `CodeFindsTeam` | every text reachable by typing, pasting and deleting; every pair of codes |
| `team_screen` | two teams, admin of one; up to two contacts and events, one announcement | `TypeOK` `EveryItemOnce` `TapOpensCell` `AdminRowsOwn` `ContactRowsExist` `AdminSees` | one row per item, taps agree with rows, an admin's rows for the admin only, and in the end |
| `sdk_writes` | a user and nobody, three writes, a pipeline of two, 2 troubles | `TypeOK` `AssertionsHold` `AnswersMatch` `AnswersTrue` `Delivered` `Flushed` | the SDK's assertions hold, answers are matched with the right writes and handlers, handlers are told the truth and once, `Delivery` is implemented, and writes of whoever is signed in do not wait for ever |
| `sdk_listen` | two documents, one there at the start, 3 commits, one own write, 2 troubles | `ShownIsServer` `CaughtUp` | a synced listener shows one version of the server under the own writes; in the end it shows what the server has |
| `v_blocked` | as `two_admins` | `BlockedStaysOut` | violated: see below |
| `v_contact` | contacts, 1 edit | `DeleteIsWritten` | violated: see below |
| `v_mismatch` | as `sdk_listen`, no own write | `KeysMatchToken` | violated: see below |

Bounds. `MaxEdits` counts taps that write: two are enough for two admins to overwrite
each other, to create a team and join it, and, where the team is there at the start, to
join it twice or to block whoever joined. Longer histories of `create_join`, and users
who do not wait, are what `ReferentialIntegrity` is proved for. In `TeamLists` it
depends on the kind (`EditsOf`). `MaxMail` holds back snapshots of what others did while
so many wait: 1, so that one waits while another state of the collection exists. A
client's own writes come on top. For longer mailboxes the invariants are proved.
`MaxRows` bounds the queries for one row. `Slots` bounds the calls in flight: one more
than a patient user can have. `Failures` are the queries that may fail. With two dates
events can be equal, in order or out of order; with codes of three digits a number needs
no zero, one or two. A troubles bound of 2 (`MaxTroubles`) in the SDK's modules allows
any two of: a changed user or refreshed token, a failed token, a broken stream, a
refused write, a changed network, a kill; two are needed to break a stream while what
the first one set off is still under way, and for a user to leave and come back. Three
writes with a pipeline of two leave one that has to wait for room. Three commits leave
room for a write, an answer and a later delete; two documents for a number of documents
that is right although the documents are wrong. `MaxPendingWrites` is 10 in the code and
any positive number in the model.

Fairness. A phone's main queue runs, a connected phone sends its queue, a listener is
told of changes and a query is answered: weak fairness of exactly those actions, in
each module's `Fairness`, action by action or, in `Events`, phone by phone (in
`Membership` of no more answers than a join needs to get into the user's document).
Nobody is obliged to tap. `Shown` is without kills, `JoinRecorded` and
`TeamsShown` say what a kill or a failed call excuses. In `WritePipeline` each of the
queues (FIRAuth's, main, worker) is served, streams open, timers fire and the server
answers, weakly fair by thread and not by action; failures are not fair, and bounded:
`Flushed` says that nothing is left undone by them, not that a phone without a network
gets through. In `Listener` one weak fairness is enough: as long as server, streams or
acknowledgments can go on, something does.

The server is external: what it sends is taken from what the code asserts and relies
on. It handles a stream's requests in order, answers each and ends the stream over a
write it refuses. Requests on a closed stream it has not handled yet are lost with it;
one that it had handled, whose answer is lost, is `Forget`. Its versions only grow, a
global snapshot brings every target it watches up to date, and an existence filter
counts what is there at that snapshot.

What `Delivered` rests on. A token asked for before the user changed must not authorize
the stream of the next one. The code has two locks: the provider's `token_counter`, and
the stream's close count, which every change of user raises. The close count alone is
enough: with the counter's check removed TLC finds no violation of `Delivered`; with
the close count's removed `AssertionsHold` fails.

What `AnswersTrue` allows. A handler that was told of success can be about a write that
is still on disk, because the process was killed before `AcknowledgeBatch` took it away
(`core/sync_engine.cc:354`); that write is sent and applied again after the launch.
`AnswersTrue` says that this is the oldest batch of its user, that it was applied, and
that no handler is told of it again, whatever becomes of the second time. That a write
reported as done never waits is false: TLC kills the process there. What was reported
as failed never waits, and a process killed in that turn has told nobody.

What the app gets out of it. Once a user signs out, what that user had not sent waits
until the same user signs in again; `Flushed` is about whoever is signed in in the end.
Deleting an account deletes the document and then the account without waiting
(`VC/UserSettings…:119`), so an unsent delete stays on the phone for good.

Premises that matter. Some properties hold only for users who wait or while nothing
has failed, and they say so: `RowsMatchTeam` and `TappedRowMoves` need `Patient`
(reopening the management screen before its queries are answered lists people twice,
and acting on the second row removes somebody else, `VC/Admin…/UserManagement…:92`);
`OwnTeams` and `OnlyDeletedLinger` need it too (an answer for the last user may come
last, `MC/TeamController:66`); `DeletesOwnInfo` needs that no fetch failed and no kill
left an account without a document (the document deleted is that of the cached user,
`MC/UserController:142`); `OnlyDeletedLinger` excepts users who deleted their account
(nothing empties the list, `VC/UserSettings…:120`).

`ShownIsServer` and `CaughtUp` except documents the watch stream has passed by
(`PassedBy`). The view keeps its copy of a written document after the acknowledgment,
"as Watch will send us the same document again" (`core/view.cc:250`). When another
phone deletes the document before the watch stream first comes to it, there is nothing
to send: the view's copy counts as locally mutated, so it is not looked up as a limbo
document either (`core/view.cc:344`), and stays on the screen of a listener that is
synced until the app is launched again. The instance reaches this; without the
exception TLC refutes `ShownIsServer` there.

Both also except a phone that was last launched with keys that are not those of its
token (`keysLost`), which a kill after a mismatch leads to. TLC shows what comes of it
with `MaxCommits` 6, `MaxWrites` 0 and `MaxTroubles` 3. The phone knows d1 and d2 when
the stream breaks, and d2 is deleted. The resumed query names no delete, and two keys
are not the one document that the server counts. The keys go, a token stays on disk, and
the app is killed. It resumes with the token: d1 is found through limbo, but is no key,
since nothing about it is new. d2 is written again and becomes one, the app is killed
again, and d2 deleted again; now the one key fits the one document that the server
counts, and nobody asks about d2. Once d1 goes too, the listener is synced and shows d2,
which does not exist.

Findings.

* `v_blocked`: "Member ---> Blocked" (`VC/Admin…/UserManagement…:112`). Another admin
  who opened the team earlier saves anything, the whole old document is written, and
  the blocked user is a member again.
* `v_contact`: "Contact successfully removed" (`MC/TeamNested…/ContactController:77`).
  The screen takes the contact out of the array before it calls `deleteContact`, which
  looks for it there first, and returns. The contact is back with the next snapshot.
* `v_mismatch`: "Clear the resume token for the query, since we're in a known mismatch
  state", "so that we get a full update" (`remote/remote_store.cc:329`, `:337`). Cleared
  is the token in memory. `ApplyRemoteEvent` takes the keys off the disk and leaves a
  token there (`local/local_store.cc:278`, `:281`), so an app killed before the full
  update has come resumes from a version whose keys it does not have. In the model, as
  with a server that sends a token with each global snapshot, it is the mismatch's own
  version; an older one left there would stand for keys that are gone just as well.

## 4. What is proved

The theorems hold for every value of the constants that the named assumptions allow:
any number of users, phones, teams, calls and writes, any lists, any bounds, with
failures and kills. Those about roles, and all but the first of `SessionProofs`,
assume `Patient` besides; they are false without it (see the premises in section 3).
`ArraysConverge` leaves out the contacts, of which it is false (`v_contact`).

* `MembershipProofs!TypeCorrect`: `Spec => [](TypeOK /\ ScreenInv)`. Types alone are
  not inductive: a tap edits `copy`, which must be a team and not `NoDoc` when the
  screen is up. `ScreenInv` says what each screen implies about the open team. One
  lemma per group of actions (`RespondType`, `TapType`, `FlushType`, `RowType`), which
  rest on `ListLemmas` about removal by index.
* `MembershipProofs!ReferentialIntegrity`: `Spec => []RefIntegrity`. The invariant
  `RefInv` follows a team id backwards: it is in a user document on the server, or in
  a queued write behind a write of the team (`QueueRefs`), or in a query in flight
  that its phone has a basis for (`AllCallRefs`). `Known` is that basis: the server has
  the team, or this phone's queue does. It survives kills because the queue does, and
  commits because they are in order. A lemma per handler shows that it adds to the
  queue only what is known.
* `MembershipProofs!AlwaysAnAdmin`, `OneRoleEach`, `RowsAreTheLists`,
  `OnlyTappedRowMoves` (`HasAdmin`, `RolesDisjoint`, `RowsMatchTeam`,
  `TappedRowMoves`). Copies are stale and are written over newer ones, so the argument
  is not that a copy is current but that every copy is good by itself: `DocsInv` says
  of each document of a team, on the server, in a queue, in an answer on its way, in a
  cache or under edit, that it has an admin and nobody in two roles. To keep that, a
  row must be in the list from which it is taken (`RowsMatchTeam`), and the last admin
  must not take away the own role: rows leave out the user's own, which is enough
  because whoever has an admin's screen is an admin in the copy they edit (`OwnAdmin`).
  This in turn needs that no answer replaces the cached teams while one of them is open
  (`Settled`), which is what patience buys.
* `TeamScreenProofs!TypeCorrect`, `OwnRole`, `ContactsAlwaysDrawn`, `TapsOpenCells`:
  types; that the one `isAdmin` which all teams share says nothing about a team of
  which the user is no admin (inductive with the types, which say that without a
  screen nothing is pending); and, for lists of every length, that a contact's row
  never traps and that the two places that turn a row into an index agree.
  `ItemsOnce` (`EveryItemOnce`): a table laid out at once has one row per document and
  the rows of an admin for an admin, for lists of every length.
* `TeamListsProofs!TypeCorrect`, for all three kinds of list, and `ArraysConverge`
  (`kind # "contacts" => Converged`). The array is edited before the write is
  confirmed and replaced by every snapshot, so it need not be the collection at any
  given time. What always holds is `AllReflect`: the last snapshot that waits is what
  the listener was told last, and without any the array has the documents the listener
  was told of. A tap keeps it because its write tells the listener (`Taken`), or tells
  it nothing new, and then the edit leaves the array's content as it is (`Agreeing`).
  The lemma for a delete has a second outcome, nothing written, for contacts only.
* `EventsProofs!TypeCorrect`, `ArraysAgree`, `RowsAreCurrent`, `DetailInArray`
  (`TypeOK`, `Agrees`, `RowsCurrent`, `DetailAgrees`). `AllFollow` is the same for the
  events, with one more turn: an event is appended or edited without sorting, and the
  array is sorted again only because a snapshot of that write always waits. For a new
  event this needs that nobody draws an id the listener has been told of (`ToldExist`);
  for an edit in place, that the object edited is the one in the array. `RowsFollow`
  has rows that differ from the array reloaded later, which needs that the last
  snapshot that waits belongs to the screen in front.
* `SessionProofs!TypeCorrect`, for patient users and others; `ShowsOwnTeams`,
  `AccountsHaveDocs`, `NoTeamsLeftBehind`, `OnlyOwnInfoDeleted` (`OwnTeams`,
  `DocsMatchAccounts`, `OnlyDeletedLinger`, `DeletesOwnInfo`) for patient ones. An
  answer goes to whatever user is cached by then; `SessionInv` says why that is the one
  who asked: calls in flight belong to the screen in front and to the current user, and
  one that enters or deletes is alone (`CallsFit`); teams are the current user's or a
  deleted one's, also while nobody is signed in (`TeamsLinger`), and are being fetched
  when they are not there (`TeamsComing`). While nothing failed, an account is without
  document only between two calls (`DocsFollow`) and the cached user is the current one
  or being fetched (`UserCached`).
* `WritePipelineProofs!TypeCorrect`, `Assertions`, `Answers` (`TypeOK`,
  `AssertionsHold`, `AnswersMatch`). Answers are matched by position, so what has to be
  known is the position of everything: queues are sorted by id (`QueueInv`), the
  pipeline is the beginning of the current user's queue, and what was applied and not
  yet heard of, followed by what the server has yet to handle, is the pipeline once the
  handshake is done (`NetInv`). A token finds the stream that asked for it because at
  most one request, in one of three places, carries the close count of now
  (`CountsInv`, `OneToken`).
* `WritePipelineProofs!ToldTheTruth` (`AnswersTrue`) and `Delivers` (`Spec => Delivered`).
  `Delivery` says that a user's writes are applied as that user, so the token of the
  stream must be the one of the user whose queue it sends. FIRAuth, the main queue, the
  worker queue and the engine may each have another user; `UserInv` says that reading
  them in the order in which they will be read ends with the current one, and that an
  answer whose counter is still right was read when no notice was on its way.
  `WriteInv` and `CallbackInv` say that a write is in one place and that a callback
  stands for the batch that waits under its id, although `FreshId` gives ids again; the
  one write that can be both ended and waiting is the oldest of a queue, left there by a
  kill (`KnownOf`). A kill after a removal is a step `Refuse` of `Delivery`. The
  refinement is then shown action by action: one of `Delivery`'s steps (`Puts`,
  `Applies`, `Confirms`, `RefusesOldest`, `Forgets`) or a stutter.

* `ListenerProofs!TypeCorrect`, `ShownCorrect` (`ShownIsServer`) and `KeysKept`
  (`Spec => [](keysLost \/ KeysMatchToken)`), for any set of documents and any number of
  commits, writes, broken streams, mismatches and kills. The invariant `Inv` ties every
  part of the phone to the history of the collection. `Tracked` does so for a target:
  the answers it waits for are those on their way; the last request asks for what comes
  after the token; and once the server has taken that request, each snapshot that will
  count names exactly the documents that changed since the one before it that counts,
  or since the token. That is what makes it sound to ignore messages while answers are
  missing, and to conclude from silence that a document is gone. `CacheInv` has each
  cached document a past version, `AcksInv` and `OwnInv` the phone's own writes either
  cached or still in the queue, `MessagesInv` a snapshot no older than what is cached
  unless the view holds the document back, `ViewInv` the queue laid over the cache, and
  the documents in limbo those asked for one by one. `KnowInv` is the core: the query's
  keys are what existed at the token's version, all of those documents are cached at
  least as new, and a view that is current is ahead of the token only in documents that
  were in limbo. It is not inductive without the premise about `keysLost`: the attempt to
  prove it led to `v_mismatch`. One lemma per action, for `HandleSnapshot` one per part
  of the state (`CachedFromIs`, `TargetsAfterOK`, `StreamAfterOK`, `EmitTracked`).

Every invariant and action property that a passing run checks is proved, but for those
of `JoinCode`. Left to TLC: liveness (`JoinRecorded`, `Propagates`, `Shown`,
`TeamsShown`, `AdminSees`, `Flushed`, `CaughtUp`), since the prover has no ENABLED; what
recursive functions and folds compute (`Decimal` and `Format`, on which the properties
of `JoinCode` rest: they would need induction over numbers and texts).

## 5. What is not modelled

* In the app's modules: answers from the SDK's cache while a phone is offline, and
  writes that security rules reject. The repository has no rules file.
  `Listener` shows what is on disk before the server answers, and `WritePipeline` has
  refused writes.
* In `WritePipeline`: stream tokens and the reset of an invalid one
  (`HandleHandshakeError`), transactions, `waitForPendingWrites`, disabling the network
  from the API, shutdown, and a server that ends a stream with status OK. The app calls
  none of these, and the server has no reason for the last.
* In `Listener`: listens that the server rejects, queries with limits and filters (the
  app's have none), more than a hundred limbo resolutions at a time, garbage
  collection of the cache, `get` beside listeners, and a change of user, of which only
  the restart of the streams is there. Its writes are abstract: applied in order,
  acknowledged in order, perhaps lost (what `Delivery` says).
* The other pods (gRPC, leveldb, BoringSSL, protobuf, Storage): a stream that breaks,
  opens or answers, and a disk that keeps what it was given, are all the models see of
  them. Their share of the repository's lines is by far the largest.
* `fetchTeamsForUser` and `fetchUsers` ask once per id and gather the answers; in
  `Membership` the teams of one fetch are answered together, and users one by one.
  The order of the rows on Home, and duplicates in it, are not modelled.
* Name, bio, colour, sport, records and images: one abstract edit that writes the
  whole document (`EditDetails`). Storage only as the delay before a team with a photo
  is written; photos of equal names overwrite each other and that is not modelled.
* `resetTeamCode`: its button is hidden as soon as the code is shown. `deleteTeam`,
  `deleteEvent` and `uploadTeamPhoto`: nothing calls them. `UserController` appending
  a joined team to the cached user: nothing reads it before the next fetch.
* The photo picker, changing a password, the reset mail, geocoding, location search
  (its answers may arrive out of order: a hazard without a property), cells, layout.
* In `TeamLists`, clients with two teams open in turn: every listener fills the same
  array and is never removed (`MC/TeamNested…/PlayerController:48`), so the array is
  that of whichever team changed last. The properties are about clients that listen to
  one team.

## 6. Plan

Done in this order: `Lists`, `Firestore`, `Membership` with its types and referential
integrity proved; `TeamLists`; `Events`; `Session`; `JoinCode`; `TeamScreen` and its
theorems; `Delivery`, `WritePipeline` and the refinement between them; `Listener`; the
proofs about `WritePipeline` with the refinement, about roles, about `Session`,
`Events` and `TeamLists`; the proofs about `Listener`. What would come next:

1. `Gather`: the per-id answers of `fetchTeamsForUser` and `fetchUsers`, an abstract
   specification that answers once with everything, and the refinement between them.
2. A replicated list (an array that ends up equal to the collection) as the abstract
   specification of `TeamLists` and `Events`.
3. A user document that lacks the team (`MC/UserController:256`), and clients with two
   teams open in turn.
4. Location search, with out-of-order answers.
