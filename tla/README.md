# kicearena: specifications and proofs

TLA+ specifications of the kicearena server and of the client pages that share state with it
(`server/`, `shared/`, `client/src/`), model-checked with TLC, and proofs about them checked with
TLAPS. Paths below are relative to the repository root; line numbers of every definition are in
`PROJECT.json` under `map`.

## 1. The system

kicearena is a quiz arena: a Bun/Express/Socket.IO server, one Postgres database, an optional
Redis adapter that connects several server processes, and a React client. Players meet in *rooms*;
a room runs one exam, as a casual game with items or as a contest with a scoreboard that freezes
before the end and is revealed answer by answer afterwards. An *event* schedules one exam for many
players; a *campaign* brings them in by referral links, accounts and verified e-mail addresses.

| Component (code) | State | Operations | Correct when |
|---|---|---|---|
| Keyed mutex (`server/keyedMutex.ts`) | promise per key | `run(key, task)` | tasks of a key run one at a time, in order; a throwing task does not wedge its key; the map does not leak |
| Rooms and sockets (`server/index.ts`, `shared/roomLifecycle.ts`, `shared/roomConfig.ts`, `server/eventSpectatorRooms.ts`) | `rooms`, `socketToPlayer`, `socketToSpectator`, sockets, timers | socket events, maintenance every second, admin end, unlocked HTTP reads, restart | bindings and presence stay right however requests wait and sockets come back; a room walks its stages once; abandoned rooms go |
| Room persistence (`withRoomMutation`, `getPersistedRoom`, `emitRoom`, `scheduleRoomBroadcast`; `server/roomDatabase.ts`) | `room_states` row, `contest_submissions`, advisory locks, the in-memory cache | transaction per mutation, unlocked read, contest fast path, 50 ms broadcast | mutations of a room are serial; what was acknowledged is never lost |
| Admission and pool (`room:create`, `event:register`, `makeAvailableCode`, `createExamCatalogPool`) | rows of all rooms, ten connections per process | count, look for a place, open, write | limits of rooms and places hold; no transaction waits for ever for a connection |
| Contest submissions (`submitContestAnswerFast`; `saveContestSubmission`) | table, sequence, submit mutex, cached player | submit, retry, reload | an answer is stored once; a retry is safe; attempts are counted right |
| Scoring and reveal (`server/scoring.ts`, `shared/reveal.ts`, freeze in `server/index.ts`) | history, totals, frozen rows, reveal counter | submit, freeze, finish, reveal | derived and running totals agree; freezing and revealing loses and adds nothing |
| Items (`server/items.ts`, `item:use`, `answer:submit`; `components/arena/ItemDock.tsx`, `AnswerPanel.tsx`, `ArenaScreen.tsx`) | inventory, cooldowns, effects, notices | award, use, refresh, expire | one effect of an item at a time; what is shown is true, and ends; screens and server agree |
| Event settings (`/api/admin/exams`, `syncEventRoomsForExam`, `refreshExamCatalog`; `server/examDatabase.ts`) | exam and problem tables, `examById`, event rooms | create, edit, end, sync, seed, restart | catalogue and open rooms follow the table; times and boards of running rooms stay right |
| Admin editor (`screens/admin/*`) | copy of the tables, selection, forms, requests under way | select, type, save, add, upload, receive | the copy is what the tables hold; a form belongs to what is selected |
| Campaign accounts (`server/campaign*.ts`, `/api/campaign/*`, `AuthSignupScreen`, `AuthLoginScreen`, `EventHomeScreen`) | accounts, codes, links, visits, cookies | sign up, verify, log in, enter, edit links | only verified accounts enter; what the browser believes is so; a visit counts for one account |
| Referral gate (`ReferralSchoolGate`, `useReferralGateState`, `server/highSchoolGeo.ts`) | ticket in storage and in the page | locate, pass, leave | a ticket is for the school of its link |
| HTTP rate limit (`server/httpRateLimit.ts`) | bucket per key | attempt | a bounded number of attempts per window |
| Socket rate limit, client room state, statistics, problem attempts, metrics, health, SEO, parsing, screens, deployment | small or none | | not modelled, see 6 |

**How they interact.** A socket event reads the socket's `SocketPlayerRef` at once and calls
`withRoomMutation(code, body)`. That waits for the keyed mutex of the room code, takes a connection
of the pool, opens a transaction, takes `pg_advisory_xact_lock(hashtext(code))`, and runs the body.
The body reloads the room (`getPersistedRoom`: row, contest submissions, presence), which replaces
the cached object, checks that the captured reference is still current, changes the object and calls
`emitRoom`, which starts, finishes or freezes a room that is due, adds one to the version, queues the
row for writing and broadcasts. After `COMMIT` the replies go out. Four paths do not hold the lock of
the room: unlocked reads (HTTP, event lookups) also replace the cached object; `event:register`
changes event rooms under the key `__event_register__` and `room:create` opens rooms under
`__room_create__`; contest answers work on the cached object, serialized only per player and
problem; and the 50 ms broadcast timer these start saves the captured object as it is. The
administrator's requests write the exam tables, replace `examById` and then go through the event
rooms one lock at a time. The pages keep copies: of the tables (editor), of the account and the
ticket (campaign), of the last room (arena).

**What is hard.** Requests whose bodies run long after the reference was read; a disconnect that is
served after its player came back; a kick, leave, close or expiry with other sockets still bound;
a socket closing while its own request waits; registration, creation and joining under different
keys; the end of the exam coming from host, timer, answer and administrator in any order
with the freeze; a failed statement after the handler has changed memory; a crash inside a
transaction; an unlocked snapshot or write arriving late; retries of answers already stored;
transactions that hold a connection and ask for another; settings of an exam changed while its rooms
run; effects that have ended before anybody noticed; answers of the server that reach a page which
has moved on; links changed between a ticket and its use. All of them are listed at their lines under
`hazards` in `PROJECT.json`, with the properties that cover them or the reason why none does.

## 2. The modules

| Module | Models | Variables and the code they stand for |
|---|---|---|
| `KeyLock` | abstract lock per key: ask, acquire, release, with fair service | `want`, `holder`, `settled` |
| `KeyedMutex` | `server/keyedMutex.ts`, every step of `run()` | `queues` (the map), `previous` (the promise awaited), `pc` per call; `ticket`, `made` record the order of calls |
| `RoomLife` | abstract life of a room: stages, board sealed once, reveal one at a time, what may be closed | `stage`, `board`, `opened` |
| `AtomicRoom` | abstract room that changes in one step per mutation | `content`, `outcome` of a request, `found` (the room its reply shows) |
| `AnswerBook` | abstract book of answers: each entered once, and what a request is told | `book`, `asked`, `entered`, `reply` |
| `Rooms` | sockets, players, rooms, the waiting bodies, maintenance, events, restart | `rooms`, `player`, `socketToPlayer`, `socketToSpectator`, `live`, `queue`, `phase` |
| `RoomStore` | one room between several processes and Postgres | `row`, `table`, `advisory`, `mutex`, `object`/`cache` (the room objects in memory), `txn`, `timer`, `writes` |
| `RoomAdmission` | many rooms and the three kinds of keys: opening, registering, changing, statement by statement | `rows`, `stage`/`at`/`target`/`object` of a request, `captured` (what a broadcast timer will write), `due` |
| `ContestSubmissions` | the submit path and its table, one player | `table`, `next`, `memory`, `snapshot`, `call` |
| `Scoreboard` | points, penalties, standings, freeze, reveal | `history`, `total`, `frozen`, `revealed`, `now` |
| `Items` | items and effects of a casual room, and what the screens offer | `inventory`, `readyIn` (`itemCooldowns`), `effects`, `expired`, `solved`, `wrong`, `row` (`consecutiveWrong`), `roomStatus` |
| `ExamSettings` | exam table, catalogue and event rooms under the administrators' requests, one await per step | `table`, `cached` (`examById`), `rows`, `req`, `reg` |
| `AdminEditor` | the administrator's page against the tables | `tables`, `page` (copy, selection, forms), `calls` |
| `RateLimit` | `server/httpRateLimit.ts` | `buckets`, `now`; `passed` records what was let through |
| `CampaignAccounts` | the `/api/campaign` handlers and tables, one statement per step; extends `RateLimit` | `users`, `events` (referral visits), `whitelist`, `calls`, `seats` |
| `Signup` | the browsers of the campaign; extends `CampaignAccounts` | `page`: storage, application, cookie, socket handshake, gate, and the requests: `call` of the screen shown, `left` of screens that are gone, `entry` over the socket with `entering` (`pendingEventAction`) |
| `MCServer`, `MCRoomStore`, `MCPlay`, `MCExams`, `MCSignup` | instances for TLC | `part` chooses one of two or more kinds of behaviour |
| `Server_proofs` | theorems about `KeyedMutex` and `RoomAdmission` | |
| `Exams_proofs` | theorems about `ExamSettings` and `AdminEditor` | |
| `Signup_proofs` | theorems about `RateLimit`, `CampaignAccounts` and `Signup` | |
| `RoomStore_proofs`, `ContestSubmissions_proofs`, `Rooms_proofs`, `Items_proofs`, `Scoreboard_proofs` | theorems about the module in the name (`Rooms_proofs` also that it implements `RoomLife`) | |

How they compose: `KeyedMutex` implements `KeyLock` (proved). `Rooms` uses that result: its waiting
bodies are a FIFO queue per key and a body is one step. `RoomStore` opens that step up: it has one
room whose content is only *which operations it reflects*, and shows under which conditions a body
may be taken as one step: `RoomStore` implements `AtomicRoom` where every writer holds the lock of
the room (proved). `RoomAdmission` opens it up for what needs more than one room and key. `Rooms`
implements `RoomLife` (proved; with its fairness model-checked). `ContestSubmissions` opens the fast
path that is one step in `Rooms` and implements `AnswerBook` (proved), `Scoreboard` the scores and
`Items` the effects that `Rooms` leaves out, and `ExamSettings` the settings that are constants
there. `Signup` runs the pages, the statements and the rate limit of the campaign together.

Definitions whose comment says *Faulty variant* are not part of the model. Each is a plausible bug
in the definition below it, and is kept to show that a property notices it (`mutants` in
`PROJECT.json`).

### Abstractions

- **Rooms.** Times are ages in ticks and stop just above the limits they are compared to. Tokens and
  ids are random in the code; here the least value that nothing refers to is taken, and a value is
  used again when nothing refers to it, so that no reachable comparison of tokens changes.
  A body is one step, as the theorem `ImplementsAtomicRoom` of `RoomStore_proofs` justifies where
  every writer holds the room's lock; what the unlocked paths add is left to `RoomStore`. There
  is one process; other processes show only as the presence fetch of the Redis adapter
  (`RemotePresence`), which may or may not come with a reload, as it is throttled to one a second.
  `Maintain` is not queued behind waiting bodies: it may come at any time, which includes the times
  the mutex allows. `ready` flags, scores, texts, items, problem positions and rate limits are left
  out; `problem:set` and `item:use` count as activity, and may be refused. Expected refusals only
  reply and are the disjunct of a body that changes nothing.
- **RoomStore.** A room's content is a set of operations and a version. `PlayerOf` says which
  registration adds the player of an answer, if the player was not there from the start: such an
  answer can be given where the room object has the player, and a load skips it when the row has not
  (`Present`, `roomDatabase.ts:255-256`). Reading the row and the submissions is one step; so are
  changing the object and queueing the write. A statement may fail at any time before `COMMIT`. An
  answer that comes after the end (`Late`) is in the set of operations as the finish it causes.
- **RoomAdmission.** A room is named after the request that opens it: codes are random and a
  collision is not told apart from a retry. That a room's time is up (`due`) is a fact that
  `emitRoom` notices. Seats count for contest rooms only. `event:spectate` is left out, as it only
  reads under the registration key, and so are collisions of `hashtext`. A body that fails rejects
  the promise of `withRoomMutation`, which no handler catches; that it may stop the process is the
  separate action `Crash`.
- **ContestSubmissions.** One player in one process. The cached player is the last submission per
  problem; a reload is a read and, later, a replacement. `misled` remembers that an answer was
  checked against a cache that differed from the table on its problem.
- **Scoreboard.** Ticks from the start of the exam; a minute is `TicksPerMinute` ticks, which keeps
  the rounding up of begun minutes. The stable order of `Array.prototype.sort` is kept.
- **Items.** Times are the ticks left. Chance is a choice over all outcomes. The opponents' items
  are one set, as they differ in name and in whether they lock the answer. Handlers run alone, as
  the room's lock makes them. The gate of `problem:set` for hard problems is left out. The cooldowns
  that ship are all 0; the run gives the note a cooldown of 1 so that the guard matters.
- **ExamSettings.** Settings are activity, limit, freeze and release; problems' content is abstract.
  Reading the exams is one statement. `JoinRoom` reads and writes in one step, as its race with the
  room's handlers is the subject of `RoomStore` and `RoomAdmission`. Rooms opened for one player
  after the window of an event has closed carry no `eventId` and are not touched by a sync.
  A room whose exam is no longer active cannot be read (`Readable`) and stays as it is.
- **AdminEditor.** An id of a problem is its number, the same in every exam, as `p<n>` in the code
  (`examDatabase.ts:437-452`). A form's content is one of a few texts; the checks refuse some of
  them.
- **RateLimit, CampaignAccounts, Signup.** A screen waits for one request (its `pending`), and the
  entry over the socket is another; a screen that is left goes on waiting and its answer still sets
  account and cookie, so that any number of requests can be under way on one page. A reload cuts
  all of them off, a restart those over the socket. `from` of an account is a history: the visitor who
  signed it up. Accounts are named by their user name, which no statement
  changes or frees. `referred_by_user_id`, badges, statistics, password hashing, the seven days of
  the cookie, the delivery of mail (any code may be typed), the foreign key of schools, and the
  administrator's own page are left out. Of an answer's status a page uses 200 and 403; the others
  are 500. Being near a school is a choice.

## 3. The runs

Every cfg states its bounds by its constants, and the MC modules those that are not constants of a
specification. `Rooms` never stops and is checked for deadlock. The other cfgs set
`CHECK_DEADLOCK FALSE`, because their calls, answers, writes and crashes are bounded and the models
stop when these are used up. In `Rooms` codes, player ids and tokens are bounded too: a body that
needs a new one while all are in use waits until one is released, so what a run leaves out are the
states with more rooms, players or tokens in use at once.

| Run | Question | Bounds, and why they are enough |
|---|---|---|
| `server` | the mutex; or rooms opened, places taken and connections held across keys | mutex: 4 calls, 2 keys (tail, waiter and runner on one key beside a second key). Admission: at most four requests of the five kinds in 2 processes, pools of 2 connections so that a pool can be held entirely by who waits for it, one active room and two places so that each limit is reached by the second request; one crash, with places only |
| `sessions` | bindings and presence with two rooms | 2 rooms, 2 players, 2 sockets, 3 tokens, 2 waiting requests beside disconnects, restarts at any time: a rejoin can overtake a disconnect, a socket can ask for both rooms, and the clients come back one by one |
| `exam` | a room from lobby to deletion | 1 room, 2 players, an invitation event and casual rooms, an exam of 2 ticks frozen at 1, TTL 0 (a room expires one tick after), 1 sealed answer each, 1 waiting request beside disconnects |
| `unattended` | liveness with Redis, restart, spectators, rooms for one | 1 room that is made or opened by an open event, 2 players, 2 sockets; fairness as below |
| `serial` | transactions of one room | 3 mutations and a reader in 2 processes, 1 crash: one runs, one waits for the advisory lock, one for the mutex |
| `full` | the unlocked paths together | a mutation, a registration, an answer of a player of the room and one of the player that the registration adds, either of which may come late, the timer, 1 crash, 2 interchangeable processes |
| `play` | every short contest; or the submit path; or a casual room with items | 3 answers of 2 players on 2 problems, penalty and minute that make ties happen. Submit path: 3 requests, 2 keys, 2 problems (one a choice), 1 reload, 1 failing call: original, retry and another answer. Items: 3 players, one opponents' item that locks, the note and the weak effect, the note with a cooldown of 1 |
| `exams` | settings around running rooms; or the editor page | 2 administrators, 1 exam, 1 room, 3 ticks, 3 writes. Editor: up to 2 exams of 2 problems, 2 requests at a time, 3 calls |
| `campaign` | two pages with the server; or one page and links that change; or the limit alone | Pages: 3 requests in all, under way at once 2, of 2 browsers with a visitor each, 2 names and e-mails, one link, so that a visitor can sign up on the link another has visited. Links: 2 requests of one browser, 2 links of 2 schools, 1 link edit or restart, 2 instants, so that a code can expire. Limit: 2 per window of 2 ticks, 6 ticks, so that buckets are reopened and forgotten |
| `timer`, `ghost`, `handshake` | disagreements between code and docs, see 5 | the least that shows them |

**What they show.** A waiting body never acts for a player who has a newer socket
(`OnlyTheAbsentGoAway`, `OneCurrentSocket`), no close, kick or expiry leaves a socket bound to
nothing (`BindingsResolve`), the board sealed at the freeze survives every order of ends
(`LifeSpec`, `BoardConsistent`), a room that is open to one player takes no second
(`WithinCapacity`), exams that nobody attends end (`LifeFairSpec`), and, where the Redis adapter tells
which sockets are open, no room outlives its last client (`AbandonedRoomsExpire`). Without Redis this
last statement is false, see the run `ghost` in section 5.

As long as nobody writes without the lock, mutations of a room happen as if each were one step
between its request and its reply (`AtomicSpec`): a reply of success shows the room with the change
on top of the one before, a refusal judges the room as it was then, a failed or lost mutation leaves
no trace, and a reader finds the room of one moment. What was acknowledged stays
(`AcknowledgedDurable`). Loads see every acknowledged answer of every player whom the row has, even
with the unlocked timer, because the answers are in their own table (`LoadsShowAnswers`); who is not
in the row is skipped with their answers. Opening rooms under one key and registering under another
can exceed the bound on active rooms by what these two count at the same time and no more
(`ActiveRoomsBounded`), places never (`PlacesBounded`). Rooms that a broadcast timer has written are
exempt from both bounds, and rooms whose time is up from the first, as those that may put such a
room back do not count. Whoever waits, for the mutex of its process, for the advisory lock or for a
connection, has among the requests under its own key one that can go on, or that the pool's time-out
ends (`NobodyStuck`).

The submit path is a book of answers (`BookSpec`): an answer is entered once and as it was sent,
nothing leaves the book, "accepted" is said by who has made the entry, "known" of an entry that is
there, a refusal rests on an entry that justifies it, even when the cache it was decided on is
old, and a request that fails has entered its answer or not. The rows have numbers of their own
whatever fails (`StoredOnce`), and the rules on repeated answers hold as long as the cache agrees with the
table when they are checked (`SolvedOnce`, `AttemptsCounted`). The reveal settles the board from
below and ends at the real standings when the board was the one of the freeze
(`PromptBoardShowsResult`). An item never acts twice at once (`OneActiveEffect`), a note that is
shown is true (`NotesAreTrue`), in each state dock and keyboard offer what the server would take, and
the panel at least that (`ScreenAgreesWithServer`), and what was thrown at a player ends (`EffectsEnd`).

Changing the settings of an exam leaves every running room with times that agree with one another
(`TimesAgree`) and a board only when it is frozen (`BoardOnlyWhenFrozen`); the catalogue and the
open rooms are those of the table once no request is under way, unless the exam's last change met
another one, a registration, a crash or the seed script; then saving once more repairs both
(`RoomsFollowSettings`). The
editor's copy is what the tables hold when it has no request under way (`CopyFollowsTables`), and its
form belongs to the selected problem, with the exceptions of section 5 (`FormBelongs`).

A window of the rate limit lets no more through than its limit (`AttemptsBounded`), a referral visit
is converted by one account, which came by its link and was signed up by its visitor
(`ConversionsAttributed`), only verified accounts enter (`SeatsVerified`), a page believes of its
account what the table says (`BrowsersAgree`), and a sign-up is refused for its school only if the
link was changed after the ticket was issued (`RefusalsExplained`).

**Fairness.** `KeyedMutex`: promise callbacks run and tasks settle (a room mutation ends in
`COMMIT` or `ROLLBACK`). `Rooms`: mutex waiters are served, time passes, the maintenance interval
keeps firing, and with Redis its presence fetch happens again and again, since the interval is as
long as the throttle; nothing is assumed of clients. `RoomStore`: the database answers, and a
transaction that waits for the advisory lock gets it if it is free again and again (Postgres queues
the waiters: strong fairness). `ContestSubmissions`: the same for the submit mutex, whose fairness
`KeyedMutex` shows. `Items`: the clock and the maintenance timer, a `setInterval` of one second.
`NobodyStuck` says that a step can be taken, by the guards of the actions (`CanProceed`), and needs none.

## 4. The proofs

All theorems hold for every value of the constants that satisfies the named assumptions of the
module, which TLC evaluates in the runs.

**`Server_proofs`**, on `KeyedMutex`, from `NoneAssumption` only: type correctness (`TypeCorrect`), mutual
exclusion (`MutexSafe`), arrival order (`ArrivalOrder`), exactness of the map (`NoLeakedEntry`) and
that every step is a step of the lock or a stutter (`ImplementsLock`). Mutual exclusion is not
inductive: nothing in it says why the second caller waits for the first. The inductive invariant
`IInv` describes the promise chain instead. The calls of a key form a list: `previous` leads to the
call made just before (`PreviousIsAdjacent`), the map holds its last element exactly while some call
is pending (`TailIsLast`), the call whose promise is settled is the oldest pending one
(`HeadIsOldest`), and whoever runs is that call (`RunningIsHead`). Two running calls would both be
the oldest.

**`RoomStore_proofs`**, any number of processes, operations and crashes, from `OpsAssumption`:

- `TypeCorrect`. `TypeOK` is not inductive, because a body that applies its change must have loaded
  a row; `TypeInv` adds `LoadedHasRow`.
- `Serial`: transactions on one key never overlap. The strengthening is `HoldsLock`: whoever is in a
  transaction is the holder of the advisory lock of its key. The in-process mutex is not needed.
- `LoadsComplete`: a load never misses an acknowledged answer whose player the row has (`Present`),
  with registrations, late answers, unlocked readers and the broadcast timer all present. The
  invariant is `AnswersStored` (an answer is applied or acknowledged only when its row is in the
  table), and the only steps that load are `Load` and `ReadRow` (`LoadReads`).
- `RollbackIsComplete`, for `Submission = {}`: what failed or was refused is not in the row. The
  invariant `CommittedOnly` says that the row, and whatever a body is about to write, names only
  committed operations besides the body's own.
- `Durable` and `OneByOne`, for `Submission = {}` and `Registration = {}`: acknowledged mutations
  stay, and the row grows by one operation per write. The invariant is `OnCurrentRow`: a loaded body
  holds the row as it is, an applied one that row plus itself; another commit cannot come between
  because of `HoldsLock`.
- `ImplementsAtomicRoom`, on the same condition: the transactions implement `AtomicRoom`. A mutation
  takes its one step at `COMMIT`; that this step adds it to what the room then is, and not to what
  the body read, is `OnCurrentRow` again. A crash loses what its process had under way and nothing
  else, because the locks it held are those of its own transactions. What a reply shows (`Found`) is
  read from what the transaction wrote or read; the additional invariant `Announced` says that a
  body which will be refused has announced the row as it is. A reader's step is its load. This is
  what `Rooms` uses when it takes a body as one step. `RollbackIsComplete` and `Durable` are about
  the same behaviours, but the first holds with registrations too.

The hypotheses of the last four are the point: they name the paths that break them. With a
contest answer the timer may write an object that a failed body left in the cache, or an older one
over a newer row; with a registration two keys guard one row. TLC finds each of these when the
constants allow it (run `timer`, and section 5).

**`Server_proofs`**, on `RoomAdmission`, any numbers of requests, processes, connections and crashes:
`AdmissionTypeCorrect`, `ActiveRoomsAlwaysBounded`, `PlacesAlwaysBounded` and the invariant behind
them (`PendingWritesHold`). Between the count and the write of a request the counted rows may grow.
The invariant says by how much: who is past the count of a key holds the key (`KeyExclusive`), works
on its own target (`OwnTarget`) by the way its kind allows (`Route`), has not written yet (`NotYet`),
and carries an object that is the row plus its own change (`ChangePending`, `OpenerPending`,
`PlaceLeft`). `RoomsCounted` bounds the rows by what was counted, `PlacesBounded` is then inductive.

- `NobodyEverStuck`: no state has a request that waits for ever for others which wait for it. Waits
  lead from a mutex to its holder, who may wait for a connection or the advisory lock, from the lock
  to a body, and from a body that asks the pool for a second connection to nobody: either the pool
  has one or the time-out comes. So a chain of waits under one key ends in a body after two steps at
  most (`BeginnersProceed`, `BodiesProceed`), however many connections are taken by whom.
- `RequestsRunOut`: every step of a request takes it to a later stage and no step of another takes
  it back. Together with the first, a request that is served has only finitely many steps to take.

**`Exams_proofs`**, on `ExamSettings`: `TimesAlwaysAgree` and `BoardAlwaysFrozen` from one invariant
on each row (`RowOK`): whatever order the awaits of two administrators, a registration and the
maintenance take, each write leaves the row consistent in itself. `RoomsAlwaysFollow` says that,
once nothing is under way, catalogue and rooms have the settings of the table, for every exam whose
changes met nothing. The invariant `FInv` says who has still to bring them (`Follows`): a catalogue or
a room that differs is one that a request between its write and its last room has not reached
(`Due`), and a request on its way carries what the table holds. Of an exam without a row nobody has
heard (`NothingUnwritten`), and of two requests that write at the same time each has spoilt its exam
for this statement (`WritersApart`).

**`Exams_proofs`**, on `AdminEditor`, any exams, problems, texts and number of requests under way,
answered in any order: `FormAlwaysBelongs` and `CopyAlwaysFollows`.

- The first invariant, `EditorInv`, has the types, `FormBelongs` itself, and that rows are never
  removed: what the copy, a request or an answer names is in the tables (`Within`, `CallWithin`). A
  selection is therefore always there, and a render makes the form anew or keeps one that belongs
  (`RenderedOK`).
- `CopyFollowsTables` speaks of the moment when no request is under way; it says nothing of how the
  copy gets there. `CopyInv` does: as long as nothing is in doubt no two requests meet (`Apart`), what
  an answer says is what the tables hold although it was read earlier (`AnswerTrue`), and every row
  the copy has wrong is on its way in some answer (`CopyTrue`). With no request left no row can be
  wrong. Why an inserted exam cannot be overtaken needs a fact of its own: nobody can ask for
  anything in an exam that the page does not show yet. And `MAX(number) + 1` names no row that another
  request has (`NewNumber`).

**`Signup_proofs`**. `AttemptsAlwaysBounded`, for any limits and windows: the history of what was
let through is not in the code; the invariant ties it to the bucket: an open bucket's first attempt
has a place in the history (`First(k)`), and everything after it is counted. `SignupLimits` shows
that all of sign-up takes steps of that limit or none, which carries the bound over
(`SignupAttemptsBounded`). `SeatsAlwaysVerified`, `ConversionsAlwaysAttributed`,
`BrowsersAlwaysAgree` and `RefusalsAlwaysExplained` hold for any browsers, accounts, links and
requests under way. Their invariant rests on one thought: between the statements of a handler the
tables only grow. An account is not removed, its name, e-mail, school and visitor do not change, a
verified one stays verified, a visit keeps its link and visitor. That a page has many requests under
way, some of them for screens that are gone, then makes no difference: whatever order the answers
come in, each is true. So whatever a suspended request has read and whatever a page remembers is
still true later, and each step has to be looked at only for what it writes itself.

**`ContestSubmissions_proofs`**, any requests, keys, problems, reloads and failures:
`StoredOnceAlways`, `RepliesMatch`, `SolvedOnceAlways`, `AttemptsCountedAlways` and
`ImplementsBook`. The invariant (`Counted`) has the calls linked to their rows (`Linked`), one call
inside the submit mutex (`Exclusive`, `OneInserter`), rows in the order of their numbers
(`RowsInOrder`), drawn numbers not used (`NumbersDrawn`), and who was checked against the last row
of a problem still right when it inserts (`Informed`, `Followed`).

`ImplementsBook`: every step of the submit path is a step of `AnswerBook` or shows nothing. The entry
is made when the row is inserted, or, when the call then fails, together with its loss. The difficult
steps are the refusals, which are decided on a cached room that a reload may have put back to an
older one. They are right all the same, because the table only grows: what the cache and every
snapshot on its way have of a problem was in the table once and so still is (`CacheBacked`), as it
was sent (`RowsAsSent`). An old cache misses answers and can only refuse too little, which is what
`SolvedOnce` has its condition for.

**`Rooms_proofs`**, any numbers of rooms, players, sockets, tokens and waiting requests, any event,
with or without Redis: `TypeCorrect`, `OneSocketEach`, `NoDanglingBinding`, `CapacityKept` and
`AwayMeansAbsent`. `OneCurrentSocket` is not inductive, as it says nothing of a player whose binding
and socket disagree. The invariant (`OwnSockets`) has every player in one room and listed once
(`InOneRoom`, `ListedOnce`), under a token of their own (`OwnToken`), a bound socket and its player
pointing at each other (`BoundAsPlayer`), and spectators bound to existing rooms and to nothing else
(`Watching`). A body is a presence refresh followed by one of few changes: a room is set or
deleted, a player attached, removed or marked away, bindings are cut, the board is sealed. Each of
these has a lemma that it keeps the invariant, and every handler is a sequence of them.
`AwayMeansAbsent` needs one part more, about the requests that wait: a leave or disconnect
that waits with a reference names the socket that the token's owner has, or the owner has none
(`FromOwnSocket`). A rejoin gives a new token, so that what the old socket left in the queue no
longer matches; this is the reason why the code compares tokens and not player ids.

**`Rooms_proofs`**, second half: `Implements`, every step of the room server is a step of one room
through the stages of `RoomLife`, or a stutter. The invariant is that nothing is opened before the
end and a lobby has no board (`NothingBeforeTheEnd`). Each handler changes at most one room
(`WalksAt`), in one emit, and an emit is one step of `RoomLife` although it may begin, freeze and
finish a room at once. `BoardKept` proves `BoardConsistent`. That the board lists players of the
room and is there at the end follows room by room (`OnBoard`). The bound on the reveal relates a
counter of the room to records of its players, which other handlers write, so it needs two facts
more: in a finished room that stays nobody enters or leaves and the counter grows only below the
sealed total (`Settled`), and a step that seals an attempt or removes a player touches only members
of one room that is not finished or is deleted (`SealsAt`).

**`Items_proofs`**, any players, items, problems and durations: `AlwaysOneEffect` and
`NotesAlwaysTrue`. The invariant speaks also of effects whose time is up and that no cleanup
has seen: an item is refused, or written over, when an entry of it has time left, so that at most
one entry of an item has (`SingleEffect`); a note's sender keeps the problem it was made from among
the solved ones (`NotesRecorded`).

**`Scoreboard_proofs`**, any number of players and answers, any points, penalties and times:

- `TotalsAlwaysAgree`. The handler adds an answer to totals; the standings sum over the last answers
  again. The code's sums are folds, which for the prover choose the next member of a set in an
  unknown order; that they exist and do not depend on the order (`SumExists`, `SumAdd`) is proved
  first, then that an answer changes the derived sums by what the handler adds (`AnswerAdds`).
- `RevealAlwaysFromBelow`. The reveal is a recursion of unknown length. `compareStandings` is a strict
  weak order (`AheadOrder`) and sorting lists every player once (`SortedPlaces`); the steps exist
  (`StepsExist`); opening an attempt only raises its player, and only the lowest player with something
  sealed is opened, so that every place below the cursor is settled and stays so (`GoodStep`,
  `StaySettled`).
- `PromptBoardsShowResult`. Of a board taken at the freeze, the frozen sums and the sealed answers
  are the two halves of the last answers (`SplitAnswers`), so that the row with everything open is
  the row of the standings (`WholeRow`), and equal rows are sorted equally.

Induction over data uses no theorem with an operator as its parameter: a set of counterexamples that
is not empty has a minimal member (`WFMin` with `NatLessThanWellFounded` or
`FS_StrictSubsetOrderingWellFounded`), and the step before it gives the contradiction.

**Only model-checked.** Liveness (`LifeFairSpec`, `LockFairSpec` with its fairness,
`AbandonedRoomsExpire`, `MutationsSettle`, `AnswersSettle`, `EffectsEnd`), as fairness and `ENABLED`
are outside the prover. `ScreenAgreesWithServer` compares definitions in one state and needs no
induction: what it is worth is that TLC evaluates both sides. Every other property of the passing
runs is the statement of a theorem. Two theorems, `RollbackIsComplete` and `RepliesMatch`, state
properties that no run checks: the runs `serial` and `play` check the refinements, which say more
there.

## 5. Where code and documentation disagree

Three runs show a disagreement:

- `timer`: `README.md:108` says changes of one room are serialized by advisory lock and mutex. The
  broadcast timer of the contest path (`server/index.ts:1255`) saves its room object outside both,
  and can put a row back that a mutation has replaced. The same invariant fails when
  `event:register` changes a room under its own key (`Registration = {r1}`).
- `ghost`: `docs/websocket-load-test-pipeline.md:155` has as a criterion that rooms go when their TTL
  for lobbies and finished rooms is over. A client that disconnects while its `room:create` waits is
  bound afterwards (`server/index.ts:2430`): its disconnect has found nothing to unbind, so that the
  player counts as connected and the lobby stays until the process restarts. With Redis the
  presence fetch (`server/index.ts:877`) repairs it, which the run `unattended` checks with
  `room:create` among its inputs.
- `handshake`: `event:register` reads the account from the cookie of the socket's handshake
  (`server/index.ts:2648`), and the socket is opened with the page. Who signs up, verifies or logs in
  on that page is told by `EventHomeScreen.tsx:263` that the verified account will be used, and is
  refused until the socket is opened again.

The following were met while modelling. Each can be seen by changing a constant or dropping the
condition named.

- `docs/completed-work.md:50` says the idempotency key makes retries of contest answers safe. The
  rules on repeated answers are checked before the key is looked up (`server/index.ts:1401`), so the
  retry of a right answer is refused, although the answer is stored.
- `event:register` can add a player to a room that is playing. A broadcast timer whose object is older
  then writes the row without the player (`server/index.ts:1255`), and the next load skips the player's
  answers (`roomDatabase.ts:255-256`), acknowledged or not, although they are in `contest_submissions`.
  `LoadsShowAnswers` is about the players whom the row has, for this reason; without `Present` it fails.
- The board is taken by the first emit or maintenance after the freeze time
  (`server/index.ts:1163`), from all answers so far, and the reveal opens every answer after the
  freeze time. An answer in between counts twice (`RevealShowsResult` without `BoardOfTheFreeze`);
  `docs/completed-work.md:53` describes the reveal as handling the submissions after the freeze.
- `docs/completed-work.md:51` says an accepted problem cannot be submitted again. `SolvedOnce`
  without its condition fails when an old snapshot replaces the cache.
- With one contest answer `FailedLeavesNoTrace` (and so `AtomicSpec`) fails: the rolled-back room
  object stays cached and the timer saves it. `event:register` writes a row as a whole, also into a
  room that has been changed, finished or deleted in between.
- `seedExamCatalog` sends `BEGIN` and `COMMIT` to whatever it is given; given a pool, the statements
  between may run on other connections (`examDatabase.ts:185-193`, `290`).
- Deactivating an exam leaves the rooms of its event where they are: they can no longer be read.
- The editor's problem form is made anew only when the problem's id changes, and ids repeat in every
  exam. The form of another exam's problem then stays, still says "저장 필요", and is saved into the
  selected one. A late answer to saveProblem replaces the form, and an upload inserts its figure into
  whatever form is open when it ends. `FormBelongs` excepts what these have spoilt (`strayed`).
- A sign-up that is left while it waits still answers: account and cookie of the page then are those of
  the sign-up, also when the user has logged in with another account meanwhile. And `emitWithAck`
  (`lib/socket.ts:14`) has no time-out, so that a connection lost during `event:register` leaves
  `pendingEventAction` set, and the buttons of the page refuse, until it is loaded again.
- Campaign: an account whose mail failed can never be verified, as nothing sends it again; a stored
  ticket skips the gate for ever (`useReferralGateState.ts:15`); a restart binds the links of the
  environment again, over what an administrator has changed (`server/index.ts:541-542`); and
  `verifyReferralVerificationToken` (`campaignAuth.ts:101`) is called by nothing.
- The client: nothing sends `room:rejoin` (`readSavedRoomSession` and `waitForSocketConnection` in
  `appFlow.ts:39`, `50` are unused), though `README.md:7` and `docs/completed-work.md:9` promise
  reconnection; a double click on the button that makes a room makes two (`App.tsx:147`); replies
  bypass the version check of `App.tsx:143` that `docs/completed-work.md:122` describes; a leave that
  is rolled back gets no reply, and a room deleted by its TTL sends no `room:closed`.
- A casual answer whose `recordProblemAttempt` fails inside the transaction is broadcast, then rolled
  back, and the player hears nothing (`server/index.ts:1147`).

## 6. Not modelled, and the plan

- *Client room state.* The client shows the last room it received. Nothing in it repairs a lost or
  reordered update, and no document says what a screen shows between two of them, so that there is
  no property that the code could be held against.
- *Socket rate limit* (`server/rateLimit.ts`, `allowSocketRequest`): the same counting as the HTTP
  limit, with one bucket per socket and event.
- *Administrator's campaign page, statistics, problem attempts, metrics and health*: aggregate
  queries and write-only records that no handler reads.
- *Parsing, layout, normalisation of answers and names, screens, static pages, deployment scripts*:
  conversions and presentation without shared state.
- In the components marked *partly*, what is left out is stated in `PROJECT.json` and in the
  abstractions of section 2.

**What could come next.** The three hazards that no property covers: an update that is broadcast
before a rollback, the client's version check against versions that the timer puts back, and an
account whose mail fails. The first two need the client's side of the socket, all three a promise to
hold the code against. And `AtomicRoom` for several rooms and keys at once, to which `RoomAdmission`
would be related as `RoomStore` is to one room; its bounds on rooms and places say how far
registration and creation, under keys of their own, stay from it.
