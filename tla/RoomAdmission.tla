--------------------------- MODULE RoomAdmission ---------------------------
(***************************************************************************)
(* Who gets a room or a place in one (server/index.ts, room:create and     *)
(* event:register on withRoomMutation).  room:create counts the active     *)
(* rooms under one key, event:register counts them, or looks for a place   *)
(* in a room of the event, under another, and the rooms themselves change  *)
(* under a third, their code.  Each body is several statements, and some   *)
(* of them ask the pool for a second connection.                           *)
(*                                                                         *)
(* A room is named after the request that opens it: codes are random and   *)
(* not told apart.                                                         *)
(***************************************************************************)
EXTENDS Naturals, FiniteSets

CONSTANTS
  Process,          \* app processes on one database
  Create,           \* room:create
  Register,         \* event:register of an invitation event: a place in a contest room
  Solo,             \* event:register of an open or closed event: a room for one
  Change,           \* handlers and maintenance under the code of a room
  Existing,         \* contest rooms in the database at the start
  Answered,         \* contest rooms whose answers start the broadcast timer
  PoolSize,         \* connections of a process
  MaxActiveRooms,
  MaxPlayers,       \* of a contest room
  MaxCrashes,       \* bound: processes that may stop
  NoRow,            \* no such room
  NoWrite           \* a body that writes nothing

Opener  == Create \cup Register \cup Solo
Request == Opener \cup Change
Room    == Existing \cup Opener
Row     == [contest : BOOLEAN, over : BOOLEAN, seats : SUBSET (Existing \cup Request)]

ASSUME AdmissionAssumption ==
  /\ Change \cap Room = {} /\ Existing \cap Opener = {} /\ Register \cap (Create \cup Solo) = {}
  /\ Create \cap Solo = {} /\ Answered \subseteq Room
  /\ IsFiniteSet(Request) /\ IsFiniteSet(Existing)
  /\ MaxActiveRooms \in Nat /\ MaxPlayers \in Nat \ {0} /\ Cardinality(Existing) <= MaxActiveRooms
  /\ NoRow \notin Row \cup {NoWrite} /\ NoWrite \notin Row

VARIABLES
  rows,      \* room_states: room -> Row or NoRow
  due,       \* rooms whose time is up
  stage,     \* of a request
  at,        \* the process of a request
  target,    \* the room a request is about
  object,    \* what a request will write: Row, NoRow (delete) or NoWrite
  captured,  \* the room object that a contest answer has given to the timer
  timed,     \* history: rooms that a timer has written
  crashes

admissionVars == <<rows, due, stage, at, target, object, captured, timed, crashes>>

Body    == {"account", "find", "reload", "count", "code", "load", "commit"}
Holding == Body \cup {"begin"}
Stage   == Holding \cup {"idle", "queued", "connecting", "done", "failed"}

AdmissionInit ==
  /\ rows = [c \in Room |-> IF c \in Existing
                            THEN [contest |-> TRUE, over |-> FALSE, seats |-> {c}] ELSE NoRow]
  /\ due = {} /\ timed = {} /\ crashes = 0
  /\ stage = [r \in Request |-> "idle"]
  /\ at \in [Request -> Process]
  /\ target \in [Request -> Room] /\ \A r \in Opener : target[r] = r
  /\ object = [r \in Request |-> NoWrite]
  /\ captured = [c \in Room |-> NoRow]
-----------------------------------------------------------------------------
ActiveRooms == {c \in Room : rows[c] # NoRow /\ ~rows[c].over}

Reusable == {c \in ActiveRooms : rows[c].contest /\ Cardinality(rows[c].seats) < MaxPlayers}

KeyOf(r) ==
  IF r \in Create THEN "__room_create__"
  ELSE IF r \in Register \cup Solo THEN "__event_register__" ELSE target[r]

SameKey(r, u) == r # u /\ KeyOf(r) = KeyOf(u)

(* The pool lends a connection to every transaction, and one more for the  *)
(* length of a query.                                                      *)
PoolFree(p) == Cardinality({r \in Request : at[r] = p /\ stage[r] \in Holding}) < PoolSize

(* emitRoom ends a room whose time is up.                                  *)
Emitted(c, row) == [row EXCEPT !.over = @ \/ c \in due]

GoTo(r, s) == stage' = [stage EXCEPT ![r] = s]
-----------------------------------------------------------------------------
(* withRoomMutation: the mutex of the process, a connection, BEGIN and the *)
(* advisory lock.                                                          *)
Ask(r) ==
  /\ stage[r] = "idle"
  /\ GoTo(r, "queued")
  /\ UNCHANGED <<rows, due, at, target, object, captured, timed, crashes>>

MutexTaken(r) ==
  \E u \in Request : SameKey(r, u) /\ at[u] = at[r] /\ stage[u] \in Holding \cup {"connecting"}

TakeMutex(r) ==
  /\ stage[r] = "queued" /\ ~MutexTaken(r)
  /\ GoTo(r, "connecting")
  /\ UNCHANGED <<rows, due, at, target, object, captured, timed, crashes>>

Connect(r) ==
  /\ stage[r] = "connecting" /\ PoolFree(at[r])
  /\ GoTo(r, "begin")
  /\ UNCHANGED <<rows, due, at, target, object, captured, timed, crashes>>

(* Faulty variant: the lock is the process's own.                          *)
LockedOutHere(r) == \E u \in Request : SameKey(r, u) /\ at[u] = at[r] /\ stage[u] \in Body

LockedOut(r) == \E u \in Request : SameKey(r, u) /\ stage[u] \in Body

Begin(r) ==
  /\ stage[r] = "begin" /\ ~LockedOut(r)
  /\ GoTo(r, IF r \in Register THEN "account" ELSE IF r \in Change THEN "load" ELSE "count")
  /\ UNCHANGED <<rows, due, at, target, object, captured, timed, crashes>>

(* Faulty variant: only the transaction's own connection is waited for so. *)
TimesOutAtFirst(r) == stage[r] = "connecting" /\ ~PoolFree(at[r])

(* connectionTimeoutMillis: nobody waits longer for a connection.  What    *)
(* was begun is rolled back.                                               *)
TimesOut(r) == stage[r] \in {"connecting", "account", "code"} /\ ~PoolFree(at[r])

Timeout(r) ==
  /\ TimesOut(r)
  /\ GoTo(r, "failed")
  /\ UNCHANGED <<rows, due, at, target, object, captured, timed, crashes>>

Fail(r) ==
  /\ stage[r] \in Holding
  /\ GoTo(r, "failed")
  /\ UNCHANGED <<rows, due, at, target, object, captured, timed, crashes>>
-----------------------------------------------------------------------------
(* event:register reads the account outside its transaction; an account    *)
(* that is not verified is refused.                                        *)
ReadAccount(r) ==
  /\ stage[r] = "account" /\ PoolFree(at[r])
  /\ \E verified \in BOOLEAN : GoTo(r, IF verified THEN "find" ELSE "commit")
  /\ UNCHANGED <<rows, due, at, target, object, captured, timed, crashes>>

(* findReusableEventRoom: all rows in one statement, then the room again.  *)
FindPlace(r) ==
  /\ stage[r] = "find"
  /\ \/ \E c \in Reusable : target' = [target EXCEPT ![r] = c] /\ GoTo(r, "reload")
     \/ Reusable = {} /\ GoTo(r, "count") /\ UNCHANGED target
  /\ UNCHANGED <<rows, due, at, object, captured, timed, crashes>>

TakePlace(r) ==
  /\ stage[r] = "reload"
  /\ LET c == target[r] IN
     IF rows[c] = NoRow
     THEN GoTo(r, "count") /\ target' = [target EXCEPT ![r] = r] /\ UNCHANGED object
     ELSE /\ object' = [object EXCEPT ![r] = Emitted(c, [rows[c] EXCEPT !.seats = @ \cup {r}])]
          /\ GoTo(r, "commit") /\ UNCHANGED target
  /\ UNCHANGED <<rows, due, at, captured, timed, crashes>>

(* The limit, and what else room:create may refuse.                        *)
CountRooms(r) ==
  /\ stage[r] = "count"
  /\ \/ Cardinality(ActiveRooms) < MaxActiveRooms /\ GoTo(r, "code")
     \/ (Cardinality(ActiveRooms) >= MaxActiveRooms \/ r \in Create) /\ GoTo(r, "commit")
  /\ UNCHANGED <<rows, due, at, target, object, captured, timed, crashes>>

(* makeAvailableCode looks outside the transaction; then the room is made. *)
OpenRoom(r) ==
  /\ stage[r] = "code" /\ PoolFree(at[r])
  /\ object' = [object EXCEPT ![r] = [contest |-> r \in Register, over |-> FALSE, seats |-> {r}]]
  /\ GoTo(r, "commit")
  /\ UNCHANGED <<rows, due, at, target, captured, timed, crashes>>

(* A handler of the room: it refuses, or players go, the exam ends, or the *)
(* room is closed or deleted.                                              *)
ChangeRoom(r) ==
  /\ stage[r] = "load"
  /\ LET c == target[r] IN
     \/ UNCHANGED object
     \/ rows[c] # NoRow /\ object' = [object EXCEPT ![r] = NoRow]
     \/ /\ rows[c] # NoRow
        /\ \E stay \in SUBSET rows[c].seats, ends \in BOOLEAN :
             object' = [object EXCEPT ![r] =
                          Emitted(c, [rows[c] EXCEPT !.seats = stay, !.over = @ \/ ends])]
  /\ GoTo(r, "commit")
  /\ UNCHANGED <<rows, due, at, target, captured, timed, crashes>>

(* The row as a whole is written, whatever it is by now, and the reply     *)
(* goes out.                                                               *)
Commit(r) ==
  /\ stage[r] = "commit"
  /\ rows' = IF object[r] = NoWrite THEN rows ELSE [rows EXCEPT ![target[r]] = object[r]]
  /\ GoTo(r, "done")
  /\ UNCHANGED <<due, at, target, object, captured, timed, crashes>>
-----------------------------------------------------------------------------
TimeUp(c) ==
  /\ c \in ActiveRooms /\ due' = due \cup {c}
  /\ UNCHANGED <<rows, stage, at, target, object, captured, timed, crashes>>

(* A contest answer gives the object it works on to the broadcast timer,   *)
(* which writes it some time later under no key.                           *)
Capture(c) ==
  /\ c \in Answered \cap ActiveRooms /\ rows[c].contest
  /\ captured' = [captured EXCEPT ![c] = rows[c]]
  /\ UNCHANGED <<rows, due, stage, at, target, object, timed, crashes>>

TimerWrites(c) ==
  /\ captured[c] # NoRow
  /\ rows' = [rows EXCEPT ![c] = captured[c]]
  /\ captured' = [captured EXCEPT ![c] = NoRow]
  /\ timed' = timed \cup {c}
  /\ UNCHANGED <<due, stage, at, target, object, crashes>>

(* A process stops: Postgres rolls back and frees the locks.               *)
Crash(p) ==
  /\ crashes < MaxCrashes /\ crashes' = crashes + 1
  /\ stage' = [r \in Request |->
                 IF at[r] = p /\ stage[r] \in Holding \cup {"queued", "connecting"}
                 THEN "failed" ELSE stage[r]]
  /\ UNCHANGED <<rows, due, at, target, object, captured, timed>>

(* What a request does as soon as it may.                                  *)
Proceed(r) ==
  \/ TakeMutex(r) \/ Begin(r) \/ Connect(r) \/ Timeout(r) \/ ReadAccount(r) \/ FindPlace(r) \/ TakePlace(r)
  \/ CountRooms(r) \/ OpenRoom(r) \/ ChangeRoom(r) \/ Commit(r)

RequestStep(r) == Ask(r) \/ Proceed(r) \/ Fail(r)

Elsewhere ==
  \/ \E c \in Room : TimeUp(c) \/ Capture(c) \/ TimerWrites(c)
  \/ \E p \in Process : Crash(p)

AdmissionNext == (\E r \in Request : RequestStep(r)) \/ Elsewhere

AdmissionSpec == AdmissionInit /\ [][AdmissionNext]_admissionVars
-----------------------------------------------------------------------------
AdmissionTypeOK ==
  /\ rows \in [Room -> Row \cup {NoRow}]
  /\ due \subseteq Room /\ timed \subseteq Room
  /\ stage \in [Request -> Stage]
  /\ at \in [Request -> Process]
  /\ target \in [Request -> Room]
  /\ object \in [Request -> Row \cup {NoRow, NoWrite}]
  /\ captured \in [Room -> Row \cup {NoRow}]
  /\ crashes \in Nat

(* The active rooms are counted under two keys, so one room too many can   *)
(* be opened and never two, in any number of processes.  A room whose time *)
(* is up does not count: a handler that read it before may write it back.  *)
(* Nor does one that a broadcast timer has written.                        *)
ActiveRoomsBounded ==
  Cardinality(ActiveRooms \ (due \cup timed)) <= MaxActiveRooms + 1

(* A contest room never has more players than places, although the place   *)
(* is found in one statement, taken in a second, and the row written in a  *)
(* third while the room's own handlers write it under another key.         *)
PlacesBounded ==
  \A c \in Room \ timed :
    rows[c] # NoRow /\ rows[c].contest => Cardinality(rows[c].seats) <= MaxPlayers

(* What the actions of Proceed wait for; a statement under a key waits for *)
(* nothing.                                                                *)
CanProceed(r) ==
  \/ stage[r] = "queued" /\ ~MutexTaken(r)
  \/ stage[r] = "begin" /\ ~LockedOut(r)
  \/ stage[r] \in {"connecting", "account", "code"} /\ PoolFree(at[r])
  \/ TimesOut(r)
  \/ stage[r] \in {"find", "reload", "count", "load", "commit"}

(* Bodies that hold a connection and wait for another never keep each other*)
(* waiting, nor those behind their locks: while a request is not settled,  *)
(* one under the same key can go on, and each has few steps.  Nobody waits *)
(* in a circle while others work.                                          *)
Waiting(r) == stage[r] \notin {"idle", "done", "failed"}
NobodyStuck ==
  \A r \in Request : Waiting(r) => \E u \in Request : KeyOf(u) = KeyOf(r) /\ CanProceed(u)
=============================================================================
