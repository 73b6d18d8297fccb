---------------------------- MODULE ExamSettings ----------------------------
(***************************************************************************)
(* The settings of event exams: the table, the server's catalogue of active*)
(* exams (`examById`), the event rooms that were opened from it, and the   *)
(* administrator's requests that change the first and then go through the  *)
(* other two, one await at a time (server/index.ts, server/examDatabase.ts)*)
(***************************************************************************)
EXTENDS Integers

CONSTANTS Exam, Room, Admin,
          Settings,    \* the settings the administrators send, all valid
          MaxTime,     \* bound on the clock
          MaxWrites,   \* bound on the administrators' requests
          None

ASSUME SettingsAssumption ==
  /\ Settings \subseteq [active : BOOLEAN, limit : Nat \ {0}, freeze : Nat, release : Nat]
  /\ \A s \in Settings : s.freeze <= s.limit

ASSUME NoneAssumption ==
  /\ None \notin Settings /\ None \notin Exam
  /\ None \notin {"create", "settings", "problem", "end"}

VARIABLES
  table,    \* exam_catalogs: [active, limit, freeze, release] of each exam, or None
  cached,   \* examById: the settings of the active exams
  rows,     \* room_states of the event rooms
  req,      \* the request of each administrator
  reg,      \* the event:register under the registration key: exam, settings
  now,
  writes,
  torn      \* history: exams whose last change may not have reached cache and rooms

vars == <<table, cached, rows, req, reg, now, writes, torn>>

Idle == [pc |-> "idle", kind |-> None, exam |-> None, seen |-> None, todo |-> {}]

ActiveExams == [x \in Exam |-> IF table[x] # None /\ table[x].active THEN table[x] ELSE None]

Init ==
  /\ table \in [Exam -> {None} \cup Settings]
  /\ cached = ActiveExams
  /\ rows = [r \in Room |-> None]
  /\ req = [a \in Admin |-> Idle]
  /\ reg = None
  /\ now = 0 /\ writes = 0 /\ torn = {}
-----------------------------------------------------------------------------
(* A room with its limits: when it ends and when its board freezes.        *)
FreezeTime(start, limit, freeze) ==
  IF freeze = 0 THEN None
  ELSE IF start + limit - freeze < start THEN start ELSE start + limit - freeze

Timed(room, start) ==
  [room EXCEPT !.started = start, !.ends = start + room.limit,
               !.frozen = FreezeTime(start, room.limit, room.freeze)]

IsFrozen(room)   == room.status = "playing" /\ room.frozen # None /\ now >= room.frozen
IsFinished(room) == room.status = "playing" /\ now >= room.ends

Started(room, s) ==
  IF room.status = "lobby" /\ now >= s.release
  THEN [Timed(room, now) EXCEPT !.status = "playing", !.board = FALSE] ELSE room

MarkFinished(room) == [room EXCEPT !.status = "finished", !.board = TRUE]
Finished(room)     == IF IsFinished(room) THEN MarkFinished(room) ELSE room
WithBoard(room)    == IF IsFrozen(room) THEN [room EXCEPT !.board = TRUE] ELSE room

(* emitRoom: start a released exam, finish, take the board at the freeze.  *)
Emitted(room, s) == WithBoard(Finished(Started(room, s)))

EndedRoom(room) ==
  IF room.status = "playing" THEN MarkFinished(room)
  ELSE [MarkFinished(room) EXCEPT !.started = now, !.ends = now, !.frozen = None]

(* Faulty variants: the freeze keeps its time, the board stays up.         *)
SyncedKeepingFreeze(room, s) ==
  LET limited == [room EXCEPT !.limit = s.limit, !.freeze = s.freeze]
  IN  IF room.status = "lobby" THEN limited
      ELSE [limited EXCEPT !.ends = room.started + s.limit, !.board = FALSE]

SyncedKeepingBoard(room, s) ==
  LET limited == [room EXCEPT !.limit = s.limit, !.freeze = s.freeze]
  IN  IF room.status = "lobby" THEN limited ELSE Timed(limited, room.started)

(* syncEventRoomExamSettings of a room that is not finished: a lobby has no*)
(* times; a room that is no longer frozen loses its board.                 *)
Synced(room, s) ==
  LET limited == [room EXCEPT !.limit = s.limit, !.freeze = s.freeze]
      timed   == Timed(limited, room.started)
  IN  IF room.status = "lobby"
      THEN [limited EXCEPT !.started = None, !.ends = None, !.frozen = None, !.board = FALSE]
      ELSE [timed EXCEPT !.board = @ /\ IsFrozen(timed)]

(* A row can be read only while its exam is in the catalogue.              *)
Readable(r) == rows[r] # None /\ cached[rows[r].exam] # None

EventRooms(x) == {r \in Room : Readable(r) /\ rows[r].exam = x /\ rows[r].status # "finished"}
-----------------------------------------------------------------------------
Writing(a) == req[a].kind \in {"create", "settings", "problem"}

(* Another request between its write and its answer.                       *)
Torn(a, x) ==
  LET others == {b \in Admin \ {a} : Writing(b)}
  IN  IF others = {} THEN {} ELSE {x} \cup {req[b].exam : b \in others}

(* A request has written its row; the catalogue is still the old one.      *)
Written(a, x, kind, settings) ==
  /\ req[a] = Idle /\ writes < MaxWrites
  /\ table' = [table EXCEPT ![x] = settings]
  /\ req' = [req EXCEPT ![a] = [Idle EXCEPT !.pc = "read", !.kind = kind, !.exam = x]]
  /\ writes' = writes + 1
  /\ torn' = (IF kind = "settings" THEN torn \ {x} ELSE torn) \cup Torn(a, x)
  /\ UNCHANGED <<cached, rows, reg, now>>

CreateExam(a, x, s)         == table[x] = None /\ Written(a, x, "create", s)
UpdateExamSettings(a, x, s) == table[x] # None /\ Written(a, x, "settings", s)

(* A new and a changed problem: they too read all exams again.             *)
CreateProblem(a, x) == table[x] # None /\ Written(a, x, "problem", table[x])
UpdateProblem(a, x) == table[x] # None /\ Written(a, x, "problem", table[x])

(* readExamsFromDatabase sees the active exams ...                         *)
ReadExams(a) ==
  /\ req[a].pc = "read"
  /\ req' = [req EXCEPT ![a].pc = "assign", ![a].seen = ActiveExams]
  /\ UNCHANGED <<table, cached, rows, reg, now, writes, torn>>

(* Faulty variant: the catalogue is updated for the exam of the request.   *)
CatalogueOfOne(a) == [cached EXCEPT ![req[a].exam] = IF @ = None THEN None ELSE req[a].seen[req[a].exam]]

(* ... and becomes the whole catalogue when the answer arrives.            *)
Catalogue(a) == req[a].seen

(* Only settings of an exam that is still active go on to the rooms.       *)
AssignCatalogue(a) ==
  LET x == req[a].exam
      sync == req[a].kind = "settings" /\ req[a].seen[x] # None
  IN  /\ req[a].pc = "assign"
      /\ cached' = Catalogue(a)
      /\ req' = [req EXCEPT ![a] = IF sync THEN [@ EXCEPT !.pc = "list"] ELSE Idle]
      /\ torn' = torn \cup IF reg # None THEN {reg.exam} ELSE {}
      /\ UNCHANGED <<table, rows, reg, now, writes>>

(* POST /api/admin/events/:id/end.                                         *)
EndEvent(a, x) ==
  /\ req[a] = Idle /\ writes < MaxWrites /\ cached[x] # None
  /\ req' = [req EXCEPT ![a] = [Idle EXCEPT !.pc = "list", !.kind = "end", !.exam = x]]
  /\ writes' = writes + 1
  /\ UNCHANGED <<table, cached, rows, reg, now, torn>>

(* readEventRooms, before any lock is taken.                               *)
ListRooms(a) ==
  /\ req[a].pc = "list"
  /\ req' = [req EXCEPT ![a].pc = "rooms", ![a].todo = EventRooms(req[a].exam)]
  /\ UNCHANGED <<table, cached, rows, reg, now, writes, torn>>

(* One room under its lock, read again; it may have gone or finished.      *)
ChangeRoom(a, r) ==
  LET x == req[a].exam
      changed == IF req[a].kind = "end" THEN EndedRoom(rows[r])
                 ELSE Emitted(Synced(rows[r], req[a].seen[x]), req[a].seen[x])
  IN  /\ req[a].pc = "rooms" /\ r \in req[a].todo
      /\ rows' = IF r \in EventRooms(x) THEN [rows EXCEPT ![r] = changed] ELSE rows
      /\ req' = [req EXCEPT ![a].todo = @ \ {r}]
      /\ UNCHANGED <<table, cached, reg, now, writes, torn>>

Answer(a) ==
  /\ req[a].pc = "rooms" /\ req[a].todo = {}
  /\ req' = [req EXCEPT ![a] = Idle]
  /\ UNCHANGED <<table, cached, rows, reg, now, writes, torn>>

(* A query fails or the pool gives no connection: the request ends here.   *)
FailRequest(a) ==
  /\ req[a] # Idle
  /\ req' = [req EXCEPT ![a] = Idle]
  /\ torn' = IF Writing(a) THEN torn \cup {req[a].exam} ELSE torn
  /\ UNCHANGED <<table, cached, rows, reg, now, writes>>
-----------------------------------------------------------------------------
(* event:register takes the exam from the catalogue before its awaits.     *)
BeginRegister(x) ==
  /\ reg = None /\ cached[x] # None
  /\ reg' = [exam |-> x, settings |-> cached[x]]
  /\ UNCHANGED <<table, cached, rows, req, now, writes, torn>>

Rejected ==
  /\ reg # None /\ reg' = None
  /\ UNCHANGED <<table, cached, rows, req, now, writes, torn>>

NewRoom(x, s) ==
  [exam |-> x, status |-> "lobby", started |-> None, ends |-> None, frozen |-> None,
   board |-> FALSE, limit |-> s.limit, freeze |-> s.freeze]

OpenRoom(r) ==
  /\ reg # None /\ rows[r] = None
  /\ rows' = [rows EXCEPT ![r] = Emitted(NewRoom(reg.exam, reg.settings), reg.settings)]
  /\ reg' = None
  /\ UNCHANGED <<table, cached, req, now, writes, torn>>

(* An open event room takes the player and is sent to all in it.           *)
JoinRoom(r) ==
  /\ reg # None /\ r \in EventRooms(reg.exam)
  /\ rows' = [rows EXCEPT ![r] = Emitted(@, cached[@.exam])]
  /\ reg' = None
  /\ UNCHANGED <<table, cached, req, now, writes, torn>>

(* Maintenance of a room: start, finish, freeze.                           *)
Maintain(r) ==
  /\ Readable(r)
  /\ Emitted(rows[r], cached[rows[r].exam]) # rows[r]
  /\ rows' = [rows EXCEPT ![r] = Emitted(@, cached[@.exam])]
  /\ UNCHANGED <<table, cached, req, reg, now, writes, torn>>

(* A finished room, and a lobby everybody has left, expires.               *)
Expire(r) ==
  /\ Readable(r) /\ rows[r].status \in {"finished", "lobby"}
  /\ rows' = [rows EXCEPT ![r] = None]
  /\ UNCHANGED <<table, cached, req, reg, now, writes, torn>>

Tick ==
  /\ now < MaxTime /\ now' = now + 1
  /\ UNCHANGED <<table, cached, rows, req, reg, writes, torn>>

(* The process starts again: refreshExamCatalog.                           *)
Restart ==
  /\ cached' = ActiveExams
  /\ req' = [a \in Admin |-> Idle] /\ reg' = None
  /\ torn' = torn \cup {req[a].exam : a \in {b \in Admin : Writing(b)}}
  /\ UNCHANGED <<table, rows, now, writes>>

(* The seed script writes the table beside a running server.               *)
Seed(x, s) ==
  /\ writes < MaxWrites
  /\ table' = [table EXCEPT ![x] = s]
  /\ writes' = writes + 1 /\ torn' = torn \cup {x}
  /\ UNCHANGED <<cached, rows, req, reg, now>>

Next ==
  \/ \E a \in Admin :
       \/ \E x \in Exam : CreateProblem(a, x) \/ UpdateProblem(a, x) \/ EndEvent(a, x)
       \/ \E x \in Exam, s \in Settings : CreateExam(a, x, s) \/ UpdateExamSettings(a, x, s)
       \/ ReadExams(a) \/ AssignCatalogue(a) \/ ListRooms(a) \/ Answer(a) \/ FailRequest(a)
       \/ \E r \in Room : ChangeRoom(a, r)
  \/ \E x \in Exam : BeginRegister(x) \/ \E s \in Settings : Seed(x, s)
  \/ \E r \in Room : OpenRoom(r) \/ JoinRoom(r) \/ Maintain(r) \/ Expire(r)
  \/ Rejected \/ Tick \/ Restart

Spec == Init /\ [][Next]_vars
-----------------------------------------------------------------------------
(* A running exam's end and freeze are those of the limits it carries, also*)
(* after its limits changed while it ran.                                  *)
TimesAgree ==
  \A r \in Room : rows[r] # None /\ rows[r].status = "playing" =>
    /\ rows[r].ends = rows[r].started + rows[r].limit
    /\ rows[r].frozen = FreezeTime(rows[r].started, rows[r].limit, rows[r].freeze)

(* A running room shows a board that was taken only while it is frozen:    *)
(* moving the end or the freeze takes it down again.                       *)
BoardOnlyWhenFrozen ==
  \A r \in Room : rows[r] # None /\ rows[r].status = "playing" /\ rows[r].board =>
    IsFrozen(rows[r])

(* When no request is under way, the catalogue and every open room of an   *)
(* active exam have the settings of the table, unless the exam's last      *)
(* change met another change, a registration, a crash or the seed script;  *)
(* then saving the settings once more repairs both.                        *)
RoomsFollowSettings ==
  (\A a \in Admin : req[a] = Idle) =>
    \A x \in Exam \ torn :
      /\ cached[x] = ActiveExams[x]
      /\ \A r \in EventRooms(x) :
           rows[r].limit = table[x].limit /\ rows[r].freeze = table[x].freeze
=============================================================================
