---------------------------- MODULE Exams_proofs ----------------------------
(***************************************************************************)
(* The exams at the server and in the administrator's editor.              *)
(*                                                                         *)
(* Server.  Whatever the administrators change, in whatever order: a       *)
(* running exam ends and freezes by the limits it carries, and shows a     *)
(* taken board only while it is frozen (IInv: the type of the state and the*)
(* same statement about every row).  And the catalogue and the rooms follow*)
(* the table: FInv says of every exam whose changes met nothing which      *)
(* request has still to bring the table's settings to the catalogue and to *)
(* each room.                                                              *)
(*                                                                         *)
(* Editor.  Its form belongs to the selected problem (EditorInv: the types,*)
(* that rows are never removed, and that), and its copy is what the tables *)
(* hold once every request is answered (CopyInv: as long as nothing is in  *)
(* doubt, requests keep apart, their answers are true, and each row the    *)
(* copy does not have right is on its way in one of them).                 *)
(***************************************************************************)
EXTENDS ExamSettings, AdminEditor, FiniteSetTheorems, NaturalsInduction, TLAPS

Row == [exam : Exam, status : {"lobby", "playing", "finished"},
        started : Int \cup {None}, ends : Int \cup {None}, frozen : Int \cup {None},
        board : BOOLEAN, limit : Nat, freeze : Nat]

Known == [Exam -> Settings \cup {None}]

Request == [pc : {"idle", "read", "assign", "list", "rooms"},
            kind : {"create", "settings", "problem", "end", None}, exam : Exam \cup {None},
            seen : Known \cup {None}, todo : SUBSET Room]

(* A request that has seen the exams knows them, and one that goes on to   *)
(* the rooms carries settings for its own exam.                            *)
RequestOK(q) ==
  /\ q.pc = "assign" => q.seen \in Known
  /\ q.pc # "idle" => q.exam \in Exam
  /\ q.pc \in {"list", "rooms"} => q.kind = "end" \/ (q.seen \in Known /\ q.seen[q.exam] # None)

TypeOK ==
  /\ now \in Nat
  /\ table \in Known /\ cached \in Known
  /\ rows \in [Room -> Row \cup {None}]
  /\ req \in [Admin -> Request] /\ \A a \in Admin : RequestOK(req[a])
  /\ reg = None \/ reg \in [exam : Exam, settings : Settings]

RowOK(room) ==
  /\ room.status = "lobby" => ~room.board
  /\ room.status = "playing" =>
       /\ room.started \in Int
       /\ room.ends = room.started + room.limit
       /\ room.frozen = FreezeTime(room.started, room.limit, room.freeze)
       /\ room.board => IsFrozen(room)

IInv == TypeOK /\ \A r \in Room : rows[r] # None => RowOK(rows[r])
-----------------------------------------------------------------------------
(* The freeze of a typed room is a time or none.                           *)
LEMMA FreezeTimeType ==
  ASSUME NEW start \in Int, NEW limit \in Nat, NEW freeze \in Nat
  PROVE  FreezeTime(start, limit, freeze) \in Int \cup {None}
BY DEF FreezeTime

LEMMA TimedType ==
  ASSUME NEW room \in Row, NEW start \in Int
  PROVE  /\ Timed(room, start) \in Row
         /\ Timed(room, start).status = room.status
         /\ Timed(room, start).board = room.board
         /\ Timed(room, start).started = start
         /\ Timed(room, start).limit = room.limit
         /\ Timed(room, start).freeze = room.freeze
         /\ Timed(room, start).ends = start + room.limit
         /\ Timed(room, start).frozen = FreezeTime(start, room.limit, room.freeze)
<1>1. FreezeTime(start, room.limit, room.freeze) \in Int \cup {None}
  BY FreezeTimeType DEF Row
<1>2. start + room.limit \in Int
  BY DEF Row
<1> QED BY <1>1, <1>2 DEF Timed, Row

(* emitRoom keeps a row right: the start makes its times, and the board is *)
(* taken when it is frozen.                                                *)
LEMMA EmittedOK ==
  ASSUME NEW room \in Row, NEW s \in Settings, now \in Nat, RowOK(room)
  PROVE  Emitted(room, s) \in Row /\ RowOK(Emitted(room, s))
<1> DEFINE t == Timed(room, now)
           u == Started(room, s)
           f == Finished(u)
<1>1. u \in Row /\ RowOK(u)
  <2>1. CASE room.status = "lobby" /\ now >= s.release
    <3>1. /\ t \in Row /\ t.started = now /\ t.limit = room.limit /\ t.freeze = room.freeze
          /\ t.ends = now + room.limit /\ t.frozen = FreezeTime(now, room.limit, room.freeze)
      BY TimedType
    <3>2. u = [t EXCEPT !.status = "playing", !.board = FALSE]
      BY <2>1 DEF Started
    <3> HIDE DEF t, u
    <3>3. /\ u \in Row /\ u.status = "playing" /\ u.board = FALSE /\ u.started = now
          /\ u.limit = t.limit /\ u.freeze = t.freeze /\ u.ends = t.ends /\ u.frozen = t.frozen
      BY <3>1, <3>2 DEF Row
    <3> QED BY <3>1, <3>3 DEF RowOK
  <2>2. CASE ~(room.status = "lobby" /\ now >= s.release)
    BY <2>2 DEF Started
  <2> QED BY <2>1, <2>2
<1> HIDE DEF u
<1>2. f \in Row /\ RowOK(f)
  <2>1. CASE IsFinished(u)
    BY <1>1, <2>1 DEF Finished, MarkFinished, Row, RowOK
  <2>2. CASE ~IsFinished(u)
    BY <1>1, <2>2 DEF Finished
  <2> QED BY <2>1, <2>2
<1>3. Emitted(room, s) = WithBoard(f)
  BY DEF Emitted, u
<1> HIDE DEF f
<1>4. CASE IsFrozen(f)
  <2> DEFINE w == [f EXCEPT !.board = TRUE]
  <2>1. /\ w \in Row /\ w.status = f.status /\ w.started = f.started /\ w.ends = f.ends
        /\ w.frozen = f.frozen /\ w.limit = f.limit /\ w.freeze = f.freeze
    BY <1>2 DEF Row
  <2>2. Emitted(room, s) = w
    BY <1>3, <1>4 DEF WithBoard
  <2> HIDE DEF w
  <2>3. RowOK(w)
    BY <1>2, <1>4, <2>1 DEF RowOK, IsFrozen
  <2> QED BY <2>1, <2>2, <2>3
<1>5. CASE ~IsFrozen(f)
  BY <1>2, <1>3, <1>5 DEF WithBoard
<1> QED BY <1>4, <1>5

(* New settings keep a live row right: its times move together and a board *)
(* that is no longer frozen is taken down.                                 *)
LEMMA SyncedOK ==
  ASSUME NEW room \in Row, NEW s \in Settings, now \in Nat, RowOK(room), room.status # "finished"
  PROVE  Synced(room, s) \in Row /\ RowOK(Synced(room, s))
<1> DEFINE limited == [room EXCEPT !.limit = s.limit, !.freeze = s.freeze]
           timed == Timed(limited, room.started)
<1>1. s.limit \in Nat /\ s.freeze \in Nat
  BY SettingsAssumption
<1>2. limited \in Row /\ limited.status = room.status /\ limited.board = room.board
  BY <1>1 DEF Row
<1>3. CASE room.status = "lobby"
  <2> DEFINE u == [limited EXCEPT !.started = None, !.ends = None, !.frozen = None, !.board = FALSE]
  <2>1. Synced(room, s) = u
    BY <1>3 DEF Synced
  <2> HIDE DEF limited
  <2>2. u \in Row /\ u.status = "lobby" /\ u.board = FALSE
    BY <1>2, <1>3 DEF Row
  <2> QED BY <2>1, <2>2 DEF RowOK
<1>4. CASE room.status = "playing"
  <2> DEFINE w == [timed EXCEPT !.board = @ /\ IsFrozen(timed)]
  <2>1. Synced(room, s) = w
    BY <1>4 DEF Synced
  <2>2. room.started \in Int
    BY <1>4 DEF RowOK
  <2> HIDE DEF limited
  <2>3. /\ timed \in Row /\ timed.status = "playing" /\ timed.started = room.started
        /\ timed.limit = limited.limit /\ timed.freeze = limited.freeze
        /\ timed.ends = room.started + limited.limit
        /\ timed.frozen = FreezeTime(room.started, limited.limit, limited.freeze)
    BY <1>2, <1>4, <2>2, TimedType
  <2> HIDE DEF timed
  <2>4. IsFrozen(timed) \in BOOLEAN
    BY DEF IsFrozen
  <2>5. /\ w \in Row /\ w.status = timed.status /\ w.started = timed.started /\ w.ends = timed.ends
        /\ w.frozen = timed.frozen /\ w.limit = timed.limit /\ w.freeze = timed.freeze
        /\ w.board = (timed.board /\ IsFrozen(timed))
    BY <2>3, <2>4 DEF Row
  <2> HIDE DEF w
  <2>6. RowOK(w)
    BY <2>2, <2>3, <2>5 DEF RowOK, IsFrozen
  <2> QED BY <2>1, <2>5, <2>6
<1> QED BY <1>3, <1>4 DEF Row

(* The end of an event finishes a room, started or not.                    *)
LEMMA EndedOK ==
  ASSUME NEW room \in Row, now \in Nat, RowOK(room)
  PROVE  EndedRoom(room) \in Row /\ RowOK(EndedRoom(room))
<1> DEFINE m == MarkFinished(room)
<1>1. m \in Row /\ m.status = "finished"
  BY DEF MarkFinished, Row
<1> HIDE DEF m
<1>2. CASE room.status = "playing"
  BY <1>1, <1>2 DEF EndedRoom, RowOK, m
<1>3. CASE room.status # "playing"
  <2> DEFINE e == [m EXCEPT !.started = now, !.ends = now, !.frozen = None]
  <2>0. now \in Int /\ now \in Int \cup {None} /\ None \in Int \cup {None}
    OBVIOUS
  <2>1. e \in Row /\ e.status = "finished"
    BY <1>1, <2>0 DEF Row
  <2>2. EndedRoom(room) = e
    BY <1>3 DEF EndedRoom, m
  <2> QED BY <2>1, <2>2 DEF RowOK
<1> QED BY <1>2, <1>3

LEMMA NewRoomOK ==
  ASSUME NEW x \in Exam, NEW s \in Settings
  PROVE  NewRoom(x, s) \in Row /\ RowOK(NewRoom(x, s))
<1>1. s.limit \in Nat /\ s.freeze \in Nat
  BY SettingsAssumption
<1> QED BY <1>1 DEF NewRoom, Row, RowOK

(* A step that leaves the clock alone and puts right rows in place of      *)
(* others keeps every row right.                                           *)
LEMMA RowsStep ==
  ASSUME IInv, rows' \in [Room -> Row \cup {None}], now' = now,
         \A r \in Room : rows'[r] # rows[r] /\ rows'[r] # None => RowOK(rows'[r])
  PROVE  (\A r \in Room : rows[r] # None => RowOK(rows[r]))'
<1> SUFFICES ASSUME NEW r \in Room, rows'[r] # None
             PROVE  RowOK(rows[r])'
  OBVIOUS
<1>1. RowOK(rows'[r])
  BY DEF IInv
<1> QED BY <1>1 DEF RowOK, IsFrozen

(* The rows a request may change are those of the exam it knows.           *)
LEMMA EventRoomsType ==
  ASSUME IInv, NEW x \in Exam, NEW r \in EventRooms(x)
  PROVE  /\ r \in Room /\ rows[r] \in Row /\ RowOK(rows[r]) /\ rows[r].status # "finished"
         /\ rows[r].exam = x /\ cached[x] \in Settings
BY DEF EventRooms, Readable, IInv, TypeOK, Known

LEMMA ActiveExamsType ==
  ASSUME TypeOK PROVE ActiveExams \in Known
BY DEF TypeOK, Known, ActiveExams

LEMMA InitIInv == Init => IInv
<1> SUFFICES ASSUME Init PROVE IInv
  OBVIOUS
<1>1. table \in Known
  BY DEF Init, Known
<1>2. cached \in Known
  BY <1>1 DEF Init, Known, ActiveExams
<1>3. req \in [Admin -> Request] /\ \A a \in Admin : RequestOK(req[a])
  BY DEF Init, Idle, Request, RequestOK
<1>4. rows \in [Room -> Row \cup {None}] /\ \A r \in Room : rows[r] = None
  BY DEF Init
<1>5. now \in Nat /\ reg = None
  BY DEF Init
<1> QED BY <1>1, <1>2, <1>3, <1>4, <1>5 DEF IInv, TypeOK

(* One request moves: what the step has to say of the new state.           *)
LEMMA RequestStep ==
  ASSUME IInv, NEW a \in Admin, NEW q \in Request, RequestOK(q), req' = [req EXCEPT ![a] = q]
  PROVE  req' \in [Admin -> Request] /\ \A b \in Admin : RequestOK(req'[b])
BY DEF IInv, TypeOK

LEMMA IdleType == Idle \in Request /\ RequestOK(Idle)
BY DEF Idle, Request, RequestOK

LEMMA StepIInv == IInv /\ [Next]_vars => IInv'
<1> SUFFICES ASSUME IInv, [Next]_vars PROVE IInv'
  OBVIOUS
<1> DEFINE ReqOK == req' \in [Admin -> Request] /\ \A b \in Admin : RequestOK(req'[b])
           RowsOK == (\A r \in Room : rows[r] # None => RowOK(rows[r]))'
<1>0. /\ now \in Nat /\ table \in Known /\ cached \in Known /\ rows \in [Room -> Row \cup {None}]
      /\ req \in [Admin -> Request] /\ \A a \in Admin : RequestOK(req[a])
      /\ reg = None \/ reg \in [exam : Exam, settings : Settings]
      /\ ActiveExams \in Known
  BY ActiveExamsType DEF IInv, TypeOK
<1>r. ASSUME UNCHANGED <<rows, now>> PROVE RowsOK
  BY <1>r, <1>0, RowsStep
<1>q. SUFFICES ReqOK /\ RowsOK /\ rows' \in [Room -> Row \cup {None}] /\ now' \in Nat
               /\ table' \in Known /\ cached' \in Known
               /\ (reg' = None \/ reg' \in [exam : Exam, settings : Settings])
  BY DEF IInv, TypeOK
<1> HIDE DEF RowsOK
<1>1. ASSUME NEW a \in Admin, NEW x \in Exam, NEW s \in Settings,
             NEW kind \in {"create", "settings", "problem"}, Written(a, x, kind, s)
      PROVE  ReqOK /\ table' \in Known
  <2> DEFINE q == [Idle EXCEPT !.pc = "read", !.kind = kind, !.exam = x]
  <2>1. q \in Request /\ RequestOK(q)
    BY DEF Idle, Request, RequestOK
  <2>2. req' = [req EXCEPT ![a] = q]
    BY <1>1 DEF Written
  <2> HIDE DEF q
  <2>3. ReqOK
    BY <2>1, <2>2, RequestStep
  <2> QED BY <1>0, <1>1, <2>3 DEF Written, Known
<1>2. ASSUME NEW a \in Admin, NEW x \in Exam, EndEvent(a, x)
      PROVE  ReqOK
  <2> DEFINE q == [Idle EXCEPT !.pc = "list", !.kind = "end", !.exam = x]
  <2>1. q \in Request /\ RequestOK(q)
    BY DEF Idle, Request, RequestOK
  <2>2. req' = [req EXCEPT ![a] = q]
    BY <1>2 DEF EndEvent
  <2> HIDE DEF q
  <2> QED BY <2>1, <2>2, RequestStep
<1>3. ASSUME NEW a \in Admin, ReadExams(a) PROVE ReqOK
  <2> DEFINE q == [req[a] EXCEPT !.pc = "assign", !.seen = ActiveExams]
  <2>1. q \in Request /\ RequestOK(q)
    BY <1>0, <1>3 DEF ReadExams, Request, RequestOK
  <2>2. req' = [req EXCEPT ![a] = q]
    BY <1>0, <1>3 DEF ReadExams
  <2> HIDE DEF q
  <2> QED BY <2>1, <2>2, RequestStep
<1>4. ASSUME NEW a \in Admin, AssignCatalogue(a) PROVE ReqOK /\ cached' \in Known
  <2>1. req[a].seen \in Known /\ req[a].exam \in Exam
    BY <1>0, <1>4 DEF AssignCatalogue, RequestOK
  <2> DEFINE q == [req[a] EXCEPT !.pc = "list"]
  <2>2. q \in Request /\ (req[a].seen[req[a].exam] # None => RequestOK(q))
    BY <1>0, <2>1 DEF Request, RequestOK
  <2>3. \/ req' = [req EXCEPT ![a] = Idle]
        \/ req' = [req EXCEPT ![a] = q] /\ req[a].seen[req[a].exam] # None
    BY <1>0, <1>4 DEF AssignCatalogue
  <2> HIDE DEF q
  <2>4. ReqOK
    BY <2>2, <2>3, RequestStep, IdleType
  <2> QED BY <1>4, <2>1, <2>4 DEF AssignCatalogue, Catalogue
<1>5. ASSUME NEW a \in Admin, ListRooms(a) PROVE ReqOK
  <2> DEFINE q == [req[a] EXCEPT !.pc = "rooms", !.todo = EventRooms(req[a].exam)]
  <2>1. EventRooms(req[a].exam) \subseteq Room
    BY DEF EventRooms
  <2>2. q \in Request /\ RequestOK(q)
    BY <1>0, <1>5, <2>1 DEF ListRooms, Request, RequestOK
  <2>3. req' = [req EXCEPT ![a] = q]
    BY <1>0, <1>5 DEF ListRooms
  <2> HIDE DEF q
  <2> QED BY <2>2, <2>3, RequestStep
<1>6. ASSUME NEW a \in Admin, NEW r \in Room, ChangeRoom(a, r)
      PROVE  ReqOK /\ RowsOK /\ rows' \in [Room -> Row \cup {None}]
  <2> DEFINE q == [req[a] EXCEPT !.todo = @ \ {r}]
  <2>1. q \in Request /\ RequestOK(q)
    BY <1>0, <1>6 DEF ChangeRoom, Request, RequestOK
  <2>2. req' = [req EXCEPT ![a] = q]
    BY <1>0, <1>6 DEF ChangeRoom
  <2> HIDE DEF q
  <2>3. ReqOK
    BY <2>1, <2>2, RequestStep
  <2> DEFINE x == req[a].exam
             changed == IF req[a].kind = "end" THEN EndedRoom(rows[r])
                        ELSE Emitted(Synced(rows[r], req[a].seen[x]), req[a].seen[x])
  <2>4. x \in Exam /\ (req[a].kind # "end" => req[a].seen[x] \in Settings)
    BY <1>0, <1>6 DEF ChangeRoom, RequestOK, Known
  <2>5. CASE r \in EventRooms(x)
    <3>1. rows[r] \in Row /\ RowOK(rows[r]) /\ rows[r].status # "finished"
      BY <2>4, <2>5, EventRoomsType
    <3>2. changed \in Row /\ RowOK(changed)
      BY <1>0, <2>4, <3>1, EndedOK, SyncedOK, EmittedOK
    <3>3. rows' = [rows EXCEPT ![r] = changed]
      BY <1>6, <2>5 DEF ChangeRoom
    <3> HIDE DEF changed
    <3>4. rows' \in [Room -> Row \cup {None}] /\ now' = now
      BY <1>0, <1>6, <3>2, <3>3 DEF ChangeRoom
    <3>5. RowsOK
      BY <1>0, <3>2, <3>3, <3>4, RowsStep DEF RowsOK
    <3> QED BY <2>3, <3>4, <3>5
  <2>6. CASE r \notin EventRooms(x)
    <3>1. UNCHANGED <<rows, now>>
      BY <1>6, <2>6 DEF ChangeRoom
    <3> QED BY <1>0, <1>r, <2>3, <3>1
  <2> QED BY <2>5, <2>6
<1>7. ASSUME NEW a \in Admin, Answer(a) \/ FailRequest(a) PROVE ReqOK
  BY <1>7, RequestStep, IdleType DEF Answer, FailRequest
<1>8. ASSUME NEW r \in Room, OpenRoom(r) \/ JoinRoom(r) \/ Maintain(r) \/ Expire(r)
      PROVE  RowsOK /\ rows' \in [Room -> Row \cup {None}]
  <2>1. PICK new \in Row \cup {None} : rows' = [rows EXCEPT ![r] = new] /\ (new # None => RowOK(new))
    <3>1. CASE OpenRoom(r)
      <4> DEFINE new == Emitted(NewRoom(reg.exam, reg.settings), reg.settings)
      <4>1. reg.exam \in Exam /\ reg.settings \in Settings
        BY <1>0, <3>1 DEF OpenRoom
      <4>2. new \in Row /\ RowOK(new)
        BY <1>0, <4>1, NewRoomOK, EmittedOK
      <4> QED BY <3>1, <4>2 DEF OpenRoom
    <3>2. CASE JoinRoom(r) \/ Maintain(r)
      <4> DEFINE x == rows[r].exam
                 new == Emitted(rows[r], cached[x])
      <4>1. rows[r] \in Row /\ RowOK(rows[r]) /\ cached[x] \in Settings
        BY <1>0, <3>2 DEF JoinRoom, Maintain, EventRooms, Readable, IInv, Row, Known
      <4>2. new \in Row /\ RowOK(new)
        BY <1>0, <4>1, EmittedOK
      <4> QED BY <1>0, <3>2, <4>2 DEF JoinRoom, Maintain
    <3>3. CASE Expire(r)
      BY <3>3 DEF Expire
    <3> QED BY <1>8, <3>1, <3>2, <3>3
  <2>2. rows' \in [Room -> Row \cup {None}] /\ now' = now
    BY <1>0, <1>8, <2>1 DEF OpenRoom, JoinRoom, Maintain, Expire
  <2> QED BY <1>0, <2>1, <2>2, RowsStep DEF RowsOK
<1>9. ASSUME Tick PROVE RowsOK
  <2> SUFFICES ASSUME NEW r \in Room, rows'[r] # None PROVE RowOK(rows[r])'
    BY DEF RowsOK
  <2>1. rows' = rows /\ now' = now + 1 /\ rows[r] \in Row /\ RowOK(rows[r])
    BY <1>0, <1>9 DEF Tick, IInv
  <2>2. rows[r].status = "playing" =>
          rows[r].frozen = None \/ rows[r].frozen \in Int
    BY <2>1 DEF Row
  <2> QED BY <1>0, <2>1, <2>2 DEF RowOK, IsFrozen
<1>10. ASSUME NEW x \in Exam, BeginRegister(x)
       PROVE  reg' \in [exam : Exam, settings : Settings]
  BY <1>0, <1>10 DEF BeginRegister, Known
<1>11. ASSUME Restart PROVE ReqOK
  BY <1>11, IdleType DEF Restart
<1>12. CASE \E a \in Admin, x \in Exam, s \in Settings, kind \in {"create", "settings", "problem"} :
              Written(a, x, kind, s)
  BY <1>0, <1>1, <1>r, <1>12 DEF Written
<1>13. CASE \E a \in Admin, x \in Exam : EndEvent(a, x)
  BY <1>0, <1>2, <1>r, <1>13 DEF EndEvent
<1>14. CASE \E a \in Admin : ReadExams(a) \/ ListRooms(a) \/ Answer(a) \/ FailRequest(a)
  BY <1>0, <1>3, <1>5, <1>7, <1>r, <1>14 DEF ReadExams, ListRooms, Answer, FailRequest
<1>15. CASE \E a \in Admin : AssignCatalogue(a)
  BY <1>0, <1>4, <1>r, <1>15 DEF AssignCatalogue
<1>16. CASE \E a \in Admin, r \in Room : ChangeRoom(a, r)
  BY <1>0, <1>6, <1>16 DEF ChangeRoom
<1>17. CASE \E r \in Room : OpenRoom(r) \/ JoinRoom(r) \/ Maintain(r) \/ Expire(r)
  BY <1>0, <1>8, <1>17 DEF OpenRoom, JoinRoom, Maintain, Expire
<1>18. CASE Tick
  BY <1>0, <1>9, <1>18 DEF Tick
<1>19. CASE \E x \in Exam : BeginRegister(x)
  BY <1>0, <1>10, <1>r, <1>19 DEF BeginRegister
<1>20. CASE Restart
  BY <1>0, <1>11, <1>r, <1>20 DEF Restart
<1>21. CASE Rejected
  BY <1>0, <1>r, <1>21 DEF Rejected
<1>22. CASE \E x \in Exam, s \in Settings : Seed(x, s)
  BY <1>0, <1>r, <1>22 DEF Seed, Known
<1>23. ASSUME NEW a \in Admin, NEW x \in Exam,
              (CreateProblem(a, x) \/ UpdateProblem(a, x))
                \/ \E s \in Settings : CreateExam(a, x, s) \/ UpdateExamSettings(a, x, s)
       PROVE  \E s \in Settings, kind \in {"create", "settings", "problem"} : Written(a, x, kind, s)
  BY <1>0, <1>23 DEF CreateProblem, UpdateProblem, CreateExam, UpdateExamSettings, Known
<1>24. CASE UNCHANGED vars
  BY <1>0, <1>r, <1>24 DEF vars
<1> QED
  BY <1>12, <1>13, <1>14, <1>15, <1>16, <1>17, <1>18, <1>19, <1>20, <1>21, <1>22, <1>23, <1>24 DEF Next

(* The invariant holds throughout.                                         *)
THEOREM InvariantHolds == Spec => []IInv
<1>1. Init => IInv
  BY InitIInv
<1>2. IInv /\ [Next]_vars => IInv'
  BY StepIInv
<1> QED BY <1>1, <1>2, PTL DEF Spec

(* A running exam's end and freeze are those of the limits it carries.     *)
THEOREM TimesAlwaysAgree == Spec => []TimesAgree
<1>1. IInv => TimesAgree
  BY DEF IInv, TimesAgree, RowOK
<1> QED BY <1>1, InvariantHolds, PTL

(* A running room shows a taken board only while it is frozen.             *)
THEOREM BoardAlwaysFrozen == Spec => []BoardOnlyWhenFrozen
<1>1. IInv => BoardOnlyWhenFrozen
  BY DEF IInv, BoardOnlyWhenFrozen, RowOK
<1> QED BY <1>1, InvariantHolds, PTL
-----------------------------------------------------------------------------
(* Requests that write, each for its exam: what they saw, and which rooms  *)
(* they have still to change.                                              *)
Writer(a, x, kinds, pcs) ==
  Writing(a) /\ req[a].exam = x /\ req[a].kind \in kinds /\ req[a].pc \in pcs

Due(r, x) ==
  \E a \in Admin : /\ Writer(a, x, {"settings"}, {"read", "assign", "list", "rooms"})
                   /\ req[a].pc = "rooms" => r \in req[a].todo

RoomOf(r, x) == rows[r] # None /\ rows[r].exam = x
Fits(r, x) ==
  RoomOf(r, x) /\ rows[r].status # "finished" =>
    rows[r].limit = table[x].limit /\ rows[r].freeze = table[x].freeze

(* An exam without a row was never in the catalogue.                       *)
Unheard(x) ==
  /\ cached[x] = None
  /\ reg # None => reg.exam # x
  /\ \A r \in Room : ~RoomOf(r, x)

NothingUnwritten ==
  \A x \in Exam : table[x] = None =>
    Unheard(x) /\ \A a \in Admin : Writing(a) /\ req[a].pc # "read" => req[a].seen[x] = None

ReadersWrite ==
  \A a \in Admin : req[a].pc # "idle" =>
    Writing(a) \/ (req[a].kind = "end" /\ req[a].pc \in {"list", "rooms"})

(* Two requests that write at the same time spoil both exams.              *)
WritersApart ==
  \A a, b \in Admin : a # b /\ Writing(a) /\ Writing(b) => req[a].exam \in torn

Follows(x) ==
  /\ \A a \in Admin : Writing(a) /\ req[a].pc # "read" => req[a].seen[x] = ActiveExams[x]
  /\ \A a \in Admin : Writer(a, x, {"create"}, {"read", "assign"}) => Unheard(x)
  /\ \/ cached[x] = ActiveExams[x]
     \/ \E a \in Admin : Writer(a, x, {"create", "settings"}, {"read", "assign"})
  /\ reg # None /\ reg.exam = x =>
       \/ reg.settings = cached[x]
       \/ \E a \in Admin : Writer(a, x, {"settings"}, {"read", "assign"})
  /\ \A r \in Room : Fits(r, x) \/ Due(r, x) \/ ActiveExams[x] = None

FInv == NothingUnwritten /\ ReadersWrite /\ WritersApart /\ \A x \in Exam \ torn : Follows(x)
-----------------------------------------------------------------------------
LEMMA ActiveOf ==
  ASSUME NEW x \in Exam
  PROVE  ActiveExams[x] = IF table[x] # None /\ table[x].active THEN table[x] ELSE None
BY DEF ActiveExams

(* What the changes of a row keep: its exam and limits, and that it is     *)
(* finished.                                                               *)
LEMMA TimedKeeps ==
  ASSUME NEW room \in Row, NEW start
  PROVE  LET t == Timed(room, start)
         IN  /\ DOMAIN t = DOMAIN room
             /\ t.exam = room.exam /\ t.limit = room.limit /\ t.freeze = room.freeze
             /\ t.status = room.status
BY DEF Timed, Row

Kept(old, new) ==
  /\ new.exam = old.exam /\ new.limit = old.limit /\ new.freeze = old.freeze
  /\ old.status = "finished" => new.status = "finished"

LEMMA EmittedKeeps ==
  ASSUME NEW room \in Row, NEW s \in Settings, now \in Nat
  PROVE  Kept(room, Emitted(room, s))
<1>1. PICK u : u = Started(room, s)
  OBVIOUS
<1>2. u \in Row /\ Kept(room, u)
  <2>1. CASE room.status = "lobby" /\ now >= s.release
    <3>1. PICK t \in Row : /\ t = Timed(room, now) /\ t.limit = room.limit
                           /\ t.freeze = room.freeze /\ t.exam = room.exam
      BY TimedType, TimedKeeps
    <3>2. u = [t EXCEPT !.status = "playing", !.board = FALSE]
      BY <1>1, <2>1, <3>1 DEF Started
    <3> QED
      BY <2>1, <3>1, <3>2 DEF Row, Kept
  <2>2. CASE ~(room.status = "lobby" /\ now >= s.release)
    BY <1>1, <2>2 DEF Started, Kept
  <2> QED
    BY <2>1, <2>2
<1>3. PICK f : f = Finished(u)
  OBVIOUS
<1>4. f \in Row /\ Kept(u, f)
  BY <1>2, <1>3 DEF Finished, MarkFinished, Row, Kept
<1>5. PICK e : e = WithBoard(f)
  OBVIOUS
<1>6. Kept(f, e)
  BY <1>4, <1>5 DEF WithBoard, Row, Kept
<1>7. Emitted(room, s) = e
  BY <1>1, <1>3, <1>5 DEF Emitted
<1> QED
  BY <1>2, <1>4, <1>6, <1>7 DEF Kept

LEMMA SyncedKeeps ==
  ASSUME NEW room \in Row, NEW s \in Settings
  PROVE  Synced(room, s).exam = room.exam /\ Synced(room, s).limit = s.limit
         /\ Synced(room, s).freeze = s.freeze
<1>1. PICK limited : limited = [room EXCEPT !.limit = s.limit, !.freeze = s.freeze]
  OBVIOUS
<1>2. s.limit \in Nat /\ s.freeze \in Nat
  BY SettingsAssumption
<1>3. /\ limited \in Row /\ limited.exam = room.exam /\ limited.limit = s.limit
      /\ limited.freeze = s.freeze
  BY <1>1, <1>2 DEF Row
<1>4. PICK timed : timed = Timed(limited, room.started)
  OBVIOUS
<1>5. /\ DOMAIN timed = DOMAIN limited /\ timed.exam = room.exam /\ timed.limit = s.limit
      /\ timed.freeze = s.freeze
  BY <1>3, <1>4, TimedKeeps
<1>6. PICK synced : synced = IF room.status = "lobby"
        THEN [limited EXCEPT !.started = None, !.ends = None, !.frozen = None, !.board = FALSE]
        ELSE [timed EXCEPT !.board = @ /\ IsFrozen(timed)]
  OBVIOUS
<1>7. Synced(room, s) = synced
  BY <1>1, <1>4, <1>6 DEF Synced
<1>8. synced.exam = room.exam /\ synced.limit = s.limit /\ synced.freeze = s.freeze
  BY <1>3, <1>5, <1>6 DEF Row
<1> QED
  BY <1>7, <1>8

LEMMA EndedKeeps ==
  ASSUME NEW room \in Row
  PROVE  EndedRoom(room).exam = room.exam /\ EndedRoom(room).status = "finished"
BY DEF EndedRoom, MarkFinished, Row
-----------------------------------------------------------------------------
LEMMA InitFInv == Init => FInv
<1> SUFFICES ASSUME Init PROVE FInv
  OBVIOUS
<1>1. /\ \A a \in Admin : ~Writing(a)
      /\ \A r \in Room : rows[r] = None
      /\ reg = None /\ cached = ActiveExams
  BY NoneAssumption DEF Init, Idle, Writing
<1>2. NothingUnwritten
  BY <1>1, ActiveOf DEF NothingUnwritten, Unheard, RoomOf
<1>3. \A x \in Exam : Follows(x)
  BY <1>1 DEF Follows, Writer, Fits, RoomOf
<1> QED
  BY <1>1, <1>2, <1>3 DEF FInv, WritersApart, ReadersWrite, Init, Idle

(* Rooms move on by themselves, the clock ticks, a registration ends: what *)
(* the requests have to do stays as it was.                                *)
RoomsKept ==
  \A r \in Room : rows'[r] # None => rows[r] # None /\ Kept(rows[r], rows'[r])

LEMMA RoomOfKept ==
  ASSUME RoomsKept, table' = table, NEW r \in Room, NEW x \in Exam
  PROVE  /\ RoomOf(r, x)' => RoomOf(r, x)
         /\ Fits(r, x) => Fits(r, x)'
BY DEF RoomsKept, RoomOf, Fits, Kept

LEMMA QuietF ==
  ASSUME FInv, RoomsKept, UNCHANGED <<table, cached, req, torn>>, reg' = reg \/ reg' = None
  PROVE  FInv'
<1>1. ActiveExams' = ActiveExams
  BY DEF ActiveExams
<1>2. ASSUME NEW x \in Exam, Unheard(x) PROVE Unheard(x)'
  BY <1>2, RoomOfKept DEF Unheard
<1>3. NothingUnwritten'
  BY <1>2 DEF FInv, NothingUnwritten, Writing
<1>4. WritersApart' /\ ReadersWrite'
  BY DEF FInv, WritersApart, ReadersWrite, Writing
<1>5. ASSUME NEW x \in Exam \ torn PROVE Follows(x)'
  <2>1. Follows(x)
    BY <1>5 DEF FInv
  <2>2. \A r \in Room : Fits(r, x) => Fits(r, x)'
    BY RoomOfKept
  <2>3. \A r \in Room : Due(r, x) => Due(r, x)'
    BY DEF Due, Writer, Writing
  <2>4. \A a \in Admin : Writer(a, x, {"create"}, {"read", "assign"}) => Unheard(x)'
    BY <1>2, <2>1 DEF Follows
  <2> QED
    BY <1>1, <2>1, <2>2, <2>3, <2>4 DEF Follows, Writer, Writing
<1> QED
  BY <1>3, <1>4, <1>5 DEF FInv


LEMMA ReadF == ASSUME IInv, FInv, NEW a \in Admin, ReadExams(a) PROVE FInv'
<1>1. UNCHANGED <<table, cached, rows, reg, torn>> /\ req[a].pc = "read"
  BY DEF ReadExams
<1>2. /\ \A b \in Admin : req'[b].kind = req[b].kind /\ req'[b].exam = req[b].exam
      /\ \A b \in Admin \ {a} : req'[b] = req[b]
      /\ req'[a].pc = "assign" /\ req'[a].seen = ActiveExams
  BY DEF ReadExams, IInv, TypeOK, Request
<1>3. ActiveExams' = ActiveExams
  BY <1>1 DEF ActiveExams
<1>4. \A b \in Admin : Writing(b)' = Writing(b)
  BY <1>2 DEF Writing
<1>5. \A x \in Exam : Unheard(x)' = Unheard(x)
  BY <1>1 DEF Unheard, RoomOf
<1>6. \A b \in Admin : Writing(b) /\ req'[b].pc # "read" =>
        b = a \/ (req'[b] = req[b] /\ req[b].pc # "read")
  BY <1>2
<1>7. NothingUnwritten'
  BY <1>1, <1>2, <1>4, <1>5, <1>6, ActiveOf DEF FInv, NothingUnwritten
<1>8. WritersApart' /\ ReadersWrite'
  BY <1>1, <1>2, <1>4 DEF FInv, WritersApart, ReadersWrite
<1>9. ASSUME NEW x \in Exam \ torn PROVE Follows(x)'
  <2>1. Follows(x)
    BY <1>9 DEF FInv
  <2>2. ASSUME NEW b \in Admin, NEW kinds
        PROVE  Writer(b, x, kinds, {"read", "assign"})' = Writer(b, x, kinds, {"read", "assign"})
    BY <1>1, <1>2, <1>4 DEF Writer
  <2>3. \A r \in Room : Fits(r, x)' = Fits(r, x)
    BY <1>1 DEF Fits, RoomOf
  <2>4. \A r \in Room : Due(r, x) => Due(r, x)'
    BY <1>1, <1>2, <1>4 DEF Due, Writer
  <2>5. \A b \in Admin : Writing(b)' /\ req'[b].pc # "read" => req'[b].seen[x] = ActiveExams'[x]
    BY <1>2, <1>3, <1>4, <1>6, <2>1 DEF Follows
  <2> QED
    BY <1>1, <1>3, <1>5, <2>1, <2>2, <2>3, <2>4, <2>5 DEF Follows
<1> QED
  BY <1>1, <1>7, <1>8, <1>9 DEF FInv

LEMMA WriteF ==
  ASSUME IInv, FInv, NEW a \in Admin, NEW x \in Exam, NEW s \in Settings,
         NEW kind \in {"create", "settings", "problem"}, Written(a, x, kind, s),
         kind = "create" => table[x] = None, kind = "problem" => table[x] = s
  PROVE  FInv'
<1>1. /\ UNCHANGED <<cached, rows, reg>> /\ ~Writing(a) /\ Writing(a)'
      /\ \A y \in Exam : table'[y] = IF y = x THEN s ELSE table[y]
      /\ req'[a].pc = "read" /\ req'[a].kind = kind /\ req'[a].exam = x
      /\ \A b \in Admin \ {a} : req'[b] = req[b] /\ Writing(b)' = Writing(b)
  BY NoneAssumption DEF Written, Idle, Writing, IInv, TypeOK, Known
<1>2. /\ \A b \in Admin \ {a} : Writing(b) => x \in torn' /\ req[b].exam \in torn'
      /\ \A y \in torn \ torn' : y = x /\ kind = "settings"
  BY DEF Written, Torn
<1>3. \A y \in Exam \ {x} : ActiveExams'[y] = ActiveExams[y]
  BY <1>1 DEF ActiveExams
<1>4. \A y \in Exam : Unheard(y)' = Unheard(y)
  BY <1>1 DEF Unheard, RoomOf
<1>5. NothingUnwritten'
  BY <1>1, <1>4, NoneAssumption DEF FInv, NothingUnwritten
<1>6. WritersApart' /\ ReadersWrite'
  BY <1>1, <1>2 DEF FInv, WritersApart, ReadersWrite
<1>7. ASSUME NEW y \in Exam \ torn' PROVE Follows(y)'
  <2>1. CASE y # x
    <3>1. Follows(y)
      BY <1>2, <1>7, <2>1 DEF FInv
    <3>2. /\ ~Writing(a) /\ req'[a].exam # y
          /\ \A b \in Admin \ {a} : req'[b] = req[b] /\ Writing(b)' = Writing(b)
      BY <1>1, <2>1
    <3>3. \A b \in Admin : Writing(b)' /\ req'[b].pc # "read" => req'[b].seen[y] = ActiveExams'[y]
      BY <1>1, <1>3, <2>1, <3>1 DEF Follows
    <3>4. \A b \in Admin : Writer(b, y, {"create"}, {"read", "assign"})' => Unheard(y)'
      BY <1>4, <3>1, <3>2 DEF Follows, Writer
    <3>5. \/ cached[y] = ActiveExams[y]
          \/ \E b \in Admin : Writer(b, y, {"create", "settings"}, {"read", "assign"})'
      BY <3>1, <3>2 DEF Follows, Writer
    <3>6. reg # None /\ reg.exam = y =>
            \/ reg.settings = cached[y]
            \/ \E b \in Admin : Writer(b, y, {"settings"}, {"read", "assign"})'
      BY <3>1, <3>2 DEF Follows, Writer
    <3>7. \A r \in Room : Fits(r, y)' = Fits(r, y)
      BY <1>1, <2>1 DEF Fits, RoomOf
    <3>8. \A r \in Room : Due(r, y) => Due(r, y)'
      BY <3>2 DEF Due, Writer
    <3> QED
      BY <1>1, <1>3, <2>1, <3>1, <3>3, <3>4, <3>5, <3>6, <3>7, <3>8 DEF Follows
  <2>2. CASE y = x
    <3>1. \A b \in Admin : ~Writing(b) /\ (Writing(b)' => b = a)
      BY <1>1, <1>2, <1>7, <2>2
    <3>2. kind = "create" => Unheard(x)
      BY DEF FInv, NothingUnwritten
    <3>3. kind = "problem" => Follows(x) /\ table'[x] = table[x] /\ ActiveExams'[x] = ActiveExams[x]
      BY <1>1, <1>2, <1>7, <2>2 DEF FInv, ActiveExams
    <3>4. ASSUME NEW kinds, NEW b \in Admin, b = a, kind \in kinds
          PROVE  /\ Writer(b, x, kinds, {"read", "assign"})'
                 /\ Writer(b, x, kinds, {"read", "assign", "list", "rooms"})'
      BY <1>1, <3>4 DEF Writer
    <3>5. ASSUME NEW b \in Admin, NEW kinds, NEW pcs
          PROVE  /\ ~Writer(b, x, kinds, pcs)
                 /\ Writer(b, x, kinds, pcs)' => b = a /\ kind \in kinds
      BY <1>1, <3>1 DEF Writer
    <3>6. \A r \in Room : /\ ~Due(r, x)
                          /\ kind = "settings" => Due(r, x)'
                          /\ kind = "problem" => Fits(r, x)' = Fits(r, x)
                          /\ kind = "create" => Fits(r, x)'
      <4>1. ASSUME NEW r \in Room PROVE ~Due(r, x)
        BY <3>5 DEF Due
      <4>2. ASSUME NEW r \in Room, kind = "settings" PROVE Due(r, x)'
        BY <1>1, <3>4, <4>2 DEF Due
      <4>3. ASSUME NEW r \in Room, kind = "problem" PROVE Fits(r, x)' = Fits(r, x)
        BY <1>1, <3>3, <4>3 DEF Fits, RoomOf
      <4>4. ASSUME NEW r \in Room, kind = "create" PROVE Fits(r, x)'
        BY <1>1, <3>2, <4>4 DEF Fits, RoomOf, Unheard
      <4> QED
        BY <4>1, <4>2, <4>3, <4>4
    <3>7. \A b \in Admin : Writing(b)' /\ req'[b].pc # "read" => req'[b].seen[x] = ActiveExams'[x]
      BY <1>1, <3>1
    <3>8. \A b \in Admin : Writer(b, x, {"create"}, {"read", "assign"})' => Unheard(x)'
      BY <1>4, <3>2, <3>5
    <3>9. kind # "create" \/ (Unheard(x) /\ (reg # None => reg.exam # x))
      BY <3>2 DEF Unheard
    <3>10. CASE kind = "create"
      BY <1>1, <3>4, <3>6, <3>7, <3>8, <3>9, <3>10, <2>2 DEF Follows
    <3>11. CASE kind = "settings"
      BY <1>1, <3>4, <3>6, <3>7, <3>8, <3>11, <2>2 DEF Follows
    <3>12. CASE kind = "problem"
      BY <1>1, <3>3, <3>5, <3>6, <3>7, <3>8, <3>12, <2>2 DEF Follows
    <3> QED
      BY <3>10, <3>11, <3>12
  <2> QED
    BY <2>1, <2>2
<1> QED
  BY <1>5, <1>6, <1>7 DEF FInv

LEMMA AssignF == ASSUME IInv, FInv, NEW a \in Admin, AssignCatalogue(a) PROVE FInv'
<1>1. /\ UNCHANGED <<table, rows, reg>> /\ cached' = req[a].seen /\ torn \subseteq torn'
      /\ reg # None => reg.exam \in torn'
      /\ req[a].pc = "assign"
      /\ \A b \in Admin \ {a} : req'[b] = req[b] /\ Writing(b)' = Writing(b)
  BY DEF AssignCatalogue, Catalogue, IInv, TypeOK, Writing
<1>2. Writing(a)
  BY <1>1 DEF FInv, ReadersWrite
<1>3. \/ /\ req'[a] = Idle
         /\ req[a].kind = "settings" => req[a].seen[req[a].exam] = None
      \/ /\ req'[a].pc = "list" /\ req'[a].kind = req[a].kind /\ req'[a].exam = req[a].exam
         /\ req'[a].seen = req[a].seen /\ req[a].kind = "settings"
  BY DEF AssignCatalogue, IInv, TypeOK, Request
<1>4. Writing(a)' => req'[a].exam = req[a].exam /\ req'[a].seen = req[a].seen /\ req'[a].pc = "list"
  BY <1>3, NoneAssumption DEF Idle, Writing
<1>5. ActiveExams' = ActiveExams
  BY <1>1 DEF ActiveExams
<1>6. NothingUnwritten'
  BY <1>1, <1>2, <1>4 DEF FInv, NothingUnwritten, Unheard, RoomOf
<1>7. WritersApart' /\ ReadersWrite'
  BY <1>1, <1>2, <1>3, <1>4 DEF FInv, WritersApart, ReadersWrite, Writing, Idle
<1>8. ASSUME NEW y \in Exam \ torn' PROVE Follows(y)'
  <2>1. Follows(y) /\ y \notin torn
    BY <1>1, <1>8 DEF FInv
  <2>2. cached'[y] = ActiveExams'[y]
    BY <1>1, <1>2, <1>5, <2>1 DEF Follows
  <2>3. \A b \in Admin : Writing(b)' /\ req'[b].pc # "read" => req'[b].seen[y] = ActiveExams'[y]
    BY <1>1, <1>2, <1>4, <1>5, <2>1 DEF Follows
  <2>4. \A b \in Admin : ~Writer(b, y, {"create"}, {"read", "assign"})'
    BY <1>1, <1>2, <1>4, <2>1 DEF FInv, WritersApart, Writer
  <2>5. ASSUME NEW r \in Room, Due(r, y) PROVE Due(r, y)' \/ ActiveExams[y] = None
    <3>1. PICK b \in Admin : /\ Writing(b) /\ req[b].exam = y /\ req[b].kind = "settings"
                             /\ req[b].pc \in {"read", "assign", "list", "rooms"}
                             /\ req[b].pc = "rooms" => r \in req[b].todo
      BY <2>5 DEF Due, Writer
    <3>2. CASE b = a
      <4>1. req[a].seen[y] = ActiveExams[y]
        BY <1>1, <1>2, <2>1 DEF Follows
      <4>2. CASE req'[a] = Idle
        BY <1>3, <3>1, <3>2, <4>1, <4>2 DEF Idle
      <4>3. CASE req'[a] # Idle
        BY <1>3, <3>1, <3>2, <4>3 DEF Due, Writer, Writing
      <4> QED
        BY <4>2, <4>3
    <3>3. CASE b # a
      BY <1>1, <3>1, <3>3 DEF Due, Writer
    <3> QED
      BY <3>2, <3>3
  <2>6. \A r \in Room : Fits(r, y)' = Fits(r, y)
    BY <1>1 DEF Fits, RoomOf
  <2>7. \A r \in Room : Fits(r, y)' \/ Due(r, y)' \/ ActiveExams'[y] = None
    BY <1>5, <2>1, <2>5, <2>6 DEF Follows
  <2> QED
    BY <1>1, <1>8, <2>2, <2>3, <2>4, <2>7 DEF Follows
<1> QED
  BY <1>6, <1>7, <1>8 DEF FInv

(* A request that is past the catalogue goes on: what it leaves has to fit.*)
LEMMA LaterF ==
  ASSUME IInv, FInv, NEW a \in Admin, UNCHANGED <<table, cached, reg>>, torn \subseteq torn',
         \A r \in Room, x \in Exam : RoomOf(r, x)' => RoomOf(r, x),
         \A b \in Admin \ {a} : req'[b] = req[b],
         req'[a] = Idle \/ req'[a].pc \in {"list", "rooms"},
         req'[a] = Idle \/ Writing(a)' \/ req'[a].kind = "end",
         Writing(a)' => /\ Writing(a) /\ req[a].pc \in {"list", "rooms"}
                        /\ req'[a].exam = req[a].exam /\ req'[a].seen = req[a].seen,
         req[a].pc \in {"read", "assign"} => req[a].exam \in torn',
         \A x \in Exam \ torn', r \in Room :
           /\ Fits(r, x) => Fits(r, x)'
           /\ Writer(a, x, {"settings"}, {"list", "rooms"}) /\ (req[a].pc = "rooms" => r \in req[a].todo) =>
                Fits(r, x)' \/ Due(r, x)' \/ ActiveExams[x] = None
  PROVE  FInv'
<1>1. \A b \in Admin \ {a} : Writing(b)' = Writing(b)
  BY DEF Writing
<1>2. ActiveExams' = ActiveExams
  BY DEF ActiveExams
<1>3. \A x \in Exam : Unheard(x) => Unheard(x)'
  BY DEF Unheard
<1>4. NothingUnwritten'
  BY <1>1, <1>3 DEF FInv, NothingUnwritten
<1>5. WritersApart' /\ ReadersWrite'
  BY <1>1 DEF FInv, WritersApart, ReadersWrite, Idle
<1>6. ~Writing(a)' \/ req'[a].pc \notin {"read", "assign"}
  BY NoneAssumption DEF Idle, Writing
<1>7. ASSUME NEW y \in Exam \ torn' PROVE Follows(y)'
  <2>1. Follows(y) /\ y \notin torn
    BY <1>7 DEF FInv
  <2>2. \A b \in Admin : Writing(b)' /\ req'[b].pc # "read" => req'[b].seen[y] = ActiveExams'[y]
    BY <1>1, <1>2, <2>1 DEF Follows
  <2>3. \A b \in Admin : Writer(b, y, {"create"}, {"read", "assign"})' => Unheard(y)'
    BY <1>1, <1>3, <1>6, <2>1 DEF Follows, Writer
  <2>4. ASSUME NEW b \in Admin, Writer(b, y, {"create", "settings"}, {"read", "assign"})
        PROVE  Writer(b, y, {"create", "settings"}, {"read", "assign"})'
    BY <1>1, <1>7, <2>4 DEF Writer
  <2>5. ASSUME NEW b \in Admin, Writer(b, y, {"settings"}, {"read", "assign"})
        PROVE  Writer(b, y, {"settings"}, {"read", "assign"})'
    BY <1>1, <1>7, <2>5 DEF Writer
  <2>6. ASSUME NEW r \in Room, Due(r, y) PROVE Fits(r, y)' \/ Due(r, y)' \/ ActiveExams[y] = None
    <3>1. PICK b \in Admin : /\ Writing(b) /\ req[b].exam = y /\ req[b].kind = "settings"
                             /\ req[b].pc \in {"read", "assign", "list", "rooms"}
                             /\ req[b].pc = "rooms" => r \in req[b].todo
      BY <2>6 DEF Due, Writer
    <3>2. CASE b = a
      BY <1>7, <3>1, <3>2 DEF Writer
    <3>3. CASE b # a
      BY <1>1, <3>1, <3>3 DEF Due, Writer
    <3> QED
      BY <3>2, <3>3
  <2>7. \A r \in Room : Fits(r, y)' \/ Due(r, y)' \/ ActiveExams'[y] = None
    BY <1>2, <1>7, <2>1, <2>6 DEF Follows
  <2> QED
    BY <1>2, <2>1, <2>2, <2>3, <2>4, <2>5, <2>7 DEF Follows
<1> QED
  BY <1>4, <1>5, <1>7 DEF FInv

LEMMA EndF == ASSUME IInv, FInv, NEW a \in Admin, NEW x \in Exam, EndEvent(a, x) PROVE FInv'
<1>1. /\ UNCHANGED <<table, cached, rows, reg, torn>> /\ req[a] = Idle
      /\ \A b \in Admin \ {a} : req'[b] = req[b]
      /\ req'[a].pc = "list" /\ req'[a].kind = "end"
  BY DEF EndEvent, Idle, IInv, TypeOK
<1>2. ~Writing(a) /\ ~Writing(a)' /\ req[a].pc = "idle"
  BY <1>1, NoneAssumption DEF Writing, Idle
<1>3. \A r \in Room, y \in Exam : RoomOf(r, y)' = RoomOf(r, y) /\ Fits(r, y)' = Fits(r, y)
  BY <1>1 DEF RoomOf, Fits
<1> QED
  BY <1>1, <1>2, <1>3, LaterF DEF Writer

(* readEventRooms lists every row of the exam that can be read and is not  *)
(* finished: after the catalogue was assigned, that is every room that has *)
(* other limits.                                                           *)
LEMMA ListF == ASSUME IInv, FInv, NEW a \in Admin, ListRooms(a) PROVE FInv'
<1>1. /\ UNCHANGED <<table, cached, rows, reg, torn>> /\ req[a].pc = "list"
      /\ \A b \in Admin \ {a} : req'[b] = req[b]
      /\ req'[a].pc = "rooms" /\ req'[a].kind = req[a].kind /\ req'[a].exam = req[a].exam
      /\ req'[a].seen = req[a].seen /\ req'[a].todo = EventRooms(req[a].exam)
  BY DEF ListRooms, IInv, TypeOK, Request
<1>2. Writing(a)' = Writing(a) /\ (Writing(a) \/ req[a].kind = "end")
  BY <1>1 DEF Writing, FInv, ReadersWrite
<1>3. \A r \in Room, y \in Exam : RoomOf(r, y)' = RoomOf(r, y) /\ Fits(r, y)' = Fits(r, y)
  BY <1>1 DEF RoomOf, Fits
<1>4. ASSUME NEW x \in Exam \ torn', NEW r \in Room, Writer(a, x, {"settings"}, {"list", "rooms"})
      PROVE  Fits(r, x)' \/ Due(r, x)' \/ ActiveExams[x] = None
  <2>1. Writing(a) /\ req[a].exam = x /\ req[a].kind = "settings"
    BY <1>4 DEF Writer
  <2>2. cached[x] = ActiveExams[x]
    <3>1. Follows(x)
      BY <1>1, <1>4 DEF FInv
    <3>2. \A b \in Admin : ~Writer(b, x, {"create", "settings"}, {"read", "assign"})
      BY <1>1, <1>4, <2>1 DEF FInv, WritersApart, Writer
    <3> QED
      BY <3>1, <3>2 DEF Follows
  <2>3. CASE r \in EventRooms(x)
    <3>1. Writer(a, x, {"settings"}, {"read", "assign", "list", "rooms"})' /\ r \in req'[a].todo
      BY <1>1, <1>2, <2>1, <2>3 DEF Writer
    <3> QED
      BY <3>1 DEF Due
  <2>4. CASE r \notin EventRooms(x)
    BY <1>3, <2>2, <2>4 DEF EventRooms, Readable, Fits, RoomOf
  <2> QED
    BY <2>3, <2>4
<1>5. \A x \in Exam \ torn', r \in Room :
           /\ Fits(r, x) => Fits(r, x)'
           /\ Writer(a, x, {"settings"}, {"list", "rooms"}) /\ (req[a].pc = "rooms" => r \in req[a].todo) =>
                Fits(r, x)' \/ Due(r, x)' \/ ActiveExams[x] = None
  BY <1>3, <1>4
<1> QED
  BY <1>1, <1>2, <1>3, <1>5, LaterF

LEMMA AnswerF == ASSUME IInv, FInv, NEW a \in Admin, Answer(a) PROVE FInv'
<1>1. /\ UNCHANGED <<table, cached, rows, reg, torn>> /\ req[a].pc = "rooms" /\ req[a].todo = {}
      /\ \A b \in Admin \ {a} : req'[b] = req[b]
      /\ req'[a] = Idle
  BY DEF Answer, IInv, TypeOK
<1>2. ~Writing(a)'
  BY <1>1, NoneAssumption DEF Writing, Idle
<1>3. \A r \in Room, y \in Exam : RoomOf(r, y)' = RoomOf(r, y) /\ Fits(r, y)' = Fits(r, y)
  BY <1>1 DEF RoomOf, Fits
<1> QED
  BY <1>1, <1>2, <1>3, LaterF

LEMMA FailF == ASSUME IInv, FInv, NEW a \in Admin, FailRequest(a) PROVE FInv'
<1>1. /\ UNCHANGED <<table, cached, rows, reg>>
      /\ \A b \in Admin \ {a} : req'[b] = req[b]
      /\ req'[a] = Idle
      /\ torn \subseteq torn' /\ (Writing(a) => req[a].exam \in torn')
  BY DEF FailRequest, IInv, TypeOK
<1>2. ~Writing(a)'
  BY <1>1, NoneAssumption DEF Writing, Idle
<1>3. \A r \in Room, y \in Exam : RoomOf(r, y)' = RoomOf(r, y) /\ Fits(r, y)' = Fits(r, y)
  BY <1>1 DEF RoomOf, Fits
<1>4. req[a].pc \in {"read", "assign"} => Writing(a)
  BY DEF FInv, ReadersWrite
<1>5. \A x \in Exam \ torn' : ~Writer(a, x, {"settings"}, {"list", "rooms"})
  BY <1>1 DEF Writer
<1> QED
  BY <1>1, <1>2, <1>3, <1>4, <1>5, LaterF

LEMMA ChangeF == ASSUME IInv, FInv, NEW a \in Admin, NEW r \in Room, ChangeRoom(a, r) PROVE FInv'
<1>1. /\ UNCHANGED <<table, cached, reg, torn>> /\ req[a].pc = "rooms"
      /\ \A b \in Admin \ {a} : req'[b] = req[b]
      /\ req'[a].pc = "rooms" /\ req'[a].kind = req[a].kind /\ req'[a].exam = req[a].exam
      /\ req'[a].seen = req[a].seen /\ req'[a].todo = req[a].todo \ {r}
  BY DEF ChangeRoom, IInv, TypeOK, Request
<1>2. Writing(a)' = Writing(a) /\ (Writing(a) \/ req[a].kind = "end")
  BY <1>1 DEF Writing, FInv, ReadersWrite
<1>3. PICK z \in Exam : z = req[a].exam
  BY <1>1 DEF IInv, TypeOK, RequestOK
<1>4. \A q \in Room \ {r} : rows'[q] = rows[q]
  BY DEF ChangeRoom, IInv, TypeOK
<1>5. \/ rows'[r] = rows[r] /\ r \notin EventRooms(z)
      \/ /\ RoomOf(r, z) /\ rows'[r].exam = z
         /\ z \notin torn => Fits(r, z)'
  <2>1. CASE r \notin EventRooms(z)
    BY <1>3, <2>1 DEF ChangeRoom
  <2>2. CASE r \in EventRooms(z)
    <3>1. PICK room \in Row : /\ room = rows[r] /\ RowOK(room) /\ room.status # "finished"
                              /\ room.exam = z /\ RoomOf(r, z)
      BY <2>2, EventRoomsType DEF RoomOf, EventRooms, Readable
    <3>2. CASE req[a].kind = "end"
      <4>1. rows'[r] = EndedRoom(room)
        BY <1>3, <2>2, <3>1, <3>2 DEF ChangeRoom, IInv, TypeOK
      <4>2. rows'[r].exam = z /\ rows'[r].status = "finished"
        BY <3>1, <4>1, EndedKeeps
      <4> QED
        BY <3>1, <4>2 DEF Fits
    <3>3. CASE req[a].kind # "end"
      <4>1. PICK s \in Settings : s = req[a].seen[z] /\ s # None
        BY <1>1, <1>3, <3>3 DEF IInv, TypeOK, RequestOK, Known
      <4>2. PICK synced \in Row : /\ synced = Synced(room, s) /\ synced.exam = z
                                  /\ synced.limit = s.limit /\ synced.freeze = s.freeze
        BY <3>1, SyncedOK, SyncedKeeps DEF IInv, TypeOK
      <4>3. rows'[r] = Emitted(synced, s)
        BY <1>3, <2>2, <3>1, <3>3, <4>1, <4>2 DEF ChangeRoom, IInv, TypeOK
      <4>4. rows'[r].exam = z /\ rows'[r].limit = s.limit /\ rows'[r].freeze = s.freeze
        BY <4>2, <4>3, EmittedKeeps DEF IInv, TypeOK, Kept
      <4>5. ASSUME z \notin torn PROVE s = table[z]
        <5>1. Follows(z) /\ Writing(a)
          BY <1>2, <3>3, <4>5 DEF FInv
        <5>2. s = ActiveExams[z]
          BY <1>1, <4>1, <5>1 DEF Follows
        <5> QED
          BY <4>1, <5>2, ActiveOf
      <4> QED
        BY <1>1, <3>1, <4>4, <4>5 DEF Fits
    <3> QED
      BY <3>2, <3>3
  <2> QED
    BY <2>1, <2>2
<1>6. \A q \in Room, x \in Exam : RoomOf(q, x)' => RoomOf(q, x)
  BY <1>4, <1>5 DEF RoomOf
<1>7. ASSUME NEW x \in Exam \ torn', NEW q \in Room, Fits(q, x) PROVE Fits(q, x)'
  BY <1>1, <1>4, <1>5, <1>7 DEF Fits, RoomOf
<1>8. ASSUME NEW x \in Exam \ torn', NEW q \in Room, Writer(a, x, {"settings"}, {"list", "rooms"}),
             q \in req[a].todo
      PROVE  Fits(q, x)' \/ Due(q, x)' \/ ActiveExams[x] = None
  <2>1. Writing(a) /\ x = z /\ req[a].kind = "settings"
    BY <1>3, <1>8 DEF Writer
  <2>2. CASE q # r
    <3>1. Writer(a, x, {"settings"}, {"read", "assign", "list", "rooms"})' /\ q \in req'[a].todo
      BY <1>1, <1>2, <1>3, <1>8, <2>1, <2>2 DEF Writer
    <3> QED
      BY <3>1 DEF Due
  <2>3. CASE q = r /\ rows'[r] = rows[r] /\ r \notin EventRooms(z)
    <3>1. Follows(x)
      BY <1>1, <1>8 DEF FInv
    <3>2. \A b \in Admin : ~Writer(b, x, {"create", "settings"}, {"read", "assign"})
      BY <1>1, <1>3, <1>8, <2>1 DEF FInv, WritersApart, Writer
    <3>3. cached[x] = ActiveExams[x]
      BY <3>1, <3>2 DEF Follows
    <3> QED
      BY <2>1, <2>3, <3>3 DEF EventRooms, Readable, Fits, RoomOf
  <2>4. CASE q = r /\ (z \notin torn => Fits(r, z)')
    BY <1>1, <1>8, <2>1, <2>4
  <2> QED
    BY <1>5, <2>2, <2>3, <2>4
<1>9. \A x \in Exam \ torn', q \in Room :
           /\ Fits(q, x) => Fits(q, x)'
           /\ Writer(a, x, {"settings"}, {"list", "rooms"}) /\ (req[a].pc = "rooms" => q \in req[a].todo) =>
                Fits(q, x)' \/ Due(q, x)' \/ ActiveExams[x] = None
  BY <1>1, <1>7, <1>8
<1> QED
  BY <1>1, <1>2, <1>6, <1>9, LaterF

LEMMA BeginF == ASSUME IInv, FInv, NEW x \in Exam, BeginRegister(x) PROVE FInv'
<1>1. /\ UNCHANGED <<table, cached, rows, req, torn>> /\ cached[x] # None
      /\ reg'.exam = x /\ reg'.settings = cached[x]
  BY DEF BeginRegister
<1>2. ActiveExams' = ActiveExams /\ \A a \in Admin : Writing(a)' = Writing(a)
  BY <1>1 DEF ActiveExams, Writing
<1>3. \A y \in Exam : Unheard(y) => Unheard(y)'
  BY <1>1 DEF Unheard, RoomOf
<1>4. NothingUnwritten' /\ WritersApart' /\ ReadersWrite'
  BY <1>1, <1>2, <1>3 DEF FInv, NothingUnwritten, WritersApart, ReadersWrite
<1>5. ASSUME NEW y \in Exam \ torn' PROVE Follows(y)'
  <2>1. Follows(y)
    BY <1>1, <1>5 DEF FInv
  <2>2. \A r \in Room : (Fits(r, y) => Fits(r, y)') /\ (Due(r, y) => Due(r, y)')
    BY <1>1, <1>2 DEF Fits, RoomOf, Due, Writer
  <2> QED
    BY <1>1, <1>2, <1>3, <2>1, <2>2 DEF Follows, Writer
<1> QED
  BY <1>1, <1>4, <1>5 DEF FInv

(* A room opens with the settings its registration read: those of the      *)
(* catalogue, or the room is still to be listed.                           *)
LEMMA OpenF == ASSUME IInv, FInv, NEW r \in Room, OpenRoom(r) PROVE FInv'
<1>1. /\ UNCHANGED <<table, cached, req, torn>> /\ reg # None /\ reg' = None
      /\ \A q \in Room \ {r} : rows'[q] = rows[q]
  BY DEF OpenRoom, IInv, TypeOK
<1>2. PICK e \in Exam, s \in Settings : e = reg.exam /\ s = reg.settings
  BY <1>1 DEF IInv, TypeOK
<1>3. PICK new \in Row : new = NewRoom(e, s) /\ new.exam = e /\ new.limit = s.limit /\ new.freeze = s.freeze
  BY NewRoomOK DEF NewRoom
<1>4. rows'[r] = Emitted(new, s)
  BY <1>2, <1>3 DEF OpenRoom, IInv, TypeOK
<1>5. rows'[r].exam = e /\ rows'[r].limit = s.limit /\ rows'[r].freeze = s.freeze
  BY <1>3, <1>4, EmittedKeeps DEF IInv, TypeOK, Kept
<1>6. ActiveExams' = ActiveExams /\ \A a \in Admin : Writing(a)' = Writing(a)
  BY <1>1 DEF ActiveExams, Writing
<1>7. \A y \in Exam : Unheard(y) => Unheard(y)' /\ y # e
  BY <1>1, <1>2, <1>5 DEF Unheard, RoomOf
<1>8. NothingUnwritten' /\ WritersApart' /\ ReadersWrite'
  BY <1>1, <1>6, <1>7 DEF FInv, NothingUnwritten, WritersApart, ReadersWrite
<1>9. ASSUME NEW y \in Exam \ torn' PROVE Follows(y)'
  <2>1. Follows(y)
    BY <1>1, <1>9 DEF FInv
  <2>2. \A q \in Room : Due(q, y) => Due(q, y)'
    BY <1>1, <1>6 DEF Due, Writer
  <2>3. \A q \in Room \ {r} : Fits(q, y)' = Fits(q, y)
    BY <1>1 DEF Fits, RoomOf
  <2>4. Fits(r, y)' \/ Due(r, y)' \/ ActiveExams[y] = None
    <3>1. CASE y # e
      BY <1>5, <3>1 DEF Fits, RoomOf
    <3>2. CASE y = e /\ \E a \in Admin : Writer(a, y, {"settings"}, {"read", "assign"})
      BY <1>1, <1>6, <3>2 DEF Due, Writer
    <3>3. CASE y = e /\ s = cached[y] /\ cached[y] = ActiveExams[y]
      BY <1>1, <1>5, <3>3, ActiveOf DEF Fits
    <3>4. CASE y = e /\ \E a \in Admin : Writer(a, y, {"create"}, {"read", "assign"})
      BY <1>7, <2>1, <3>4 DEF Follows
    <3>5. (\E a \in Admin : Writer(a, y, {"create", "settings"}, {"read", "assign"})) =>
            \E a \in Admin : \/ Writer(a, y, {"create"}, {"read", "assign"})
                             \/ Writer(a, y, {"settings"}, {"read", "assign"})
      BY DEF Writer
    <3> QED
      BY <1>1, <1>2, <2>1, <3>1, <3>2, <3>3, <3>4, <3>5 DEF Follows
  <2> QED
    BY <1>1, <1>6, <1>7, <2>1, <2>2, <2>3, <2>4 DEF Follows, Writer
<1> QED
  BY <1>1, <1>8, <1>9 DEF FInv

LEMMA RestartF == ASSUME IInv, FInv, Restart PROVE FInv'
<1>1. /\ UNCHANGED <<table, rows>> /\ cached' = ActiveExams /\ reg' = None /\ torn \subseteq torn'
      /\ \A a \in Admin : req'[a] = Idle
      /\ \A a \in Admin : Writing(a) => req[a].exam \in torn'
  BY DEF Restart
<1>2. ActiveExams' = ActiveExams
  BY <1>1 DEF ActiveExams
<1>3. \A a \in Admin : ~Writing(a)'
  BY <1>1, NoneAssumption DEF Writing, Idle
<1>4. NothingUnwritten'
  BY <1>1, <1>3, ActiveOf DEF FInv, NothingUnwritten, Unheard, RoomOf
<1>5. WritersApart' /\ ReadersWrite'
  BY <1>1, <1>3 DEF WritersApart, ReadersWrite, Idle
<1>6. ASSUME NEW y \in Exam \ torn' PROVE Follows(y)'
  <2>1. Follows(y)
    BY <1>1, <1>6 DEF FInv
  <2>2. \A r \in Room : ~Due(r, y) /\ Fits(r, y)' = Fits(r, y)
    BY <1>1, <1>6 DEF Due, Writer, Fits, RoomOf
  <2> QED
    BY <1>1, <1>2, <1>3, <2>1, <2>2 DEF Follows, Writer
<1> QED
  BY <1>4, <1>5, <1>6 DEF FInv

LEMMA SeedF == ASSUME IInv, FInv, NEW x \in Exam, NEW s \in Settings, Seed(x, s) PROVE FInv'
<1>1. /\ UNCHANGED <<cached, rows, req, reg>> /\ torn' = torn \cup {x}
      /\ \A y \in Exam : table'[y] = IF y = x THEN s ELSE table[y]
  BY DEF Seed, IInv, TypeOK, Known
<1>2. \A a \in Admin : Writing(a)' = Writing(a)
  BY <1>1 DEF Writing
<1>3. \A y \in Exam : Unheard(y)' = Unheard(y)
  BY <1>1 DEF Unheard, RoomOf
<1>4. NothingUnwritten' /\ WritersApart' /\ ReadersWrite'
  BY <1>1, <1>2, <1>3, NoneAssumption DEF FInv, NothingUnwritten, WritersApart, ReadersWrite
<1>5. ASSUME NEW y \in Exam \ torn' PROVE Follows(y)'
  <2>1. Follows(y) /\ y # x
    BY <1>1, <1>5 DEF FInv
  <2>2. ActiveExams'[y] = ActiveExams[y]
    BY <1>1, <2>1 DEF ActiveExams
  <2>3. \A r \in Room : (Fits(r, y) => Fits(r, y)') /\ (Due(r, y) => Due(r, y)')
    BY <1>1, <1>2, <2>1 DEF Fits, RoomOf, Due, Writer
  <2> QED
    BY <1>1, <1>2, <1>3, <2>1, <2>2, <2>3 DEF Follows, Writer
<1> QED
  BY <1>4, <1>5 DEF FInv

(* What emitRoom makes of a row of the catalogue's exams.                  *)
LEMMA EmittedRoomsKept ==
  ASSUME IInv, NEW r \in Room, Readable(r),
         rows' = [rows EXCEPT ![r] = Emitted(@, cached[@.exam])]
  PROVE  RoomsKept
<1>1. PICK room \in Row : room = rows[r]
  BY DEF Readable, IInv, TypeOK
<1>2. PICK s \in Settings : s = cached[room.exam]
  BY <1>1 DEF Readable, IInv, TypeOK, Known, Row
<1>3. PICK e : e = Emitted(room, s)
  OBVIOUS
<1>4. Kept(room, e)
  BY <1>3, EmittedKeeps DEF IInv, TypeOK
<1>5. rows' = [rows EXCEPT ![r] = e]
  BY <1>1, <1>2, <1>3
<1>6. rows[r] # None /\ rows \in [Room -> Row \cup {None}]
  BY DEF Readable, IInv, TypeOK
<1> QED
  BY <1>1, <1>4, <1>5, <1>6 DEF RoomsKept, Kept

LEMMA RoomStepsF ==
  ASSUME IInv, FInv, NEW r \in Room, JoinRoom(r) \/ Maintain(r) \/ Expire(r)
  PROVE  FInv'
<1>1. ASSUME JoinRoom(r) PROVE FInv'
  BY <1>1, EmittedRoomsKept, QuietF DEF JoinRoom, EventRooms
<1>2. ASSUME Maintain(r) PROVE FInv'
  BY <1>2, EmittedRoomsKept, QuietF DEF Maintain
<1>3. ASSUME Expire(r) PROVE FInv'
  <2>1. RoomsKept
    BY <1>3 DEF Expire, RoomsKept, Kept, IInv, TypeOK
  <2> QED
    BY <1>3, <2>1, QuietF DEF Expire
<1> QED
  BY <1>1, <1>2, <1>3

LEMMA IdleStepsF ==
  ASSUME IInv, FInv, Rejected \/ Tick \/ UNCHANGED vars
  PROVE  FInv'
<1>1. RoomsKept
  BY DEF RoomsKept, Kept, Rejected, Tick, vars
<1> QED
  BY <1>1, QuietF DEF Rejected, Tick, vars

LEMMA NextFInv == IInv /\ FInv /\ [Next]_vars => FInv'
<1> SUFFICES ASSUME IInv, FInv, [Next]_vars PROVE FInv'
  OBVIOUS
<1>1. ASSUME NEW a \in Admin, NEW x \in Exam, CreateProblem(a, x) \/ UpdateProblem(a, x)
      PROVE  FInv'
  <2>1. PICK s \in Settings : s = table[x]
    BY <1>1 DEF CreateProblem, UpdateProblem, IInv, TypeOK, Known
  <2>2. Written(a, x, "problem", s)
    BY <1>1, <2>1 DEF CreateProblem, UpdateProblem
  <2> QED
    BY <2>1, <2>2, WriteF
<1>2. ASSUME NEW a \in Admin, NEW x \in Exam, NEW s \in Settings, CreateExam(a, x, s)
      PROVE  FInv'
  BY <1>2, WriteF DEF CreateExam
<1>3. ASSUME NEW a \in Admin, NEW x \in Exam, NEW s \in Settings, UpdateExamSettings(a, x, s)
      PROVE  FInv'
  BY <1>3, WriteF DEF UpdateExamSettings
<1>4. CASE Rejected \/ Tick \/ UNCHANGED vars
  BY <1>4, IdleStepsF
<1>5. ASSUME NEW r \in Room, JoinRoom(r) \/ Maintain(r) \/ Expire(r) PROVE FInv'
  BY <1>5, RoomStepsF
<1> QED
  BY <1>1, <1>2, <1>3, <1>4, <1>5, ReadF, AssignF, ListF, AnswerF, FailF, ChangeF, EndF, BeginF,
     OpenF, RestartF, SeedF DEF Next

(* The catalogue and the rooms are always as some request still has to     *)
(* leave them, or already as the table says.                               *)
THEOREM FollowsAlways == Spec => []FInv
<1>1. IInv /\ IInv' /\ FInv /\ [Next]_vars => FInv'
  BY NextFInv
<1> QED BY <1>1, InitFInv, InvariantHolds, PTL DEF Spec

(* When no request is under way, the catalogue and every open room of an   *)
(* active exam have the settings of the table, but for torn exams.         *)
THEOREM RoomsAlwaysFollow == Spec => []RoomsFollowSettings
<1>1. IInv /\ FInv => RoomsFollowSettings
  <2> SUFFICES ASSUME IInv, FInv, \A a \in Admin : req[a] = Idle, NEW x \in Exam \ torn
               PROVE  /\ cached[x] = ActiveExams[x]
                      /\ \A r \in EventRooms(x) :
                           rows[r].limit = table[x].limit /\ rows[r].freeze = table[x].freeze
    BY DEF RoomsFollowSettings
  <2>1. \A a \in Admin : ~Writing(a)
    BY NoneAssumption DEF Writing, Idle
  <2>2. Follows(x)
    BY DEF FInv
  <2>3. cached[x] = ActiveExams[x]
    BY <2>1, <2>2 DEF Follows, Writer
  <2>4. \A r \in Room : Fits(r, x) \/ ActiveExams[x] = None
    BY <2>1, <2>2 DEF Follows, Due, Writer
  <2> QED
    BY <2>3, <2>4 DEF EventRooms, Readable, Fits, RoomOf
<1> QED BY <1>1, InvariantHolds, FollowsAlways, PTL
-----------------------------------------------------------------------------
(* The editor.                                                             *)
Form    == {NoForm} \cup [of : ExamId \X Number, text : Text]
Page    == [copy : Tables, exam : Optional(ExamId), problem : Optional(Number), form : Form,
            settings : Optional(Text)]
ExamAnswer == [settings : Text, problems : [Number -> Optional(Text)]]
Kind    == {"load", "problem", "settings", "addProblem", "addExam", "asset"}
Stage   == {"sent", "written", "answered"}
Sent    == [kind : Optional(Kind), stage : Optional(Stage), exam : Optional(ExamId),
            number : Optional(Number), value : Optional(Text) \cup Tables \cup ExamAnswer]

(* What each kind of request carries.                                      *)
CallOK(q) ==
  /\ q.kind = "load" /\ q.stage = "answered" => q.value \in Tables
  /\ q.kind \in {"problem", "settings", "addProblem", "addExam"} => q.exam \in ExamId
  /\ q.kind \in {"problem", "addProblem", "addExam"} => q.value \in Text
  /\ q.kind = "problem" => q.number \in Number
  /\ q.kind = "settings" => q.value \in (IF q.stage = "answered" THEN ExamAnswer ELSE Text)
  /\ q.kind = "addProblem" => (q.number \in (IF q.stage = "answered" THEN Number ELSE {Missing}))
  /\ q.kind \in {"settings", "addExam"} => q.number = Missing

SettingsOn(p) == SelectedExam(p) # Missing => p.settings # Missing
Belongs(p)    == IF SelectedProblem(p) = Missing THEN p.form = NoForm ELSE p.form.of = Selected(p)

EditorTyped ==
  /\ tables \in Tables /\ Whole(tables)
  /\ page \in Page /\ SettingsOn(page)
  /\ calls \in [Call -> Sent] /\ \A c \in Call : CallOK(calls[c])
  /\ doubt \in BOOLEAN /\ strayed \in BOOLEAN

(* Rows are never removed: what a copy or a request names is still there.  *)
Within(t, u) ==
  \A x \in ExamId :
    /\ t.settings[x] # Missing => u.settings[x] # Missing
    /\ \A n \in Number : t.problems[x][n] # Missing => u.problems[x][n] # Missing

CallWithin(q, u) ==
  /\ q.kind = "load" /\ q.stage = "answered" => Within(q.value, u)
  /\ q.kind = "problem" => u.problems[q.exam][q.number] # Missing
  /\ q.kind \in {"settings", "addProblem"} => u.settings[q.exam] # Missing
  /\ q.kind = "settings" /\ q.stage = "answered" =>
       \A n \in Number : q.value.problems[n] # Missing => u.problems[q.exam][n] # Missing
  /\ q.kind = "addProblem" /\ q.stage = "answered" => u.problems[q.exam][q.number] # Missing
  /\ q.kind = "addExam" /\ q.stage = "answered" => u.settings[q.exam] # Missing

EditorInv ==
  /\ EditorTyped /\ FormBelongs
  /\ Within(page.copy, tables) /\ \A c \in Call : CallWithin(calls[c], tables)
-----------------------------------------------------------------------------
(* A set of numbers has a least and, within bounds, a largest member.      *)
LEMMA LeastOf ==
  ASSUME NEW S \in SUBSET Nat, S # {}
  PROVE  Min(S) \in S /\ \A j \in S : Min(S) <= j
<1> DEFINE R == OpToRel(<, Nat)
<1>1. IsWellFoundedOn(R, Nat)
  BY NatLessThanWellFounded
<1>2. \A i, j \in Nat : i < j => <<i, j>> \in R
  BY DEF OpToRel
<1> HIDE DEF R
<1>3. PICK i \in S : \A j \in S : ~ (<<j, i>> \in R)
  BY <1>1, WFMin
<1>4. \A j \in S : ~ (j < i)
  BY <1>2, <1>3
<1>5. \A j \in S : i <= j
  BY <1>4
<1> QED
  BY <1>5 DEF Min

LEMMA LargestOf ==
  ASSUME NEW bound \in Nat, NEW S \in SUBSET (0 .. bound), S # {}
  PROVE  Max(S) \in S /\ \A j \in S : j <= Max(S)
<1> DEFINE D == {bound - j : j \in S}
<1>1. \A j \in S : j \in Nat /\ bound - j \in Nat
  OBVIOUS
<1>2. D \in SUBSET Nat /\ D # {}
  BY <1>1
<1>3. Min(D) \in D /\ \A d \in D : Min(D) <= d
  <2> HIDE DEF D
  <2> QED
    BY <1>2, LeastOf
<1>4. PICK i \in S : Min(D) = bound - i
  BY <1>3
<1>5. ASSUME NEW j \in S PROVE j <= i
  <2>1. bound - i <= bound - j
    BY <1>3, <1>4
  <2>2. i \in Nat /\ j \in Nat
    BY <1>1
  <2> QED
    BY ONLY <2>1, <2>2, bound \in Nat
<1> QED
  BY <1>1, <1>5 DEF Max

(* What is selected is there, or nothing is.                               *)
LEMMA OneOfIs ==
  ASSUME NEW id, NEW ids \in SUBSET Nat
  PROVE  /\ OneOf(id, ids) \in ids \/ (ids = {} /\ OneOf(id, ids) = Missing)
         /\ OneOf(OneOf(id, ids), ids) = OneOf(id, ids)
BY LeastOf DEF OneOf

LEMMA SelectedIs ==
  ASSUME NEW p
  PROVE  /\ SelectedExam(p) \in ExamsOf(p) \/ (ExamsOf(p) = {} /\ SelectedExam(p) = Missing)
         /\ \/ SelectedProblem(p) = Missing
            \/ SelectedExam(p) \in ExamsOf(p) /\ SelectedProblem(p) \in ProblemsOf(p, SelectedExam(p))
         /\ ExamsOf(p) \subseteq ExamId /\ Missing \notin ExamId /\ Missing \notin Number
         /\ \A x : ProblemsOf(p, x) \subseteq Number
<1>1. /\ ExamsOf(p) \in SUBSET Nat /\ \A x : ProblemsOf(p, x) \in SUBSET Nat
      /\ Missing \notin ExamId /\ Missing \notin Number
  BY EditorAssumption DEF ExamsOf, ProblemsOf, ExamId, Number
<1>2. SelectedExam(p) \in ExamsOf(p) \/ (ExamsOf(p) = {} /\ SelectedExam(p) = Missing)
  BY <1>1, OneOfIs DEF SelectedExam
<1>3. \/ SelectedProblem(p) = Missing
      \/ SelectedExam(p) # Missing /\ SelectedProblem(p) \in ProblemsOf(p, SelectedExam(p))
  BY <1>1, OneOfIs DEF SelectedProblem
<1> QED
  BY <1>1, <1>2, <1>3 DEF ExamsOf, ProblemsOf

(* A form that is made is made from the selected problem.                  *)
LEMMA MadeForm ==
  ASSUME NEW p \in Page
  PROVE  MakeForm(p) \in Form /\ (SelectedProblem(p) # Missing => MakeForm(p).of = Selected(p))
         /\ (SelectedProblem(p) = Missing => MakeForm(p) = NoForm)
<1>1. CASE SelectedProblem(p) = Missing
  BY <1>1 DEF MakeForm, Form
<1>2. CASE SelectedProblem(p) # Missing
  <2>1. PICK x \in ExamId, n \in Number :
          x = SelectedExam(p) /\ n = SelectedProblem(p) /\ p.copy.problems[x][n] # Missing
    BY <1>2, SelectedIs DEF ProblemsOf
  <2>2. p.copy.problems[x][n] \in Text
    BY <2>1 DEF Page, Tables, Optional
  <2>3. MakeForm(p) = [of |-> <<x, n>>, text |-> p.copy.problems[x][n]]
    BY <1>2, <2>1 DEF MakeForm, Selected
  <2> QED
    BY <1>2, <2>1, <2>2, <2>3 DEF Form, Selected
<1> QED
  BY <1>1, <1>2

(* A render keeps the page typed and the form with what is selected.       *)
LEMMA RenderedOK ==
  ASSUME page \in Page, SettingsOn(page), NEW new \in Page, NEW kept \in BOOLEAN,
         Rendered(new, kept), page.settings # Missing => new.settings # Missing,
         ~kept /\ Selected(new) = Selected(page) => Belongs(new)
  PROVE  /\ page' \in Page /\ page'.copy = new.copy /\ SettingsOn(page')
         /\ strayed' \in BOOLEAN /\ (~strayed' => Belongs(page'))
<1>1. PICK form, settings, problem :
        /\ form = FormAfter(page, new) /\ settings = SettingsAfter(page, new)
        /\ problem = (IF SelectedExam(new) = SelectedExam(page) THEN new.problem
                      ELSE SelectedProblem(new))
        /\ page' = [new EXCEPT !.form = form, !.settings = settings, !.problem = problem]
  BY DEF Rendered
<1>2. form \in Form
  BY <1>1, MadeForm DEF FormAfter, Page
<1>3. settings \in Optional(Text) /\ (SelectedExam(new) # Missing => settings # Missing)
  <2>1. PICK x : x = SelectedExam(new)
    OBVIOUS
  <2>2. x = Missing \/ (x \in ExamId /\ new.copy.settings[x] \in Text)
    BY <2>1, SelectedIs DEF ExamsOf, Page, Tables, Optional
  <2>3. x = Missing \/ x # SelectedExam(page) \/ new.settings # Missing
    BY <2>1 DEF SettingsOn
  <2> QED
    BY <1>1, <2>1, <2>2, <2>3, EditorAssumption DEF SettingsAfter, Page, Optional
<1>4. problem \in Optional(Number)
  BY <1>1, SelectedIs DEF Page, Optional
<1>5. /\ page' \in Page /\ page'.copy = new.copy /\ page'.exam = new.exam
      /\ page'.problem = problem /\ page'.form = form /\ page'.settings = settings
  BY <1>1, <1>2, <1>3, <1>4 DEF Page
<1>6. SelectedExam(page') = SelectedExam(new)
  BY <1>5 DEF SelectedExam, ExamsOf
<1>7. SelectedProblem(page') = SelectedProblem(new)
  <2>1. \A x : ProblemsOf(page', x) = ProblemsOf(new, x)
    BY <1>5 DEF ProblemsOf
  <2>2. \A x : ProblemsOf(new, x) \in SUBSET Nat
    BY DEF ProblemsOf, Number
  <2> QED
    BY <1>1, <1>5, <1>6, <2>1, <2>2, OneOfIs DEF SelectedProblem
<1>8. strayed' = (/\ SelectedProblem(new) = SelectedProblem(page)
                  /\ kept \/ SelectedExam(new) # SelectedExam(page))
  BY DEF Rendered
<1>9. ASSUME ~strayed' PROVE Belongs(page')
  <2>1. CASE SelectedProblem(new) = SelectedProblem(page)
    <3>1. ~kept /\ Selected(new) = Selected(page)
      BY <1>8, <1>9, <2>1 DEF Selected
    <3>2. Belongs(new) /\ form = new.form
      BY <1>1, <2>1, <3>1 DEF FormAfter
    <3> QED
      BY <1>5, <1>6, <1>7, <3>2 DEF Belongs, Selected
  <2>2. CASE SelectedProblem(new) # SelectedProblem(page)
    <3>1. form = MakeForm(new)
      BY <1>1, <2>2 DEF FormAfter
    <3> QED
      BY <1>5, <1>6, <1>7, <3>1, MadeForm DEF Belongs, Selected
  <2> QED
    BY <2>1, <2>2
<1>10. SettingsOn(page')
  BY <1>3, <1>5, <1>6 DEF SettingsOn
<1>11. strayed' \in BOOLEAN
  BY <1>8
<1> QED
  BY <1>5, <1>9, <1>10, <1>11
-----------------------------------------------------------------------------
(* Rows stay: what was there before a step is there after it.              *)
LEMMA WithinGrows ==
  ASSUME NEW t, NEW u, NEW v, Within(t, u), Within(u, v)
  PROVE  Within(t, v)
BY DEF Within

LEMMA CallWithinGrows ==
  ASSUME NEW q, CallOK(q), NEW u, NEW v, CallWithin(q, u), Within(u, v)
  PROVE  CallWithin(q, v)
BY WithinGrows DEF CallWithin, CallOK, Within

LEMMA NoCallOK ==
  /\ NoCall \in Sent /\ CallOK(NoCall) /\ (\A u : CallWithin(NoCall, u))
  /\ NoCall.kind = Missing /\ Missing \notin Kind
BY EditorAssumption DEF NoCall, Sent, CallOK, CallWithin, Optional, Kind

(* A step that keeps the types, the rows and the form, and changes at most *)
(* one request.                                                            *)
LEMMA EditorStep ==
  ASSUME EditorInv,
         tables' \in Tables, Whole(tables'), Within(tables, tables'),
         page' \in Page, SettingsOn(page'), Within(page'.copy, tables'),
         ~strayed' => Belongs(page'), strayed' \in BOOLEAN, doubt' \in BOOLEAN,
         NEW c \in Call, NEW r \in Sent, CallOK(r), CallWithin(r, tables'),
         calls' = [calls EXCEPT ![c] = r] \/ calls' = calls
  PROVE  EditorInv'
<1>1. calls \in [Call -> Sent] /\ \A d \in Call : CallOK(calls[d]) /\ CallWithin(calls[d], tables)
  BY DEF EditorInv, EditorTyped
<1>2. calls' \in [Call -> Sent]
  BY <1>1
<1>3. \A d \in Call : CallOK(calls'[d]) /\ CallWithin(calls'[d], tables')
  <2>1. \A d \in Call : calls'[d] = calls[d] \/ calls'[d] = r
    BY <1>1
  <2> QED
    BY <1>1, <2>1, CallWithinGrows
<1>4. FormBelongs'
  BY DEF FormBelongs, Belongs, Selected
<1> QED
  BY <1>2, <1>3, <1>4 DEF EditorInv, EditorTyped, SettingsOn, SelectedExam, ExamsOf

-----------------------------------------------------------------------------
(* The requests that are under way, and what their answers say.            *)
Staged(q) ==
  \/ q = NoCall
  \/ q.kind \in Kind /\ q.stage \in (IF q.kind = "settings" THEN Stage ELSE {"sent", "answered"})

AnswerTrue(q, u) ==
  q.stage = "answered" =>
    /\ q.kind = "load" => q.value = u
    /\ q.kind \in {"problem", "addProblem"} => q.value = u.problems[q.exam][q.number]
    /\ q.kind = "settings" => /\ q.value.settings = u.settings[q.exam]
                              /\ q.value.problems = u.problems[q.exam]
    /\ q.kind = "addExam" => /\ q.value = u.settings[q.exam]
                             /\ \A n \in Number : u.problems[q.exam][n] = Missing

(* No two meet, and nothing else is asked about an exam whose insertion is *)
(* on its way back: the page does not show it yet.                         *)
NewExamOf(q, x) == q.kind = "addExam" /\ q.stage = "answered" /\ q.exam = x
Apart(q, r) ==
  /\ q.kind # Missing /\ r.kind # Missing => ~Meet(q, r)
  /\ \A x \in ExamId :
       NewExamOf(q, x) => ~ (r.kind \in {"problem", "settings", "addProblem"} /\ r.exam = x)

(* A row the copy does not have right is on its way in an answer.          *)
BringsSettings(q, x)   == NewExamOf(q, x) \/ (q.kind = "settings" /\ q.stage # "sent" /\ q.exam = x)
BringsProblem(q, x, n) ==
  q.kind \in {"problem", "addProblem"} /\ q.stage = "answered" /\ q.exam = x /\ q.number = n

CopyTrue ==
  \/ \E c \in Call : calls[c].kind = "load"
  \/ \A x \in ExamId :
       /\ page.copy.settings[x] = tables.settings[x] \/ \E c \in Call : BringsSettings(calls[c], x)
       /\ \A n \in Number : \/ page.copy.problems[x][n] = tables.problems[x][n]
                            \/ \E c \in Call : BringsProblem(calls[c], x, n)

Sure ==
  /\ \A c, d \in Call : c # d => Apart(calls[c], calls[d])
  /\ \A c \in Call : /\ AnswerTrue(calls[c], tables)
                     /\ \A x \in ExamId : NewExamOf(calls[c], x) => page.copy.settings[x] = Missing
  /\ CopyTrue

CopyInv == (\A c \in Call : Staged(calls[c])) /\ (~doubt => Sure)

(* A request stays apart from another while kind and row stay.             *)
LEMMA ApartSame ==
  ASSUME NEW q, NEW r, NEW s, Apart(q, s), Apart(s, q),
         r.kind = q.kind, r.exam = q.exam, r.number = q.number,
         \A x \in ExamId : NewExamOf(r, x) => NewExamOf(q, x)
  PROVE  Apart(r, s) /\ Apart(s, r)
BY DEF Apart, Meet

(* A step of one request, from q to r: the others stay apart and true, the *)
(* rows the copy has wrong are on their way.                               *)
OthersStay(c, r) ==
  \A d \in Call \ {c} :
    /\ Apart(r, calls[d]) /\ Apart(calls[d], r) /\ AnswerTrue(calls[d], tables')
    /\ \A x \in ExamId : NewExamOf(calls[d], x) => page'.copy.settings[x] = Missing

AnswerStays(q, r) ==
  /\ Staged(r) /\ AnswerTrue(r, tables')
  /\ \A x \in ExamId : NewExamOf(r, x) => page'.copy.settings[x] = Missing
  /\ q.kind = "load" => r.kind = "load" \/ page'.copy = tables'

RowsStay(q, r) ==
  /\ \A x \in ExamId :
       \/ page'.copy.settings[x] = tables'.settings[x] \/ BringsSettings(r, x)
       \/ /\ page'.copy.settings[x] = page.copy.settings[x]
          /\ tables'.settings[x] = tables.settings[x] /\ ~BringsSettings(q, x)
  /\ \A x \in ExamId, n \in Number :
       \/ page'.copy.problems[x][n] = tables'.problems[x][n] \/ BringsProblem(r, x, n)
       \/ /\ page'.copy.problems[x][n] = page.copy.problems[x][n]
          /\ tables'.problems[x][n] = tables.problems[x][n] /\ ~BringsProblem(q, x, n)

LEMMA SureStep ==
  ASSUME CopyInv, ~doubt, calls \in [Call -> Sent], NEW c \in Call, NEW q, NEW r,
         q = calls[c], calls' = [calls EXCEPT ![c] = r],
         OthersStay(c, r), AnswerStays(q, r), RowsStay(q, r)
  PROVE  CopyInv'
<1>1. calls'[c] = r /\ \A d \in Call \ {c} : calls'[d] = calls[d]
  OBVIOUS
<1>2. Sure
  BY DEF CopyInv
<1>3. \A d \in Call : Staged(calls'[d])
  BY <1>1 DEF CopyInv, AnswerStays
<1>4. \A d, e \in Call : d # e => Apart(calls'[d], calls'[e])
  BY <1>1, <1>2 DEF Sure, OthersStay
<1>5. \A d \in Call :
        /\ AnswerTrue(calls'[d], tables')
        /\ \A x \in ExamId : NewExamOf(calls'[d], x) => page'.copy.settings[x] = Missing
  BY <1>1 DEF OthersStay, AnswerStays
<1>6. CopyTrue'
  <2>1. CASE \E d \in Call : calls[d].kind = "load"
    <3>1. PICK d \in Call : calls[d].kind = "load"
      BY <2>1
    <3>2. calls'[d].kind = "load" \/ page'.copy = tables'
      BY <1>1, <3>1 DEF AnswerStays
    <3> QED
      BY <3>2 DEF CopyTrue
  <2>2. CASE ~ \E d \in Call : calls[d].kind = "load"
    <3>1. \A x \in ExamId :
            /\ page.copy.settings[x] = tables.settings[x] \/ \E d \in Call : BringsSettings(calls[d], x)
            /\ \A n \in Number : \/ page.copy.problems[x][n] = tables.problems[x][n]
                                 \/ \E d \in Call : BringsProblem(calls[d], x, n)
      BY <1>2, <2>2 DEF Sure, CopyTrue
    <3>2. ASSUME NEW x \in ExamId
          PROVE  \/ page'.copy.settings[x] = tables'.settings[x]
                 \/ \E d \in Call : BringsSettings(calls'[d], x)
      BY <1>1, <3>1 DEF RowsStay
    <3>3. ASSUME NEW x \in ExamId, NEW n \in Number
          PROVE  \/ page'.copy.problems[x][n] = tables'.problems[x][n]
                 \/ \E d \in Call : BringsProblem(calls'[d], x, n)
      BY <1>1, <3>1 DEF RowsStay
    <3> QED
      BY <3>2, <3>3 DEF CopyTrue
  <2> QED
    BY <2>1, <2>2
<1> QED
  BY <1>3, <1>4, <1>5, <1>6 DEF CopyInv, Sure

(* Nothing the copy or the tables hold changes.                            *)
LEMMA QuietStep ==
  ASSUME CopyInv, ~doubt, calls \in [Call -> Sent], NEW c \in Call, NEW q, NEW r,
         q = calls[c], calls' = [calls EXCEPT ![c] = r], Staged(r),
         tables' = tables, page'.copy = page.copy,
         \A d \in Call \ {c} : Apart(r, calls[d]) /\ Apart(calls[d], r),
         AnswerTrue(r, tables), \A x \in ExamId : NewExamOf(r, x) => NewExamOf(q, x),
         q.kind = "load" => r.kind = "load",
         \A x \in ExamId : BringsSettings(q, x) => BringsSettings(r, x),
         \A x \in ExamId, n \in Number : BringsProblem(q, x, n) => BringsProblem(r, x, n)
  PROVE  CopyInv'
<1>1. Sure
  BY DEF CopyInv
<1>2. OthersStay(c, r)
  BY <1>1 DEF Sure, OthersStay
<1>3. AnswerStays(q, r)
  BY <1>1 DEF Sure, AnswerStays
<1>4. RowsStay(q, r)
  BY DEF RowsStay
<1> QED
  BY <1>2, <1>3, <1>4, SureStep

(* What every step does: it keeps both.                                    *)
EditorKept == EditorInv' /\ (CopyInv => CopyInv')
-----------------------------------------------------------------------------
(* Selections and typing.                                                  *)
LEMMA OnPageInv ==
  ASSUME EditorInv, NEW new \in Page, NEW kept \in BOOLEAN, OnPage(new, kept),
         new.copy = page.copy, page.settings # Missing => new.settings # Missing,
         ~kept /\ Selected(new) = Selected(page) => Belongs(new)
  PROVE  EditorKept
<1>1. /\ page' \in Page /\ page'.copy = new.copy /\ SettingsOn(page')
      /\ strayed' \in BOOLEAN /\ (~strayed' => Belongs(page'))
  BY RenderedOK DEF OnPage, EditorInv, EditorTyped
<1>2. UNCHANGED <<tables, calls, made, doubt>>
  BY DEF OnPage
<1>3. EditorInv'
  BY <1>1, <1>2 DEF EditorInv, EditorTyped, FormBelongs, Belongs, Selected, SettingsOn, SelectedExam, ExamsOf
<1>4. CopyInv => CopyInv'
  BY <1>1, <1>2 DEF CopyInv, Sure, CopyTrue
<1> QED
  BY <1>3, <1>4 DEF EditorKept

(* Each of the steps at the page.                                          *)
LEMMA PageInv ==
  ASSUME EditorInv,
         \/ \E x \in ExamId : SelectExam(x)
         \/ \E n \in Number : SelectProblem(n)
         \/ \E t \in Text : EditForm(t) \/ EditSettings(t)
         \/ ResetForm
  PROVE  EditorKept
<1>1. /\ page \in Page /\ strayed \in BOOLEAN /\ (~strayed => Belongs(page))
      /\ Missing \notin Text
  BY EditorAssumption DEF EditorInv, EditorTyped, FormBelongs, Belongs
<1>2. ASSUME NEW x \in ExamId, SelectExam(x) PROVE EditorKept
  <2>1. PICK new : new = [page EXCEPT !.exam = x]
    OBVIOUS
  <2>2. /\ new \in Page /\ new.copy = page.copy /\ new.form = page.form
        /\ new.settings = page.settings
    BY <1>1, <2>1 DEF Page, Optional
  <2>3. ~strayed /\ Selected(new) = Selected(page) => Belongs(new)
    BY <1>1, <2>2 DEF Belongs, Selected
  <2> QED
    BY <1>1, <1>2, <2>1, <2>2, <2>3, OnPageInv DEF SelectExam
<1>3. ASSUME NEW n \in Number, SelectProblem(n) PROVE EditorKept
  <2>1. PICK new : new = [page EXCEPT !.problem = n]
    OBVIOUS
  <2>2. /\ new \in Page /\ new.copy = page.copy /\ new.form = page.form
        /\ new.settings = page.settings
    BY <1>1, <2>1 DEF Page, Optional
  <2>3. ~strayed /\ Selected(new) = Selected(page) => Belongs(new)
    BY <1>1, <2>2 DEF Belongs, Selected
  <2> QED
    BY <1>1, <1>3, <2>1, <2>2, <2>3, OnPageInv DEF SelectProblem
<1>4. ASSUME NEW t \in Text, EditForm(t) PROVE EditorKept
  <2>1. PICK new : new = [page EXCEPT !.form.text = t]
    OBVIOUS
  <2>2. page.form # NoForm /\ page.form \in [of : ExamId \X Number, text : Text]
    BY <1>1, <1>4 DEF EditForm, Page, Form
  <2>3. PICK form : form = [page.form EXCEPT !.text = t]
    OBVIOUS
  <2>4. form \in Form /\ form.of = page.form.of
    BY <2>2, <2>3 DEF Form
  <2>5. new = [page EXCEPT !.form = form]
    BY <2>1, <2>3
  <2>6. /\ new \in Page /\ new.copy = page.copy /\ new.form = form
        /\ new.settings = page.settings
    BY <1>1, <2>4, <2>5 DEF Page
  <2>7. ~strayed /\ Selected(new) = Selected(page) => Belongs(new)
    BY <1>1, <2>2, <2>4, <2>6 DEF Belongs, Selected
  <2> QED
    BY <1>1, <1>4, <2>1, <2>6, <2>7, OnPageInv DEF EditForm
<1>5. ASSUME NEW t \in Text, EditSettings(t) PROVE EditorKept
  <2>1. PICK new : new = [page EXCEPT !.settings = t]
    OBVIOUS
  <2>2. /\ new \in Page /\ new.copy = page.copy /\ new.form = page.form
        /\ new.settings # Missing
    BY <1>1, <2>1 DEF Page, Optional
  <2>3. ~strayed /\ Selected(new) = Selected(page) => Belongs(new)
    BY <1>1, <2>2 DEF Belongs, Selected
  <2> QED
    BY <1>1, <1>5, <2>1, <2>2, <2>3, OnPageInv DEF EditSettings
<1>6. ASSUME ResetForm PROVE EditorKept
  <2>1. PICK new : new = [page EXCEPT !.form = MakeForm(page)]
    OBVIOUS
  <2>2. /\ new \in Page /\ new.copy = page.copy /\ new.form = MakeForm(page)
        /\ new.settings = page.settings
    BY <1>1, <2>1, MadeForm DEF Page
  <2>3. Selected(new) = Selected(page) => Belongs(new)
    BY <1>1, <2>2, MadeForm DEF Belongs, Selected
  <2> QED
    BY <1>6, <2>1, <2>2, <2>3, OnPageInv DEF ResetForm
<1> QED
  BY <1>2, <1>3, <1>4, <1>5, <1>6

-----------------------------------------------------------------------------
(* Requests are sent with what is selected and typed.                      *)
(* What a request that is sent looks like.                                 *)
Asked(q) ==
  /\ q \in Sent /\ q.stage = Missing /\ q.kind \in Kind
  /\ CallOK([q EXCEPT !.stage = "sent"]) /\ CallWithin([q EXCEPT !.stage = "sent"], tables)
  /\ q.kind \in {"problem", "settings", "addProblem"} =>
       q.exam \in ExamId /\ page.copy.settings[q.exam] # Missing

SamePage ==
  /\ page' \in Page /\ page'.copy = page.copy /\ page'.exam = page.exam
  /\ page'.problem = page.problem /\ page'.form = page.form
  /\ page'.settings = page.settings \/ page'.settings # Missing

LEMMA SendStep ==
  ASSUME EditorInv, NEW c \in Call, NEW q, Asked(q), Send(c, q), SamePage
  PROVE  EditorInv'
<1>0. /\ q \in Sent /\ q.stage = Missing /\ q.kind \in Kind
      /\ CallOK([q EXCEPT !.stage = "sent"]) /\ CallWithin([q EXCEPT !.stage = "sent"], tables)
      /\ page' \in Page /\ page'.copy = page.copy /\ page'.exam = page.exam
      /\ page'.problem = page.problem /\ page'.form = page.form
      /\ page'.settings = page.settings \/ page'.settings # Missing
  BY DEF Asked, SamePage
<1>1. PICK r : r = [q EXCEPT !.stage = "sent"]
  OBVIOUS
<1>2. r \in Sent
  BY <1>0, <1>1 DEF Sent, Optional, Stage
<1>3. /\ calls' = [calls EXCEPT ![c] = r] /\ tables' = tables /\ strayed' = strayed
      /\ doubt' \in BOOLEAN
  BY <1>0, <1>1 DEF Send, EditorInv, EditorTyped
<1>4. /\ SelectedExam(page') = SelectedExam(page)
      /\ SelectedProblem(page') = SelectedProblem(page)
  BY <1>0 DEF SelectedExam, SelectedProblem, ExamsOf, ProblemsOf
<1>5. SettingsOn(page') /\ (~strayed' => Belongs(page'))
  BY <1>0, <1>3, <1>4 DEF EditorInv, EditorTyped, SettingsOn, FormBelongs, Belongs, Selected
<1>6. Within(page'.copy, tables') /\ Within(tables, tables')
  BY <1>0, <1>3 DEF EditorInv, Within
<1>7. tables' \in Tables /\ Whole(tables') /\ strayed' \in BOOLEAN
  BY <1>3 DEF EditorInv, EditorTyped
<1>8. CallOK(r) /\ CallWithin(r, tables')
  BY <1>0, <1>1, <1>3
<1> QED
  BY <1>0, <1>2, <1>3, <1>5, <1>6, <1>7, <1>8, EditorStep

(* What is selected is in the tables.                                      *)
LEMMA Selection ==
  ASSUME EditorInv, NEW x, x = SelectedExam(page), x # Missing
  PROVE  /\ x \in ExamId /\ page.copy.settings[x] # Missing
         /\ tables.settings[x] # Missing /\ page.settings \in Text
         /\ SelectedProblem(page) # Missing =>
              SelectedProblem(page) \in Number /\ tables.problems[x][SelectedProblem(page)] # Missing
<1>1. x \in ExamId /\ page.copy.settings[x] # Missing
  BY SelectedIs DEF ExamsOf
<1>2. tables.settings[x] # Missing
  BY <1>1 DEF EditorInv, Within
<1>3. page.settings \in Text
  BY DEF EditorInv, EditorTyped, SettingsOn, Page, Optional
<1>4. ASSUME SelectedProblem(page) # Missing
      PROVE  SelectedProblem(page) \in Number /\ tables.problems[x][SelectedProblem(page)] # Missing
  BY <1>1, <1>4, SelectedIs DEF ProblemsOf, EditorInv, Within
<1> QED
  BY <1>1, <1>2, <1>3, <1>4

(* Every request is sent with what is selected and typed.                  *)
LEMMA Sends ==
  ASSUME EditorInv, NEW c \in Call,
         \/ LoadExams(c) \/ SaveProblem(c) \/ SaveExamSettings(c) \/ AskForProblem(c)
         \/ UploadSvgAsset(c)
         \/ \E t \in Text : ToggleExamActive(c, t) \/ \E x \in ExamId : AskForExam(c, x, t)
  PROVE  \E q : Asked(q) /\ Send(c, q) /\ SamePage
<1>1. /\ NoCall \in Sent /\ NoCall.stage = Missing /\ NoCall.kind = Missing
      /\ NoCall.number = Missing /\ NoCall.exam = Missing /\ NoCall.value = Missing
  BY NoCallOK DEF NoCall
<1>2. page \in Page /\ Missing \notin Text
  BY EditorAssumption DEF EditorInv, EditorTyped
<1>3. UNCHANGED page => SamePage
  BY <1>2 DEF SamePage
<1>4. CASE LoadExams(c)
  <2>1. PICK q : q = [NoCall EXCEPT !.kind = "load"]
    OBVIOUS
  <2>2. q \in Sent /\ q.stage = Missing /\ q.kind = "load"
    BY <1>1, <2>1 DEF Sent, Kind, Optional
  <2>3. Asked(q)
    BY <2>2 DEF CallOK, CallWithin, Sent, Asked, Kind
  <2> QED
    BY <1>3, <1>4, <2>1, <2>3 DEF LoadExams
<1>5. CASE SaveProblem(c)
  <2>1. PICK x, n, t : x = SelectedExam(page) /\ n = SelectedProblem(page) /\ t = page.form.text
    OBVIOUS
  <2>2. n # Missing /\ page.form # NoForm
    BY <1>5, <2>1 DEF SaveProblem, Dirty
  <2>3. x # Missing
    BY <2>1, <2>2 DEF SelectedProblem
  <2>4. /\ x \in ExamId /\ n \in Number /\ t \in Text /\ tables.problems[x][n] # Missing
        /\ page.copy.settings[x] # Missing
    BY <1>2, <2>1, <2>2, <2>3, Selection DEF Page, Form
  <2>5. PICK q : q = [NoCall EXCEPT !.kind = "problem", !.exam = x, !.number = n, !.value = t]
    OBVIOUS
  <2>6. /\ q \in Sent /\ q.stage = Missing /\ q.kind = "problem" /\ q.exam = x /\ q.number = n
        /\ q.value = t
    BY <1>1, <2>4, <2>5 DEF Sent, Kind, Optional
  <2>7. Asked(q)
    BY <2>4, <2>6 DEF CallOK, CallWithin, Sent, Asked, Kind
  <2> QED
    BY <1>3, <1>5, <2>1, <2>5, <2>7 DEF SaveProblem
<1>6. ASSUME NEW x, x = SelectedExam(page), x # Missing, NEW t \in Text, NEW q,
             q = [NoCall EXCEPT !.kind = "settings", !.exam = x, !.value = t]
      PROVE  Asked(q)
  <2>1. x \in ExamId /\ tables.settings[x] # Missing /\ page.copy.settings[x] # Missing
    BY <1>6, Selection
  <2>2. /\ q \in Sent /\ q.stage = Missing /\ q.kind = "settings" /\ q.exam = x
        /\ q.value = t /\ q.number = Missing
    BY <1>1, <1>6, <2>1 DEF Sent, Kind, Optional
  <2> QED
    BY <2>1, <2>2 DEF CallOK, CallWithin, Sent, Kind, Asked
<1>7. CASE SaveExamSettings(c)
  <2>1. PICK x, t : x = SelectedExam(page) /\ t = page.settings
    OBVIOUS
  <2>2. x # Missing /\ t \in Text
    BY <1>7, <2>1, Selection DEF SaveExamSettings
  <2>3. PICK q : q = [NoCall EXCEPT !.kind = "settings", !.exam = x, !.value = t]
    OBVIOUS
  <2>4. Asked(q)
    BY <1>6, <2>1, <2>2, <2>3
  <2> QED
    BY <1>3, <1>7, <2>1, <2>3, <2>4 DEF SaveExamSettings
<1>8. ASSUME NEW t \in Text, ToggleExamActive(c, t) PROVE \E q : Asked(q) /\ Send(c, q) /\ SamePage
  <2>1. PICK x : x = SelectedExam(page)
    OBVIOUS
  <2>2. x # Missing /\ page' = [page EXCEPT !.settings = t]
    BY <1>8, <2>1 DEF ToggleExamActive
  <2>3. SamePage
    BY <1>2, <2>2 DEF Page, Optional, SamePage
  <2>4. PICK q : q = [NoCall EXCEPT !.kind = "settings", !.exam = x, !.value = t]
    OBVIOUS
  <2>5. Asked(q)
    BY <1>6, <2>1, <2>2, <2>4
  <2>6. Send(c, q)
    BY <1>8, <2>1, <2>4 DEF ToggleExamActive
  <2> QED
    BY <2>3, <2>5, <2>6
<1>9. CASE AskForProblem(c)
  <2>1. PICK x : x = SelectedExam(page)
    OBVIOUS
  <2>2. x # Missing
    BY <1>9, <2>1 DEF AskForProblem
  <2>3. /\ x \in ExamId /\ tables.settings[x] # Missing /\ NewText \in Text
        /\ page.copy.settings[x] # Missing
    BY <2>1, <2>2, Selection, EditorAssumption
  <2>4. PICK q : q = [NoCall EXCEPT !.kind = "addProblem", !.exam = x, !.value = NewText]
    OBVIOUS
  <2>5. /\ q \in Sent /\ q.stage = Missing /\ q.kind = "addProblem" /\ q.exam = x
        /\ q.value = NewText /\ q.number = Missing
    BY <1>1, <2>3, <2>4 DEF Sent, Kind, Optional
  <2>6. Asked(q)
    BY <2>3, <2>5 DEF CallOK, CallWithin, Sent, Asked, Kind
  <2> QED
    BY <1>3, <1>9, <2>1, <2>4, <2>6 DEF AskForProblem
<1>10. CASE UploadSvgAsset(c)
  <2>1. PICK x : x = SelectedExam(page)
    OBVIOUS
  <2>2. x \in Optional(ExamId)
    BY <2>1, SelectedIs DEF Optional
  <2>3. PICK q : q = [NoCall EXCEPT !.kind = "asset", !.exam = x]
    OBVIOUS
  <2>4. q \in Sent /\ q.stage = Missing /\ q.kind = "asset"
    BY <1>1, <2>2, <2>3 DEF Sent, Kind, Optional
  <2>5. Asked(q)
    BY <2>4 DEF CallOK, CallWithin, Sent, Asked, Kind
  <2> QED
    BY <1>3, <1>10, <2>1, <2>3, <2>5 DEF UploadSvgAsset
<1>11. ASSUME NEW t \in Text, NEW x \in ExamId, AskForExam(c, x, t)
       PROVE  \E q : Asked(q) /\ Send(c, q) /\ SamePage
  <2>1. PICK q : q = [NoCall EXCEPT !.kind = "addExam", !.exam = x, !.value = t]
    OBVIOUS
  <2>2. /\ q \in Sent /\ q.stage = Missing /\ q.kind = "addExam" /\ q.exam = x
        /\ q.value = t /\ q.number = Missing
    BY <1>1, <2>1 DEF Sent, Kind, Optional
  <2>3. Asked(q)
    BY <2>2 DEF CallOK, CallWithin, Sent, Asked, Kind
  <2> QED
    BY <1>3, <1>11, <2>1, <2>3 DEF AskForExam
<1> QED
  BY <1>4, <1>5, <1>7, <1>8, <1>9, <1>10, <1>11

(* A request that meets none is away from the others; a load alone starts  *)
(* anew.                                                                   *)
LEMMA SendSure ==
  ASSUME EditorInv, CopyInv, NEW c \in Call, NEW q, Asked(q), Send(c, q), SamePage
  PROVE  CopyInv'
<1>1. PICK r : r = [q EXCEPT !.stage = "sent"]
  OBVIOUS
<1>2. /\ q.kind \in Kind /\ r.kind = q.kind /\ r.exam = q.exam /\ r.stage = "sent"
      /\ (q.kind \in {"problem", "settings", "addProblem"} => page.copy.settings[q.exam] # Missing)
      /\ page'.copy = page.copy /\ Missing \notin Kind
  BY <1>1, NoCallOK DEF Asked, Sent, SamePage
<1>3. /\ calls \in [Call -> Sent] /\ calls' = [calls EXCEPT ![c] = r] /\ calls[c] = NoCall
      /\ tables' = tables
  BY <1>1 DEF Send, EditorInv, EditorTyped
<1>4. Staged(r)
  BY <1>2 DEF Staged, Stage
<1>5. /\ AnswerTrue(r, tables) /\ (\A x \in ExamId : ~NewExamOf(r, x))
      /\ \A x \in ExamId : ~BringsSettings(NoCall, x) /\ \A n \in Number : ~BringsProblem(NoCall, x, n)
      /\ NoCall.kind = Missing /\ Missing # "load"
  BY <1>2, NoCallOK DEF AnswerTrue, NewExamOf, BringsSettings, BringsProblem, NoCall, Kind
<1>6. ASSUME ~doubt, NEW d \in Call \ {c}, calls[d] = NoCall \/ ~Meet(r, calls[d])
      PROVE  Apart(r, calls[d]) /\ Apart(calls[d], r)
  <2>1. calls[d].kind # Missing => ~Meet(r, calls[d]) /\ ~Meet(calls[d], r)
    BY <1>5, <1>6 DEF Meet
  <2>2. \A x \in ExamId : NewExamOf(calls[d], x) => page.copy.settings[x] = Missing
    BY <1>6 DEF CopyInv, Sure
  <2> QED
    BY <1>2, <1>5, <2>1, <2>2 DEF Apart
<1>7. CASE doubt'
  BY <1>3, <1>4, <1>7 DEF CopyInv
<1>8. CASE ~doubt /\ \A d \in Call : calls[d] = NoCall \/ ~Meet(r, calls[d])
  <2>1. \A d \in Call \ {c} : Apart(r, calls[d]) /\ Apart(calls[d], r)
    BY <1>6, <1>8
  <2> QED
    BY <1>2, <1>3, <1>4, <1>5, <1>8, <2>1, QuietStep
<1>9. CASE q.kind = "load" /\ \A d \in Call : calls[d] = NoCall
  <2>1. calls'[c] = r /\ \A d \in Call \ {c} : calls'[d] = NoCall
    BY <1>3, <1>9
  <2>2. \A d \in Call : Staged(calls'[d])
    BY <1>4, <2>1 DEF Staged
  <2>3. /\ \A d \in Call : Apart(NoCall, calls'[d]) /\ Apart(calls'[d], NoCall)
        /\ AnswerTrue(NoCall, tables) /\ \A x \in ExamId : ~NewExamOf(NoCall, x)
    BY <1>2, <1>5, <1>9, <2>1, NoCallOK DEF Apart, AnswerTrue, NewExamOf, NoCall, Kind
  <2>4. CopyTrue'
    BY <1>2, <1>9, <2>1 DEF CopyTrue
  <2> QED
    BY <1>3, <1>5, <2>1, <2>2, <2>3, <2>4 DEF CopyInv, Sure
<1> QED
  <2>1. DEFINE others == {calls[d] : d \in Call} \ {NoCall}
  <2>2. doubt' = (IF q.kind = "load" /\ others = {} THEN FALSE
                  ELSE doubt \/ \E d \in others : Meet(calls'[c], d))
    BY DEF Send
  <2>3. calls'[c] = r
    BY <1>3
  <2>4. CASE q.kind = "load" /\ others = {}
    BY <1>9, <2>4
  <2>5. CASE ~ (q.kind = "load" /\ others = {}) /\ ~doubt'
    BY <1>8, <2>2, <2>3, <2>5
  <2> QED
    BY <1>7, <2>4, <2>5

(* Sending keeps both.                                                     *)
LEMMA SendInv ==
  ASSUME EditorInv, NEW c \in Call,
         \/ LoadExams(c) \/ SaveProblem(c) \/ SaveExamSettings(c) \/ AskForProblem(c)
         \/ UploadSvgAsset(c)
         \/ \E t \in Text : ToggleExamActive(c, t) \/ \E x \in ExamId : AskForExam(c, x, t)
  PROVE  EditorKept
<1>1. PICK q : Asked(q) /\ Send(c, q) /\ SamePage
  BY Sends
<1> QED
  BY <1>1, SendStep, SendSure DEF EditorKept
-----------------------------------------------------------------------------
(* The server's steps: a row is set, never removed, and the request goes on.*)
LEMMA RowSet ==
  ASSUME NEW t \in Tables, Whole(t), NEW x \in ExamId, t.settings[x] # Missing,
         NEW n \in Number, NEW text \in Text, NEW u,
         u = [t EXCEPT !.problems[x][n] = text]
  PROVE  /\ u \in Tables /\ Whole(u) /\ Within(t, u) /\ u.settings = t.settings
         /\ u.problems[x][n] = text /\ \A y \in ExamId : y # x => u.problems[y] = t.problems[y]
         /\ \A y \in ExamId, m \in Number : y # x \/ m # n => u.problems[y][m] = t.problems[y][m]
<1>1. Missing \notin Text
  BY EditorAssumption
<1>2. /\ u \in Tables /\ u.settings = t.settings /\ u.problems[x][n] = text
      /\ \A y \in ExamId : y # x => u.problems[y] = t.problems[y]
      /\ \A y \in ExamId, m \in Number : y # x \/ m # n => u.problems[y][m] = t.problems[y][m]
  BY DEF Tables, Optional
<1>3. Whole(u)
  BY <1>2 DEF Whole
<1>4. Within(t, u)
  BY <1>1, <1>2 DEF Within
<1> QED
  BY <1>2, <1>3, <1>4

LEMMA SettingsSet ==
  ASSUME NEW t \in Tables, Whole(t), NEW x \in ExamId, NEW text \in Text, NEW u,
         u = [t EXCEPT !.settings[x] = text]
  PROVE  /\ u \in Tables /\ Whole(u) /\ Within(t, u) /\ u.problems = t.problems
         /\ u.settings[x] = text
         /\ \A y \in ExamId : y # x => u.settings[y] = t.settings[y]
<1>1. Missing \notin Text
  BY EditorAssumption
<1>2. /\ u \in Tables /\ u.problems = t.problems /\ u.settings[x] = text
      /\ \A y \in ExamId : y # x => u.settings[y] = t.settings[y]
  BY DEF Tables, Optional
<1>3. Whole(u)
  BY <1>1, <1>2 DEF Whole
<1>4. Within(t, u)
  BY <1>1, <1>2 DEF Within
<1> QED
  BY <1>2, <1>3, <1>4

(* A step that moves one request on.                                       *)
LEMMA ServeStep ==
  ASSUME EditorInv, NEW c \in Call, NEW r \in Sent, CallOK(r), CallWithin(r, tables'),
         tables' \in Tables, Whole(tables'), Within(tables, tables'), Reply(c, r)
  PROVE  EditorInv'
<1>1. /\ calls' = [calls EXCEPT ![c] = r] /\ page' = page /\ strayed' = strayed
      /\ doubt' = doubt
  BY DEF Reply
<1>2. /\ page' \in Page /\ SettingsOn(page') /\ (~strayed' => Belongs(page'))
      /\ strayed' \in BOOLEAN /\ doubt' \in BOOLEAN
  BY <1>1 DEF EditorInv, EditorTyped, FormBelongs, Belongs, Selected
<1>3. Within(page'.copy, tables')
  BY <1>1, WithinGrows DEF EditorInv
<1> QED
  BY <1>1, <1>2, <1>3, EditorStep

(* createProblemInDatabase takes a number that no problem has.             *)
LEMMA NewNumber ==
  ASSUME NEW t \in Tables, NEW x \in ExamId, NEW n \in Number,
         n = Max({0} \cup {m \in Number : t.problems[x][m] # Missing}) + 1
  PROVE  t.problems[x][n] = Missing
<1> DEFINE S == {0} \cup {m \in Number : t.problems[x][m] # Missing}
<1>1. MaxNumber \in Nat /\ S \in SUBSET (0 .. MaxNumber) /\ S # {}
  BY EditorAssumption DEF Number
<1>2. Max(S) \in S /\ \A j \in S : j <= Max(S)
  <2> HIDE DEF S
  <2> QED
    BY <1>1, LargestOf
<1>3. PICK m : m = Max(S)
  OBVIOUS
<1>4. m \in 0 .. MaxNumber /\ n = m + 1 /\ \A j \in S : j <= m
  BY <1>1, <1>2, <1>3
<1>5. n \notin S
  <2> HIDE DEF S
  <2>1. m \in Nat /\ n \in Nat /\ ~ (n <= m)
    BY <1>1, <1>4
  <2> QED
    BY <1>4, <2>1
<1> QED
  BY <1>5

(* What the others' answers say stays true when the row of one request is  *)
(* written.                                                                *)
LEMMA RowOthers ==
  ASSUME NEW t, NEW u, NEW x \in ExamId, NEW n \in Number, u.settings = t.settings,
         \A y \in ExamId : y # x => u.problems[y] = t.problems[y],
         \A y \in ExamId, m \in Number : y # x \/ m # n => u.problems[y][m] = t.problems[y][m],
         NEW q, q.kind \in {"problem", "addProblem"}, q.exam = x,
         q.number = n \/ t.problems[x][n] = Missing,
         NEW s, CallOK(s), CallWithin(s, t), AnswerTrue(s, t), Apart(q, s), Apart(s, q)
  PROVE  AnswerTrue(s, u)
<1>1. Missing \notin Kind /\ q.kind # Missing
  BY NoCallOK DEF Kind
<1>2. CASE s.stage # "answered"
  BY <1>2 DEF AnswerTrue
<1>3. ASSUME s.stage = "answered", s.kind = "load" PROVE FALSE
  BY <1>1, <1>3 DEF Apart, Meet, Kind
<1>4. ASSUME s.stage = "answered", s.kind \in {"problem", "addProblem"}
      PROVE  s.value = u.problems[s.exam][s.number]
  <2>1. s.exam \in ExamId /\ s.number \in Number /\ t.problems[s.exam][s.number] # Missing
    BY <1>4 DEF CallOK, CallWithin
  <2>2. s.exam # x \/ s.number # n
    BY <1>1, <1>4, <2>1 DEF Apart, Meet, Kind
  <2> QED
    BY <1>4, <2>1, <2>2 DEF AnswerTrue
<1>5. ASSUME s.stage = "answered", s.kind = "settings"
      PROVE  /\ s.value.settings = u.settings[s.exam]
             /\ s.value.problems = u.problems[s.exam]
  <2>1. s.exam \in ExamId /\ s.exam # x
    BY <1>1, <1>5 DEF CallOK, Apart, Meet, Kind
  <2> QED
    BY <1>5, <2>1 DEF AnswerTrue
<1>6. ASSUME s.stage = "answered", s.kind = "addExam"
      PROVE  /\ s.value = u.settings[s.exam]
             /\ \A m \in Number : u.problems[s.exam][m] = Missing
  <2>1. s.exam \in ExamId /\ s.exam # x
    BY <1>6 DEF CallOK, Apart, NewExamOf
  <2> QED
    BY <1>6, <2>1 DEF AnswerTrue
<1> QED
  BY <1>2, <1>3, <1>4, <1>5, <1>6 DEF AnswerTrue

LEMMA SettingsOthers ==
  ASSUME NEW t, NEW u, NEW x \in ExamId, u.problems = t.problems,
         \A y \in ExamId : y # x => u.settings[y] = t.settings[y],
         NEW q, q.kind \in {"settings", "addExam"}, q.exam = x, q.number = Missing,
         NEW s, CallOK(s), AnswerTrue(s, t), Apart(q, s), Apart(s, q)
  PROVE  AnswerTrue(s, u)
<1>1. Missing \notin Kind /\ q.kind # Missing
  BY NoCallOK DEF Kind
<1>2. CASE s.stage # "answered"
  BY <1>2 DEF AnswerTrue
<1>3. ASSUME s.stage = "answered", s.kind = "load" PROVE FALSE
  BY <1>1, <1>3 DEF Apart, Meet, Kind
<1>4. ASSUME s.stage = "answered", s.kind \in {"settings", "addExam"}
      PROVE  s.exam \in ExamId /\ s.exam # x
  BY <1>1, <1>4 DEF CallOK, Apart, Meet, Kind
<1> QED
  BY <1>2, <1>3, <1>4 DEF AnswerTrue

(* The server's steps leave the copy alone: what they write is on its way. *)
LEMMA ServeSure ==
  ASSUME EditorInv, CopyInv, NEW c \in Call, NEW q, NEW r, q = calls[c], Reply(c, r),
         Staged(r), r.kind = q.kind,
         ~doubt => \A d \in Call \ {c} :
                     Apart(r, calls[d]) /\ Apart(calls[d], r) /\ AnswerTrue(calls[d], tables'),
         AnswerTrue(r, tables'),
         \A x \in ExamId : NewExamOf(r, x) => page.copy.settings[x] = Missing,
         \A x \in ExamId : \/ BringsSettings(r, x)
                           \/ tables'.settings[x] = tables.settings[x] /\ ~BringsSettings(q, x),
         \A x \in ExamId, n \in Number :
           \/ BringsProblem(r, x, n)
           \/ tables'.problems[x][n] = tables.problems[x][n] /\ ~BringsProblem(q, x, n)
  PROVE  CopyInv'
<1>1. /\ calls' = [calls EXCEPT ![c] = r] /\ page' = page /\ doubt' = doubt
      /\ calls \in [Call -> Sent]
  BY DEF Reply, EditorInv, EditorTyped
<1>2. CASE doubt
  BY <1>1, <1>2 DEF CopyInv
<1>3. CASE ~doubt
  <2>1. OthersStay(c, r)
    BY <1>1, <1>3 DEF CopyInv, Sure, OthersStay
  <2>2. AnswerStays(q, r)
    BY <1>1 DEF AnswerStays
  <2>3. RowsStay(q, r)
    BY <1>1 DEF RowsStay
  <2> QED
    BY <1>1, <1>3, <2>1, <2>2, <2>3, SureStep
<1> QED
  BY <1>2, <1>3

(* Each of the server's steps.                                             *)
LEMMA ServeInv ==
  ASSUME EditorInv, NEW c \in Call,
         \/ ServeLoad(c) \/ WriteProblem(c) \/ WriteSettings(c) \/ ReadBack(c)
         \/ InsertProblem(c) \/ InsertExam(c) \/ SaveExamAsset(c)
  PROVE  EditorKept
<1>1. PICK q, t : q = calls[c] /\ t = tables
  OBVIOUS
<1>2. q \in Sent /\ CallOK(q) /\ CallWithin(q, t) /\ t \in Tables /\ Whole(t) /\ Within(t, t)
  BY <1>1 DEF EditorInv, EditorTyped, Within
<1>0. /\ \A d \in Call : CallOK(calls[d]) /\ CallWithin(calls[d], t)
      /\ CopyInv => \A d \in Call : Staged(calls[d])
      /\ CopyInv /\ ~doubt => \A d \in Call : AnswerTrue(calls[d], t)
      /\ CopyInv /\ ~doubt => \A d \in Call \ {c} : Apart(q, calls[d]) /\ Apart(calls[d], q)
  BY <1>1 DEF EditorInv, EditorTyped, CopyInv, Sure
<1>3. CASE ServeLoad(c)
  <2>1. PICK r : r = [q EXCEPT !.stage = "answered", !.value = t]
    OBVIOUS
  <2>2. /\ q.kind = "load" /\ r \in Sent /\ r.kind = "load" /\ r.value = t
        /\ Reply(c, r) /\ tables' = t
    BY <1>1, <1>2, <1>3, <2>1 DEF ServeLoad, Sent, Optional, Stage
  <2>3. CallOK(r) /\ CallWithin(r, t)
    BY <1>2, <2>2 DEF CallOK, CallWithin
  <2>4. EditorInv'
    BY <1>1, <1>2, <2>2, <2>3, ServeStep
  <2>5. CopyInv => CopyInv'
    <3> SUFFICES ASSUME CopyInv PROVE CopyInv'
      OBVIOUS
    <3>1. /\ Staged(r) /\ AnswerTrue(r, tables') /\ r.exam = q.exam /\ r.number = q.number
          /\ \A x \in ExamId : /\ ~NewExamOf(r, x) /\ (BringsSettings(q, x) => BringsSettings(r, x))
                               /\ \A n \in Number : ~BringsProblem(q, x, n)
      BY <1>1, <1>2, <2>1, <2>2, NoCallOK DEF Sent, Staged, AnswerTrue, NewExamOf, BringsSettings, BringsProblem, Kind, Stage
    <3>2. ~doubt => \A d \in Call \ {c} :
            Apart(r, calls[d]) /\ Apart(calls[d], r) /\ AnswerTrue(calls[d], tables')
      BY <1>0, <1>1, <2>2, <3>1, ApartSame
    <3> QED
      BY <1>1, <2>2, <3>1, <3>2, ServeSure
  <2> QED
    BY <2>4, <2>5 DEF EditorKept
<1>4. CASE WriteProblem(c)
  <2>1. PICK r : r = [q EXCEPT !.stage = "answered"]
    OBVIOUS
  <2>2. /\ q.kind = "problem" /\ q.stage = "sent" /\ r \in Sent /\ r.kind = "problem" /\ r.value = q.value
        /\ r.exam = q.exam /\ r.number = q.number /\ Reply(c, r)
        /\ tables' = [t EXCEPT !.problems[q.exam][q.number] = q.value]
    BY <1>1, <1>2, <1>4, <2>1 DEF WriteProblem, Sent, Optional, Stage
  <2>3. /\ q.exam \in ExamId /\ q.number \in Number /\ q.value \in Text
        /\ t.problems[q.exam][q.number] # Missing
    BY <1>2, <2>2 DEF CallOK, CallWithin
  <2>4. t.settings[q.exam] # Missing
    BY <1>2, <2>3 DEF Whole
  <2>5. tables' \in Tables /\ Whole(tables') /\ Within(t, tables')
    BY <1>2, <2>2, <2>3, <2>4, RowSet
  <2>6. CallOK(r) /\ CallWithin(r, tables')
    BY <2>2, <2>3, <2>5 DEF CallOK, CallWithin, Within
  <2>7. EditorInv'
    BY <1>1, <1>2, <2>2, <2>5, <2>6, ServeStep
  <2>8. CopyInv => CopyInv'
    <3> SUFFICES ASSUME CopyInv PROVE CopyInv'
      OBVIOUS
    <3>1. PICK x, n, u : x = q.exam /\ n = q.number /\ u = tables'
      OBVIOUS
    <3>2. /\ u.settings = t.settings /\ u.problems[x][n] = q.value
          /\ \A y \in ExamId : y # x => u.problems[y] = t.problems[y]
          /\ \A y \in ExamId, m \in Number : y # x \/ m # n => u.problems[y][m] = t.problems[y][m]
      BY <1>2, <2>2, <2>3, <3>1 DEF Tables
    <3>3. /\ Staged(r) /\ AnswerTrue(r, u) /\ r.stage = "answered"
          /\ \A y \in ExamId : /\ ~NewExamOf(r, y) /\ ~BringsSettings(q, y)
                               /\ \A m \in Number : ~BringsProblem(q, y, m)
          /\ BringsProblem(r, x, n)
      BY <1>1, <1>2, <1>4, <2>1, <2>2, <3>1, <3>2 DEF WriteProblem, Sent, Staged, AnswerTrue, NewExamOf,
         BringsSettings, BringsProblem, Kind, Stage
    <3>4. ~doubt => \A d \in Call \ {c} : Apart(r, calls[d]) /\ Apart(calls[d], r)
      BY <1>0, <2>2, <3>3, ApartSame
    <3>5. ASSUME ~doubt, NEW d \in Call \ {c} PROVE AnswerTrue(calls[d], u)
      <4>1. PICK s : s = calls[d]
        OBVIOUS
      <4>2. CallOK(s) /\ CallWithin(s, t) /\ Apart(q, s) /\ Apart(s, q) /\ AnswerTrue(s, t)
        BY <1>0, <3>5, <4>1
      <4>3. /\ x \in ExamId /\ n \in Number /\ q.kind \in {"problem", "addProblem"} /\ q.exam = x
            /\ q.number = n \/ t.problems[x][n] = Missing
        BY <2>2, <2>3, <3>1, <3>2
      <4>4. AnswerTrue(s, u)
        BY ONLY <3>2, <4>2, <4>3, RowOthers
      <4> QED
        BY <4>1, <4>4
    <3>6. \A y \in ExamId : u.settings[y] = t.settings[y] /\ ~BringsSettings(q, y)
      BY <3>2, <3>3
    <3>7. \A y \in ExamId, m \in Number :
            \/ BringsProblem(r, y, m) \/ (u.problems[y][m] = t.problems[y][m] /\ ~BringsProblem(q, y, m))
      BY <3>2, <3>3
    <3> QED
      BY <1>1, <2>2, <3>1, <3>3, <3>4, <3>5, <3>6, <3>7, ServeSure
  <2> QED
    BY <2>7, <2>8 DEF EditorKept
<1>5. CASE WriteSettings(c)
  <2>1. PICK r : r = [q EXCEPT !.stage = "written"]
    OBVIOUS
  <2>2. /\ q.kind = "settings" /\ q.stage = "sent" /\ r \in Sent /\ r.kind = "settings"
        /\ r.value = q.value /\ r.stage = "written"
        /\ r.exam = q.exam /\ r.number = q.number /\ Reply(c, r)
        /\ tables' = [t EXCEPT !.settings[q.exam] = q.value]
    BY <1>1, <1>2, <1>5, <2>1 DEF WriteSettings, Sent, Optional, Stage
  <2>3. q.exam \in ExamId /\ q.value \in Text /\ t.settings[q.exam] # Missing /\ q.number = Missing
    BY <1>2, <2>2 DEF CallOK, CallWithin
  <2>4. tables' \in Tables /\ Whole(tables') /\ Within(t, tables')
    BY <1>2, <2>2, <2>3, SettingsSet
  <2>5. CallOK(r) /\ CallWithin(r, tables')
    BY <2>2, <2>3, <2>4 DEF CallOK, CallWithin, Within
  <2>6. EditorInv'
    BY <1>1, <1>2, <2>2, <2>4, <2>5, ServeStep
  <2>7. CopyInv => CopyInv'
    <3> SUFFICES ASSUME CopyInv PROVE CopyInv'
      OBVIOUS
    <3>1. PICK x, u : x = q.exam /\ u = tables'
      OBVIOUS
    <3>2. u.problems = t.problems /\ \A y \in ExamId : y # x => u.settings[y] = t.settings[y]
      BY <1>2, <2>2, <2>3, <3>1 DEF Tables
    <3>3. /\ Staged(r) /\ AnswerTrue(r, u)
          /\ \A y \in ExamId : /\ ~NewExamOf(r, y) /\ ~BringsSettings(q, y)
                               /\ \A m \in Number : ~BringsProblem(q, y, m)
          /\ BringsSettings(r, x)
      BY <2>2, <3>1 DEF Staged, AnswerTrue, NewExamOf, BringsSettings, BringsProblem, Kind, Stage
    <3>4. ~doubt => \A d \in Call \ {c} : Apart(r, calls[d]) /\ Apart(calls[d], r)
      BY <1>0, <2>2, <3>3, ApartSame
    <3>5. ASSUME ~doubt, NEW d \in Call \ {c} PROVE AnswerTrue(calls[d], u)
      <4>1. PICK s : s = calls[d]
        OBVIOUS
      <4>2. CallOK(s) /\ CallWithin(s, t) /\ Apart(q, s) /\ Apart(s, q) /\ AnswerTrue(s, t)
        BY <1>0, <3>5, <4>1
      <4>3. x \in ExamId /\ q.kind \in {"settings", "addExam"} /\ q.exam = x /\ q.number = Missing
        BY <2>2, <2>3, <3>1, <3>2
      <4>4. AnswerTrue(s, u)
        BY ONLY <3>2, <4>2, <4>3, SettingsOthers
      <4> QED
        BY <4>1, <4>4
    <3>6. \A y \in ExamId : BringsSettings(r, y) \/ (u.settings[y] = t.settings[y] /\ ~BringsSettings(q, y))
      BY <3>2, <3>3
    <3>7. \A y \in ExamId, m \in Number : u.problems[y][m] = t.problems[y][m] /\ ~BringsProblem(q, y, m)
      BY <3>2, <3>3
    <3> QED
      BY <1>1, <2>2, <3>1, <3>3, <3>4, <3>5, <3>6, <3>7, ServeSure
  <2> QED
    BY <2>6, <2>7 DEF EditorKept
<1>6. CASE ReadBack(c)
  <2>1. q.kind = "settings" /\ q.stage = "written" /\ tables' = t
    BY <1>1, <1>6 DEF ReadBack
  <2>2. PICK x, v : x = q.exam /\ v = [settings |-> t.settings[x], problems |-> t.problems[x]]
    OBVIOUS
  <2>3. x \in ExamId /\ t.settings[x] # Missing /\ q.number = Missing
    BY <1>2, <2>1, <2>2 DEF CallOK, CallWithin
  <2>4. v \in ExamAnswer /\ v.problems = t.problems[x]
    BY <1>2, <2>2, <2>3 DEF Tables, Optional, ExamAnswer
  <2>5. PICK r : r = [q EXCEPT !.stage = "answered", !.value = v]
    OBVIOUS
  <2>6. /\ r \in Sent /\ r.kind = "settings" /\ r.value = v /\ r.stage = "answered"
        /\ r.exam = x /\ r.number = Missing
    BY <1>2, <2>1, <2>2, <2>3, <2>4, <2>5 DEF Sent, Optional, Stage
  <2>7. Reply(c, r)
    BY <1>1, <1>6, <2>2, <2>5 DEF ReadBack
  <2>8. CallOK(r) /\ CallWithin(r, t)
    BY <2>3, <2>4, <2>6 DEF CallOK, CallWithin
  <2>9. EditorInv'
    BY <1>1, <1>2, <2>1, <2>6, <2>7, <2>8, ServeStep
  <2>10. CopyInv => CopyInv'
    <3> SUFFICES ASSUME CopyInv PROVE CopyInv'
      OBVIOUS
    <3>1. /\ Staged(r) /\ AnswerTrue(r, tables') /\ r.exam = q.exam /\ r.number = q.number
          /\ \A y \in ExamId : /\ ~NewExamOf(r, y) /\ (BringsSettings(q, y) => BringsSettings(r, y))
                               /\ \A n \in Number : ~BringsProblem(q, y, n)
      <4>1. Staged(r)
        BY <2>6 DEF Staged, Kind, Stage
      <4>2. AnswerTrue(r, tables')
        BY <2>1, <2>2, <2>6 DEF AnswerTrue
      <4>3. r.exam = q.exam /\ r.number = q.number
        BY <2>2, <2>3, <2>6
      <4>4. ASSUME NEW y \in ExamId
            PROVE  /\ ~NewExamOf(r, y) /\ (BringsSettings(q, y) => BringsSettings(r, y))
                   /\ \A n \in Number : ~BringsProblem(q, y, n)
        BY <2>1, <2>2, <2>6 DEF NewExamOf, BringsSettings, BringsProblem
      <4> QED
        BY <4>1, <4>2, <4>3, <4>4
    <3>2. ~doubt => \A d \in Call \ {c} :
            Apart(r, calls[d]) /\ Apart(calls[d], r) /\ AnswerTrue(calls[d], tables')
      BY <1>0, <1>1, <2>1, <2>6, <3>1, ApartSame
    <3> QED
      BY <1>1, <2>1, <2>6, <2>7, <3>1, <3>2, ServeSure
  <2> QED
    BY <2>9, <2>10 DEF EditorKept
<1>7. CASE InsertProblem(c)
  <2>1. PICK x : x = q.exam
    OBVIOUS
  <2>2. PICK n : n = Max({0} \cup {m \in Number : t.problems[x][m] # Missing}) + 1
    OBVIOUS
  <2>3. PICK r : r = [q EXCEPT !.stage = "answered", !.number = n]
    OBVIOUS
  <2>4. /\ q.kind = "addProblem" /\ q.stage = "sent" /\ n \in Number
        /\ tables' = [t EXCEPT !.problems[x][n] = q.value] /\ Reply(c, r)
    BY <1>1, <1>7, <2>1, <2>2, <2>3 DEF InsertProblem
  <2>5. x \in ExamId /\ q.value \in Text /\ t.settings[x] # Missing
    BY <1>2, <2>1, <2>4 DEF CallOK, CallWithin
  <2>6. /\ r \in Sent /\ r.kind = "addProblem" /\ r.stage = "answered" /\ r.exam = x
        /\ r.number = n /\ r.value = q.value
    BY <1>2, <2>1, <2>3, <2>4, <2>5 DEF Sent, Optional, Stage
  <2>7. /\ tables' \in Tables /\ Whole(tables') /\ Within(t, tables')
        /\ tables'.problems[x][n] = q.value /\ tables'.settings = t.settings
    <3>1. tables' \in Tables /\ Whole(tables') /\ Within(t, tables')
      BY <1>2, <2>4, <2>5, RowSet
    <3>2. tables'.problems[x][n] = q.value /\ tables'.settings = t.settings
      BY <1>2, <2>4, <2>5 DEF Tables
    <3> QED
      BY <3>1, <3>2
  <2>8. CallOK(r) /\ CallWithin(r, tables')
    BY <2>4, <2>5, <2>6, <2>7, EditorAssumption DEF CallOK, CallWithin
  <2>9. EditorInv'
    BY <1>1, <1>2, <2>4, <2>6, <2>7, <2>8, ServeStep
  <2>10. CopyInv => CopyInv'
    <3> SUFFICES ASSUME CopyInv PROVE CopyInv'
      OBVIOUS
    <3>1. PICK u : u = tables'
      OBVIOUS
    <3>2. /\ u.settings = t.settings /\ u.problems[x][n] = q.value
          /\ \A y \in ExamId : y # x => u.problems[y] = t.problems[y]
          /\ \A y \in ExamId, m \in Number : y # x \/ m # n => u.problems[y][m] = t.problems[y][m]
      BY <1>2, <2>4, <2>5, <3>1 DEF Tables
    <3>3. /\ Staged(r) /\ AnswerTrue(r, u)
          /\ \A y \in ExamId : /\ ~NewExamOf(r, y) /\ ~BringsSettings(q, y)
                               /\ \A m \in Number : ~BringsProblem(q, y, m)
          /\ BringsProblem(r, x, n)
      BY <2>4, <2>6, <3>2 DEF Staged, AnswerTrue, NewExamOf, BringsSettings, BringsProblem, Kind, Stage
    <3>4. t.problems[x][n] = Missing
      BY <1>2, <2>2, <2>4, <2>5, NewNumber
    <3>5. ASSUME ~doubt, NEW d \in Call \ {c} PROVE Apart(r, calls[d]) /\ Apart(calls[d], r)
      <4>1. PICK s : s = calls[d]
        OBVIOUS
      <4>2. CallOK(s) /\ CallWithin(s, t) /\ Apart(q, s) /\ Apart(s, q) /\ Staged(s)
        BY <1>0, <3>5, <4>1
      <4>3. ASSUME s.kind # Missing PROVE ~Meet(r, s) /\ ~Meet(s, r)
        <5>1. ~Meet(q, s) /\ q.kind # Missing
          BY <2>4, <4>2, <4>3, NoCallOK DEF Apart, Kind
        <5>2. s.kind # "asset" /\ s.exam = x => s.number # n
          <6> SUFFICES ASSUME s.kind # "asset", s.exam = x, s.number = n PROVE FALSE
            OBVIOUS
          <6>1. s.kind \in Kind /\ n # Missing
            BY <2>4, <4>2, <4>3, EditorAssumption, NoCallOK DEF Staged, Number
          <6>2. s.kind \notin {"load", "settings"}
            BY <2>1, <2>4, <5>1 DEF Meet
          <6>3. s.kind \notin {"problem", "addProblem", "addExam"}
            BY <3>4, <4>2, <6>1 DEF CallOK, CallWithin
          <6> QED
            BY <6>1, <6>2, <6>3 DEF Kind
        <5> QED
          BY <2>1, <2>4, <2>6, <5>1, <5>2 DEF Meet
      <4> QED
        BY <2>1, <2>4, <2>6, <3>3, <4>1, <4>2, <4>3 DEF Apart
    <3>6. ASSUME ~doubt, NEW d \in Call \ {c} PROVE AnswerTrue(calls[d], u)
      <4>1. PICK s : s = calls[d]
        OBVIOUS
      <4>2. CallOK(s) /\ CallWithin(s, t) /\ Apart(q, s) /\ Apart(s, q) /\ AnswerTrue(s, t)
        BY <1>0, <3>6, <4>1
      <4>3. /\ x \in ExamId /\ n \in Number /\ q.kind \in {"problem", "addProblem"} /\ q.exam = x
            /\ q.number = n \/ t.problems[x][n] = Missing
        BY <2>1, <2>4, <2>5, <3>2, <3>4
      <4>4. AnswerTrue(s, u)
        BY ONLY <3>2, <4>2, <4>3, RowOthers
      <4> QED
        BY <4>1, <4>4
    <3>7. \A y \in ExamId : u.settings[y] = t.settings[y] /\ ~BringsSettings(q, y)
      BY <3>2, <3>3
    <3>8. \A y \in ExamId, m \in Number :
            \/ BringsProblem(r, y, m) \/ (u.problems[y][m] = t.problems[y][m] /\ ~BringsProblem(q, y, m))
      BY <3>2, <3>3
    <3> QED
      BY <1>1, <2>4, <2>6, <3>1, <3>3, <3>5, <3>6, <3>7, <3>8, ServeSure
  <2> QED
    BY <2>9, <2>10 DEF EditorKept
<1>8. CASE InsertExam(c)
  <2>1. PICK r : r = [q EXCEPT !.stage = "answered"]
    OBVIOUS
  <2>2. /\ q.kind = "addExam" /\ q.stage = "sent" /\ r \in Sent /\ r.kind = "addExam"
        /\ r.value = q.value /\ r.stage = "answered" /\ r.exam = q.exam /\ r.number = q.number /\ Reply(c, r)
        /\ tables' = [t EXCEPT !.settings[q.exam] = q.value]
    BY <1>1, <1>2, <1>8, <2>1 DEF InsertExam, Sent, Optional, Stage
  <2>3. q.exam \in ExamId /\ q.value \in Text /\ q.number = Missing /\ Missing \notin Text
    BY <1>2, <2>2, EditorAssumption DEF CallOK
  <2>4. tables' \in Tables /\ Whole(tables') /\ Within(t, tables') /\ tables'.settings[q.exam] = q.value
    <3>1. tables' \in Tables /\ Whole(tables') /\ Within(t, tables')
      BY <1>2, <2>2, <2>3, SettingsSet
    <3>2. tables'.settings[q.exam] = q.value
      BY <1>2, <2>2, <2>3 DEF Tables
    <3> QED
      BY <3>1, <3>2
  <2>5. CallOK(r) /\ CallWithin(r, tables')
    BY <2>2, <2>3, <2>4 DEF CallOK, CallWithin
  <2>6. EditorInv'
    BY <1>1, <1>2, <2>2, <2>4, <2>5, ServeStep
  <2>7. CopyInv => CopyInv'
    <3> SUFFICES ASSUME CopyInv PROVE CopyInv'
      OBVIOUS
    <3>1. PICK x, u : x = q.exam /\ u = tables'
      OBVIOUS
    <3>2. u.problems = t.problems /\ \A y \in ExamId : y # x => u.settings[y] = t.settings[y]
      BY <1>2, <2>2, <2>3, <3>1 DEF Tables
    <3>3. /\ t.settings[x] = Missing /\ page.copy.settings[x] = Missing
          /\ \A n \in Number : t.problems[x][n] = Missing
      BY <1>1, <1>2, <1>8, <2>3, <3>1 DEF InsertExam, Whole, EditorInv, Within
    <3>4. /\ Staged(r) /\ AnswerTrue(r, u) /\ NewExamOf(r, x)
          /\ \A y \in ExamId : /\ NewExamOf(r, y) <=> y = x
                               /\ ~BringsSettings(q, y)
                               /\ \A m \in Number : ~BringsProblem(q, y, m)
      BY <2>2, <2>4, <3>1, <3>2, <3>3 DEF Staged, AnswerTrue, NewExamOf, BringsSettings, BringsProblem, Kind, Stage
    <3>5. ASSUME ~doubt, NEW d \in Call \ {c} PROVE Apart(r, calls[d]) /\ Apart(calls[d], r)
      <4>1. PICK s : s = calls[d]
        OBVIOUS
      <4>2. CallOK(s) /\ CallWithin(s, t) /\ Apart(q, s) /\ Apart(s, q)
        BY <1>0, <3>5, <4>1
      <4>3. ~ (s.kind \in {"problem", "settings", "addProblem"} /\ s.exam = x)
        BY <3>3, <4>2 DEF CallOK, CallWithin
      <4>4. r.kind = q.kind /\ r.exam = q.exam /\ r.number = q.number
        BY <2>2
      <4> QED
        BY <3>4, <4>1, <4>2, <4>3, <4>4 DEF Apart, Meet
    <3>6. ASSUME ~doubt, NEW d \in Call \ {c} PROVE AnswerTrue(calls[d], u)
      <4>1. PICK s : s = calls[d]
        OBVIOUS
      <4>2. CallOK(s) /\ CallWithin(s, t) /\ Apart(q, s) /\ Apart(s, q) /\ AnswerTrue(s, t)
        BY <1>0, <3>6, <4>1
      <4>3. x \in ExamId /\ q.kind \in {"settings", "addExam"} /\ q.exam = x /\ q.number = Missing
        BY <2>2, <2>3, <3>1, <3>2
      <4>4. AnswerTrue(s, u)
        BY ONLY <3>2, <4>2, <4>3, SettingsOthers
      <4> QED
        BY <4>1, <4>4
    <3>7. \A y \in ExamId : BringsSettings(r, y) \/ (u.settings[y] = t.settings[y] /\ ~BringsSettings(q, y))
      BY <3>2, <3>4 DEF BringsSettings
    <3>8. \A y \in ExamId, m \in Number : u.problems[y][m] = t.problems[y][m] /\ ~BringsProblem(q, y, m)
      BY <3>2, <3>4
    <3> QED
      BY <1>1, <2>2, <3>1, <3>3, <3>4, <3>5, <3>6, <3>7, <3>8, ServeSure
  <2> QED
    BY <2>6, <2>7 DEF EditorKept
<1>9. CASE SaveExamAsset(c)
  <2>1. PICK r : r = [q EXCEPT !.stage = "answered"]
    OBVIOUS
  <2>2. /\ q.kind = "asset" /\ q.stage = "sent" /\ r \in Sent /\ r.kind = "asset"
        /\ Reply(c, r) /\ tables' = t
    BY <1>1, <1>2, <1>9, <2>1 DEF SaveExamAsset, Sent, Optional, Stage
  <2>3. CallOK(r) /\ CallWithin(r, t)
    BY <2>2 DEF CallOK, CallWithin
  <2>4. EditorInv'
    BY <1>1, <1>2, <2>2, <2>3, ServeStep
  <2>5. CopyInv => CopyInv'
    <3> SUFFICES ASSUME CopyInv PROVE CopyInv'
      OBVIOUS
    <3>1. /\ Staged(r) /\ AnswerTrue(r, tables') /\ r.exam = q.exam /\ r.number = q.number
          /\ \A x \in ExamId : /\ ~NewExamOf(r, x) /\ (BringsSettings(q, x) => BringsSettings(r, x))
                               /\ \A n \in Number : ~BringsProblem(q, x, n)
      BY <1>1, <1>2, <1>9, <2>1, <2>2, NoCallOK DEF Sent, Staged, AnswerTrue, NewExamOf, BringsSettings, BringsProblem, Kind, Stage
    <3>2. ~doubt => \A d \in Call \ {c} :
            Apart(r, calls[d]) /\ Apart(calls[d], r) /\ AnswerTrue(calls[d], tables')
      BY <1>0, <1>1, <2>2, <3>1, ApartSame
    <3> QED
      BY <1>1, <2>2, <3>1, <3>2, ServeSure
  <2> QED
    BY <2>4, <2>5 DEF EditorKept
<1> QED
  BY <1>3, <1>4, <1>5, <1>6, <1>7, <1>8, <1>9

(* A request that is given up brings nothing: else there is doubt.         *)
LEMMA FailInv ==
  ASSUME EditorInv, NEW c \in Call, Fail(c)
  PROVE  EditorKept
<1>1. /\ calls' = [calls EXCEPT ![c] = NoCall] /\ UNCHANGED <<tables, page, made, strayed>>
      /\ doubt' \in BOOLEAN
  BY DEF Fail, EditorInv, EditorTyped
<1>2. /\ page' \in Page /\ SettingsOn(page') /\ (~strayed' => Belongs(page'))
      /\ strayed' \in BOOLEAN
  BY <1>1 DEF EditorInv, EditorTyped, FormBelongs, Belongs, Selected
<1>3. /\ tables' \in Tables /\ Whole(tables') /\ Within(tables, tables') /\ Within(page'.copy, tables')
  BY <1>1 DEF EditorInv, EditorTyped, Within
<1>4. EditorInv'
  BY <1>1, <1>2, <1>3, NoCallOK, EditorStep
<1>5. ASSUME CopyInv, ~doubt' PROVE CopyInv'
  <2>1. PICK q : q = calls[c]
    OBVIOUS
  <2>2. ~doubt /\ q.kind # "load" /\ (q.stage = "sent" \/ q.kind = "asset")
    BY <1>5, <2>1 DEF Fail
  <2>3. /\ \A x \in ExamId : ~BringsSettings(q, x) /\ ~NewExamOf(q, x)
        /\ \A x \in ExamId, n \in Number : ~BringsProblem(q, x, n)
    BY <2>2 DEF BringsSettings, BringsProblem, NewExamOf
  <2>4. /\ \A d \in Call : Apart(NoCall, calls[d]) /\ Apart(calls[d], NoCall)
        /\ AnswerTrue(NoCall, tables) /\ Staged(NoCall) /\ \A x \in ExamId : ~NewExamOf(NoCall, x)
    BY NoCallOK DEF Apart, AnswerTrue, NewExamOf, NoCall, Kind, Staged
  <2>5. calls \in [Call -> Sent] /\ tables' = tables /\ page'.copy = page.copy
    BY <1>1 DEF EditorInv, EditorTyped
  <2> QED
    BY <1>1, <1>5, <2>1, <2>2, <2>3, <2>4, <2>5, QuietStep
<1>6. ASSUME CopyInv, doubt' PROVE CopyInv'
  BY <1>1, <1>6 DEF CopyInv, EditorInv, EditorTyped, Staged
<1> QED
  BY <1>4, <1>5, <1>6 DEF EditorKept

(* What the page takes in.                                                 *)
LEMMA ReceiveStep ==
  ASSUME EditorInv, NEW c \in Call, NEW kind, NEW new \in Page, NEW kept \in BOOLEAN,
         Receive(c, kind, new, kept), Within(new.copy, tables),
         page.settings # Missing => new.settings # Missing,
         ~kept /\ Selected(new) = Selected(page) => Belongs(new)
  PROVE  EditorInv'
<1>1. /\ Rendered(new, kept) /\ calls' = [calls EXCEPT ![c] = NoCall]
      /\ tables' = tables /\ doubt' = doubt
  BY DEF Receive
<1>2. /\ page' \in Page /\ page'.copy = new.copy /\ SettingsOn(page')
      /\ strayed' \in BOOLEAN /\ (~strayed' => Belongs(page'))
  BY <1>1, RenderedOK DEF EditorInv, EditorTyped
<1>3. /\ tables' \in Tables /\ Whole(tables') /\ Within(tables, tables') /\ Within(page'.copy, tables')
      /\ doubt' \in BOOLEAN
  BY <1>1, <1>2 DEF EditorInv, EditorTyped, Within
<1> QED
  BY <1>1, <1>2, <1>3, NoCallOK, EditorStep

(* Rendering leaves the copy as the answer made it.                        *)
LEMMA ReceivedCopy ==
  ASSUME NEW c, NEW kind, NEW new \in Page, NEW kept, Receive(c, kind, new, kept)
  PROVE  page'.copy = new.copy
<1>1. PICK form, settings, problem :
        page' = [new EXCEPT !.form = form, !.settings = settings, !.problem = problem]
  BY DEF Receive, Rendered
<1> QED
  BY <1>1 DEF Page

(* The rows an answer brings are right, the others stay as they were.      *)
LEMMA ReceiveSure ==
  ASSUME EditorInv, CopyInv, NEW c \in Call, NEW kind, NEW new, NEW kept,
         Receive(c, kind, new, kept), NEW q, q = calls[c],
         ~doubt => \A x \in ExamId :
           /\ page'.copy.settings[x] = page.copy.settings[x]
              \/ \A d \in Call \ {c} : ~NewExamOf(calls[d], x)
           /\ \/ page'.copy.settings[x] = tables.settings[x]
              \/ page'.copy.settings[x] = page.copy.settings[x] /\ ~BringsSettings(q, x)
           /\ \A n \in Number :
                \/ page'.copy.problems[x][n] = tables.problems[x][n]
                \/ page'.copy.problems[x][n] = page.copy.problems[x][n] /\ ~BringsProblem(q, x, n),
         ~doubt /\ q.kind = "load" => page'.copy = tables
  PROVE  CopyInv'
<1>1. /\ calls' = [calls EXCEPT ![c] = NoCall] /\ tables' = tables /\ doubt' = doubt
      /\ calls \in [Call -> Sent]
  BY DEF Receive, EditorInv, EditorTyped
<1>2. CASE doubt
  BY <1>1, <1>2 DEF CopyInv, Staged
<1>3. CASE ~doubt
  <2>1. /\ \A d \in Call : Apart(NoCall, calls[d]) /\ Apart(calls[d], NoCall)
        /\ AnswerTrue(NoCall, tables') /\ Staged(NoCall) /\ \A x \in ExamId : ~NewExamOf(NoCall, x)
    BY NoCallOK DEF Apart, AnswerTrue, NewExamOf, NoCall, Kind, Staged
  <2>2. \A d \in Call \ {c} :
           /\ AnswerTrue(calls[d], tables')
           /\ \A x \in ExamId : NewExamOf(calls[d], x) => page'.copy.settings[x] = Missing
    BY <1>1, <1>3 DEF CopyInv, Sure
  <2>3. OthersStay(c, NoCall)
    BY <2>1, <2>2 DEF OthersStay
  <2>4. AnswerStays(q, NoCall)
    BY <1>1, <1>3, <2>1 DEF AnswerStays
  <2>5. RowsStay(q, NoCall)
    BY <1>1, <1>3 DEF RowsStay
  <2> QED
    BY <1>1, <1>3, <2>3, <2>4, <2>5, SureStep
<1> QED
  BY <1>2, <1>3

(* Each of the answers.                                                    *)
LEMMA ReceiveInv ==
  ASSUME EditorInv, NEW c \in Call,
         \/ ReceiveExams(c) \/ ReceiveProblem(c) \/ ReceiveSettings(c)
         \/ ReceiveNewProblem(c) \/ ReceiveNewExam(c)
         \/ \E t \in Text : ReceiveAsset(c, t)
  PROVE  EditorKept
<1>1. PICK q : q = calls[c]
  OBVIOUS
<1>2. q \in Sent /\ CallOK(q) /\ CallWithin(q, tables)
  BY <1>1 DEF EditorInv, EditorTyped
<1>3. /\ page \in Page /\ page.copy \in Tables /\ tables \in Tables /\ Within(page.copy, tables)
      /\ strayed \in BOOLEAN /\ (~strayed => Belongs(page)) /\ Missing \notin Text
  BY EditorAssumption DEF EditorInv, EditorTyped, Page, FormBelongs, Belongs
<1>4. ASSUME NEW new, new.form = page.form, ~strayed, Selected(new) = Selected(page)
      PROVE  Belongs(new)
  BY <1>3, <1>4 DEF Belongs, Selected
<1>5. CASE ReceiveExams(c)
  <2>1. PICK data : data = q.value
    OBVIOUS
  <2>2. PICK x : x = OneOf(page.exam, {y \in ExamId : data.settings[y] # Missing})
    OBVIOUS
  <2>3. x \in Optional(ExamId)
    BY <2>2, OneOfIs DEF Optional, ExamId
  <2>4. PICK new : new = [page EXCEPT !.copy = data, !.exam = x]
    OBVIOUS
  <2>5. q.kind = "load" /\ q.stage = "answered" /\ Receive(c, "load", new, strayed)
    BY <1>1, <1>5, <2>1, <2>2, <2>4 DEF ReceiveExams, Receive
  <2>6. data \in Tables /\ Within(data, tables)
    BY <1>2, <2>1, <2>5 DEF CallOK, CallWithin
  <2>7. /\ new \in Page /\ new.copy = data /\ new.form = page.form
        /\ new.settings = page.settings
    BY <1>3, <2>3, <2>4, <2>6 DEF Page
  <2>8. ~strayed /\ Selected(new) = Selected(page) => Belongs(new)
    BY <1>4, <2>7
  <2>9. EditorInv'
    BY <1>3, <2>5, <2>6, <2>7, <2>8, ReceiveStep
  <2>10. CopyInv => CopyInv'
    <3>1. page'.copy = data
      BY <2>5, <2>7, ReceivedCopy
    <3>2. ~doubt /\ CopyInv => data = tables /\ \A d \in Call \ {c}, y \in ExamId : ~NewExamOf(calls[d], y)
      <4> SUFFICES ASSUME ~doubt, CopyInv
                   PROVE  data = tables /\ \A d \in Call \ {c}, y \in ExamId : ~NewExamOf(calls[d], y)
        OBVIOUS
      <4>1. data = tables
        BY <1>1, <2>1, <2>5 DEF CopyInv, Sure, AnswerTrue
      <4>2. ASSUME NEW d \in Call \ {c}, NEW y \in ExamId, NewExamOf(calls[d], y) PROVE FALSE
        <5>1. Apart(q, calls[d])
          BY <1>1 DEF CopyInv, Sure
        <5> QED
          BY <2>5, <4>2, <5>1, EditorAssumption DEF Apart, Meet, NewExamOf
      <4> QED
        BY <4>1, <4>2
    <3> QED
      BY <1>1, <2>5, <3>1, <3>2, ReceiveSure
  <2> QED
    BY <2>9, <2>10 DEF EditorKept
<1>6. CASE ReceiveProblem(c)
  <2>1. PICK x, n, t : x = q.exam /\ n = q.number /\ t = q.value
    OBVIOUS
  <2>2. q.kind = "problem" /\ q.stage = "answered"
    BY <1>1, <1>6 DEF ReceiveProblem, Receive
  <2>3. /\ x \in ExamId /\ n \in Number /\ t \in Text /\ tables.problems[x][n] # Missing
    BY <1>2, <2>1, <2>2 DEF CallOK, CallWithin
  <2>4. PICK copy, form : /\ copy = [page.copy EXCEPT !.problems[x][n] = t]
                          /\ form = [of |-> <<x, n>>, text |-> t]
    OBVIOUS
  <2>5. PICK new : new = [page EXCEPT !.copy = copy, !.form = form]
    OBVIOUS
  <2>6. Receive(c, "problem", new, Selected(page) # <<x, n>>)
    BY <1>1, <1>6, <2>1, <2>4, <2>5 DEF ReceiveProblem, SavedProblem
  <2>7. /\ copy \in Tables /\ copy.settings = page.copy.settings
        /\ \A y \in ExamId, m \in Number :
             y # x \/ m # n => copy.problems[y][m] = page.copy.problems[y][m]
    BY <1>3, <2>3, <2>4 DEF Tables, Optional
  <2>8. Within(copy, tables)
    BY <1>3, <2>3, <2>7 DEF Within
  <2>9. form \in Form /\ form.of = <<x, n>>
    BY <2>3, <2>4 DEF Form
  <2>10. /\ new \in Page /\ new.copy = copy /\ new.form = form
         /\ new.settings = page.settings
    BY <1>3, <2>5, <2>7, <2>9 DEF Page
  <2>11. ASSUME Selected(page) = <<x, n>>, Selected(new) = Selected(page) PROVE Belongs(new)
    <3>1. Selected(new) = <<x, n>> /\ SelectedProblem(new) = n /\ n # Missing
      BY <2>3, <2>11, SelectedIs DEF Selected
    <3> QED
      BY <2>9, <2>10, <3>1 DEF Belongs
  <2>12. EditorInv'
    BY <2>6, <2>8, <2>10, <2>11, ReceiveStep
  <2>13. CopyInv => CopyInv'
    <3>1. page'.copy = copy
      BY <2>6, <2>10, ReceivedCopy
    <3>2. ~doubt /\ CopyInv => t = tables.problems[x][n]
      BY <1>1, <2>1, <2>2 DEF CopyInv, Sure, AnswerTrue
    <3>3. copy.problems[x][n] = t
      BY <1>3, <2>3, <2>4 DEF Tables
    <3>4. \A y \in ExamId : ~BringsSettings(q, y) /\ \A m \in Number : BringsProblem(q, y, m) => y = x /\ m = n
      BY <2>1, <2>2 DEF BringsSettings, NewExamOf, BringsProblem
    <3> QED
      BY <1>1, <2>2, <2>6, <2>7, <3>1, <3>2, <3>3, <3>4, ReceiveSure
  <2> QED
    BY <2>12, <2>13 DEF EditorKept
<1>7. CASE ReceiveSettings(c)
  <2>1. PICK x, v : x = q.exam /\ v = q.value
    OBVIOUS
  <2>2. q.kind = "settings" /\ q.stage = "answered"
    BY <1>1, <1>7 DEF ReceiveSettings, Receive
  <2>3. /\ x \in ExamId /\ v \in ExamAnswer /\ tables.settings[x] # Missing
        /\ \A n \in Number : v.problems[n] # Missing => tables.problems[x][n] # Missing
    BY <1>2, <2>1, <2>2 DEF CallOK, CallWithin
  <2>4. PICK copy : copy = [settings |-> [page.copy.settings EXCEPT ![x] = v.settings],
                            problems |-> [page.copy.problems EXCEPT ![x] = v.problems]]
    OBVIOUS
  <2>5. PICK new : new = [page EXCEPT !.copy = copy, !.exam = x, !.settings = v.settings]
    OBVIOUS
  <2>6. [page EXCEPT !.copy.settings[x] = v.settings, !.copy.problems[x] = v.problems,
                     !.exam = x, !.settings = v.settings] = new
    <3>1. PICK s, r, e, p, f, g :
            page = [copy |-> [settings |-> s, problems |-> r], exam |-> e, problem |-> p,
                    form |-> f, settings |-> g]
      BY <1>3 DEF Page, Tables
    <3>2. PICK s2, r2 : s2 = [s EXCEPT ![x] = v.settings] /\ r2 = [r EXCEPT ![x] = v.problems]
      OBVIOUS
    <3>3. PICK w : w = [page EXCEPT !.copy.settings[x] = v.settings]
      OBVIOUS
    <3>4. w = [copy |-> [settings |-> s2, problems |-> r], exam |-> e, problem |-> p,
               form |-> f, settings |-> g]
      BY ONLY <3>1, <3>2, <3>3
    <3>5. [w EXCEPT !.copy.problems[x] = v.problems]
            = [copy |-> [settings |-> s2, problems |-> r2], exam |-> e, problem |-> p,
               form |-> f, settings |-> g]
      BY ONLY <3>2, <3>4
    <3>6. copy = [settings |-> s2, problems |-> r2]
      BY ONLY <2>4, <3>1, <3>2
    <3> QED
      BY ONLY <2>5, <3>1, <3>3, <3>5, <3>6
  <2>7. Receive(c, "settings", new, strayed)
    BY <1>1, <1>7, <2>1, <2>6 DEF ReceiveSettings
  <2>8. /\ copy \in Tables
        /\ \A y \in ExamId : y # x => /\ copy.settings[y] = page.copy.settings[y]
                                      /\ copy.problems[y] = page.copy.problems[y]
        /\ copy.problems[x] = v.problems
    BY <1>3, <2>3, <2>4 DEF Tables, Optional, ExamAnswer
  <2>9. Within(copy, tables)
    BY <1>3, <2>3, <2>8 DEF Within
  <2>10. /\ new \in Page /\ new.copy = copy /\ new.form = page.form
         /\ new.settings # Missing
    BY <1>3, <2>3, <2>5, <2>8 DEF Page, ExamAnswer, Optional
  <2>11. ~strayed /\ Selected(new) = Selected(page) => Belongs(new)
    BY <1>4, <2>10
  <2>12. EditorInv'
    BY <1>3, <2>7, <2>9, <2>10, <2>11, ReceiveStep
  <2>13. CopyInv => CopyInv'
    <3>1. page'.copy = copy
      BY <2>7, <2>10, ReceivedCopy
    <3>2. ~doubt /\ CopyInv => /\ copy.settings[x] = tables.settings[x] /\ copy.problems[x] = tables.problems[x]
                               /\ \A d \in Call \ {c} : ~NewExamOf(calls[d], x)
      <4> SUFFICES ASSUME ~doubt, CopyInv
                   PROVE  /\ copy.settings[x] = tables.settings[x] /\ copy.problems[x] = tables.problems[x]
                          /\ \A d \in Call \ {c} : ~NewExamOf(calls[d], x)
        OBVIOUS
      <4>1. AnswerTrue(q, tables)
        BY <1>1 DEF CopyInv, Sure
      <4>2. copy.settings[x] = tables.settings[x]
        BY <1>3, <2>1, <2>2, <2>3, <2>4, <4>1 DEF AnswerTrue, Tables
      <4>3. copy.problems[x] = tables.problems[x]
        BY <2>1, <2>2, <2>8, <4>1 DEF AnswerTrue
      <4>4. ASSUME NEW d \in Call \ {c}, NewExamOf(calls[d], x) PROVE FALSE
        <5>1. Apart(q, calls[d])
          BY <1>1 DEF CopyInv, Sure
        <5> QED
          BY <2>1, <2>2, <4>4, <5>1, EditorAssumption DEF Apart, Meet, NewExamOf
      <4> QED
        BY <4>2, <4>3, <4>4
    <3>3. \A y \in ExamId : /\ BringsSettings(q, y) => y = x
                            /\ \A m \in Number : ~BringsProblem(q, y, m)
      BY <2>1, <2>2 DEF BringsSettings, NewExamOf, BringsProblem
    <3> QED
      BY <1>1, <2>2, <2>7, <2>8, <3>1, <3>2, <3>3, ReceiveSure
  <2> QED
    BY <2>12, <2>13 DEF EditorKept
<1>8. CASE ReceiveNewProblem(c)
  <2>1. PICK x, n, t : x = q.exam /\ n = q.number /\ t = q.value
    OBVIOUS
  <2>2. q.kind = "addProblem" /\ q.stage = "answered"
    BY <1>1, <1>8 DEF ReceiveNewProblem, Receive
  <2>3. /\ x \in ExamId /\ n \in Number /\ t \in Text /\ tables.problems[x][n] # Missing
    BY <1>2, <2>1, <2>2 DEF CallOK, CallWithin
  <2>4. PICK copy : copy = [page.copy EXCEPT !.problems[x][n] = t]
    OBVIOUS
  <2>5. PICK new : new = [page EXCEPT !.copy = copy, !.problem = n]
    OBVIOUS
  <2>6. [page EXCEPT !.copy.problems[x][n] = t, !.problem = n] = new
    BY <1>3, <2>4, <2>5 DEF Page, Tables
  <2>7. Receive(c, "addProblem", new, strayed)
    BY <1>1, <1>8, <2>1, <2>6 DEF ReceiveNewProblem
  <2>8. /\ copy \in Tables /\ copy.settings = page.copy.settings
        /\ \A y \in ExamId, m \in Number :
             y # x \/ m # n => copy.problems[y][m] = page.copy.problems[y][m]
    BY <1>3, <2>3, <2>4 DEF Tables, Optional
  <2>9. Within(copy, tables)
    BY <1>3, <2>3, <2>8 DEF Within
  <2>10. /\ new \in Page /\ new.copy = copy /\ new.form = page.form
         /\ new.settings = page.settings
    BY <1>3, <2>3, <2>5, <2>8 DEF Page, Optional
  <2>11. ~strayed /\ Selected(new) = Selected(page) => Belongs(new)
    BY <1>4, <2>10
  <2>12. EditorInv'
    BY <1>3, <2>7, <2>9, <2>10, <2>11, ReceiveStep
  <2>13. CopyInv => CopyInv'
    <3>1. page'.copy = copy
      BY <2>7, <2>10, ReceivedCopy
    <3>2. ~doubt /\ CopyInv => t = tables.problems[x][n]
      BY <1>1, <2>1, <2>2 DEF CopyInv, Sure, AnswerTrue
    <3>3. copy.problems[x][n] = t
      BY <1>3, <2>3, <2>4 DEF Tables
    <3>4. \A y \in ExamId : ~BringsSettings(q, y) /\ \A m \in Number : BringsProblem(q, y, m) => y = x /\ m = n
      BY <2>1, <2>2 DEF BringsSettings, NewExamOf, BringsProblem
    <3> QED
      BY <1>1, <2>2, <2>7, <2>8, <3>1, <3>2, <3>3, <3>4, ReceiveSure
  <2> QED
    BY <2>12, <2>13 DEF EditorKept
<1>9. CASE ReceiveNewExam(c)
  <2>1. PICK x, t : x = q.exam /\ t = q.value
    OBVIOUS
  <2>2. q.kind = "addExam" /\ q.stage = "answered"
    BY <1>1, <1>9 DEF ReceiveNewExam, Receive
  <2>3. x \in ExamId /\ t \in Text /\ tables.settings[x] # Missing
    BY <1>2, <2>1, <2>2 DEF CallOK, CallWithin
  <2>4. PICK copy : copy = [settings |-> [page.copy.settings EXCEPT ![x] = t],
                            problems |-> [page.copy.problems EXCEPT ![x] = [n \in Number |-> Missing]]]
    OBVIOUS
  <2>5. PICK new : new = [page EXCEPT !.copy = copy, !.exam = x, !.problem = Missing]
    OBVIOUS
  <2>6. [page EXCEPT !.copy.settings[x] = t, !.copy.problems[x] = [n \in Number |-> Missing],
                     !.exam = x, !.problem = Missing] = new
    <3>1. PICK s, r, e, p, f, g :
            page = [copy |-> [settings |-> s, problems |-> r], exam |-> e, problem |-> p,
                    form |-> f, settings |-> g]
      BY <1>3 DEF Page, Tables
    <3>2. PICK s2, r2 : s2 = [s EXCEPT ![x] = t] /\ r2 = [r EXCEPT ![x] = [n \in Number |-> Missing]]
      OBVIOUS
    <3>3. PICK w : w = [page EXCEPT !.copy.settings[x] = t]
      OBVIOUS
    <3>4. w = [copy |-> [settings |-> s2, problems |-> r], exam |-> e, problem |-> p,
               form |-> f, settings |-> g]
      BY ONLY <3>1, <3>2, <3>3
    <3>5. [w EXCEPT !.copy.problems[x] = [n \in Number |-> Missing]]
            = [copy |-> [settings |-> s2, problems |-> r2], exam |-> e, problem |-> p,
               form |-> f, settings |-> g]
      BY ONLY <3>2, <3>4
    <3>6. copy = [settings |-> s2, problems |-> r2]
      BY ONLY <2>4, <3>1, <3>2
    <3> QED
      BY ONLY <2>5, <3>1, <3>3, <3>5, <3>6
  <2>7. Receive(c, "addExam", new, strayed)
    BY <1>1, <1>9, <2>1, <2>6 DEF ReceiveNewExam
  <2>8. /\ copy \in Tables
        /\ \A y \in ExamId : y # x => /\ copy.settings[y] = page.copy.settings[y]
                                      /\ copy.problems[y] = page.copy.problems[y]
        /\ copy.problems[x] = [n \in Number |-> Missing]
    BY <1>3, <2>3, <2>4 DEF Tables, Optional
  <2>9. Within(copy, tables)
    BY <1>3, <2>3, <2>8 DEF Within
  <2>10. /\ new \in Page /\ new.copy = copy /\ new.form = page.form
         /\ new.settings = page.settings
    BY <1>3, <2>3, <2>5, <2>8 DEF Page, Optional
  <2>11. ~strayed /\ Selected(new) = Selected(page) => Belongs(new)
    BY <1>4, <2>10
  <2>12. EditorInv'
    BY <1>3, <2>7, <2>9, <2>10, <2>11, ReceiveStep
  <2>13. CopyInv => CopyInv'
    <3>1. page'.copy = copy
      BY <2>7, <2>10, ReceivedCopy
    <3>2. ~doubt /\ CopyInv => /\ copy.settings[x] = tables.settings[x] /\ copy.problems[x] = tables.problems[x]
                               /\ \A d \in Call \ {c} : ~NewExamOf(calls[d], x)
      <4> SUFFICES ASSUME ~doubt, CopyInv
                   PROVE  /\ copy.settings[x] = tables.settings[x] /\ copy.problems[x] = tables.problems[x]
                          /\ \A d \in Call \ {c} : ~NewExamOf(calls[d], x)
        OBVIOUS
      <4>1. AnswerTrue(q, tables)
        BY <1>1 DEF CopyInv, Sure
      <4>2. copy.settings[x] = tables.settings[x]
        BY <1>3, <2>1, <2>2, <2>3, <2>4, <4>1 DEF AnswerTrue, Tables
      <4>3. copy.problems[x] = tables.problems[x]
        <5>1. tables.problems[x] \in [Number -> Optional(Text)] /\ \A n \in Number : tables.problems[x][n] = Missing
          BY <1>3, <2>1, <2>2, <2>3, <4>1 DEF AnswerTrue, Tables
        <5>2. tables.problems[x] = [n \in Number |-> Missing]
          BY <5>1
        <5> QED
          BY <2>8, <5>2
      <4>4. ASSUME NEW d \in Call \ {c}, NewExamOf(calls[d], x) PROVE FALSE
        <5>1. Apart(q, calls[d])
          BY <1>1 DEF CopyInv, Sure
        <5>2. q.number = Missing /\ calls[d].number = Missing
          BY <1>2, <2>2, <4>4 DEF CallOK, NewExamOf, EditorInv, EditorTyped
        <5> QED
          BY <2>1, <2>2, <4>4, <5>1, <5>2, EditorAssumption DEF Apart, Meet, NewExamOf
      <4> QED
        BY <4>2, <4>3, <4>4
    <3>3. \A y \in ExamId : /\ BringsSettings(q, y) => y = x
                            /\ \A m \in Number : ~BringsProblem(q, y, m)
      BY <2>1, <2>2 DEF BringsSettings, NewExamOf, BringsProblem
    <3> QED
      BY <1>1, <2>2, <2>7, <2>8, <3>1, <3>2, <3>3, ReceiveSure
  <2> QED
    BY <2>12, <2>13 DEF EditorKept
<1>10. ASSUME NEW t \in Text, ReceiveAsset(c, t) PROVE EditorKept
  <2>1. PICK new : new = (IF page.form = NoForm THEN page ELSE [page EXCEPT !.form.text = t])
    OBVIOUS
  <2>2. Receive(c, "asset", new, strayed)
    BY <1>10, <2>1 DEF ReceiveAsset
  <2>3. PICK form : form = [page.form EXCEPT !.text = t]
    OBVIOUS
  <2>4. page.form = NoForm \/ (form \in Form /\ form.of = page.form.of /\ page.form # NoForm)
    BY <1>3, <2>3 DEF Page, Form
  <2>5. /\ new \in Page /\ new.copy = page.copy /\ new.settings = page.settings
        /\ new.form = page.form \/ (new.form.of = page.form.of /\ page.form # NoForm)
    BY <1>3, <2>1, <2>3, <2>4 DEF Page
  <2>6. ~strayed /\ Selected(new) = Selected(page) => Belongs(new)
    BY <1>3, <2>5 DEF Belongs, Selected
  <2>7. EditorInv'
    BY <1>3, <2>2, <2>5, <2>6, ReceiveStep
  <2>8. CopyInv => CopyInv'
    <3>1. page'.copy = page.copy
      BY <2>2, <2>5, ReceivedCopy
    <3>2. q.kind = "asset" /\ \A y \in ExamId : ~BringsSettings(q, y) /\ \A m \in Number : ~BringsProblem(q, y, m)
      BY <1>1, <2>2 DEF Receive, BringsSettings, NewExamOf, BringsProblem
    <3> QED
      BY <1>1, <2>2, <3>1, <3>2, ReceiveSure
  <2> QED
    BY <2>7, <2>8 DEF EditorKept
<1> QED
  BY <1>5, <1>6, <1>7, <1>8, <1>9, <1>10

(* What the editor starts with.                                            *)
LEMMA EditorStart ==
  ASSUME EditorInit PROVE EditorInv
<1>1. /\ tables \in Tables /\ Whole(tables) /\ doubt \in BOOLEAN /\ strayed \in BOOLEAN
      /\ calls = [c \in Call |-> NoCall]
  BY EditorAssumption DEF EditorInit
<1>2. NoContents \in Tables /\ Within(NoContents, tables)
  BY DEF NoContents, Tables, Optional, Within
<1>3. /\ page \in Page /\ page.copy = NoContents /\ page.form = NoForm
  BY <1>2 DEF EditorInit, Page, Form, Optional
<1>4. ExamsOf(page) = {} /\ SelectedExam(page) = Missing /\ SelectedProblem(page) = Missing
  <2>1. ExamsOf(page) = {}
    BY <1>3 DEF ExamsOf, NoContents
  <2>2. SelectedExam(page) = Missing
    BY <2>1, SelectedIs
  <2> QED
    BY <2>1, <2>2 DEF SelectedProblem
<1>5. SettingsOn(page) /\ FormBelongs
  BY <1>3, <1>4 DEF SettingsOn, FormBelongs
<1> QED
  BY <1>1, <1>2, <1>3, <1>5, NoCallOK DEF EditorInv, EditorTyped

(* Everything the editor keeps is typed, in place, and its form belongs to *)
(* the selection.                                                          *)
THEOREM EditorInvariantHolds == EditorSpec => []EditorInv
<1>1. EditorInit => EditorInv
  BY EditorStart
<1>2. EditorInv /\ [EditorNext]_editorVars => EditorInv'
  <2> SUFFICES ASSUME EditorInv, [EditorNext]_editorVars PROVE EditorInv'
    OBVIOUS
  <2>1. CASE UNCHANGED editorVars
    BY <2>1 DEF editorVars, EditorInv, EditorTyped, FormBelongs, SettingsOn, Selected,
       SelectedExam, SelectedProblem, ExamsOf, ProblemsOf
  <2>2. ASSUME EditorNext PROVE EditorInv'
    BY <2>2, PageInv, SendInv, ServeInv, FailInv, ReceiveInv DEF EditorNext, EditorKept
  <2> QED
    BY <2>1, <2>2
<1> QED
  BY <1>1, <1>2, PTL DEF EditorSpec

(* What is typed is saved as the problem it was made from.                 *)
THEOREM FormAlwaysBelongs == EditorSpec => []FormBelongs
<1>1. EditorInv => FormBelongs
  BY DEF EditorInv
<1> QED
  BY <1>1, EditorInvariantHolds, PTL

(* As long as nothing is in doubt, the copy is right but for the rows that *)
(* are on their way.                                                       *)
THEOREM CopyInvariantHolds == EditorSpec => []CopyInv
<1>1. EditorInit => CopyInv
  BY DEF EditorInit, CopyInv, Staged
<1>2. EditorInv /\ CopyInv /\ [EditorNext]_editorVars => CopyInv'
  <2> SUFFICES ASSUME EditorInv, CopyInv, [EditorNext]_editorVars PROVE CopyInv'
    OBVIOUS
  <2>1. CASE UNCHANGED editorVars
    BY <2>1 DEF editorVars, CopyInv, Sure, CopyTrue
  <2>2. ASSUME EditorNext PROVE CopyInv'
    BY <2>2, PageInv, SendInv, ServeInv, FailInv, ReceiveInv DEF EditorNext, EditorKept
  <2> QED
    BY <2>1, <2>2
<1> QED
  BY <1>1, <1>2, EditorInvariantHolds, PTL DEF EditorSpec

(* Once every request is answered the copy is what the tables hold.        *)
THEOREM CopyAlwaysFollows == EditorSpec => []CopyFollowsTables
<1>1. EditorInv /\ CopyInv => CopyFollowsTables
  <2> SUFFICES ASSUME EditorInv, CopyInv, ~doubt, \A c \in Call : calls[c] = NoCall
               PROVE  page.copy = tables
    BY DEF CopyFollowsTables
  <2>1. \A c \in Call : /\ calls[c].kind # "load"
                        /\ \A x \in ExamId : /\ ~BringsSettings(calls[c], x)
                                             /\ \A n \in Number : ~BringsProblem(calls[c], x, n)
    BY NoCallOK DEF NoCall, BringsSettings, NewExamOf, BringsProblem, Kind
  <2>2. \A x \in ExamId : /\ page.copy.settings[x] = tables.settings[x]
                          /\ \A n \in Number : page.copy.problems[x][n] = tables.problems[x][n]
    BY <2>1 DEF CopyInv, Sure, CopyTrue
  <2>3. page.copy \in Tables /\ tables \in Tables
    BY DEF EditorInv, EditorTyped, Page
  <2>4. page.copy.settings = tables.settings
    BY <2>2, <2>3 DEF Tables
  <2>5. \A x \in ExamId : page.copy.problems[x] = tables.problems[x]
    BY <2>2, <2>3 DEF Tables
  <2>6. page.copy.problems = tables.problems
    BY <2>3, <2>5 DEF Tables
  <2> QED
    BY <2>3, <2>4, <2>6 DEF Tables
<1> QED
  BY <1>1, EditorInvariantHolds, CopyInvariantHolds, PTL
=============================================================================
