----------------------------- MODULE RoomStore -----------------------------
(***************************************************************************)
(* How one room's state reaches Postgres (server/index.ts, withRoomMutation*)
(* to scheduleRoomBroadcast, and server/roomDatabase.ts).  A handler takes *)
(* the in-process mutex and the advisory lock of its key, reads the row    *)
(* into a fresh room object, which becomes the cached one, changes it and  *)
(* commits.  Four things touch the room without its lock: reads, which     *)
(* replace the cached object; event:register, which holds another key; the *)
(* contest submit path, which changes the cached object; and the 50 ms     *)
(* timer it starts, which writes that object back.                         *)
(*                                                                         *)
(* A room's content is the set of operations it reflects.                  *)
(***************************************************************************)
EXTENDS Naturals

CONSTANTS
  Process,        \* app processes on one database
  Mutation,       \* bodies run by withRoomMutation under the room's code
  Registration,   \* event:register bodies that add a player to this room
  Submission,     \* contest answers on the fast path
  Reader,         \* getPersistedRoom calls outside any mutation
  PlayerOf,       \* the registration of an answer's player, None for one there before
  None,
  Crashes         \* bound: processes that may stop

Locked == Mutation \cup Registration
Op     == Locked \cup Submission \cup Reader
Key    == {"room", "event"}
KeyOf(o) == IF o \in Registration THEN "event" ELSE "room"

(* What the row and a room object say: the operations they reflect.        *)
Row == [ops : SUBSET Op, version : Nat]

ASSUME OpsAssumption ==
  /\ Mutation \cap Registration = {} /\ Locked \cap (Submission \cup Reader) = {}
  /\ Submission \cap Reader = {} /\ Process \cap Op = {}
  /\ None \notin Op \cup Process /\ None \notin Row
  /\ PlayerOf \in [Submission -> Registration \cup {None}]
  /\ Crashes \in Nat

VARIABLES
  row,        \* the room_states row
  table,      \* contest_submissions
  advisory,   \* key -> operation whose transaction holds the advisory lock
  pc,         \* of an operation, one of Step
  proc,       \* the process of an operation
  mutex,      \* process -> key -> operation
  object,     \* the room object that an operation made, or a process booted with
  cache,      \* rooms.get(code): the operation or process whose object it is
  txn,        \* what an operation read and then will write, None when nothing
  captured,   \* the cached object a submission works on
  timer,      \* process -> object of the pending broadcast, or None
  writes,     \* rows sent to the database outside any transaction
  crashes

vars == <<row, table, advisory, pc, proc, mutex, object, cache, txn, captured, timer,
          writes, crashes>>

Step == {"idle", "queued", "begun", "loaded", "applied", "acked", "refused", "failed"}
Objects == Op \cup Process
Fresh == [ops |-> {}, version |-> 0]

(* Faulty variant: the submissions are left to the row.                    *)
RowAlone(r) == r

(* The player of an answer is one of the room's players.                   *)
Present(f, r) == PlayerOf[f] \in r.ops \cup {None}

(* A row together with the submissions in the table, but for those whose   *)
(* player the row does not have.                                           *)
Hydrated(r) == [r EXCEPT !.ops = @ \cup {f \in table : Present(f, r)}]

With(r, o) == [ops |-> r.ops \cup {o}, version |-> r.version + 1]
-----------------------------------------------------------------------------
(* withRoomMutation: the in-process mutex, then BEGIN and the advisory lock*)
(* (which a process may have to wait for), then the row.                   *)
Enter(o, p) ==
  /\ pc[o] = "idle" /\ mutex[p][KeyOf(o)] = None
  /\ mutex' = [mutex EXCEPT ![p][KeyOf(o)] = o]
  /\ pc' = [pc EXCEPT ![o] = "queued"]
  /\ proc' = [proc EXCEPT ![o] = p]
  /\ UNCHANGED <<row, table, advisory, object, cache, txn, captured, timer, writes, crashes>>

(* Faulty variant: no advisory lock.                                       *)
BeginUnlocked(o) ==
  /\ pc[o] = "queued"
  /\ advisory' = [advisory EXCEPT ![KeyOf(o)] = o]
  /\ pc' = [pc EXCEPT ![o] = "begun"]
  /\ UNCHANGED <<row, table, proc, mutex, object, cache, txn, captured, timer, writes, crashes>>

Begin(o) ==
  /\ pc[o] = "queued" /\ advisory[KeyOf(o)] = None
  /\ advisory' = [advisory EXCEPT ![KeyOf(o)] = o]
  /\ pc' = [pc EXCEPT ![o] = "begun"]
  /\ UNCHANGED <<row, table, proc, mutex, object, cache, txn, captured, timer, writes, crashes>>

Load(o) ==
  /\ pc[o] = "begun"
  /\ txn' = [txn EXCEPT ![o] = Hydrated(row)]
  /\ pc' = [pc EXCEPT ![o] = "loaded"]
  /\ UNCHANGED <<row, table, advisory, proc, mutex, object, cache, captured, timer, writes, crashes>>

(* The fresh object is cached, changed and announced by emitRoom, which    *)
(* serializes it for the pending write, or the request is refused.         *)
Apply(o) ==
  /\ pc[o] = "loaded"
  /\ \/ /\ object' = [object EXCEPT ![o] = With(txn[o], o)]
        /\ txn' = [txn EXCEPT ![o] = With(txn[o], o)]
        /\ pc' = [pc EXCEPT ![o] = "applied"]
     \/ /\ object' = [object EXCEPT ![o] = txn[o]]
        /\ txn' = [txn EXCEPT ![o] = None]
        /\ pc' = [pc EXCEPT ![o] = "applied"]
  /\ cache' = [cache EXCEPT ![proc[o]] = o]
  /\ UNCHANGED <<row, table, advisory, proc, mutex, captured, timer, writes, crashes>>

Release(o) ==
  /\ advisory' = [k \in Key |-> IF advisory[k] = o THEN None ELSE advisory[k]]
  /\ mutex' = [mutex EXCEPT ![proc[o]][KeyOf(o)] = None]

(* COMMIT, then the replies that waited for it.                            *)
Commit(o) ==
  /\ pc[o] = "applied"
  /\ row' = IF txn[o] = None THEN row ELSE txn[o]
  /\ pc' = [pc EXCEPT ![o] = IF txn[o] = None THEN "refused" ELSE "acked"]
  /\ Release(o)
  /\ UNCHANGED <<table, proc, object, cache, txn, captured, timer, writes, crashes>>

(* Faulty variants: what was written stays; the mutex is not released.     *)
FailKeepsWrite(o) ==
  /\ pc[o] \in {"begun", "loaded", "applied"}
  /\ row' = IF pc[o] = "applied" /\ txn[o] # None THEN txn[o] ELSE row
  /\ pc' = [pc EXCEPT ![o] = "failed"]
  /\ Release(o)
  /\ UNCHANGED <<table, proc, object, cache, txn, captured, timer, writes, crashes>>

FailKeepsLock(o) ==
  /\ pc[o] \in {"begun", "loaded", "applied"}
  /\ pc' = [pc EXCEPT ![o] = "failed"]
  /\ mutex' = [mutex EXCEPT ![proc[o]][KeyOf(o)] = None]
  /\ UNCHANGED <<row, table, advisory, proc, object, cache, txn, captured, timer, writes, crashes>>

(* Any statement may fail: ROLLBACK, no reply, but the object stays cached.*)
Fail(o) ==
  /\ pc[o] \in {"begun", "loaded", "applied"}
  /\ pc' = [pc EXCEPT ![o] = "failed"]
  /\ Release(o)
  /\ UNCHANGED <<row, table, proc, object, cache, txn, captured, timer, writes, crashes>>
-----------------------------------------------------------------------------
(* getPersistedRoom outside a mutation.                                    *)
ReadRow(q, p) ==
  /\ pc[q] = "idle"
  /\ txn' = [txn EXCEPT ![q] = Hydrated(row)]
  /\ pc' = [pc EXCEPT ![q] = "loaded"]
  /\ proc' = [proc EXCEPT ![q] = p]
  /\ UNCHANGED <<row, table, advisory, mutex, object, cache, captured, timer, writes, crashes>>

ReadDone(q) ==
  /\ pc[q] = "loaded"
  /\ object' = [object EXCEPT ![q] = txn[q]]
  /\ cache' = [cache EXCEPT ![proc[q]] = q]
  /\ pc' = [pc EXCEPT ![q] = "acked"]
  /\ UNCHANGED <<row, table, advisory, proc, mutex, txn, captured, timer, writes, crashes>>
-----------------------------------------------------------------------------
(* The room was finished by an answer that came too late.                  *)
Finished(r) == \E f \in Submission : f \in r.ops /\ pc[f] = "refused"

(* submitContestAnswerFast: the cached object of the moment, which must    *)
(* have the player, is kept, the answer is inserted, and then applied to   *)
(* that object, cached or not.                                             *)
Submit(f, p) ==
  /\ pc[f] = "idle" /\ ~Finished(object[cache[p]]) /\ Present(f, object[cache[p]])
  /\ captured' = [captured EXCEPT ![f] = cache[p]]
  /\ pc' = [pc EXCEPT ![f] = "begun"]
  /\ proc' = [proc EXCEPT ![f] = p]
  /\ UNCHANGED <<row, table, advisory, mutex, object, cache, txn, timer, writes, crashes>>

Insert(f) ==
  /\ pc[f] = "begun"
  /\ table' = table \cup {f}
  /\ pc' = [pc EXCEPT ![f] = "applied"]
  /\ UNCHANGED <<row, advisory, proc, mutex, object, cache, txn, captured, timer, writes, crashes>>

(* When its time is up the cached object is finished, broadcast and sent to*)
(* the database, and the answer refused.                                   *)
Late(f, p) ==
  /\ pc[f] = "idle" /\ ~Finished(object[cache[p]]) /\ Present(f, object[cache[p]])
  /\ LET r == With(object[cache[p]], f) IN
     object' = [object EXCEPT ![cache[p]] = r] /\ writes' = writes \cup {r}
  /\ pc' = [pc EXCEPT ![f] = "refused"]
  /\ proc' = [proc EXCEPT ![f] = p]
  /\ UNCHANGED <<row, table, advisory, mutex, cache, txn, captured, timer, crashes>>

(* It replies, and starts the timer of the room unless one is running.     *)
Answer(f) ==
  /\ pc[f] = "applied"
  /\ object' = [object EXCEPT ![captured[f]] = With(@, f)]
  /\ timer' = [timer EXCEPT ![proc[f]] = IF @ = None THEN captured[f] ELSE @]
  /\ pc' = [pc EXCEPT ![f] = "acked"]
  /\ UNCHANGED <<row, table, advisory, proc, mutex, cache, txn, captured, writes, crashes>>

(* The timer broadcasts its object and sends it to the database, where the *)
(* write lands some time later, holding no lock.                           *)
TimerFires(p) ==
  /\ timer[p] # None
  /\ writes' = writes \cup {object[timer[p]]}
  /\ timer' = [timer EXCEPT ![p] = None]
  /\ UNCHANGED <<row, table, advisory, pc, proc, mutex, object, cache, txn, captured, crashes>>

WriteLands(w) ==
  /\ w \in writes
  /\ row' = w
  /\ writes' = writes \ {w}
  /\ UNCHANGED <<table, advisory, pc, proc, mutex, object, cache, txn, captured, timer, crashes>>
-----------------------------------------------------------------------------
(* A process stops: Postgres rolls its transactions back and frees their   *)
(* locks.  It starts again with the room it reads from the row.            *)
Crash(p) ==
  /\ crashes < Crashes /\ crashes' = crashes + 1
  /\ pc' = [o \in Op |-> IF proc[o] = p /\ pc[o] \in {"queued", "begun", "loaded", "applied"}
                         THEN "failed" ELSE pc[o]]
  /\ advisory' = [k \in Key |-> IF advisory[k] # None /\ proc[advisory[k]] = p
                                THEN None ELSE advisory[k]]
  /\ mutex' = [mutex EXCEPT ![p] = [k \in Key |-> None]]
  /\ object' = [object EXCEPT ![p] = Hydrated(row)]
  /\ cache' = [cache EXCEPT ![p] = p]
  /\ timer' = [timer EXCEPT ![p] = None]
  /\ UNCHANGED <<row, table, proc, txn, captured, writes>>
-----------------------------------------------------------------------------
Init ==
  /\ row = Fresh
  /\ table = {} /\ writes = {} /\ crashes = 0
  /\ advisory = [k \in Key |-> None]
  /\ pc = [o \in Op |-> "idle"]
  /\ proc = [o \in Op |-> None]
  /\ mutex = [p \in Process |-> [k \in Key |-> None]]
  /\ object = [x \in Objects |-> Fresh]
  /\ cache = [p \in Process |-> p]
  /\ txn = [o \in Op |-> None]
  /\ captured = [f \in Op |-> None]
  /\ timer = [p \in Process |-> None]

Proceed(o) == Begin(o) \/ Load(o) \/ Apply(o) \/ Commit(o)

Next ==
  \/ \E o \in Locked : (\E p \in Process : Enter(o, p)) \/ Proceed(o) \/ Fail(o)
  \/ \E q \in Reader : (\E p \in Process : ReadRow(q, p)) \/ ReadDone(q)
  \/ \E f \in Submission : (\E p \in Process : Submit(f, p) \/ Late(f, p)) \/ Insert(f) \/ Answer(f)
  \/ \E p \in Process : TimerFires(p) \/ Crash(p)
  \/ \E w \in writes : WriteLands(w)

(* The database answers and promise callbacks run.                         *)
Fairness ==
  /\ \A o \in Locked : WF_vars(Load(o)) /\ WF_vars(Apply(o)) /\ WF_vars(Commit(o) \/ Fail(o))
                       /\ SF_vars(Begin(o))
  /\ \A f \in Submission : WF_vars(Insert(f)) /\ WF_vars(Answer(f))

Spec == Init /\ [][Next]_vars
FairSpec == Spec /\ Fairness
-----------------------------------------------------------------------------
TypeOK ==
  /\ row \in Row /\ table \subseteq Submission
  /\ advisory \in [Key -> Locked \cup {None}]
  /\ pc \in [Op -> Step]
  /\ proc \in [Op -> Process \cup {None}]
  /\ mutex \in [Process -> [Key -> Locked \cup {None}]]
  /\ object \in [Objects -> Row]
  /\ cache \in [Process -> Objects]
  /\ txn \in [Op -> Row \cup {None}]
  /\ captured \in [Op -> Objects \cup {None}]
  /\ timer \in [Process -> Objects \cup {None}]
  /\ writes \subseteq Row
  /\ crashes \in Nat

(* Two transactions on one key never overlap, in one process or in two,    *)
(* and neither a rollback nor a crash lets a second one in early.          *)
InTransaction(o) == pc[o] \in {"begun", "loaded", "applied"}
AloneUnderLock ==
  \A o, u \in Locked : InTransaction(o) /\ InTransaction(u) /\ KeyOf(o) = KeyOf(u) => o = u

(* What was acknowledged is in the database for good: a reply of success is*)
(* never followed by a row that has forgotten the operation.               *)
AcknowledgedDurable ==
  \A o \in Op \ Reader : pc[o] = "acked" => o \in Hydrated(row).ops

(* A mutation that failed or was refused leaves nothing in the row.        *)
FailedLeavesNoTrace ==
  \A o \in Locked : pc[o] \in {"failed", "refused"} => o \notin row.ops

(* The row goes from one mutation to the next: each write is the row it    *)
(* replaces plus one operation, whichever process made it.                 *)
OneMutationPerWrite == [][row' # row => \E o \in Locked : row' = With(row, o)]_vars

(* Whoever loads the room finds every answer acknowledged so far, although *)
(* the timer may have put an older snapshot back, as long as the row still *)
(* has the answer's player.  A newcomer whom the older snapshot does not   *)
(* know takes the answers along: hydrateContestRoomSubmissions skips them. *)
LoadsShowAnswers ==
  [][\A o \in Op : pc[o] # "loaded" /\ pc'[o] = "loaded" =>
       \A f \in Submission : pc[f] = "acked" /\ Present(f, row) => f \in txn'[o].ops]_vars

(* While every writer of the row holds the lock of the room, a mutation is *)
(* one step on the room as it is, although it reads, changes and writes in *)
(* three statements, in any of several processes that may stop; its reply  *)
(* shows the room that it has written, and a reader the one of a moment.   *)
Outcome == [o \in Mutation \cup Reader |->
              IF pc[o] \in {"queued", "begun", "loaded", "applied"} THEN "asked" ELSE pc[o]]
Found   == [o \in Mutation \cup Reader |->
              IF o \in Reader THEN txn[o]
              ELSE IF pc[o] \in {"acked", "refused"} THEN object[o] ELSE None]

Atomic == INSTANCE AtomicRoom WITH content <- row, outcome <- Outcome, found <- Found

AtomicSpec == Atomic!Spec

(* A mutation that entered settles: no rollback and no crash of a process  *)
(* that held its lock leaves it waiting.                                   *)
MutationsSettle ==
  \A o \in Locked : pc[o] = "queued" ~> pc[o] \in {"acked", "refused", "failed"}
=============================================================================
