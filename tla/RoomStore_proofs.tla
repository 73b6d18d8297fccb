-------------------------- MODULE RoomStore_proofs --------------------------
(***************************************************************************)
(* Proofs about RoomStore for any number of processes, operations and      *)
(* crashes.  The serial order of transactions follows from the advisory    *)
(* lock; what is durable follows from the serial order only while nobody   *)
(* writes the row under another key or without one.                        *)
(***************************************************************************)
EXTENDS RoomStore, TLAPS

(* What a body reads and writes are rows.                                  *)
LEMMA RowTypes ==
  ASSUME NEW r \in Row, NEW o \in Op, table \subseteq Submission
  PROVE  Hydrated(r) \in Row /\ With(r, o) \in Row
  BY DEF Row, Hydrated, With, Op

(* An operation runs under one of the two keys.                            *)
LEMMA KeyTypes == \A o \in Op : KeyOf(o) \in Key
  BY DEF KeyOf, Key

(* COMMIT, ROLLBACK and the end of a connection give up locks, and take no *)
(* new ones.                                                               *)
LEMMA ReleaseTypes ==
  ASSUME TypeOK, NEW o \in Locked, Release(o)
  PROVE  /\ advisory' \in [Key -> Locked \cup {None}]
         /\ mutex' \in [Process -> [Key -> Locked \cup {None}]]
<1>1. KeyOf(o) \in Key
  BY KeyTypes DEF Op
<1> QED
  BY <1>1 DEF Release, TypeOK

(* A body that has loaded the room has a row to work on.                   *)
LoadedHasRow == \A o \in Op : pc[o] = "loaded" => txn[o] \in Row

TypeInv == TypeOK /\ LoadedHasRow

(* The type invariant, one step per action.                                *)
LEMMA TypeStep == TypeInv /\ [Next]_vars => TypeInv'
<1> SUFFICES ASSUME TypeInv, [Next]_vars
             PROVE  TypeInv'
  OBVIOUS
<1> USE DEF TypeInv, LoadedHasRow
<1>0. /\ Locked \subseteq Op /\ Submission \subseteq Op /\ Reader \subseteq Op
      /\ Op \subseteq Objects /\ Process \subseteq Objects
      /\ \A o \in Op : Hydrated(row) \in Row
  BY RowTypes DEF Op, Objects, TypeOK
<1>1. ASSUME NEW o \in Locked, NEW p \in Process, Enter(o, p)
      PROVE  TypeInv'
  BY <1>0, <1>1, KeyTypes DEF TypeOK, Enter, Step
<1>2. ASSUME NEW o \in Locked, Begin(o)
      PROVE  TypeInv'
  BY <1>0, <1>2, KeyTypes DEF TypeOK, Begin, Step
<1>3. ASSUME NEW o \in Locked, Load(o)
      PROVE  TypeInv'
  BY <1>0, <1>3 DEF TypeOK, Load, Step
<1>4. ASSUME NEW o \in Locked, Apply(o)
      PROVE  TypeInv'
  <2>1. txn[o] \in Row /\ With(txn[o], o) \in Row /\ o \in Op /\ o \in Objects
    BY <1>0, <1>4, RowTypes DEF TypeOK, Apply
  <2>2. object' \in [Objects -> Row] /\ txn' \in [Op -> Row \cup {None}]
    BY <1>4, <2>1 DEF TypeOK, Apply
  <2>3. cache' \in [Process -> Objects]
    BY <1>4, <2>1 DEF TypeOK, Apply
  <2>4. pc' = [pc EXCEPT ![o] = "applied"] /\ \A u \in Op : u # o => txn'[u] = txn[u]
    BY <1>4, <2>1 DEF TypeOK, Apply
  <2>5. pc' \in [Op -> Step] /\ \A u \in Op : pc'[u] = "loaded" => pc[u] = "loaded" /\ u # o
    BY <2>4 DEF TypeOK, Step
  <2> QED
    BY <1>4, <2>2, <2>3, <2>4, <2>5 DEF TypeOK, Apply
<1>5. ASSUME NEW o \in Locked, Commit(o)
      PROVE  TypeInv'
  <2>1. /\ advisory' \in [Key -> Locked \cup {None}]
        /\ mutex' \in [Process -> [Key -> Locked \cup {None}]]
    BY <1>5, ReleaseTypes DEF Commit
  <2>2. row' \in Row
    BY <1>0, <1>5 DEF TypeOK, Commit
  <2>3. pc' \in [Op -> Step] /\ \A u \in Op : pc'[u] = "loaded" => pc[u] = "loaded"
    BY <1>0, <1>5 DEF TypeOK, Commit, Step
  <2> QED
    BY <1>5, <2>1, <2>2, <2>3 DEF TypeOK, Commit
<1>6. ASSUME NEW o \in Locked, Fail(o)
      PROVE  TypeInv'
  BY <1>0, <1>6, ReleaseTypes DEF TypeOK, Fail, Step
<1>7. ASSUME NEW q \in Reader, NEW p \in Process, ReadRow(q, p)
      PROVE  TypeInv'
  BY <1>0, <1>7 DEF TypeOK, ReadRow, Step
<1>8. ASSUME NEW q \in Reader, ReadDone(q)
      PROVE  TypeInv'
  BY <1>0, <1>8 DEF TypeOK, ReadDone, Step
<1>9. ASSUME NEW f \in Submission, NEW p \in Process, Submit(f, p)
      PROVE  TypeInv'
  BY <1>0, <1>9 DEF TypeOK, Submit, Step
<1>late. ASSUME NEW f \in Submission, NEW p \in Process, Late(f, p)
         PROVE  TypeInv'
  <2>1. With(object[cache[p]], f) \in Row /\ f \in Op
    BY <1>0, RowTypes DEF TypeOK
  <2> QED
    BY <1>0, <1>late, <2>1 DEF TypeOK, Late, Step
<1>10. ASSUME NEW f \in Submission, Insert(f)
       PROVE  TypeInv'
  BY <1>0, <1>10 DEF TypeOK, Insert, Step
<1>11. ASSUME NEW f \in Submission, Answer(f)
       PROVE  TypeInv'
  BY <1>0, <1>11, RowTypes DEF TypeOK, Answer, Step
<1>12. ASSUME NEW p \in Process, TimerFires(p)
       PROVE  TypeInv'
  BY <1>12 DEF TypeOK, TimerFires
<1>13. ASSUME NEW w \in writes, WriteLands(w)
       PROVE  TypeInv'
  BY <1>13 DEF TypeOK, WriteLands
<1>14. ASSUME NEW p \in Process, Crash(p)
       PROVE  TypeInv'
  <2>1. pc' \in [Op -> Step] /\ \A o \in Op : pc'[o] = "loaded" => pc[o] = "loaded"
    BY <1>0, <1>14 DEF TypeOK, Crash, Step
  <2>2. advisory' \in [Key -> Locked \cup {None}]
    BY <1>14 DEF TypeOK, Crash
  <2>3. mutex' \in [Process -> [Key -> Locked \cup {None}]]
    BY <1>14 DEF TypeOK, Crash
  <2>4. /\ object' \in [Objects -> Row] /\ cache' \in [Process -> Objects]
        /\ timer' \in [Process -> Objects \cup {None}]
    <3>1. Hydrated(row) \in Row
      BY RowTypes DEF TypeOK, Hydrated, Row, Op
    <3> QED
      BY <1>0, <1>14, <3>1 DEF TypeOK, Crash
  <2>5. crashes' \in Nat
    BY <1>14 DEF TypeOK, Crash
  <2> QED
    BY <1>14, <2>1, <2>2, <2>3, <2>4, <2>5 DEF TypeOK, Crash
<1>15. CASE UNCHANGED vars
  BY <1>15 DEF TypeOK, vars
<1> QED
  BY <1>1, <1>2, <1>3, <1>4, <1>5, <1>6, <1>7, <1>8, <1>9, <1>late, <1>10, <1>11, <1>12, <1>13,
     <1>14, <1>15 DEF Next, Proceed

(* ... and it holds at the start.                                          *)
LEMMA TypeInvariance == Spec => []TypeInv
<1>1. Init => TypeInv
  BY DEF Init, TypeInv, LoadedHasRow, TypeOK, Fresh, Row, Step, Objects
<1> QED
  BY <1>1, TypeStep, PTL DEF Spec

(* Every variable keeps its type: in particular the row and the room       *)
(* objects only ever name operations that exist.                           *)
THEOREM TypeCorrect == Spec => []TypeOK
<1>1. TypeInv => TypeOK
  BY DEF TypeInv
<1> QED
  BY <1>1, TypeInvariance, PTL
-----------------------------------------------------------------------------
(* A transaction holds the advisory lock of its key.                       *)
HoldsLock == \A o \in Locked : InTransaction(o) => advisory[KeyOf(o)] = o

(* BEGIN takes a free lock; COMMIT, ROLLBACK and a crash give back the     *)
(* locks of exactly the transactions that end.                             *)
LEMMA LockStep == TypeInv /\ HoldsLock /\ [Next]_vars => HoldsLock'
<1> SUFFICES ASSUME TypeInv, HoldsLock, [Next]_vars
             PROVE  HoldsLock'
  OBVIOUS
<1> USE DEF HoldsLock, InTransaction
<1>0. /\ Locked \subseteq Op /\ Submission \subseteq Op /\ Reader \subseteq Op
      /\ Locked \cap (Submission \cup Reader) = {} /\ None \notin Op
      /\ \A o \in Op : KeyOf(o) \in Key
      /\ pc \in [Op -> Step] /\ advisory \in [Key -> Locked \cup {None}]
  BY OpsAssumption, KeyTypes DEF Op, TypeInv, TypeOK
<1>1. ASSUME NEW o \in Locked, NEW p \in Process, Enter(o, p)
      PROVE  HoldsLock'
  BY <1>0, <1>1 DEF Enter
<1>2. ASSUME NEW o \in Locked, Begin(o)
      PROVE  HoldsLock'
  BY <1>0, <1>2 DEF Begin
<1>3. ASSUME NEW o \in Locked, Load(o)
      PROVE  HoldsLock'
  BY <1>0, <1>3 DEF Load
<1>4. ASSUME NEW o \in Locked, Apply(o)
      PROVE  HoldsLock'
  <2>1. pc' = [pc EXCEPT ![o] = "applied"] /\ pc[o] = "loaded" /\ advisory' = advisory
    BY <1>4 DEF Apply
  <2> QED
    BY <1>0, <2>1
<1>5. ASSUME NEW o \in Locked, Commit(o) \/ Fail(o)
      PROVE  HoldsLock'
  <2>1. /\ \A u \in Op : u # o => pc'[u] = pc[u]
        /\ pc'[o] \in {"refused", "acked", "failed"}
        /\ advisory' = [k \in Key |-> IF advisory[k] = o THEN None ELSE advisory[k]]
    BY <1>0, <1>5 DEF Commit, Fail, Release
  <2> QED
    BY <1>0, <2>1
<1>6. ASSUME NEW x \in Submission \cup Reader, UNCHANGED advisory,
             \A u \in Op : u # x => pc'[u] = pc[u]
      PROVE  HoldsLock'
  BY <1>0, <1>6
<1>7. ASSUME NEW q \in Reader, (\E p \in Process : ReadRow(q, p)) \/ ReadDone(q)
      PROVE  HoldsLock'
  BY <1>0, <1>6, <1>7 DEF ReadRow, ReadDone
<1>8. ASSUME NEW f \in Submission, NEW p \in Process, Submit(f, p) \/ Late(f, p)
      PROVE  HoldsLock'
  BY <1>0, <1>6, <1>8 DEF Submit, Late
<1>9. ASSUME NEW f \in Submission, Insert(f) \/ Answer(f)
      PROVE  HoldsLock'
  BY <1>0, <1>6, <1>9 DEF Insert, Answer
<1>10. ASSUME NEW p \in Process, Crash(p)
       PROVE  HoldsLock'
  BY <1>0, <1>10 DEF Crash
<1>11. CASE UNCHANGED <<pc, advisory>>
  BY <1>11
<1>12. ASSUME NEW p \in Process, TimerFires(p)
       PROVE  UNCHANGED <<pc, advisory>>
  BY <1>12 DEF TimerFires
<1>13. ASSUME NEW w \in writes, WriteLands(w)
       PROVE  UNCHANGED <<pc, advisory>>
  BY <1>13 DEF WriteLands
<1>14. CASE UNCHANGED vars
  BY <1>11, <1>14 DEF vars
<1> QED
  BY <1>1, <1>2, <1>3, <1>4, <1>5, <1>7, <1>8, <1>9, <1>10, <1>11, <1>12, <1>13, <1>14
     DEF Next, Proceed

(* Hence every transaction holds its lock at all times.                    *)
LEMMA LockInvariance == Spec => []HoldsLock
<1>1. Init => HoldsLock
  BY DEF Init, HoldsLock, InTransaction, Op
<1> QED
  BY <1>1, LockStep, TypeInvariance, PTL DEF Spec

(* Two holders of one lock are one operation.                              *)
LEMMA LockExcludes == HoldsLock => AloneUnderLock
  BY OpsAssumption, KeyTypes DEF HoldsLock, AloneUnderLock

(* Two transactions on one key never overlap, in any number of processes,  *)
(* whichever of them fail and whichever processes stop.                    *)
THEOREM Serial == Spec => []AloneUnderLock
  BY LockInvariance, LockExcludes, PTL
-----------------------------------------------------------------------------
(* The table has every answer that is applied to a room or acknowledged.   *)
AnswersStored == \A f \in Submission : pc[f] \in {"applied", "acked"} => f \in table

(* Who changes pc of what: a step of an operation changes its own only.    *)
LEMMA OwnStep ==
  ASSUME TypeInv, NEW o \in Op, NEW p \in Process \cup {None},
         \/ Enter(o, p) \/ Proceed(o) \/ Fail(o) \/ ReadRow(o, p) \/ ReadDone(o)
         \/ Submit(o, p) \/ Late(o, p) \/ Insert(o) \/ Answer(o)
  PROVE  \A u \in Op \ {o} : pc'[u] = pc[u]
<1>1. pc \in [Op -> Step]
  BY DEF TypeInv, TypeOK
<1>2. \E s \in Step : pc' = [pc EXCEPT ![o] = s]
  BY DEF Enter, Proceed, Begin, Load, Apply, Commit, Fail, ReadRow, ReadDone, Submit, Late,
         Insert, Answer, Step
<1> QED
  BY <1>1, <1>2

(* An answer is applied and acknowledged only after its row is inserted,   *)
(* and rows are never deleted.                                             *)
LEMMA AnswersStep == TypeInv /\ AnswersStored /\ [Next]_vars => AnswersStored'
<1> SUFFICES ASSUME TypeInv, AnswersStored, [Next]_vars
             PROVE  AnswersStored'
  OBVIOUS
<1> USE DEF AnswersStored
<1>0. /\ Locked \subseteq Op /\ Submission \subseteq Op /\ Reader \subseteq Op
      /\ Submission \cap (Locked \cup Reader) = {}
      /\ pc \in [Op -> Step]
  BY OpsAssumption DEF Op, TypeInv, TypeOK
<1>1. ASSUME NEW x \in Locked \cup Reader, UNCHANGED table,
             \A u \in Op \ {x} : pc'[u] = pc[u]
      PROVE  AnswersStored'
  BY <1>0, <1>1
<1>2. ASSUME NEW o \in Locked, (\E p \in Process : Enter(o, p)) \/ Proceed(o) \/ Fail(o)
      PROVE  AnswersStored'
  <2>1. UNCHANGED table
    BY <1>2 DEF Enter, Proceed, Begin, Load, Apply, Commit, Fail
  <2> QED
    BY <1>0, <1>1, <1>2, <2>1, OwnStep
<1>3. ASSUME NEW q \in Reader, (\E p \in Process : ReadRow(q, p)) \/ ReadDone(q)
      PROVE  AnswersStored'
  <2>1. UNCHANGED table
    BY <1>3 DEF ReadRow, ReadDone
  <2> QED
    BY <1>0, <1>1, <1>3, <2>1, OwnStep
<1>4. ASSUME NEW f \in Submission, NEW p \in Process, Submit(f, p) \/ Late(f, p)
      PROVE  AnswersStored'
  BY <1>0, <1>4 DEF Submit, Late
<1>5. ASSUME NEW f \in Submission, Insert(f)
      PROVE  AnswersStored'
  BY <1>0, <1>5 DEF Insert
<1>6. ASSUME NEW f \in Submission, Answer(f)
      PROVE  AnswersStored'
  BY <1>0, <1>6 DEF Answer
<1>7. ASSUME NEW p \in Process, Crash(p)
      PROVE  AnswersStored'
  BY <1>0, <1>7 DEF Crash
<1>8. CASE UNCHANGED <<pc, table>>
  BY <1>8
<1>9. ASSUME NEW p \in Process, TimerFires(p)
      PROVE  UNCHANGED <<pc, table>>
  BY <1>9 DEF TimerFires
<1>10. ASSUME NEW w \in writes, WriteLands(w)
       PROVE  UNCHANGED <<pc, table>>
  BY <1>10 DEF WriteLands
<1>11. CASE UNCHANGED vars
  BY <1>8, <1>11 DEF vars
<1> QED
  BY <1>2, <1>3, <1>4, <1>5, <1>6, <1>7, <1>8, <1>9, <1>10, <1>11 DEF Next

(* Only a load makes an operation "loaded", and it reads row and table.    *)
LEMMA LoadReads ==
  ASSUME TypeInv, [Next]_vars, NEW o \in Op, pc[o] # "loaded", pc'[o] = "loaded"
  PROVE  txn'[o] = Hydrated(row)
<1>0. /\ Locked \subseteq Op /\ Submission \subseteq Op /\ Reader \subseteq Op
      /\ pc \in [Op -> Step] /\ DOMAIN txn = Op
  BY DEF Op, TypeInv, TypeOK
<1>1. ASSUME NEW u \in Locked, Load(u)
      PROVE  txn'[o] = Hydrated(row)
  BY <1>0, <1>1 DEF Load
<1>2. ASSUME NEW q \in Reader, NEW p \in Process, ReadRow(q, p)
      PROVE  txn'[o] = Hydrated(row)
  BY <1>0, <1>2 DEF ReadRow
<1>3. ASSUME NEW u \in Op, NEW s \in Step, pc' = [pc EXCEPT ![u] = s], s # "loaded"
      PROVE  FALSE
  BY <1>0, <1>3
<1>4. ASSUME NEW u \in Locked,
             (\E p \in Process : Enter(u, p)) \/ Begin(u) \/ Apply(u) \/ Commit(u) \/ Fail(u)
      PROVE  FALSE
  <2>1. \E s \in Step : pc' = [pc EXCEPT ![u] = s] /\ s # "loaded"
    BY <1>4 DEF Enter, Begin, Apply, Commit, Fail, Step
  <2> QED
    BY <1>0, <1>3, <2>1
<1>5. ASSUME NEW q \in Reader, ReadDone(q)
      PROVE  FALSE
  BY <1>0, <1>5 DEF ReadDone
<1>6. ASSUME NEW f \in Submission,
             (\E p \in Process : Submit(f, p) \/ Late(f, p)) \/ Insert(f) \/ Answer(f)
      PROVE  FALSE
  <2>1. \E s \in Step : pc' = [pc EXCEPT ![f] = s] /\ s # "loaded"
    BY <1>6 DEF Submit, Late, Insert, Answer, Step
  <2> QED
    BY <1>0, <1>3, <2>1
<1>7. ASSUME NEW p \in Process, TimerFires(p) \/ Crash(p)
      PROVE  FALSE
  BY <1>0, <1>7 DEF TimerFires, Crash
<1>8. ASSUME NEW w \in writes, WriteLands(w)
      PROVE  FALSE
  BY <1>8 DEF WriteLands
<1>9. CASE UNCHANGED vars
  BY <1>9 DEF vars
<1> QED
  BY <1>1, <1>2, <1>4, <1>5, <1>6, <1>7, <1>8, <1>9 DEF Next, Proceed

(* Whoever loads the room, under a lock or not, after a crash or not, finds*)
(* every acknowledged answer of a player whom the row has: the table has   *)
(* the answer, even when the row is an older snapshot without it.          *)
THEOREM LoadsComplete == Spec => LoadsShowAnswers
<1>1. Init => AnswersStored
  BY DEF Init, AnswersStored, Op
<1>2. TypeInv /\ AnswersStored /\ [Next]_vars =>
        [\A o \in Op : pc[o] # "loaded" /\ pc'[o] = "loaded" =>
           \A f \in Submission : pc[f] = "acked" /\ Present(f, row) => f \in txn'[o].ops]_vars
  <2> SUFFICES ASSUME TypeInv, AnswersStored, [Next]_vars,
                      NEW o \in Op, pc[o] # "loaded", pc'[o] = "loaded",
                      NEW f \in Submission, pc[f] = "acked", Present(f, row)
               PROVE  f \in txn'[o].ops
    OBVIOUS
  <2>1. txn'[o] = Hydrated(row)
    BY LoadReads
  <2>2. f \in table
    BY DEF AnswersStored
  <2>3. row \in Row
    BY DEF TypeInv, TypeOK
  <2> QED
    BY <2>1, <2>2, <2>3 DEF Hydrated, Row
<1> QED
  BY <1>1, <1>2, AnswersStep, TypeInvariance, PTL DEF Spec, LoadsShowAnswers
-----------------------------------------------------------------------------
(* Without contest answers nothing is written outside a transaction.       *)
NoAnswers == table = {} /\ writes = {} /\ timer = [p \in Process |-> None]

(* A body that will write has a row of committed operations, and its own.  *)
Working(o) == pc[o] = "loaded" \/ (pc[o] = "applied" /\ txn[o] # None)

CommittedOnly ==
  /\ \A u \in row.ops : pc[u] = "acked"
  /\ \A o \in Locked : Working(o) => \A u \in txn[o].ops : u = o \/ pc[u] = "acked"

(* What was read and written by `With` and `Hydrated`.                     *)
LEMMA RowContents ==
  ASSUME NEW r \in Row, NEW o
  PROVE  /\ With(r, o).ops = r.ops \cup {o}
         /\ table = {} => Hydrated(r) = r
  BY DEF Row, With, Hydrated

(* The steps that remain when there are no contest answers: those of       *)
(* mutations, registrations and readers, and crashes.                      *)
LEMMA NoAnswersStep ==
  ASSUME Submission = {}, NoAnswers, [Next]_vars
  PROVE  /\ NoAnswers'
         /\ \/ UNCHANGED vars
            \/ \E o \in Locked : (\E p \in Process : Enter(o, p)) \/ Proceed(o) \/ Fail(o)
            \/ \E q \in Reader : (\E p \in Process : ReadRow(q, p)) \/ ReadDone(q)
            \/ \E p \in Process : Crash(p)
<1>1. ASSUME NEW p \in Process
      PROVE  ~TimerFires(p)
  BY DEF NoAnswers, TimerFires
<1>2. \/ UNCHANGED vars
      \/ \E o \in Locked : (\E p \in Process : Enter(o, p)) \/ Proceed(o) \/ Fail(o)
      \/ \E q \in Reader : (\E p \in Process : ReadRow(q, p)) \/ ReadDone(q)
      \/ \E p \in Process : Crash(p)
  BY <1>1 DEF Next, NoAnswers
<1>3. ASSUME NEW o \in Locked, (\E p \in Process : Enter(o, p)) \/ Proceed(o) \/ Fail(o)
      PROVE  NoAnswers'
  BY <1>3 DEF NoAnswers, Enter, Proceed, Begin, Load, Apply, Commit, Fail
<1>4. ASSUME NEW q \in Reader, (\E p \in Process : ReadRow(q, p)) \/ ReadDone(q)
      PROVE  NoAnswers'
  BY <1>4 DEF NoAnswers, ReadRow, ReadDone
<1>5. ASSUME NEW p \in Process, Crash(p)
      PROVE  NoAnswers'
  BY <1>5 DEF NoAnswers, Crash
<1>6. CASE UNCHANGED vars
  BY <1>6 DEF vars, NoAnswers
<1> QED
  BY <1>2, <1>3, <1>4, <1>5, <1>6

(* What a body reads was committed, and a commit adds itself.              *)
LEMMA CommittedStep ==
  ASSUME Submission = {}, NoAnswers, TypeInv, CommittedOnly, [Next]_vars
  PROVE  CommittedOnly'
<1> USE DEF CommittedOnly, Working
<1>0. /\ Locked \subseteq Op /\ Reader \subseteq Op /\ Locked \cap Reader = {}
      /\ pc \in [Op -> Step] /\ row \in Row /\ row.ops \subseteq Op
      /\ txn \in [Op -> Row \cup {None}]
      /\ \A o \in Op : txn[o] # None => txn[o] \in Row /\ txn[o].ops \subseteq Op
  BY OpsAssumption DEF Op, TypeInv, TypeOK, Row
<1>1. ASSUME NEW x \in Op, UNCHANGED <<row, txn>>, NEW s \in {"queued", "begun", "failed"},
             pc' = [pc EXCEPT ![x] = s], pc[x] # "acked"
      PROVE  CommittedOnly'
  BY <1>0, <1>1
<1>2. ASSUME NEW o \in Locked, (\E p \in Process : Enter(o, p)) \/ Begin(o) \/ Fail(o)
      PROVE  CommittedOnly'
  BY <1>0, <1>1, <1>2 DEF Enter, Begin, Fail
<1>3. ASSUME NEW o \in Locked, Load(o)
      PROVE  CommittedOnly'
  <2>1. txn' = [txn EXCEPT ![o] = row] /\ pc' = [pc EXCEPT ![o] = "loaded"] /\ row' = row
        /\ pc[o] # "acked"
    BY <1>0, <1>3, RowContents DEF Load, NoAnswers
  <2> QED
    BY <1>0, <2>1
<1>4. ASSUME NEW o \in Locked, Apply(o)
      PROVE  CommittedOnly'
  <2>1. /\ pc' = [pc EXCEPT ![o] = "applied"] /\ pc[o] = "loaded" /\ row' = row
        /\ \E r \in {None, With(txn[o], o)} : txn' = [txn EXCEPT ![o] = r]
    BY <1>4 DEF Apply
  <2>2. txn[o] \in Row /\ With(txn[o], o).ops = txn[o].ops \cup {o}
    BY <1>0, <2>1, RowContents DEF TypeInv, LoadedHasRow
  <2>3. \A u \in txn[o].ops : u = o \/ pc[u] = "acked"
    BY <2>1
  <2> QED
    BY <1>0, <2>1, <2>2, <2>3
<1>5. ASSUME NEW o \in Locked, Commit(o)
      PROVE  CommittedOnly'
  <2>1. CASE txn[o] = None
    BY <1>0, <1>5, <2>1 DEF Commit
  <2>2. CASE txn[o] # None
    BY <1>0, <1>5, <2>2 DEF Commit
  <2> QED
    BY <2>1, <2>2
<1>6. ASSUME NEW q \in Reader, NEW p \in Process, ReadRow(q, p)
      PROVE  CommittedOnly'
  BY <1>0, <1>6 DEF ReadRow
<1>7. ASSUME NEW q \in Reader, ReadDone(q)
      PROVE  CommittedOnly'
  BY <1>0, <1>7 DEF ReadDone
<1>8. ASSUME NEW p \in Process, Crash(p)
      PROVE  CommittedOnly'
  <2>1. \A o \in Locked : Working(o) => txn[o].ops \subseteq Op
    BY <1>0 DEF TypeInv, LoadedHasRow, Row
  <2>2. /\ row' = row /\ txn' = txn
        /\ \A u \in Op : pc[u] = "acked" => pc'[u] = "acked"
        /\ \A u \in Op : pc'[u] \in {"loaded", "applied"} => pc'[u] = pc[u]
    BY <1>0, <1>8 DEF Crash
  <2> QED
    BY <1>0, <2>1, <2>2
<1>9. CASE UNCHANGED vars
  BY <1>9 DEF vars
<1> QED
  BY NoAnswersStep, <1>2, <1>3, <1>4, <1>5, <1>6, <1>7, <1>8, <1>9 DEF Proceed

(* As long as nobody answers a contest problem, a mutation or registration *)
(* that failed or was refused leaves nothing in the row.  The condition is *)
(* needed: a failed body leaves its room object in the cache, and the timer*)
(* of a contest answer may write that object.                              *)
THEOREM RollbackIsComplete ==
  ASSUME Submission = {}
  PROVE  Spec => []FailedLeavesNoTrace
<1>1. Init => NoAnswers /\ CommittedOnly
  BY DEF Init, NoAnswers, CommittedOnly, Working, Fresh, Op
<1>2. NoAnswers /\ CommittedOnly /\ TypeInv /\ [Next]_vars => (NoAnswers /\ CommittedOnly)'
  BY NoAnswersStep, CommittedStep
<1>3. CommittedOnly => FailedLeavesNoTrace
  BY DEF CommittedOnly, FailedLeavesNoTrace
<1> QED
  BY <1>1, <1>2, <1>3, TypeInvariance, PTL DEF Spec
-----------------------------------------------------------------------------
(* When every body runs under the room's own key, a body works on the row  *)
(* as it is, and what was acknowledged is in it.                           *)
OnCurrentRow ==
  /\ \A o \in Locked : pc[o] = "loaded" => txn[o] = row
  /\ \A o \in Locked : pc[o] = "applied" => txn[o] \in {None, With(row, o)}
  /\ \A o \in Locked : pc[o] = "acked" => o \in row.ops

(* The row changes by a commit only, and then by one operation.            *)
LEMMA RowChange ==
  ASSUME Submission = {}, NoAnswers, OnCurrentRow, [Next]_vars, row' # row
  PROVE  \E o \in Locked : Commit(o) /\ row' = With(row, o)
<1>1. PICK o \in Locked : Commit(o)
  BY NoAnswersStep DEF vars, Enter, Proceed, Begin, Load, Apply, Fail, ReadRow, ReadDone, Crash
<1>2. row' = With(row, o)
  BY <1>1 DEF Commit, OnCurrentRow
<1> QED
  BY <1>1, <1>2

(* Nobody else is in a transaction when a body commits, so the row that the*)
(* others will load is the one with its operation.                         *)
LEMMA CurrentRowStep ==
  ASSUME Registration = {}, Submission = {}, NoAnswers, TypeInv, HoldsLock, OnCurrentRow,
         [Next]_vars
  PROVE  OnCurrentRow'
<1> USE DEF OnCurrentRow
<1>0. /\ Locked \subseteq Op /\ Reader \subseteq Op /\ Locked \cap Reader = {}
      /\ pc \in [Op -> Step] /\ row \in Row /\ DOMAIN txn = Op
  BY OpsAssumption DEF Op, TypeInv, TypeOK
<1>1. ASSUME NEW x \in Op, UNCHANGED <<row, txn>>, NEW s \in {"queued", "begun", "failed"},
             pc' = [pc EXCEPT ![x] = s]
      PROVE  OnCurrentRow'
  BY <1>0, <1>1
<1>2. ASSUME NEW o \in Locked, (\E p \in Process : Enter(o, p)) \/ Begin(o) \/ Fail(o)
      PROVE  OnCurrentRow'
  BY <1>0, <1>1, <1>2 DEF Enter, Begin, Fail
<1>3. ASSUME NEW o \in Locked, Load(o)
      PROVE  OnCurrentRow'
  <2>1. txn' = [txn EXCEPT ![o] = row] /\ pc' = [pc EXCEPT ![o] = "loaded"] /\ row' = row
    BY <1>0, <1>3, RowContents DEF Load, NoAnswers
  <2> QED
    BY <1>0, <2>1
<1>4. ASSUME NEW o \in Locked, Apply(o)
      PROVE  OnCurrentRow'
  <2>1. /\ pc' = [pc EXCEPT ![o] = "applied"] /\ pc[o] = "loaded" /\ row' = row
        /\ \E r \in {None, With(row, o)} : txn' = [txn EXCEPT ![o] = r]
    BY <1>4 DEF Apply
  <2> QED
    BY <1>0, <2>1
<1>5. ASSUME NEW o \in Locked, Commit(o)
      PROVE  OnCurrentRow'
  <2>1. \A u \in Locked : u # o => pc[u] \notin {"loaded", "applied"}
    BY <1>5, LockExcludes DEF AloneUnderLock, InTransaction, Commit, KeyOf
  <2>2. With(row, o).ops = row.ops \cup {o}
    BY <1>0, RowContents
  <2>3. CASE txn[o] = None
    BY <1>0, <1>5, <2>1, <2>3 DEF Commit
  <2>4. CASE txn[o] # None
    BY <1>0, <1>5, <2>1, <2>2, <2>4 DEF Commit
  <2> QED
    BY <2>3, <2>4
<1>6. ASSUME NEW q \in Reader, (\E p \in Process : ReadRow(q, p)) \/ ReadDone(q)
      PROVE  OnCurrentRow'
  <2>1. /\ row' = row /\ \A o \in Locked : txn'[o] = txn[o]
        /\ \A o \in Locked : pc'[o] = pc[o]
    BY <1>0, <1>6 DEF ReadRow, ReadDone
  <2> QED
    BY <2>1
<1>7. ASSUME NEW p \in Process, Crash(p)
      PROVE  OnCurrentRow'
  BY <1>0, <1>7 DEF Crash
<1>8. CASE UNCHANGED vars
  BY <1>8 DEF vars
<1> QED
  BY NoAnswersStep, <1>2, <1>3, <1>4, <1>5, <1>6, <1>7, <1>8 DEF Proceed

(* Every body works on the row as it is.                                   *)
LEMMA CurrentRowInvariance ==
  ASSUME Registration = {}, Submission = {}
  PROVE  Spec => [](NoAnswers /\ OnCurrentRow)
<1>1. Init => NoAnswers /\ OnCurrentRow
  BY DEF Init, NoAnswers, OnCurrentRow, Op
<1>2. NoAnswers /\ OnCurrentRow /\ TypeInv /\ HoldsLock /\ [Next]_vars
        => (NoAnswers /\ OnCurrentRow)'
  BY NoAnswersStep, CurrentRowStep
<1> QED
  BY <1>1, <1>2, TypeInvariance, LockInvariance, PTL DEF Spec

(* A mutation that was acknowledged stays in the row, whatever fails and   *)
(* stops afterwards, provided that every writer holds the room's own key.  *)
THEOREM Durable ==
  ASSUME Registration = {}, Submission = {}
  PROVE  Spec => []AcknowledgedDurable
<1>1. TypeInv /\ NoAnswers /\ OnCurrentRow => AcknowledgedDurable
  BY RowContents DEF TypeInv, TypeOK, NoAnswers, OnCurrentRow, AcknowledgedDurable, Op
<1> QED
  BY <1>1, TypeInvariance, CurrentRowInvariance, PTL

(* On the same condition the row goes from one mutation to the next.       *)
THEOREM OneByOne ==
  ASSUME Registration = {}, Submission = {}
  PROVE  Spec => OneMutationPerWrite
<1>1. NoAnswers /\ OnCurrentRow /\ [Next]_vars
        => [row' # row => \E o \in Locked : row' = With(row, o)]_vars
  BY RowChange
<1> QED
  BY <1>1, CurrentRowInvariance, PTL DEF Spec, OneMutationPerWrite
-----------------------------------------------------------------------------
(* On the same condition a mutation is one step.  What a body has announced*)
(* is what it will write, or the row that it has refused to change.        *)
Announced ==
  \A o \in Locked : pc[o] = "applied" =>
    object[o] = IF txn[o] = None THEN row ELSE txn[o]

LEMMA AnnouncedStep ==
  ASSUME Registration = {}, Submission = {}, NoAnswers, TypeInv, HoldsLock, OnCurrentRow,
         Announced, [Next]_vars
  PROVE  Announced'
<1> USE DEF Announced
<1>0. /\ Locked \subseteq Op /\ Reader \subseteq Op /\ Locked \cap Reader = {}
      /\ pc \in [Op -> Step] /\ row \in Row /\ DOMAIN txn = Op
      /\ DOMAIN object = Objects /\ Op \subseteq Objects /\ Process \cap Op = {}
  BY OpsAssumption DEF Op, Objects, TypeInv, TypeOK
<1>1. ASSUME NEW x \in Op, UNCHANGED <<row, txn, object>>,
             NEW s \in {"queued", "begun", "loaded", "failed"}, pc' = [pc EXCEPT ![x] = s]
      PROVE  Announced'
  BY <1>0, <1>1
<1>2. ASSUME NEW o \in Locked, (\E p \in Process : Enter(o, p)) \/ Begin(o) \/ Fail(o)
      PROVE  Announced'
  BY <1>0, <1>1, <1>2 DEF Enter, Begin, Fail
<1>3. ASSUME NEW o \in Locked, Load(o)
      PROVE  Announced'
  BY <1>0, <1>3 DEF Load
<1>4. ASSUME NEW o \in Locked, Apply(o)
      PROVE  Announced'
  <2>1. pc' = [pc EXCEPT ![o] = "applied"] /\ pc[o] = "loaded" /\ row' = row /\ txn[o] = row
    BY <1>4 DEF Apply, OnCurrentRow
  <2>2. With(row, o) # None
    <3>1. row \in Row /\ o \in Op /\ table \subseteq Submission
      BY <1>0 DEF TypeInv, TypeOK
    <3>2. With(row, o) \in Row
      BY ONLY <3>1, RowTypes
    <3>3. None \notin Row
      BY ONLY OpsAssumption DEF OpsAssumption
    <3> QED
      BY ONLY <3>2, <3>3
  <2>3. \/ /\ object' = [object EXCEPT ![o] = With(row, o)]
           /\ txn' = [txn EXCEPT ![o] = With(row, o)]
        \/ object' = [object EXCEPT ![o] = row] /\ txn' = [txn EXCEPT ![o] = None]
    BY <1>4, <2>1 DEF Apply
  <2> QED
    BY <1>0, <2>1, <2>2, <2>3
<1>5. ASSUME NEW o \in Locked, Commit(o)
      PROVE  Announced'
  <2>1. \A u \in Locked : u # o => pc[u] # "applied"
    BY <1>5, LockExcludes DEF AloneUnderLock, InTransaction, Commit, KeyOf
  <2>2. pc'[o] # "applied" /\ \A u \in Locked : u # o => pc'[u] = pc[u]
    BY <1>0, <1>5 DEF Commit
  <2> QED
    BY <2>1, <2>2
<1>6. ASSUME NEW q \in Reader, (\E p \in Process : ReadRow(q, p)) \/ ReadDone(q)
      PROVE  Announced'
  <2>1. /\ row' = row /\ \A o \in Locked : txn'[o] = txn[o] /\ object'[o] = object[o]
        /\ \A o \in Locked : pc'[o] = pc[o]
    BY <1>0, <1>6 DEF ReadRow, ReadDone
  <2> QED
    BY <2>1
<1>7. ASSUME NEW p \in Process, Crash(p)
      PROVE  Announced'
  <2>1. /\ row' = row /\ txn' = txn /\ \A o \in Locked : object'[o] = object[o]
        /\ \A o \in Locked : pc'[o] = "applied" => pc[o] = "applied"
    BY <1>0, <1>7 DEF Crash
  <2> QED
    BY <2>1
<1>8. CASE UNCHANGED vars
  BY <1>8 DEF vars
<1> QED
  BY NoAnswersStep, <1>2, <1>3, <1>4, <1>5, <1>6, <1>7, <1>8 DEF Proceed

(* What a step of one operation changes in the atomic room's view.         *)
UnderWay(o) == pc[o] \in {"queued", "begun", "loaded", "applied"}

OnlyOp(o) == \A u \in Op \ {o} : pc'[u] = pc[u] /\ txn'[u] = txn[u] /\ object'[u] = object[u]

AtomicStep == Atomic!Next \/ UNCHANGED Atomic!vars

LEMMA OneOutcome ==
  ASSUME Registration = {}, Submission = {}, NEW o \in Op, OnlyOp(o)
  PROVE  /\ Outcome' = [Outcome EXCEPT ![o] = IF pc'[o] \in {"queued", "begun", "loaded", "applied"}
                                               THEN "asked" ELSE pc'[o]]
         /\ Found' = [Found EXCEPT ![o] =
                        IF o \in Reader THEN txn'[o]
                        ELSE IF pc'[o] \in {"acked", "refused"} THEN object'[o] ELSE None]
<1>1. Op = Mutation \cup Reader
  BY DEF Op, Locked
<1> QED
  BY <1>1 DEF Outcome, Found, OnlyOp

(* BEGIN, the load and the change are not seen.                            *)
LEMMA BodyUnseen ==
  ASSUME Registration = {}, Submission = {}, TypeInv,
         NEW o \in Locked, Begin(o) \/ Load(o) \/ Apply(o)
  PROVE  UNCHANGED <<row, Outcome, Found>>
<1>0. Locked \cap Reader = {} /\ o \in Op
  BY OpsAssumption DEF Op
<1>1. OnlyOp(o) /\ row' = row /\ UnderWay(o) /\ pc'[o] \in {"begun", "loaded", "applied"}
  <2>1. DOMAIN pc = Op /\ DOMAIN txn = Op /\ DOMAIN object = Objects
    BY DEF TypeInv, TypeOK
  <2>2. CASE Begin(o)
    BY <1>0, <2>1, <2>2 DEF OnlyOp, UnderWay, Begin
  <2>3. CASE Load(o)
    BY <1>0, <2>1, <2>3 DEF OnlyOp, UnderWay, Load
  <2>4. CASE Apply(o)
    <3>1. /\ pc[o] = "loaded" /\ pc' = [pc EXCEPT ![o] = "applied"] /\ row' = row
          /\ \E r \in {None, With(txn[o], o)} : txn' = [txn EXCEPT ![o] = r]
          /\ \E r \in {txn[o], With(txn[o], o)} : object' = [object EXCEPT ![o] = r]
      BY <2>4 DEF Apply
    <3> QED
      BY <1>0, <2>1, <3>1 DEF OnlyOp, UnderWay
  <2> QED
    BY <2>2, <2>3, <2>4
<1>2. /\ Outcome' = [Outcome EXCEPT ![o] = "asked"] /\ Found' = [Found EXCEPT ![o] = None]
  BY <1>0, <1>1, OneOutcome
<1>3. Outcome[o] = "asked" /\ Found[o] = None
  BY <1>0, <1>1 DEF Outcome, Found, UnderWay, Op, Locked
<1> QED
  BY <1>1, <1>2, <1>3 DEF Outcome, Found

LEMMA EnterIsAsk ==
  ASSUME Registration = {}, Submission = {}, TypeInv,
         NEW o \in Locked, NEW p \in Process, Enter(o, p)
  PROVE  Atomic!Ask(o)
<1>0. Locked \cap Reader = {} /\ o \in Op
  BY OpsAssumption DEF Op
<1>1. OnlyOp(o) /\ row' = row /\ pc[o] = "idle" /\ pc'[o] = "queued"
  BY <1>0 DEF TypeInv, TypeOK, OnlyOp, Enter
<1>2. /\ Outcome' = [Outcome EXCEPT ![o] = "asked"] /\ Found' = [Found EXCEPT ![o] = None]
  BY <1>0, <1>1, OneOutcome
<1>3. Outcome[o] = "idle" /\ Found[o] = None
  BY <1>0, <1>1 DEF Outcome, Found, Op, Locked
<1>4. Found' = Found
  BY <1>2, <1>3 DEF Found
<1> QED
  BY <1>1, <1>2, <1>3, <1>4 DEF Atomic!Ask

(* COMMIT makes the change or confirms the refusal.                        *)
LEMMA CommitIsPerform ==
  ASSUME Registration = {}, Submission = {}, TypeInv, OnCurrentRow, Announced,
         NEW o \in Locked, Commit(o)
  PROVE  Atomic!Perform(o) \/ Atomic!Refuse(o)
<1>0. Locked \cap Reader = {} /\ o \in Op /\ DOMAIN pc = Op
  BY OpsAssumption DEF Op, TypeInv, TypeOK
<1>1. OnlyOp(o) /\ pc[o] = "applied" /\ object' = object /\ pc'[o] \in {"acked", "refused"}
  BY <1>0 DEF OnlyOp, Commit
<1>2. Outcome[o] = "asked"
  BY <1>0, <1>1 DEF Outcome, Op, Locked
<1>3. Outcome' = [Outcome EXCEPT ![o] = pc'[o]] /\ Found' = [Found EXCEPT ![o] = object[o]]
  BY <1>0, <1>1, OneOutcome
<1>4. CASE txn[o] = None
  <2>1. object[o] = row /\ row' = row /\ pc'[o] = "refused"
    BY <1>0, <1>1, <1>4 DEF Announced, Commit
  <2> QED
    BY <1>2, <1>3, <2>1 DEF Atomic!Refuse
<1>5. CASE txn[o] # None
  <2>1. /\ object[o] = txn[o] /\ txn[o] = With(row, o) /\ row' = txn[o] /\ pc'[o] = "acked"
    BY <1>0, <1>1, <1>5 DEF Announced, OnCurrentRow, Commit
  <2> QED
    BY <1>2, <1>3, <2>1 DEF Atomic!Perform, With
<1> QED
  BY <1>4, <1>5

LEMMA ReadIsObserve ==
  ASSUME Registration = {}, Submission = {}, NoAnswers, TypeInv, NEW q \in Reader,
         (\E p \in Process : ReadRow(q, p)) \/ ReadDone(q)
  PROVE  Atomic!Observe(q) \/ Atomic!Return(q)
<1>0. q \in Op /\ DOMAIN pc = Op /\ DOMAIN txn = Op /\ DOMAIN object = Objects /\ row \in Row
  BY DEF Op, TypeInv, TypeOK
<1>1. OnlyOp(q) /\ row' = row
  <2>1. CASE \E p \in Process : ReadRow(q, p)
    BY <1>0, <2>1 DEF OnlyOp, ReadRow
  <2>2. CASE ReadDone(q)
    BY <1>0, <2>2 DEF OnlyOp, ReadDone
  <2> QED
    BY <2>1, <2>2
<1>2. CASE \E p \in Process : ReadRow(q, p)
  <2>1. pc[q] = "idle" /\ pc'[q] = "loaded" /\ txn'[q] = row
    BY <1>0, <1>2, RowContents DEF ReadRow, NoAnswers
  <2>2. Outcome[q] = "idle"
    BY <2>1 DEF Outcome
  <2>3. Outcome' = [Outcome EXCEPT ![q] = "asked"] /\ Found' = [Found EXCEPT ![q] = row]
    BY <1>0, <1>1, <2>1, OneOutcome
  <2> QED
    BY <1>1, <2>2, <2>3 DEF Atomic!Observe
<1>3. CASE ReadDone(q)
  <2>1. pc[q] = "loaded" /\ pc'[q] = "acked" /\ txn'[q] = txn[q]
    BY <1>0, <1>3 DEF ReadDone
  <2>2. Outcome[q] = "asked" /\ Found[q] = txn[q]
    BY <2>1 DEF Outcome, Found
  <2>3. Outcome' = [Outcome EXCEPT ![q] = "acked"] /\ Found' = [Found EXCEPT ![q] = txn[q]]
    BY <1>0, <1>1, <2>1, OneOutcome
  <2>4. Found' = Found
    BY <2>2, <2>3 DEF Found
  <2> QED
    BY <1>1, <2>2, <2>3, <2>4 DEF Atomic!Return
<1> QED
  BY <1>2, <1>3

(* ROLLBACK loses one request, a process that stops all it has under way.  *)
LEMMA FailIsLose ==
  ASSUME Registration = {}, Submission = {}, TypeInv,
         (\E o \in Locked : Fail(o)) \/ (\E p \in Process : Crash(p))
  PROVE  \E lost \in SUBSET Op : Atomic!Lose(lost)
<1>0. /\ Op = Mutation \cup Reader /\ Locked \cap Reader = {} /\ Locked \subseteq Op
      /\ Process \cap Op = {} /\ DOMAIN pc = Op /\ DOMAIN object = Objects /\ Op \subseteq Objects
  BY OpsAssumption DEF Op, Locked, Objects, TypeInv, TypeOK
<1>1. \E lost \in SUBSET Op :
        /\ \A o \in lost : UnderWay(o)
        /\ \A o \in Op : pc'[o] = IF o \in lost THEN "failed" ELSE pc[o]
        /\ row' = row /\ txn' = txn /\ \A o \in Op : object'[o] = object[o]
  <2>1. ASSUME NEW o \in Locked, Fail(o)
        PROVE  /\ \A u \in {o} : UnderWay(u)
               /\ \A u \in Op : pc'[u] = IF u \in {o} THEN "failed" ELSE pc[u]
               /\ row' = row /\ txn' = txn /\ \A u \in Op : object'[u] = object[u]
    BY <1>0, <2>1 DEF Fail, UnderWay
  <2>2. ASSUME NEW p \in Process, Crash(p)
        PROVE  /\ \A u \in {o \in Op : proc[o] = p /\ UnderWay(o)} : UnderWay(u)
               /\ \A u \in Op : pc'[u] = IF u \in {o \in Op : proc[o] = p /\ UnderWay(o)}
                                        THEN "failed" ELSE pc[u]
               /\ row' = row /\ txn' = txn /\ \A u \in Op : object'[u] = object[u]
    BY <1>0, <2>2 DEF Crash, UnderWay
  <2>3. CASE \E o \in Locked : Fail(o)
    BY <1>0, <2>1, <2>3
  <2>4. CASE \E p \in Process : Crash(p)
    <3>1. PICK p \in Process : Crash(p)
      BY <2>4
    <3>2. {o \in Op : proc[o] = p /\ UnderWay(o)} \in SUBSET Op
      OBVIOUS
    <3> QED
      BY <2>2, <3>1, <3>2
  <2> QED
    BY <2>3, <2>4
<1>2. PICK lost \in SUBSET Op :
        /\ \A o \in lost : UnderWay(o)
        /\ \A o \in Op : pc'[o] = IF o \in lost THEN "failed" ELSE pc[o]
        /\ row' = row /\ txn' = txn /\ \A o \in Op : object'[o] = object[o]
  BY <1>1
<1>3. \A o \in lost : Outcome[o] = "asked"
  BY <1>0, <1>2 DEF Outcome, UnderWay
<1>4. Outcome' = [o \in Atomic!Request |-> IF o \in lost THEN "failed" ELSE Outcome[o]]
  BY <1>0, <1>2 DEF Outcome, Atomic!Request
<1>5. Found' = Found
  <2>1. \A o \in Op : (pc'[o] \in {"acked", "refused"}) <=> (pc[o] \in {"acked", "refused"})
    BY <1>0, <1>2 DEF UnderWay
  <2> QED
    BY <1>0, <1>2, <2>1 DEF Found
<1> QED
  BY <1>2, <1>3, <1>4, <1>5 DEF Atomic!Lose

(* For any number of processes, requests and crashes: where every writer   *)
(* holds the room's lock, the room changes by one request at a time, in one*)
(* step on the room as it is, shown as such in the reply.                  *)
THEOREM ImplementsAtomicRoom ==
  ASSUME Registration = {}, Submission = {}
  PROVE  Spec => AtomicSpec
<1>1. Init => Announced /\ Atomic!Init
  BY DEF Init, Announced, Atomic!Init, Atomic!Request, Outcome, Found, Fresh, Op, Locked
<1>2. /\ NoAnswers /\ TypeInv /\ HoldsLock /\ OnCurrentRow /\ Announced /\ [Next]_vars
      => Announced'
  BY AnnouncedStep
<1>3. /\ NoAnswers /\ TypeInv /\ OnCurrentRow /\ Announced /\ [Next]_vars
      => [Atomic!Next]_(Atomic!vars)
  <2> SUFFICES ASSUME NoAnswers, TypeInv, OnCurrentRow, Announced, [Next]_vars PROVE AtomicStep
    BY DEF AtomicStep
  <2>0. Locked = Mutation /\ Op = Atomic!Request
    BY DEF Locked, Op, Atomic!Request
  <2>1. ASSUME NEW o \in Locked, NEW p \in Process, Enter(o, p) PROVE AtomicStep
    BY <2>0, <2>1, EnterIsAsk DEF AtomicStep, Atomic!Next
  <2>2. ASSUME NEW o \in Locked, Proceed(o) PROVE AtomicStep
    <3>1. CASE Commit(o)
      BY <2>0, <3>1, CommitIsPerform DEF AtomicStep, Atomic!Next
    <3>2. CASE Begin(o) \/ Load(o) \/ Apply(o)
      BY <3>2, BodyUnseen DEF AtomicStep, Atomic!vars
    <3> QED
      BY <2>2, <3>1, <3>2 DEF Proceed
  <2>3. ASSUME NEW q \in Reader, (\E p \in Process : ReadRow(q, p)) \/ ReadDone(q)
        PROVE  AtomicStep
    BY <2>3, ReadIsObserve DEF AtomicStep, Atomic!Next
  <2>4. CASE (\E o \in Locked : Fail(o)) \/ (\E p \in Process : Crash(p))
    BY <2>0, <2>4, FailIsLose DEF AtomicStep, Atomic!Next
  <2>5. CASE UNCHANGED vars
    BY <2>5 DEF vars, AtomicStep, Atomic!vars, Outcome, Found
  <2> QED
    BY NoAnswersStep, <2>1, <2>2, <2>3, <2>4, <2>5
<1> QED
  BY <1>1, <1>2, <1>3, CurrentRowInvariance, TypeInvariance, LockInvariance, PTL
     DEF Spec, AtomicSpec, Atomic!Spec
=============================================================================
