------------------------- MODULE ContestSubmissions -------------------------
(***************************************************************************)
(* Contest answers of one player: submitContestAnswerFast (server/index.ts)*)
(* under contestSubmitMutex, and saveContestSubmission with its sequence   *)
(* and its idempotency key (server/roomDatabase.ts).  The checks on earlier*)
(* answers read the cached room, which any getPersistedRoom may replace by *)
(* a snapshot read a moment ago; the row goes to contest_submissions.      *)
(* Answers are right or wrong; points and penalties are in Scoreboard.     *)
(***************************************************************************)
EXTENDS Naturals, Sequences, FiniteSets

CONSTANTS
  Request,      \* calls of the submit handler
  IdKey,        \* idempotency keys, one per answer the client means to give
  Question, OneTry,   \* problems; those of answerKind "choice"
  Null,
  MaxReloads, MaxFailures   \* bounds: cache replacements, failing database calls

ASSUME RequestsAssumption ==
  /\ OneTry \subseteq Question /\ Null \notin Request \cup IdKey \cup Question
  /\ MaxReloads \in Nat /\ MaxFailures \in Nat

VARIABLES
  answer,     \* IdKey -> the answer sent with that key, first time and retries alike
  table,      \* contest_submissions, in order of insertion
  next,       \* contest_submission_sequences.next_sequence
  memory,     \* the player of the cached room: problem -> its last submission
  generation, \* how often the cached room was replaced
  snapshot,   \* what a getPersistedRoom under way has read, or Null
  call,       \* Request -> its progress
  failures,
  misled      \* history: an answer was checked although cache and table differed on its problem

submitVars == <<answer, table, next, memory, generation, snapshot, call, failures, misled>>

Answer == [problem : Question, correct : BOOLEAN]
LastAnswer == [correct : BOOLEAN, attempts : Nat]
Record == [key : IdKey, problem : Question, correct : BOOLEAN, attempts : Nat, sequence : Nat]
Memory == [Question -> LastAnswer \cup {Null}]
ASSUME NoneAssumption == Null \notin LastAnswer

(* pc: idle, waiting for the submit mutex, then checked, looked up,        *)
(* sequenced, stored, and done with a reply or without one.                *)
Call == [pc : {"idle", "waiting", "checked", "unknown", "sequenced", "stored", "done"},
         key : IdKey \cup {Null}, attempts : Nat, sequence : Nat, on : Nat,
         reply : {"none", "accepted", "reused", "alreadyCorrect", "onlyOnce"}]
NoCall == [pc |-> "idle", key |-> Null, attempts |-> 0, sequence |-> 0, on |-> 0,
           reply |-> "none"]

Rows      == {table[i] : i \in DOMAIN table}
RowsOf(p) == {row \in Rows : row.problem = p}

(* Faulty variant: the key is not looked up.                               *)
NeverStored(k) == FALSE

Stored(k) == \E row \in Rows : row.key = k
ProblemOf(r) == answer[call[r].key].problem

(* Rows read back in sequence order: the last one of each problem counts.  *)
Hydrated ==
  [p \in Question |->
     IF RowsOf(p) = {} THEN Null
     ELSE LET last == CHOOSE row \in RowsOf(p) :
                        \A other \in RowsOf(p) : other.sequence <= row.sequence
          IN [correct |-> last.correct, attempts |-> last.attempts]]

Advance(r, to) == call' = [call EXCEPT ![r].pc = to]
Reply(r, what) == call' = [call EXCEPT ![r].pc = "done", ![r].reply = what]
-----------------------------------------------------------------------------
Send(r, k) ==
  /\ call[r].pc = "idle"
  /\ call' = [call EXCEPT ![r].pc = "waiting", ![r].key = k]
  /\ UNCHANGED <<answer, table, next, memory, generation, snapshot, failures, misled>>

(* contestSubmitMutex serializes the answers to one problem.               *)
Busy(q)      == call[q].pc \in {"checked", "unknown", "sequenced", "stored"}

(* Faulty variant: answers to one problem are not serialized.              *)
NoMutex(r) == TRUE

MutexFree(r) == \A q \in Request : Busy(q) => ProblemOf(q) # ProblemOf(r)

(* The answer is checked against the cached player, who is kept from then  *)
(* on even if the cache is replaced.                                       *)
Check(r) ==
  /\ call[r].pc = "waiting" /\ MutexFree(r)
  /\ LET p == ProblemOf(r)
         previous == memory[p]
     IN IF previous # Null /\ previous.correct THEN Reply(r, "alreadyCorrect")
        ELSE IF previous # Null /\ p \in OneTry THEN Reply(r, "onlyOnce")
        ELSE call' = [call EXCEPT ![r].pc = "checked", ![r].on = generation,
                                  ![r].attempts = IF previous = Null THEN 1
                                                  ELSE previous.attempts + 1]
  /\ misled' = (misled \/ memory[ProblemOf(r)] # Hydrated[ProblemOf(r)])
  /\ UNCHANGED <<answer, table, next, memory, generation, snapshot, failures>>

(* saveContestSubmission: look the key up, draw a sequence, insert.        *)
LookUp(r) ==
  /\ call[r].pc = "checked"
  /\ IF Stored(call[r].key) THEN Reply(r, "reused") ELSE Advance(r, "unknown")
  /\ UNCHANGED <<answer, table, next, memory, generation, snapshot, failures, misled>>

(* Faulty variant: the cached player has the answer before the table has.  *)
AllocateApplying(r) ==
  /\ call[r].pc = "unknown"
  /\ next' = next + 1
  /\ call' = [call EXCEPT ![r].pc = "sequenced", ![r].sequence = next]
  /\ memory' = [memory EXCEPT ![ProblemOf(r)] =
                  [correct |-> answer[call[r].key].correct, attempts |-> call[r].attempts]]
  /\ UNCHANGED <<answer, table, generation, snapshot, failures, misled>>

AllocateSequence(r) ==
  /\ call[r].pc = "unknown"
  /\ next' = next + 1
  /\ call' = [call EXCEPT ![r].pc = "sequenced", ![r].sequence = next]
  /\ UNCHANGED <<answer, table, memory, generation, snapshot, failures, misled>>

NewRow(r) == LET k == call[r].key IN
  [key |-> k, problem |-> answer[k].problem, correct |-> answer[k].correct,
   attempts |-> call[r].attempts, sequence |-> call[r].sequence]

Insert(r) ==
  /\ call[r].pc = "sequenced"
  /\ IF Stored(call[r].key)
     THEN Reply(r, "reused") /\ UNCHANGED table
     ELSE table' = Append(table, NewRow(r)) /\ Advance(r, "stored")
  /\ UNCHANGED <<answer, next, memory, generation, snapshot, failures, misled>>

(* The stored submission is applied to the player that was checked.        *)
ApplyToPlayer(r) ==
  /\ call[r].pc = "stored"
  /\ memory' = IF call[r].on # generation THEN memory
               ELSE [memory EXCEPT ![ProblemOf(r)] =
                       [correct |-> answer[call[r].key].correct,
                        attempts |-> call[r].attempts]]
  /\ Reply(r, "accepted")
  /\ UNCHANGED <<answer, table, next, generation, snapshot, failures, misled>>

(* Faulty variant: a failing call keeps the mutex.                         *)
FailHolding(r) ==
  /\ failures < MaxFailures /\ failures' = failures + 1
  /\ call[r].pc \in {"checked", "unknown", "sequenced"}
  /\ Advance(r, "stuck")
  /\ UNCHANGED <<answer, table, next, memory, generation, snapshot, misled>>

(* A database call throws, a statement perhaps having taken effect: the    *)
(* mutex is released and the client gets no reply.                         *)
Fail(r) ==
  /\ failures < MaxFailures /\ failures' = failures + 1
  /\ call[r].pc \in {"checked", "unknown", "sequenced"}
  /\ Advance(r, "done")
  /\ \/ UNCHANGED table
     \/ /\ call[r].pc = "sequenced" /\ ~Stored(call[r].key)
        /\ table' = Append(table, NewRow(r))
  /\ UNCHANGED <<answer, next, memory, generation, snapshot, misled>>

(* getPersistedRoom, by a mutation, the maintenance or a read: the rows are*)
(* read, and some time later the object built from them is the cached one. *)
ReloadRead ==
  /\ snapshot = Null /\ generation < MaxReloads
  /\ snapshot' = Hydrated
  /\ UNCHANGED <<answer, table, next, memory, generation, call, failures, misled>>

ReloadDone ==
  /\ snapshot # Null
  /\ memory' = snapshot /\ snapshot' = Null /\ generation' = generation + 1
  /\ UNCHANGED <<answer, table, next, call, failures, misled>>

SubmitInit ==
  /\ answer \in [IdKey -> Answer]
  /\ table = <<>> /\ next = 1 /\ generation = 0 /\ snapshot = Null /\ failures = 0
  /\ misled = FALSE
  /\ memory = [p \in Question |-> Null]
  /\ call = [r \in Request |-> NoCall]

Handle(r) == \/ Check(r) \/ LookUp(r) \/ AllocateSequence(r) \/ Insert(r)
             \/ ApplyToPlayer(r) \/ Fail(r)

SubmitNext ==
  \/ \E r \in Request : (\E k \in IdKey : Send(r, k)) \/ Handle(r)
  \/ ReloadRead \/ ReloadDone

(* The mutex serves its waiters and the database answers or fails.         *)
SubmitFairness == \A r \in Request : SF_submitVars(Check(r)) /\ WF_submitVars(Handle(r))

SubmitSpec == SubmitInit /\ [][SubmitNext]_submitVars
-----------------------------------------------------------------------------
SubmitTypeOK ==
  /\ answer \in [IdKey -> Answer] /\ table \in Seq(Record) /\ next \in Nat
  /\ memory \in Memory /\ generation \in Nat /\ snapshot \in Memory \cup {Null}
  /\ call \in [Request -> Call] /\ failures \in Nat /\ misled \in BOOLEAN

(* However often an answer is sent, it is stored once, under a sequence no *)
(* other answer has: retries, late duplicates and failed calls included.   *)
StoredOnce ==
  \A i, j \in DOMAIN table :
    table[i].key = table[j].key \/ table[i].sequence = table[j].sequence => i = j

(* A reply of success tells of a stored answer, and of two requests with   *)
(* one key only one counts as new.                                         *)
RepliesMatchRows ==
  \A r \in Request :
    /\ call[r].reply \in {"accepted", "reused"} => Stored(call[r].key)
    /\ \A q \in Request \ {r} : call[r].reply = "accepted" /\ call[q].reply = "accepted"
                                => call[r].key # call[q].key

(* The answers were checked against a cache that agrees with the table.    *)
(* The submit mutex keeps it so, as long as no reload and no failing call  *)
(* has touched it; a snapshot that arrives late, or a failed call that had *)
(* stored its row, may not.                                                *)
WellInformed == ~misled \/ (generation = 0 /\ failures = 0)

(* A problem solved is closed: at most one right answer to it is stored,   *)
(* whatever the order of the calls, their retries and their failures.      *)
SolvedOnce ==
  WellInformed => \A a, b \in Rows : a.problem = b.problem /\ a.correct /\ b.correct => a = b

(* On the same condition the number of attempts, which sets the penalty,   *)
(* counts the answers that were stored for the problem up to this one.     *)
AttemptsCounted ==
  WellInformed => \A i \in DOMAIN table :
    table[i].attempts = Cardinality({j \in 1 .. i : table[j].problem = table[i].problem})

(* What the table, and the calls, say of a book of answers.                *)
EntryOf(row) == [key |-> row.key, problem |-> row.problem, correct |-> row.correct]
Entries  == {EntryOf(row) : row \in Rows}
Asked    == [r \in Request |-> call[r].key]
Entering == {r \in Request : call[r].pc = "stored"}
Told     == [r \in Request |-> IF call[r].pc = "done" /\ call[r].reply = "none" THEN "lost"
                               ELSE call[r].reply]

(* The submit path keeps a book of answers for its player: whatever the    *)
(* cache has missed, whatever is retried and fails, an answer is entered   *)
(* once and as it was sent, and every reply is true of the book, refusals  *)
(* included: an old cache lets an answer in, but never turns one away      *)
(* without cause.                                                          *)
Book == INSTANCE AnswerBook WITH
  Choice <- OneTry, None <- Null,
  book <- Entries, asked <- Asked, entered <- Entering, reply <- Told

BookSpec == Book!Spec

(* Every answer sent is handled to the end, whatever the order in which the*)
(* mutex admits the calls and whichever of them fail: in the end no call   *)
(* waits and none is under way.                                            *)
AnswersSettle == <>[](\A r \in Request : call[r].pc \in {"idle", "done"})
=============================================================================
