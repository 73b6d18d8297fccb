--------------------- MODULE ContestSubmissions_proofs ---------------------
(***************************************************************************)
(* What the submit path stores and answers, for any requests, keys and     *)
(* problems and any number of reloads and failures.  Answers to a problem  *)
(* are handled one after the other, so its rows are in the order of their  *)
(* sequence numbers and the last one is what a player is built from; whoso *)
(* was checked against that row has counted right until the insert.        *)
(***************************************************************************)
EXTENDS ContestSubmissions, FiniteSetTheorems, TLAPS

Linked ==
  \A r \in Request : /\ call[r].pc # "idle" => call[r].key \in IdKey
                     /\ call[r].reply # "none" => call[r].pc = "done"

Exclusive ==
  \A r, q \in Request : r # q /\ Busy(r) /\ Busy(q) => ProblemOf(r) # ProblemOf(q)

(* The rows of one problem are in order, and one of them is the last.      *)
Ordered(t) ==
  \A i, j \in DOMAIN t : t[i].problem = t[j].problem /\ i < j => t[i].sequence < t[j].sequence

LastAt(t, p, i) ==
  /\ i \in DOMAIN t /\ t[i].problem = p
  /\ \A j \in DOMAIN t : t[j].problem = p => j <= i

HasLast(t, p) == (\A j \in DOMAIN t : t[j].problem # p) \/ \E i \in DOMAIN t : LastAt(t, p, i)

RowsInOrder ==
  /\ Ordered(table)
  /\ \A i \in DOMAIN table : table[i].sequence < next
  /\ \A p \in Question : HasLast(table, p)

(* A sequence number that was drawn is new, and larger than all of its     *)
(* problem.                                                                *)
Drawn(r) ==
  /\ call[r].sequence < next
  /\ \A i \in DOMAIN table :
       /\ table[i].sequence # call[r].sequence
       /\ table[i].problem = ProblemOf(r) => table[i].sequence < call[r].sequence
  /\ \A q \in Request \ {r} : call[q].pc = "sequenced" => call[q].sequence # call[r].sequence

NumbersDrawn == \A r \in Request : call[r].pc = "sequenced" => Drawn(r)

(* Whoever has inserted the row of a key is the only one.                  *)
Inserted(r) == call[r].pc = "stored" \/ call[r].reply = "accepted"

OneInserter ==
  /\ \A r \in Request : Inserted(r) \/ call[r].reply = "reused" => Stored(call[r].key)
  /\ \A r, q \in Request : r # q /\ Inserted(r) /\ Inserted(q) => call[r].key # call[q].key

(* As long as nobody was misled: the rows are counted, a right one ends its*)
(* problem, and whoever has been checked still knows the count.            *)
Places(t, p) == {j \in DOMAIN t : t[j].problem = p}

CountedRight(t) ==
  \A i \in DOMAIN t :
    t[i].attempts = Cardinality({j \in 1 .. i : t[j].problem = t[i].problem})

ClosedWhenSolved(t) ==
  \A i \in DOMAIN t : t[i].correct => LastAt(t, t[i].problem, i)

Knows(r) ==
  /\ \A j \in Places(table, ProblemOf(r)) : ~table[j].correct
  /\ call[r].attempts = Cardinality(Places(table, ProblemOf(r))) + 1

Informed ==
  ~misled =>
    /\ CountedRight(table) /\ ClosedWhenSolved(table)
    /\ \A r \in Request : call[r].pc \in {"checked", "unknown", "sequenced"} => Knows(r)

(* What the player is built from when the row is the last of its problem.  *)
SubmissionOf(row) == [correct |-> row.correct, attempts |-> row.attempts]

(* A cache that no reload and no failure has touched differs from the table*)
(* only while a row waits to be applied.                                   *)
Followed ==
  generation = 0 /\ failures = 0 =>
    /\ ~misled
    /\ \A r \in Request : Busy(r) => call[r].on = 0
    /\ \A r \in Request : call[r].pc = "stored" =>
         Hydrated[ProblemOf(r)] =
           [correct |-> answer[call[r].key].correct, attempts |-> call[r].attempts]
    /\ \A p \in Question :
         (\A r \in Request : call[r].pc = "stored" => ProblemOf(r) # p) => memory[p] = Hydrated[p]

IInv ==
  /\ SubmitTypeOK /\ Linked /\ Exclusive /\ RowsInOrder /\ NumbersDrawn
  /\ StoredOnce /\ OneInserter /\ Informed /\ Followed
-----------------------------------------------------------------------------
LEMMA InitIInv == SubmitInit => IInv
<1> SUFFICES ASSUME SubmitInit PROVE IInv
  OBVIOUS
<1>a. NoCall \in Call
  BY DEF NoCall, Call
<1>b. memory \in Memory
  BY DEF SubmitInit, Memory
<1>c. table \in Seq(Record)
  BY DEF SubmitInit
<1>1. SubmitTypeOK
  BY <1>a, <1>b, <1>c DEF SubmitInit, SubmitTypeOK
<1>2. Linked /\ Exclusive /\ RowsInOrder /\ NumbersDrawn /\ StoredOnce /\ OneInserter
  BY DEF SubmitInit, NoCall, Linked, Exclusive, Busy, RowsInOrder, Ordered, HasLast, NumbersDrawn,
         StoredOnce, OneInserter, Inserted
<1>3. Informed
  BY DEF SubmitInit, NoCall, Informed, CountedRight, ClosedWhenSolved
<1>4. Hydrated = [p \in Question |-> Null]
  BY DEF SubmitInit, Hydrated, RowsOf, Rows
<1>5. Followed
  BY <1>4 DEF SubmitInit, NoCall, Followed, Busy
<1> QED
  BY <1>1, <1>2, <1>3, <1>5 DEF IInv

(* What a call has named stays so for the rest of it.                      *)
LEMMA ProblemType ==
  ASSUME SubmitTypeOK, Linked, NEW r \in Request, call[r].pc # "idle"
  PROVE  ProblemOf(r) \in Question /\ answer[call[r].key] \in Answer
  BY DEF SubmitTypeOK, Linked, ProblemOf, Answer

LEMMA NewRowType ==
  ASSUME SubmitTypeOK, Linked, NEW r \in Request, call[r].pc # "idle"
  PROVE  /\ NewRow(r) \in Record
         /\ NewRow(r).key = call[r].key /\ NewRow(r).problem = ProblemOf(r)
         /\ NewRow(r).correct = answer[call[r].key].correct
         /\ NewRow(r).attempts = call[r].attempts /\ NewRow(r).sequence = call[r].sequence
  BY DEF SubmitTypeOK, Linked, ProblemOf, Answer, NewRow, Record, Call

(* A player is built from the last row of each problem.                    *)
LEMMA LastIsHydrated ==
  ASSUME NEW t \in Seq(Record), Ordered(t), NEW p, NEW i, LastAt(t, p, i)
  PROVE  LET S == {row \in {t[k] : k \in DOMAIN t} : row.problem = p}
         IN  S # {} /\ (CHOOSE row \in S : \A other \in S : other.sequence <= row.sequence) = t[i]
<1> DEFINE S == {row \in {t[k] : k \in DOMAIN t} : row.problem = p}
           Q(row) == \A other \in S : other.sequence <= row.sequence
<1>1. t[i] \in S
  BY DEF LastAt
<1>2. \A j \in DOMAIN t : t[j].sequence \in Nat /\ j \in Nat
  <2>1. \A j \in DOMAIN t : t[j] \in Record /\ j \in Nat
    OBVIOUS
  <2> QED
    BY <2>1 DEF Record
<1>3. Q(t[i])
  <2> SUFFICES ASSUME NEW j \in DOMAIN t, t[j].problem = p PROVE t[j].sequence <= t[i].sequence
    OBVIOUS
  <2>1. j <= i /\ t[i].problem = p /\ i \in DOMAIN t
    BY DEF LastAt
  <2>2. CASE j = i
    BY <1>2, <2>2
  <2>3. CASE j # i
    BY <1>2, <2>1, <2>3 DEF Ordered
  <2> QED
    BY <2>2, <2>3
<1>4. ASSUME NEW row \in S, Q(row) PROVE row = t[i]
  <2>1. PICK j \in DOMAIN t : row = t[j] /\ t[j].problem = p
    OBVIOUS
  <2>2. t[i].sequence <= t[j].sequence
    BY <1>1, <1>4, <2>1
  <2>3. j <= i /\ t[i].problem = p /\ i \in DOMAIN t
    BY <2>1 DEF LastAt
  <2>4. CASE j < i
    BY <1>2, <2>1, <2>2, <2>3, <2>4 DEF Ordered
  <2> QED
    BY <1>2, <2>1, <2>3, <2>4
<1>5. (CHOOSE row \in S : Q(row)) = t[i]
  BY <1>1, <1>3, <1>4
<1> HIDE DEF Q, S
<1>6. S # {} /\ (CHOOSE row \in S : Q(row)) = t[i]
  BY <1>1, <1>5
<1> QED
  BY <1>6 DEF Q, S

LEMMA HydratedLast ==
  ASSUME SubmitTypeOK, Ordered(table), NEW p \in Question, NEW i, LastAt(table, p, i)
  PROVE  Hydrated[p] = SubmissionOf(table[i])
<1>1. table \in Seq(Record)
  BY DEF SubmitTypeOK
<1>2. RowsOf(p) # {} /\ (CHOOSE row \in RowsOf(p) :
                          \A other \in RowsOf(p) : other.sequence <= row.sequence) = table[i]
  BY <1>1, LastIsHydrated DEF RowsOf, Rows
<1> QED
  BY <1>2 DEF Hydrated, SubmissionOf

LEMMA HydratedNone ==
  ASSUME NEW p \in Question, \A j \in DOMAIN table : table[j].problem # p
  PROVE  Hydrated[p] = Null
  BY DEF Hydrated, RowsOf, Rows

(* The sets of places that are counted are finite.                         *)
LEMMA PlacesFinite ==
  ASSUME NEW t \in Seq(Record), NEW p
  PROVE  IsFiniteSet(Places(t, p)) /\ Cardinality(Places(t, p)) \in Nat
<1>1. IsFiniteSet(1 .. Len(t))
  BY FS_Interval
<1>2. Places(t, p) \in SUBSET (1 .. Len(t))
  BY DEF Places
<1> QED
  BY <1>1, <1>2, FS_Subset, FS_CardinalityType
-----------------------------------------------------------------------------
(* A row is put into the table.                                            *)
LEMMA Appended ==
  ASSUME SubmitTypeOK, Linked, NEW r \in Request, call[r].pc # "idle",
         NEW t, t = Append(table, NewRow(r))
  PROVE  /\ t \in Seq(Record) /\ table \in Seq(Record)
         /\ Len(table) \in Nat /\ DOMAIN table = 1 .. Len(table)
         /\ DOMAIN t = 1 .. (Len(table) + 1)
         /\ \A i \in DOMAIN table : t[i] = table[i]
         /\ t[Len(table) + 1] = NewRow(r)
<1>1. NewRow(r) \in Record /\ table \in Seq(Record)
  BY NewRowType DEF SubmitTypeOK
<1> HIDE DEF SubmitTypeOK
<1> QED
  BY <1>1

LEMMA AppendedInOrder ==
  ASSUME IInv, NEW r \in Request, call[r].pc = "sequenced",
         NEW t, t = Append(table, NewRow(r))
  PROVE  /\ Ordered(t) /\ \A i \in DOMAIN t : t[i].sequence < next
         /\ LastAt(t, ProblemOf(r), Len(table) + 1)
         /\ \A p \in Question : HasLast(t, p)
<1>1. SubmitTypeOK /\ Linked /\ Drawn(r) /\ RowsInOrder /\ call[r].pc # "idle"
  BY DEF IInv, NumbersDrawn
<1>2. PICK n \in Nat : n = Len(table) /\ DOMAIN table = 1 .. n /\ DOMAIN t = 1 .. (n + 1)
  BY <1>1, Appended
<1>3. (\A i \in 1 .. n : t[i] = table[i]) /\ t[n + 1] = NewRow(r)
  BY <1>1, <1>2, Appended
<1>4. NewRow(r).problem = ProblemOf(r) /\ NewRow(r).sequence = call[r].sequence
  BY <1>1, NewRowType
<1>5. Ordered(t)
  BY <1>1, <1>2, <1>3, <1>4 DEF Ordered, Drawn, RowsInOrder
<1>6. \A i \in DOMAIN t : t[i].sequence < next
  BY <1>1, <1>2, <1>3, <1>4 DEF Drawn, RowsInOrder
<1>7. LastAt(t, ProblemOf(r), n + 1)
  BY <1>2, <1>3, <1>4 DEF LastAt
<1>8. ASSUME NEW p \in Question PROVE HasLast(t, p)
  <2>1. CASE p = ProblemOf(r)
    BY <1>7, <1>2, <2>1 DEF HasLast
  <2>2. CASE p # ProblemOf(r)
    BY <1>1, <1>2, <1>3, <1>4, <2>2, SMTT(30) DEF HasLast, LastAt, RowsInOrder
  <2> QED
    BY <2>1, <2>2
<1> QED
  BY <1>2, <1>5, <1>6, <1>7, <1>8

LEMMA AppendedOnce ==
  ASSUME IInv, NEW r \in Request, call[r].pc = "sequenced", ~Stored(call[r].key),
         NEW t, t = Append(table, NewRow(r))
  PROVE  \A i, j \in DOMAIN t :
           t[i].key = t[j].key \/ t[i].sequence = t[j].sequence => i = j
<1>1. SubmitTypeOK /\ Linked /\ Drawn(r) /\ StoredOnce /\ call[r].pc # "idle"
  BY DEF IInv, NumbersDrawn
<1>2. PICK n \in Nat : n = Len(table) /\ DOMAIN table = 1 .. n /\ DOMAIN t = 1 .. (n + 1)
  BY <1>1, Appended
<1>3. (\A i \in 1 .. n : t[i] = table[i]) /\ t[n + 1] = NewRow(r)
  BY <1>1, <1>2, Appended
<1>4. NewRow(r).key = call[r].key /\ NewRow(r).sequence = call[r].sequence
  BY <1>1, NewRowType
<1>5. \A i \in 1 .. n : table[i].key # call[r].key /\ table[i].sequence # call[r].sequence
  BY <1>1, <1>2 DEF Stored, Rows, Drawn
<1> QED
  BY <1>1, <1>2, <1>3, <1>4, <1>5 DEF StoredOnce

LEMMA AppendedPlaces ==
  ASSUME IInv, NEW r \in Request, call[r].pc = "sequenced",
         NEW t, t = Append(table, NewRow(r)), NEW p
  PROVE  IF p = ProblemOf(r)
         THEN /\ Places(t, p) = Places(table, p) \cup {Len(table) + 1}
              /\ Cardinality(Places(t, p)) = Cardinality(Places(table, p)) + 1
         ELSE Places(t, p) = Places(table, p)
<1>1. SubmitTypeOK /\ Linked /\ call[r].pc # "idle"
  BY DEF IInv
<1>2. PICK n \in Nat : n = Len(table) /\ DOMAIN table = 1 .. n /\ DOMAIN t = 1 .. (n + 1)
  BY <1>1, Appended
<1>3. (\A i \in 1 .. n : t[i] = table[i]) /\ t[n + 1] = NewRow(r)
  BY <1>1, <1>2, Appended
<1>4. NewRow(r).problem = ProblemOf(r)
  BY <1>1, NewRowType
<1>5. CASE p = ProblemOf(r)
  <2>1. Places(t, p) = Places(table, p) \cup {n + 1}
    BY <1>2, <1>3, <1>4, <1>5 DEF Places
  <2>2. n + 1 \notin Places(table, p)
    BY <1>2 DEF Places
  <2>3. IsFiniteSet(Places(table, p))
    BY <1>1, PlacesFinite DEF SubmitTypeOK
  <2>4. Cardinality(Places(table, p) \cup {n + 1}) = Cardinality(Places(table, p)) + 1
    BY <2>2, <2>3, FS_AddElement
  <2> QED
    BY <1>2, <1>5, <2>1, <2>4
<1>6. CASE p # ProblemOf(r)
  BY <1>2, <1>3, <1>4, <1>6 DEF Places
<1> QED
  BY <1>5, <1>6

LEMMA AppendedCounted ==
  ASSUME IInv, ~misled, NEW r \in Request, call[r].pc = "sequenced",
         NEW t, t = Append(table, NewRow(r))
  PROVE  CountedRight(t) /\ ClosedWhenSolved(t)
<1>1. SubmitTypeOK /\ Linked /\ call[r].pc # "idle" /\ Knows(r)
  BY DEF IInv, Informed
<1>2. PICK n \in Nat : n = Len(table) /\ DOMAIN table = 1 .. n /\ DOMAIN t = 1 .. (n + 1)
  BY <1>1, Appended
<1>3. (\A i \in 1 .. n : t[i] = table[i]) /\ t[n + 1] = NewRow(r)
  BY <1>1, <1>2, Appended
<1>4. NewRow(r).problem = ProblemOf(r) /\ NewRow(r).attempts = call[r].attempts
  BY <1>1, NewRowType
<1>5. CountedRight(table) /\ ClosedWhenSolved(table)
  BY DEF IInv, Informed
<1>6. ASSUME NEW i \in 1 .. (n + 1)
      PROVE  t[i].attempts = Cardinality({j \in 1 .. i : t[j].problem = t[i].problem})
  <2>1. CASE i = n + 1
    <3>1. {j \in 1 .. i : t[j].problem = t[i].problem} = Places(t, ProblemOf(r))
      BY <1>2, <1>3, <1>4, <2>1 DEF Places
    <3>2. Cardinality(Places(t, ProblemOf(r))) = Cardinality(Places(table, ProblemOf(r))) + 1
      BY AppendedPlaces
    <3>3. t[i].attempts = Cardinality(Places(table, ProblemOf(r))) + 1
      BY <1>1, <1>3, <1>4, <2>1 DEF Knows
    <3> QED
      BY <3>1, <3>2, <3>3
  <2>2. CASE i # n + 1
    <3>1. i \in 1 .. n
      BY <2>2
    <3>2. {j \in 1 .. i : t[j].problem = t[i].problem}
            = {j \in 1 .. i : table[j].problem = table[i].problem}
      <4>1. \A j \in 1 .. i : j \in 1 .. n
        BY <3>1
      <4>2. i \in 1 .. i
        BY <3>1
      <4>3. \A j \in 1 .. i : t[j].problem = t[i].problem <=> table[j].problem = table[i].problem
        BY <1>3, <4>1, <4>2, Zenon
      <4> QED
        BY <4>3
    <3>3. table[i].attempts = Cardinality({j \in 1 .. i : table[j].problem = table[i].problem})
      BY <1>2, <1>5, <3>1 DEF CountedRight
    <3>4. t[i] = table[i]
      BY <1>3, <3>1
    <3> QED
      BY <3>2, <3>3, <3>4
  <2> QED
    BY <2>1, <2>2
<1>7. ASSUME NEW i \in 1 .. (n + 1), t[i].correct PROVE LastAt(t, t[i].problem, i)
  <2>1. CASE i = n + 1
    BY <1>2, <1>3, <2>1 DEF LastAt
  <2>2. CASE i # n + 1
    <3>1. i \in 1 .. n /\ t[i] = table[i] /\ LastAt(table, table[i].problem, i)
      BY <1>2, <1>3, <1>5, <1>7, <2>2 DEF ClosedWhenSolved
    <3>2. table[i].problem # ProblemOf(r)
      BY <1>1, <1>2, <1>7, <3>1 DEF Knows, Places
    <3> QED
      BY <1>2, <1>3, <1>4, <3>1, <3>2 DEF LastAt
  <2> QED
    BY <2>1, <2>2
<1> QED
  BY <1>2, <1>6, <1>7 DEF CountedRight, ClosedWhenSolved
-----------------------------------------------------------------------------
(* A call moves on, or is answered.                                        *)
LEMMA Moved ==
  ASSUME SubmitTypeOK, NEW r \in Request, NEW to \in {"waiting", "checked", "unknown", "sequenced", "stored", "done"},
         Advance(r, to)
  PROVE  /\ call' \in [Request -> Call] /\ \A q \in Request \ {r} : call'[q] = call[q]
         /\ call'[r].pc = to /\ call'[r].key = call[r].key /\ call'[r].attempts = call[r].attempts
         /\ call'[r].sequence = call[r].sequence /\ call'[r].on = call[r].on
         /\ call'[r].reply = call[r].reply
  BY DEF SubmitTypeOK, Advance, Call

LEMMA Replied ==
  ASSUME SubmitTypeOK, NEW r \in Request, NEW what \in {"accepted", "reused", "alreadyCorrect", "onlyOnce"},
         Reply(r, what)
  PROVE  /\ call' \in [Request -> Call] /\ \A q \in Request \ {r} : call'[q] = call[q]
         /\ call'[r].pc = "done" /\ call'[r].key = call[r].key
         /\ call'[r].attempts = call[r].attempts
         /\ call'[r].sequence = call[r].sequence /\ call'[r].on = call[r].on
         /\ call'[r].reply = what
  BY DEF SubmitTypeOK, Reply, Call

(* Steps that leave the table alone and give no success away.              *)
LEMMA QuietStep ==
  ASSUME IInv, NEW r \in Request, UNCHANGED <<answer, table, next>>,
         call' \in [Request -> Call], \A q \in Request \ {r} : call'[q] = call[q],
         call[r].pc # "idle", call'[r].key = call[r].key, call'[r].sequence = call[r].sequence,
         call'[r].pc = "sequenced" => call[r].pc = "sequenced",
         Busy(r)' => Busy(r) \/ MutexFree(r),
         Inserted(r)' => Inserted(r),
         call'[r].reply = "reused" => Stored(call[r].key),
         call'[r].reply # "none" => call'[r].pc = "done"
  PROVE  /\ Linked' /\ Exclusive' /\ RowsInOrder' /\ NumbersDrawn' /\ StoredOnce' /\ OneInserter'
         /\ \A q \in Request : ProblemOf(q)' = ProblemOf(q)
<1>1. Linked'
  BY DEF IInv, Linked
<1>2. \A q \in Request : ProblemOf(q)' = ProblemOf(q)
  BY DEF ProblemOf
<1>3. \A q \in Request \ {r} : Busy(q)' <=> Busy(q)
  BY DEF Busy
<1>4. Exclusive'
  BY <1>2, <1>3 DEF IInv, Exclusive, MutexFree
<1>5. RowsInOrder' /\ StoredOnce'
  BY DEF IInv, RowsInOrder, StoredOnce
<1>6. NumbersDrawn'
  BY <1>2 DEF IInv, NumbersDrawn, Drawn
<1>7. \A k : Stored(k)' <=> Stored(k)
  BY DEF Stored, Rows
<1>8. \A q \in Request \ {r} : Inserted(q)' <=> Inserted(q)
  BY DEF Inserted
<1>9. OneInserter'
  BY <1>7, <1>8 DEF IInv, OneInserter
<1> QED
  BY <1>1, <1>2, <1>4, <1>5, <1>6, <1>9

LEMMA HydratedType ==
  ASSUME IInv PROVE Hydrated \in Memory
<1> SUFFICES ASSUME NEW p \in Question PROVE Hydrated[p] \in LastAnswer \cup {Null}
  BY DEF Hydrated, Memory
<1>1. SubmitTypeOK /\ Ordered(table) /\ HasLast(table, p)
  BY DEF IInv, RowsInOrder
<1>2. CASE \A j \in DOMAIN table : table[j].problem # p
  BY <1>2, HydratedNone
<1>3. ASSUME NEW i, LastAt(table, p, i) PROVE Hydrated[p] \in LastAnswer
  <2>1. table[i] \in Record
    BY <1>1, <1>3 DEF SubmitTypeOK, LastAt
  <2>2. Hydrated[p] = SubmissionOf(table[i])
    BY <1>1, <1>3, HydratedLast
  <2> QED
    BY <2>1, <2>2 DEF SubmissionOf, LastAnswer, Record
<1> QED
  BY <1>1, <1>2, <1>3 DEF HasLast
-----------------------------------------------------------------------------
LEMMA SendIInv ==
  ASSUME IInv, NEW r \in Request, NEW k \in IdKey, Send(r, k)
  PROVE  IInv'
<1>1. SubmitTypeOK /\ Linked
  BY DEF IInv
<1>2. /\ call' \in [Request -> Call] /\ \A q \in Request \ {r} : call'[q] = call[q]
      /\ call'[r].pc = "waiting" /\ call'[r].key = k /\ call'[r].reply = call[r].reply
      /\ call[r].pc = "idle"
  BY <1>1 DEF SubmitTypeOK, Send, Call
<1>3. UNCHANGED <<answer, table, next, memory, generation, snapshot, failures, misled>>
  BY DEF Send
<1>4. call[r].reply = "none"
  BY <1>1, <1>2 DEF Linked
<1>5. SubmitTypeOK'
  BY <1>1, <1>2, <1>3 DEF SubmitTypeOK
<1>6. Linked'
  BY <1>1, <1>2, <1>4 DEF Linked
<1>7. /\ ~Busy(r)' /\ ~Inserted(r)' /\ \A q \in Request \ {r} :
           /\ ProblemOf(q)' = ProblemOf(q) /\ Busy(q)' = Busy(q) /\ Inserted(q)' = Inserted(q)
  BY <1>2, <1>3, <1>4 DEF Busy, Inserted, ProblemOf
<1>8. Exclusive'
  BY <1>7 DEF IInv, Exclusive
<1>9. RowsInOrder' /\ StoredOnce'
  BY <1>3 DEF IInv, RowsInOrder, StoredOnce
<1>10. NumbersDrawn'
  BY <1>2, <1>3, <1>7 DEF IInv, NumbersDrawn, Drawn
<1>11. \A key : Stored(key)' <=> Stored(key)
  BY <1>3 DEF Stored, Rows
<1>12. OneInserter'
  BY <1>2, <1>4, <1>7, <1>11 DEF IInv, OneInserter
<1>13. Informed'
  BY <1>2, <1>3, <1>7 DEF IInv, Informed, Knows
<1>14. Hydrated' = Hydrated
  BY <1>3 DEF Hydrated, RowsOf, Rows
<1>15. Followed'
  BY <1>2, <1>3, <1>7, <1>14 DEF IInv, Followed
<1> QED
  BY <1>5, <1>6, <1>8, <1>9, <1>10, <1>12, <1>13, <1>15 DEF IInv

(* Whoever is checked against a cache that agrees with the table knows the *)
(* rows of its problem.                                                    *)
LEMMA CheckKnows ==
  ASSUME IInv, ~misled, NEW p \in Question, memory[p] = Hydrated[p]
  PROVE  IF memory[p] = Null THEN Places(table, p) = {}
         ELSE /\ memory[p].attempts = Cardinality(Places(table, p))
              /\ ~memory[p].correct => \A j \in Places(table, p) : ~table[j].correct
<1>1. SubmitTypeOK /\ Ordered(table) /\ HasLast(table, p) /\ CountedRight(table) /\ ClosedWhenSolved(table)
  BY DEF IInv, RowsInOrder, Informed
<1>2. CASE \A j \in DOMAIN table : table[j].problem # p
  BY <1>2, HydratedNone DEF Places
<1>3. ASSUME NEW i, LastAt(table, p, i)
      PROVE  /\ memory[p] # Null /\ memory[p].attempts = Cardinality(Places(table, p))
             /\ ~memory[p].correct => \A j \in Places(table, p) : ~table[j].correct
  <2>1. i \in DOMAIN table /\ table[i].problem = p /\ table[i] \in Record
    BY <1>1, <1>3 DEF SubmitTypeOK, LastAt
  <2>2. memory[p] = SubmissionOf(table[i])
    BY <1>1, <1>3, HydratedLast
  <2>3. memory[p] # Null /\ memory[p].attempts = table[i].attempts
        /\ memory[p].correct = table[i].correct
    BY <2>1, <2>2, NoneAssumption DEF SubmissionOf, LastAnswer, Record
  <2>4. PICK n \in Nat : DOMAIN table = 1 .. n
    BY <1>1 DEF SubmitTypeOK
  <2>5. Places(table, p) = {j \in 1 .. i : table[j].problem = table[i].problem}
    BY <1>3, <2>1, <2>4 DEF Places, LastAt
  <2>6. table[i].attempts = Cardinality({j \in 1 .. i : table[j].problem = table[i].problem})
    BY <1>1, <2>1 DEF CountedRight
  <2>7. ASSUME NEW j \in Places(table, p), table[j].correct PROVE table[i].correct
    <3>1. LastAt(table, p, j)
      BY <1>1, <2>7 DEF ClosedWhenSolved, Places
    <3>2. i = j
      BY <1>3, <2>1, <2>4, <3>1 DEF LastAt
    <3> QED
      BY <2>7, <3>2
  <2> QED
    BY <2>3, <2>5, <2>6, <2>7
<1> QED
  BY <1>1, <1>2, <1>3 DEF HasLast

LEMMA CheckIInv ==
  ASSUME IInv, NEW r \in Request, Check(r)
  PROVE  IInv'
<1> DEFINE p == ProblemOf(r)
           previous == memory[p]
<1>1. SubmitTypeOK /\ Linked /\ call[r].pc = "waiting" /\ MutexFree(r) /\ p \in Question
      /\ previous \in LastAnswer \cup {Null}
  BY ProblemType DEF IInv, Check, SubmitTypeOK, Memory
<1>2. UNCHANGED <<answer, table, next, memory, generation, snapshot, failures>>
      /\ misled' = (misled \/ memory[p] # Hydrated[p])
  BY DEF Check
<1>3. /\ call' \in [Request -> Call] /\ \A q \in Request \ {r} : call'[q] = call[q]
      /\ call'[r].key = call[r].key /\ call'[r].sequence = call[r].sequence
      /\ \/ call'[r].pc = "done" /\ call'[r].reply \in {"alreadyCorrect", "onlyOnce"}
         \/ /\ call'[r].pc = "checked" /\ call'[r].on = generation /\ call'[r].reply = call[r].reply
            /\ previous = Null \/ ~previous.correct
            /\ call'[r].attempts = IF previous = Null THEN 1 ELSE previous.attempts + 1
  <2>1. CASE previous # Null /\ previous.correct
    BY <1>1, <2>1, Replied DEF Check
  <2>2. CASE ~(previous # Null /\ previous.correct) /\ previous # Null /\ p \in OneTry
    BY <1>1, <2>2, Replied DEF Check
  <2>3. CASE ~(previous # Null /\ previous.correct) /\ ~(previous # Null /\ p \in OneTry)
    <3>1. call' = [call EXCEPT ![r].pc = "checked", ![r].on = generation,
                     ![r].attempts = IF previous = Null THEN 1 ELSE previous.attempts + 1]
      BY <2>3 DEF Check
    <3>2. (IF previous = Null THEN 1 ELSE previous.attempts + 1) \in Nat
      BY <1>1 DEF LastAnswer
    <3>3. generation \in Nat /\ call \in [Request -> Call]
      BY <1>1 DEF SubmitTypeOK
    <3> HIDE DEF previous, p
    <3> QED
      BY <2>3, <3>1, <3>2, <3>3 DEF Call
  <2> QED
    BY <2>1, <2>2, <2>3
<1>4. call[r].reply = "none"
  BY <1>1 DEF Linked, SubmitTypeOK, Call
<1> HIDE DEF p, previous
<1>5. SubmitTypeOK'
  BY <1>1, <1>2, <1>3 DEF SubmitTypeOK
<1>6. /\ Linked' /\ Exclusive' /\ RowsInOrder' /\ NumbersDrawn' /\ StoredOnce' /\ OneInserter'
      /\ \A q \in Request : ProblemOf(q)' = ProblemOf(q)
  BY <1>1, <1>2, <1>3, <1>4, QuietStep DEF Inserted
<1>7. Informed'
  <2> SUFFICES ASSUME ~misled, memory[p] = Hydrated[p] PROVE Informed'
    BY <1>2 DEF Informed
  <2>1. CASE call'[r].pc = "checked"
    <3>1. IF previous = Null THEN Places(table, p) = {}
          ELSE /\ previous.attempts = Cardinality(Places(table, p))
               /\ ~previous.correct => \A j \in Places(table, p) : ~table[j].correct
      BY <1>1, CheckKnows DEF previous
    <3>2. Cardinality({}) = 0
      BY FS_EmptySet
    <3>3. /\ previous = Null \/ ~previous.correct
          /\ call'[r].attempts = IF previous = Null THEN 1 ELSE previous.attempts + 1
      BY <1>3, <2>1
    <3>4. /\ \A j \in Places(table, p) : ~table[j].correct
          /\ call'[r].attempts = Cardinality(Places(table, p)) + 1
      BY <3>1, <3>2, <3>3
    <3>5. ProblemOf(r)' = p /\ table' = table
      BY <1>2, <1>6 DEF p
    <3>6. Knows(r)'
      BY <3>4, <3>5 DEF Knows
    <3> QED
      BY <1>2, <1>3, <1>6, <3>6 DEF IInv, Informed, Knows
  <2>2. CASE call'[r].pc # "checked"
    BY <1>2, <1>3, <1>6, <2>2 DEF IInv, Informed, Knows
  <2> QED
    BY <2>1, <2>2
<1>8. Hydrated' = Hydrated
  BY <1>2 DEF Hydrated, RowsOf, Rows
<1>9. Followed'
  <2> SUFFICES ASSUME generation = 0, failures = 0 PROVE Followed'
    BY <1>2 DEF Followed
  <2>1. memory[p] = Hydrated[p]
    <3>1. \A q \in Request : call[q].pc = "stored" => ProblemOf(q) # p
      BY <1>1 DEF MutexFree, Busy, p
    <3> QED
      BY <1>1, <3>1 DEF IInv, Followed
  <2>2. \A q \in Request \ {r} : Busy(q)' = Busy(q)
    BY <1>3 DEF Busy
  <2> QED
    <3>1. ~misled' /\ memory' = memory /\ answer' = answer
      BY <1>2, <2>1 DEF IInv, Followed
    <3>2. \A q \in Request : Busy(q)' => call'[q].on = 0
      BY <1>3, <2>2 DEF IInv, Followed, Busy
    <3>3. \A q \in Request : call'[q].pc = "stored" <=> call[q].pc = "stored"
      BY <1>1, <1>3
    <3>4. \A q \in Request : call'[q].pc = "stored" => call'[q] = call[q]
      BY <1>1, <1>3
    <3>5. \A q \in Request : call'[q].pc = "stored" =>
             Hydrated'[ProblemOf(q)'] = [correct |-> answer'[call'[q].key].correct,
                                         attempts |-> call'[q].attempts]
      BY <1>6, <1>8, <3>1, <3>3, <3>4 DEF IInv, Followed
    <3>6. \A x \in Question : (\A q \in Request : call'[q].pc = "stored" => ProblemOf(q)' # x)
                              => memory'[x] = Hydrated'[x]
      BY <1>6, <1>8, <3>1, <3>3 DEF IInv, Followed
    <3> QED
      BY <3>1, <3>2, <3>5, <3>6 DEF Followed
<1> QED
  BY <1>5, <1>6, <1>7, <1>9 DEF IInv

LEMMA LookUpIInv ==
  ASSUME IInv, NEW r \in Request, LookUp(r)
  PROVE  IInv'
<1>1. SubmitTypeOK /\ Linked /\ call[r].pc = "checked"
  BY DEF IInv, LookUp
<1>2. UNCHANGED <<answer, table, next, memory, generation, snapshot, failures, misled>>
  BY DEF LookUp
<1>3. /\ call' \in [Request -> Call] /\ \A q \in Request \ {r} : call'[q] = call[q]
      /\ call'[r].key = call[r].key /\ call'[r].sequence = call[r].sequence
      /\ call'[r].attempts = call[r].attempts /\ call'[r].on = call[r].on
      /\ \/ call'[r].pc = "done" /\ call'[r].reply = "reused" /\ Stored(call[r].key)
         \/ call'[r].pc = "unknown" /\ call'[r].reply = call[r].reply
  <2>1. CASE Stored(call[r].key)
    BY <1>1, <2>1, Replied DEF LookUp
  <2>2. CASE ~Stored(call[r].key)
    BY <1>1, <2>2, Moved DEF LookUp
  <2> QED
    BY <2>1, <2>2
<1>4. call[r].reply = "none"
  BY <1>1 DEF Linked, SubmitTypeOK, Call
<1>5. SubmitTypeOK'
  BY <1>1, <1>2, <1>3 DEF SubmitTypeOK
<1>6. /\ Linked' /\ Exclusive' /\ RowsInOrder' /\ NumbersDrawn' /\ StoredOnce' /\ OneInserter'
      /\ \A q \in Request : ProblemOf(q)' = ProblemOf(q)
  BY <1>1, <1>2, <1>3, <1>4, QuietStep DEF Inserted, Busy
<1>7. Informed'
  BY <1>1, <1>2, <1>3, <1>6 DEF IInv, Informed, Knows
<1>8. Hydrated' = Hydrated
  BY <1>2 DEF Hydrated, RowsOf, Rows
<1>9. Followed'
  BY <1>1, <1>2, <1>3, <1>6, <1>8 DEF IInv, Followed, Busy
<1> QED
  BY <1>5, <1>6, <1>7, <1>9 DEF IInv

LEMMA AllocateIInv ==
  ASSUME IInv, NEW r \in Request, AllocateSequence(r)
  PROVE  IInv'
<1>1. SubmitTypeOK /\ Linked /\ call[r].pc = "unknown"
  BY DEF IInv, AllocateSequence
<1>2. UNCHANGED <<answer, table, memory, generation, snapshot, failures, misled>> /\ next' = next + 1
  BY DEF AllocateSequence
<1>3. /\ call' \in [Request -> Call] /\ \A q \in Request \ {r} : call'[q] = call[q]
      /\ call'[r].key = call[r].key /\ call'[r].attempts = call[r].attempts
      /\ call'[r].on = call[r].on /\ call'[r].reply = call[r].reply
      /\ call'[r].pc = "sequenced" /\ call'[r].sequence = next
  BY <1>1 DEF SubmitTypeOK, AllocateSequence, Call
<1>4. call[r].reply = "none" /\ next \in Nat
  BY <1>1 DEF Linked, SubmitTypeOK, Call
<1>5. SubmitTypeOK'
  BY <1>1, <1>2, <1>3 DEF SubmitTypeOK
<1>6. Linked'
  BY <1>1, <1>3, <1>4 DEF Linked
<1>7. \A q \in Request : /\ ProblemOf(q)' = ProblemOf(q) /\ Busy(q)' = Busy(q)
                         /\ Inserted(q)' = Inserted(q)
  BY <1>1, <1>2, <1>3 DEF Busy, Inserted, ProblemOf
<1>8. Exclusive' /\ StoredOnce'
  BY <1>2, <1>7 DEF IInv, Exclusive, StoredOnce
<1>9. \A i \in DOMAIN table : table[i].sequence < next /\ table[i].sequence \in Nat
  <2>1. \A i \in DOMAIN table : table[i] \in Record
    BY <1>1 DEF SubmitTypeOK
  <2> QED
    BY <2>1 DEF IInv, RowsInOrder, Record
<1>10. RowsInOrder'
  BY <1>2, <1>4, <1>9 DEF IInv, RowsInOrder
<1>11. NumbersDrawn'
  <2> SUFFICES ASSUME NEW q \in Request, call'[q].pc = "sequenced" PROVE Drawn(q)'
    BY DEF NumbersDrawn
  <2>1. \A o \in Request : call[o].sequence \in Nat
    BY <1>1 DEF SubmitTypeOK, Call
  <2>2. \A o \in Request \ {r} : call'[o].pc = "sequenced" => Drawn(o) /\ call'[o].sequence < next
    BY <1>3 DEF IInv, NumbersDrawn, Drawn
  <2>3. CASE q = r
    BY <1>2, <1>3, <1>4, <1>9, <2>1, <2>2, <2>3 DEF Drawn
  <2>4. CASE q # r
    BY <1>2, <1>3, <1>4, <1>7, <2>1, <2>2, <2>4 DEF Drawn
  <2> QED
    BY <2>3, <2>4
<1>12. \A k : Stored(k)' <=> Stored(k)
  BY <1>2 DEF Stored, Rows
<1>13. OneInserter'
  BY <1>3, <1>7, <1>12 DEF IInv, OneInserter
<1>14. Informed'
  BY <1>1, <1>2, <1>3, <1>7 DEF IInv, Informed, Knows
<1>15. Hydrated' = Hydrated
  BY <1>2 DEF Hydrated, RowsOf, Rows
<1>16. Followed'
  BY <1>1, <1>2, <1>3, <1>7, <1>15 DEF IInv, Followed
<1> QED
  BY <1>5, <1>6, <1>8, <1>10, <1>11, <1>13, <1>14, <1>16 DEF IInv

(* The same, of the table a step leaves behind.                            *)
LEMMA HydratedNow ==
  ASSUME table' \in Seq(Record), Ordered(table'), NEW p \in Question, NEW i, LastAt(table', p, i)
  PROVE  Hydrated'[p] = SubmissionOf(table'[i])
<1>1. RowsOf(p)' # {} /\ (CHOOSE row \in RowsOf(p)' :
                           \A other \in RowsOf(p)' : other.sequence <= row.sequence) = table'[i]
  BY LastIsHydrated DEF RowsOf, Rows
<1> QED
  BY <1>1 DEF Hydrated, SubmissionOf

(* The row of a call goes into the table, whether or not the call learns of*)
(* it.                                                                     *)
LEMMA AppendStep ==
  ASSUME IInv, NEW r \in Request, call[r].pc = "sequenced", ~Stored(call[r].key),
         table' = Append(table, NewRow(r)), UNCHANGED <<answer, next, misled>>,
         NEW to \in {"stored", "done"}, Advance(r, to)
  PROVE  /\ table' \in Seq(Record) /\ Linked' /\ Exclusive' /\ RowsInOrder' /\ NumbersDrawn'
         /\ StoredOnce' /\ OneInserter' /\ Informed'
         /\ Hydrated'[ProblemOf(r)] =
              [correct |-> answer[call[r].key].correct, attempts |-> call[r].attempts]
         /\ \A p \in Question \ {ProblemOf(r)} : Hydrated'[p] = Hydrated[p]
<1>1. SubmitTypeOK /\ Linked /\ call[r].pc # "idle" /\ Drawn(r) /\ Exclusive
  BY DEF IInv, NumbersDrawn
<1>2. PICK n \in Nat : n = Len(table) /\ DOMAIN table = 1 .. n /\ DOMAIN table' = 1 .. (n + 1)
  BY <1>1, Appended
<1>3. /\ \A i \in 1 .. n : table'[i] = table[i]
      /\ table'[n + 1] = NewRow(r) /\ table' \in Seq(Record)
  BY <1>1, <1>2, Appended
<1>4. /\ NewRow(r).key = call[r].key /\ NewRow(r).problem = ProblemOf(r)
      /\ NewRow(r).correct = answer[call[r].key].correct
      /\ NewRow(r).attempts = call[r].attempts /\ NewRow(r).sequence = call[r].sequence
  BY <1>1, NewRowType
<1>5. /\ call' \in [Request -> Call] /\ \A q \in Request \ {r} : call'[q] = call[q]
      /\ call'[r].pc = to /\ call'[r].key = call[r].key /\ call'[r].attempts = call[r].attempts
      /\ call'[r].sequence = call[r].sequence /\ call'[r].on = call[r].on
      /\ call'[r].reply = call[r].reply
  <2>1. to \in {"waiting", "checked", "unknown", "sequenced", "stored", "done"}
    OBVIOUS
  <2> QED
    BY <1>1, <2>1, Moved
<1>6. call[r].reply = "none"
  BY <1>1 DEF Linked, SubmitTypeOK, Call
<1>7. Linked'
  BY <1>1, <1>5, <1>6 DEF Linked
<1>8. \A q \in Request : ProblemOf(q)' = ProblemOf(q) /\ (Busy(q)' => Busy(q))
  BY <1>5 DEF ProblemOf, Busy
<1>9. Exclusive'
  BY <1>1, <1>8 DEF Exclusive
<1>10. RowsInOrder'
  BY AppendedInOrder DEF RowsInOrder
<1>11. ASSUME NEW q \in Request, call'[q].pc = "sequenced" PROVE Drawn(q)'
  <2>1. q # r /\ call[q].pc = "sequenced" /\ call[q] = call'[q]
    BY <1>5, <1>11
  <2>2. Drawn(q) /\ ProblemOf(q) # ProblemOf(r) /\ call[q].sequence # call[r].sequence
    BY <1>1, <2>1 DEF IInv, NumbersDrawn, Drawn, Exclusive, Busy
  <2>3. call'[q].sequence < next'
    BY <2>1, <2>2 DEF Drawn
  <2>4. \A i \in DOMAIN table' :
          /\ table'[i].sequence # call'[q].sequence
          /\ table'[i].problem = ProblemOf(q)' => table'[i].sequence < call'[q].sequence
    BY <1>2, <1>3, <1>4, <1>8, <2>1, <2>2 DEF Drawn
  <2>5. \A o \in Request \ {q} : call'[o].pc = "sequenced" => call'[o].sequence # call'[q].sequence
    BY <1>5, <2>1, <2>2 DEF Drawn
  <2> QED
    BY <2>3, <2>4, <2>5 DEF Drawn
<1>12. NumbersDrawn'
  BY <1>11 DEF NumbersDrawn
<1>13. StoredOnce'
  BY AppendedOnce DEF StoredOnce
<1>14. /\ \A k : Stored(k) => Stored(k)'
       /\ \E row \in Rows' : row.key = call[r].key
  <2>1. \A i \in 1 .. n : i \in DOMAIN table' /\ table'[i] = table[i]
    BY <1>2, <1>3
  <2>2. n + 1 \in DOMAIN table' /\ table'[n + 1].key = call[r].key
    BY <1>2, <1>3, <1>4
  <2> QED
    BY <1>2, <2>1, <2>2 DEF Stored, Rows
<1>15. \A q \in Request \ {r} : (Inserted(q)' <=> Inserted(q)) /\ (Inserted(q) => call[q].key # call[r].key)
  BY <1>5 DEF Inserted, IInv, OneInserter
<1>16. OneInserter'
  <2>1. \A k : Stored(k)' <=> \E row \in Rows' : row.key = k
    BY DEF Stored
  <2>2. ASSUME NEW q \in Request, Inserted(q)' \/ call'[q].reply = "reused"
        PROVE  Stored(call[q].key)' /\ call'[q].key = call[q].key
    <3>1. CASE q = r
      BY <1>5, <1>14, <2>1, <3>1
    <3>2. CASE q # r
      <4>1. call'[q] = call[q] /\ (Inserted(q) \/ call[q].reply = "reused")
        BY <1>5, <1>15, <2>2, <3>2
      <4>2. Stored(call[q].key)
        BY <4>1 DEF IInv, OneInserter
      <4> QED
        BY <1>14, <4>1, <4>2
    <3> QED
      BY <3>1, <3>2
  <2>3. \A q, o \in Request : q # o /\ Inserted(q)' /\ Inserted(o)' => call'[q].key # call'[o].key
    BY <1>5, <1>15 DEF IInv, OneInserter
  <2> QED
    BY <2>1, <2>2, <2>3 DEF OneInserter
<1>17. Informed'
  <2> SUFFICES ASSUME ~misled PROVE Informed'
    BY DEF Informed
  <2>1. CountedRight(table') /\ ClosedWhenSolved(table')
    BY AppendedCounted
  <2>2. ASSUME NEW q \in Request, call'[q].pc \in {"checked", "unknown", "sequenced"} PROVE Knows(q)'
    <3>1. q # r /\ call[q] = call'[q] /\ Knows(q)
      BY <1>5, <2>2 DEF IInv, Informed
    <3>2. ProblemOf(q) # ProblemOf(r)
      BY <1>1, <2>2, <3>1 DEF Exclusive, Busy
    <3>3. Places(table', ProblemOf(q)) = Places(table, ProblemOf(q))
      BY <3>2, AppendedPlaces
    <3>4. \A j \in Places(table, ProblemOf(q)) : table'[j] = table[j]
      BY <1>2, <1>3 DEF Places
    <3> QED
      BY <1>8, <3>1, <3>3, <3>4 DEF Knows
  <2> QED
    BY <2>1, <2>2 DEF Informed
<1>18. Hydrated'[ProblemOf(r)] =
         [correct |-> answer[call[r].key].correct, attempts |-> call[r].attempts]
  <2>1. LastAt(table', ProblemOf(r), n + 1) /\ Ordered(table')
    BY <1>2, AppendedInOrder
  <2>2. ProblemOf(r) \in Question
    BY <1>1, ProblemType
  <2>3. Hydrated'[ProblemOf(r)] = SubmissionOf(table'[n + 1])
    BY <1>3, <2>1, <2>2, HydratedNow
  <2> QED
    BY <1>3, <1>4, <2>3 DEF SubmissionOf
<1>19. ASSUME NEW p \in Question, p # ProblemOf(r) PROVE Hydrated'[p] = Hydrated[p]
  <2>1. \A i \in 1 .. n : i \in DOMAIN table' /\ table'[i] = table[i]
    BY <1>2, <1>3
  <2>2. \A i \in DOMAIN table' : table'[i].problem = p => i \in DOMAIN table
    BY <1>2, <1>3, <1>4, <1>19
  <2>3. RowsOf(p)' \subseteq RowsOf(p) /\ RowsOf(p) \subseteq RowsOf(p)'
    BY <1>2, <2>1, <2>2 DEF RowsOf, Rows
  <2> QED
    BY <2>3 DEF Hydrated
<1> QED
  BY <1>3, <1>7, <1>9, <1>10, <1>12, <1>13, <1>16, <1>17, <1>18, <1>19

LEMMA InsertIInv ==
  ASSUME IInv, NEW r \in Request, Insert(r)
  PROVE  IInv'
<1>1. SubmitTypeOK /\ Linked /\ Exclusive /\ call[r].pc = "sequenced"
  BY DEF IInv, Insert
<1>2. UNCHANGED <<answer, next, memory, generation, snapshot, failures, misled>>
  BY DEF Insert
<1>3. call[r].reply = "none"
  BY <1>1 DEF Linked, SubmitTypeOK, Call
<1>4. CASE Stored(call[r].key)
  <2>1. /\ call' \in [Request -> Call] /\ \A q \in Request \ {r} : call'[q] = call[q]
        /\ call'[r].key = call[r].key /\ call'[r].sequence = call[r].sequence
        /\ call'[r].pc = "done" /\ call'[r].reply = "reused" /\ UNCHANGED table
    BY <1>1, <1>4, Replied DEF Insert
  <2>2. SubmitTypeOK'
    BY <1>1, <1>2, <2>1 DEF SubmitTypeOK
  <2>3. /\ Linked' /\ Exclusive' /\ RowsInOrder' /\ NumbersDrawn' /\ StoredOnce' /\ OneInserter'
        /\ \A q \in Request : ProblemOf(q)' = ProblemOf(q)
    BY <1>1, <1>2, <1>3, <1>4, <2>1, QuietStep DEF Inserted, Busy
  <2>4. Informed'
    BY <1>1, <1>2, <2>1, <2>3 DEF IInv, Informed, Knows
  <2>5. Hydrated' = Hydrated
    BY <2>1 DEF Hydrated, RowsOf, Rows
  <2>6. Followed'
    BY <1>1, <1>2, <2>1, <2>3, <2>5 DEF IInv, Followed, Busy
  <2> QED
    BY <2>2, <2>3, <2>4, <2>6 DEF IInv
<1>5. CASE ~Stored(call[r].key)
  <2>1. table' = Append(table, NewRow(r)) /\ Advance(r, "stored")
    BY <1>5 DEF Insert
  <2>2. /\ table' \in Seq(Record) /\ Linked' /\ Exclusive' /\ RowsInOrder' /\ NumbersDrawn'
        /\ StoredOnce' /\ OneInserter' /\ Informed'
        /\ Hydrated'[ProblemOf(r)] =
             [correct |-> answer[call[r].key].correct, attempts |-> call[r].attempts]
        /\ \A p \in Question \ {ProblemOf(r)} : Hydrated'[p] = Hydrated[p]
    BY <1>1, <1>2, <1>5, <2>1, AppendStep
  <2>3. /\ call' \in [Request -> Call] /\ \A q \in Request \ {r} : call'[q] = call[q]
        /\ call'[r].pc = "stored" /\ call'[r].key = call[r].key
        /\ call'[r].attempts = call[r].attempts /\ call'[r].on = call[r].on
    BY <1>1, <2>1, Moved
  <2>4. SubmitTypeOK'
    BY <1>1, <1>2, <2>2, <2>3 DEF SubmitTypeOK
  <2>5. \A q \in Request : ProblemOf(q)' = ProblemOf(q) /\ (Busy(q)' <=> Busy(q))
    BY <1>1, <1>2, <2>3 DEF ProblemOf, Busy
  <2>6. Followed'
    <3> SUFFICES ASSUME generation = 0, failures = 0 PROVE Followed'
      BY <1>2 DEF Followed
    <3>1. ~misled /\ \A q \in Request : Busy(q)' => call'[q].on = 0
      BY <2>3, <2>5 DEF IInv, Followed
    <3>2. ASSUME NEW q \in Request, call'[q].pc = "stored"
          PROVE  Hydrated'[ProblemOf(q)] =
                   [correct |-> answer[call'[q].key].correct, attempts |-> call'[q].attempts]
      <4>1. CASE q = r
        BY <2>2, <2>3, <4>1
      <4>2. CASE q # r
        <5>1. call'[q] = call[q] /\ call[q].pc = "stored"
          BY <2>3, <3>2, <4>2
        <5>2. ProblemOf(q) # ProblemOf(r) /\ ProblemOf(q) \in Question
          BY <1>1, <4>2, <5>1, ProblemType DEF Exclusive, Busy
        <5> QED
          BY <2>2, <5>1, <5>2 DEF IInv, Followed
      <4> QED
        BY <4>1, <4>2
    <3>3. ASSUME NEW p \in Question, \A q \in Request : call'[q].pc = "stored" => ProblemOf(q) # p
          PROVE  memory[p] = Hydrated'[p]
      <4>1. p # ProblemOf(r) /\ \A q \in Request : call[q].pc = "stored" => ProblemOf(q) # p
        BY <1>1, <2>3, <3>3
      <4> QED
        BY <2>2, <4>1 DEF IInv, Followed
    <3> QED
      BY <1>2, <2>5, <3>1, <3>2, <3>3 DEF Followed
  <2> QED
    BY <2>2, <2>4, <2>6 DEF IInv
<1> QED
  BY <1>4, <1>5

LEMMA ApplyIInv ==
  ASSUME IInv, NEW r \in Request, ApplyToPlayer(r)
  PROVE  IInv'
<1> DEFINE p == ProblemOf(r)
           submission == [correct |-> answer[call[r].key].correct, attempts |-> call[r].attempts]
<1>1. SubmitTypeOK /\ Linked /\ Exclusive /\ call[r].pc = "stored" /\ p \in Question
  BY ProblemType DEF IInv, ApplyToPlayer
<1>2. UNCHANGED <<answer, table, next, generation, snapshot, failures, misled>>
      /\ memory' = IF call[r].on # generation THEN memory ELSE [memory EXCEPT ![p] = submission]
  BY DEF ApplyToPlayer
<1>3. /\ call' \in [Request -> Call] /\ \A q \in Request \ {r} : call'[q] = call[q]
      /\ call'[r].key = call[r].key /\ call'[r].sequence = call[r].sequence
      /\ call'[r].pc = "done" /\ call'[r].reply = "accepted"
  BY <1>1, Replied DEF ApplyToPlayer
<1>4. submission \in LastAnswer
  BY <1>1, ProblemType DEF SubmitTypeOK, Call, Answer, LastAnswer
<1> HIDE DEF p, submission
<1>5. memory' \in Memory
  BY <1>1, <1>2, <1>4 DEF SubmitTypeOK, Memory
<1>6. SubmitTypeOK'
  BY <1>1, <1>2, <1>3, <1>5 DEF SubmitTypeOK
<1>7. /\ Linked' /\ Exclusive' /\ RowsInOrder' /\ NumbersDrawn' /\ StoredOnce' /\ OneInserter'
      /\ \A q \in Request : ProblemOf(q)' = ProblemOf(q)
  BY <1>1, <1>2, <1>3, QuietStep DEF Inserted, Busy
<1>8. Informed'
  BY <1>1, <1>2, <1>3, <1>7 DEF IInv, Informed, Knows
<1>9. Hydrated' = Hydrated
  BY <1>2 DEF Hydrated, RowsOf, Rows
<1>10. Followed'
  <2> SUFFICES ASSUME generation = 0, failures = 0 PROVE Followed'
    BY <1>2 DEF Followed
  <2>1. call[r].on = generation /\ Hydrated[p] = submission
    BY <1>1 DEF IInv, Followed, Busy, p, submission
  <2>2. memory' = [memory EXCEPT ![p] = submission] /\ memory \in [Question -> LastAnswer \cup {Null}]
    BY <1>1, <1>2, <2>1 DEF SubmitTypeOK, Memory
  <2>3. ASSUME NEW o \in Question, \A q \in Request : call'[q].pc = "stored" => ProblemOf(q) # o
        PROVE  memory'[o] = Hydrated[o]
    <3>1. CASE o = p
      BY <1>1, <2>1, <2>2, <3>1
    <3>2. CASE o # p
      <4>1. \A q \in Request : call[q].pc = "stored" => ProblemOf(q) # o
        BY <1>3, <2>3, <3>2 DEF p
      <4> QED
        BY <2>2, <3>2, <4>1 DEF IInv, Followed
    <3> QED
      BY <3>1, <3>2
  <2>4. \A q \in Request : (Busy(q)' => Busy(q) /\ call'[q] = call[q])
                           /\ (call'[q].pc = "stored" => call[q].pc = "stored" /\ call'[q] = call[q])
    BY <1>1, <1>3 DEF Busy
  <2> QED
    BY <1>2, <1>7, <1>9, <2>3, <2>4 DEF IInv, Followed
<1> QED
  BY <1>6, <1>7, <1>8, <1>10 DEF IInv

(* A failure may leave the row behind; from then on the cache is not       *)
(* trusted, and nothing else is lost.                                      *)
LEMMA FailIInv ==
  ASSUME IInv, NEW r \in Request, Fail(r)
  PROVE  IInv'
<1>1. SubmitTypeOK /\ Linked /\ call[r].pc \in {"checked", "unknown", "sequenced"} /\ Advance(r, "done")
  BY DEF IInv, Fail
<1>2. UNCHANGED <<answer, next, memory, generation, snapshot, misled>>
      /\ failures' = failures + 1 /\ failures' \in Nat /\ failures' # 0
  BY <1>1 DEF Fail, SubmitTypeOK
<1>3. /\ call' \in [Request -> Call] /\ \A q \in Request \ {r} : call'[q] = call[q]
      /\ call'[r].key = call[r].key /\ call'[r].sequence = call[r].sequence
      /\ call'[r].pc = "done" /\ call'[r].reply = call[r].reply
  BY <1>1, Moved
<1>4. call[r].reply = "none"
  BY <1>1 DEF Linked, SubmitTypeOK, Call
<1>5. Followed'
  BY <1>2 DEF Followed
<1>6. CASE UNCHANGED table
  <2>1. SubmitTypeOK'
    BY <1>1, <1>2, <1>3, <1>6 DEF SubmitTypeOK
  <2>2. /\ Linked' /\ Exclusive' /\ RowsInOrder' /\ NumbersDrawn' /\ StoredOnce' /\ OneInserter'
        /\ \A q \in Request : ProblemOf(q)' = ProblemOf(q)
    BY <1>1, <1>2, <1>3, <1>4, <1>6, QuietStep DEF Inserted, Busy
  <2>3. Informed'
    BY <1>1, <1>2, <1>3, <1>6, <2>2 DEF IInv, Informed, Knows
  <2> QED
    BY <1>5, <2>1, <2>2, <2>3 DEF IInv
<1>7. CASE /\ call[r].pc = "sequenced" /\ ~Stored(call[r].key)
           /\ table' = Append(table, NewRow(r))
  <2>1. /\ table' \in Seq(Record) /\ Linked' /\ Exclusive' /\ RowsInOrder' /\ NumbersDrawn'
        /\ StoredOnce' /\ OneInserter' /\ Informed'
    BY <1>1, <1>2, <1>7, AppendStep
  <2>2. SubmitTypeOK'
    BY <1>1, <1>2, <1>3, <2>1 DEF SubmitTypeOK
  <2> QED
    BY <1>5, <2>1, <2>2 DEF IInv
<1> QED
  BY <1>6, <1>7 DEF Fail

LEMMA ReloadIInv ==
  ASSUME IInv, ReloadRead \/ ReloadDone
  PROVE  IInv'
<1>1. UNCHANGED <<answer, table, next, call, failures, misled>>
  BY DEF ReloadRead, ReloadDone
<1>2. /\ Linked' /\ Exclusive' /\ RowsInOrder' /\ NumbersDrawn' /\ StoredOnce' /\ OneInserter'
      /\ Informed' /\ Hydrated' = Hydrated
  <2>1. \A r \in Request : (Busy(r)' <=> Busy(r)) /\ ProblemOf(r)' = ProblemOf(r)
                           /\ (Inserted(r)' <=> Inserted(r))
    BY <1>1 DEF Busy, ProblemOf, Inserted
  <2>2. \A k : Stored(k)' <=> Stored(k)
    BY <1>1 DEF Stored, Rows
  <2>3. Linked' /\ Exclusive' /\ RowsInOrder' /\ StoredOnce'
    BY <1>1, <2>1 DEF IInv, Linked, Exclusive, RowsInOrder, StoredOnce
  <2>4. NumbersDrawn'
    BY <1>1, <2>1 DEF IInv, NumbersDrawn, Drawn
  <2>5. OneInserter'
    BY <1>1, <2>1, <2>2 DEF IInv, OneInserter
  <2>6. Informed'
    BY <1>1, <2>1 DEF IInv, Informed, Knows
  <2>7. Hydrated' = Hydrated
    BY <1>1 DEF Hydrated, RowsOf, Rows
  <2> QED
    BY <2>3, <2>4, <2>5, <2>6, <2>7
<1>3. SubmitTypeOK
  BY DEF IInv
<1>4. CASE ReloadRead
  <2>1. snapshot' \in Memory /\ UNCHANGED <<memory, generation>>
    BY <1>4, HydratedType DEF ReloadRead
  <2>2. SubmitTypeOK'
    BY <1>1, <1>3, <2>1 DEF SubmitTypeOK
  <2>3. Followed'
    BY <1>1, <1>2, <2>1 DEF IInv, Followed, Busy, ProblemOf
  <2> QED
    BY <1>2, <2>2, <2>3 DEF IInv
<1>5. CASE ReloadDone
  <2>1. memory' \in Memory /\ snapshot' = Null /\ generation' \in Nat /\ generation' # 0
    BY <1>3, <1>5 DEF ReloadDone, SubmitTypeOK
  <2>2. SubmitTypeOK'
    BY <1>1, <1>3, <2>1 DEF SubmitTypeOK
  <2>3. Followed'
    BY <2>1 DEF Followed
  <2> QED
    BY <1>2, <2>2, <2>3 DEF IInv
<1> QED
  BY <1>4, <1>5

LEMMA StutterIInv == ASSUME IInv, UNCHANGED submitVars PROVE IInv'
<1>1. UNCHANGED <<answer, table, next, memory, generation, snapshot, call, failures, misled>>
  BY DEF submitVars
<1>2. \A r \in Request : (Busy(r)' <=> Busy(r)) /\ ProblemOf(r)' = ProblemOf(r)
                         /\ (Inserted(r)' <=> Inserted(r)) /\ (Drawn(r)' <=> Drawn(r))
                         /\ (Knows(r)' <=> Knows(r))
  BY <1>1 DEF Busy, ProblemOf, Inserted, Drawn, Knows
<1>3. \A k : Stored(k)' <=> Stored(k)
  BY <1>1 DEF Stored, Rows
<1>4. Hydrated' = Hydrated
  BY <1>1 DEF Hydrated, RowsOf, Rows
<1>5. SubmitTypeOK' /\ Linked' /\ Exclusive' /\ RowsInOrder' /\ NumbersDrawn' /\ StoredOnce'
  BY <1>1, <1>2 DEF IInv, SubmitTypeOK, Linked, Exclusive, RowsInOrder, NumbersDrawn, StoredOnce
<1>6. OneInserter' /\ Informed' /\ Followed'
  BY <1>1, <1>2, <1>3, <1>4 DEF IInv, OneInserter, Informed, Followed
<1> QED
  BY <1>5, <1>6 DEF IInv

(* Between checks and inserts everything the submit path has counted on    *)
(* holds.                                                                  *)
THEOREM Counted == SubmitSpec => []IInv
<1>1. SubmitInit => IInv
  BY InitIInv
<1>2. IInv /\ [SubmitNext]_submitVars => IInv'
  <2> SUFFICES ASSUME IInv, [SubmitNext]_submitVars PROVE IInv'
    OBVIOUS
  <2>1. ASSUME NEW r \in Request, NEW k \in IdKey, Send(r, k) PROVE IInv'
    BY <2>1, SendIInv
  <2>2. ASSUME NEW r \in Request, Handle(r) PROVE IInv'
    BY <2>2, CheckIInv, LookUpIInv, AllocateIInv, InsertIInv, ApplyIInv, FailIInv DEF Handle
  <2>3. CASE ReloadRead \/ ReloadDone
    BY <2>3, ReloadIInv
  <2>4. CASE UNCHANGED submitVars
    BY <2>4, StutterIInv
  <2> QED
    BY <2>1, <2>2, <2>3, <2>4 DEF SubmitNext
<1> QED
  BY <1>1, <1>2, PTL DEF SubmitSpec

(* However often an answer is sent and whatever fails, it is stored once,  *)
(* under a sequence of its own.                                            *)
THEOREM StoredOnceAlways == SubmitSpec => []StoredOnce
<1>1. IInv => StoredOnce
  BY DEF IInv
<1> QED
  BY <1>1, Counted, PTL

(* A reply of success tells of a stored answer, and one answer is accepted *)
(* as new at most once.                                                    *)
THEOREM RepliesMatch == SubmitSpec => []RepliesMatchRows
<1>1. IInv => RepliesMatchRows
  BY DEF IInv, OneInserter, Inserted, RepliesMatchRows
<1> QED
  BY <1>1, Counted, PTL

LEMMA InformedThen == ASSUME IInv, WellInformed PROVE ~misled
  BY DEF IInv, WellInformed, Followed

(* While the answers are checked against a cache that agrees with the      *)
(* table, a problem that is solved takes no second right answer.           *)
THEOREM SolvedOnceAlways == SubmitSpec => []SolvedOnce
<1>1. IInv => SolvedOnce
  <2> SUFFICES ASSUME IInv, WellInformed, NEW i \in DOMAIN table, NEW j \in DOMAIN table,
                      table[i].problem = table[j].problem, table[i].correct, table[j].correct
               PROVE  table[i] = table[j]
    BY DEF SolvedOnce, Rows
  <2>1. ClosedWhenSolved(table) /\ table \in Seq(Record)
    BY InformedThen DEF IInv, Informed, SubmitTypeOK
  <2>2. LastAt(table, table[i].problem, i) /\ LastAt(table, table[j].problem, j)
    BY <2>1 DEF ClosedWhenSolved
  <2>3. i \in Nat /\ j \in Nat
    BY <2>1
  <2> QED
    BY <2>2, <2>3 DEF LastAt
<1> QED
  BY <1>1, Counted, PTL

(* On the same condition the attempts of every stored answer count the     *)
(* answers to its problem up to it, for any number of retries.             *)
THEOREM AttemptsCountedAlways == SubmitSpec => []AttemptsCounted
<1>1. IInv => AttemptsCounted
  BY InformedThen DEF IInv, Informed, CountedRight, AttemptsCounted
<1> QED
  BY <1>1, Counted, PTL
-----------------------------------------------------------------------------
(* The book of answers.  A row says what was sent, and whatever the cache, *)
(* or a snapshot on its way to it, holds of a problem is in the table: the *)
(* table only grows, so that what was read earlier is there still.         *)
Backed(t, s, p) == s = Null \/ \E i \in DOMAIN t : t[i].problem = p /\ t[i].correct = s.correct

RowsAsSent ==
  \A i \in DOMAIN table :
    /\ table[i].key \in IdKey
    /\ table[i].problem = answer[table[i].key].problem
    /\ table[i].correct = answer[table[i].key].correct

CacheBacked ==
  /\ \A p \in Question : Backed(table, memory[p], p)
  /\ snapshot # Null => \A p \in Question : Backed(table, snapshot[p], p)

NothingAsked == \A r \in Request : call[r].pc = "idle" => call[r].key = Null

BookInv == RowsAsSent /\ CacheBacked /\ NothingAsked

LEMMA HydratedBacked ==
  ASSUME IInv, NEW p \in Question
  PROVE  Backed(table, Hydrated[p], p)
<1>1. SubmitTypeOK /\ Ordered(table) /\ HasLast(table, p)
  BY DEF IInv, RowsInOrder
<1>2. CASE \A j \in DOMAIN table : table[j].problem # p
  BY <1>2, HydratedNone DEF Backed
<1>3. ASSUME NEW i, LastAt(table, p, i) PROVE Backed(table, Hydrated[p], p)
  <2>1. Hydrated[p] = SubmissionOf(table[i])
    BY <1>1, <1>3, HydratedLast
  <2> QED
    BY <1>3, <2>1 DEF Backed, LastAt, SubmissionOf
<1> QED
  BY <1>1, <1>2, <1>3 DEF HasLast

(* The table keeps its rows, and a row that is added was sent.             *)
LEMMA TableGrows ==
  ASSUME IInv, BookInv, NEW r \in Request, call[r].pc # "idle",
         table' = Append(table, NewRow(r)), answer' = answer
  PROVE  /\ RowsAsSent'
         /\ \A s, p : Backed(table, s, p) => Backed(table', s, p)
         /\ Entries' = Entries \cup {EntryOf(NewRow(r))}
<1>1. /\ table \in Seq(Record) /\ NewRow(r) \in Record /\ call[r].key \in IdKey
      /\ NewRow(r).key = call[r].key /\ NewRow(r).problem = answer[call[r].key].problem
      /\ NewRow(r).correct = answer[call[r].key].correct
  BY NewRowType DEF IInv, SubmitTypeOK, Linked, ProblemOf
<1>2. /\ DOMAIN table' = DOMAIN table \cup {Len(table) + 1}
      /\ Len(table) + 1 \notin DOMAIN table
      /\ \A i \in DOMAIN table : table'[i] = table[i]
      /\ table'[Len(table) + 1] = NewRow(r)
  BY <1>1
<1>3. RowsAsSent'
  BY <1>1, <1>2 DEF BookInv, RowsAsSent
<1>4. \A s, p : Backed(table, s, p) => Backed(table', s, p)
  BY <1>2 DEF Backed
<1>5. Rows' = Rows \cup {NewRow(r)}
  BY <1>2 DEF Rows
<1>6. Entries' = Entries \cup {EntryOf(NewRow(r))}
  BY <1>5 DEF Entries
<1> QED
  BY <1>3, <1>4, <1>6

(* What a stored call applies to the cache is the row it has stored.       *)
LEMMA StoredBacked ==
  ASSUME IInv, BookInv, NEW r \in Request, call[r].pc # "idle", Stored(call[r].key)
  PROVE  \E i \in DOMAIN table : /\ table[i].problem = ProblemOf(r)
                                 /\ table[i].correct = answer[call[r].key].correct
  BY DEF Stored, Rows, BookInv, RowsAsSent, ProblemOf

(* A call that has begun stays with its key.                               *)
LEMMA CallsBegun ==
  ASSUME IInv, NothingAsked, NEW r \in Request, call[r].pc # "idle",
         \A u \in Request \ {r} : call'[u] = call[u],
         call'[r].pc # "idle"
  PROVE  NothingAsked'
  BY DEF NothingAsked

(* Table and cache stay what they are.                                     *)
RowsStay == UNCHANGED <<answer, table, memory, snapshot>>

LEMMA StayBacked == RowsAsSent /\ CacheBacked /\ RowsStay => RowsAsSent' /\ CacheBacked'
  BY DEF RowsAsSent, CacheBacked, RowsStay

LEMMA SendBook ==
  ASSUME IInv, BookInv, NEW r \in Request, NEW k \in IdKey, Send(r, k)
  PROVE  BookInv'
<1>1. RowsStay
  BY DEF Send, RowsStay
<1>2. NothingAsked'
  BY DEF IInv, SubmitTypeOK, Call, BookInv, NothingAsked, Send
<1> QED
  BY <1>1, <1>2, StayBacked DEF BookInv

(* Calls of one handler that leave table and cache alone.                  *)
LEMMA QuietBook ==
  ASSUME IInv, BookInv, NEW r \in Request,
         Check(r) \/ LookUp(r) \/ AllocateSequence(r)
  PROVE  BookInv'
<1>1. RowsStay
  BY DEF Check, LookUp, AllocateSequence, RowsStay
<1>2. call[r].pc # "idle"
  BY DEF Check, LookUp, AllocateSequence
<1>3. call'[r].pc # "idle" /\ \A u \in Request \ {r} : call'[u] = call[u]
  <2>1. call \in [Request -> Call]
    BY DEF IInv, SubmitTypeOK
  <2>2. CASE Check(r)
    BY <2>1, <2>2 DEF Check, Reply, Call
  <2>3. CASE LookUp(r)
    BY <2>1, <2>3 DEF LookUp, Reply, Advance, Call
  <2>4. CASE AllocateSequence(r)
    BY <2>1, <2>4 DEF AllocateSequence, Call
  <2> QED
    BY <2>2, <2>3, <2>4
<1>4. NothingAsked'
  BY <1>2, <1>3, CallsBegun DEF BookInv
<1> QED
  BY <1>1, <1>4, StayBacked DEF BookInv

LEMMA WriteBook ==
  ASSUME IInv, BookInv, NEW r \in Request, Insert(r) \/ Fail(r)
  PROVE  BookInv'
<1>1. /\ call[r].pc # "idle" /\ answer' = answer /\ memory' = memory /\ snapshot' = snapshot
      /\ table' = table \/ table' = Append(table, NewRow(r))
  BY DEF Insert, Fail
<1>2. call'[r].pc # "idle" /\ \A u \in Request \ {r} : call'[u] = call[u]
  <2>1. call \in [Request -> Call]
    BY DEF IInv, SubmitTypeOK
  <2>2. CASE Insert(r)
    BY <2>1, <2>2 DEF Insert, Reply, Advance, Call
  <2>3. CASE Fail(r)
    BY <2>1, <2>3 DEF Fail, Advance, Call
  <2> QED
    BY <2>2, <2>3
<1>3. NothingAsked'
  BY <1>1, <1>2, CallsBegun DEF BookInv
<1>4. RowsAsSent' /\ CacheBacked'
  <2>1. CASE table' = table
    BY <1>1, <2>1, StayBacked DEF BookInv, RowsStay
  <2>2. CASE table' = Append(table, NewRow(r))
    BY <1>1, <2>2, TableGrows DEF BookInv, CacheBacked
  <2> QED
    BY <1>1, <2>1, <2>2
<1> QED
  BY <1>3, <1>4 DEF BookInv

LEMMA ApplyBook ==
  ASSUME IInv, BookInv, NEW r \in Request, ApplyToPlayer(r)
  PROVE  BookInv'
<1>1. /\ call[r].pc = "stored" /\ answer' = answer /\ table' = table /\ snapshot' = snapshot
      /\ \/ memory' = memory
         \/ memory' = [memory EXCEPT ![ProblemOf(r)] =
                         [correct |-> answer[call[r].key].correct, attempts |-> call[r].attempts]]
  BY DEF ApplyToPlayer
<1>2. call'[r].pc # "idle" /\ \A u \in Request \ {r} : call'[u] = call[u]
  BY DEF IInv, SubmitTypeOK, ApplyToPlayer, Reply, Call
<1>3. NothingAsked'
  BY <1>1, <1>2, CallsBegun DEF BookInv
<1>4. RowsAsSent'
  BY <1>1 DEF BookInv, RowsAsSent
<1>5. Stored(call[r].key)
  BY <1>1 DEF IInv, OneInserter, Inserted
<1>6. \E i \in DOMAIN table : /\ table[i].problem = ProblemOf(r)
                              /\ table[i].correct = answer[call[r].key].correct
  BY <1>1, <1>5, StoredBacked
<1>7. ASSUME NEW p \in Question PROVE Backed(table, memory'[p], p)
  <2>1. Backed(table, memory[p], p) /\ memory \in [Question -> LastAnswer \cup {Null}]
    BY DEF BookInv, CacheBacked, IInv, SubmitTypeOK, Memory
  <2> QED
    BY <1>1, <1>6, <2>1 DEF Backed
<1>8. CacheBacked'
  BY <1>1, <1>7 DEF BookInv, CacheBacked
<1> QED
  BY <1>3, <1>4, <1>8 DEF BookInv

LEMMA ReloadBook ==
  ASSUME IInv, BookInv, ReloadRead \/ ReloadDone
  PROVE  BookInv'
<1>1. answer' = answer /\ table' = table /\ call' = call
  BY DEF ReloadRead, ReloadDone
<1>2. RowsAsSent' /\ NothingAsked'
  BY <1>1 DEF BookInv, RowsAsSent, NothingAsked
<1>3. CASE ReloadRead
  <2>1. memory' = memory /\ snapshot' = Hydrated
    BY <1>3 DEF ReloadRead
  <2>2. \A p \in Question : Backed(table, memory[p], p)
    BY DEF BookInv, CacheBacked
  <2>3. \A p \in Question : Backed(table', memory'[p], p)
    BY <1>1, <2>1, <2>2
  <2>4. \A p \in Question : Backed(table', snapshot'[p], p)
    BY <1>1, <2>1, HydratedBacked
  <2> QED
    BY <1>2, <2>3, <2>4 DEF BookInv, CacheBacked, Backed
<1>4. CASE ReloadDone
  <2>1. snapshot # Null /\ memory' = snapshot /\ snapshot' = Null
    BY <1>4 DEF ReloadDone
  <2>2. \A p \in Question : Backed(table, snapshot[p], p)
    BY <2>1 DEF BookInv, CacheBacked
  <2>3. \A p \in Question : Backed(table', memory'[p], p)
    BY <1>1, <2>1, <2>2
  <2> QED
    BY <1>2, <2>1, <2>3 DEF BookInv, CacheBacked, Backed
<1> QED
  BY <1>3, <1>4

(* Whatever is cached or on its way to the cache is backed by the table.   *)
LEMMA BookInvariance == SubmitSpec => []BookInv
<1>1. SubmitInit => BookInv
  BY DEF SubmitInit, NoCall, BookInv, RowsAsSent, CacheBacked, Backed, NothingAsked
<1>2. IInv /\ BookInv /\ [SubmitNext]_submitVars => BookInv'
  <2> SUFFICES ASSUME IInv, BookInv, [SubmitNext]_submitVars PROVE BookInv'
    OBVIOUS
  <2>1. ASSUME NEW r \in Request, NEW k \in IdKey, Send(r, k) PROVE BookInv'
    BY <2>1, SendBook
  <2>2. ASSUME NEW r \in Request, Handle(r) PROVE BookInv'
    BY <2>2, QuietBook, WriteBook, ApplyBook DEF Handle
  <2>3. CASE ReloadRead \/ ReloadDone
    BY <2>3, ReloadBook
  <2>4. CASE UNCHANGED submitVars
    BY <2>4, StayBacked DEF submitVars, BookInv, NothingAsked, RowsStay
  <2> QED
    BY <2>1, <2>2, <2>3, <2>4 DEF SubmitNext
<1> QED
  BY <1>1, <1>2, Counted, PTL DEF SubmitSpec
-----------------------------------------------------------------------------
(* What a step of one call changes in the book's view of the calls.        *)
OutcomeOf(c) == IF c.pc = "done" /\ c.reply = "none" THEN "lost" ELSE c.reply

OnlyCall(r) ==
  /\ call \in [Request -> Call] /\ call' \in [Request -> Call]
  /\ \A u \in Request \ {r} : call'[u] = call[u]
  /\ call'[r].key = call[r].key

LEMMA OneCall ==
  ASSUME NEW r \in Request, OnlyCall(r)
  PROVE  /\ Asked' = Asked
         /\ Told' = [Told EXCEPT ![r] = OutcomeOf(call'[r])]
         /\ call'[r].pc = "stored" => Entering' = Entering \cup {r}
         /\ call'[r].pc # "stored" => Entering' = Entering \ {r}
<1>1. Asked' = Asked
  BY DEF OnlyCall, Asked
<1>2. Told' = [Told EXCEPT ![r] = OutcomeOf(call'[r])]
  BY DEF OnlyCall, Told, OutcomeOf
<1>3. call'[r].pc = "stored" => Entering' = Entering \cup {r}
  BY DEF OnlyCall, Entering
<1>4. call'[r].pc # "stored" => Entering' = Entering \ {r}
  BY DEF OnlyCall, Entering
<1> QED
  BY <1>1, <1>2, <1>3, <1>4

(* A call between the mutex and the insert is one the book has not closed. *)
LEMMA BusyIsOpen ==
  ASSUME IInv, NEW r \in Request, call[r].pc \in {"waiting", "checked", "unknown", "sequenced"}
  PROVE  /\ Book!Open(r) /\ r \notin Entering /\ Told[r] = "none"
         /\ Asked[r] = call[r].key /\ call[r].key \in IdKey
  BY RequestsAssumption DEF IInv, Linked, Book!Open, Asked, Entering, Told

LEMMA InBookIsStored == ASSUME NEW k PROVE Book!InBook(k) <=> Stored(k)
<1>1. \A row : EntryOf(row).key = row.key
  BY DEF EntryOf
<1>2. Book!InBook(k) <=> \E e \in Entries : e.key = k
  BY DEF Book!InBook
<1>3. (\E e \in Entries : e.key = k) <=> \E row \in Rows : EntryOf(row).key = k
  BY DEF Entries
<1> QED
  BY <1>1, <1>2, <1>3 DEF Stored

LEMMA EntryIsSent ==
  ASSUME IInv, NEW r \in Request, call[r].pc # "idle"
  PROVE  /\ EntryOf(NewRow(r)) = Book!Entry(r)
         /\ Book!Entry(r).problem = ProblemOf(r)
  BY DEF EntryOf, NewRow, Book!Entry, Asked, ProblemOf

LEMMA EntriesStay == UNCHANGED table => UNCHANGED Entries
  BY DEF Entries, Rows

(* Each action is a step of the book, or leaves it alone.                  *)
BookStep == Book!Next \/ UNCHANGED Book!vars

LEMMA NothingSeen ==
  ASSUME UNCHANGED <<answer, table, Asked, Entering, Told>>
  PROVE  BookStep
  BY EntriesStay DEF BookStep, Book!vars

LEMMA SendEnters ==
  ASSUME IInv, BookInv, NEW r \in Request, NEW k \in IdKey, Send(r, k)
  PROVE  BookStep
<1>1. /\ call \in [Request -> Call] /\ call[r].pc = "idle" /\ call[r].reply = "none"
      /\ call' = [call EXCEPT ![r].pc = "waiting", ![r].key = k]
      /\ UNCHANGED <<answer, table>>
  BY DEF IInv, SubmitTypeOK, Linked, Send
<1>2. Asked[r] = Null
  BY <1>1 DEF BookInv, NothingAsked, Asked
<1>3. Asked' = [Asked EXCEPT ![r] = k]
  BY <1>1 DEF Asked, Call
<1>4. Entering' = Entering /\ Told' = Told
  BY <1>1 DEF Entering, Told, Call
<1>5. Book!Ask(r, k)
  BY <1>1, <1>2, <1>3, <1>4, EntriesStay DEF Book!Ask
<1> QED
  BY <1>5 DEF BookStep, Book!Next

LEMMA RefusedByTheBook ==
  ASSUME IInv, BookInv, NEW r \in Request, call[r].pc = "waiting",
         memory[ProblemOf(r)] # Null,
         UNCHANGED <<answer, table, Asked, Entering>>,
         \/ memory[ProblemOf(r)].correct /\ Told' = [Told EXCEPT ![r] = "alreadyCorrect"]
         \/ ProblemOf(r) \in OneTry /\ Told' = [Told EXCEPT ![r] = "onlyOnce"]
  PROVE  Book!Refuse(r)
<1>1. ProblemOf(r) \in Question
  BY ProblemType DEF IInv
<1>2. PICK i \in DOMAIN table : /\ table[i].problem = ProblemOf(r)
                               /\ table[i].correct = memory[ProblemOf(r)].correct
  BY <1>1 DEF BookInv, CacheBacked, Backed
<1>3. PICK e \in Entries : e.problem = ProblemOf(r) /\ e.correct = table[i].correct
  <2>1. EntryOf(table[i]) \in Entries
    BY <1>2 DEF Entries, Rows
  <2>2. EntryOf(table[i]).problem = table[i].problem /\ EntryOf(table[i]).correct = table[i].correct
    BY DEF EntryOf
  <2> QED
    BY <1>2, <2>1, <2>2
<1>4. e.problem = Book!Entry(r).problem /\ Book!Open(r)
  BY <1>3, EntryIsSent, BusyIsOpen
<1> QED
  BY <1>2, <1>3, <1>4, EntriesStay DEF Book!Refuse, Book!Tell

LEMMA CheckEnters ==
  ASSUME IInv, BookInv, NEW r \in Request, Check(r)
  PROVE  BookStep
<1> DEFINE previous == memory[ProblemOf(r)]
<1>1. call[r].pc = "waiting" /\ call \in [Request -> Call] /\ UNCHANGED <<answer, table>>
  BY DEF IInv, SubmitTypeOK, Check
<1>2. CASE previous # Null /\ previous.correct
  <2>1. call' = [call EXCEPT ![r].pc = "done", ![r].reply = "alreadyCorrect"]
    BY <1>2 DEF Check, Reply
  <2>2. OnlyCall(r) /\ call'[r].pc = "done" /\ call'[r].reply = "alreadyCorrect"
    BY <1>1, <2>1 DEF OnlyCall, Call
  <2>3. Asked' = Asked /\ Told' = [Told EXCEPT ![r] = "alreadyCorrect"] /\ Entering' = Entering \ {r}
    BY <2>2, OneCall DEF OutcomeOf
  <2>4. Entering' = Entering
    BY <1>1, <2>3, BusyIsOpen
  <2>5. Book!Refuse(r)
    BY ONLY <1>1, <1>2, <2>3, <2>4, IInv, BookInv, r \in Request, RefusedByTheBook
  <2> QED
    BY <2>5 DEF BookStep, Book!Next
<1>3. CASE previous # Null /\ ~previous.correct /\ ProblemOf(r) \in OneTry
  <2>1. call' = [call EXCEPT ![r].pc = "done", ![r].reply = "onlyOnce"]
    BY <1>3 DEF Check, Reply
  <2>2. OnlyCall(r) /\ call'[r].pc = "done" /\ call'[r].reply = "onlyOnce"
    BY <1>1, <2>1 DEF OnlyCall, Call
  <2>3. Asked' = Asked /\ Told' = [Told EXCEPT ![r] = "onlyOnce"] /\ Entering' = Entering \ {r}
    BY <2>2, OneCall DEF OutcomeOf
  <2>4. Entering' = Entering
    BY <1>1, <2>3, BusyIsOpen
  <2>5. Book!Refuse(r)
    BY ONLY <1>1, <1>3, <2>3, <2>4, IInv, BookInv, r \in Request, RefusedByTheBook
  <2> QED
    BY <2>5 DEF BookStep, Book!Next
<1>4. CASE ~(previous # Null /\ previous.correct) /\ ~(previous # Null /\ ProblemOf(r) \in OneTry)
  <2>1. /\ call' \in [Request -> Call] /\ \A u \in Request \ {r} : call'[u] = call[u]
        /\ call'[r].key = call[r].key /\ call'[r].pc = "checked"
        /\ call'[r].reply = call[r].reply
    <3>1. call' \in [Request -> Call]
      BY CheckIInv DEF IInv, SubmitTypeOK
    <3> QED
      BY <1>1, <1>4, <3>1 DEF Check, Call
  <2>2. OnlyCall(r)
    BY <1>1, <2>1 DEF OnlyCall
  <2>3. Told' = Told /\ Entering' = Entering /\ Asked' = Asked
    <3>1. Told[r] = "none" /\ r \notin Entering
      BY <1>1, BusyIsOpen
    <3>2. OutcomeOf(call'[r]) = "none"
      BY <1>1, <2>1, <3>1 DEF OutcomeOf, Told
    <3>3. Told \in [Request -> {OutcomeOf(call[u]) : u \in Request}]
      BY DEF Told, OutcomeOf
    <3>4. Asked' = Asked /\ Told' = [Told EXCEPT ![r] = "none"] /\ Entering' = Entering \ {r}
      BY ONLY <2>1, <2>2, <3>2, OneCall, r \in Request
    <3> QED
      BY ONLY <3>1, <3>3, <3>4
  <2> QED
    BY <1>1, <2>3, NothingSeen
<1> QED
  BY <1>2, <1>3, <1>4

LEMMA ReuseEnters ==
  ASSUME IInv, NEW r \in Request, call[r].pc \in {"checked", "sequenced"},
         Stored(call[r].key), Reply(r, "reused"), UNCHANGED <<answer, table>>
  PROVE  BookStep
<1>1. OnlyCall(r) /\ call'[r].pc = "done" /\ call'[r].reply = "reused"
  BY DEF IInv, SubmitTypeOK, Reply, OnlyCall, Call
<1>2. Asked' = Asked /\ Told' = [Told EXCEPT ![r] = "reused"] /\ Entering' = Entering \ {r}
  BY <1>1, OneCall DEF OutcomeOf
<1>3. Book!Open(r) /\ r \notin Entering /\ Book!InBook(Asked[r])
  BY BusyIsOpen, InBookIsStored
<1>4. Book!Recognise(r)
  BY <1>2, <1>3, EntriesStay DEF Book!Recognise, Book!Tell
<1> QED
  BY <1>4 DEF BookStep, Book!Next

LEMMA AdvanceUnseen ==
  ASSUME IInv, NEW r \in Request, call[r].pc \in {"checked", "unknown"}, OnlyCall(r),
         call'[r].pc \in {"unknown", "sequenced"}, call'[r].reply = call[r].reply,
         UNCHANGED <<answer, table>>
  PROVE  BookStep
<1>1. Asked' = Asked /\ Told' = [Told EXCEPT ![r] = OutcomeOf(call'[r])] /\ Entering' = Entering \ {r}
  BY OneCall
<1>2. r \notin Entering /\ Told[r] = "none" /\ OutcomeOf(call'[r]) = Told[r]
  BY BusyIsOpen DEF OutcomeOf, Told
<1>3. Told' = Told /\ Entering' = Entering
  BY <1>1, <1>2 DEF Told
<1> QED
  BY <1>1, <1>3, NothingSeen

LEMMA LookUpEnters ==
  ASSUME IInv, NEW r \in Request, LookUp(r) \/ AllocateSequence(r)
  PROVE  BookStep
<1>1. call \in [Request -> Call] /\ UNCHANGED <<answer, table>>
  BY DEF IInv, SubmitTypeOK, LookUp, AllocateSequence
<1>2. CASE LookUp(r) /\ Stored(call[r].key)
  BY <1>2, ReuseEnters DEF LookUp
<1>3. CASE LookUp(r) /\ ~Stored(call[r].key)
  <2>1. call[r].pc = "checked" /\ call' = [call EXCEPT ![r].pc = "unknown"]
    BY <1>3 DEF LookUp, Advance
  <2>2. OnlyCall(r) /\ call'[r].pc = "unknown" /\ call'[r].reply = call[r].reply
    BY <1>1, <2>1 DEF OnlyCall, Call
  <2> QED
    BY <1>1, <2>1, <2>2, AdvanceUnseen
<1>4. CASE AllocateSequence(r)
  <2>1. /\ call[r].pc = "unknown" /\ next \in Nat
        /\ call' = [call EXCEPT ![r].pc = "sequenced", ![r].sequence = next]
    BY <1>4 DEF AllocateSequence, IInv, SubmitTypeOK
  <2>2. OnlyCall(r) /\ call'[r].pc = "sequenced" /\ call'[r].reply = call[r].reply
    BY <1>1, <2>1 DEF OnlyCall, Call
  <2> QED
    BY <1>1, <2>1, <2>2, AdvanceUnseen
<1> QED
  BY <1>2, <1>3, <1>4

(* The row that is inserted is the entry the book expects.                 *)
LEMMA NewEntry ==
  ASSUME IInv, BookInv, NEW r \in Request, call[r].pc = "sequenced", ~Stored(call[r].key),
         table' = Append(table, NewRow(r)), answer' = answer
  PROVE  Entries' = Entries \cup {Book!Entry(r)} /\ ~Book!InBook(Asked[r]) /\ Book!Open(r)
<1>1. Entries' = Entries \cup {EntryOf(NewRow(r))}
  BY TableGrows
<1>2. EntryOf(NewRow(r)) = Book!Entry(r)
  BY EntryIsSent
<1> QED
  BY <1>1, <1>2, BusyIsOpen, InBookIsStored

LEMMA InsertEnters ==
  ASSUME IInv, BookInv, NEW r \in Request, Insert(r)
  PROVE  BookStep
<1>1. call \in [Request -> Call] /\ call[r].pc = "sequenced" /\ UNCHANGED answer
  BY DEF IInv, SubmitTypeOK, Insert
<1>2. CASE Stored(call[r].key)
  BY <1>1, <1>2, ReuseEnters DEF Insert
<1>3. CASE ~Stored(call[r].key)
  <2>1. call' = [call EXCEPT ![r].pc = "stored"] /\ table' = Append(table, NewRow(r))
    BY <1>3 DEF Insert, Advance
  <2>2. OnlyCall(r) /\ call'[r].pc = "stored" /\ call'[r].reply = call[r].reply
    BY <1>1, <2>1 DEF OnlyCall, Call
  <2>3. /\ Asked' = Asked /\ Told' = [Told EXCEPT ![r] = OutcomeOf(call'[r])]
        /\ Entering' = Entering \cup {r}
    BY <2>2, OneCall
  <2>4. OutcomeOf(call'[r]) = Told[r]
    BY <1>1, <2>2, BusyIsOpen DEF OutcomeOf, Told
  <2>5. Told' = Told
    BY <2>3, <2>4 DEF Told
  <2>6. Book!Enter(r)
    BY <1>1, <1>3, <2>1, <2>3, <2>5, NewEntry DEF Book!Enter
  <2> QED
    BY <2>6 DEF BookStep, Book!Next
<1> QED
  BY <1>2, <1>3

LEMMA ApplyEnters ==
  ASSUME IInv, NEW r \in Request, ApplyToPlayer(r)
  PROVE  BookStep
<1>1. /\ call \in [Request -> Call] /\ call[r].pc = "stored" /\ UNCHANGED <<answer, table>>
      /\ call' = [call EXCEPT ![r].pc = "done", ![r].reply = "accepted"]
  BY DEF IInv, SubmitTypeOK, ApplyToPlayer, Reply
<1>2. OnlyCall(r) /\ call'[r].pc = "done" /\ call'[r].reply = "accepted"
  BY <1>1 DEF OnlyCall, Call
<1>3. Asked' = Asked /\ Told' = [Told EXCEPT ![r] = "accepted"] /\ Entering' = Entering \ {r}
  BY <1>2, OneCall DEF OutcomeOf
<1>4. r \in Entering
  BY <1>1 DEF Entering
<1>5. Book!Accept(r)
  BY <1>1, <1>3, <1>4, EntriesStay DEF Book!Accept, Book!Tell
<1> QED
  BY <1>5 DEF BookStep, Book!Next

LEMMA FailEnters ==
  ASSUME IInv, BookInv, NEW r \in Request, Fail(r)
  PROVE  BookStep
<1>1. /\ call \in [Request -> Call] /\ call[r].pc \in {"checked", "unknown", "sequenced"}
      /\ call' = [call EXCEPT ![r].pc = "done"] /\ UNCHANGED answer /\ call[r].reply = "none"
  BY DEF IInv, SubmitTypeOK, Linked, Fail, Advance
<1>2. OnlyCall(r) /\ call'[r].pc = "done" /\ call'[r].reply = "none"
  BY <1>1 DEF OnlyCall, Call
<1>3. Asked' = Asked /\ Told' = [Told EXCEPT ![r] = "lost"] /\ Entering' = Entering \ {r}
  BY <1>2, OneCall DEF OutcomeOf
<1>4. Book!Open(r) /\ r \notin Entering
  BY <1>1, BusyIsOpen
<1>5. \/ Entries' = Entries
      \/ ~Book!InBook(Asked[r]) /\ Entries' = Entries \cup {Book!Entry(r)}
  <2>1. CASE table' = table
    BY <2>1, EntriesStay
  <2>2. CASE table' # table
    BY <1>1, <2>2, NewEntry DEF Fail
  <2> QED
    BY <2>1, <2>2
<1>6. Book!Lose(r)
  BY <1>1, <1>3, <1>4, <1>5 DEF Book!Lose, Book!Tell
<1> QED
  BY <1>6 DEF BookStep, Book!Next

(* For any requests, keys and problems, any reloads of the cache and any   *)
(* failures: the submit path enters each answer once, as it was sent, tells*)
(* nobody what the book does not say, and turns nobody away without cause, *)
(* however old the cache is that the answer was checked against.           *)
THEOREM ImplementsBook == SubmitSpec => BookSpec
<1>1. SubmitInit => Book!Init
  BY DEF SubmitInit, NoCall, Book!Init, Entries, Rows, Asked, Entering, Told
<1>2. IInv /\ BookInv /\ [SubmitNext]_submitVars => [Book!Next]_(Book!vars)
  <2> SUFFICES ASSUME IInv, BookInv, [SubmitNext]_submitVars PROVE BookStep
    BY DEF BookStep
  <2>1. ASSUME NEW r \in Request, NEW k \in IdKey, Send(r, k) PROVE BookStep
    BY <2>1, SendEnters
  <2>2. ASSUME NEW r \in Request, Handle(r) PROVE BookStep
    BY <2>2, CheckEnters, LookUpEnters, InsertEnters, ApplyEnters, FailEnters DEF Handle
  <2>3. CASE ReloadRead \/ ReloadDone \/ UNCHANGED submitVars
    <3>1. UNCHANGED <<answer, table, call>>
      BY <2>3 DEF ReloadRead, ReloadDone, submitVars
    <3>2. UNCHANGED <<Asked, Entering, Told>>
      BY <3>1 DEF Asked, Entering, Told
    <3> QED
      BY <3>1, <3>2, NothingSeen
  <2> QED
    BY <2>1, <2>2, <2>3 DEF SubmitNext
<1> QED
  BY <1>1, <1>2, Counted, BookInvariance, PTL DEF SubmitSpec, BookSpec, Book!Spec
=============================================================================
