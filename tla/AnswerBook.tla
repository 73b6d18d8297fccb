----------------------------- MODULE AnswerBook -----------------------------
(***************************************************************************)
(* What a player of a contest may rely on: a book into which each answer   *)
(* is entered once, as it was sent, and which forgets nothing.  Who is told*)
(* that an answer is accepted has entered it; who is told that it is known *)
(* finds it in the book; who is refused, because the problem is solved or  *)
(* was answered before, is refused by what the book says.  A request may be*)
(* lost, before its answer is entered or after.  Nothing is said here of   *)
(* rows, sequences and caches: ContestSubmissions refines this module.     *)
(***************************************************************************)
CONSTANTS Request, IdKey,
          Choice,     \* problems that take one answer
          None

VARIABLES answer,     \* key -> the answer that carries it; never changes
          book,       \* entries: a key with its problem, and right or wrong
          asked,      \* request -> its key, None before it is made
          entered,    \* requests that have entered their answer and not said so
          reply       \* request -> "none" as yet, what it was told, or "lost"

vars == <<answer, book, asked, entered, reply>>

Entry(r) == [key |-> asked[r], problem |-> answer[asked[r]].problem,
             correct |-> answer[asked[r]].correct]

InBook(k) == \E e \in book : e.key = k
Open(r)   == asked[r] # None /\ r \notin entered /\ reply[r] = "none"
Tell(r, what) == reply' = [reply EXCEPT ![r] = what]

Init ==
  /\ book = {} /\ entered = {}
  /\ asked = [r \in Request |-> None]
  /\ reply = [r \in Request |-> "none"]

Ask(r, k) ==
  /\ asked[r] = None
  /\ asked' = [asked EXCEPT ![r] = k]
  /\ UNCHANGED <<answer, book, entered, reply>>

Enter(r) ==
  /\ Open(r) /\ ~InBook(asked[r])
  /\ book' = book \cup {Entry(r)} /\ entered' = entered \cup {r}
  /\ UNCHANGED <<answer, asked, reply>>

Accept(r) ==
  /\ r \in entered
  /\ entered' = entered \ {r} /\ Tell(r, "accepted")
  /\ UNCHANGED <<answer, book, asked>>

Recognise(r) ==
  /\ Open(r) /\ InBook(asked[r])
  /\ Tell(r, "reused")
  /\ UNCHANGED <<answer, book, asked, entered>>

Refuse(r) ==
  /\ Open(r)
  /\ \E e \in book :
       /\ e.problem = Entry(r).problem
       /\ \/ e.correct /\ Tell(r, "alreadyCorrect")
          \/ e.problem \in Choice /\ Tell(r, "onlyOnce")
  /\ UNCHANGED <<answer, book, asked, entered>>

Lose(r) ==
  /\ Open(r)
  /\ \/ UNCHANGED book
     \/ ~InBook(asked[r]) /\ book' = book \cup {Entry(r)}
  /\ Tell(r, "lost")
  /\ UNCHANGED <<answer, asked, entered>>

Next == \E r \in Request : \/ \E k \in IdKey : Ask(r, k)
                           \/ Enter(r) \/ Accept(r) \/ Recognise(r) \/ Refuse(r) \/ Lose(r)

Spec == Init /\ [][Next]_vars
=============================================================================
