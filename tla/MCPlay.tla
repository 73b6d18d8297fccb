------------------------------- MODULE MCPlay -------------------------------
(* One run for three sides of a running exam: the scoreboard of a contest, *)
(* the contest answers of a player on their way to the table, and the items*)
(* of a casual room.  A behaviour runs one part and leaves the others in an*)
(* initial state.                                                          *)
EXTENDS Scoreboard, Items, ContestSubmissions

CONSTANTS p1, p2, q1, q2

VARIABLE part

MCScored == {[name |-> "easy", points |-> 2], [name |-> "hard", points |-> 3]}

(* Only the note has to wait before it is used again; p1 and p2 each solve *)
(* a problem that the others miss; p2 also fails.                          *)
MCCooldown == [i \in Item |-> IF i = Advice THEN 1 ELSE 0]
MCAnswers  == {<<p1, q1, TRUE>>, <<p2, q2, TRUE>>, <<p2, q1, FALSE>>}

(* What is sent matters to the answers only, and no definition tells the   *)
(* keys 1 and 2 apart, so that what is sent with them may be ordered.      *)
Place(a) == (IF a.problem = q1 THEN 0 ELSE 2) + (IF a.correct THEN 1 ELSE 0)

MCInit ==
  /\ part \in {"board", "answers", "items"}
  /\ Init /\ SubmitInit /\ ItemsInit
  /\ Place(answer[1]) <= Place(answer[2])
  /\ part = "answers" \/ \A k \in IdKey : answer[k] = [problem |-> q1, correct |-> TRUE]

MCNext ==
  \/ part = "board"   /\ Next       /\ UNCHANGED <<part, submitVars, itemVars>>
  \/ part = "answers" /\ SubmitNext /\ UNCHANGED <<part, vars, itemVars>>
  \/ part = "items"   /\ ItemsNext  /\ UNCHANGED <<part, vars, submitVars>>

(* Nothing that the fairness speaks of is enabled in the other parts.      *)
MCSpec ==
  /\ MCInit /\ [][MCNext]_<<part, vars, submitVars, itemVars>>
  /\ SubmitFairness /\ ItemsFairness
=============================================================================
