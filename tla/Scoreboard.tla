----------------------------- MODULE Scoreboard -----------------------------
(***************************************************************************)
(* Points, penalties and the frozen scoreboard of one running exam:        *)
(* server/scoring.ts, applySubmissionToPlayer and the freeze of            *)
(* server/index.ts, and the reveal of shared/reveal.ts.  Answers enter the *)
(* model once the handler has accepted them for recording.  Time runs in   *)
(* ticks from the start of the exam.                                       *)
(***************************************************************************)
EXTENDS Naturals, Sequences, FiniteSetsExt

CONSTANTS
  Players,          \* how many players, numbered in the order they joined
  ScoredProblem,          \* problems; a problem is its point value and a name
  TicksPerMinute, WrongPenalty,   \* the minute, and WRONG_ANSWER_PENALTY_MS in minutes
  FreezeAt, EndAt,  \* scoreboardFrozenAt and endsAt
  None,
  MaxAnswers        \* bound: answers recorded in all

Contestant == 1 .. Players

ASSUME ScoreboardAssumption ==
  /\ Players \in Nat \ {0}
  /\ \A p \in ScoredProblem : p.points \in Nat \ {0}
  /\ {TicksPerMinute, WrongPenalty, FreezeAt, EndAt, MaxAnswers} \subseteq Nat
  /\ TicksPerMinute > 0 /\ FreezeAt <= EndAt /\ None \notin Nat

VARIABLES
  now,        \* ticks since startedAt
  status,     \* playing or finished
  history,    \* submissionHistory of each player
  total,      \* score, penalty and solved as applySubmissionToPlayer adds them up
  frozen,     \* frozenStandings, empty until taken
  revealed    \* scoreboardRevealCount

vars == <<now, status, history, total, frozen, revealed>>

Submission == [problem : ScoredProblem, correct : BOOLEAN, at : Nat, attempts : Nat]
Totals == [score : Nat, penalty : Nat, solved : Nat]
Row == [player : Contestant, score : Nat, penalty : Nat, solved : Nat, last : Nat \cup {None}]

Elements(seq) == {seq[i] : i \in DOMAIN seq}
Sum(S, Value(_)) == MapThenSumSet(Value, S)
-----------------------------------------------------------------------------
(* scoring.ts                                                              *)

(* Minutes begun since the start, and the wrong answers before.            *)
Penalty(s) ==
  IF ~s.correct THEN 0
  ELSE (s.at + TicksPerMinute - 1) \div TicksPerMinute + (s.attempts - 1) * WrongPenalty

(* Faulty variant: the first answer to a problem is the one that counts.   *)
FirstAnswers(p) ==
  {history[p][i] : i \in {j \in DOMAIN history[p] :
     \A k \in DOMAIN history[p] : k < j => history[p][k].problem # history[p][j].problem}}

(* player.submissions: the last answer to each problem.                    *)
LastAnswers(p) ==
  {history[p][i] : i \in {j \in DOMAIN history[p] :
     \A k \in DOMAIN history[p] : k > j => history[p][k].problem # history[p][j].problem}}

Accepted(S) == {s \in S : s.correct}
Points(s)   == s.problem.points
LastOf(S)   == IF S = {} THEN None ELSE Max({s.at : s \in S})

(* derivePlayerScoreState, as a row of makeStandings                       *)
StandingOf(p, answers) ==
  LET accepted == Accepted(answers)
  IN [player |-> p, score |-> Sum(accepted, Points), penalty |-> Sum(accepted, Penalty),
      solved |-> Cardinality(accepted), last |-> LastOf(accepted)]

Standing(p) == StandingOf(p, LastAnswers(p))

(* compareStandings(a, b) < 0; somebody who solved nothing comes last.     *)
Earlier(a, b) == a.last # None /\ (b.last = None \/ a.last < b.last)
Ahead(a, b) ==
  \/ a.score > b.score
  \/ a.score = b.score /\ a.penalty < b.penalty
  \/ a.score = b.score /\ a.penalty = b.penalty /\ a.solved > b.solved
  \/ a.score = b.score /\ a.penalty = b.penalty /\ a.solved = b.solved /\ Earlier(a, b)

(* Array.prototype.sort keeps the order of rows that compare as equal.     *)
Sorted(rows) ==
  LET Place(i) == Cardinality({j \in DOMAIN rows :
                     Ahead(rows[j], rows[i]) \/ (~Ahead(rows[i], rows[j]) /\ j <= i)})
  IN [n \in DOMAIN rows |-> rows[CHOOSE i \in DOMAIN rows : Place(i) = n]]

Standings == Sorted([p \in Contestant |-> Standing(p)])
-----------------------------------------------------------------------------
(* reveal.ts.  A state of the reveal is the order of the board and, for    *)
(* each player, how many of the sealed answers are open.                   *)

(* The elements of seq at the given places, in their order.                *)
At(seq, places) ==
  [n \in 1 .. Cardinality(places) |->
     seq[CHOOSE i \in places : Cardinality({j \in places : j <= i}) = n]]

(* Faulty variant: answers given in the instant of the freeze are sealed.  *)
SealedFromFreeze(p) == At(history[p], {i \in DOMAIN history[p] : history[p][i].at >= FreezeAt})

Sealed(p) == At(history[p], {i \in DOMAIN history[p] : history[p][i].at > FreezeAt})

FrozenRow(p) == CHOOSE row \in Elements(frozen) : row.player = p

(* makePartialStanding: the frozen row plus the opened answers, the right  *)
(* ones once per problem.                                                  *)
Partial(p, open) ==
  LET opened == {Sealed(p)[i] : i \in 1 .. open[p]}
      accepted == Accepted(opened)
      base == FrozenRow(p)
  IN [player |-> p,
      score |-> base.score + Sum(accepted, Points),
      penalty |-> base.penalty + Sum(opened, Penalty),
      solved |-> base.solved + Cardinality(accepted),
      last |-> IF accepted = {} THEN base.last
               ELSE IF base.last = None THEN LastOf(accepted)
               ELSE Max({base.last, LastOf(accepted)})]

Unopened(p, open) == open[p] < Len(Sealed(p))

(* Faulty variant: the reveal starts at the top.                           *)
Top(board, open) ==
  board[Min({i \in DOMAIN board : Unopened(board[i].player, open)})].player

(* findBottomRevealPlayer: the lowest place with something left to open.   *)
Bottom(board, open) ==
  board[Max({i \in DOMAIN board : Unopened(board[i].player, open)})].player

OpenNext(state) ==
  LET p == Bottom(state.board, state.open)
      open == [state.open EXCEPT ![p] = @ + 1]
  IN [open |-> open, event |-> p,
      board |-> Sorted([i \in DOMAIN state.board |-> Partial(state.board[i].player, open)])]

(* The number of events the server allows (room:reveal-next's total).      *)
RevealTotal == Sum({row.player : row \in Elements(frozen)}, LAMBDA p : Len(Sealed(p)))

RevealSteps ==
  LET step[n \in 0 .. RevealTotal] ==
        IF n = 0 THEN [board |-> Sorted(frozen), open |-> [p \in Contestant |-> 0], event |-> None]
        ELSE OpenNext(step[n - 1])
  IN step
-----------------------------------------------------------------------------
Init ==
  /\ now = 0 /\ status = "playing"
  /\ history = [p \in Contestant |-> <<>>]
  /\ total = [p \in Contestant |-> [score |-> 0, penalty |-> 0, solved |-> 0]]
  /\ frozen = <<>> /\ revealed = 0

Answers == Sum(Contestant, LAMBDA p : Len(history[p]))

(* maybeFreezeScoreboard, on the history as it will be.                    *)
FreezeWith(standings) ==
  frozen' = IF status = "playing" /\ now >= FreezeAt /\ frozen = <<>> THEN standings ELSE frozen

(* An answer is recorded, the running totals are updated, and only then the*)
(* room is emitted, which takes the frozen board if it is due.             *)
Submit(p, problem, correct) ==
  /\ status = "playing" /\ now < EndAt /\ Answers < MaxAnswers
  /\ \A s \in Elements(history[p]) : s.problem = problem => ~s.correct
  /\ LET attempts == Cardinality({i \in DOMAIN history[p] : history[p][i].problem = problem}) + 1
         s == [problem |-> problem, correct |-> correct, at |-> now, attempts |-> attempts]
     IN /\ history' = [history EXCEPT ![p] = Append(@, s)]
        /\ total' = [total EXCEPT ![p] =
             IF correct THEN [score |-> @.score + Points(s), penalty |-> @.penalty + Penalty(s),
                              solved |-> @.solved + 1]
             ELSE @]
  /\ FreezeWith(Standings')
  /\ UNCHANGED <<now, status, revealed>>

(* The maintenance, or any other emit, freezes the board when it is due.   *)
Freeze ==
  /\ status = "playing" /\ now >= FreezeAt /\ frozen = <<>>
  /\ frozen' = Standings
  /\ UNCHANGED <<now, status, history, total, revealed>>

(* The exam ends by itself or, earlier, by its host.                       *)
Finish ==
  /\ status = "playing"
  /\ status' = "finished" /\ revealed' = 0
  /\ frozen' = IF frozen = <<>> THEN Standings ELSE frozen
  /\ UNCHANGED <<now, history, total>>

RevealNext ==
  /\ status = "finished" /\ revealed < RevealTotal
  /\ revealed' = revealed + 1
  /\ UNCHANGED <<now, status, history, total, frozen>>

Tick ==
  /\ status = "playing" /\ now < EndAt
  /\ now' = now + 1
  /\ UNCHANGED <<status, history, total, frozen, revealed>>

Next ==
  \/ \E p \in Contestant, problem \in ScoredProblem, correct \in BOOLEAN : Submit(p, problem, correct)
  \/ Freeze \/ Finish \/ RevealNext \/ Tick

Spec == Init /\ [][Next]_vars
-----------------------------------------------------------------------------
TypeOK ==
  /\ now \in 0 .. EndAt /\ status \in {"playing", "finished"}
  /\ history \in [Contestant -> Seq(Submission)] /\ total \in [Contestant -> Totals]
  /\ frozen \in Seq(Row) /\ revealed \in Nat

(* The totals kept with the player and the ones derived again from the last*)
(* answers, which the standings and every broadcast use, agree.            *)
TotalsAgree ==
  \A p \in Contestant : LET s == Standing(p) IN
    total[p] = [score |-> s.score, penalty |-> s.penalty, solved |-> s.solved]

PlaceOf(p, board) == CHOOSE i \in DOMAIN board : board[i].player = p

(* Once the reveal is complete the board shows the real result of everybody*)
(* on it: freezing and revealing loses and adds nothing.                   *)
RevealShowsResult ==
  status = "finished" /\ revealed = RevealTotal =>
    Elements(RevealSteps[RevealTotal].board) = Elements(Standings)

(* The board is the one of the freeze: it has the answers up to it, and no *)
(* later ones.  Nothing in the code ensures it: maintenance comes once a   *)
(* second, an answer in between freezes the board with itself on it, and   *)
(* one in the very instant of the freeze can come after the board.         *)
BoardOfTheFreeze ==
  Elements(frozen) =
    {StandingOf(p, {s \in LastAnswers(p) : s.at <= FreezeAt}) : p \in Contestant}

(* A board that is the one of the freeze does lead to the real result.     *)
PromptBoardShowsResult == BoardOfTheFreeze => RevealShowsResult

(* The reveal settles the board from below: whoever stands below the place *)
(* being opened has reached the final place and row, and whoever is opened *)
(* does not fall.                                                          *)
RevealFromBelow ==
  status = "finished" =>
    \A n \in 1 .. RevealTotal :
      LET before == RevealSteps[n - 1].board
          place  == PlaceOf(RevealSteps[n].event, before)
      IN /\ PlaceOf(RevealSteps[n].event, RevealSteps[n].board) <= place
         /\ \A j \in DOMAIN before : j > place => before[j] = RevealSteps[RevealTotal].board[j]
=============================================================================
