SPECIFICATION MCSpec
CONSTANTS
  Players = 2
  ScoredProblem <- MCScored
  TicksPerMinute = 2
  WrongPenalty = 3
  FreezeAt = 2
  EndAt = 4
  None = None
  MaxAnswers = 3
  p1 = p1
  p2 = p2
  q1 = q1
  q2 = q2
  Player = {p1, p2, p3}
  Problem = {q1, q2}
  Opponent = {penLock}
  Advice = adviceNote
  Weak = {blur}
  Hardest = {q2}
  Choice = {q2}
  Locking = {penLock}
  Duration = 1
  Notice = 1
  Cooldown <- MCCooldown
  Answerable <- MCAnswers
  Unset = Unset
  Question = {q1, q2}
  OneTry = {q2}
  Null = Null
  Request = {r1, r2, r3}
  IdKey = {1, 2}
  MaxReloads = 1
  MaxFailures = 1
INVARIANTS TotalsAgree RevealFromBelow PromptBoardShowsResult StoredOnce SolvedOnce AttemptsCounted OneActiveEffect NotesAreTrue ScreenAgreesWithServer
PROPERTIES BookSpec AnswersSettle EffectsEnd
CHECK_DEADLOCK FALSE
