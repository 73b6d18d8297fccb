SPECIFICATION Spec
CONSTANTS
  Process = {p1, p2}
  Mutation = {m1}
  Registration = {r1}
  Submission = {f1, f2}
  Reader = {}
  Newcomers = {f2}
  PlayerOf <- MCPlayerOf
  None = None
  Crashes = 1
SYMMETRY Symmetry
PROPERTIES LoadsShowAnswers
CHECK_DEADLOCK FALSE
