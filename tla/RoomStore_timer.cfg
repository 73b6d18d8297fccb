SPECIFICATION Spec
CONSTANTS
  Process = {p1}
  Mutation = {m1}
  Registration = {}
  Submission = {f1}
  Reader = {}
  Newcomers = {}
  PlayerOf <- MCPlayerOf
  None = None
  Crashes = 0
INVARIANTS AcknowledgedDurable
CHECK_DEADLOCK FALSE
