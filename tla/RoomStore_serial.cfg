SPECIFICATION FairSpec
CONSTANTS
  Process = {p1, p2}
  Mutation = {m1, m2, m3}
  Registration = {}
  Submission = {}
  Reader = {q1}
  Newcomers = {}
  PlayerOf <- MCPlayerOf
  None = None
  Crashes = 1
INVARIANTS AcknowledgedDurable
PROPERTIES AtomicSpec MutationsSettle
CHECK_DEADLOCK FALSE
