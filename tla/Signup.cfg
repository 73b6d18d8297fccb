SPECIFICATION MCSpec
CONSTANTS
  Name = {n, m}
  Email = {e, f}
  School = {s1, s2}
  Code = {k1, k2}
  Secret = {x}
  Browser = {a, b}
  Visitor <- MCVisitor
  Call = {c, d}
  CodeTTL = 0
  EnvBinding <- MCEnv
  Key <- MCKey
  Limit <- MCLimit
  Window = 2
  MaxTime = 6
  MaxSent = 3
  MaxEdits = 1
  NoBucket = NoBucket
  None = None
  MaxPassed = 6
  k1 = k1
  k2 = k2
  s1 = s1
  s2 = s2
INVARIANTS AttemptsBounded ConversionsAttributed SeatsVerified BrowsersAgree RefusalsExplained
SYMMETRY MCSymmetry
CHECK_DEADLOCK FALSE
