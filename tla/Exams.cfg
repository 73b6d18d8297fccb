SPECIFICATION MCSpec
CONSTANTS
  Exam = {x}
  Room = {r}
  Admin = {a, b}
  Settings <- MCSettings
  MaxTime = 3
  MaxWrites = 3
  None = None
  MaxExam = 2
  MaxNumber = 2
  Text = {0, 1, 2}
  Refused = {2}
  NewText = 0
  Call = {c1, c2}
  Catalogues <- MCCatalogues
  MaxCalls = 3
  Missing = Missing
INVARIANTS TimesAgree BoardOnlyWhenFrozen RoomsFollowSettings CopyFollowsTables FormBelongs
SYMMETRY MCSymmetry
CHECK_DEADLOCK FALSE
