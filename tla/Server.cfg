SPECIFICATION MCSpec
CONSTANTS
  Calls = {a1, a2, a3, a4}
  Keys = {k1, k2}
  None = None
  Process = {p, q}
  Create = {c1, c2}
  Register = {e1, e2}
  Solo = {s1}
  Change = {h1}
  Existing = {x}
  Answered = {x}
  PoolSize = 2
  MaxActiveRooms = 1
  MaxPlayers = 2
  MaxCrashes = 1
  NoRow = NoRow
  NoWrite = NoWrite
  p = p
  q = q
  c1 = c1
  c2 = c2
  e1 = e1
  e2 = e2
  s1 = s1
  h1 = h1
  x = x
INVARIANTS NoOvertaking EntryIffPending ActiveRoomsBounded PlacesBounded NobodyStuck
PROPERTIES LockFairSpec
CHECK_DEADLOCK FALSE
