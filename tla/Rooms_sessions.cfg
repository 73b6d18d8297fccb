SPECIFICATION Spec
CONSTANTS
  Code = {1, 2}
  Player = {1, 2}
  Token = {1, 2, 3}
  Socket = {1, 2}
  None = None
  CreateKey = CreateKey
  EventKey = EventKey
  MaxPlayersPerRoom = 2
  MaxContestPlayersPerRoom = 2
  MaxActiveRooms = 2
  EmptyLobbyTtl = 0
  DisconnectedLobbyTtl = 0
  FinishedTtl = 0
  TimeLimit = 2
  FreezeBefore = 1
  EventExam = "none"
  RemotePresence = FALSE
  Inputs = {"room:create", "room:join", "room:rejoin", "room:leave", "restart"}
  MaxPending = 2
  MaxSealed = 1
INVARIANTS OneCurrentSocket BindingsResolve
PROPERTIES OnlyTheAbsentGoAway
