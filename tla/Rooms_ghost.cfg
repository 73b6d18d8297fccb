SPECIFICATION FairSpec
CONSTANTS
  Code = {1}
  Player = {1}
  Token = {1, 2}
  Socket = {1}
  None = None
  CreateKey = CreateKey
  EventKey = EventKey
  MaxPlayersPerRoom = 2
  MaxContestPlayersPerRoom = 2
  MaxActiveRooms = 1
  EmptyLobbyTtl = 0
  DisconnectedLobbyTtl = 0
  FinishedTtl = 0
  TimeLimit = 2
  FreezeBefore = 1
  EventExam = "none"
  RemotePresence = FALSE
  Inputs = {"room:create", "room:start", "tick"}
  MaxPending = 1
  MaxSealed = 1
PROPERTIES AbandonedRoomsExpire
CHECK_DEADLOCK FALSE
