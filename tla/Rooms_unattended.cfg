SPECIFICATION FairSpec
CONSTANTS
  Code = {1}
  Player = {1, 2}
  Token = {1, 2, 3}
  Socket = {1, 2}
  None = None
  CreateKey = CreateKey
  EventKey = EventKey
  MaxPlayersPerRoom = 2
  MaxContestPlayersPerRoom = 2
  MaxActiveRooms = 1
  EmptyLobbyTtl = 0
  DisconnectedLobbyTtl = 0
  FinishedTtl = 0
  TimeLimit = 2
  FreezeBefore = 1
  EventExam = "open"
  RemotePresence = TRUE
  Inputs = {"room:create", "event:register", "event:spectate", "room:join", "room:start-if-released", "answer:submit", "room:leave", "read", "restart", "tick"}
  MaxPending = 1
  MaxSealed = 1
INVARIANTS WithinCapacity
PROPERTIES LifeFairSpec AbandonedRoomsExpire
