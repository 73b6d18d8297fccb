SPECIFICATION Spec
CONSTANTS
  Code = {1}
  Player = {1, 2}
  Token = {1, 2, 3}
  Socket = {1, 2}
  None = None
  CreateKey = CreateKey
  EventKey = EventKey
  MaxPlayersPerRoom = 2
  MaxContestPlayersPerRoom = 2
  MaxActiveRooms = 1
  EmptyLobbyTtl = 0
  DisconnectedLobbyTtl = 0
  FinishedTtl = 0
  TimeLimit = 2
  FreezeBefore = 1
  EventExam = "invite"
  RemotePresence = FALSE
  Inputs = {"room:create", "room:join", "room:start", "room:end", "room:reveal-next", "answer:submit", "room:leave", "room:kick", "player:ready", "problem:set", "item:use", "event:register", "tick"}
  MaxPending = 1
  MaxSealed = 1
INVARIANTS BoardConsistent
PROPERTIES LifeSpec
