------------------------------- MODULE Rooms -------------------------------
(***************************************************************************)
(* The room lifecycle of server/index.ts: sockets, the players they are    *)
(* bound to, rooms from lobby to deletion, the scoreboard freeze and the   *)
(* reveal.  A socket event first runs to `withRoomMutation`, where it has  *)
(* captured its player reference, and waits for the mutex of its room; its *)
(* body runs later, on whatever the room has become.  `queue` holds these  *)
(* waiting bodies, per mutex key and in arrival order (KeyedMutex).        *)
(*                                                                         *)
(* Times are ages: how long ago the room was created, last touched and     *)
(* started.  Scores, texts and the ready flags, which no handler reads, are*)
(* left out; the module RoomStore models what the database adds.           *)
(***************************************************************************)
EXTENDS Integers, Sequences, FiniteSets

CONSTANTS
  Code, Player, Token, Socket,   \* room codes, player ids, socket tokens, socket ids
  None,                          \* "" or null or undefined
  CreateKey, EventKey,           \* the mutex keys "__room_create__", "__event_register__"
  MaxPlayersPerRoom, MaxContestPlayersPerRoom, MaxActiveRooms,   \* ROOM_GUARDRAILS
  EmptyLobbyTtl, DisconnectedLobbyTtl, FinishedTtl,              \* ROOM_TTL
  TimeLimit, FreezeBefore,       \* of the exam
  EventExam,                     \* "none", or the event exam's kind: "invite" or "open"
  RemotePresence,                \* whether Redis is configured
  Inputs,                        \* bound: what happens in an instance, besides connections
  MaxPending,                    \* bound: requests waiting at once, disconnects aside
  MaxSealed                      \* bound: submissions after the freeze, per player

Keys == Code \cup {CreateKey, EventKey}

PlayerOps == {"player:ready", "problem:set", "item:use", "room:start", "room:end",
              "room:reveal-next", "room:leave"}
Ops == PlayerOps \cup {"room:rejoin", "room:create", "room:join", "room:kick",
                       "room:start-if-released", "event:register", "event:spectate",
                       "answer:submit", "disconnect"}
AllInputs == Ops \cup {"read", "restart", "tick"}

ASSUME ConstantsAssumption ==
  /\ Code \subseteq Nat /\ Player \subseteq Nat /\ Token \subseteq Nat /\ Socket \subseteq Nat
  /\ None \notin Code \cup Player \cup Token \cup Socket \cup Nat
  /\ CreateKey \notin Code /\ EventKey \notin Code /\ CreateKey # EventKey
  /\ {MaxPlayersPerRoom, MaxContestPlayersPerRoom} \subseteq Nat \ {0}
  /\ {MaxActiveRooms, EmptyLobbyTtl, DisconnectedLobbyTtl, FinishedTtl} \subseteq Nat
  /\ {TimeLimit, FreezeBefore, MaxPending, MaxSealed} \subseteq Nat /\ TimeLimit > 0
  /\ EventExam \in {"none", "invite", "open"}
  /\ RemotePresence \in BOOLEAN
  /\ Inputs \subseteq AllInputs

VARIABLES
  rooms,              \* the Map `rooms`: code -> room, or None
  player,             \* the PlayerState of each id; members are listed in rooms[c].players
  socketToPlayer,     \* socket -> SocketPlayerRef, or None
  socketToSpectator,  \* socket -> code, or None
  live,               \* io.sockets.sockets
  queue,              \* mutex key -> bodies waiting for it
  phase               \* of the event exam: scheduled, released, closed

vars == <<rooms, player, socketToPlayer, socketToSpectator, live, queue, phase>>
-----------------------------------------------------------------------------
Min2(a, b) == IF a < b THEN a ELSE b
IdsIn(seq) == {seq[i] : i \in DOMAIN seq}
Least(S)   == {x \in S : \A y \in S : x <= y}
Without(seq, p) ==             \* where p is listed once
  LET at == CHOOSE i \in DOMAIN seq : seq[i] = p
  IN  [i \in 1 .. Len(seq) - 1 |-> IF i < at THEN seq[i] ELSE seq[i + 1]]

Ref == [code : Code, player : Player, token : Token]

(* `ref` is what the handler read before it waited; `target` is the player *)
(* id in the payload of a rejoin or a kick.                                *)
Request == [op : Ops, socket : Socket, ref : Ref \cup {None}, target : Player \cup {None}]

Room == [status : {"lobby", "playing", "finished"}, mode : {"casual", "contest"},
         event : BOOLEAN, max : Nat, host : Player \cup {None}, players : Seq(Player),
         elapsed : Nat,                 \* now - startedAt while playing
         frozenAt : Nat \cup {None},    \* scoreboardFrozenAt - startedAt
         frozen : SUBSET Player,        \* the rows of frozenStandings
         reveal : Nat,                  \* scoreboardRevealCount
         age : Nat, idle : Nat]         \* now - createdAt, now - lastActivityAt, both capped

ASSUME NoneAssumption == None \notin Room \cup Ref

(* sealed: submissions made after the freeze, the ones the reveal opens.   *)
PlayerState == [token : Token \cup {None}, socket : Socket \cup {None},
                connected : BOOLEAN, sealed : Nat]
Blank == [token |-> None, socket |-> None, connected |-> FALSE, sealed |-> 0]

Exists(c)   == rooms[c] # None
Members(c)  == IF Exists(c) THEN IdsIn(rooms[c].players) ELSE {}
Released    == phase # "scheduled"

QueuedRequests == UNION {IdsIn(queue[k]) : k \in Keys}
BoundRefs      == {socketToPlayer[s] : s \in Socket} \cup {r.ref : r \in QueuedRequests}

(* makeId, makeSocketToken and makeAvailableCode give a value that nothing *)
(* refers to any more; which one does not matter, so the least is taken.   *)
UsedTokens  == {player[p].token : p \in Player} \cup {ref.token : ref \in BoundRefs \ {None}}
UsedPlayers == UNION {Members(c) : c \in Code} \cup {ref.player : ref \in BoundRefs \ {None}}
                 \cup {r.target : r \in QueuedRequests}
UsedSockets == {player[p].socket : p \in Player} \cup {r.socket : r \in QueuedRequests}

(* Faulty variant: the same token for everybody.                           *)
SharedToken == Least(Token)

FreshTokens == Least(Token \ UsedTokens)
FreshPlayers == Least(Player \ UsedPlayers)
FreshCodes  == Least({c \in Code : ~Exists(c)})
FreshSockets == Least({s \in Socket \ (live \cup UsedSockets) :
                         socketToPlayer[s] = None /\ socketToSpectator[s] = None})
-----------------------------------------------------------------------------
(* A room on its own.                                                      *)

Start(r) == [r EXCEPT !.status = "playing", !.elapsed = 0, !.idle = 0,
                      !.frozenAt = IF FreezeBefore = 0 THEN None
                                   ELSE IF FreezeBefore > TimeLimit THEN 0
                                   ELSE TimeLimit - FreezeBefore,
                      !.frozen = {}, !.reveal = 0]

StartIfReleased(r) == IF r.event /\ r.status = "lobby" /\ Released THEN Start(r) ELSE r

IsFinished(r) == r.status = "playing" /\ r.elapsed >= TimeLimit

IsScoreboardFrozen(r) == r.status = "playing" /\ r.frozenAt # None /\ r.elapsed >= r.frozenAt

Freeze(r) == IF IsScoreboardFrozen(r) /\ r.frozen = {}
             THEN [r EXCEPT !.frozen = IdsIn(r.players), !.idle = 0]
             ELSE r

(* Faulty variant: the end takes a new board although one was sealed.      *)
FinishWithNewBoard(r) ==
  IF r.status # "playing" THEN r
  ELSE [r EXCEPT !.frozen = IdsIn(r.players), !.reveal = 0, !.status = "finished", !.idle = 0]

Finish(r) == LET f == Freeze(r) IN
             IF f.status # "playing" THEN f
             ELSE [f EXCEPT !.frozen = IF @ = {} THEN IdsIn(r.players) ELSE @,
                            !.reveal = 0, !.status = "finished", !.idle = 0]

(* emitRoom, the last call of every handler that changed the room.         *)
Emit(r) == LET started == StartIfReleased(r)
               ended   == IF IsFinished(started) THEN Finish(started) ELSE started
           IN Freeze(ended)

(* An administrator ends a room that may still be in the lobby.            *)
End(r) == IF r.status = "playing" THEN Emit(Finish(r))
          ELSE [r EXCEPT !.frozenAt = None, !.frozen = IdsIn(r.players), !.reveal = 0,
                         !.status = "finished", !.idle = 0]

(* A room just opened by p.                                                *)
NewRoom(p, mode, event, max) ==
  [status |-> "lobby", mode |-> mode, event |-> event, max |-> max, host |-> p,
   players |-> <<p>>, elapsed |-> 0,
   frozenAt |-> None, frozen |-> {}, reveal |-> 0, age |-> 0, idle |-> 0]

(* A closed event exam is solved alone, at once and without a freeze.      *)
SoloRoom(p) == [NewRoom(p, "casual", FALSE, 1) EXCEPT !.status = "playing"]

AddPlayer(r, p) == [r EXCEPT !.players = Append(@, p), !.idle = 0]

RemovePlayer(r, p) == [r EXCEPT !.players = Without(@, p), !.idle = 0]

(* An event room passes to its oldest remaining player when its host leaves*)
(* the lobby, and has no host once nobody remains.                         *)
PassHost(r, p) ==
  [r EXCEPT !.host = IF @ # p THEN @ ELSE IF r.players = <<>> THEN None ELSE Head(r.players)]

Touch(r) == [r EXCEPT !.idle = 0]

(* Faulty variant: one player too many.                                    *)
JoinableWhenFull(r) == r.status # "finished" /\ r.mode # "contest" /\ Len(r.players) <= r.max

(* validateRoomJoin, then the capacity check of room:join.                 *)
Joinable(r) == r.status # "finished" /\ r.mode # "contest" /\ Len(r.players) < r.max
-----------------------------------------------------------------------------
(* getPersistedRoom refreshes who is connected.  A socket bound to a player*)
(* with the player's token makes it connected; with Redis, a fetch of the  *)
(* remote sockets (at most one a second, so it may or may not happen now)  *)
(* disconnects a player whose socket is gone.  Bindings of removed players *)
(* and of closed sockets are dropped.                                      *)

Fetches == IF RemotePresence THEN BOOLEAN ELSE {FALSE}

Holds(s, c, p) == /\ s \in live
                  /\ socketToPlayer[s] = [code |-> c, player |-> p, token |-> player[p].token]

Presence(c, fetch) ==
  [p \in Player |->
     IF p \notin Members(c) THEN player[p]
     ELSE IF \E s \in Socket : Holds(s, c, p)
     THEN [player[p] EXCEPT !.socket = CHOOSE s \in Socket : Holds(s, c, p), !.connected = TRUE]
     ELSE IF fetch /\ player[p].socket \notin live
     THEN [player[p] EXCEPT !.socket = None, !.connected = FALSE]
     ELSE player[p]]

BoundTo(s, c) == socketToPlayer[s] # None /\ socketToPlayer[s].code = c

Bindings(c) ==
  [s \in Socket |->
     IF /\ Exists(c) /\ BoundTo(s, c)
        /\ (socketToPlayer[s].player \notin Members(c) \/ s \notin live)
     THEN None ELSE socketToPlayer[s]]

(* Faulty variant: the token is not compared.                              *)
CurrentWithAnyToken(ref, c) == ref.player \in Members(c)

(* isCurrentPlayerSocket on the room as it is now: the reference read      *)
(* before the wait still carries the player's token.                       *)
Current(ref, c) == ref.player \in Members(c) /\ player[ref.player].token = ref.token

NoneConnected(c, P) == \A p \in Members(c) : ~P[p].connected

(* Faulty variant: the sockets of a deleted room stay bound.               *)
StayBound(B, c) == B

(* cleanupLocalRoomSockets of a whole room, and what deleteRoom discards.  *)
Unbind(B, c) == [s \in Socket |-> IF B[s] # None /\ B[s].code = c THEN None ELSE B[s]]
UnbindSpectators(c) ==
  [s \in Socket |-> IF socketToSpectator[s] = c THEN None ELSE socketToSpectator[s]]
Forget(P, gone) == [p \in Player |-> IF p \in gone THEN Blank ELSE P[p]]

DeleteRoom(c, P, B) ==
  /\ rooms' = [rooms EXCEPT ![c] = None]
  /\ player' = Forget(P, Members(c))
  /\ socketToPlayer' = Unbind(B, c)
  /\ socketToSpectator' = UnbindSpectators(c)

(* How many sealed submissions the reveal can open: those of the frozen    *)
(* rows (the total of makeScoreboardRevealState).                          *)
SealedTotal(c) == LET rows == rooms[c].frozen \cap Members(c)
                  IN Cardinality({x \in rows \X (1 .. MaxSealed) : x[2] <= player[x[1]].sealed})
-----------------------------------------------------------------------------
(* Arrival: the part of a handler that runs at once.  It reads the socket's*)
(* binding and goes to wait for a mutex.  A socket with no binding is      *)
(* answered with an error, which changes nothing.                          *)

Pending == Cardinality({x \in Keys \X (1 .. MaxPending + Cardinality(Socket)) :
                          x[2] \in DOMAIN queue[x[1]] /\ queue[x[1]][x[2]].op # "disconnect"})

Enqueue(k, op, s, ref, target) ==
  queue' = [queue EXCEPT ![k] =
              Append(@, [op |-> op, socket |-> s, ref |-> ref, target |-> target])]

Arrive(s, op) == s \in live /\ op \in Inputs /\ Pending < MaxPending

Connect(s) ==
  /\ s \in FreshSockets
  /\ live' = live \cup {s}
  /\ UNCHANGED <<rooms, player, socketToPlayer, socketToSpectator, queue, phase>>

SendAsPlayer(s, op) ==
  /\ Arrive(s, op) /\ socketToPlayer[s] # None
  /\ Enqueue(socketToPlayer[s].code, op, s, socketToPlayer[s], None)
  /\ UNCHANGED <<rooms, player, socketToPlayer, socketToSpectator, live, phase>>

SendKick(s, target) ==
  /\ Arrive(s, "room:kick") /\ socketToPlayer[s] # None
  /\ Enqueue(socketToPlayer[s].code, "room:kick", s, socketToPlayer[s], target)
  /\ UNCHANGED <<rooms, player, socketToPlayer, socketToSpectator, live, phase>>

SendStartIfReleased(s) ==
  /\ Arrive(s, "room:start-if-released")
  /\ \E c \in Code :
       /\ IF socketToPlayer[s] # None THEN BoundTo(s, c) ELSE socketToSpectator[s] = c
       /\ Enqueue(c, "room:start-if-released", s, None, None)
  /\ UNCHANGED <<rooms, player, socketToPlayer, socketToSpectator, live, phase>>

SendJoin(s, c) ==
  /\ Arrive(s, "room:join")
  /\ Enqueue(c, "room:join", s, None, None)
  /\ UNCHANGED <<rooms, player, socketToPlayer, socketToSpectator, live, phase>>

SendRejoin(s, c, p) ==
  /\ Arrive(s, "room:rejoin")
  /\ Enqueue(c, "room:rejoin", s, None, p)
  /\ UNCHANGED <<rooms, player, socketToPlayer, socketToSpectator, live, phase>>

SendCreate(s) ==
  /\ Arrive(s, "room:create")
  /\ Enqueue(CreateKey, "room:create", s, None, None)
  /\ UNCHANGED <<rooms, player, socketToPlayer, socketToSpectator, live, phase>>

SendEvent(s, op) ==
  /\ Arrive(s, op) /\ EventExam # "none"
  /\ Enqueue(EventKey, op, s, None, None)
  /\ UNCHANGED <<rooms, player, socketToPlayer, socketToSpectator, live, phase>>

(* answer:submit first looks at the cached room.  A socket that has no     *)
(* binding is looked up among the players by its socket id and bound again.*)
SubmitterRefs(s) ==
  IF socketToPlayer[s] # None THEN {socketToPlayer[s]}
  ELSE UNION {{[code |-> c, player |-> p, token |-> player[p].token] :
                 p \in {q \in Members(c) : player[q].socket = s}} : c \in Code}

Rebind(s, ref) ==
  /\ socketToPlayer' = [socketToPlayer EXCEPT ![s] = ref]
  /\ socketToSpectator' = [socketToSpectator EXCEPT ![s] =
                             IF socketToPlayer[s] # None THEN @ ELSE None]

MaySubmit(ref, mode) ==
  /\ Current(ref, ref.code)
  /\ rooms[ref.code].status = "playing" /\ rooms[ref.code].mode = mode

SendAnswer(s, ref) ==
  /\ Arrive(s, "answer:submit") /\ MaySubmit(ref, "casual")
  /\ Enqueue(ref.code, "answer:submit", s, ref, None)
  /\ Rebind(s, ref)
  /\ UNCHANGED <<rooms, player, live, phase>>

(* An attempt made once the scoreboard is frozen is sealed.                *)
Seal(P, r, p) == [P EXCEPT ![p].sealed =
                    IF r.frozenAt # None /\ r.elapsed > r.frozenAt THEN Min2(@ + 1, MaxSealed)
                    ELSE @]

(* submitContestAnswerFast takes no room mutex: it works on the cached room*)
(* at once.  (What its database calls interleave with: RoomStore.)         *)
SubmitContest(s, ref) ==
  /\ s \in live /\ "answer:submit" \in Inputs /\ MaySubmit(ref, "contest")
  /\ LET r == rooms[ref.code] IN
     IF IsFinished(r)
     THEN rooms' = [rooms EXCEPT ![ref.code] = Emit(Finish(r))] /\ UNCHANGED player
     ELSE /\ rooms' = [rooms EXCEPT ![ref.code] = Freeze(Touch(r))]
          /\ player' = Seal(player, r, ref.player)
  /\ Rebind(s, ref)
  /\ UNCHANGED <<live, queue, phase>>

(* Any other submission is refused, having possibly bound its socket.      *)
RefuseAnswer(s, ref) ==
  /\ s \in live /\ "answer:submit" \in Inputs
  /\ ~MaySubmit(ref, "casual") /\ ~MaySubmit(ref, "contest")
  /\ Rebind(s, ref)
  /\ UNCHANGED <<rooms, player, live, queue, phase>>

(* A spectator leaves without waiting for any mutex.                       *)
LeaveSpectator(s) ==
  /\ "room:leave" \in Inputs
  /\ s \in live /\ socketToPlayer[s] = None /\ socketToSpectator[s] # None
  /\ socketToSpectator' = [socketToSpectator EXCEPT ![s] = None]
  /\ UNCHANGED <<rooms, player, socketToPlayer, live, queue, phase>>

(* The connection closes: a player's disconnect waits for the room's mutex,*)
(* a spectator is forgotten at once.                                       *)
Disconnect(s) ==
  /\ s \in live
  /\ live' = live \ {s}
  /\ IF socketToPlayer[s] # None
     THEN /\ Enqueue(socketToPlayer[s].code, "disconnect", s, socketToPlayer[s], None)
          /\ UNCHANGED socketToSpectator
     ELSE /\ socketToSpectator' = [socketToSpectator EXCEPT ![s] = None]
          /\ UNCHANGED queue
  /\ UNCHANGED <<rooms, player, socketToPlayer, phase>>
-----------------------------------------------------------------------------
(* The bodies, run under the mutex in arrival order.                       *)

Serving(k, op) == queue[k] # <<>> /\ Head(queue[k]).op = op
Dequeue(k)     == queue' = [queue EXCEPT ![k] = Tail(@)]

(* Most bodies change the room and emit it when a condition on the request *)
(* and the room of that moment holds, and otherwise only reply.            *)
Change(c, op, Allowed(_), Changed(_, _)) ==
  /\ Serving(c, op) /\ Dequeue(c)
  /\ LET req == Head(queue[c]) IN
     rooms' = IF Exists(c) /\ Allowed(req)
              THEN [rooms EXCEPT ![c] = Emit(Changed(rooms[c], req))]
              ELSE rooms
  /\ \E fetch \in Fetches : player' = Presence(c, fetch)
  /\ socketToPlayer' = Bindings(c)
  /\ UNCHANGED <<socketToSpectator, live, phase>>

ByHost(c, req) == Current(req.ref, c) /\ rooms[c].host = req.ref.player

PlayerReady(c) ==
  LET Allowed(req) == Current(req.ref, c) /\ rooms[c].status = "lobby"
      Changed(r, req) == Touch(r)
  IN Change(c, "player:ready", Allowed, Changed)

(* Turning to another problem and using an item matter to the room only as *)
(* activity; they may be refused for reasons not modelled here (the problem*)
(* is the current one or locked, the item is not owned or still cooling).  *)
ActivityUnlessRefused(c, op, Allowed(_)) ==
  LET Refused(req) == FALSE
      Changed(r, req) == Touch(r)
  IN Change(c, op, Allowed, Changed) \/ Change(c, op, Refused, Changed)

ProblemSet(c) ==
  LET Allowed(req) == Current(req.ref, c)
  IN ActivityUnlessRefused(c, "problem:set", Allowed)

ItemUse(c) ==
  LET Allowed(req) == Current(req.ref, c) /\ rooms[c].status = "playing"
                      /\ rooms[c].mode = "casual" /\ ~rooms[c].event
  IN ActivityUnlessRefused(c, "item:use", Allowed)

RoomStart(c) ==
  LET Allowed(req) == ByHost(c, req) /\ rooms[c].status = "lobby"
                      /\ (rooms[c].event => Released)
      Changed(r, req) == Start(r)
  IN Change(c, "room:start", Allowed, Changed)

RoomStartIfReleased(c) ==
  LET Allowed(req) == rooms[c].event /\ Released
      Changed(r, req) == r
  IN Change(c, "room:start-if-released", Allowed, Changed)

RoomEnd(c) ==
  LET Allowed(req) == ByHost(c, req) /\ rooms[c].status = "playing"
      Changed(r, req) == Finish(r)
  IN Change(c, "room:end", Allowed, Changed)

(* Faulty variant: the reveal goes one attempt past the last.              *)
RevealPastTotal(c) ==
  LET Allowed(req) == ByHost(c, req) /\ rooms[c].status = "finished"
                      /\ rooms[c].reveal <= SealedTotal(c)
      Changed(r, req) == [Touch(r) EXCEPT !.reveal = @ + 1]
  IN Change(c, "room:reveal-next", Allowed, Changed)

RoomRevealNext(c) ==
  LET Allowed(req) == ByHost(c, req) /\ rooms[c].status = "finished"
                      /\ rooms[c].reveal < SealedTotal(c)
      Changed(r, req) == [Touch(r) EXCEPT !.reveal = @ + 1]
  IN Change(c, "room:reveal-next", Allowed, Changed)

(* A casual submission: refused by the rules on repeated answers (nothing  *)
(* changes), or recorded.  One that comes after the end finishes the room. *)
AnswerSubmit(c) ==
  /\ Serving(c, "answer:submit") /\ Dequeue(c)
  /\ LET ref == Head(queue[c]).ref
         r == rooms[c] IN
     \E fetch \in Fetches :
       IF ~Current(ref, c) \/ r.status # "playing"
       THEN rooms' = rooms /\ player' = Presence(c, fetch)
       ELSE IF IsFinished(r)
       THEN rooms' = [rooms EXCEPT ![c] = Emit(Finish(r))] /\ player' = Presence(c, fetch)
       ELSE \/ rooms' = rooms /\ player' = Presence(c, fetch)
            \/ /\ rooms' = [rooms EXCEPT ![c] = Emit(Touch(r))]
               /\ player' = Seal(Presence(c, fetch), r, ref.player)
  /\ socketToPlayer' = Bindings(c)
  /\ UNCHANGED <<socketToSpectator, live, phase>>

(* The socket of the player becomes s with a new token: setSocketPlayer.   *)
Attach(P, p, s, t) == [P EXCEPT ![p].socket = s, ![p].token = t, ![p].connected = TRUE]
Bind(B, s, c, p, t) == [B EXCEPT ![s] = [code |-> c, player |-> p, token |-> t]]
NoSpectator(s) == socketToSpectator' = [socketToSpectator EXCEPT ![s] = None]

(* room:rejoin gives the player a new socket and token and cuts off the    *)
(* sockets that were bound to it.  Players of event rooms cannot rejoin.   *)
RoomRejoin(c) ==
  /\ Serving(c, "room:rejoin") /\ Dequeue(c)
  /\ \E fetch \in Fetches :
       LET p == Head(queue[c]).target
           s == Head(queue[c]).socket
           P == Presence(c, fetch)
           B == [x \in Socket |-> IF x # s /\ BoundTo(x, c)
                                      /\ (socketToPlayer[x].player = p \/ x = P[p].socket)
                                  THEN None ELSE Bindings(c)[x]]
       IN IF p \notin Members(c) \/ rooms[c].event
          THEN /\ player' = P /\ socketToPlayer' = Bindings(c)
               /\ UNCHANGED <<rooms, socketToSpectator>>
          ELSE \E t \in FreshTokens :
               /\ player' = Attach(P, p, s, t)
               /\ socketToPlayer' = Bind(B, s, c, p, t)
               /\ socketToSpectator' =
                    [x \in Socket |-> IF x = s \/ (x = P[p].socket /\ socketToSpectator[x] = c)
                                      THEN None ELSE socketToSpectator[x]]
               /\ rooms' = [rooms EXCEPT ![c] = Emit(Touch(@))]
  /\ UNCHANGED <<live, phase>>

(* A new player enters an existing room.                                   *)
Enter(c, s, P) ==
  \E p \in FreshPlayers, t \in FreshTokens :
    /\ rooms' = [rooms EXCEPT ![c] = Emit(AddPlayer(@, p))]
    /\ player' = Attach(P, p, s, t)
    /\ socketToPlayer' = Bind(Bindings(c), s, c, p, t)
    /\ NoSpectator(s)

RoomJoin(c) ==
  /\ Serving(c, "room:join") /\ Dequeue(c)
  /\ \E fetch \in Fetches :
       IF Exists(c) /\ Joinable(rooms[c])
       THEN Enter(c, Head(queue[c]).socket, Presence(c, fetch))
       ELSE /\ player' = Presence(c, fetch) /\ socketToPlayer' = Bindings(c)
            /\ UNCHANGED <<rooms, socketToSpectator>>
  /\ UNCHANGED <<live, phase>>

(* A new room with one player, unless MaxActiveRooms are not yet finished. *)
ActiveRooms == {c \in Code : Exists(c) /\ rooms[c].status # "finished"}

Open(s, NewRoomOf(_)) ==
  IF Cardinality(ActiveRooms) >= MaxActiveRooms
  THEN UNCHANGED <<rooms, player, socketToPlayer, socketToSpectator>>
  ELSE \E c \in FreshCodes, p \in FreshPlayers, t \in FreshTokens :
       /\ rooms' = [rooms EXCEPT ![c] = Emit(NewRoomOf(p))]
       /\ player' = Attach(player, p, s, t)
       /\ socketToPlayer' = Bind(socketToPlayer, s, c, p, t)
       /\ NoSpectator(s)

RoomCreate ==
  /\ Serving(CreateKey, "room:create") /\ Dequeue(CreateKey)
  /\ LET Casual(p) == NewRoom(p, "casual", FALSE, MaxPlayersPerRoom)
     IN Open(Head(queue[CreateKey]).socket, Casual)
  /\ UNCHANGED <<live, phase>>

(* event:register: a closed exam opens a solo room; an invited player goes *)
(* to an event room that is not full, under the event's mutex and not the  *)
(* room's; otherwise a room is opened.                                     *)
Reusable == {c \in ActiveRooms : rooms[c].event /\ Len(rooms[c].players) < rooms[c].max}

EventRegister ==
  /\ Serving(EventKey, "event:register") /\ Dequeue(EventKey)
  /\ LET s == Head(queue[EventKey]).socket
         Invite(p) == NewRoom(p, "contest", TRUE, MaxContestPlayersPerRoom)
         OpenTo(p) == NewRoom(p, "casual", TRUE, 1)
     IN IF phase = "closed" THEN Open(s, SoloRoom)
        ELSE IF EventExam = "open" THEN Open(s, OpenTo)
        ELSE IF Reusable = {} THEN Open(s, Invite)
        ELSE \E c \in Reusable, fetch \in Fetches : Enter(c, s, Presence(c, fetch))
  /\ UNCHANGED <<live, phase>>

(* The room shown to spectators: the most recently active one.             *)
LatestEventRooms(statuses) ==
  LET candidates == {c \in Code : Exists(c) /\ rooms[c].event /\ rooms[c].status \in statuses}
  IN {c \in candidates : \A d \in candidates : rooms[c].idle <= rooms[d].idle}

SpectatedRooms ==
  IF phase # "closed" THEN LatestEventRooms({"lobby", "playing"})
  ELSE IF LatestEventRooms({"finished"}) # {} THEN LatestEventRooms({"finished"})
  ELSE LatestEventRooms({"playing"})

EventSpectate ==
  /\ Serving(EventKey, "event:spectate") /\ Dequeue(EventKey)
  /\ LET s == Head(queue[EventKey]).socket IN
     IF SpectatedRooms = {} THEN UNCHANGED <<player, socketToPlayer, socketToSpectator>>
     ELSE \E c \in SpectatedRooms, fetch \in Fetches :
          /\ player' = Presence(c, fetch)
          /\ socketToPlayer' = [Bindings(c) EXCEPT ![s] = None]
          /\ socketToSpectator' = [socketToSpectator EXCEPT ![s] = c]
  /\ UNCHANGED <<rooms, live, phase>>

(* room:leave.  In the lobby a casual host closes the room, anyone else is *)
(* removed; later the player only stops being connected.                   *)
RoomLeave(c) ==
  /\ Serving(c, "room:leave") /\ Dequeue(c)
  /\ \E fetch \in Fetches :
       LET ref == Head(queue[c]).ref
           p == ref.player
           P == Presence(c, fetch)
           B == [Bindings(c) EXCEPT ![Head(queue[c]).socket] = None]
           lobby == rooms[c].status = "lobby"
       IN IF ~Current(ref, c)
          THEN /\ player' = P /\ socketToPlayer' = B
               /\ UNCHANGED <<rooms, socketToSpectator>>
          ELSE \/ /\ lobby /\ ~rooms[c].event /\ rooms[c].host = p
                  /\ DeleteRoom(c, P, B)
               \/ /\ lobby /\ (rooms[c].event \/ rooms[c].host # p)
                  /\ rooms' = [rooms EXCEPT ![c] = Emit(PassHost(RemovePlayer(@, p), p))]
                  /\ player' = Forget(P, {p})
                  /\ socketToPlayer' = [s \in Socket |-> IF s = P[p].socket THEN None ELSE B[s]]
                  /\ UNCHANGED socketToSpectator
               \/ /\ ~lobby
                  /\ rooms' = [rooms EXCEPT ![c] = Emit(Touch(@))]
                  /\ player' = [P EXCEPT ![p].connected = FALSE]
                  /\ socketToPlayer' = B
                  /\ UNCHANGED socketToSpectator
  /\ UNCHANGED <<live, phase>>

(* validateLobbyKick *)
Kickable(c, req) ==
  /\ ByHost(c, req) /\ rooms[c].status = "lobby"
  /\ req.target \in Members(c) \ {req.ref.player}

RoomKick(c) ==
  /\ Serving(c, "room:kick") /\ Dequeue(c)
  /\ \E fetch \in Fetches :
       LET req == Head(queue[c])
           P == Presence(c, fetch)
           B == Bindings(c)
           t == P[req.target].socket
       IN IF Exists(c) /\ Kickable(c, req)
          THEN /\ rooms' = [rooms EXCEPT ![c] = Emit(RemovePlayer(@, req.target))]
               /\ player' = Forget(P, {req.target})
               /\ socketToPlayer' =
                    [s \in Socket |-> IF s = t \/ (BoundTo(s, c) /\ socketToPlayer[s].player = req.target)
                                      THEN None ELSE B[s]]
               /\ socketToSpectator' =
                    [s \in Socket |-> IF s = t /\ socketToSpectator[s] = c THEN None
                                      ELSE socketToSpectator[s]]
          ELSE /\ player' = P
               /\ socketToPlayer' = IF Exists(c) /\ ~Current(req.ref, c)
                                    THEN [B EXCEPT ![req.socket] = None] ELSE B
               /\ UNCHANGED <<rooms, socketToSpectator>>
  /\ UNCHANGED <<live, phase>>

(* The disconnect of a socket marks its player away, unless the player has *)
(* rejoined with another socket meanwhile; an abandoned lobby is closed.   *)
SocketDisconnect(c) ==
  /\ Serving(c, "disconnect") /\ Dequeue(c)
  /\ \E fetch \in Fetches :
       LET ref == Head(queue[c]).ref
           P == Presence(c, fetch)
           B == [Bindings(c) EXCEPT ![Head(queue[c]).socket] = None]
           Q == [P EXCEPT ![ref.player].connected = FALSE]
       IN IF ~Current(ref, c)
          THEN /\ player' = P /\ socketToPlayer' = B
               /\ UNCHANGED <<rooms, socketToSpectator>>
          ELSE IF rooms[c].status = "lobby" /\ NoneConnected(c, Q)
          THEN DeleteRoom(c, Q, B)
          ELSE /\ rooms' = [rooms EXCEPT ![c] = Emit(Touch(@))]
               /\ player' = Q /\ socketToPlayer' = B
               /\ UNCHANGED socketToSpectator
  /\ UNCHANGED <<live, phase>>
-----------------------------------------------------------------------------
(* The timer and the administrator.                                        *)

(* Faulty variant: lobbies of disconnected players are kept.               *)
ExpiredUnlessLeft(r, P, c) ==
  \/ r.status = "finished" /\ r.idle > FinishedTtl
  \/ r.status = "lobby" /\ r.players = <<>> /\ r.age > EmptyLobbyTtl

Expired(r, P, c) ==
  \/ r.status = "finished" /\ r.idle > FinishedTtl
  \/ r.status = "lobby" /\ r.players = <<>> /\ r.age > EmptyLobbyTtl
  \/ r.status = "lobby" /\ NoneConnected(c, P) /\ r.idle > DisconnectedLobbyTtl

(* Faulty variant: maintenance deletes but finishes nothing.               *)
MaintainExpiryOnly(c, fetch) ==
  /\ Exists(c)
  /\ LET P == Presence(c, fetch) IN
     IF Expired(rooms[c], P, c) THEN DeleteRoom(c, P, Bindings(c))
     ELSE /\ player' = P /\ socketToPlayer' = Bindings(c)
          /\ UNCHANGED <<rooms, socketToSpectator>>
  /\ UNCHANGED <<live, queue, phase>>

(* runRoomMaintenance for one room: starts, finishes and freezes what is   *)
(* due, then deletes an expired room.                                      *)
Maintain(c, fetch) ==
  /\ Exists(c)
  /\ LET r == Emit(rooms[c])  P == Presence(c, fetch) IN
     IF Expired(r, P, c) THEN DeleteRoom(c, P, Bindings(c))
     ELSE /\ rooms' = [rooms EXCEPT ![c] = r]
          /\ player' = P /\ socketToPlayer' = Bindings(c)
          /\ UNCHANGED socketToSpectator
  /\ UNCHANGED <<live, queue, phase>>

(* POST /api/admin/events/:eventId/end, for one of the event's rooms.      *)
AdminEnd(c) ==
  /\ Exists(c) /\ rooms[c].event /\ rooms[c].status # "finished"
  /\ rooms' = [rooms EXCEPT ![c] = End(@)]
  /\ \E fetch \in Fetches : player' = Presence(c, fetch)
  /\ socketToPlayer' = Bindings(c)
  /\ UNCHANGED <<socketToSpectator, live, queue, phase>>

(* A read that takes no mutex (GET /api/rooms/:code, event lookups) also   *)
(* refreshes the presence of a room.                                       *)
ReadRoom(c) ==
  /\ "read" \in Inputs
  /\ Exists(c)
  /\ \E fetch \in Fetches : player' = Presence(c, fetch)
  /\ socketToPlayer' = Bindings(c)
  /\ UNCHANGED <<rooms, socketToSpectator, live, queue, phase>>

(* The process restarts: connections and waiting bodies are gone, the rooms*)
(* come back from the database with everybody disconnected.                *)
Restart ==
  /\ "restart" \in Inputs
  /\ player' = [p \in Player |-> [player[p] EXCEPT !.socket = None, !.connected = FALSE]]
  /\ socketToPlayer' = [s \in Socket |-> None]
  /\ socketToSpectator' = [s \in Socket |-> None]
  /\ live' = {}
  /\ queue' = [k \in Keys |-> <<>>]
  /\ UNCHANGED <<rooms, phase>>

(* One unit of time.  Ages stop just above the limits they are compared to.*)
IdleCap == 1 + (IF DisconnectedLobbyTtl > FinishedTtl THEN DisconnectedLobbyTtl ELSE FinishedTtl)

Older(r) == [r EXCEPT !.age = Min2(@ + 1, EmptyLobbyTtl + 1),
                      !.idle = Min2(@ + 1, IdleCap),
                      !.elapsed = IF r.status = "playing" THEN Min2(@ + 1, TimeLimit) ELSE @]

Tick ==
  /\ "tick" \in Inputs
  /\ rooms' = [c \in Code |-> IF Exists(c) THEN Older(rooms[c]) ELSE None]
  /\ UNCHANGED <<player, socketToPlayer, socketToSpectator, live, queue, phase>>

(* The event's release time comes, and later the end of its window.        *)
EventPhase ==
  /\ EventExam # "none"
  /\ \/ phase = "scheduled" /\ phase' = "released"
     \/ phase = "released" /\ phase' = "closed"
  /\ UNCHANGED <<rooms, player, socketToPlayer, socketToSpectator, live, queue>>
-----------------------------------------------------------------------------
Init ==
  /\ rooms = [c \in Code |-> None]
  /\ player = [p \in Player |-> Blank]
  /\ socketToPlayer = [s \in Socket |-> None]
  /\ socketToSpectator = [s \in Socket |-> None]
  /\ live = {}
  /\ queue = [k \in Keys |-> <<>>]
  /\ phase = "scheduled"

Receive(s) ==
  \/ Connect(s) \/ Disconnect(s) \/ LeaveSpectator(s)
  \/ \E op \in PlayerOps : SendAsPlayer(s, op)
  \/ \E p \in Player : SendKick(s, p)
  \/ SendStartIfReleased(s) \/ SendCreate(s)
  \/ \E c \in Code : SendJoin(s, c) \/ \E p \in Player : SendRejoin(s, c, p)
  \/ \E op \in {"event:register", "event:spectate"} : SendEvent(s, op)
  \/ \E ref \in SubmitterRefs(s) :
       SendAnswer(s, ref) \/ SubmitContest(s, ref) \/ RefuseAnswer(s, ref)

Serve(c) ==
  \/ PlayerReady(c) \/ ProblemSet(c) \/ ItemUse(c) \/ RoomStart(c) \/ RoomStartIfReleased(c)
  \/ RoomEnd(c) \/ RoomRevealNext(c) \/ AnswerSubmit(c) \/ RoomRejoin(c) \/ RoomJoin(c)
  \/ RoomLeave(c) \/ RoomKick(c) \/ SocketDisconnect(c)

Next ==
  \/ \E s \in Socket : Receive(s)
  \/ \E c \in Code : Serve(c) \/ AdminEnd(c) \/ ReadRoom(c)
  \/ \E c \in Code, fetch \in Fetches : Maintain(c, fetch)
  \/ RoomCreate \/ EventRegister \/ EventSpectate
  \/ Tick \/ EventPhase \/ Restart

(* Mutex waiters are served, the maintenance interval keeps firing and time*)
(* passes; with Redis, maintenance fetches the remote presence again and   *)
(* again, as it runs as often as a fetch is allowed.  Nothing is assumed of*)
(* the clients.                                                            *)
Fairness ==
  /\ WF_vars(Tick)
  /\ \A c \in Code : WF_vars(Serve(c)) /\ WF_vars(Maintain(c, RemotePresence))
  /\ WF_vars(RoomCreate) /\ WF_vars(EventRegister) /\ WF_vars(EventSpectate)

Spec == Init /\ [][Next]_vars
FairSpec == Spec /\ Fairness
-----------------------------------------------------------------------------
TypeOK ==
  /\ rooms \in [Code -> Room \cup {None}]
  /\ player \in [Player -> PlayerState]
  /\ socketToPlayer \in [Socket -> Ref \cup {None}]
  /\ socketToSpectator \in [Socket -> Code \cup {None}]
  /\ live \subseteq Socket
  /\ queue \in [Keys -> Seq(Request)]
  /\ phase \in {"scheduled", "released", "closed"}

(* A player has at most one socket that can act for it: no two sockets     *)
(* carry the player's current token, however rejoins, joins of other rooms *)
(* and late requests interleave.                                           *)
OneCurrentSocket ==
  \A s, t \in Socket :
    /\ socketToPlayer[s] # None /\ socketToPlayer[t] # None
    /\ socketToPlayer[s].token = socketToPlayer[t].token
    => s = t

(* A binding leads to a room that exists and a player in it: leaving,      *)
(* kicking, closing and expiry leave no reference behind in any socket.    *)
BindingsResolve ==
  \A s \in Socket :
    /\ socketToPlayer[s] # None => socketToPlayer[s].player \in Members(socketToPlayer[s].code)
    /\ socketToSpectator[s] # None => Exists(socketToSpectator[s]) /\ socketToPlayer[s] = None

(* Nobody is marked away while here: when a player stops being connected, *)
(* no live socket holds the player's current token any more.  A disconnect *)
(* or leave that waited while the player came back with another socket must*)
(* not take effect.                                                        *)
OnlyTheAbsentGoAway ==
  [][\A p \in Player : player[p].connected /\ ~player'[p].connected =>
       \A s \in live' : socketToPlayer'[s] # None
                        => socketToPlayer'[s].token # player'[p].token]_vars

(* No room grows past its capacity: registration adds players under the    *)
(* event's mutex and room:join under the room's, which also accepts the    *)
(* codes of an open event's rooms for one.                                 *)
WithinCapacity == \A c \in Code : Exists(c) => Len(rooms[c].players) <= rooms[c].max

(* The frozen board only lists players of the room and is there once the   *)
(* exam has ended; a reveal never opens more attempts than were sealed.    *)
BoardConsistent ==
  \A c \in Code : Exists(c) =>
    /\ rooms[c].frozen \subseteq Members(c)
    /\ rooms[c].status = "finished" /\ Members(c) # {} => rooms[c].frozen # {}
    /\ rooms[c].reveal > 0 => rooms[c].status = "finished"
    /\ rooms[c].reveal <= SealedTotal(c)

Life == INSTANCE RoomLife WITH
  stage  <- [c \in Code |-> IF Exists(c) THEN rooms[c].status ELSE "absent"],
  board  <- [c \in Code |-> IF Exists(c) THEN rooms[c].frozen ELSE {}],
  opened <- [c \in Code |-> IF Exists(c) THEN rooms[c].reveal ELSE 0]

(* Every interleaving of players, timer, administrator and restarts walks a*)
(* room through the stages of RoomLife.                                    *)
LifeSpec == Life!Spec

(* ... and every exam that has begun ends, even when nobody is left in it. *)
LifeFairSpec == Life!FairSpec

(* Once the last client has gone for good no room stays behind: lobbies and*)
(* finished rooms reach their TTL and running exams reach their end.  With *)
(* the Redis adapter the code keeps this, also for a client who is gone    *)
(* before its create, join or registration is served: the presence fetch   *)
(* finds the player absent.  Without Redis nothing does: the player counts *)
(* as connected, and the lobby stays.                                      *)
AbandonedRoomsExpire == <>[](live = {}) => \A c \in Code : []<>~Exists(c)
=============================================================================
