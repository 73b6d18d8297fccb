---------------------------- MODULE Rooms_proofs ----------------------------
(***************************************************************************)
(* Sockets, players and rooms of Rooms, for any numbers of them and any    *)
(* order in which requests wait and bodies run.  A player is in one room,  *)
(* once; a socket that is bound to a player carries the player's token and *)
(* is the player's socket; a request that waits with a token that is still *)
(* current came from that socket.                                          *)
(***************************************************************************)
EXTENDS Rooms, FiniteSetTheorems, SequenceTheorems, TLAPS

Phases == {"scheduled", "released", "closed"}

(* The invariant is a predicate of values, so that a body, which refreshes *)
(* the presence and then changes something, is taken in two parts.         *)
In(R, c) == IF R[c] # None THEN IdsIn(R[c].players) ELSE {}

Typed(R, P, B, V) ==
  /\ R \in [Code -> Room \cup {None}] /\ P \in [Player -> PlayerState]
  /\ B \in [Socket -> Ref \cup {None}] /\ V \in [Socket -> Code \cup {None}]

ListedOnce(R) ==
  \A c \in Code : R[c] # None =>
    /\ \A i, j \in DOMAIN R[c].players : R[c].players[i] = R[c].players[j] => i = j
    /\ Len(R[c].players) <= R[c].max

InOneRoom(R) == \A c, d \in Code : \A p \in In(R, c) : p \in In(R, d) => c = d

OwnToken(R, P) ==
  /\ \A c \in Code : \A p \in In(R, c) : P[p].token # None
  /\ \A p, q \in Player : P[p].token = P[q].token /\ P[p].token # None => p = q

BoundAsPlayer(R, P, B) ==
  \A s \in Socket : B[s] # None =>
    /\ B[s].player \in In(R, B[s].code)
    /\ P[B[s].player].token = B[s].token /\ P[B[s].player].socket = s

Watching(R, B, V) == \A s \in Socket : V[s] # None => R[V[s]] # None /\ B[s] = None

Good(R, P, B, V) ==
  /\ Typed(R, P, B, V) /\ ListedOnce(R) /\ InOneRoom(R) /\ OwnToken(R, P)
  /\ BoundAsPlayer(R, P, B) /\ Watching(R, B, V)

(* A leave or disconnect that waits with a token that is still somebody's  *)
(* waits for that player's socket.                                         *)
FromOwnSocket(Q, P) ==
  \A k \in Keys : \A i \in DOMAIN Q[k] : Q[k][i].op \in {"room:leave", "disconnect"} =>
    /\ Q[k][i].ref # None
    /\ \A p \in Player : P[p].token = Q[k][i].ref.token => P[p].socket \in {Q[k][i].socket, None}

IInv ==
  /\ Good(rooms, player, socketToPlayer, socketToSpectator)
  /\ FromOwnSocket(queue, player)
  /\ live \subseteq Socket /\ queue \in [Keys -> Seq(Request)] /\ phase \in Phases
-----------------------------------------------------------------------------
(* A room on its own.                                                      *)

SameList(q, r) == q \in Room /\ q.players = r.players /\ q.max = r.max

LEMMA IdsAreMembers == ASSUME NEW r \in Room PROVE IdsIn(r.players) \subseteq Player
<1>1. r.players \in Seq(Player)
  BY DEF Room
<1> QED
  BY <1>1 DEF IdsIn

LEMMA StartSame == ASSUME NEW r \in Room PROVE SameList(Start(r), r)
<1>1. (IF FreezeBefore = 0 THEN None ELSE IF FreezeBefore > TimeLimit THEN 0
       ELSE TimeLimit - FreezeBefore) \in Nat \cup {None}
  BY ConstantsAssumption
<1> QED
  BY <1>1 DEF Start, Room, SameList

LEMMA FreezeSame == ASSUME NEW r \in Room PROVE SameList(Freeze(r), r)
  BY IdsAreMembers DEF Freeze, Room, SameList

LEMMA WithBoardSame ==
  ASSUME NEW r \in Room, NEW board \in SUBSET Player
  PROVE  SameList([r EXCEPT !.frozen = board, !.reveal = 0, !.status = "finished", !.idle = 0], r)
  BY DEF Room, SameList

LEMMA FinishSame == ASSUME NEW r \in Room PROVE SameList(Finish(r), r)
<1> DEFINE f == Freeze(r)
<1>1. SameList(f, r)
  BY FreezeSame
<1> HIDE DEF f
<1>2. IdsIn(r.players) \subseteq Player
  BY IdsAreMembers
<1>3. Finish(r) = IF f.status # "playing" THEN f
                  ELSE [f EXCEPT !.frozen = IF @ = {} THEN IdsIn(r.players) ELSE @,
                                 !.reveal = 0, !.status = "finished", !.idle = 0]
  BY DEF Finish, f
<1>4. f \in Room /\ f.players = r.players /\ f.max = r.max
  BY <1>1 DEF SameList
<1>5. (IF f.frozen = {} THEN IdsIn(r.players) ELSE f.frozen) \in SUBSET Player
  BY <1>2, <1>4 DEF Room
<1>6. CASE f.status # "playing"
  BY <1>3, <1>4, <1>6 DEF SameList
<1>7. CASE f.status = "playing"
  <2> DEFINE board == IF f.frozen = {} THEN IdsIn(r.players) ELSE f.frozen
  <2>1. Finish(r) = [f EXCEPT !.frozen = board, !.reveal = 0, !.status = "finished", !.idle = 0]
    BY <1>3, <1>7
  <2>2. board \in SUBSET Player
    BY <1>5
  <2> HIDE DEF board, f
  <2> QED
    <3>1. SameList([f EXCEPT !.frozen = board, !.reveal = 0, !.status = "finished", !.idle = 0], f)
      BY <1>4, <2>2, WithBoardSame, Zenon
    <3>2. SameList(Finish(r), f)
      BY <2>1, <3>1
    <3> QED
      BY <1>4, <3>2 DEF SameList
<1> QED
  BY <1>6, <1>7

LEMMA EmitSame == ASSUME NEW r \in Room PROVE SameList(Emit(r), r)
<1> DEFINE started == StartIfReleased(r)
           ended   == IF IsFinished(started) THEN Finish(started) ELSE started
<1>1. SameList(started, r)
  BY StartSame DEF StartIfReleased, SameList
<1>2. SameList(ended, started)
  BY <1>1, FinishSame DEF SameList
<1>3. SameList(Freeze(ended), ended)
  BY <1>2, FreezeSame DEF SameList
<1> QED
  BY <1>1, <1>2, <1>3 DEF Emit, SameList

LEMMA EndSame == ASSUME NEW r \in Room PROVE SameList(End(r), r)
<1>1. CASE r.status = "playing"
  BY <1>1, FinishSame, EmitSame DEF End, SameList
<1>2. CASE r.status # "playing"
  BY <1>2, IdsAreMembers DEF End, Room, SameList
<1> QED
  BY <1>1, <1>2

LEMMA TouchSame == ASSUME NEW r \in Room PROVE SameList(Touch(r), r)
  BY DEF Touch, Room, SameList

LEMMA OlderSame == ASSUME NEW r \in Room PROVE SameList(Older(r), r)
<1>1. TimeLimit \in Nat /\ EmptyLobbyTtl \in Nat /\ DisconnectedLobbyTtl \in Nat /\ FinishedTtl \in Nat
  BY ConstantsAssumption
<1>2. IdleCap \in Nat
  BY <1>1 DEF IdleCap
<1>3. \A a, b \in Nat : Min2(a + 1, b) \in Nat
  BY DEF Min2
<1>4. r.age \in Nat /\ r.idle \in Nat /\ r.elapsed \in Nat
  BY DEF Room
<1>5. /\ Min2(r.age + 1, EmptyLobbyTtl + 1) \in Nat /\ Min2(r.idle + 1, IdleCap) \in Nat
      /\ (IF r.status = "playing" THEN Min2(r.elapsed + 1, TimeLimit) ELSE r.elapsed) \in Nat
  BY <1>1, <1>2, <1>3, <1>4
<1> QED
  BY <1>5 DEF Older, Room, SameList
-----------------------------------------------------------------------------
(* The presence refresh.                                                   *)

LEMMA MembersIn == \A c : Members(c) = In(rooms, c)
  BY DEF Members, Exists, In

LEMMA InPlayer ==
  ASSUME NEW R \in [Code -> Room \cup {None}], NEW c \in Code
  PROVE  In(R, c) \subseteq Player
<1>1. CASE R[c] = None
  BY <1>1 DEF In
<1>2. CASE R[c] # None
  BY <1>2, IdsAreMembers DEF In
<1> QED
  BY <1>1, <1>2

(* A reference carries the code, the player and the token it is made of.   *)
LEMMA RefFields ==
  ASSUME NEW ref \in Ref
  PROVE  /\ ref # None /\ ref.code \in Code /\ ref.player \in Player
         /\ ref.token \in Token /\ ref.token # None
<1>1. None \notin Token /\ None \notin Ref
  BY ConstantsAssumption, NoneAssumption
<1> QED
  BY <1>1 DEF Ref

LEMMA MakesRef ==
  ASSUME NEW c \in Code, NEW p \in Player, NEW t \in Token
  PROVE  [code |-> c, player |-> p, token |-> t] \in Ref
  BY DEF Ref

LEMMA TokenType ==
  ASSUME NEW R, NEW P, NEW B, NEW V, Good(R, P, B, V), NEW c \in Code, NEW p \in In(R, c)
  PROVE  p \in Player /\ P[p].token \in Token
<1>1. p \in Player
  BY InPlayer DEF Good, Typed
<1>2. P[p] \in PlayerState /\ P[p].token # None
  BY <1>1 DEF Good, Typed, OwnToken
<1> QED
  BY <1>1, <1>2 DEF PlayerState

LEMMA PresenceKeeps ==
  ASSUME Good(rooms, player, socketToPlayer, socketToSpectator),
         NEW c \in Code, NEW fetch, NEW p \in Player
  PROVE  LET P == Presence(c, fetch) IN
         /\ P[p] \in PlayerState
         /\ P[p].token = player[p].token /\ P[p].sealed = player[p].sealed
         /\ P[p].socket \in {player[p].socket, None}
         /\ \A s \in Socket : p \in Members(c) /\ Holds(s, c, p) => P[p].socket = s
         /\ p \notin Members(c) => P[p] = player[p]
         /\ ~P[p].connected /\ player[p].connected
              => p \in Members(c) /\ \A s \in Socket : ~Holds(s, c, p)
<1> DEFINE P == Presence(c, fetch)
<1>1. player[p] \in PlayerState /\ player \in [Player -> PlayerState]
  BY DEF Good, Typed
<1>2. ASSUME p \in Members(c), NEW s \in Socket, Holds(s, c, p) PROVE player[p].socket = s
  <2>1. player[p].token \in Token
    BY <1>2, MembersIn, TokenType
  <2>2. socketToPlayer[s] \in Ref /\ socketToPlayer[s].player = p
    BY <1>2, <2>1, MakesRef DEF Holds
  <2> QED
    BY <2>2, RefFields DEF Good, BoundAsPlayer
<1>3. CASE p \notin Members(c)
  <2>1. P[p] = player[p]
    BY <1>3 DEF Presence
  <2> HIDE DEF P
  <2> QED
    BY <1>1, <1>3, <2>1 DEF P
<1>4. CASE p \in Members(c) /\ \E s \in Socket : Holds(s, c, p)
  <2> DEFINE h == CHOOSE s \in Socket : Holds(s, c, p)
  <2>1. h \in Socket /\ Holds(h, c, p)
    BY <1>4
  <2>2. P[p] = [player[p] EXCEPT !.socket = h, !.connected = TRUE]
    BY <1>4 DEF Presence
  <2> HIDE DEF h, P
  <2>3. /\ P[p] \in PlayerState /\ P[p].token = player[p].token /\ P[p].sealed = player[p].sealed
        /\ P[p].socket = h /\ P[p].connected
    BY <1>1, <2>1, <2>2 DEF PlayerState
  <2>4. player[p].socket = h /\ \A s \in Socket : Holds(s, c, p) => h = s
    BY <1>2, <1>4, <2>1
  <2> QED
    BY <1>4, <2>3, <2>4 DEF P
<1>5. CASE p \in Members(c) /\ ~\E s \in Socket : Holds(s, c, p)
  <2>1. P[p] = IF fetch /\ player[p].socket \notin live
               THEN [player[p] EXCEPT !.socket = None, !.connected = FALSE] ELSE player[p]
    BY <1>5 DEF Presence
  <2> HIDE DEF P
  <2>2. /\ P[p] \in PlayerState /\ P[p].token = player[p].token /\ P[p].sealed = player[p].sealed
        /\ P[p].socket \in {player[p].socket, None}
    BY <1>1, <2>1 DEF PlayerState
  <2> QED
    BY <1>5, <2>2 DEF P
<1> QED
  BY <1>3, <1>4, <1>5

LEMMA BindingsKeep ==
  ASSUME Good(rooms, player, socketToPlayer, socketToSpectator),
         NEW c \in Code, NEW s \in Socket
  PROVE  /\ Bindings(c)[s] \in {socketToPlayer[s], None}
         /\ Bindings(c)[s] # None /\ Bindings(c)[s].code = c => s \in live
<1>1. socketToPlayer[s] # None => socketToPlayer[s].player \in In(rooms, socketToPlayer[s].code)
  BY DEF Good, BoundAsPlayer
<1>2. CASE Exists(c)
  BY <1>1, <1>2 DEF Bindings, BoundTo
<1>3. CASE ~Exists(c)
  BY <1>1, <1>3, MembersIn DEF Bindings, BoundTo, Members
<1> QED
  BY <1>2, <1>3

LEMMA RefreshGood ==
  ASSUME Good(rooms, player, socketToPlayer, socketToSpectator), NEW c \in Code, NEW fetch
  PROVE  Good(rooms, Presence(c, fetch), Bindings(c), socketToSpectator)
<1> DEFINE P == Presence(c, fetch)
           B == Bindings(c)
<1>1. \A p \in Player : /\ P[p] \in PlayerState /\ P[p].token = player[p].token
                        /\ P[p].socket \in {player[p].socket, None}
                        /\ \A s \in Socket : p \in Members(c) /\ Holds(s, c, p) => P[p].socket = s
                        /\ p \notin Members(c) => P[p] = player[p]
  BY PresenceKeeps
<1>2. \A s \in Socket : B[s] \in {socketToPlayer[s], None}
                        /\ (B[s] # None /\ B[s].code = c => s \in live)
  BY BindingsKeep
<1>3. DOMAIN P = Player /\ P = [p \in Player |-> P[p]] /\ B = [s \in Socket |-> B[s]]
  BY DEF Presence, Bindings
<1> HIDE DEF P, B
<1>4. Typed(rooms, P, B, socketToSpectator)
  <2>1. P \in [Player -> PlayerState]
    BY <1>1, <1>3
  <2>2. B \in [Socket -> Ref \cup {None}]
    BY <1>2, <1>3 DEF Good, Typed
  <2> QED
    BY <2>1, <2>2 DEF Good, Typed
<1>5. OwnToken(rooms, P)
  <2>1. \A d \in Code : In(rooms, d) \subseteq Player
    BY InPlayer DEF Good, Typed
  <2> QED
    BY <1>1, <2>1 DEF Good, OwnToken
<1>6. BoundAsPlayer(rooms, P, B)
  <2> SUFFICES ASSUME NEW s \in Socket, B[s] # None
               PROVE  /\ B[s].player \in In(rooms, B[s].code)
                      /\ P[B[s].player].token = B[s].token /\ P[B[s].player].socket = s
    BY DEF BoundAsPlayer
  <2> DEFINE p == B[s].player
  <2>1. B[s] = socketToPlayer[s] /\ socketToPlayer[s] \in Ref
    BY <1>2 DEF Good, Typed
  <2>2. p \in In(rooms, B[s].code) /\ player[p].token = B[s].token /\ player[p].socket = s
    BY <2>1 DEF Good, BoundAsPlayer
  <2>3. p \in Player /\ B[s].code \in Code
    BY <2>1, RefFields
  <2>4. CASE p \in Members(c)
    <3>1. B[s].code = c
      BY <2>2, <2>3, <2>4, MembersIn DEF Good, InOneRoom
    <3>2. s \in live
      BY <1>2, <3>1
    <3>3. B[s] = [code |-> c, player |-> p, token |-> player[p].token]
      BY <2>1, <2>2, <3>1 DEF Ref
    <3>4. Holds(s, c, p)
      BY <2>1, <3>2, <3>3 DEF Holds
    <3> QED
      BY <1>1, <2>2, <2>3, <2>4, <3>4
  <2>5. CASE p \notin Members(c)
    BY <1>1, <2>2, <2>3, <2>5
  <2> QED
    BY <2>4, <2>5
<1>7. Watching(rooms, B, socketToSpectator)
  BY <1>2 DEF Good, Watching
<1>8. ListedOnce(rooms) /\ InOneRoom(rooms)
  BY DEF Good
<1>9. Good(rooms, P, B, socketToSpectator)
  BY <1>4, <1>5, <1>6, <1>7, <1>8 DEF Good
<1> QED
  BY <1>9 DEF P, B
-----------------------------------------------------------------------------
(* What bodies do to the values: change a room, cut bindings, mark a player*)
(* and let players and rooms come and go.                                  *)

LEMMA SetIn ==
  ASSUME NEW R \in [Code -> Room \cup {None}], NEW c \in Code, NEW r \in Room, NEW d \in Code
  PROVE  In([R EXCEPT ![c] = r], d) = IF d = c THEN IdsIn(r.players) ELSE In(R, d)
  BY NoneAssumption DEF In

LEMMA SetRoomGood ==
  ASSUME NEW R, NEW P, NEW B, NEW V, Good(R, P, B, V),
         NEW c \in Code, R[c] # None, NEW r, SameList(r, R[c])
  PROVE  Good([R EXCEPT ![c] = r], P, B, V)
<1> DEFINE R2 == [R EXCEPT ![c] = r]
<1>1. R \in [Code -> Room \cup {None}] /\ r \in Room /\ r # None
      /\ r.players = R[c].players /\ r.max = R[c].max
  BY NoneAssumption DEF Good, Typed, SameList
<1>2. \A d \in Code : In(R2, d) = In(R, d) /\ (R2[d] # None <=> R[d] # None)
  BY <1>1, SetIn DEF In
<1>3. Typed(R2, P, B, V)
  BY <1>1 DEF Good, Typed
<1>4. ListedOnce(R2)
  BY <1>1 DEF Good, ListedOnce
<1> HIDE DEF R2
<1>5. InOneRoom(R2)
  BY <1>2 DEF Good, InOneRoom
<1>6. OwnToken(R2, P)
  BY <1>2 DEF Good, OwnToken
<1>7. BoundAsPlayer(R2, P, B)
  BY <1>2, RefFields DEF Good, Typed, BoundAsPlayer
<1>8. Watching(R2, B, V)
  BY <1>2 DEF Good, Typed, Watching
<1>9. Good(R2, P, B, V)
  BY <1>3, <1>4, <1>5, <1>6, <1>7, <1>8 DEF Good
<1> QED
  BY <1>9 DEF R2

LEMMA CutGood ==
  ASSUME NEW R, NEW P, NEW B, NEW V, Good(R, P, B, V),
         NEW B2 \in [Socket -> Ref \cup {None}], NEW V2 \in [Socket -> Code \cup {None}],
         \A s \in Socket : B2[s] \in {B[s], None} /\ V2[s] \in {V[s], None}
  PROVE  Good(R, P, B2, V2)
<1>1. Typed(R, P, B2, V2) /\ ListedOnce(R) /\ InOneRoom(R) /\ OwnToken(R, P)
  BY DEF Good, Typed
<1>2. BoundAsPlayer(R, P, B2)
  BY DEF Good, BoundAsPlayer
<1>3. Watching(R, B2, V2)
  BY DEF Good, Watching
<1> QED
  BY <1>1, <1>2, <1>3 DEF Good

LEMMA MarkGood ==
  ASSUME NEW R, NEW P, NEW B, NEW V, Good(R, P, B, V), NEW P2 \in [Player -> PlayerState],
         \A p \in Player : P2[p].token = P[p].token /\ P2[p].socket = P[p].socket
  PROVE  Good(R, P2, B, V)
<1>1. \A d \in Code : In(R, d) \subseteq Player
  BY InPlayer DEF Good, Typed
<1>2. Typed(R, P2, B, V) /\ ListedOnce(R) /\ InOneRoom(R) /\ Watching(R, B, V)
  BY DEF Good, Typed
<1>3. OwnToken(R, P2)
  BY <1>1 DEF Good, OwnToken
<1>4. BoundAsPlayer(R, P2, B)
  BY <1>1, RefFields DEF Good, Typed, BoundAsPlayer
<1> QED
  BY <1>2, <1>3, <1>4 DEF Good

LEMMA DeleteGood ==
  ASSUME NEW R, NEW P, NEW B, NEW V, Good(R, P, B, V), NEW c \in Code,
         NEW V2, V2 = [s \in Socket |-> IF V[s] = c THEN None ELSE V[s]]
  PROVE  Good([R EXCEPT ![c] = None], Forget(P, In(R, c)), Unbind(B, c), V2)
<1> DEFINE R2 == [R EXCEPT ![c] = None]
           P2 == Forget(P, In(R, c))
           B2 == Unbind(B, c)
<1>1. Typed(R, P, B, V) /\ c # None
  BY ConstantsAssumption DEF Good
<1>2. Blank \in PlayerState /\ Blank.token = None
  BY DEF Blank, PlayerState
<1>3. P2 \in [Player -> PlayerState]
  BY <1>1, <1>2 DEF Typed, Forget
<1>4. Typed(R2, P2, B2, V2)
  BY <1>1, <1>3 DEF Typed, Unbind
<1>5. \A d \in Code : /\ d # c => In(R2, d) = In(R, d) /\ R2[d] = R[d]
                      /\ In(R2, c) = {} /\ R2[c] = None
  BY <1>1 DEF Typed, In
<1>6. \A d \in Code : In(R, d) \subseteq Player
  BY <1>1, InPlayer DEF Typed
<1>7. \A p \in Player : P2[p] = IF p \in In(R, c) THEN Blank ELSE P[p]
  BY DEF Forget
<1>8. \A s \in Socket : B2[s] = IF B[s] # None /\ B[s].code = c THEN None ELSE B[s]
  BY DEF Unbind
<1> HIDE DEF R2, P2, B2
<1>9. ListedOnce(R2) /\ InOneRoom(R2)
  BY <1>5 DEF Good, ListedOnce, InOneRoom
<1>10. \A d \in Code : \A p \in In(R2, d) : p \in In(R, d) /\ p \in Player /\ P2[p] = P[p]
  BY <1>5, <1>6, <1>7 DEF Good, InOneRoom
<1>11. OwnToken(R2, P2)
  BY <1>2, <1>7, <1>10 DEF Good, OwnToken
<1>12. BoundAsPlayer(R2, P2, B2)
  <2> SUFFICES ASSUME NEW s \in Socket, B2[s] # None
               PROVE  /\ B2[s].player \in In(R2, B2[s].code)
                      /\ P2[B2[s].player].token = B2[s].token /\ P2[B2[s].player].socket = s
    BY DEF BoundAsPlayer
  <2>1. B2[s] = B[s] /\ B[s] # None /\ B[s].code # c /\ B[s] \in Ref
    BY <1>1, <1>8 DEF Typed
  <2>2. B[s].code \in Code /\ B[s].player \in In(R2, B[s].code)
    BY <1>5, <2>1, RefFields DEF Good, BoundAsPlayer
  <2> QED
    BY <1>10, <2>1, <2>2 DEF Good, BoundAsPlayer
<1>13. Watching(R2, B2, V2)
  BY <1>1, <1>5, <1>8 DEF Good, Typed, Watching
<1>14. Good(R2, P2, B2, V2)
  BY <1>4, <1>9, <1>11, <1>12, <1>13 DEF Good
<1> QED
  BY <1>14 DEF R2, P2, B2

(* A socket that has lost its binding is bound again to a player who still *)
(* has it.                                                                 *)
LEMMA RebindGood ==
  ASSUME NEW R, NEW P, NEW B, NEW V, Good(R, P, B, V), NEW s \in Socket, B[s] = None,
         NEW c \in Code, NEW p \in In(R, c), P[p].socket = s,
         NEW ref, ref = [code |-> c, player |-> p, token |-> P[p].token]
  PROVE  ref \in Ref /\ Good(R, P, [B EXCEPT ![s] = ref], [V EXCEPT ![s] = None])
<1> DEFINE B2 == [B EXCEPT ![s] = ref]
           V2 == [V EXCEPT ![s] = None]
<1>1. ref \in Ref
  BY TokenType, MakesRef
<1>2. Typed(R, P, B2, V2)
  BY <1>1 DEF Good, Typed
<1>3. B2[s] = ref /\ V2[s] = None /\ \A x \in Socket \ {s} : B2[x] = B[x] /\ V2[x] = V[x]
  BY DEF Good, Typed
<1> HIDE DEF B2, V2
<1>4. BoundAsPlayer(R, P, B2)
  BY <1>3 DEF Good, BoundAsPlayer
<1>5. Watching(R, B2, V2)
  BY <1>3 DEF Good, Watching
<1>6. Good(R, P, B2, V2)
  BY <1>2, <1>4, <1>5 DEF Good
<1> QED
  BY <1>1, <1>6 DEF B2, V2
-----------------------------------------------------------------------------
(* Fresh ids and tokens, and the requests that wait.                       *)

LEMMA FreshFacts ==
  ASSUME IInv
  PROVE  /\ \A t \in FreshTokens : /\ t \in Token /\ t # None
                                   /\ \A p \in Player : player[p].token # t
                                   /\ \A k \in Keys : \A i \in DOMAIN queue[k] :
                                        queue[k][i].ref # None => queue[k][i].ref.token # t
         /\ \A p \in FreshPlayers : p \in Player /\ \A c \in Code : p \notin In(rooms, c)
         /\ \A c \in FreshCodes : c \in Code /\ rooms[c] = None
<1>1. ASSUME NEW t \in FreshTokens
      PROVE  /\ t \in Token /\ t # None
             /\ \A p \in Player : player[p].token # t
             /\ \A k \in Keys : \A i \in DOMAIN queue[k] :
                                        queue[k][i].ref # None => queue[k][i].ref.token # t
  <2>1. t \in Token /\ t \notin UsedTokens
    BY DEF FreshTokens, Least
  <2>2. \A k \in Keys : \A i \in DOMAIN queue[k] : queue[k][i] \in QueuedRequests
    BY DEF QueuedRequests, IdsIn
  <2>3. \A k \in Keys : \A i \in DOMAIN queue[k] : queue[k][i].ref \in BoundRefs
    BY <2>2 DEF BoundRefs
  <2> QED
    BY <2>1, <2>3, ConstantsAssumption DEF UsedTokens
<1>2. ASSUME NEW p \in FreshPlayers PROVE p \in Player /\ \A c \in Code : p \notin In(rooms, c)
  BY MembersIn DEF FreshPlayers, Least, UsedPlayers
<1> QED
  BY <1>1, <1>2 DEF FreshCodes, Least, Exists

(* What a step may do to a player: keep its token, with the same socket or *)
(* none, or give it a new token, or make it nobody.                        *)
TokensKept(P2) ==
  \A p \in Player : \/ P2[p].token = player[p].token /\ P2[p].socket \in {player[p].socket, None}
                    \/ P2[p].token \in FreshTokens
                    \/ P2[p].token = None

LEMMA StillOwnSocket ==
  ASSUME IInv, NEW P2, TokensKept(P2), NEW k \in Keys, NEW i \in DOMAIN queue[k],
         queue[k][i].op \in {"room:leave", "disconnect"}
  PROVE  \A p \in Player : P2[p].token = queue[k][i].ref.token
                           => P2[p].socket \in {queue[k][i].socket, None}
<1>1. queue[k][i] \in Request /\ queue[k][i].ref # None
  BY DEF IInv, FromOwnSocket
<1>2. queue[k][i].ref \in Ref /\ queue[k][i].ref.token # None
  BY <1>1, RefFields DEF Request
<1>3. \A t \in FreshTokens : queue[k][i].ref.token # t
  BY <1>1, FreshFacts
<1> QED
  BY <1>2, <1>3 DEF IInv, FromOwnSocket, TokensKept

LEMMA ServedQueue ==
  ASSUME IInv, NEW P2, TokensKept(P2), NEW k \in Keys, queue[k] # <<>>, Dequeue(k)
  PROVE  FromOwnSocket(queue', P2) /\ queue' \in [Keys -> Seq(Request)]
<1>1. queue[k] \in Seq(Request) /\ Tail(queue[k]) \in Seq(Request)
      /\ queue' = [queue EXCEPT ![k] = Tail(queue[k])]
  BY DEF IInv, Dequeue
<1>2. queue' \in [Keys -> Seq(Request)]
  BY <1>1 DEF IInv
<1>3. ASSUME NEW j \in Keys, NEW i \in DOMAIN queue'[j]
      PROVE  \E n \in DOMAIN queue[j] : queue'[j][i] = queue[j][n]
  <2>1. CASE j = k
    <3>1. queue'[j] = Tail(queue[k])
      BY <1>1, <2>1 DEF IInv
    <3>2. Len(queue[k]) \in Nat /\ DOMAIN queue[k] = 1 .. Len(queue[k])
      BY <1>1
    <3>3. /\ Len(Tail(queue[k])) = Len(queue[k]) - 1
          /\ \A n \in 1 .. Len(Tail(queue[k])) : Tail(queue[k])[n] = queue[k][n + 1]
      BY <1>1, HeadTailProperties, Zenon
    <3>4. i \in 1 .. Len(Tail(queue[k]))
      <4>1. \A q \in Seq(Request) : DOMAIN q = 1 .. Len(q)
        OBVIOUS
      <4> QED
        BY <1>1, <3>1, <4>1, Zenon
    <3>5. i + 1 \in DOMAIN queue[k]
      BY <3>2, <3>3, <3>4
    <3> QED
      BY <2>1, <3>1, <3>3, <3>4, <3>5
  <2>2. CASE j # k
    BY <1>1, <2>2 DEF IInv
  <2> QED
    BY <2>1, <2>2
<1>4. FromOwnSocket(queue', P2)
  <2> SUFFICES ASSUME NEW j \in Keys, NEW i \in DOMAIN queue'[j],
                      queue'[j][i].op \in {"room:leave", "disconnect"}
               PROVE  /\ queue'[j][i].ref # None
                      /\ \A p \in Player : P2[p].token = queue'[j][i].ref.token
                                           => P2[p].socket \in {queue'[j][i].socket, None}
    BY DEF FromOwnSocket
  <2>1. PICK n \in DOMAIN queue[j] : queue'[j][i] = queue[j][n]
    BY <1>3
  <2> QED
    BY <2>1, StillOwnSocket DEF IInv, FromOwnSocket
<1> QED
  BY <1>2, <1>4

LEMMA SameQueue ==
  ASSUME IInv, NEW P2, TokensKept(P2)
  PROVE  FromOwnSocket(queue, P2)
  BY StillOwnSocket DEF IInv, FromOwnSocket

LEMMA EnqueuedQueue ==
  ASSUME IInv, NEW P2, TokensKept(P2), NEW k \in Keys, NEW op \in Ops, NEW s \in Socket,
         NEW ref \in Ref \cup {None}, NEW target \in Player \cup {None},
         Enqueue(k, op, s, ref, target),
         op \in {"room:leave", "disconnect"} => ref = socketToPlayer[s] /\ ref # None /\ P2 = player
  PROVE  FromOwnSocket(queue', P2) /\ queue' \in [Keys -> Seq(Request)]
<1> DEFINE req == [op |-> op, socket |-> s, ref |-> ref, target |-> target]
<1>1. req \in Request
  BY DEF Request
<1>2. queue[k] \in Seq(Request) /\ queue' = [queue EXCEPT ![k] = Append(queue[k], req)]
  BY DEF IInv, Enqueue
<1>3. req.op = op /\ req.socket = s /\ req.ref = ref
  OBVIOUS
<1> HIDE DEF req
<1>4. queue' \in [Keys -> Seq(Request)]
  BY <1>1, <1>2 DEF IInv
<1>5. ASSUME NEW j \in Keys, NEW i \in DOMAIN queue'[j]
      PROVE  queue'[j][i] = req \/ (i \in DOMAIN queue[j] /\ queue'[j][i] = queue[j][i])
  BY <1>1, <1>2 DEF IInv
<1>6. ASSUME op \in {"room:leave", "disconnect"}, NEW p \in Player, P2[p].token = ref.token
      PROVE  P2[p].socket = s
  <2>1. ref \in Ref /\ ref.code \in Code /\ ref.player \in Player /\ ref.token # None
    BY <1>6, RefFields
  <2>2. player[ref.player].token = ref.token /\ player[ref.player].socket = s
    BY <1>6 DEF IInv, Good, BoundAsPlayer
  <2> QED
    BY <1>6, <2>1, <2>2 DEF IInv, Good, OwnToken
<1>7. FromOwnSocket(queue', P2)
  <2> SUFFICES ASSUME NEW j \in Keys, NEW i \in DOMAIN queue'[j],
                      queue'[j][i].op \in {"room:leave", "disconnect"}
               PROVE  /\ queue'[j][i].ref # None
                      /\ \A p \in Player : P2[p].token = queue'[j][i].ref.token
                                           => P2[p].socket \in {queue'[j][i].socket, None}
    BY DEF FromOwnSocket
  <2>1. CASE queue'[j][i] = req
    BY <1>3, <1>6, <2>1
  <2>2. CASE i \in DOMAIN queue[j] /\ queue'[j][i] = queue[j][i]
    BY <2>2, StillOwnSocket DEF IInv, FromOwnSocket
  <2> QED
    BY <1>5, <2>1, <2>2
<1> QED
  BY <1>4, <1>7
-----------------------------------------------------------------------------
(* The actions.                                                            *)

(* Whoever stops being connected has no live socket bound to it.           *)
GoneAway(P2, B2) ==
  \A p \in Player : player[p].connected /\ ~P2[p].connected =>
    \A s \in live : B2[s] # None => B2[s].token # P2[p].token

LEMMA AwayRefresh ==
  ASSUME IInv, NEW c \in Code, NEW fetch, NEW p \in Player,
         player[p].connected, ~Presence(c, fetch)[p].connected,
         NEW s \in live, socketToPlayer[s] # None
  PROVE  socketToPlayer[s].token # player[p].token
<1> SUFFICES ASSUME socketToPlayer[s].token = player[p].token PROVE FALSE
  OBVIOUS
<1>1. p \in Members(c) /\ \A x \in Socket : ~Holds(x, c, p)
  BY PresenceKeeps DEF IInv
<1>2. s \in Socket /\ socketToPlayer[s] \in Ref
  BY DEF IInv, Good, Typed
<1> DEFINE q == socketToPlayer[s].player
<1>3. q \in Player /\ q \in In(rooms, socketToPlayer[s].code) /\ player[q].token = socketToPlayer[s].token
      /\ socketToPlayer[s].token # None /\ socketToPlayer[s].code \in Code
  BY <1>2, RefFields DEF IInv, Good, BoundAsPlayer
<1>4. q = p
  BY <1>3 DEF IInv, Good, OwnToken
<1>5. socketToPlayer[s].code = c
  BY <1>1, <1>3, <1>4, MembersIn DEF IInv, Good, InOneRoom
<1>6. Holds(s, c, p)
  BY <1>2, <1>4, <1>5 DEF Holds, Ref
<1> QED
  BY <1>1, <1>2, <1>6

(* What every body leaves behind.                                          *)
Kept(R2, P2, B2, V2) == Good(R2, P2, B2, V2) /\ TokensKept(P2) /\ GoneAway(P2, B2)

LEMMA RefreshKeeps ==
  ASSUME IInv, NEW c \in Code, NEW fetch
  PROVE  Kept(rooms, Presence(c, fetch), Bindings(c), socketToSpectator)
<1> DEFINE P == Presence(c, fetch)
<1>1. Good(rooms, P, Bindings(c), socketToSpectator)
  BY RefreshGood DEF IInv
<1>2. TokensKept(P)
  BY PresenceKeeps DEF IInv, TokensKept
<1>3. GoneAway(P, Bindings(c))
  <2> SUFFICES ASSUME NEW p \in Player, player[p].connected, ~P[p].connected,
                      NEW s \in live, Bindings(c)[s] # None
               PROVE  Bindings(c)[s].token # P[p].token
    BY DEF GoneAway
  <2>1. socketToPlayer[s] # None /\ Bindings(c)[s] = socketToPlayer[s]
    BY BindingsKeep DEF IInv
  <2>2. P[p].token = player[p].token
    BY PresenceKeeps DEF IInv
  <2> QED
    BY <2>1, <2>2, AwayRefresh
<1> QED
  BY <1>1, <1>2, <1>3 DEF Kept

LEMMA SetRoomKeeps ==
  ASSUME NEW R2, NEW P2, NEW B2, NEW V2, Kept(R2, P2, B2, V2),
         NEW c \in Code, R2[c] # None, NEW r, SameList(r, R2[c])
  PROVE  Kept([R2 EXCEPT ![c] = r], P2, B2, V2)
<1>1. Good([R2 EXCEPT ![c] = r], P2, B2, V2)
  BY SetRoomGood DEF Kept
<1> QED
  BY <1>1 DEF Kept

Body == Kept(rooms', player', socketToPlayer', socketToSpectator')

LEMMA BodyKeeps ==
  ASSUME IInv, NEW k \in Keys, queue[k] # <<>>, Dequeue(k), live' = live, phase' = phase, Body
  PROVE  IInv'
<1>1. FromOwnSocket(queue', player') /\ queue' \in [Keys -> Seq(Request)]
  BY ServedQueue DEF Body, Kept
<1> QED
  BY <1>1 DEF IInv, Body, Kept

Turn(k) == queue[k] # <<>> /\ Dequeue(k) /\ live' = live /\ phase' = phase

LEMMA TurnKeeps ==
  ASSUME IInv, NEW k \in Keys, Turn(k), Body
  PROVE  IInv'
  BY BodyKeeps DEF Turn

LEMMA AsideKeeps ==
  ASSUME IInv, queue' = queue, live' \subseteq Socket, phase' \in Phases, Body
  PROVE  IInv'
<1>1. FromOwnSocket(queue, player')
  BY SameQueue DEF Body, Kept
<1> QED
  BY <1>1 DEF IInv, Body, Kept

(* The steps that at most change the room, besides its presence.           *)
Refreshes(c) ==
  /\ \E fetch : player' = Presence(c, fetch)
  /\ socketToPlayer' = Bindings(c) /\ socketToSpectator' = socketToSpectator
  /\ \/ rooms' = rooms
     \/ Exists(c) /\ \E r \in Room : SameList(r, rooms[c]) /\ rooms' = [rooms EXCEPT ![c] = r]

LEMMA RefreshesBody ==
  ASSUME IInv, NEW c \in Code, Refreshes(c)
  PROVE  Body
<1>1. Kept(rooms, player', socketToPlayer', socketToSpectator')
  <2>1. PICK fetch : player' = Presence(c, fetch)
    BY DEF Refreshes
  <2> QED
    BY <2>1, RefreshKeeps DEF Refreshes
<1>2. CASE rooms' = rooms
  BY <1>1, <1>2 DEF Body
<1>3. CASE Exists(c) /\ rooms' # rooms
  <2>1. PICK r \in Room : SameList(r, rooms[c]) /\ rooms' = [rooms EXCEPT ![c] = r]
    BY <1>3 DEF Refreshes
  <2> QED
    BY <1>1, <1>3, <2>1, SetRoomKeeps DEF Exists, Body
<1> QED
  BY <1>2, <1>3 DEF Refreshes

LEMMA RoomOf == ASSUME IInv, NEW c \in Code, Exists(c) PROVE rooms[c] \in Room /\ SameList(rooms[c], rooms[c])
  BY DEF IInv, Good, Typed, Exists, SameList

LEMMA RevealSame ==
  ASSUME NEW r \in Room
  PROVE  SameList([Touch(r) EXCEPT !.reveal = @ + 1], r)
<1> DEFINE q == Touch(r)
<1>1. q \in Room /\ q.players = r.players /\ q.max = r.max
  BY TouchSame DEF SameList
<1> HIDE DEF q
<1>2. SameList([q EXCEPT !.reveal = @ + 1], q)
  BY <1>1 DEF Room, SameList
<1>3. SameList([q EXCEPT !.reveal = @ + 1], r)
  BY <1>1, <1>2 DEF SameList
<1> QED
  BY <1>3 DEF q

(* A body that emits a room with the same players.                         *)
LEMMA EmitRefreshes ==
  ASSUME IInv, NEW c \in Code, Exists(c), NEW changed, SameList(changed, rooms[c])
  PROVE  Emit(changed) \in Room /\ SameList(Emit(changed), rooms[c])
  BY EmitSame DEF SameList

LEMMA QuietBody ==
  ASSUME IInv, NEW c \in Code,
         PlayerReady(c) \/ ProblemSet(c) \/ ItemUse(c) \/ RoomStart(c) \/ RoomStartIfReleased(c)
           \/ RoomEnd(c) \/ RoomRevealNext(c)
  PROVE  Refreshes(c) /\ Turn(c)
<1> DEFINE Emits(changed) == Exists(c) /\ rooms' = [rooms EXCEPT ![c] = Emit(changed)]
           Rest == /\ Turn(c) /\ \E fetch : player' = Presence(c, fetch)
                   /\ socketToPlayer' = Bindings(c) /\ socketToSpectator' = socketToSpectator
           r == rooms[c]
<1>1. PlayerReady(c) => Rest /\ (rooms' = rooms \/ Emits(Touch(r)))
  BY DEF PlayerReady, Change, Serving, Turn
<1>2. ProblemSet(c) => Rest /\ (rooms' = rooms \/ Emits(Touch(r)))
  BY DEF ProblemSet, ActivityUnlessRefused, Change, Serving, Turn
<1>3. ItemUse(c) => Rest /\ (rooms' = rooms \/ Emits(Touch(r)))
  BY DEF ItemUse, ActivityUnlessRefused, Change, Serving, Turn
<1>4. RoomStart(c) => Rest /\ (rooms' = rooms \/ Emits(Start(r)))
  BY DEF RoomStart, Change, Serving, Turn
<1>5. RoomStartIfReleased(c) => Rest /\ (rooms' = rooms \/ Emits(r))
  BY DEF RoomStartIfReleased, Change, Serving, Turn
<1>6. RoomEnd(c) => Rest /\ (rooms' = rooms \/ Emits(Finish(r)))
  BY DEF RoomEnd, Change, Serving, Turn
<1>7. RoomRevealNext(c) => Rest /\ (rooms' = rooms \/ Emits([Touch(r) EXCEPT !.reveal = @ + 1]))
  BY DEF RoomRevealNext, Change, Serving, Turn
<1>8. Exists(c) => \A changed \in {Touch(r), Start(r), r, Finish(r), [Touch(r) EXCEPT !.reveal = @ + 1]} :
                      SameList(changed, r)
  BY RoomOf, TouchSame, StartSame, FinishSame, RevealSame
<1>9. Rest /\ (rooms' = rooms
        \/ \E changed \in {Touch(r), Start(r), r, Finish(r), [Touch(r) EXCEPT !.reveal = @ + 1]} : Emits(changed))
  BY <1>1, <1>2, <1>3, <1>4, <1>5, <1>6, <1>7
<1>10. ASSUME NEW changed, SameList(changed, r), Emits(changed)
       PROVE  Exists(c) /\ \E q \in Room : SameList(q, rooms[c]) /\ rooms' = [rooms EXCEPT ![c] = q]
  BY <1>10, EmitRefreshes
<1> QED
  BY <1>8, <1>9, <1>10 DEF Refreshes

LEMMA CutKeeps ==
  ASSUME NEW R, NEW P, NEW B, NEW V, Kept(R, P, B, V),
         NEW B2 \in [Socket -> Ref \cup {None}], NEW V2 \in [Socket -> Code \cup {None}],
         \A s \in Socket : B2[s] \in {B[s], None} /\ V2[s] \in {V[s], None}, live \subseteq Socket
  PROVE  Kept(R, P, B2, V2)
<1>1. Good(R, P, B2, V2)
  BY CutGood DEF Kept
<1>2. GoneAway(P, B2)
  BY DEF Kept, GoneAway
<1> QED
  BY <1>1, <1>2 DEF Kept

LEMMA SealKeeps ==
  ASSUME NEW R, NEW P, NEW B, NEW V, Kept(R, P, B, V), NEW r, NEW p \in Player
  PROVE  Kept(R, Seal(P, r, p), B, V)
<1> DEFINE P2 == Seal(P, r, p)
           n == P2[p].sealed
<1>1. P \in [Player -> PlayerState] /\ P[p].sealed \in Nat
  BY DEF Kept, Good, Typed, PlayerState
<1>2. MaxSealed \in Nat
  BY ConstantsAssumption
<1>3. (IF r.frozenAt # None /\ r.elapsed > r.frozenAt THEN Min2(P[p].sealed + 1, MaxSealed)
       ELSE P[p].sealed) \in Nat
  BY <1>1, <1>2 DEF Min2
<1>4. \E m \in Nat : P2 = [P EXCEPT ![p].sealed = m]
  BY <1>3 DEF Seal
<1>5. PICK m \in Nat : P2 = [P EXCEPT ![p].sealed = m]
  BY <1>4
<1> HIDE DEF P2
<1>6. /\ P2 \in [Player -> PlayerState]
      /\ \A q \in Player : P2[q].token = P[q].token /\ P2[q].socket = P[q].socket
                           /\ P2[q].connected = P[q].connected
  BY <1>1, <1>5 DEF PlayerState
<1>7. Good(R, P2, B, V)
  BY <1>6, MarkGood DEF Kept
<1>8. TokensKept(P2) /\ GoneAway(P2, B)
  BY <1>6 DEF Kept, TokensKept, GoneAway
<1>9. Kept(R, P2, B, V)
  BY <1>7, <1>8 DEF Kept
<1> QED
  BY <1>9 DEF P2

LEMMA DeleteKeeps ==
  ASSUME NEW R, NEW P, NEW B, NEW V, Kept(R, P, B, V), NEW c \in Code, live \subseteq Socket,
         NEW V2, V2 = [s \in Socket |-> IF V[s] = c THEN None ELSE V[s]]
  PROVE  Kept([R EXCEPT ![c] = None], Forget(P, In(R, c)), Unbind(B, c), V2)
<1> DEFINE R2 == [R EXCEPT ![c] = None]
           P2 == Forget(P, In(R, c))
           B2 == Unbind(B, c)
<1>1. Good(R2, P2, B2, V2)
  BY DeleteGood DEF Kept
<1>2. \A p \in Player : P2[p] = IF p \in In(R, c) THEN Blank ELSE P[p]
  BY DEF Forget
<1>3. \A s \in Socket : B2[s] \in {B[s], None} /\ B[s] \in Ref \cup {None}
  BY DEF Unbind, Kept, Good, Typed
<1> HIDE DEF R2, P2, B2
<1>4. TokensKept(P2)
  BY <1>2 DEF Kept, TokensKept, Blank
<1>5. GoneAway(P2, B2)
  <2> SUFFICES ASSUME NEW p \in Player, player[p].connected, ~P2[p].connected,
                      NEW s \in live, B2[s] # None
               PROVE  B2[s].token # P2[p].token
    BY DEF GoneAway
  <2>1. B2[s] = B[s] /\ B[s] \in Ref
    BY <1>3
  <2>2. B2[s].token # None
    BY <2>1, RefFields
  <2> QED
    BY <1>2, <2>1, <2>2 DEF Kept, GoneAway, Blank
<1>6. Kept(R2, P2, B2, V2)
  BY <1>1, <1>4, <1>5 DEF Kept
<1> QED
  BY <1>6 DEF R2, P2, B2

(* A player gets a socket and a new token, in a room it may be new to.     *)
LEMMA AttachGood ==
  ASSUME NEW R, NEW P, NEW B, NEW V, Good(R, P, B, V),
         NEW s \in Socket, NEW c \in Code, NEW p \in Player, NEW t \in Token,
         \A q \in Player : P[q].token # t,
         \A x \in Socket \ {s} : B[x] # None => B[x].player # p,
         NEW R2 \in [Code -> Room \cup {None}], ListedOnce(R2),
         \A d \in Code : /\ d # c => In(R2, d) = In(R, d) /\ p \notin In(R, d)
                         /\ R[d] # None => R2[d] # None,
         In(R2, c) = In(R, c) \cup {p}
  PROVE  Good(R2, Attach(P, p, s, t), Bind(B, s, c, p, t), [V EXCEPT ![s] = None])
<1> DEFINE P2 == Attach(P, p, s, t)
           B2 == Bind(B, s, c, p, t)
           V2 == [V EXCEPT ![s] = None]
           ref == [code |-> c, player |-> p, token |-> t]
<1>1. Typed(R, P, B, V) /\ ref \in Ref /\ t # None
  BY MakesRef, ConstantsAssumption DEF Good
<1>2. /\ P2 \in [Player -> PlayerState]
      /\ P2[p].token = t /\ P2[p].socket = s
      /\ \A q \in Player \ {p} : P2[q] = P[q]
  BY <1>1 DEF Typed, Attach, PlayerState
<1>3. B2 \in [Socket -> Ref \cup {None}] /\ B2[s] = ref /\ \A x \in Socket \ {s} : B2[x] = B[x]
  BY <1>1 DEF Typed, Bind
<1>4. V2 \in [Socket -> Code \cup {None}] /\ V2[s] = None /\ \A x \in Socket \ {s} : V2[x] = V[x]
  BY <1>1 DEF Typed
<1>5. ref.code = c /\ ref.player = p /\ ref.token = t /\ ref # None
  BY <1>1, NoneAssumption
<1> HIDE DEF P2, B2, V2, ref
<1>6. Typed(R2, P2, B2, V2)
  BY <1>2, <1>3, <1>4 DEF Typed
<1>7. \A d \in Code : \A q \in In(R2, d) : q \in In(R, d) \/ (q = p /\ d = c)
  OBVIOUS
<1>8. InOneRoom(R2)
  BY <1>7 DEF Good, InOneRoom
<1>9. \A d \in Code : In(R2, d) \subseteq Player
  BY InPlayer
<1>10. OwnToken(R2, P2)
  <2>1. \A d \in Code : \A q \in In(R2, d) : P2[q].token # None
    BY <1>1, <1>2, <1>7, <1>9 DEF Good, OwnToken
  <2>2. \A a, b \in Player : P2[a].token = P2[b].token /\ P2[a].token # None => a = b
    BY <1>2 DEF Good, OwnToken
  <2> QED
    BY <2>1, <2>2 DEF OwnToken
<1>11. BoundAsPlayer(R2, P2, B2)
  <2> SUFFICES ASSUME NEW x \in Socket, B2[x] # None
               PROVE  /\ B2[x].player \in In(R2, B2[x].code)
                      /\ P2[B2[x].player].token = B2[x].token /\ P2[B2[x].player].socket = x
    BY DEF BoundAsPlayer
  <2>1. CASE x = s
    BY <1>2, <1>3, <1>5, <2>1
  <2>2. CASE x # s
    <3>1. B2[x] = B[x] /\ B[x] # None /\ B[x] \in Ref /\ B[x].player # p
      BY <1>1, <1>3, <2>2 DEF Typed
    <3>2. B[x].code \in Code /\ B[x].player \in Player /\ B[x].player \in In(R, B[x].code)
      BY <3>1, RefFields DEF Good, BoundAsPlayer
    <3>3. B[x].player \in In(R2, B[x].code)
      BY <3>2
    <3>4. P2[B[x].player] = P[B[x].player]
      BY <1>2, <3>1, <3>2
    <3> QED
      BY <3>1, <3>3, <3>4 DEF Good, BoundAsPlayer
  <2> QED
    BY <2>1, <2>2
<1>12. Watching(R2, B2, V2)
  BY <1>1, <1>3, <1>4 DEF Good, Typed, Watching
<1>13. Good(R2, P2, B2, V2)
  BY <1>6, <1>8, <1>10, <1>11, <1>12 DEF Good
<1> QED
  BY <1>13 DEF P2, B2, V2

LEMMA AttachKeeps ==
  ASSUME IInv, NEW R, NEW P, NEW B, NEW V, Kept(R, P, B, V),
         \A q \in Player : P[q].token = player[q].token,
         NEW s \in Socket, NEW c \in Code, NEW p \in Player, NEW t \in FreshTokens,
         \A x \in Socket \ {s} : B[x] # None => B[x].player # p,
         NEW R2 \in [Code -> Room \cup {None}], ListedOnce(R2),
         \A d \in Code : /\ d # c => In(R2, d) = In(R, d) /\ p \notin In(R, d)
                         /\ R[d] # None => R2[d] # None,
         In(R2, c) = In(R, c) \cup {p}
  PROVE  Kept(R2, Attach(P, p, s, t), Bind(B, s, c, p, t), [V EXCEPT ![s] = None])
<1> DEFINE P2 == Attach(P, p, s, t)
           B2 == Bind(B, s, c, p, t)
<1>1. t \in Token /\ \A q \in Player : P[q].token # t
  BY FreshFacts
<1>2. Good(R2, P2, B2, [V EXCEPT ![s] = None])
  BY <1>1, AttachGood DEF Kept
<1>3. P \in [Player -> PlayerState] /\ B \in [Socket -> Ref \cup {None}]
  BY DEF Kept, Good, Typed
<1>4. /\ P2[p].token = t /\ P2[p].connected /\ \A q \in Player \ {p} : P2[q] = P[q]
      /\ B2[s].token = t /\ \A x \in Socket \ {s} : B2[x] = B[x]
  BY <1>3 DEF Attach, Bind, PlayerState
<1> HIDE DEF P2, B2
<1>5. TokensKept(P2)
  BY <1>4 DEF Kept, TokensKept
<1>6. GoneAway(P2, B2)
  <2> SUFFICES ASSUME NEW q \in Player, player[q].connected, ~P2[q].connected,
                      NEW x \in live, B2[x] # None
               PROVE  B2[x].token # P2[q].token
    BY DEF GoneAway
  <2>1. q # p /\ P2[q] = P[q] /\ x \in Socket
    BY <1>4 DEF IInv
  <2>2. CASE x = s
    BY <1>1, <1>4, <2>1, <2>2
  <2>3. CASE x # s
    BY <1>4, <2>1, <2>3 DEF Kept, GoneAway
  <2> QED
    BY <2>2, <2>3
<1>7. Kept(R2, P2, B2, [V EXCEPT ![s] = None])
  BY <1>2, <1>5, <1>6 DEF Kept
<1> QED
  BY <1>7 DEF P2, B2

LEMMA AppendOnce ==
  ASSUME NEW q \in Seq(Player), NEW p \in Player, p \notin IdsIn(q),
         \A i, j \in DOMAIN q : q[i] = q[j] => i = j
  PROVE  /\ Append(q, p) \in Seq(Player) /\ Len(Append(q, p)) = Len(q) + 1
         /\ IdsIn(Append(q, p)) = IdsIn(q) \cup {p}
         /\ \A i, j \in DOMAIN Append(q, p) : Append(q, p)[i] = Append(q, p)[j] => i = j
<1> DEFINE a == Append(q, p)
<1>1. /\ a \in Seq(Player) /\ Len(a) = Len(q) + 1 /\ Len(q) \in Nat
      /\ DOMAIN q = 1 .. Len(q) /\ DOMAIN a = 1 .. Len(q) + 1
      /\ a[Len(q) + 1] = p /\ \A i \in 1 .. Len(q) : a[i] = q[i]
  OBVIOUS
<1> HIDE DEF a
<1>2. IdsIn(a) = IdsIn(q) \cup {p}
  <2>1. ASSUME NEW x \in IdsIn(a) PROVE x \in IdsIn(q) \cup {p}
    BY <1>1, <2>1 DEF IdsIn
  <2>2. ASSUME NEW x \in IdsIn(q) PROVE x \in IdsIn(a)
    BY <1>1 DEF IdsIn
  <2>3. p \in IdsIn(a)
    BY <1>1 DEF IdsIn
  <2> QED
    BY <2>1, <2>2, <2>3
<1>3. \A i \in 1 .. Len(q) : q[i] # p
  BY <1>1 DEF IdsIn
<1>4. \A i, j \in DOMAIN a : a[i] = a[j] => i = j
  BY <1>1, <1>3
<1> QED
  BY <1>1, <1>2, <1>4 DEF a

LEMMA WithoutOnce ==
  ASSUME NEW q \in Seq(Player), NEW p \in IdsIn(q),
         \A i, j \in DOMAIN q : q[i] = q[j] => i = j
  PROVE  /\ Without(q, p) \in Seq(Player) /\ Len(Without(q, p)) = Len(q) - 1
         /\ IdsIn(Without(q, p)) = IdsIn(q) \ {p}
         /\ \A i, j \in DOMAIN Without(q, p) : Without(q, p)[i] = Without(q, p)[j] => i = j
<1> DEFINE at == CHOOSE i \in DOMAIN q : q[i] = p
           n == Len(q)
           w == Without(q, p)
<1>1. n \in Nat /\ DOMAIN q = 1 .. n /\ \A i \in 1 .. n : q[i] \in Player
  OBVIOUS
<1>2. at \in 1 .. n /\ q[at] = p
  BY <1>1 DEF IdsIn
<1>3. w = [i \in 1 .. n - 1 |-> IF i < at THEN q[i] ELSE q[i + 1]]
  BY DEF Without
<1> HIDE DEF at, w, n
<1>4. DOMAIN w = 1 .. n - 1 /\ n - 1 \in Nat
      /\ \A i \in 1 .. n - 1 : w[i] = IF i < at THEN q[i] ELSE q[i + 1]
  BY <1>1, <1>2, <1>3
<1>5. \A i \in 1 .. n - 1 : w[i] \in Player
  BY <1>1, <1>2, <1>4
<1>6. w \in Seq(Player) /\ Len(w) = n - 1
  <2>1. w \in [1 .. n - 1 -> Player]
    BY <1>3, <1>4, <1>5
  <2> QED
    BY <1>4, <2>1
<1>7. \A i, j \in 1 .. n : q[i] = q[j] => i = j
  BY <1>1
<1>8. \A i, j \in DOMAIN w : w[i] = w[j] => i = j
  BY <1>1, <1>2, <1>4, <1>7
<1>9. ASSUME NEW x \in IdsIn(w) PROVE x \in IdsIn(q) \ {p}
  <2>1. PICK i \in 1 .. n - 1 : x = w[i]
    BY <1>4 DEF IdsIn
  <2>2. CASE i < at
    BY <1>1, <1>2, <1>4, <1>7, <2>1, <2>2 DEF IdsIn
  <2>3. CASE ~(i < at)
    BY <1>1, <1>2, <1>4, <1>7, <2>1, <2>3 DEF IdsIn
  <2> QED
    BY <2>2, <2>3
<1>10. ASSUME NEW x \in IdsIn(q) \ {p} PROVE x \in IdsIn(w)
  <2>1. PICK i \in 1 .. n : x = q[i]
    BY <1>1 DEF IdsIn
  <2>2. CASE i < at
    BY <1>1, <1>2, <1>4, <2>1, <2>2 DEF IdsIn
  <2>3. CASE i > at
    <3>1. i - 1 \in 1 .. n - 1 /\ w[i - 1] = q[i]
      BY <1>1, <1>2, <1>4, <2>3
    <3> QED
      BY <1>4, <2>1, <3>1 DEF IdsIn
  <2> QED
    BY <1>1, <1>2, <2>1, <2>2, <2>3
<1> QED
  BY <1>6, <1>8, <1>9, <1>10 DEF w, n

LEMMA SameKeeps ==
  ASSUME IInv
  PROVE  Kept(rooms, player, socketToPlayer, socketToSpectator)
  BY DEF IInv, Kept, TokensKept, GoneAway

LEMMA AddPlayerRoom ==
  ASSUME NEW r \in Room, NEW p \in Player
  PROVE  /\ AddPlayer(r, p) \in Room /\ AddPlayer(r, p).players = Append(r.players, p)
         /\ AddPlayer(r, p).max = r.max
<1>1. Append(r.players, p) \in Seq(Player)
  BY DEF Room
<1> QED
  BY <1>1 DEF AddPlayer, Room

LEMMA SetListedOnce ==
  ASSUME NEW R \in [Code -> Room \cup {None}], ListedOnce(R), NEW c \in Code, NEW q,
         \A i, j \in DOMAIN q.players : q.players[i] = q.players[j] => i = j,
         Len(q.players) <= q.max
  PROVE  ListedOnce([R EXCEPT ![c] = q])
<1> DEFINE R2 == [R EXCEPT ![c] = q]
<1>1. R2[c] = q /\ \A d \in Code \ {c} : R2[d] = R[d]
  OBVIOUS
<1> HIDE DEF R2
<1>2. ListedOnce(R2)
  <2> SUFFICES ASSUME NEW d \in Code, R2[d] # None
               PROVE  /\ \A i, j \in DOMAIN R2[d].players : R2[d].players[i] = R2[d].players[j] => i = j
                      /\ Len(R2[d].players) <= R2[d].max
    BY DEF ListedOnce
  <2>1. CASE d = c
    BY <1>1, <2>1
  <2>2. CASE d # c
    <3>1. R2[d] = R[d]
      BY <1>1, <2>2
    <3> QED
      BY <3>1 DEF ListedOnce
  <2> QED
    BY <2>1, <2>2
<1> QED
  BY <1>2 DEF R2

LEMMA EnterBody ==
  ASSUME IInv, NEW c \in Code, Exists(c), Len(rooms[c].players) < rooms[c].max,
         NEW s \in Socket, NEW fetch, Enter(c, s, Presence(c, fetch))
  PROVE  Body
<1>1. PICK p \in FreshPlayers, t \in FreshTokens :
        /\ rooms' = [rooms EXCEPT ![c] = Emit(AddPlayer(rooms[c], p))]
        /\ player' = Attach(Presence(c, fetch), p, s, t)
        /\ socketToPlayer' = Bind(Bindings(c), s, c, p, t)
        /\ socketToSpectator' = [socketToSpectator EXCEPT ![s] = None]
  BY DEF Enter, NoSpectator
<1> DEFINE r == rooms[c]
           q == Emit(AddPlayer(r, p))
<1>2. p \in Player /\ \A d \in Code : p \notin In(rooms, d)
  BY FreshFacts
<1>3. r \in Room
  BY RoomOf
<1>4. q \in Room /\ q.players = Append(r.players, p) /\ q.max = r.max
  BY <1>2, <1>3, AddPlayerRoom, EmitSame DEF SameList
<1>5. r.players \in Seq(Player) /\ r.max \in Nat /\ Len(r.players) < r.max
  BY <1>3 DEF Room
<1>6. rooms \in [Code -> Room \cup {None}] /\ rooms' = [rooms EXCEPT ![c] = q] /\ q # None
  BY <1>1, <1>4, NoneAssumption DEF IInv, Good, Typed
<1>7. In(rooms, c) = IdsIn(r.players)
  BY DEF In, Exists
<1>8. \A i, j \in DOMAIN r.players : r.players[i] = r.players[j] => i = j
  BY DEF IInv, Good, ListedOnce, Exists
<1>9. /\ Len(Append(r.players, p)) = Len(r.players) + 1
      /\ IdsIn(Append(r.players, p)) = IdsIn(r.players) \cup {p}
      /\ \A i, j \in DOMAIN Append(r.players, p) :
           Append(r.players, p)[i] = Append(r.players, p)[j] => i = j
  BY <1>2, <1>5, <1>7, <1>8, AppendOnce
<1> HIDE DEF q, r
<1>10. Len(q.players) <= q.max
  BY <1>4, <1>5, <1>9
<1>11. ListedOnce(rooms')
  <2>1. \A i, j \in DOMAIN q.players : q.players[i] = q.players[j] => i = j
    BY <1>4, <1>9
  <2> QED
    BY <1>6, <1>10, <2>1, SetListedOnce DEF IInv, Good
<1>12. rooms' \in [Code -> Room \cup {None}]
  BY <1>4, <1>6
<1>13. In(rooms', c) = In(rooms, c) \cup {p}
  BY <1>4, <1>6, <1>7, <1>9 DEF In
<1>14. \A d \in Code : /\ d # c => In(rooms', d) = In(rooms, d) /\ p \notin In(rooms, d)
                       /\ rooms[d] # None => rooms'[d] # None
  BY <1>2, <1>6 DEF In
<1>15. Kept(rooms, Presence(c, fetch), Bindings(c), socketToSpectator)
  BY RefreshKeeps
<1>16. \A x \in Player : Presence(c, fetch)[x].token = player[x].token
  BY PresenceKeeps DEF IInv
<1>17. \A x \in Socket : Bindings(c)[x] # None => Bindings(c)[x].player # p
  BY <1>2, <1>15, RefFields DEF Kept, Good, Typed, BoundAsPlayer
<1> QED
  BY <1>1, <1>2, <1>11, <1>12, <1>13, <1>14, <1>15, <1>16, <1>17, AttachKeeps DEF Body

LEMMA OpenBody ==
  ASSUME IInv, NEW s \in Socket, NEW c \in FreshCodes, NEW p \in FreshPlayers, NEW t \in FreshTokens,
         NEW r \in Room, r.players = <<p>>, r.max >= 1,
         rooms' = [rooms EXCEPT ![c] = Emit(r)], player' = Attach(player, p, s, t),
         socketToPlayer' = Bind(socketToPlayer, s, c, p, t), NoSpectator(s)
  PROVE  Body
<1> DEFINE q == Emit(r)
<1>1. p \in Player /\ (\A d \in Code : p \notin In(rooms, d)) /\ c \in Code /\ rooms[c] = None
  BY FreshFacts
<1>2. q \in Room /\ q.players = <<p>> /\ q.max >= 1
  BY EmitSame DEF SameList
<1>3. rooms \in [Code -> Room \cup {None}] /\ rooms' = [rooms EXCEPT ![c] = q] /\ q # None
  BY <1>2, NoneAssumption DEF IInv, Good, Typed
<1> HIDE DEF q
<1>4. ListedOnce(rooms')
  <2>1. Len(<<p>>) = 1 /\ DOMAIN <<p>> = {1}
    OBVIOUS
  <2>2. Len(q.players) <= q.max
    <3>1. Len(q.players) = 1
      BY <1>2, <2>1
    <3> QED
      BY <1>2, <3>1 DEF Room
  <2>3. \A i, j \in DOMAIN q.players : q.players[i] = q.players[j] => i = j
    <3>1. DOMAIN q.players = {1}
      BY <1>2, <2>1, Zenon
    <3> QED
      BY <3>1
  <2>4. ListedOnce(rooms) /\ rooms \in [Code -> Room \cup {None}] /\ c \in Code
    BY <1>1, <1>3 DEF IInv, Good
  <2>5. ListedOnce([rooms EXCEPT ![c] = q])
    BY <2>2, <2>3, <2>4, SetListedOnce
  <2> QED
    BY <1>3, <2>5
<1>5. rooms' \in [Code -> Room \cup {None}]
  BY <1>2, <1>3
<1>6. In(rooms, c) = {} /\ In(rooms', c) = {p}
  BY <1>1, <1>2, <1>3 DEF In, IdsIn
<1>7. \A d \in Code : /\ d # c => In(rooms', d) = In(rooms, d) /\ p \notin In(rooms, d)
                      /\ rooms[d] # None => rooms'[d] # None
  BY <1>1, <1>3 DEF In
<1>8. Kept(rooms, player, socketToPlayer, socketToSpectator)
  BY SameKeeps
<1>9. \A x \in Socket : socketToPlayer[x] # None => socketToPlayer[x].player # p
  BY <1>1, RefFields DEF IInv, Good, Typed, BoundAsPlayer
<1>10. In(rooms', c) = In(rooms, c) \cup {p}
  BY <1>6
<1> QED
  BY <1>1, <1>4, <1>5, <1>7, <1>8, <1>9, <1>10, AttachKeeps DEF Body, NoSpectator

LEMMA NewRoomRoom ==
  ASSUME NEW p \in Player, NEW mode \in {"casual", "contest"}, NEW event \in BOOLEAN, NEW max \in Nat
  PROVE  NewRoom(p, mode, event, max) \in Room /\ NewRoom(p, mode, event, max).players = <<p>>
         /\ NewRoom(p, mode, event, max).max = max
<1>1. <<p>> \in Seq(Player)
  OBVIOUS
<1> QED
  BY <1>1 DEF NewRoom, Room

LEMMA SoloRoomRoom ==
  ASSUME NEW p \in Player
  PROVE  SoloRoom(p) \in Room /\ SoloRoom(p).players = <<p>> /\ SoloRoom(p).max = 1
<1> DEFINE r == NewRoom(p, "casual", FALSE, 1)
<1>1. r \in Room /\ r.players = <<p>> /\ r.max = 1
  BY NewRoomRoom
<1> HIDE DEF r
<1>2. SoloRoom(p) = [r EXCEPT !.status = "playing"]
  BY DEF SoloRoom, r
<1> QED
  BY <1>1, <1>2 DEF Room

LEMMA RemoveKeeps ==
  ASSUME NEW R, NEW P, NEW B, NEW V, Kept(R, P, B, V), live \subseteq Socket,
         NEW c \in Code, NEW p \in In(R, c), NEW r \in Room,
         r.players = Without(R[c].players, p), r.max = R[c].max,
         NEW B2 \in [Socket -> Ref \cup {None}], NEW V2 \in [Socket -> Code \cup {None}],
         \A s \in Socket : B2[s] \in {B[s], None} /\ V2[s] \in {V[s], None},
         \A s \in Socket : B2[s] # None => B2[s].player # p
  PROVE  Kept([R EXCEPT ![c] = r], Forget(P, {p}), B2, V2)
<1> DEFINE R2 == [R EXCEPT ![c] = r]
           P2 == Forget(P, {p})
<1>1. /\ R \in [Code -> Room \cup {None}] /\ P \in [Player -> PlayerState]
      /\ R[c] # None /\ R[c] \in Room /\ p \in Player
  BY InPlayer DEF Kept, Good, Typed, In
<1>2. R[c].players \in Seq(Player) /\ R[c].max \in Nat /\ In(R, c) = IdsIn(R[c].players)
  BY <1>1 DEF Room, In
<1>3. \A i, j \in DOMAIN R[c].players : R[c].players[i] = R[c].players[j] => i = j
  BY <1>1 DEF Kept, Good, ListedOnce
<1>4. /\ Len(r.players) = Len(R[c].players) - 1 /\ IdsIn(r.players) = In(R, c) \ {p}
      /\ \A i, j \in DOMAIN r.players : r.players[i] = r.players[j] => i = j
  BY <1>2, <1>3, WithoutOnce
<1>5. Len(R[c].players) <= R[c].max
  BY <1>1 DEF Kept, Good, ListedOnce
<1>6. Len(r.players) <= r.max
  BY <1>2, <1>4, <1>5
<1>7. ListedOnce(R2)
  BY <1>1, <1>4, <1>6, SetListedOnce DEF Kept, Good
<1>8. /\ \A d \in Code : In(R2, d) = IF d = c THEN In(R, c) \ {p} ELSE In(R, d)
      /\ \A d \in Code : R[d] # None => R2[d] # None
  <2>1. \A d \in Code : In(R2, d) = IF d = c THEN IdsIn(r.players) ELSE In(R, d)
    BY <1>1, SetIn
  <2>2. r # None
    BY NoneAssumption
  <2> QED
    BY <1>1, <1>4, <2>1, <2>2
<1>9. \A d \in Code : In(R, d) \subseteq Player
  BY <1>1, InPlayer
<1>10. \A q \in Player : P2[q] = IF q = p THEN Blank ELSE P[q]
  BY DEF Forget
<1>11. Blank \in PlayerState /\ Blank.token = None
  BY DEF Blank, PlayerState
<1>12. P2 \in [Player -> PlayerState]
  BY <1>1, <1>11 DEF Forget
<1>13. R2 \in [Code -> Room \cup {None}]
  BY <1>1
<1> HIDE DEF R2, P2
<1>14. \A d \in Code : \A q \in In(R2, d) : q \in In(R, d) /\ q # p /\ q \in Player /\ P2[q] = P[q]
  BY <1>1, <1>8, <1>9, <1>10 DEF Kept, Good, InOneRoom
<1>15. Typed(R2, P2, B2, V2)
  BY <1>12, <1>13 DEF Typed
<1>16. InOneRoom(R2)
  BY <1>14 DEF Kept, Good, InOneRoom
<1>17. OwnToken(R2, P2)
  BY <1>10, <1>11, <1>14 DEF Kept, Good, OwnToken
<1>18. BoundAsPlayer(R2, P2, B2)
  <2> SUFFICES ASSUME NEW s \in Socket, B2[s] # None
               PROVE  /\ B2[s].player \in In(R2, B2[s].code)
                      /\ P2[B2[s].player].token = B2[s].token /\ P2[B2[s].player].socket = s
    BY DEF BoundAsPlayer
  <2>1. B2[s] = B[s] /\ B[s] # None /\ B[s] \in Ref /\ B[s].player # p
    BY DEF Kept, Good, Typed
  <2>2. /\ B[s].code \in Code /\ B[s].player \in In(R, B[s].code)
        /\ P[B[s].player].token = B[s].token /\ P[B[s].player].socket = s
    BY <2>1, RefFields DEF Kept, Good, BoundAsPlayer
  <2>3. B[s].player \in In(R2, B[s].code)
    BY <1>8, <2>1, <2>2
  <2> QED
    BY <1>14, <2>1, <2>2, <2>3
<1>19. Watching(R2, B2, V2)
  BY <1>8 DEF Kept, Good, Typed, Watching
<1>20. Good(R2, P2, B2, V2)
  BY <1>7, <1>15, <1>16, <1>17, <1>18, <1>19 DEF Good
<1>21. TokensKept(P2)
  BY <1>10, <1>11 DEF Kept, TokensKept
<1>22. GoneAway(P2, B2)
  <2> SUFFICES ASSUME NEW q \in Player, player[q].connected, ~P2[q].connected,
                      NEW s \in live, B2[s] # None
               PROVE  B2[s].token # P2[q].token
    BY DEF GoneAway
  <2>1. s \in Socket /\ B2[s] = B[s] /\ B[s] \in Ref
    BY DEF Kept, Good, Typed
  <2>2. B2[s].token # None
    BY <2>1, RefFields
  <2> QED
    BY <1>10, <1>11, <2>1, <2>2 DEF Kept, GoneAway
<1>23. Kept(R2, P2, B2, V2)
  BY <1>20, <1>21, <1>22 DEF Kept
<1> QED
  BY <1>23 DEF R2, P2

LEMMA HeadRequest ==
  ASSUME IInv, NEW k \in Keys, queue[k] # <<>>
  PROVE  /\ Head(queue[k]) \in Request /\ Head(queue[k]).socket \in Socket
         /\ 1 \in DOMAIN queue[k] /\ Head(queue[k]) = queue[k][1]
<1>1. queue[k] \in Seq(Request)
  BY DEF IInv
<1>2. Head(queue[k]) \in Request /\ 1 \in DOMAIN queue[k] /\ Head(queue[k]) = queue[k][1]
  BY <1>1
<1> QED
  BY <1>2 DEF Request

LEMMA KeysAre == Code \subseteq Keys /\ CreateKey \in Keys /\ EventKey \in Keys
  BY DEF Keys

LEMMA RoomJoinBody ==
  ASSUME IInv, NEW c \in Code, RoomJoin(c)
  PROVE  Turn(c) /\ Body
<1>1. PICK fetch \in Fetches :
        IF Exists(c) /\ Joinable(rooms[c])
        THEN Enter(c, Head(queue[c]).socket, Presence(c, fetch))
        ELSE /\ player' = Presence(c, fetch) /\ socketToPlayer' = Bindings(c)
             /\ UNCHANGED <<rooms, socketToSpectator>>
  BY DEF RoomJoin
<1>2. Turn(c) /\ Head(queue[c]).socket \in Socket
  BY HeadRequest, KeysAre DEF RoomJoin, Turn, Serving
<1>3. CASE Exists(c) /\ Joinable(rooms[c])
  BY <1>1, <1>2, <1>3, EnterBody DEF Joinable
<1>4. CASE ~(Exists(c) /\ Joinable(rooms[c]))
  <2>1. /\ player' = Presence(c, fetch) /\ socketToPlayer' = Bindings(c)
        /\ rooms' = rooms /\ socketToSpectator' = socketToSpectator
    BY <1>1, <1>4
  <2> QED
    BY <1>2, <2>1, RefreshKeeps DEF Body
<1> QED
  BY <1>2, <1>3, <1>4

LEMMA RoomCreateBody ==
  ASSUME IInv, RoomCreate
  PROVE  Turn(CreateKey) /\ Body
<1> DEFINE s == Head(queue[CreateKey]).socket
<1>1. Turn(CreateKey) /\ s \in Socket
  BY HeadRequest, KeysAre DEF RoomCreate, Turn, Serving
<1>2. \/ UNCHANGED <<rooms, player, socketToPlayer, socketToSpectator>>
      \/ \E c \in FreshCodes, p \in FreshPlayers, t \in FreshTokens :
           /\ rooms' = [rooms EXCEPT ![c] = Emit(NewRoom(p, "casual", FALSE, MaxPlayersPerRoom))]
           /\ player' = Attach(player, p, s, t)
           /\ socketToPlayer' = Bind(socketToPlayer, s, c, p, t)
           /\ NoSpectator(s)
  BY DEF RoomCreate, Open
<1>3. MaxPlayersPerRoom \in Nat /\ MaxPlayersPerRoom >= 1
  BY ConstantsAssumption
<1>4. CASE UNCHANGED <<rooms, player, socketToPlayer, socketToSpectator>>
  <2>1. /\ rooms' = rooms /\ player' = player
        /\ socketToPlayer' = socketToPlayer /\ socketToSpectator' = socketToSpectator
    BY <1>4
  <2> QED
    BY <1>1, <2>1, SameKeeps DEF Body
<1>5. ASSUME NEW c \in FreshCodes, NEW p \in FreshPlayers, NEW t \in FreshTokens,
             rooms' = [rooms EXCEPT ![c] = Emit(NewRoom(p, "casual", FALSE, MaxPlayersPerRoom))],
             player' = Attach(player, p, s, t), socketToPlayer' = Bind(socketToPlayer, s, c, p, t),
             NoSpectator(s)
      PROVE  Body
  <2> DEFINE r == NewRoom(p, "casual", FALSE, MaxPlayersPerRoom)
  <2>1. p \in Player
    BY FreshFacts
  <2>2. r \in Room /\ r.players = <<p>> /\ r.max >= 1
    BY <1>3, <2>1, NewRoomRoom
  <2> HIDE DEF s
  <2> QED
    BY <1>1, <1>5, <2>2, OpenBody
<1> QED
  BY <1>1, <1>2, <1>4, <1>5

LEMMA EventRegisterBody ==
  ASSUME IInv, EventRegister
  PROVE  Turn(EventKey) /\ Body
<1> DEFINE s == Head(queue[EventKey]).socket
           Opened(r(_)) == \E c \in FreshCodes, p \in FreshPlayers, t \in FreshTokens :
                             /\ rooms' = [rooms EXCEPT ![c] = Emit(r(p))]
                             /\ player' = Attach(player, p, s, t)
                             /\ socketToPlayer' = Bind(socketToPlayer, s, c, p, t)
                             /\ NoSpectator(s)
           Invite(p) == NewRoom(p, "contest", TRUE, MaxContestPlayersPerRoom)
           OpenTo(p) == NewRoom(p, "casual", TRUE, 1)
<1>1. Turn(EventKey) /\ s \in Socket
  BY HeadRequest, KeysAre DEF EventRegister, Turn, Serving
<1>2. \/ UNCHANGED <<rooms, player, socketToPlayer, socketToSpectator>>
      \/ Opened(SoloRoom) \/ Opened(Invite) \/ Opened(OpenTo)
      \/ \E c \in Reusable, fetch \in Fetches : Enter(c, s, Presence(c, fetch))
  BY DEF EventRegister, Open
<1>3. MaxContestPlayersPerRoom \in Nat /\ MaxContestPlayersPerRoom >= 1
  BY ConstantsAssumption
<1>4. CASE UNCHANGED <<rooms, player, socketToPlayer, socketToSpectator>>
  <2>1. /\ rooms' = rooms /\ player' = player
        /\ socketToPlayer' = socketToPlayer /\ socketToSpectator' = socketToSpectator
    BY <1>4
  <2> QED
    BY <1>1, <2>1, SameKeeps DEF Body
<1>5. ASSUME NEW c \in FreshCodes, NEW p \in FreshPlayers, NEW t \in FreshTokens,
             NEW r \in {SoloRoom(p), Invite(p), OpenTo(p)}, rooms' = [rooms EXCEPT ![c] = Emit(r)],
             player' = Attach(player, p, s, t), socketToPlayer' = Bind(socketToPlayer, s, c, p, t),
             NoSpectator(s)
      PROVE  Body
  <2>1. p \in Player
    BY FreshFacts
  <2>2. SoloRoom(p) \in Room /\ SoloRoom(p).players = <<p>> /\ SoloRoom(p).max >= 1
    BY <2>1, SoloRoomRoom
  <2>3. \A max \in Nat, mode \in {"casual", "contest"} :
          /\ NewRoom(p, mode, TRUE, max) \in Room /\ NewRoom(p, mode, TRUE, max).players = <<p>>
          /\ NewRoom(p, mode, TRUE, max).max = max
    BY <2>1, NewRoomRoom
  <2>4. r \in Room /\ r.players = <<p>> /\ r.max >= 1
    <3>1. CASE r = Invite(p)
      BY <1>3, <2>3, <3>1
    <3>2. CASE r = OpenTo(p)
      <4> DEFINE q == NewRoom(p, "casual", TRUE, 1)
      <4>1. q \in Room /\ q.players = <<p>> /\ q.max = 1
        BY <2>1, NewRoomRoom
      <4>2. r = q
        BY <3>2
      <4> HIDE DEF q
      <4> QED
        BY <4>1, <4>2
    <3>3. CASE r = SoloRoom(p)
      BY <2>2, <3>3
    <3> HIDE DEF Invite, OpenTo
    <3> QED
      BY <3>1, <3>2, <3>3
  <2> HIDE DEF s, Invite, OpenTo
  <2> QED
    BY <1>1, <1>5, <2>4, OpenBody
<1>6. ASSUME NEW c \in Reusable, NEW fetch \in Fetches, Enter(c, s, Presence(c, fetch))
      PROVE  Body
  <2>1. c \in Code /\ Exists(c) /\ Len(rooms[c].players) < rooms[c].max
    BY DEF Reusable, ActiveRooms
  <2> HIDE DEF s
  <2> QED
    BY <1>1, <1>6, <2>1, EnterBody
<1>7. CASE Opened(SoloRoom)
  BY <1>1, <1>5, <1>7
<1>8. CASE Opened(Invite)
  BY <1>1, <1>5, <1>8
<1>9. CASE Opened(OpenTo)
  BY <1>1, <1>5, <1>9
<1> HIDE DEF s, Opened, Invite, OpenTo
<1> QED
  BY <1>1, <1>2, <1>4, <1>6, <1>7, <1>8, <1>9

LEMMA EventSpectateBody ==
  ASSUME IInv, EventSpectate
  PROVE  Turn(EventKey) /\ Body
<1> DEFINE s == Head(queue[EventKey]).socket
<1>1. Turn(EventKey) /\ s \in Socket
  BY HeadRequest, KeysAre DEF EventSpectate, Turn, Serving
<1>2. CASE SpectatedRooms = {}
  <2>1. /\ rooms' = rooms /\ player' = player
        /\ socketToPlayer' = socketToPlayer /\ socketToSpectator' = socketToSpectator
    BY <1>2 DEF EventSpectate
  <2> QED
    BY <1>1, <2>1, SameKeeps DEF Body
<1>3. CASE SpectatedRooms # {}
  <2>1. PICK c \in SpectatedRooms, fetch \in Fetches :
          /\ player' = Presence(c, fetch)
          /\ socketToPlayer' = [Bindings(c) EXCEPT ![s] = None]
          /\ socketToSpectator' = [socketToSpectator EXCEPT ![s] = c]
    BY <1>3 DEF EventSpectate
  <2>2. c \in Code /\ Exists(c)
    BY DEF SpectatedRooms, LatestEventRooms
  <2> DEFINE P == Presence(c, fetch)
             B2 == [Bindings(c) EXCEPT ![s] = None]
             V2 == [socketToSpectator EXCEPT ![s] = c]
  <2>3. Kept(rooms, P, Bindings(c), socketToSpectator)
    BY <2>2, RefreshKeeps
  <2>4. Bindings(c) \in [Socket -> Ref \cup {None}] /\ socketToSpectator \in [Socket -> Code \cup {None}]
    BY <2>3 DEF Kept, Good, Typed
  <2>5. /\ B2 \in [Socket -> Ref \cup {None}] /\ B2[s] = None
        /\ \A x \in Socket : B2[x] \in {Bindings(c)[x], None}
        /\ V2 \in [Socket -> Code \cup {None}] /\ V2[s] = c
        /\ \A x \in Socket \ {s} : V2[x] = socketToSpectator[x]
    BY <1>1, <2>2, <2>4
  <2>6. live \subseteq Socket
    BY DEF IInv
  <2> HIDE DEF s, P, B2, V2
  <2>7. Kept(rooms, P, B2, socketToSpectator)
    BY <2>3, <2>4, <2>5, <2>6, CutKeeps
  <2>8. Watching(rooms, B2, V2)
    BY <2>2, <2>5, <2>7 DEF Kept, Good, Watching, Exists
  <2>9. Kept(rooms, P, B2, V2)
    BY <2>5, <2>7, <2>8 DEF Kept, Good, Typed
  <2>10. rooms' = rooms
    BY DEF EventSpectate
  <2> QED
    BY <1>1, <2>1, <2>9, <2>10 DEF Body, P, B2, V2
<1> QED
  BY <1>2, <1>3

LEMMA RoomRejoinBody ==
  ASSUME IInv, NEW c \in Code, RoomRejoin(c)
  PROVE  Turn(c) /\ Body
<1> DEFINE p == Head(queue[c]).target
           s == Head(queue[c]).socket
<1>1. Turn(c) /\ s \in Socket
  BY HeadRequest, KeysAre DEF RoomRejoin, Turn, Serving
<1>2. PICK fetch \in Fetches :
        LET P == Presence(c, fetch)
            B == [x \in Socket |-> IF x # s /\ BoundTo(x, c)
                                       /\ (socketToPlayer[x].player = p \/ x = P[p].socket)
                                   THEN None ELSE Bindings(c)[x]]
        IN IF p \notin Members(c) \/ rooms[c].event
           THEN /\ player' = P /\ socketToPlayer' = Bindings(c)
                /\ UNCHANGED <<rooms, socketToSpectator>>
           ELSE \E t \in FreshTokens :
                /\ player' = Attach(P, p, s, t)
                /\ socketToPlayer' = Bind(B, s, c, p, t)
                /\ socketToSpectator' =
                     [x \in Socket |-> IF x = s \/ (x = P[p].socket /\ socketToSpectator[x] = c)
                                       THEN None ELSE socketToSpectator[x]]
                /\ rooms' = [rooms EXCEPT ![c] = Emit(Touch(@))]
  BY DEF RoomRejoin
<1> DEFINE P == Presence(c, fetch)
           B == [x \in Socket |-> IF x # s /\ BoundTo(x, c)
                                       /\ (socketToPlayer[x].player = p \/ x = P[p].socket)
                                   THEN None ELSE Bindings(c)[x]]
<1>3. Kept(rooms, P, Bindings(c), socketToSpectator)
  BY RefreshKeeps
<1>4. CASE p \notin Members(c) \/ rooms[c].event
  <2>1. /\ player' = P /\ socketToPlayer' = Bindings(c)
        /\ rooms' = rooms /\ socketToSpectator' = socketToSpectator
    BY <1>2, <1>4
  <2> QED
    BY <1>1, <1>3, <2>1 DEF Body
<1>5. CASE ~(p \notin Members(c) \/ rooms[c].event)
  <2> DEFINE V == [x \in Socket |-> IF x = s \/ (x = P[p].socket /\ socketToSpectator[x] = c)
                                    THEN None ELSE socketToSpectator[x]]
  <2>1. PICK t \in FreshTokens :
          /\ player' = Attach(P, p, s, t) /\ socketToPlayer' = Bind(B, s, c, p, t)
          /\ socketToSpectator' = V
          /\ rooms' = [rooms EXCEPT ![c] = Emit(Touch(@))]
    BY <1>2, <1>5
  <2>2. p \in In(rooms, c) /\ p \in Player /\ rooms[c] # None
    BY <1>5, MembersIn, InPlayer DEF IInv, Good, Typed, In
  <2>3. /\ Bindings(c) \in [Socket -> Ref \cup {None}]
        /\ socketToSpectator \in [Socket -> Code \cup {None}] /\ live \subseteq Socket
    BY <1>3 DEF Kept, Good, Typed, IInv
  <2>4. /\ B \in [Socket -> Ref \cup {None}] /\ \A x \in Socket : B[x] \in {Bindings(c)[x], None}
        /\ V \in [Socket -> Code \cup {None}] /\ \A x \in Socket : V[x] \in {socketToSpectator[x], None}
        /\ V[s] = None
    BY <1>1, <2>3
  <2>5. ASSUME NEW x \in Socket \ {s}, B[x] # None PROVE B[x].player # p
    <3>1. B[x] = Bindings(c)[x] /\ ~(BoundTo(x, c) /\ socketToPlayer[x].player = p)
      BY <2>5
    <3>2. B[x] = socketToPlayer[x] /\ socketToPlayer[x] # None /\ socketToPlayer[x] \in Ref
      BY <2>5, <3>1, BindingsKeep DEF IInv, Good, Typed
    <3>3. socketToPlayer[x].code \in Code /\ socketToPlayer[x].player \in In(rooms, socketToPlayer[x].code)
      BY <3>2, RefFields DEF IInv, Good, BoundAsPlayer
    <3> QED
      BY <2>2, <3>1, <3>2, <3>3 DEF BoundTo, IInv, Good, InOneRoom
  <2>6. \A x \in Player : P[x].token = player[x].token
    BY PresenceKeeps DEF IInv
  <2> HIDE DEF P, B, V, p, s
  <2>7. Kept(rooms, P, B, V)
    BY <1>3, <2>3, <2>4, CutKeeps
  <2>8. [V EXCEPT ![s] = None] = V
    BY <1>1, <2>4
  <2>9. /\ rooms \in [Code -> Room \cup {None}] /\ ListedOnce(rooms)
        /\ \A d \in Code : d # c => p \notin In(rooms, d)
        /\ In(rooms, c) = In(rooms, c) \cup {p}
    BY <2>2 DEF IInv, Good, Typed, InOneRoom
  <2>10. Kept(rooms, Attach(P, p, s, t), Bind(B, s, c, p, t), [V EXCEPT ![s] = None])
    BY <1>1, <2>2, <2>5, <2>6, <2>7, <2>9, AttachKeeps
  <2>11. SameList(Emit(Touch(rooms[c])), rooms[c])
    BY <2>2, RoomOf, TouchSame, EmitSame DEF Exists, SameList
  <2>12. Kept(rooms', Attach(P, p, s, t), Bind(B, s, c, p, t), V)
    BY <2>1, <2>2, <2>8, <2>10, <2>11, SetRoomKeeps
  <2> QED
    BY <1>1, <2>1, <2>12 DEF Body
<1> QED
  BY <1>4, <1>5

(* A socket that carries a player's token is the player's socket.          *)
LEMMA CarriesToken ==
  ASSUME NEW R, NEW P, NEW B, NEW V, Good(R, P, B, V),
         NEW p \in Player, NEW s \in Socket, B[s] # None, B[s].token = P[p].token
  PROVE  P[p].socket = s
<1>1. B[s] \in Ref /\ B[s].player \in Player /\ B[s].token # None
  BY RefFields DEF Good, Typed
<1>2. P[B[s].player].token = B[s].token /\ P[B[s].player].socket = s
  BY DEF Good, BoundAsPlayer
<1> QED
  BY <1>1, <1>2 DEF Good, OwnToken

(* A player that leaves or loses its socket is marked away: the reference  *)
(* that waited still carries the token, so the socket it came from is the  *)
(* only one that does, and that socket has just been cut off.              *)
LEMMA AwayKeeps ==
  ASSUME IInv, NEW c \in Code, NEW fetch, queue[c] # <<>>,
         Head(queue[c]).op \in {"room:leave", "disconnect"}, Current(Head(queue[c]).ref, c)
  PROVE  LET p == Head(queue[c]).ref.player
             s == Head(queue[c]).socket
         IN /\ p \in Members(c) /\ p \in Player /\ s \in Socket
            /\ Kept(rooms, [Presence(c, fetch) EXCEPT ![p].connected = FALSE],
                    [Bindings(c) EXCEPT ![s] = None], socketToSpectator)
<1> DEFINE p == Head(queue[c]).ref.player
           s == Head(queue[c]).socket
           P == Presence(c, fetch)
           P2 == [P EXCEPT ![p].connected = FALSE]
           B2 == [Bindings(c) EXCEPT ![s] = None]
<1>1. /\ Head(queue[c]) \in Request /\ s \in Socket
      /\ 1 \in DOMAIN queue[c] /\ Head(queue[c]) = queue[c][1]
  BY HeadRequest, KeysAre
<1>2. p \in Members(c) /\ player[p].token = Head(queue[c]).ref.token
  BY DEF Current
<1>3. p \in Player
  BY <1>2, MembersIn, InPlayer DEF IInv, Good, Typed
<1>4. player[p].socket \in {s, None}
  BY <1>1, <1>2, <1>3, KeysAre DEF IInv, FromOwnSocket
<1>5. Kept(rooms, P, Bindings(c), socketToSpectator)
  BY RefreshKeeps
<1>6. /\ P \in [Player -> PlayerState] /\ Bindings(c) \in [Socket -> Ref \cup {None}]
      /\ socketToSpectator \in [Socket -> Code \cup {None}] /\ live \subseteq Socket
  BY <1>5 DEF Kept, Good, Typed, IInv
<1>7. P[p].socket \in {player[p].socket, None}
  BY <1>3, PresenceKeeps DEF IInv
<1> HIDE DEF p, s, P
<1>8. /\ P2 \in [Player -> PlayerState]
      /\ P2[p].token = P[p].token /\ P2[p].socket = P[p].socket
      /\ \A q \in Player \ {p} : P2[q] = P[q]
  BY <1>3, <1>6 DEF PlayerState
<1>9. /\ B2 \in [Socket -> Ref \cup {None}] /\ B2[s] = None
      /\ \A x \in Socket : B2[x] \in {Bindings(c)[x], None}
  BY <1>1, <1>6
<1> HIDE DEF P2, B2
<1>10. Kept(rooms, P, B2, socketToSpectator)
  BY <1>5, <1>6, <1>9, CutKeeps
<1>11. \A q \in Player : P2[q].token = P[q].token /\ P2[q].socket = P[q].socket
  BY <1>8
<1>12. Good(rooms, P2, B2, socketToSpectator)
  BY <1>8, <1>10, <1>11, MarkGood DEF Kept
<1>13. TokensKept(P2)
  BY <1>10, <1>11 DEF Kept, TokensKept
<1>14. GoneAway(P2, B2)
  <2> SUFFICES ASSUME NEW q \in Player, player[q].connected, ~P2[q].connected,
                      NEW x \in live, B2[x] # None, B2[x].token = P2[q].token
               PROVE  FALSE
    BY DEF GoneAway
  <2>1. x \in Socket
    BY <1>6
  <2>2. CASE q = p
    <3>1. P2[p].socket = x
      BY <1>12, <2>1, <2>2, CarriesToken
    <3>2. x = s
      BY <1>4, <1>7, <1>8, <2>1, <3>1, ConstantsAssumption
    <3> QED
      BY <1>9, <3>2
  <2>3. CASE q # p
    BY <1>8, <1>10, <2>3 DEF Kept, GoneAway
  <2> QED
    BY <2>2, <2>3
<1>15. Kept(rooms, P2, B2, socketToSpectator)
  BY <1>12, <1>13, <1>14 DEF Kept
<1> QED
  BY <1>1, <1>2, <1>3, <1>15 DEF p, s, P, P2, B2

LEMMA DeleteBody ==
  ASSUME IInv, NEW c \in Code, NEW P, NEW B, Kept(rooms, P, B, socketToSpectator), DeleteRoom(c, P, B)
  PROVE  Body
<1>1. live \subseteq Socket /\ Members(c) = In(rooms, c)
  BY MembersIn DEF IInv
<1>2. Kept([rooms EXCEPT ![c] = None], Forget(P, In(rooms, c)), Unbind(B, c), UnbindSpectators(c))
  BY <1>1, DeleteKeeps DEF UnbindSpectators
<1> QED
  BY <1>1, <1>2 DEF DeleteRoom, Body

LEMMA CutRefreshKeeps ==
  ASSUME IInv, NEW c \in Code, NEW fetch, NEW s \in Socket
  PROVE  Kept(rooms, Presence(c, fetch), [Bindings(c) EXCEPT ![s] = None], socketToSpectator)
<1> DEFINE P == Presence(c, fetch)
           B == [Bindings(c) EXCEPT ![s] = None]
<1>1. Kept(rooms, P, Bindings(c), socketToSpectator)
  BY RefreshKeeps
<1>2. /\ Bindings(c) \in [Socket -> Ref \cup {None}]
      /\ socketToSpectator \in [Socket -> Code \cup {None}] /\ live \subseteq Socket
  BY <1>1 DEF Kept, Good, Typed, IInv
<1>3. B \in [Socket -> Ref \cup {None}] /\ \A x \in Socket : B[x] \in {Bindings(c)[x], None}
  BY <1>2
<1> HIDE DEF P, B
<1>4. Kept(rooms, P, B, socketToSpectator)
  BY <1>1, <1>2, <1>3, CutKeeps
<1> QED
  BY <1>4 DEF P, B

LEMMA SocketDisconnectBody ==
  ASSUME IInv, NEW c \in Code, SocketDisconnect(c)
  PROVE  Turn(c) /\ Body
<1> DEFINE ref == Head(queue[c]).ref
           p == ref.player
           s == Head(queue[c]).socket
           B == [Bindings(c) EXCEPT ![s] = None]
<1>1. Turn(c) /\ Head(queue[c]).op = "disconnect" /\ s \in Socket /\ live \subseteq Socket
  BY HeadRequest, KeysAre DEF SocketDisconnect, Turn, Serving, IInv
<1>2. PICK fetch \in Fetches :
        IF ~Current(ref, c)
        THEN /\ player' = Presence(c, fetch) /\ socketToPlayer' = B
             /\ UNCHANGED <<rooms, socketToSpectator>>
        ELSE IF rooms[c].status = "lobby"
                /\ NoneConnected(c, [Presence(c, fetch) EXCEPT ![p].connected = FALSE])
        THEN DeleteRoom(c, [Presence(c, fetch) EXCEPT ![p].connected = FALSE], B)
        ELSE /\ rooms' = [rooms EXCEPT ![c] = Emit(Touch(@))]
             /\ player' = [Presence(c, fetch) EXCEPT ![p].connected = FALSE] /\ socketToPlayer' = B
             /\ UNCHANGED socketToSpectator
  BY DEF SocketDisconnect
<1> DEFINE P == Presence(c, fetch)
           Q == [P EXCEPT ![p].connected = FALSE]
<1>3. CASE ~Current(ref, c)
  <2>1. Kept(rooms, P, B, socketToSpectator)
    BY <1>1, CutRefreshKeeps
  <2>2. /\ player' = P /\ socketToPlayer' = B
        /\ rooms' = rooms /\ socketToSpectator' = socketToSpectator
    BY <1>2, <1>3
  <2> QED
    BY <1>1, <2>1, <2>2 DEF Body
<1>4. CASE Current(ref, c)
  <2>1. p \in Members(c) /\ Kept(rooms, Q, B, socketToSpectator)
    BY <1>1, <1>4, AwayKeeps DEF Turn
  <2>2. \/ DeleteRoom(c, Q, B)
        \/ /\ rooms' = [rooms EXCEPT ![c] = Emit(Touch(rooms[c]))]
           /\ player' = Q /\ socketToPlayer' = B /\ socketToSpectator' = socketToSpectator
    BY <1>2, <1>4
  <2>3. Exists(c) /\ rooms[c] # None
    BY <2>1 DEF Members, Exists
  <2> HIDE DEF Q, B
  <2>4. SameList(Emit(Touch(rooms[c])), rooms[c])
    BY <2>3, RoomOf, TouchSame, EmitSame DEF SameList
  <2>5. Kept([rooms EXCEPT ![c] = Emit(Touch(rooms[c]))], Q, B, socketToSpectator)
    BY <2>1, <2>3, <2>4, SetRoomKeeps
  <2> QED
    BY <1>1, <2>1, <2>2, <2>5, DeleteBody DEF Body
<1> QED
  BY <1>3, <1>4

LEMMA RemovePlayerRoom ==
  ASSUME NEW r \in Room, NEW p \in IdsIn(r.players),
         \A i, j \in DOMAIN r.players : r.players[i] = r.players[j] => i = j
  PROVE  /\ RemovePlayer(r, p) \in Room /\ RemovePlayer(r, p).players = Without(r.players, p)
         /\ RemovePlayer(r, p).max = r.max
<1>1. Without(r.players, p) \in Seq(Player)
  <2>1. r.players \in Seq(Player)
    BY DEF Room
  <2> QED
    BY <2>1, WithoutOnce
<1> QED
  BY <1>1 DEF RemovePlayer, Room

LEMMA PassHostRoom ==
  ASSUME NEW r \in Room, NEW p
  PROVE  SameList(PassHost(r, p), r)
<1>1. (IF r.host # p THEN r.host ELSE IF r.players = <<>> THEN None ELSE Head(r.players))
        \in Player \cup {None}
  <2>1. r.players \in Seq(Player) /\ r.host \in Player \cup {None}
    BY DEF Room
  <2>2. r.players # <<>> => Head(r.players) \in Player
    BY <2>1
  <2> QED
    BY <2>1, <2>2
<1> QED
  BY <1>1 DEF PassHost, Room, SameList

LEMMA MembersRoom ==
  ASSUME IInv, NEW c \in Code, NEW p \in Members(c)
  PROVE  /\ Exists(c) /\ rooms[c] # None /\ rooms[c] \in Room /\ p \in Player
         /\ p \in IdsIn(rooms[c].players) /\ p \in In(rooms, c)
         /\ \A i, j \in DOMAIN rooms[c].players : rooms[c].players[i] = rooms[c].players[j] => i = j
<1>1. Exists(c) /\ rooms[c] # None /\ p \in IdsIn(rooms[c].players) /\ p \in In(rooms, c)
  BY MembersIn DEF Members, Exists
<1>2. rooms[c] \in Room
  BY <1>1, RoomOf
<1> QED
  BY <1>1, <1>2, IdsAreMembers DEF IInv, Good, ListedOnce

LEMMA RoomLeaveBody ==
  ASSUME IInv, NEW c \in Code, RoomLeave(c)
  PROVE  Turn(c) /\ Body
<1> DEFINE ref == Head(queue[c]).ref
           p == ref.player
           s == Head(queue[c]).socket
           B == [Bindings(c) EXCEPT ![s] = None]
<1>1. Turn(c) /\ Head(queue[c]).op = "room:leave" /\ s \in Socket /\ live \subseteq Socket
  BY HeadRequest, KeysAre DEF RoomLeave, Turn, Serving, IInv
<1>2. PICK fetch \in Fetches :
        IF ~Current(ref, c)
        THEN /\ player' = Presence(c, fetch) /\ socketToPlayer' = B
             /\ UNCHANGED <<rooms, socketToSpectator>>
        ELSE \/ DeleteRoom(c, Presence(c, fetch), B)
             \/ /\ rooms' = [rooms EXCEPT ![c] = Emit(PassHost(RemovePlayer(@, p), p))]
                /\ player' = Forget(Presence(c, fetch), {p})
                /\ socketToPlayer' =
                     [x \in Socket |-> IF x = Presence(c, fetch)[p].socket THEN None ELSE B[x]]
                /\ UNCHANGED socketToSpectator
             \/ /\ rooms' = [rooms EXCEPT ![c] = Emit(Touch(@))]
                /\ player' = [Presence(c, fetch) EXCEPT ![p].connected = FALSE]
                /\ socketToPlayer' = B
                /\ UNCHANGED socketToSpectator
  BY DEF RoomLeave
<1> DEFINE P == Presence(c, fetch)
           Q == [P EXCEPT ![p].connected = FALSE]
           B2 == [x \in Socket |-> IF x = P[p].socket THEN None ELSE B[x]]
<1>3. Kept(rooms, P, B, socketToSpectator)
  BY <1>1, CutRefreshKeeps
<1>4. CASE ~Current(ref, c)
  <2>1. /\ player' = P /\ socketToPlayer' = B
        /\ rooms' = rooms /\ socketToSpectator' = socketToSpectator
    BY <1>2, <1>4
  <2> QED
    BY <1>1, <1>3, <2>1 DEF Body
<1>5. CASE Current(ref, c)
  <2>1. p \in Members(c) /\ Kept(rooms, Q, B, socketToSpectator)
    BY <1>1, <1>5, AwayKeeps DEF Turn
  <2>2. /\ Exists(c) /\ rooms[c] # None /\ rooms[c] \in Room /\ p \in Player
        /\ p \in IdsIn(rooms[c].players) /\ p \in In(rooms, c)
        /\ \A i, j \in DOMAIN rooms[c].players : rooms[c].players[i] = rooms[c].players[j] => i = j
    BY <2>1, MembersRoom
  <2>3. \/ DeleteRoom(c, P, B)
        \/ /\ rooms' = [rooms EXCEPT ![c] = Emit(PassHost(RemovePlayer(rooms[c], p), p))]
           /\ player' = Forget(P, {p})
           /\ socketToPlayer' = B2 /\ socketToSpectator' = socketToSpectator
        \/ /\ rooms' = [rooms EXCEPT ![c] = Emit(Touch(rooms[c]))]
           /\ player' = Q /\ socketToPlayer' = B /\ socketToSpectator' = socketToSpectator
    BY <1>2, <1>5
  <2> DEFINE r == Emit(PassHost(RemovePlayer(rooms[c], p), p))
  <2>4. r \in Room /\ r.players = Without(rooms[c].players, p) /\ r.max = rooms[c].max
    BY <2>2, RemovePlayerRoom, PassHostRoom, EmitSame DEF SameList
  <2>5. SameList(Emit(Touch(rooms[c])), rooms[c])
    BY <2>2, TouchSame, EmitSame DEF SameList
  <2>6. Kept([rooms EXCEPT ![c] = Emit(Touch(rooms[c]))], Q, B, socketToSpectator)
    BY <2>1, <2>2, <2>5, SetRoomKeeps
  <2>7. B \in [Socket -> Ref \cup {None}] /\ socketToSpectator \in [Socket -> Code \cup {None}]
    BY <1>3 DEF Kept, Good, Typed
  <2>8. B2 \in [Socket -> Ref \cup {None}] /\ \A x \in Socket : B2[x] \in {B[x], None}
    BY <2>7
  <2>9. ASSUME NEW x \in Socket, B2[x] # None PROVE B2[x].player # p
    BY <1>3, <2>9 DEF Kept, Good, BoundAsPlayer
  <2> HIDE DEF Q, B, P, B2, r, p
  <2>10. Kept([rooms EXCEPT ![c] = r], Forget(P, {p}), B2, socketToSpectator)
    BY <1>1, <1>3, <2>2, <2>4, <2>7, <2>8, <2>9, RemoveKeeps
  <2>11. CASE DeleteRoom(c, P, B)
    BY <1>1, <1>3, <2>11, DeleteBody
  <2>12. CASE /\ rooms' = [rooms EXCEPT ![c] = r] /\ player' = Forget(P, {p})
              /\ socketToPlayer' = B2 /\ socketToSpectator' = socketToSpectator
    BY <1>1, <2>10, <2>12 DEF Body
  <2>13. CASE /\ rooms' = [rooms EXCEPT ![c] = Emit(Touch(rooms[c]))]
              /\ player' = Q /\ socketToPlayer' = B /\ socketToSpectator' = socketToSpectator
    BY <1>1, <2>6, <2>13 DEF Body
  <2> QED
    BY <2>3, <2>11, <2>12, <2>13 DEF r
<1> QED
  BY <1>4, <1>5

LEMMA RoomKickBody ==
  ASSUME IInv, NEW c \in Code, RoomKick(c)
  PROVE  Turn(c) /\ Body
<1> DEFINE req == Head(queue[c])
           p == req.target
           s == req.socket
           B == Bindings(c)
<1>1. Turn(c) /\ s \in Socket /\ live \subseteq Socket
  BY HeadRequest, KeysAre DEF RoomKick, Turn, Serving, IInv
<1>2. PICK fetch \in Fetches :
        LET P == Presence(c, fetch)
            t == P[p].socket
        IN IF Exists(c) /\ Kickable(c, req)
           THEN /\ rooms' = [rooms EXCEPT ![c] = Emit(RemovePlayer(@, p))]
                /\ player' = Forget(P, {p})
                /\ socketToPlayer' =
                     [x \in Socket |-> IF x = t \/ (BoundTo(x, c) /\ socketToPlayer[x].player = p)
                                       THEN None ELSE B[x]]
                /\ socketToSpectator' =
                     [x \in Socket |-> IF x = t /\ socketToSpectator[x] = c THEN None
                                       ELSE socketToSpectator[x]]
           ELSE /\ player' = P
                /\ socketToPlayer' = IF Exists(c) /\ ~Current(req.ref, c)
                                     THEN [B EXCEPT ![s] = None] ELSE B
                /\ UNCHANGED <<rooms, socketToSpectator>>
  BY DEF RoomKick
<1> DEFINE P == Presence(c, fetch)
           t == P[p].socket
           B2 == [x \in Socket |-> IF x = t \/ (BoundTo(x, c) /\ socketToPlayer[x].player = p)
                                   THEN None ELSE B[x]]
           V2 == [x \in Socket |-> IF x = t /\ socketToSpectator[x] = c THEN None
                                   ELSE socketToSpectator[x]]
<1>3. Kept(rooms, P, B, socketToSpectator)
  BY RefreshKeeps
<1>4. Kept(rooms, P, [B EXCEPT ![s] = None], socketToSpectator)
  BY <1>1, CutRefreshKeeps
<1>5. CASE ~(Exists(c) /\ Kickable(c, req))
  <2>1. /\ player' = P /\ rooms' = rooms /\ socketToSpectator' = socketToSpectator
        /\ socketToPlayer' = B \/ socketToPlayer' = [B EXCEPT ![s] = None]
    BY <1>2, <1>5
  <2> HIDE DEF P, B
  <2> QED
    BY <1>1, <1>3, <1>4, <2>1 DEF Body
<1>6. CASE Exists(c) /\ Kickable(c, req)
  <2> DEFINE r == Emit(RemovePlayer(rooms[c], p))
  <2>1. p \in Members(c)
    BY <1>6 DEF Kickable
  <2>2. /\ rooms[c] # None /\ rooms[c] \in Room /\ p \in Player
        /\ p \in IdsIn(rooms[c].players) /\ p \in In(rooms, c)
        /\ \A i, j \in DOMAIN rooms[c].players : rooms[c].players[i] = rooms[c].players[j] => i = j
    BY <2>1, MembersRoom
  <2>3. /\ rooms' = [rooms EXCEPT ![c] = r] /\ player' = Forget(P, {p})
        /\ socketToPlayer' = B2 /\ socketToSpectator' = V2
    BY <1>2, <1>6
  <2>4. r \in Room /\ r.players = Without(rooms[c].players, p) /\ r.max = rooms[c].max
    BY <2>2, RemovePlayerRoom, EmitSame DEF SameList
  <2>5. B \in [Socket -> Ref \cup {None}] /\ socketToSpectator \in [Socket -> Code \cup {None}]
    BY <1>3 DEF Kept, Good, Typed
  <2>6. /\ B2 \in [Socket -> Ref \cup {None}] /\ V2 \in [Socket -> Code \cup {None}]
        /\ \A x \in Socket : B2[x] \in {B[x], None} /\ V2[x] \in {socketToSpectator[x], None}
    BY <2>5
  <2>7. ASSUME NEW x \in Socket, B2[x] # None PROVE B2[x].player # p
    <3>1. B2[x] = B[x] /\ x # t
      BY <2>7
    <3> QED
      BY <1>3, <2>7, <3>1 DEF Kept, Good, BoundAsPlayer
  <2> HIDE DEF P, B, B2, V2, r, p
  <2>8. Kept([rooms EXCEPT ![c] = r], Forget(P, {p}), B2, V2)
    BY <1>1, <1>3, <2>2, <2>4, <2>6, <2>7, RemoveKeeps
  <2> QED
    BY <1>1, <2>3, <2>8 DEF Body
<1> QED
  BY <1>5, <1>6

LEMMA AnswerSubmitBody ==
  ASSUME IInv, NEW c \in Code, AnswerSubmit(c)
  PROVE  Turn(c) /\ Body
<1> DEFINE ref == Head(queue[c]).ref
           r == rooms[c]
<1>1. Turn(c) /\ socketToPlayer' = Bindings(c) /\ socketToSpectator' = socketToSpectator
  BY DEF AnswerSubmit, Turn, Serving
<1>2. PICK fetch \in Fetches :
        \/ rooms' = rooms /\ player' = Presence(c, fetch)
        \/ /\ Current(ref, c)
           /\ rooms' = [rooms EXCEPT ![c] = Emit(Finish(r))] /\ player' = Presence(c, fetch)
        \/ /\ Current(ref, c) /\ rooms' = [rooms EXCEPT ![c] = Emit(Touch(r))]
           /\ player' = Seal(Presence(c, fetch), r, ref.player)
  BY DEF AnswerSubmit
<1>3. Kept(rooms, Presence(c, fetch), Bindings(c), socketToSpectator)
  BY RefreshKeeps
<1>4. CASE rooms' = rooms /\ player' = Presence(c, fetch)
  BY <1>1, <1>3, <1>4 DEF Body
<1>5. ASSUME Current(ref, c)
      PROVE  /\ r # None /\ ref.player \in Player
             /\ SameList(Emit(Finish(r)), r) /\ SameList(Emit(Touch(r)), r)
  <2>1. r # None /\ r \in Room /\ ref.player \in Player
    BY <1>5, MembersRoom DEF Current
  <2> QED
    BY <2>1, FinishSame, TouchSame, EmitSame DEF SameList
<1>6. CASE /\ Current(ref, c)
           /\ rooms' = [rooms EXCEPT ![c] = Emit(Finish(r))] /\ player' = Presence(c, fetch)
  BY <1>1, <1>3, <1>5, <1>6, SetRoomKeeps DEF Body
<1>7. CASE /\ Current(ref, c) /\ rooms' = [rooms EXCEPT ![c] = Emit(Touch(r))]
           /\ player' = Seal(Presence(c, fetch), r, ref.player)
  <2>1. Kept(rooms, player', Bindings(c), socketToSpectator)
    BY <1>3, <1>5, <1>7, SealKeeps
  <2> QED
    BY <1>1, <1>5, <1>7, <2>1, SetRoomKeeps DEF Body
<1> QED
  BY <1>2, <1>4, <1>6, <1>7

LEMMA MaintainBody ==
  ASSUME IInv, NEW c \in Code, NEW fetch \in Fetches, Maintain(c, fetch)
  PROVE  Body
<1> DEFINE P == Presence(c, fetch)
           r == Emit(rooms[c])
<1>1. /\ rooms[c] # None /\ SameList(r, rooms[c])
      /\ Kept(rooms, P, Bindings(c), socketToSpectator)
  BY RefreshKeeps, RoomOf, EmitSame DEF Maintain, Exists
<1>2. \/ DeleteRoom(c, P, Bindings(c))
      \/ /\ rooms' = [rooms EXCEPT ![c] = r] /\ player' = P
         /\ socketToPlayer' = Bindings(c) /\ socketToSpectator' = socketToSpectator
  BY DEF Maintain
<1> HIDE DEF P, r
<1>3. Kept([rooms EXCEPT ![c] = r], P, Bindings(c), socketToSpectator)
  BY <1>1, SetRoomKeeps
<1> QED
  BY <1>1, <1>2, <1>3, DeleteBody DEF Body

LEMMA AdminEndBody ==
  ASSUME IInv, NEW c \in Code, AdminEnd(c)
  PROVE  Body
<1>1. Exists(c) /\ rooms' = [rooms EXCEPT ![c] = End(rooms[c])]
      /\ (\E fetch : player' = Presence(c, fetch))
      /\ socketToPlayer' = Bindings(c) /\ socketToSpectator' = socketToSpectator
  BY DEF AdminEnd
<1>2. End(rooms[c]) \in Room /\ SameList(End(rooms[c]), rooms[c])
  BY <1>1, RoomOf, EndSame DEF SameList
<1> QED
  BY <1>1, <1>2, RefreshesBody DEF Refreshes

LEMMA ReadRoomBody ==
  ASSUME IInv, NEW c \in Code, ReadRoom(c)
  PROVE  Body
<1>1. Refreshes(c)
  BY DEF ReadRoom, Refreshes
<1> QED
  BY <1>1, RefreshesBody

LEMMA TickBody ==
  ASSUME IInv, Tick
  PROVE  Body
<1>1. /\ rooms' = [c \in Code |-> IF rooms[c] # None THEN Older(rooms[c]) ELSE None]
      /\ player' = player /\ socketToPlayer' = socketToPlayer
      /\ socketToSpectator' = socketToSpectator
  BY DEF Tick, Exists
<1>2. \A c \in Code : rooms[c] # None => SameList(rooms'[c], rooms[c]) /\ rooms'[c] # None
  BY <1>1, RoomOf, OlderSame, NoneAssumption DEF SameList, Exists
<1>3. \A c \in Code : rooms[c] = None => rooms'[c] = None
  BY <1>1
<1>4. \A c \in Code : In(rooms', c) = In(rooms, c)
  BY <1>2, <1>3 DEF In, SameList
<1>5. Typed(rooms', player, socketToPlayer, socketToSpectator)
  <2>1. rooms' \in [Code -> Room \cup {None}]
    BY <1>1, <1>2, <1>3 DEF SameList
  <2> QED
    BY <2>1 DEF IInv, Good, Typed
<1>6. ListedOnce(rooms')
  BY <1>2, <1>3 DEF SameList, IInv, Good, ListedOnce
<1>7. InOneRoom(rooms') /\ OwnToken(rooms', player)
  BY <1>4 DEF IInv, Good, InOneRoom, OwnToken
<1>8. BoundAsPlayer(rooms', player, socketToPlayer)
  BY <1>4, RefFields DEF IInv, Good, Typed, BoundAsPlayer
<1>9. Watching(rooms', socketToPlayer, socketToSpectator)
  BY <1>2, <1>3 DEF IInv, Good, Typed, Watching
<1>10. Good(rooms', player, socketToPlayer, socketToSpectator)
  BY <1>5, <1>6, <1>7, <1>8, <1>9 DEF Good
<1>11. TokensKept(player) /\ GoneAway(player, socketToPlayer)
  BY DEF TokensKept, GoneAway
<1> QED
  BY <1>1, <1>10, <1>11 DEF Body, Kept

LEMMA NobodyWaits ==
  ASSUME NEW Q, Q = [k \in Keys |-> <<>>], NEW P
  PROVE  Q \in [Keys -> Seq(Request)] /\ FromOwnSocket(Q, P)
<1>1. <<>> \in Seq(Request) /\ DOMAIN <<>> = {}
  OBVIOUS
<1>2. \A k \in Keys : Q[k] = <<>>
  OBVIOUS
<1>3. Q \in [Keys -> Seq(Request)]
  BY <1>1
<1>4. \A k \in Keys : DOMAIN Q[k] = {}
  BY <1>1, <1>2, Zenon
<1> QED
  BY <1>3, <1>4 DEF FromOwnSocket

LEMMA RestartBody ==
  ASSUME IInv, Restart
  PROVE  Body /\ IInv'
<1>1. /\ player' = [p \in Player |-> [player[p] EXCEPT !.socket = None, !.connected = FALSE]]
      /\ socketToPlayer' = [s \in Socket |-> None] /\ socketToSpectator' = [s \in Socket |-> None]
      /\ live' = {} /\ queue' = [k \in Keys |-> <<>>] /\ rooms' = rooms /\ phase' = phase
  BY DEF Restart
<1>2. player \in [Player -> PlayerState]
  BY DEF IInv, Good, Typed
<1>3. /\ player' \in [Player -> PlayerState]
      /\ \A p \in Player : player'[p].token = player[p].token /\ player'[p].socket = None
  BY <1>1, <1>2 DEF PlayerState
<1>4. \A c \in Code : In(rooms, c) \subseteq Player
  BY InPlayer DEF IInv, Good, Typed
<1>5. Good(rooms', player', socketToPlayer', socketToSpectator')
  <2>1. Typed(rooms', player', socketToPlayer', socketToSpectator')
    BY <1>1, <1>3 DEF IInv, Good, Typed
  <2>2. OwnToken(rooms', player')
    BY <1>1, <1>3, <1>4 DEF IInv, Good, OwnToken
  <2>3. BoundAsPlayer(rooms', player', socketToPlayer') /\ Watching(rooms', socketToPlayer', socketToSpectator')
    BY <1>1 DEF BoundAsPlayer, Watching
  <2> QED
    BY <1>1, <2>1, <2>2, <2>3 DEF IInv, Good
<1>6. TokensKept(player')
  BY <1>3 DEF TokensKept
<1>7. GoneAway(player', socketToPlayer')
  BY <1>1 DEF GoneAway, IInv
<1>8. queue' \in [Keys -> Seq(Request)] /\ FromOwnSocket(queue', player')
  BY <1>1, NobodyWaits
<1> QED
  BY <1>1, <1>5, <1>6, <1>7, <1>8 DEF Body, Kept, IInv
-----------------------------------------------------------------------------
(* Arrivals, and the contest answers, which wait for nobody.               *)

Unchanged == UNCHANGED <<rooms, player, socketToPlayer, socketToSpectator>>

LEMMA UnchangedBody == ASSUME IInv, Unchanged PROVE Body
<1>1. /\ rooms' = rooms /\ player' = player
      /\ socketToPlayer' = socketToPlayer /\ socketToSpectator' = socketToSpectator
  BY DEF Unchanged
<1> QED
  BY <1>1, SameKeeps DEF Body

LEMMA SamePlayers ==
  ASSUME NEW R, NEW B, NEW V, Good(R, player, B, V)
  PROVE  Kept(R, player, B, V)
  BY DEF Kept, TokensKept, GoneAway

LEMMA CutSocketKeeps ==
  ASSUME IInv, NEW s \in Socket
  PROVE  Kept(rooms, player, socketToPlayer, [socketToSpectator EXCEPT ![s] = None])
<1> DEFINE V == [socketToSpectator EXCEPT ![s] = None]
<1>1. /\ socketToPlayer \in [Socket -> Ref \cup {None}] /\ live \subseteq Socket
      /\ socketToSpectator \in [Socket -> Code \cup {None}]
  BY DEF IInv, Good, Typed
<1>2. V \in [Socket -> Code \cup {None}] /\ \A x \in Socket : V[x] \in {socketToSpectator[x], None}
  BY <1>1
<1> HIDE DEF V
<1>3. Kept(rooms, player, socketToPlayer, V)
  BY <1>1, <1>2, SameKeeps, CutKeeps
<1> QED
  BY <1>3 DEF V

LEMMA WaitsKeeps ==
  ASSUME IInv, NEW k \in Keys, NEW op \in Ops, NEW s \in Socket,
         NEW ref \in Ref \cup {None}, NEW target \in Player \cup {None},
         Enqueue(k, op, s, ref, target), player' = player, Body,
         op \in {"room:leave", "disconnect"} => ref = socketToPlayer[s] /\ ref # None,
         live' \subseteq Socket, phase' = phase
  PROVE  IInv'
<1>1. TokensKept(player)
  BY DEF Body, Kept
<1>2. FromOwnSocket(queue', player') /\ queue' \in [Keys -> Seq(Request)]
  BY <1>1, EnqueuedQueue
<1> QED
  BY <1>2 DEF IInv, Body, Kept

LEMMA BoundRef ==
  ASSUME IInv, NEW s \in Socket, socketToPlayer[s] # None
  PROVE  socketToPlayer[s] \in Ref /\ socketToPlayer[s].code \in Keys
<1>1. socketToPlayer[s] \in Ref
  BY DEF IInv, Good, Typed
<1> QED
  BY <1>1, RefFields, KeysAre

LEMMA LiveSocket == ASSUME IInv, NEW s \in live PROVE s \in Socket
  BY DEF IInv

(* The requests that only wait.                                            *)
LEMMA SendKeeps ==
  ASSUME IInv, NEW s \in Socket,
         \/ \E op \in PlayerOps : SendAsPlayer(s, op)
         \/ \E p \in Player : SendKick(s, p)
         \/ SendStartIfReleased(s) \/ SendCreate(s)
         \/ \E c \in Code : SendJoin(s, c) \/ \E p \in Player : SendRejoin(s, c, p)
         \/ \E op \in {"event:register", "event:spectate"} : SendEvent(s, op)
  PROVE  Body /\ IInv'
<1>1. Unchanged /\ live' = live /\ phase' = phase
  BY DEF Unchanged, SendAsPlayer, SendKick, SendStartIfReleased, SendCreate, SendJoin, SendRejoin, SendEvent
<1>2. Body /\ player' = player /\ live' \subseteq Socket
  BY <1>1, UnchangedBody DEF Unchanged, IInv
<1>3. ASSUME NEW k \in Keys, NEW op \in Ops, NEW ref \in Ref \cup {None}, NEW target \in Player \cup {None},
             Enqueue(k, op, s, ref, target),
             op \in {"room:leave", "disconnect"} => ref = socketToPlayer[s] /\ ref # None
      PROVE  Body /\ IInv'
  BY <1>1, <1>2, <1>3, WaitsKeeps
<1>4. ASSUME NEW op \in PlayerOps, SendAsPlayer(s, op) PROVE Body /\ IInv'
  <2>1. op \in Ops
    BY DEF Ops
  <2>2. socketToPlayer[s] # None /\ Enqueue(socketToPlayer[s].code, op, s, socketToPlayer[s], None)
    BY <1>4 DEF SendAsPlayer
  <2>3. socketToPlayer[s] \in Ref /\ socketToPlayer[s].code \in Keys
    BY <2>2, BoundRef
  <2> QED
    BY <1>3, <2>1, <2>2, <2>3
<1>5. ASSUME NEW p \in Player, SendKick(s, p) PROVE Body /\ IInv'
  <2>1. socketToPlayer[s] # None /\ Enqueue(socketToPlayer[s].code, "room:kick", s, socketToPlayer[s], p)
    BY <1>5 DEF SendKick
  <2>2. socketToPlayer[s] \in Ref /\ socketToPlayer[s].code \in Keys /\ "room:kick" \in Ops
    BY <2>1, BoundRef DEF Ops
  <2> QED
    BY <1>3, <2>1, <2>2
<1>6. ASSUME NEW k \in Keys, NEW op \in Ops \ {"room:leave", "disconnect"}, NEW target \in Player \cup {None},
             Enqueue(k, op, s, None, target)
      PROVE  Body /\ IInv'
  BY <1>3, <1>6
<1>7. ASSUME SendStartIfReleased(s) PROVE Body /\ IInv'
  <2>1. "room:start-if-released" \in Ops \ {"room:leave", "disconnect"}
    BY DEF Ops
  <2>2. PICK c \in Code : Enqueue(c, "room:start-if-released", s, None, None)
    BY <1>7 DEF SendStartIfReleased
  <2> QED
    BY <1>6, <2>1, <2>2, KeysAre
<1>8. ASSUME SendCreate(s) PROVE Body /\ IInv'
  <2>1. "room:create" \in Ops \ {"room:leave", "disconnect"}
    BY DEF Ops
  <2> QED
    BY <1>6, <1>8, <2>1, KeysAre DEF SendCreate
<1>9. ASSUME NEW c \in Code, SendJoin(s, c) PROVE Body /\ IInv'
  <2>1. "room:join" \in Ops \ {"room:leave", "disconnect"}
    BY DEF Ops
  <2> QED
    BY <1>6, <1>9, <2>1, KeysAre DEF SendJoin
<1>10. ASSUME NEW c \in Code, NEW p \in Player, SendRejoin(s, c, p) PROVE Body /\ IInv'
  <2>1. "room:rejoin" \in Ops \ {"room:leave", "disconnect"}
    BY DEF Ops
  <2> QED
    BY <1>6, <1>10, <2>1, KeysAre DEF SendRejoin
<1>11. ASSUME NEW op \in {"event:register", "event:spectate"}, SendEvent(s, op) PROVE Body /\ IInv'
  <2>1. op \in Ops \ {"room:leave", "disconnect"}
    BY DEF Ops
  <2> QED
    BY <1>6, <1>11, <2>1, KeysAre DEF SendEvent
<1> QED
  BY <1>4, <1>5, <1>7, <1>8, <1>9, <1>10, <1>11

LEMMA RebindKeeps ==
  ASSUME IInv, NEW s \in Socket, NEW ref \in SubmitterRefs(s), Rebind(s, ref)
  PROVE  ref \in Ref /\ Kept(rooms, player, socketToPlayer', socketToSpectator')
<1>1. /\ socketToPlayer \in [Socket -> Ref \cup {None}]
      /\ socketToSpectator \in [Socket -> Code \cup {None}]
  BY DEF IInv, Good, Typed
<1>2. CASE socketToPlayer[s] # None
  <2>1. ref = socketToPlayer[s] /\ ref \in Ref
    BY <1>1, <1>2 DEF SubmitterRefs
  <2>2. socketToPlayer' = socketToPlayer /\ socketToSpectator' = socketToSpectator
    BY <1>1, <1>2, <2>1 DEF Rebind
  <2> QED
    BY <2>1, <2>2, SameKeeps
<1>3. CASE socketToPlayer[s] = None
  <2>1. PICK c \in Code : \E p \in Members(c) :
          player[p].socket = s /\ ref = [code |-> c, player |-> p, token |-> player[p].token]
    BY <1>3 DEF SubmitterRefs
  <2>2. PICK p \in Members(c) :
          player[p].socket = s /\ ref = [code |-> c, player |-> p, token |-> player[p].token]
    BY <2>1
  <2>3. p \in In(rooms, c)
    BY MembersIn
  <2>4. ref \in Ref /\ Good(rooms, player, [socketToPlayer EXCEPT ![s] = ref],
                            [socketToSpectator EXCEPT ![s] = None])
    BY <1>3, <2>2, <2>3, RebindGood DEF IInv
  <2>5. /\ socketToPlayer' = [socketToPlayer EXCEPT ![s] = ref]
        /\ socketToSpectator' = [socketToSpectator EXCEPT ![s] = None]
    BY <1>3 DEF Rebind
  <2> QED
    BY <2>4, <2>5, SamePlayers
<1> QED
  BY <1>2, <1>3

LEMMA SendAnswerKeeps ==
  ASSUME IInv, NEW s \in Socket, NEW ref \in SubmitterRefs(s), SendAnswer(s, ref)
  PROVE  Body /\ IInv'
<1>1. Rebind(s, ref) /\ Enqueue(ref.code, "answer:submit", s, ref, None)
      /\ rooms' = rooms /\ player' = player /\ live' = live /\ phase' = phase
  BY DEF SendAnswer
<1>2. ref \in Ref /\ Kept(rooms, player, socketToPlayer', socketToSpectator')
  BY <1>1, RebindKeeps
<1>3. ref.code \in Keys /\ "answer:submit" \in Ops /\ live' \subseteq Socket
  BY <1>1, <1>2, RefFields, KeysAre DEF Ops, IInv
<1>4. Body
  BY <1>1, <1>2 DEF Body
<1> QED
  BY <1>1, <1>2, <1>3, <1>4, WaitsKeeps

LEMMA SubmitContestKeeps ==
  ASSUME IInv, NEW s \in Socket, NEW ref \in SubmitterRefs(s), SubmitContest(s, ref)
  PROVE  Body
<1> DEFINE c == ref.code
           r == rooms[c]
<1>1. Kept(rooms, player, socketToPlayer', socketToSpectator') /\ c \in Code
  BY RebindKeeps, RefFields DEF SubmitContest
<1>2. ref.player \in Members(c)
  BY DEF SubmitContest, MaySubmit, Current
<1>3. r # None /\ r \in Room /\ ref.player \in Player
  BY <1>1, <1>2, MembersRoom
<1>4. \/ rooms' = [rooms EXCEPT ![c] = Emit(Finish(r))] /\ player' = player
      \/ rooms' = [rooms EXCEPT ![c] = Freeze(Touch(r))] /\ player' = Seal(player, r, ref.player)
  BY DEF SubmitContest
<1>5. SameList(Emit(Finish(r)), r) /\ SameList(Freeze(Touch(r)), r)
  BY <1>3, FinishSame, TouchSame, FreezeSame, EmitSame DEF SameList
<1>6. Kept(rooms, Seal(player, r, ref.player), socketToPlayer', socketToSpectator')
  BY <1>1, <1>3, SealKeeps
<1> HIDE DEF c, r
<1>7. Kept([rooms EXCEPT ![c] = Emit(Finish(r))], player, socketToPlayer', socketToSpectator')
  BY <1>1, <1>3, <1>5, SetRoomKeeps DEF r
<1>8. Kept([rooms EXCEPT ![c] = Freeze(Touch(r))], Seal(player, r, ref.player),
           socketToPlayer', socketToSpectator')
  BY <1>1, <1>3, <1>5, <1>6, SetRoomKeeps DEF r
<1> QED
  BY <1>4, <1>7, <1>8 DEF Body

LEMMA DisconnectKeeps ==
  ASSUME IInv, NEW s \in Socket, Disconnect(s)
  PROVE  Body /\ IInv'
<1>1. /\ rooms' = rooms /\ player' = player /\ socketToPlayer' = socketToPlayer /\ phase' = phase
      /\ live' \subseteq Socket
  BY DEF Disconnect, IInv
<1>2. CASE socketToPlayer[s] # None
  <2>1. Enqueue(socketToPlayer[s].code, "disconnect", s, socketToPlayer[s], None)
        /\ socketToSpectator' = socketToSpectator
    BY <1>2 DEF Disconnect
  <2>2. Body
    BY <1>1, <2>1, SameKeeps DEF Body
  <2>3. socketToPlayer[s] \in Ref /\ socketToPlayer[s].code \in Keys /\ "disconnect" \in Ops
    BY <1>2, BoundRef DEF Ops
  <2> QED
    BY <1>1, <1>2, <2>1, <2>2, <2>3, WaitsKeeps
<1>3. CASE socketToPlayer[s] = None
  <2>1. queue' = queue /\ socketToSpectator' = [socketToSpectator EXCEPT ![s] = None]
    BY <1>3 DEF Disconnect
  <2>2. Body
    BY <1>1, <2>1, CutSocketKeeps DEF Body
  <2>3. phase' \in Phases
    BY <1>1 DEF IInv
  <2> QED
    BY <1>1, <2>1, <2>2, <2>3, AsideKeeps
<1> QED
  BY <1>2, <1>3
-----------------------------------------------------------------------------
(* All the steps together.                                                 *)

Stays == IInv' /\ Body /\ (live' \subseteq live \/ player' = player)

LEMMA ServeStays ==
  ASSUME IInv, NEW c \in Code, Serve(c)
  PROVE  Stays
<1>1. c \in Keys
  BY KeysAre
<1>2. Turn(c) /\ Body
  <2>1. CASE PlayerReady(c) \/ ProblemSet(c) \/ ItemUse(c) \/ RoomStart(c) \/ RoomStartIfReleased(c)
               \/ RoomEnd(c) \/ RoomRevealNext(c)
    BY <2>1, QuietBody, RefreshesBody
  <2>2. CASE AnswerSubmit(c) \/ RoomRejoin(c) \/ RoomJoin(c) \/ RoomLeave(c) \/ RoomKick(c)
               \/ SocketDisconnect(c)
    BY <2>2, AnswerSubmitBody, RoomRejoinBody, RoomJoinBody, RoomLeaveBody, RoomKickBody,
       SocketDisconnectBody
  <2> QED
    BY <2>1, <2>2 DEF Serve
<1> QED
  BY <1>1, <1>2, TurnKeeps DEF Stays, Turn

LEMMA EventStays ==
  ASSUME IInv, RoomCreate \/ EventRegister \/ EventSpectate
  PROVE  Stays
<1>1. PICK k \in Keys : Turn(k) /\ Body
  BY RoomCreateBody, EventRegisterBody, EventSpectateBody, KeysAre
<1> QED
  BY <1>1, TurnKeeps DEF Stays, Turn

LEMMA ReceiveStays ==
  ASSUME IInv, NEW s \in Socket, Receive(s)
  PROVE  Stays
<1>1. CASE \/ \E op \in PlayerOps : SendAsPlayer(s, op)
           \/ \E p \in Player : SendKick(s, p)
           \/ SendStartIfReleased(s) \/ SendCreate(s)
           \/ \E c \in Code : SendJoin(s, c) \/ \E p \in Player : SendRejoin(s, c, p)
           \/ \E op \in {"event:register", "event:spectate"} : SendEvent(s, op)
  <2>1. live' = live
    BY <1>1 DEF SendAsPlayer, SendKick, SendStartIfReleased, SendCreate, SendJoin, SendRejoin, SendEvent
  <2>2. Body /\ IInv'
    BY <1>1, SendKeeps
  <2> QED
    BY <2>1, <2>2 DEF Stays
<1>2. CASE \E ref \in SubmitterRefs(s) : SendAnswer(s, ref)
  BY <1>2, SendAnswerKeeps DEF Stays, SendAnswer
<1>3. CASE \E ref \in SubmitterRefs(s) : SubmitContest(s, ref)
  <2>1. Body /\ live' = live /\ queue' = queue /\ phase' = phase
    BY <1>3, SubmitContestKeeps DEF SubmitContest
  <2>2. live' \subseteq Socket /\ phase' \in Phases
    BY <2>1 DEF IInv
  <2> QED
    BY <2>1, <2>2, AsideKeeps DEF Stays
<1>4. CASE \E ref \in SubmitterRefs(s) : RefuseAnswer(s, ref)
  <2>1. /\ rooms' = rooms /\ player' = player /\ live' = live /\ queue' = queue /\ phase' = phase
        /\ Kept(rooms, player, socketToPlayer', socketToSpectator')
    BY <1>4, RebindKeeps DEF RefuseAnswer
  <2>2. live' \subseteq Socket /\ phase' \in Phases /\ Body
    BY <2>1 DEF IInv, Body
  <2> QED
    BY <2>1, <2>2, AsideKeeps DEF Stays
<1>5. CASE Connect(s)
  <2>1. /\ Unchanged /\ queue' = queue /\ phase' \in Phases /\ live' \subseteq Socket
        /\ player' = player
    BY <1>5 DEF Connect, Unchanged, IInv
  <2> QED
    BY <2>1, UnchangedBody, AsideKeeps DEF Stays
<1>6. CASE Disconnect(s)
  BY <1>6, DisconnectKeeps DEF Stays, Disconnect
<1>7. CASE LeaveSpectator(s)
  <2>1. /\ rooms' = rooms /\ player' = player /\ socketToPlayer' = socketToPlayer
        /\ socketToSpectator' = [socketToSpectator EXCEPT ![s] = None]
        /\ queue' = queue /\ phase' \in Phases /\ live' \subseteq Socket
    BY <1>7 DEF LeaveSpectator, IInv
  <2>2. Body
    BY <2>1, CutSocketKeeps DEF Body
  <2> QED
    BY <2>1, <2>2, AsideKeeps DEF Stays
<1> QED
  BY <1>1, <1>2, <1>3, <1>4, <1>5, <1>6, <1>7 DEF Receive

LEMMA NextStays ==
  ASSUME IInv, [Next]_vars
  PROVE  Stays
<1>1. ASSUME Body, queue' = queue, live' = live, phase' = phase PROVE Stays
  <2>1. live' \subseteq Socket /\ phase' \in Phases
    BY <1>1 DEF IInv
  <2> QED
    BY <1>1, <2>1, AsideKeeps DEF Stays
<1>2. ASSUME NEW s \in Socket, Receive(s) PROVE Stays
  BY <1>2, ReceiveStays
<1>3. ASSUME NEW c \in Code, Serve(c) PROVE Stays
  BY <1>3, ServeStays
<1>4. ASSUME NEW c \in Code, AdminEnd(c) PROVE Stays
  BY <1>1, <1>4, AdminEndBody DEF AdminEnd
<1>5. ASSUME NEW c \in Code, ReadRoom(c) PROVE Stays
  BY <1>1, <1>5, ReadRoomBody DEF ReadRoom
<1>6. ASSUME NEW c \in Code, NEW fetch \in Fetches, Maintain(c, fetch) PROVE Stays
  BY <1>1, <1>6, MaintainBody DEF Maintain
<1>7. CASE RoomCreate \/ EventRegister \/ EventSpectate
  BY <1>7, EventStays
<1>8. CASE Tick
  BY <1>1, <1>8, TickBody DEF Tick
<1>9. CASE EventPhase
  <2>1. /\ Unchanged /\ queue' = queue /\ live' = live /\ phase' \in Phases /\ live' \subseteq Socket
    BY <1>9 DEF EventPhase, Unchanged, Phases, IInv
  <2> QED
    BY <2>1, UnchangedBody, AsideKeeps DEF Stays
<1>10. CASE Restart
  <2>1. Body /\ IInv' /\ live' = {}
    BY <1>10, RestartBody DEF Restart
  <2> QED
    BY <2>1 DEF Stays
<1>11. CASE UNCHANGED vars
  <2>1. Unchanged /\ queue' = queue /\ live' = live /\ phase' = phase
    BY <1>11 DEF vars, Unchanged
  <2> QED
    BY <1>1, <2>1, UnchangedBody
<1> QED
  BY <1>2, <1>3, <1>4, <1>5, <1>6, <1>7, <1>8, <1>9, <1>10, <1>11 DEF Next
-----------------------------------------------------------------------------
(* Whatever requests, answers, reads, timers, closing connections and      *)
(* restarts do and in whatever order, every player is in one room and once,*)
(* every bound socket is its player's socket with the player's token, and  *)
(* a leave or disconnect that waits names the right socket.                *)
THEOREM OwnSockets == Spec => []IInv
<1>1. Init => IInv
  <2> SUFFICES ASSUME Init PROVE IInv
    OBVIOUS
  <2>1. Blank \in PlayerState /\ Blank.token = None
    BY DEF Blank, PlayerState
  <2>2. Typed(rooms, player, socketToPlayer, socketToSpectator)
    BY <2>1 DEF Init, Typed
  <2>3. \A c \in Code : rooms[c] = None /\ In(rooms, c) = {}
    BY DEF Init, In
  <2>4. Good(rooms, player, socketToPlayer, socketToSpectator)
    BY <2>1, <2>2, <2>3
       DEF Init, Good, ListedOnce, InOneRoom, OwnToken, BoundAsPlayer, Watching
  <2>5. queue \in [Keys -> Seq(Request)] /\ FromOwnSocket(queue, player)
    BY NobodyWaits DEF Init
  <2> QED
    BY <2>4, <2>5 DEF Init, IInv, Phases
<1>2. IInv /\ [Next]_vars => IInv'
  BY NextStays DEF Stays
<1> QED
  BY <1>1, <1>2, PTL DEF Spec

(* The type invariant.                                                     *)
THEOREM TypeCorrect == Spec => []TypeOK
<1>1. IInv => TypeOK
  BY DEF IInv, Good, Typed, TypeOK, Phases
<1> QED
  BY <1>1, OwnSockets, PTL

(* No two sockets carry a player's token: two tabs or a stale connection   *)
(* never act for the same player.                                          *)
THEOREM OneSocketEach == Spec => []OneCurrentSocket
<1>1. IInv => OneCurrentSocket
  <2> SUFFICES ASSUME IInv, NEW s \in Socket, NEW t \in Socket,
                      socketToPlayer[s] # None, socketToPlayer[t] # None,
                      socketToPlayer[s].token = socketToPlayer[t].token
               PROVE  s = t
    BY DEF OneCurrentSocket
  <2> DEFINE p == socketToPlayer[s].player
             q == socketToPlayer[t].player
  <2>1. p \in Player /\ q \in Player /\ socketToPlayer[s].token # None
    BY BoundRef, RefFields
  <2>2. /\ player[p].token = socketToPlayer[s].token /\ player[p].socket = s
        /\ player[q].token = socketToPlayer[t].token /\ player[q].socket = t
    BY DEF IInv, Good, BoundAsPlayer
  <2>3. p = q
    BY <2>1, <2>2 DEF IInv, Good, OwnToken
  <2> QED
    BY <2>2, <2>3
<1> QED
  BY <1>1, OwnSockets, PTL

(* Leaving, kicking, closing and expiry leave no binding of a socket to a  *)
(* player or a room that is gone.                                          *)
THEOREM NoDanglingBinding == Spec => []BindingsResolve
<1>1. IInv => BindingsResolve
  BY MembersIn DEF IInv, Good, BoundAsPlayer, Watching, BindingsResolve, Exists
<1> QED
  BY <1>1, OwnSockets, PTL

(* Rooms do not grow past their capacity although registration and joining *)
(* add players under different mutexes.                                    *)
THEOREM CapacityKept == Spec => []WithinCapacity
<1>1. IInv => WithinCapacity
  BY DEF IInv, Good, ListedOnce, WithinCapacity, Exists
<1> QED
  BY <1>1, OwnSockets, PTL

(* A player is marked away only when no live socket can act for it: leaves *)
(* and disconnects that waited while the player came back take no effect.  *)
THEOREM AwayMeansAbsent == Spec => OnlyTheAbsentGoAway
<1> DEFINE Away == \A p \in Player : player[p].connected /\ ~player'[p].connected =>
                     \A s \in live' : socketToPlayer'[s] # None
                                      => socketToPlayer'[s].token # player'[p].token
<1>1. IInv /\ [Next]_vars => Away
  <2> SUFFICES ASSUME IInv, [Next]_vars PROVE Away
    OBVIOUS
  <2>1. GoneAway(player', socketToPlayer') /\ (live' \subseteq live \/ player' = player)
    BY NextStays DEF Stays, Body, Kept
  <2> QED
    BY <2>1 DEF GoneAway
<1>2. IInv /\ [Next]_vars => [Away]_vars
  BY <1>1
<1> QED
  BY <1>2, OwnSockets, PTL DEF Spec, OnlyTheAbsentGoAway
-----------------------------------------------------------------------------
(***************************************************************************)
(* Rooms implements RoomLife: whatever waits and in whatever order it runs,*)
(* a room walks through its stages, seals its board at most once, keeps the*)
(* board it sealed when the exam ends and reveals one attempt at a time.   *)
(* The argument is about one room: what a body does to it, followed by the *)
(* emit that ends every body, amounts to one step of RoomLife. A second    *)
(* invariant bounds the reveal: no more is opened than was sealed.         *)
(***************************************************************************)

(* A room that has not finished has revealed nothing, and a lobby has no   *)
(* board yet.                                                              *)
Unopened(r) == /\ r.status # "finished" => r.reveal = 0
               /\ r.status = "lobby" => r.frozen = {}

(* The frozen board lists players of the room, and is there at the end.    *)
OnBoard(r) == /\ r.frozen \subseteq IdsIn(r.players)
              /\ r.status = "finished" /\ IdsIn(r.players) # {} => r.frozen # {}

Opened(q) == Unopened(q) /\ OnBoard(q) /\ q.status \in {"lobby", "playing"}

SameLife(r, q) == q.status = r.status /\ q.frozen = r.frozen /\ q.reveal = r.reveal

(* One step of RoomLife, between two states of an existing room.           *)
Walks(r, q) ==
  \/ SameLife(r, q)
  \/ r.status \in {"lobby", "playing"} /\ q.status = "playing" /\ q.reveal = 0
     /\ (r.status = "playing" => r.frozen = {})
  \/ r.status \in {"lobby", "playing"} /\ q.status = "finished" /\ q.reveal = 0
     /\ (r.frozen # {} => q.frozen = r.frozen)
  \/ r.status = "finished" /\ q.status = "finished" /\ q.frozen = r.frozen
     /\ q.reveal = r.reveal + 1

LifeInv == \A c \in Code : rooms[c] # None => Unopened(rooms[c]) /\ OnBoard(rooms[c])

(* Nobody enters or leaves a finished room, and it reveals what is sealed. *)
Settled(c) ==
  rooms[c].status = "finished" =>
    /\ rooms'[c].players = rooms[c].players
    /\ rooms'[c].reveal # rooms[c].reveal => rooms[c].reveal < SealedTotal(c)

(* What a step does to the rooms: something to one of them, or nothing to  *)
(* the life of any.                                                        *)
WalksAt(c) ==
  /\ \A d \in Code \ {c} : rooms'[d] = rooms[d]
  /\ \/ rooms'[c] = rooms[c]
     \/ /\ rooms[c] # None /\ rooms'[c] # None /\ Walks(rooms[c], rooms'[c])
        /\ OnBoard(rooms'[c]) /\ Settled(c)
     \/ rooms[c] = None /\ rooms'[c] # None /\ Opened(rooms'[c])
     \/ rooms[c] # None /\ rooms[c].status # "playing" /\ rooms'[c] = None

AllSame ==
  \A c \in Code : /\ rooms'[c] = None <=> rooms[c] = None
                  /\ rooms[c] # None => /\ SameLife(rooms[c], rooms'[c])
                                        /\ rooms'[c].players = rooms[c].players
-----------------------------------------------------------------------------
(* One room.                                                               *)

Statuses == {"lobby", "playing", "finished"}

LEMMA RoomFields ==
  ASSUME NEW r \in Room
  PROVE  /\ r.status \in Statuses /\ r.frozen \in SUBSET Player /\ r.reveal \in Nat
         /\ r.elapsed \in Nat /\ r.idle \in Nat
  BY DEF Room, Statuses

LEMMA FreezeLife ==
  ASSUME NEW r \in Room
  PROVE  /\ Freeze(r).status = r.status /\ Freeze(r).reveal = r.reveal
         /\ Freeze(r).frozen # r.frozen => r.status = "playing" /\ r.frozen = {}
         /\ Freeze(r) = r \/ Freeze(r).idle = 0
  BY DEF Freeze, IsScoreboardFrozen, Room

LEMMA FinishLife ==
  ASSUME NEW r \in Room, r.status = "playing"
  PROVE  /\ Finish(r).status = "finished" /\ Finish(r).reveal = 0 /\ Finish(r).idle = 0
         /\ r.frozen # {} => Finish(r).frozen = r.frozen
<1> DEFINE f == Freeze(r)
           board == IF f.frozen = {} THEN IdsIn(r.players) ELSE f.frozen
<1>1. f \in Room /\ f.status = "playing" /\ (r.frozen # {} => f.frozen = r.frozen)
  BY FreezeLife, FreezeSame DEF SameList
<1>2. Finish(r) = [f EXCEPT !.frozen = board, !.reveal = 0, !.status = "finished", !.idle = 0]
  BY <1>1 DEF Finish
<1> HIDE DEF f
<1>3. r.frozen # {} => board = r.frozen
  BY <1>1
<1> HIDE DEF board
<1> QED
  BY <1>1, <1>2, <1>3 DEF Room

LEMMA StartLife ==
  ASSUME NEW r \in Room
  PROVE  /\ Start(r).status = "playing" /\ Start(r).reveal = 0 /\ Start(r).frozen = {}
         /\ ~IsFinished(Start(r))
<1>1. TimeLimit \in Nat /\ TimeLimit > 0
  BY ConstantsAssumption
<1>2. Start(r).status = "playing" /\ Start(r).reveal = 0 /\ Start(r).frozen = {} /\ Start(r).elapsed = 0
  BY DEF Start, Room
<1> QED
  BY <1>1, <1>2 DEF IsFinished

LEMMA EmitLife ==
  ASSUME NEW r \in Room
  PROVE  LET q == Emit(r) IN
         /\ r.status = "finished" => q = r
         /\ r.status = "lobby" => \/ q = r
                                  \/ q.status = "playing" /\ q.reveal = 0
         /\ r.status = "playing" =>
              \/ q = r
              \/ q.status = "playing" /\ q.reveal = r.reveal /\ r.frozen = {}
              \/ /\ IsFinished(r) /\ q.status = "finished" /\ q.reveal = 0 /\ q.idle = 0
                 /\ r.frozen # {} => q.frozen = r.frozen
<1> DEFINE s == StartIfReleased(r)
           e == IF IsFinished(s) THEN Finish(s) ELSE s
           q == Emit(r)
<1>1. q = Freeze(e)
  BY DEF Emit
<1>2. CASE r.status = "finished"
  <2>1. s = r /\ e = r
    BY <1>2 DEF StartIfReleased, IsFinished
  <2> QED
    BY <1>1, <1>2, <2>1 DEF Freeze, IsScoreboardFrozen
<1>3. CASE r.status = "lobby"
  <2>1. CASE s = r
    <3>1. e = r
      BY <1>3, <2>1 DEF IsFinished
    <3> QED
      BY <1>1, <1>3, <3>1 DEF Freeze, IsScoreboardFrozen
  <2>2. CASE s # r
    <3>1. s = Start(r)
      BY <2>2 DEF StartIfReleased
    <3>2. s \in Room /\ s.status = "playing" /\ s.reveal = 0 /\ ~IsFinished(s)
      BY <3>1, StartLife, StartSame DEF SameList
    <3> QED
      BY <1>1, <1>3, <3>2, FreezeLife
  <2> QED
    BY <2>1, <2>2
<1>4. CASE r.status = "playing"
  <2>1. s = r
    BY <1>4 DEF StartIfReleased
  <2>2. CASE IsFinished(r)
    <3>1. e = Finish(r) /\ Finish(r) \in Room
      BY <2>1, <2>2, FinishSame DEF SameList
    <3>2. /\ Finish(r).status = "finished" /\ Finish(r).reveal = 0 /\ Finish(r).idle = 0
          /\ r.frozen # {} => Finish(r).frozen = r.frozen
      BY <1>4, FinishLife
    <3>3. q = Finish(r)
      BY <1>1, <3>1, <3>2 DEF Freeze, IsScoreboardFrozen
    <3> QED
      BY <1>4, <2>2, <3>2, <3>3
  <2>3. CASE ~IsFinished(r)
    <3>1. q = Freeze(r)
      BY <1>1, <2>1, <2>3
    <3>2. q = r \/ (q.status = "playing" /\ q.reveal = r.reveal /\ r.frozen = {})
      BY <1>4, <3>1 DEF Freeze, Room
    <3> QED
      BY <1>4, <3>2
  <2> QED
    BY <2>2, <2>3
<1>5. r.status \in Statuses
  BY RoomFields
<1> QED
  BY <1>2, <1>3, <1>4, <1>5 DEF Statuses

LEMMA FreezeBoard == ASSUME NEW r \in Room, OnBoard(r) PROVE OnBoard(Freeze(r))
  BY DEF Freeze, IsScoreboardFrozen, OnBoard, Room

LEMMA FinishBoard == ASSUME NEW r \in Room, OnBoard(r) PROVE OnBoard(Finish(r))
<1> DEFINE f == Freeze(r)
           board == IF f.frozen = {} THEN IdsIn(r.players) ELSE f.frozen
<1>1. f \in Room /\ f.players = r.players /\ OnBoard(f)
  BY FreezeBoard, FreezeSame DEF SameList
<1>2. CASE f.status # "playing"
  BY <1>1, <1>2 DEF Finish
<1>3. CASE f.status = "playing"
  <2>1. Finish(r) = [f EXCEPT !.frozen = board, !.reveal = 0, !.status = "finished", !.idle = 0]
    BY <1>3 DEF Finish
  <2> HIDE DEF f
  <2>2. board \subseteq IdsIn(f.players) /\ (IdsIn(f.players) # {} => board # {})
    BY <1>1 DEF OnBoard
  <2> HIDE DEF board
  <2>3. Finish(r).frozen = board /\ Finish(r).players = f.players
    BY <1>1, <2>1 DEF Room
  <2> QED
    BY <2>2, <2>3 DEF OnBoard
<1> QED
  BY <1>2, <1>3

LEMMA StartBoard == ASSUME NEW r \in Room PROVE OnBoard(Start(r))
  BY StartLife DEF OnBoard

LEMMA EmitBoard == ASSUME NEW r \in Room, OnBoard(r) PROVE OnBoard(Emit(r))
<1> DEFINE s == StartIfReleased(r)
           e == IF IsFinished(s) THEN Finish(s) ELSE s
<1>1. s \in Room /\ OnBoard(s)
  BY StartSame, StartBoard DEF StartIfReleased, SameList
<1>2. e \in Room /\ OnBoard(e)
  BY <1>1, FinishSame, FinishBoard DEF SameList
<1>3. Emit(r) = Freeze(e)
  BY DEF Emit
<1> HIDE DEF e
<1> QED
  BY <1>2, <1>3, FreezeBoard

LEMMA EndBoard == ASSUME NEW r \in Room, OnBoard(r) PROVE OnBoard(End(r))
<1>1. CASE r.status = "playing"
  BY <1>1, FinishBoard, FinishSame, EmitBoard DEF End, SameList
<1>2. CASE r.status # "playing"
  <2>1. End(r).frozen = IdsIn(r.players) /\ End(r).players = r.players
    BY <1>2 DEF End, Room
  <2> QED
    BY <2>1 DEF OnBoard
<1> QED
  BY <1>1, <1>2

(* A body that changes nothing of the life of a room, and then emits it.   *)
LEMMA EmitWalks ==
  ASSUME NEW r \in Room, Unopened(r), NEW a \in Room, SameLife(r, a)
  PROVE  Walks(r, Emit(a))
<1>1. r.status \in Statuses
  BY RoomFields
<1> QED
  BY <1>1, EmitLife DEF SameLife, Walks, Unopened, Statuses

LEMMA FinishWalks ==
  ASSUME NEW r \in Room, r.status = "playing"
  PROVE  Walks(r, Emit(Finish(r)))
<1>1. Finish(r) \in Room /\ Finish(r).status = "finished"
  BY FinishLife, FinishSame DEF SameList
<1>2. Emit(Finish(r)) = Finish(r)
  BY <1>1, EmitLife
<1> QED
  BY <1>2, FinishLife DEF Walks

LEMMA StartWalks ==
  ASSUME NEW r \in Room, r.status = "lobby"
  PROVE  Walks(r, Emit(Start(r)))
<1>1. Start(r) \in Room /\ Start(r).status = "playing" /\ Start(r).reveal = 0 /\ ~IsFinished(Start(r))
  BY StartLife, StartSame DEF SameList
<1>2. Emit(Start(r)).status = "playing" /\ Emit(Start(r)).reveal = 0
  BY <1>1, EmitLife
<1> QED
  BY <1>2 DEF Walks

LEMMA EndWalks ==
  ASSUME NEW r \in Room, r.status # "finished", Unopened(r)
  PROVE  Walks(r, End(r))
<1>1. CASE r.status = "playing"
  BY <1>1, FinishWalks DEF End
<1>2. CASE r.status = "lobby"
  <2>1. End(r).status = "finished" /\ End(r).reveal = 0
    BY <1>2 DEF End, Room
  <2> QED
    BY <1>2, <2>1 DEF Walks, Unopened
<1> QED
  BY <1>1, <1>2, RoomFields DEF Statuses

LEMMA RevealWalks ==
  ASSUME NEW r \in Room, r.status = "finished"
  PROVE  /\ Walks(r, Emit([Touch(r) EXCEPT !.reveal = @ + 1]))
         /\ OnBoard(r) => OnBoard(Emit([Touch(r) EXCEPT !.reveal = @ + 1]))
         /\ Emit([Touch(r) EXCEPT !.reveal = @ + 1]).players = r.players
<1> DEFINE q == Touch(r)
           a == [q EXCEPT !.reveal = @ + 1]
<1>1. /\ q \in Room /\ q.status = "finished" /\ q.frozen = r.frozen /\ q.reveal = r.reveal
      /\ q.players = r.players
  BY TouchSame DEF Touch, Room, SameList
<1> HIDE DEF q
<1>2. /\ a \in Room /\ a.status = "finished" /\ a.frozen = r.frozen /\ a.reveal = r.reveal + 1
      /\ a.players = r.players
  <2> DEFINE n == r.reveal + 1
  <2>1. n \in Nat
    BY RoomFields
  <2>2. a = [q EXCEPT !.reveal = n]
    BY <1>1
  <2> HIDE DEF a, n
  <2>3. /\ a \in Room /\ a.status = q.status /\ a.frozen = q.frozen /\ a.reveal = n
        /\ a.players = q.players
    BY <1>1, <2>1, <2>2 DEF Room
  <2> QED
    BY <1>1, <2>3 DEF n
<1> HIDE DEF a
<1>3. Emit(a) = a
  BY <1>2, EmitLife
<1>4. Walks(r, Emit(a)) /\ (OnBoard(r) => OnBoard(Emit(a))) /\ Emit(a).players = r.players
  BY <1>2, <1>3 DEF Walks, OnBoard
<1> QED
  BY <1>4 DEF a, q

LEMMA TouchLife ==
  ASSUME NEW r \in Room
  PROVE  /\ Touch(r) \in Room /\ SameLife(r, Touch(r)) /\ Touch(r).players = r.players
         /\ OnBoard(r) => OnBoard(Touch(r))
<1>1. Touch(r) \in Room /\ SameLife(r, Touch(r)) /\ Touch(r).players = r.players
  BY TouchSame DEF Touch, Room, SameLife, SameList
<1> QED
  BY <1>1 DEF OnBoard, SameLife

LEMMA AddPlayerLife ==
  ASSUME NEW r \in Room, NEW p \in Player
  PROVE  /\ AddPlayer(r, p) \in Room /\ SameLife(r, AddPlayer(r, p))
         /\ OnBoard(r) /\ r.status # "finished" => OnBoard(AddPlayer(r, p))
<1>1. AddPlayer(r, p) \in Room /\ SameLife(r, AddPlayer(r, p))
  BY AddPlayerRoom DEF AddPlayer, Room, SameLife
<1>2. AddPlayer(r, p).players = Append(r.players, p) /\ r.players \in Seq(Player)
  BY DEF AddPlayer, Room
<1>3. IdsIn(r.players) \subseteq IdsIn(Append(r.players, p))
  <2>1. ASSUME NEW i \in DOMAIN r.players
        PROVE  i \in DOMAIN Append(r.players, p) /\ Append(r.players, p)[i] = r.players[i]
    BY <1>2
  <2> QED
    BY <2>1 DEF IdsIn
<1> QED
  BY <1>1, <1>2, <1>3 DEF OnBoard, SameLife

LEMMA RemovePlayerLife ==
  ASSUME NEW r \in Room, NEW p \in IdsIn(r.players),
         \A i, j \in DOMAIN r.players : r.players[i] = r.players[j] => i = j
  PROVE  /\ RemovePlayer(r, p) \in Room /\ SameLife(r, RemovePlayer(r, p))
         /\ PassHost(RemovePlayer(r, p), p) \in Room
         /\ SameLife(r, PassHost(RemovePlayer(r, p), p))
<1> DEFINE a == RemovePlayer(r, p)
<1>1. a \in Room /\ SameLife(r, a)
  BY RemovePlayerRoom DEF RemovePlayer, Room, SameLife
<1> HIDE DEF a
<1>2. PassHost(a, p) \in Room
  BY <1>1, PassHostRoom DEF SameList
<1>3. SameLife(a, PassHost(a, p))
  BY <1>1 DEF PassHost, Room, SameLife
<1> QED
  BY <1>1, <1>2, <1>3 DEF SameLife, a

LEMMA OpensLife ==
  ASSUME NEW p \in Player, NEW mode \in {"casual", "contest"}, NEW event \in BOOLEAN, NEW max \in Nat
  PROVE  Opened(Emit(NewRoom(p, mode, event, max))) /\ Emit(NewRoom(p, mode, event, max)) # None
<1> DEFINE r == NewRoom(p, mode, event, max)
<1>1. r \in Room
  BY NewRoomRoom
<1>2. r.status = "lobby" /\ r.reveal = 0 /\ r.frozen = {}
  BY DEF NewRoom
<1> HIDE DEF r
<1>3. Emit(r) # None /\ OnBoard(Emit(r))
  BY <1>1, <1>2, EmitSame, EmitBoard, NoneAssumption DEF SameList, OnBoard
<1>4. Opened(Emit(r))
  BY <1>1, <1>2, <1>3, EmitLife DEF Opened, Unopened
<1> QED
  BY <1>3, <1>4 DEF r

LEMMA SoloLife ==
  ASSUME NEW p \in Player
  PROVE  Opened(Emit(SoloRoom(p))) /\ Emit(SoloRoom(p)) # None
<1> DEFINE n == NewRoom(p, "casual", FALSE, 1)
           r == SoloRoom(p)
<1>1. r \in Room
  BY SoloRoomRoom
<1>2. n \in Room /\ n.elapsed = 0 /\ n.reveal = 0 /\ n.frozen = {} /\ r = [n EXCEPT !.status = "playing"]
  BY NewRoomRoom DEF NewRoom, SoloRoom
<1> HIDE DEF r, n
<1>3. r.status = "playing" /\ r.elapsed = 0 /\ r.reveal = 0 /\ r.frozen = {}
  BY <1>2 DEF Room
<1>4. ~IsFinished(r)
  BY <1>3, ConstantsAssumption DEF IsFinished
<1>5. Emit(r) # None /\ OnBoard(Emit(r))
  BY <1>1, <1>3, EmitSame, EmitBoard, NoneAssumption DEF SameList, OnBoard
<1>6. Opened(Emit(r))
  BY <1>1, <1>3, <1>4, <1>5, EmitLife DEF Opened, Unopened
<1> QED
  BY <1>5, <1>6 DEF r

LEMMA OlderLife ==
  ASSUME NEW r \in Room
  PROVE  Older(r) # None /\ SameLife(r, Older(r)) /\ Older(r).players = r.players
  BY OlderSame, NoneAssumption DEF Older, Room, SameLife, SameList
-----------------------------------------------------------------------------
(* The steps.                                                              *)

LEMMA SetWalks ==
  ASSUME IInv, NEW c \in Code, Exists(c), NEW q, q # None,
         Walks(rooms[c], q), OnBoard(q),
         rooms[c].status = "finished" => q.players = rooms[c].players /\ q.reveal = rooms[c].reveal,
         rooms' = [rooms EXCEPT ![c] = q]
  PROVE  WalksAt(c)
  BY DEF IInv, Good, Typed, Exists, WalksAt, Settled

LEMMA StayWalks == ASSUME NEW c \in Code, rooms' = rooms PROVE WalksAt(c)
  BY DEF WalksAt

LEMMA EmitSetWalks ==
  ASSUME IInv, LifeInv, NEW c \in Code, Exists(c), NEW a \in Room, SameLife(rooms[c], a),
         OnBoard(a), rooms[c].status = "finished" => a.players = rooms[c].players,
         rooms' = [rooms EXCEPT ![c] = Emit(a)]
  PROVE  WalksAt(c)
<1>1. rooms[c] \in Room /\ Unopened(rooms[c])
  BY RoomOf DEF LifeInv, Exists
<1>2. Walks(rooms[c], Emit(a))
  BY <1>1, EmitWalks
<1>3. Emit(a) # None
  BY EmitSame, NoneAssumption DEF SameList
<1>4. OnBoard(Emit(a))
  BY EmitBoard
<1>5. rooms[c].status = "finished"
        => Emit(a).players = rooms[c].players /\ Emit(a).reveal = rooms[c].reveal
  BY EmitLife DEF SameLife
<1> QED
  BY <1>2, <1>3, <1>4, <1>5, SetWalks

LEMMA DeleteWalks ==
  ASSUME IInv, NEW c \in Code, Exists(c), rooms[c].status # "playing", NEW P, NEW B, DeleteRoom(c, P, B)
  PROVE  WalksAt(c)
  BY DEF IInv, Good, Typed, Exists, WalksAt, DeleteRoom

LEMMA OpenWalks ==
  ASSUME IInv, NEW c \in FreshCodes, NEW q, q # None, Opened(q), rooms' = [rooms EXCEPT ![c] = q]
  PROVE  c \in Code /\ WalksAt(c)
<1>1. c \in Code /\ rooms[c] = None
  BY FreshFacts
<1> QED
  BY <1>1 DEF IInv, Good, Typed, WalksAt

(* A room with a member, as it is before a body changes it.                *)
LEMMA TouchWalks ==
  ASSUME IInv, LifeInv, NEW c \in Code, Exists(c), rooms' = [rooms EXCEPT ![c] = Emit(Touch(rooms[c]))]
  PROVE  WalksAt(c)
<1>1. /\ Touch(rooms[c]) \in Room /\ SameLife(rooms[c], Touch(rooms[c]))
      /\ OnBoard(Touch(rooms[c])) /\ Touch(rooms[c]).players = rooms[c].players
  BY RoomOf, TouchLife DEF LifeInv, Exists
<1> QED
  BY <1>1, EmitSetWalks

LEMMA FinishSetWalks ==
  ASSUME IInv, LifeInv, NEW c \in Code, Exists(c), rooms[c].status = "playing",
         rooms' = [rooms EXCEPT ![c] = Emit(Finish(rooms[c]))]
  PROVE  WalksAt(c)
<1>1. rooms[c] \in Room /\ OnBoard(rooms[c])
  BY RoomOf DEF LifeInv, Exists
<1>2. Walks(rooms[c], Emit(Finish(rooms[c])))
  BY <1>1, FinishWalks
<1>3. Emit(Finish(rooms[c])) # None
  BY <1>1, FinishSame, EmitSame, NoneAssumption DEF SameList
<1>4. OnBoard(Emit(Finish(rooms[c])))
  BY <1>1, FinishSame, FinishBoard, EmitBoard DEF SameList
<1> QED
  BY <1>2, <1>3, <1>4, SetWalks

LEMMA QuietWalks ==
  ASSUME IInv, LifeInv, NEW c \in Code,
         PlayerReady(c) \/ ProblemSet(c) \/ ItemUse(c) \/ RoomStart(c) \/ RoomStartIfReleased(c)
           \/ RoomEnd(c) \/ RoomRevealNext(c)
  PROVE  WalksAt(c)
<1> DEFINE r == rooms[c]
           Emits(changed) == Exists(c) /\ rooms' = [rooms EXCEPT ![c] = Emit(changed)]
<1>1. CASE rooms' = rooms
  BY <1>1, StayWalks
<1>2. CASE rooms' # rooms
  <2>1. PlayerReady(c) => Emits(Touch(r))
    BY <1>2 DEF PlayerReady, Change
  <2>2. ProblemSet(c) => Emits(Touch(r))
    BY <1>2 DEF ProblemSet, ActivityUnlessRefused, Change
  <2>3. ItemUse(c) => Emits(Touch(r))
    BY <1>2 DEF ItemUse, ActivityUnlessRefused, Change
  <2>4. RoomStart(c) => r.status = "lobby" /\ Emits(Start(r))
    BY <1>2 DEF RoomStart, Change
  <2>5. RoomStartIfReleased(c) => Emits(r)
    BY <1>2 DEF RoomStartIfReleased, Change
  <2>6. RoomEnd(c) => r.status = "playing" /\ Emits(Finish(r))
    BY <1>2 DEF RoomEnd, Change
  <2>7. RoomRevealNext(c) => /\ r.status = "finished" /\ r.reveal < SealedTotal(c)
                             /\ Emits([Touch(r) EXCEPT !.reveal = @ + 1])
    BY <1>2 DEF RoomRevealNext, Change
  <2>8. Exists(c) => r \in Room /\ OnBoard(r)
    BY RoomOf DEF LifeInv, Exists
  <2>9. ASSUME Emits(Touch(r)) PROVE WalksAt(c)
    BY <2>9, TouchWalks
  <2>10. ASSUME r.status = "lobby", Emits(Start(r)) PROVE WalksAt(c)
    <3>1. Walks(r, Emit(Start(r)))
      BY <2>8, <2>10, StartWalks
    <3>2. Emit(Start(r)) # None
      BY <2>8, <2>10, StartSame, EmitSame, NoneAssumption DEF SameList
    <3>3. OnBoard(Emit(Start(r)))
      BY <2>8, <2>10, StartSame, StartBoard, EmitBoard DEF SameList
    <3> QED
      BY <2>10, <3>1, <3>2, <3>3, SetWalks
  <2>11. ASSUME Emits(r) PROVE WalksAt(c)
    BY <2>8, <2>11, EmitSetWalks DEF SameLife
  <2>12. ASSUME r.status = "playing", Emits(Finish(r)) PROVE WalksAt(c)
    BY <2>12, FinishSetWalks
  <2>13. ASSUME r.status = "finished", r.reveal < SealedTotal(c),
                Emits([Touch(r) EXCEPT !.reveal = @ + 1])
         PROVE  WalksAt(c)
    <3> DEFINE q == Emit([Touch(r) EXCEPT !.reveal = @ + 1])
    <3>1. Walks(r, q) /\ OnBoard(q) /\ q.players = r.players
      BY <2>8, <2>13, RevealWalks
    <3>2. q # None
      BY <2>8, <2>13, RevealSame, EmitSame, NoneAssumption DEF SameList
    <3>3. Exists(c) /\ rooms' = [rooms EXCEPT ![c] = q]
      BY <2>13
    <3> HIDE DEF q
    <3> QED
      BY <2>13, <3>1, <3>2, <3>3 DEF IInv, Good, Typed, Exists, WalksAt, Settled
  <2> HIDE DEF r, Emits
  <2> QED
    BY <2>1, <2>2, <2>3, <2>4, <2>5, <2>6, <2>7, <2>9, <2>10, <2>11, <2>12, <2>13
<1> QED
  BY <1>1, <1>2

LEMMA EnterWalks ==
  ASSUME IInv, LifeInv, NEW c \in Code, Exists(c), rooms[c].status # "finished",
         NEW s, NEW P, Enter(c, s, P)
  PROVE  WalksAt(c)
<1>1. PICK p \in FreshPlayers : rooms' = [rooms EXCEPT ![c] = Emit(AddPlayer(rooms[c], p))]
  BY DEF Enter
<1>2. p \in Player /\ rooms[c] \in Room /\ OnBoard(rooms[c])
  BY FreshFacts, RoomOf DEF LifeInv, Exists
<1>3. /\ AddPlayer(rooms[c], p) \in Room /\ SameLife(rooms[c], AddPlayer(rooms[c], p))
      /\ OnBoard(AddPlayer(rooms[c], p))
  BY <1>2, AddPlayerLife
<1> QED
  BY <1>1, <1>3, EmitSetWalks

LEMMA BodyWalks ==
  ASSUME IInv, LifeInv, NEW c \in Code,
         AnswerSubmit(c) \/ RoomRejoin(c) \/ RoomJoin(c) \/ RoomLeave(c) \/ RoomKick(c)
           \/ SocketDisconnect(c)
  PROVE  WalksAt(c)
<1> DEFINE r == rooms[c]
           ref == Head(queue[c]).ref
<1>1. CASE rooms' = rooms
  BY <1>1, StayWalks
<1>2. ASSUME Exists(c), rooms' = [rooms EXCEPT ![c] = Emit(Touch(r))] PROVE WalksAt(c)
  BY <1>2, TouchWalks
<1>3. ASSUME NEW x \in Members(c) PROVE Exists(c)
  BY DEF Members
<1>4. ASSUME AnswerSubmit(c), rooms' # rooms PROVE WalksAt(c)
  <2>1. /\ Current(ref, c) /\ r.status = "playing"
        /\ \/ rooms' = [rooms EXCEPT ![c] = Emit(Finish(r))]
           \/ rooms' = [rooms EXCEPT ![c] = Emit(Touch(r))]
    BY <1>4 DEF AnswerSubmit
  <2>2. Exists(c)
    BY <1>3, <2>1 DEF Current
  <2> QED
    BY <1>2, <2>1, <2>2, FinishSetWalks
<1>5. ASSUME RoomRejoin(c), rooms' # rooms PROVE WalksAt(c)
  <2>1. \E x \in Members(c) : rooms' = [rooms EXCEPT ![c] = Emit(Touch(r))]
    BY <1>5 DEF RoomRejoin
  <2> QED
    BY <1>2, <1>3, <2>1
<1>6. ASSUME RoomJoin(c), rooms' # rooms PROVE WalksAt(c)
  <2>1. /\ Exists(c) /\ rooms[c].status # "finished"
        /\ \E fetch \in Fetches : Enter(c, Head(queue[c]).socket, Presence(c, fetch))
    BY <1>6 DEF RoomJoin, Joinable
  <2> QED
    BY <2>1, EnterWalks
<1>7. ASSUME RoomLeave(c), rooms' # rooms PROVE WalksAt(c)
  <2>1. /\ Current(ref, c)
        /\ \/ r.status = "lobby" /\ \E P, B : DeleteRoom(c, P, B)
           \/ /\ r.status = "lobby"
              /\ rooms' = [rooms EXCEPT ![c] = Emit(PassHost(RemovePlayer(r, ref.player), ref.player))]
           \/ rooms' = [rooms EXCEPT ![c] = Emit(Touch(r))]
    BY <1>7 DEF RoomLeave
  <2>2. /\ Exists(c) /\ r \in Room /\ ref.player \in IdsIn(r.players)
        /\ \A i, j \in DOMAIN r.players : r.players[i] = r.players[j] => i = j
        /\ Unopened(r)
    BY <2>1, MembersRoom DEF Current, LifeInv, Exists
  <2> DEFINE a == PassHost(RemovePlayer(r, ref.player), ref.player)
  <2>3. a \in Room /\ SameLife(r, a)
    BY <2>2, RemovePlayerLife
  <2> HIDE DEF ref, a
  <2>4. CASE r.status = "lobby" /\ rooms' = [rooms EXCEPT ![c] = Emit(a)]
    <3>1. OnBoard(a)
      BY <2>2, <2>3, <2>4 DEF OnBoard, SameLife, Unopened
    <3> QED
      BY <2>2, <2>3, <2>4, <3>1, EmitSetWalks
  <2>5. CASE r.status = "lobby" /\ \E P, B : DeleteRoom(c, P, B)
    BY <2>2, <2>5, DeleteWalks
  <2> QED
    BY <1>2, <2>1, <2>2, <2>4, <2>5 DEF a
<1>8. ASSUME RoomKick(c), rooms' # rooms PROVE WalksAt(c)
  <2> DEFINE t == Head(queue[c]).target
  <2>1. /\ t \in Members(c) /\ r.status = "lobby"
        /\ rooms' = [rooms EXCEPT ![c] = Emit(RemovePlayer(r, t))]
    BY <1>8 DEF RoomKick, Kickable
  <2>2. /\ Exists(c) /\ r \in Room /\ t \in IdsIn(r.players) /\ Unopened(r)
        /\ \A i, j \in DOMAIN r.players : r.players[i] = r.players[j] => i = j
    BY <2>1, MembersRoom DEF LifeInv
  <2> HIDE DEF t
  <2>3. RemovePlayer(r, t) \in Room /\ SameLife(r, RemovePlayer(r, t)) /\ OnBoard(RemovePlayer(r, t))
    BY <2>1, <2>2, RemovePlayerLife DEF OnBoard, SameLife, Unopened
  <2> QED
    BY <2>1, <2>2, <2>3, EmitSetWalks
<1>9. ASSUME SocketDisconnect(c), rooms' # rooms PROVE WalksAt(c)
  <2>1. /\ Current(ref, c)
        /\ \/ r.status = "lobby" /\ \E P, B : DeleteRoom(c, P, B)
           \/ rooms' = [rooms EXCEPT ![c] = Emit(Touch(r))]
    BY <1>9 DEF SocketDisconnect
  <2>2. Exists(c)
    BY <1>3, <2>1 DEF Current
  <2>3. CASE r.status = "lobby" /\ \E P, B : DeleteRoom(c, P, B)
    BY <2>2, <2>3, DeleteWalks
  <2> QED
    BY <1>2, <2>1, <2>2, <2>3
<1> QED
  BY <1>1, <1>4, <1>5, <1>6, <1>7, <1>8, <1>9

LEMMA EventWalks ==
  ASSUME IInv, LifeInv, RoomCreate \/ EventRegister \/ EventSpectate
  PROVE  (\E c \in Code : WalksAt(c)) \/ rooms' = rooms
<1>1. ASSUME RoomCreate, rooms' # rooms PROVE \E c \in Code : WalksAt(c)
  <2>1. PICK c \in FreshCodes, p \in FreshPlayers :
          rooms' = [rooms EXCEPT ![c] = Emit(NewRoom(p, "casual", FALSE, MaxPlayersPerRoom))]
    BY <1>1 DEF RoomCreate, Open
  <2>2. p \in Player /\ MaxPlayersPerRoom \in Nat
    BY FreshFacts, ConstantsAssumption
  <2> QED
    BY <2>1, <2>2, OpensLife, OpenWalks
<1>2. ASSUME EventRegister, rooms' # rooms PROVE \E c \in Code : WalksAt(c)
  <2>1. \/ \E c \in FreshCodes, p \in FreshPlayers :
             \/ rooms' = [rooms EXCEPT ![c] = Emit(SoloRoom(p))]
             \/ rooms' = [rooms EXCEPT ![c] = Emit(NewRoom(p, "casual", TRUE, 1))]
             \/ rooms' = [rooms EXCEPT ![c] = Emit(NewRoom(p, "contest", TRUE, MaxContestPlayersPerRoom))]
        \/ \E c \in Reusable, fetch \in Fetches :
             Enter(c, Head(queue[EventKey]).socket, Presence(c, fetch))
    BY <1>2 DEF EventRegister, Open
  <2>2. ASSUME NEW c \in FreshCodes, NEW q, q # None /\ Opened(q), rooms' = [rooms EXCEPT ![c] = q]
        PROVE  \E d \in Code : WalksAt(d)
    BY <2>2, OpenWalks
  <2>3. ASSUME NEW p \in FreshPlayers
        PROVE  /\ Opened(Emit(SoloRoom(p))) /\ Emit(SoloRoom(p)) # None
               /\ Opened(Emit(NewRoom(p, "casual", TRUE, 1))) /\ Emit(NewRoom(p, "casual", TRUE, 1)) # None
               /\ Opened(Emit(NewRoom(p, "contest", TRUE, MaxContestPlayersPerRoom)))
               /\ Emit(NewRoom(p, "contest", TRUE, MaxContestPlayersPerRoom)) # None
    <3>1. p \in Player /\ MaxContestPlayersPerRoom \in Nat /\ 1 \in Nat
      BY FreshFacts, ConstantsAssumption
    <3>2. Opened(Emit(NewRoom(p, "casual", TRUE, 1))) /\ Emit(NewRoom(p, "casual", TRUE, 1)) # None
      BY <3>1, OpensLife
    <3>3. /\ Opened(Emit(NewRoom(p, "contest", TRUE, MaxContestPlayersPerRoom)))
          /\ Emit(NewRoom(p, "contest", TRUE, MaxContestPlayersPerRoom)) # None
      BY <3>1, OpensLife
    <3> QED
      BY <3>1, <3>2, <3>3, SoloLife
  <2>4. ASSUME NEW c \in Reusable, NEW fetch \in Fetches,
               Enter(c, Head(queue[EventKey]).socket, Presence(c, fetch))
        PROVE  \E d \in Code : WalksAt(d)
    <3>1. c \in Code /\ Exists(c) /\ rooms[c].status # "finished"
      BY DEF Reusable, ActiveRooms
    <3> QED
      BY <2>4, <3>1, EnterWalks
  <2> QED
    BY <2>1, <2>2, <2>3, <2>4
<1>3. EventSpectate => rooms' = rooms
  BY DEF EventSpectate
<1> QED
  BY <1>1, <1>2, <1>3

LEMMA SubmitContestWalks ==
  ASSUME IInv, LifeInv, NEW s \in Socket, NEW ref \in SubmitterRefs(s), SubmitContest(s, ref)
  PROVE  \E c \in Code : WalksAt(c)
<1> DEFINE c == ref.code
           r == rooms[c]
<1>1. c \in Code
  BY RebindKeeps, RefFields DEF SubmitContest
<1>2. r.status = "playing" /\ ref.player \in Members(c)
  BY DEF SubmitContest, MaySubmit, Current
<1>3. Exists(c) /\ r \in Room /\ Unopened(r) /\ OnBoard(r)
  BY <1>1, <1>2, MembersRoom DEF LifeInv
<1>4. \/ rooms' = [rooms EXCEPT ![c] = Emit(Finish(r))]
      \/ rooms' = [rooms EXCEPT ![c] = Freeze(Touch(r))]
  BY DEF SubmitContest
<1> DEFINE t == Touch(r)
           q == Freeze(t)
<1>5. t \in Room /\ SameLife(r, t) /\ OnBoard(t)
  BY <1>3, TouchLife
<1> HIDE DEF t
<1>6. /\ q.status = t.status /\ q.reveal = t.reveal /\ (q.frozen # t.frozen => t.frozen = {})
      /\ q # None /\ OnBoard(q)
  BY <1>5, FreezeLife, FreezeSame, FreezeBoard, NoneAssumption DEF SameList
<1> HIDE DEF q, c
<1>7. Walks(r, q)
  BY <1>2, <1>3, <1>5, <1>6 DEF Walks, SameLife, Unopened
<1>8. CASE rooms' = [rooms EXCEPT ![c] = q]
  BY <1>1, <1>2, <1>3, <1>6, <1>7, <1>8, SetWalks DEF r, c
<1>9. CASE rooms' = [rooms EXCEPT ![c] = Emit(Finish(r))]
  BY <1>1, <1>2, <1>3, <1>9, FinishSetWalks
<1> QED
  BY <1>4, <1>8, <1>9 DEF q, t

(* A room that the timer has just finished is not idle yet, so it is not   *)
(* deleted in the same step.                                               *)
LEMMA MaintainWalks ==
  ASSUME IInv, LifeInv, NEW c \in Code, NEW fetch \in Fetches, Maintain(c, fetch)
  PROVE  WalksAt(c)
<1> DEFINE r == Emit(rooms[c])
           P == Presence(c, fetch)
<1>1. Exists(c) /\ rooms[c] \in Room /\ FinishedTtl \in Nat
  BY RoomOf, ConstantsAssumption DEF Maintain
<1>2. \/ Expired(r, P, c) /\ DeleteRoom(c, P, Bindings(c))
      \/ rooms' = [rooms EXCEPT ![c] = r]
  BY DEF Maintain
<1>3. ASSUME Expired(r, P, c), rooms[c].status = "playing" PROVE FALSE
  <2>1. r.status = "lobby" \/ (r.status = "finished" /\ r.idle > FinishedTtl)
    BY <1>3 DEF Expired
  <2>2. \/ r.status = "playing" \/ (r.status = "finished" /\ r.idle = 0)
    BY <1>1, <1>3, EmitLife
  <2> HIDE DEF r
  <2> QED
    BY <1>1, <2>1, <2>2
<1>4. CASE rooms' = [rooms EXCEPT ![c] = r]
  <2>1. OnBoard(rooms[c])
    BY <1>1 DEF LifeInv, Exists
  <2> QED
    BY <1>1, <1>4, <2>1, EmitSetWalks DEF SameLife
<1>5. CASE Expired(r, P, c) /\ DeleteRoom(c, P, Bindings(c))
  BY <1>1, <1>3, <1>5, DeleteWalks
<1> QED
  BY <1>2, <1>4, <1>5

LEMMA AdminEndWalks ==
  ASSUME IInv, LifeInv, NEW c \in Code, AdminEnd(c)
  PROVE  WalksAt(c)
<1>1. Exists(c) /\ rooms[c].status # "finished" /\ rooms' = [rooms EXCEPT ![c] = End(rooms[c])]
  BY DEF AdminEnd
<1>2. rooms[c] \in Room /\ Unopened(rooms[c]) /\ OnBoard(rooms[c])
  BY <1>1, RoomOf DEF LifeInv, Exists
<1>3. /\ Walks(rooms[c], End(rooms[c])) /\ End(rooms[c]) # None
      /\ OnBoard(End(rooms[c]))
  BY <1>1, <1>2, EndWalks, EndSame, EndBoard, NoneAssumption DEF SameList
<1> QED
  BY <1>1, <1>3, SetWalks

LEMMA NextWalks ==
  ASSUME IInv, LifeInv, [Next]_vars
  PROVE  AllSame \/ \E c \in Code : WalksAt(c)
<1>1. ASSUME rooms' = rooms PROVE AllSame
  BY <1>1 DEF AllSame, SameLife
<1>2. ASSUME NEW s \in Socket, Receive(s) PROVE AllSame \/ \E c \in Code : WalksAt(c)
  <2>1. CASE \E ref \in SubmitterRefs(s) : SubmitContest(s, ref)
    BY <2>1, SubmitContestWalks
  <2>2. CASE ~\E ref \in SubmitterRefs(s) : SubmitContest(s, ref)
    <3>1. rooms' = rooms
      BY <1>2, <2>2 DEF Receive, Connect, Disconnect, LeaveSpectator, SendAsPlayer, SendKick,
         SendStartIfReleased, SendCreate, SendJoin, SendRejoin, SendEvent, SendAnswer, RefuseAnswer
    <3> QED
      BY <1>1, <3>1
  <2> QED
    BY <2>1, <2>2
<1>3. ASSUME NEW c \in Code, Serve(c) PROVE WalksAt(c)
  BY <1>3, QuietWalks, BodyWalks DEF Serve
<1>4. ASSUME NEW c \in Code, AdminEnd(c) PROVE WalksAt(c)
  BY <1>4, AdminEndWalks
<1>5. ASSUME NEW c \in Code, ReadRoom(c) PROVE AllSame
  BY <1>1, <1>5 DEF ReadRoom
<1>6. ASSUME NEW c \in Code, NEW fetch \in Fetches, Maintain(c, fetch) PROVE WalksAt(c)
  BY <1>6, MaintainWalks
<1>7. CASE RoomCreate \/ EventRegister \/ EventSpectate
  BY <1>1, <1>7, EventWalks
<1>8. CASE Tick
  <2> SUFFICES ASSUME NEW c \in Code
               PROVE  /\ rooms'[c] = None <=> rooms[c] = None
                      /\ rooms[c] # None => /\ SameLife(rooms[c], rooms'[c])
                                            /\ rooms'[c].players = rooms[c].players
    BY DEF AllSame
  <2>1. rooms'[c] = IF rooms[c] # None THEN Older(rooms[c]) ELSE None
    BY <1>8 DEF Tick, Exists
  <2>2. rooms[c] # None => rooms[c] \in Room
    BY RoomOf DEF Exists
  <2> QED
    BY <2>1, <2>2, OlderLife
<1>9. CASE EventPhase \/ Restart \/ UNCHANGED vars
  BY <1>1, <1>9 DEF EventPhase, Restart, vars
<1> QED
  BY <1>2, <1>3, <1>4, <1>5, <1>6, <1>7, <1>8, <1>9 DEF Next

LEMMA LifeInvKept ==
  ASSUME LifeInv, AllSame \/ \E c \in Code : WalksAt(c)
  PROVE  LifeInv'
<1> SUFFICES ASSUME NEW d \in Code, rooms'[d] # None
             PROVE  Unopened(rooms'[d]) /\ OnBoard(rooms'[d])
  BY DEF LifeInv
<1>1. CASE AllSame
  BY <1>1 DEF AllSame, SameLife, LifeInv, Unopened, OnBoard
<1>2. ASSUME NEW c \in Code, WalksAt(c) PROVE Unopened(rooms'[d]) /\ OnBoard(rooms'[d])
  <2>1. CASE d # c
    BY <1>2, <2>1 DEF WalksAt, LifeInv
  <2>2. CASE d = c
    BY <1>2, <2>2 DEF WalksAt, LifeInv, Opened, Unopened, Walks, SameLife
  <2> QED
    BY <2>1, <2>2
<1> QED
  BY <1>1, <1>2
-----------------------------------------------------------------------------
(* What is sealed.  Attempts are sealed while an exam runs, and forgotten  *)
(* with a player who leaves the lobby or with the room; so nothing changes *)
(* in a finished room that stays.                                          *)

SealedSame(P) == \A p \in Player : P[p].sealed = player[p].sealed

SealsAt(c) ==
  /\ Exists(c) /\ (rooms[c].status # "finished" \/ rooms'[c] = None)
  /\ \A p \in Player \ Members(c) : player'[p].sealed = player[p].sealed

LEMMA PresenceSealed ==
  ASSUME IInv, NEW c \in Code, NEW fetch
  PROVE  Presence(c, fetch) \in [Player -> PlayerState] /\ SealedSame(Presence(c, fetch))
<1>1. Presence(c, fetch) \in [Player -> PlayerState]
  BY RefreshGood DEF IInv, Good, Typed
<1>2. SealedSame(Presence(c, fetch))
  BY PresenceKeeps DEF IInv, SealedSame
<1> QED
  BY <1>1, <1>2

LEMMA AttachSealed ==
  ASSUME NEW P \in [Player -> PlayerState], SealedSame(P), NEW p, NEW s, NEW t
  PROVE  SealedSame(Attach(P, p, s, t)) /\ SealedSame([P EXCEPT ![p].connected = FALSE])
<1>1. ASSUME NEW x \in Player
      PROVE  /\ Attach(P, p, s, t)[x].sealed = P[x].sealed
             /\ [P EXCEPT ![p].connected = FALSE][x].sealed = P[x].sealed
  BY DEF Attach, PlayerState
<1> QED
  BY <1>1 DEF SealedSame

LEMMA ForgetSealed ==
  ASSUME NEW P, SealedSame(P), NEW c \in Code, NEW gone, gone \subseteq Members(c),
         Exists(c), rooms[c].status # "finished" \/ rooms'[c] = None, player' = Forget(P, gone)
  PROVE  SealsAt(c)
  BY DEF SealsAt, SealedSame, Forget

LEMMA DeleteSealed ==
  ASSUME IInv, NEW c \in Code, Exists(c), NEW P, SealedSame(P), NEW B, DeleteRoom(c, P, B)
  PROVE  SealsAt(c)
<1>1. rooms'[c] = None
  BY DEF DeleteRoom, IInv, Good, Typed
<1> QED
  BY <1>1, ForgetSealed DEF DeleteRoom

LEMMA SealSealed ==
  ASSUME IInv, NEW c \in Code, Exists(c), rooms[c].status = "playing",
         NEW P \in [Player -> PlayerState], SealedSame(P), NEW p \in Members(c), NEW r,
         player' = Seal(P, r, p)
  PROVE  SealsAt(c)
<1>1. ASSUME NEW x \in Player \ Members(c) PROVE player'[x] = P[x]
  BY DEF Seal
<1> QED
  BY <1>1 DEF SealsAt, SealedSame

LEMMA QuietSealed ==
  ASSUME IInv, NEW c \in Code,
         PlayerReady(c) \/ ProblemSet(c) \/ ItemUse(c) \/ RoomStart(c) \/ RoomStartIfReleased(c)
           \/ RoomEnd(c) \/ RoomRevealNext(c) \/ AdminEnd(c) \/ ReadRoom(c)
  PROVE  SealedSame(player')
<1>1. \E fetch \in Fetches : player' = Presence(c, fetch)
  BY DEF PlayerReady, ProblemSet, ItemUse, ActivityUnlessRefused, RoomStart, RoomStartIfReleased,
     RoomEnd, RoomRevealNext, AdminEnd, ReadRoom, Change
<1> QED
  BY <1>1, PresenceSealed

LEMMA EnterSealed ==
  ASSUME NEW c, NEW s, NEW P \in [Player -> PlayerState], SealedSame(P), Enter(c, s, P)
  PROVE  SealedSame(player')
<1>1. PICK p \in FreshPlayers, t \in FreshTokens : player' = Attach(P, p, s, t)
  BY DEF Enter
<1>2. SealedSame(Attach(P, p, s, t))
  BY AttachSealed
<1> QED
  BY <1>1, <1>2

LEMMA BodySealed ==
  ASSUME IInv, NEW c \in Code,
         AnswerSubmit(c) \/ RoomRejoin(c) \/ RoomJoin(c) \/ RoomLeave(c) \/ RoomKick(c)
           \/ SocketDisconnect(c)
  PROVE  SealedSame(player') \/ SealsAt(c)
<1> DEFINE ref == Head(queue[c]).ref
<1>1. \A fetch \in Fetches :
        /\ Presence(c, fetch) \in [Player -> PlayerState] /\ SealedSame(Presence(c, fetch))
  BY PresenceSealed
<1>2. ASSUME AnswerSubmit(c) PROVE SealedSame(player') \/ SealsAt(c)
  <2>1. PICK fetch \in Fetches :
          \/ player' = Presence(c, fetch)
          \/ /\ Current(ref, c) /\ rooms[c].status = "playing"
             /\ player' = Seal(Presence(c, fetch), rooms[c], ref.player)
    BY <1>2 DEF AnswerSubmit
  <2>2. Current(ref, c) => Exists(c) /\ ref.player \in Members(c)
    BY DEF Current, Members
  <2> HIDE DEF ref
  <2> QED
    BY <1>1, <2>1, <2>2, SealSealed
<1>3. ASSUME RoomRejoin(c) PROVE SealedSame(player')
  <2> DEFINE p == Head(queue[c]).target
             s == Head(queue[c]).socket
  <2>1. PICK fetch \in Fetches :
          \/ player' = Presence(c, fetch)
          \/ \E t \in FreshTokens : player' = Attach(Presence(c, fetch), p, s, t)
    BY <1>3 DEF RoomRejoin
  <2>2. ASSUME NEW t \in FreshTokens, player' = Attach(Presence(c, fetch), p, s, t)
        PROVE  SealedSame(player')
    <3>1. SealedSame(Attach(Presence(c, fetch), p, s, t))
      BY <1>1, AttachSealed
    <3> QED
      BY <2>2, <3>1
  <2> HIDE DEF p, s
  <2> QED
    BY <1>1, <2>1, <2>2
<1>4. ASSUME RoomJoin(c) PROVE SealedSame(player')
  <2>1. PICK fetch \in Fetches :
          \/ player' = Presence(c, fetch)
          \/ Enter(c, Head(queue[c]).socket, Presence(c, fetch))
    BY <1>4 DEF RoomJoin
  <2> QED
    BY <1>1, <2>1, EnterSealed
<1>5. ASSUME RoomLeave(c) PROVE SealedSame(player') \/ SealsAt(c)
  <2>1. PICK fetch \in Fetches :
          \/ player' = Presence(c, fetch)
          \/ Current(ref, c) /\ \E B : DeleteRoom(c, Presence(c, fetch), B)
          \/ /\ Current(ref, c) /\ rooms[c].status = "lobby"
             /\ player' = Forget(Presence(c, fetch), {ref.player})
          \/ player' = [Presence(c, fetch) EXCEPT ![ref.player].connected = FALSE]
    BY <1>5 DEF RoomLeave
  <2>2. Current(ref, c) => Exists(c) /\ {ref.player} \subseteq Members(c)
    BY DEF Current, Members
  <2> HIDE DEF ref
  <2>3. CASE Current(ref, c) /\ \E B : DeleteRoom(c, Presence(c, fetch), B)
    BY <1>1, <2>2, <2>3, DeleteSealed
  <2>4. CASE /\ Current(ref, c) /\ rooms[c].status = "lobby"
             /\ player' = Forget(Presence(c, fetch), {ref.player})
    BY <1>1, <2>2, <2>4, ForgetSealed
  <2> QED
    BY <1>1, <2>1, <2>3, <2>4, AttachSealed
<1>6. ASSUME RoomKick(c) PROVE SealedSame(player') \/ SealsAt(c)
  <2> DEFINE t == Head(queue[c]).target
  <2>1. PICK fetch \in Fetches :
          \/ player' = Presence(c, fetch)
          \/ /\ Exists(c) /\ rooms[c].status = "lobby" /\ {t} \subseteq Members(c)
             /\ player' = Forget(Presence(c, fetch), {t})
    BY <1>6 DEF RoomKick, Kickable
  <2> HIDE DEF t
  <2> QED
    BY <1>1, <2>1, ForgetSealed
<1>7. ASSUME SocketDisconnect(c) PROVE SealedSame(player') \/ SealsAt(c)
  <2>1. PICK fetch \in Fetches :
          LET Q == [Presence(c, fetch) EXCEPT ![ref.player].connected = FALSE] IN
          \/ player' = Presence(c, fetch)
          \/ player' = Q
          \/ Current(ref, c) /\ \E B : DeleteRoom(c, Q, B)
    BY <1>7 DEF SocketDisconnect
  <2>2. Current(ref, c) => Exists(c)
    BY DEF Current, Members
  <2> HIDE DEF ref
  <2> DEFINE Q == [Presence(c, fetch) EXCEPT ![ref.player].connected = FALSE]
  <2>3. SealedSame(Q)
    BY <1>1, AttachSealed
  <2> HIDE DEF Q
  <2>4. CASE Current(ref, c) /\ \E B : DeleteRoom(c, Q, B)
    BY <2>2, <2>3, <2>4, DeleteSealed
  <2> QED
    BY <1>1, <2>1, <2>3, <2>4 DEF Q
<1> QED
  BY <1>2, <1>3, <1>4, <1>5, <1>6, <1>7

LEMMA EventSealed ==
  ASSUME IInv, RoomCreate \/ EventRegister \/ EventSpectate
  PROVE  SealedSame(player')
<1>1. player \in [Player -> PlayerState] /\ SealedSame(player)
  BY DEF IInv, Good, Typed, SealedSame
<1>2. ASSUME NEW s, NEW p, NEW t, player' = Attach(player, p, s, t) PROVE SealedSame(player')
  <2>1. SealedSame(Attach(player, p, s, t))
    BY <1>1, AttachSealed
  <2> QED
    BY <1>2, <2>1
<1>3. CASE RoomCreate
  <2> DEFINE s == Head(queue[CreateKey]).socket
  <2>1. player' = player \/ \E p \in FreshPlayers, t \in FreshTokens : player' = Attach(player, p, s, t)
    BY <1>3 DEF RoomCreate, Open
  <2> HIDE DEF s
  <2> QED
    BY <1>1, <1>2, <2>1
<1>4. CASE EventRegister
  <2> DEFINE s == Head(queue[EventKey]).socket
  <2>1. \/ player' = player
        \/ \E p \in FreshPlayers, t \in FreshTokens : player' = Attach(player, p, s, t)
        \/ \E c \in Reusable, fetch \in Fetches : Enter(c, s, Presence(c, fetch))
    BY <1>4 DEF EventRegister, Open
  <2>2. ASSUME NEW c \in Reusable, NEW fetch \in Fetches, Enter(c, s, Presence(c, fetch))
        PROVE  SealedSame(player')
    <3>1. c \in Code
      BY DEF Reusable, ActiveRooms
    <3> QED
      BY <2>2, <3>1, PresenceSealed, EnterSealed
  <2> HIDE DEF s
  <2> QED
    BY <1>1, <1>2, <2>1, <2>2
<1>5. CASE EventSpectate
  <2>1. player' = player \/ \E c \in Code, fetch \in Fetches : player' = Presence(c, fetch)
    BY <1>5 DEF EventSpectate, SpectatedRooms, LatestEventRooms
  <2> QED
    BY <1>1, <2>1, PresenceSealed
<1> QED
  BY <1>3, <1>4, <1>5

LEMMA ContestSealed ==
  ASSUME IInv, NEW s \in Socket, NEW ref \in SubmitterRefs(s), SubmitContest(s, ref)
  PROVE  SealedSame(player') \/ \E c \in Code : SealsAt(c)
<1> DEFINE c == ref.code
<1>1. c \in Code
  BY RebindKeeps, RefFields DEF SubmitContest
<1>2. rooms[c].status = "playing" /\ ref.player \in Members(c) /\ Exists(c)
  BY DEF SubmitContest, MaySubmit, Current, Members
<1>3. player' = player \/ player' = Seal(player, rooms[c], ref.player)
  BY DEF SubmitContest
<1>4. player \in [Player -> PlayerState] /\ SealedSame(player)
  BY DEF IInv, Good, Typed, SealedSame
<1> HIDE DEF c
<1> QED
  BY <1>1, <1>2, <1>3, <1>4, SealSealed

LEMMA MaintainSealed ==
  ASSUME IInv, NEW c \in Code, NEW fetch \in Fetches, Maintain(c, fetch)
  PROVE  SealedSame(player') \/ SealsAt(c)
<1>1. SealedSame(Presence(c, fetch))
  BY PresenceSealed
<1>2. /\ Exists(c)
      /\ player' = Presence(c, fetch) \/ DeleteRoom(c, Presence(c, fetch), Bindings(c))
  BY DEF Maintain
<1> QED
  BY <1>1, <1>2, DeleteSealed

LEMMA NextSealed ==
  ASSUME IInv, [Next]_vars
  PROVE  SealedSame(player') \/ \E c \in Code : SealsAt(c)
<1>1. player' = player => SealedSame(player')
  BY DEF SealedSame
<1>2. ASSUME NEW s \in Socket, Receive(s)
      PROVE  SealedSame(player') \/ \E c \in Code : SealsAt(c)
  <2>1. CASE \E ref \in SubmitterRefs(s) : SubmitContest(s, ref)
    BY <2>1, ContestSealed
  <2>2. CASE ~\E ref \in SubmitterRefs(s) : SubmitContest(s, ref)
    <3>1. player' = player
      BY <1>2, <2>2 DEF Receive, Connect, Disconnect, LeaveSpectator, SendAsPlayer, SendKick,
         SendStartIfReleased, SendCreate, SendJoin, SendRejoin, SendEvent, SendAnswer, RefuseAnswer
    <3> QED
      BY <1>1, <3>1
  <2> QED
    BY <2>1, <2>2
<1>3. ASSUME NEW c \in Code, Serve(c) \/ AdminEnd(c) \/ ReadRoom(c)
      PROVE  SealedSame(player') \/ SealsAt(c)
  BY <1>3, QuietSealed, BodySealed DEF Serve
<1>4. CASE Restart
  <2>1. player \in [Player -> PlayerState]
    BY DEF IInv, Good, Typed
  <2>2. ASSUME NEW p \in Player PROVE player'[p].sealed = player[p].sealed
    BY <1>4, <2>1 DEF Restart, PlayerState
  <2> QED
    BY <2>2 DEF SealedSame
<1>5. CASE Tick \/ EventPhase \/ UNCHANGED vars
  BY <1>1, <1>5 DEF Tick, EventPhase, vars
<1> QED
  BY <1>2, <1>3, <1>4, <1>5, EventSealed, MaintainSealed DEF Next

(* What the reveal of one room can open, of which there are finitely many. *)
Openings(r, P) ==
  {x \in (r.frozen \cap IdsIn(r.players)) \X (1 .. MaxSealed) : x[2] <= P[x[1]].sealed}

LEMMA OpeningsFinite == ASSUME NEW r \in Room, NEW P PROVE Cardinality(Openings(r, P)) \in Nat
<1> DEFINE list == r.players
           rows == r.frozen \cap IdsIn(list)
           places == 1 .. Len(list)
<1>1. list \in Seq(Player) /\ IdsIn(list) = {list[i] : i \in places}
  BY DEF Room, IdsIn
<1>2. Len(list) \in Nat /\ MaxSealed \in Nat
  BY <1>1, ConstantsAssumption
<1>3. IsFiniteSet(IdsIn(list))
  <2> DEFINE f == [i \in places |-> list[i]]
  <2>1. f \in Surjection(places, IdsIn(list))
    BY <1>1 DEF Surjection
  <2>2. IsFiniteSet(places)
    BY <1>2, FS_Interval
  <2> HIDE DEF f, places
  <2> QED
    BY <2>1, <2>2, FS_Surjection
<1>4. IsFiniteSet(rows)
  BY <1>3, FS_Subset
<1>5. IsFiniteSet(1 .. MaxSealed)
  BY <1>2, FS_Interval
<1> HIDE DEF rows
<1>6. IsFiniteSet(rows \X (1 .. MaxSealed))
  BY <1>4, <1>5, FS_Product
<1>7. Openings(r, P) \subseteq rows \X (1 .. MaxSealed)
  BY DEF Openings, rows
<1>8. IsFiniteSet(Openings(r, P))
  BY <1>6, <1>7, FS_Subset
<1> QED
  BY <1>8, FS_CardinalityType

(* In a finished room that stays the reveal can open what it could before. *)
LEMMA TotalKept ==
  ASSUME IInv, NEW c \in Code, Exists(c), rooms'[c] # None, rooms[c].status = "finished",
         rooms'[c].frozen = rooms[c].frozen, rooms'[c].players = rooms[c].players,
         SealedSame(player') \/ \E d \in Code : SealsAt(d)
  PROVE  SealedTotal(c)' = SealedTotal(c)
<1>1. Members(c)' = Members(c) /\ Members(c) \subseteq Player
  BY MembersRoom DEF Members, Exists
<1>2. \A p \in Members(c) : player'[p].sealed = player[p].sealed
  <2>1. ASSUME NEW d \in Code, SealsAt(d), NEW p \in Members(c)
        PROVE  player'[p].sealed = player[p].sealed
    <3>1. d # c
      BY <2>1 DEF SealsAt
    <3>2. p \notin Members(d)
      BY <3>1, MembersIn DEF IInv, Good, InOneRoom
    <3> QED
      BY <1>1, <2>1, <3>2 DEF SealsAt
  <2> QED
    BY <1>1, <2>1 DEF SealedSame
<1> DEFINE rows == rooms[c].frozen \cap Members(c)
<1>3. {x \in rows \X (1 .. MaxSealed) : x[2] <= player'[x[1]].sealed}
      = {x \in rows \X (1 .. MaxSealed) : x[2] <= player[x[1]].sealed}
  BY <1>2
<1>4. (rooms[c].frozen \cap Members(c))' = rows
  BY <1>1
<1> QED
  BY <1>3, <1>4 DEF SealedTotal

(* No reveal is ahead of what was sealed.                                  *)
RevealInv == \A c \in Code : Exists(c) => rooms[c].reveal <= SealedTotal(c)

LEMMA RevealInvKept ==
  ASSUME IInv, IInv', LifeInv, RevealInv, [Next]_vars
  PROVE  RevealInv'
<1> SUFFICES ASSUME NEW c \in Code, rooms'[c] # None PROVE rooms'[c].reveal <= SealedTotal(c)'
  BY DEF RevealInv, Exists
<1> DEFINE r == rooms[c]
           q == rooms'[c]
<1>1. SealedTotal(c)' \in Nat
  <2>1. rooms' \in [Code -> Room \cup {None}]
    BY DEF IInv, Good, Typed
  <2>2. q \in Room
    BY <2>1
  <2>3. SealedTotal(c)' = Cardinality(Openings(q, player'))
    BY DEF SealedTotal, Openings, Members, Exists
  <2> HIDE DEF q
  <2> QED
    BY <2>2, <2>3, OpeningsFinite
<1>2. r # None => Unopened(r) /\ r \in Room /\ r.reveal \in Nat
  BY RoomOf, RoomFields DEF LifeInv, Exists
<1>3. \/ q.reveal = 0
      \/ /\ r # None /\ r.status = "finished" /\ q.frozen = r.frozen /\ q.players = r.players
         /\ q.reveal = r.reveal \/ (q.reveal = r.reveal + 1 /\ r.reveal < SealedTotal(c))
  <2>1. ASSUME r # None, SameLife(r, q), q.players = r.players
        PROVE  \/ q.reveal = 0
               \/ /\ r.status = "finished" /\ q.frozen = r.frozen /\ q.players = r.players
                  /\ q.reveal = r.reveal
    BY <1>2, <2>1 DEF SameLife, Unopened
  <2>2. CASE AllSame
    <3>1. r # None /\ SameLife(r, q) /\ q.players = r.players
      BY <2>2 DEF AllSame
    <3> QED
      BY <2>1, <3>1
  <2>3. ASSUME NEW d \in Code, WalksAt(d), d # c \/ q = r
        PROVE  \/ q.reveal = 0
               \/ /\ r # None /\ r.status = "finished" /\ q.frozen = r.frozen /\ q.players = r.players
                  /\ q.reveal = r.reveal
    <3>1. q = r
      BY <2>3 DEF WalksAt
    <3> QED
      BY <2>1, <3>1 DEF SameLife
  <2>4. ASSUME WalksAt(c), q # r
        PROVE  \/ q.reveal = 0
               \/ /\ r # None /\ r.status = "finished" /\ q.frozen = r.frozen /\ q.players = r.players
                  /\ q.reveal = r.reveal \/ (q.reveal = r.reveal + 1 /\ r.reveal < SealedTotal(c))
    <3>1. CASE r = None /\ Opened(q)
      BY <3>1 DEF Opened, Unopened
    <3>2. CASE r # None /\ Walks(r, q) /\ Settled(c)
      <4>1. CASE SameLife(r, q)
        <5>1. q.status = r.status /\ q.frozen = r.frozen /\ q.reveal = r.reveal
          BY <4>1 DEF SameLife
        <5>2. r.status = "finished" => q.players = r.players
          BY <3>2 DEF Settled
        <5> QED
          BY <1>2, <3>2, <5>1, <5>2 DEF Unopened
      <4>2. CASE r.status = "finished" /\ q.frozen = r.frozen /\ q.reveal = r.reveal + 1
        <5>1. q.players = r.players /\ r.reveal < SealedTotal(c)
          BY <1>2, <3>2, <4>2 DEF Settled
        <5> QED
          BY <3>2, <4>2, <5>1
      <4> QED
        BY <3>2, <4>1, <4>2 DEF Walks
    <3> QED
      BY <2>4, <3>1, <3>2 DEF WalksAt
  <2> QED
    BY <2>2, <2>3, <2>4, NextWalks
<1>4. CASE q.reveal = 0
  BY <1>1, <1>4
<1>5. CASE /\ r # None /\ r.status = "finished" /\ q.frozen = r.frozen /\ q.players = r.players
           /\ q.reveal = r.reveal \/ (q.reveal = r.reveal + 1 /\ r.reveal < SealedTotal(c))
  <2>1. SealedTotal(c)' = SealedTotal(c)
    BY <1>5, NextSealed, TotalKept DEF Exists
  <2>2. r.reveal <= SealedTotal(c)
    BY <1>5 DEF RevealInv, Exists
  <2> DEFINE n == r.reveal
             m == q.reveal
             total == SealedTotal(c)
  <2>3. n \in Nat /\ total \in Nat /\ n <= total /\ (m = n \/ (m = n + 1 /\ n < total))
    BY <1>1, <1>2, <1>5, <2>1, <2>2
  <2>4. m <= total
    <3> HIDE DEF n, m, total
    <3> QED
      BY <2>3
  <2> QED
    BY <2>1, <2>4
<1> QED
  BY <1>3, <1>4, <1>5
-----------------------------------------------------------------------------
(* Before the end of its exam no room has revealed anything, and a lobby   *)
(* has no board; a board lists players of its room and is there at the end.*)
THEOREM NothingBeforeTheEnd == Spec => []LifeInv
<1>1. Init => LifeInv
  BY DEF Init, LifeInv
<1>2. IInv /\ LifeInv /\ [Next]_vars => LifeInv'
  BY NextWalks, LifeInvKept
<1> QED
  BY <1>1, <1>2, OwnSockets, PTL DEF Spec

(* The board lists players of the room and is there at the end, and the    *)
(* reveal never opens more than was sealed, although attempts are sealed   *)
(* without the room's lock and a room's members, board and counter are     *)
(* written by different handlers.                                          *)
THEOREM BoardKept == Spec => []BoardConsistent
<1>1. Init => RevealInv
  BY DEF Init, RevealInv, Exists
<1>2. IInv /\ IInv' /\ LifeInv /\ RevealInv /\ [Next]_vars => RevealInv'
  BY RevealInvKept
<1>3. IInv /\ LifeInv /\ RevealInv => BoardConsistent
  <2> SUFFICES ASSUME IInv, LifeInv, RevealInv, NEW c \in Code, Exists(c)
               PROVE  /\ rooms[c].frozen \subseteq Members(c)
                      /\ rooms[c].status = "finished" /\ Members(c) # {} => rooms[c].frozen # {}
                      /\ rooms[c].reveal > 0 => rooms[c].status = "finished"
                      /\ rooms[c].reveal <= SealedTotal(c)
    BY DEF BoardConsistent
  <2>1. Unopened(rooms[c]) /\ OnBoard(rooms[c]) /\ Members(c) = IdsIn(rooms[c].players)
    BY DEF LifeInv, Members, Exists
  <2> QED
    BY <2>1 DEF Unopened, OnBoard, RevealInv
<1> QED
  BY <1>1, <1>2, <1>3, OwnSockets, NothingBeforeTheEnd, PTL DEF Spec

(* Every interleaving of requests, timer, administrator and restarts walks *)
(* each room through the stages of RoomLife.                               *)
THEOREM Implements == Spec => LifeSpec
<1> DEFINE stage  == [c \in Code |-> IF rooms[c] # None THEN rooms[c].status ELSE "absent"]
           board  == [c \in Code |-> IF rooms[c] # None THEN rooms[c].frozen ELSE {}]
           opened == [c \in Code |-> IF rooms[c] # None THEN rooms[c].reveal ELSE 0]
<1>1. Init => Life!Init
  BY DEF Init, Life!Init, Exists
<1>2. IInv /\ IInv' /\ LifeInv /\ [Next]_vars => [Life!Next]_(Life!vars)
  <2> SUFFICES ASSUME IInv, IInv', LifeInv, [Next]_vars
               PROVE  Life!Next \/ (stage' = stage /\ board' = board /\ opened' = opened)
    BY DEF Life!vars, Exists
  <2>1. CASE AllSame
    <3>1. \A c \in Code : /\ rooms'[c] = None <=> rooms[c] = None
                          /\ rooms[c] # None => /\ rooms'[c].status = rooms[c].status
                                                /\ rooms'[c].frozen = rooms[c].frozen
                                                /\ rooms'[c].reveal = rooms[c].reveal
      BY <2>1 DEF AllSame, SameLife
    <3> QED
      BY <3>1
  <2>2. ASSUME NEW c \in Code, WalksAt(c)
        PROVE  Life!Next \/ (stage' = stage /\ board' = board /\ opened' = opened)
    <3>1. \A d \in Code \ {c} : rooms'[d] = rooms[d]
      BY <2>2 DEF WalksAt
    <3>2. ASSUME NEW s, NEW b, NEW n,
                 s = (IF rooms'[c] # None THEN rooms'[c].status ELSE "absent"),
                 b = (IF rooms'[c] # None THEN rooms'[c].frozen ELSE {}),
                 n = (IF rooms'[c] # None THEN rooms'[c].reveal ELSE 0)
          PROVE  Life!Become(c, s, b, n)
      <4>1. stage' = [stage EXCEPT ![c] = s]
        BY <3>1, <3>2
      <4>2. board' = [board EXCEPT ![c] = b]
        BY <3>1, <3>2
      <4>3. opened' = [opened EXCEPT ![c] = n]
        BY <3>1, <3>2
      <4> QED
        BY <4>1, <4>2, <4>3 DEF Life!Become, Exists
    <3>3. rooms[c] # None => Unopened(rooms[c]) /\ rooms[c].status \in Statuses
      BY RoomOf, RoomFields DEF LifeInv, Exists
    <3>4. rooms'[c] # None => rooms'[c].frozen \in SUBSET Player
      <4>1. rooms' \in [Code -> Room \cup {None}]
        BY DEF IInv, Good, Typed
      <4>2. rooms'[c] # None => rooms'[c] \in Room
        BY <4>1
      <4> QED
        BY <4>2, RoomFields
    <3>5. /\ stage[c] = (IF rooms[c] # None THEN rooms[c].status ELSE "absent")
          /\ board[c] = (IF rooms[c] # None THEN rooms[c].frozen ELSE {})
          /\ opened[c] = (IF rooms[c] # None THEN rooms[c].reveal ELSE 0)
      OBVIOUS
    <3> DEFINE q == rooms'[c]
               r == rooms[c]
    <3>6. CASE r = None /\ q # None /\ Opened(q)
      <4>1. CASE q.status = "lobby"
        <5>1. Life!Become(c, "lobby", {}, 0)
          BY <3>2, <3>6, <4>1 DEF Opened, Unopened
        <5>2. Life!Open(c)
          BY <3>5, <3>6, <5>1 DEF Life!Open, Exists
        <5> QED
          BY <5>2 DEF Life!Next
      <4>2. CASE q.status = "playing"
        <5>1. Life!Become(c, "playing", q.frozen, 0)
          BY <3>2, <3>6, <4>2 DEF Opened, Unopened
        <5>2. Life!Begin(c)
          BY <3>4, <3>5, <3>6, <5>1 DEF Life!Begin, Life!Boards, Exists
        <5> QED
          BY <5>2 DEF Life!Next
      <4> QED
        BY <3>6, <4>1, <4>2 DEF Opened
    <3>7. CASE r # None /\ r.status # "playing" /\ q = None
      <4>1. Life!Become(c, "absent", {}, 0)
        BY <3>2, <3>7
      <4>2. Life!Close(c)
        BY <3>3, <3>7, <4>1 DEF Life!Close, Exists, Statuses
      <4> QED
        BY <4>2 DEF Life!Next
    <3>8. CASE r # None /\ q # None /\ Walks(r, q)
      <4>1. CASE SameLife(r, q)
        <5>1. \A d \in Code : /\ rooms'[d] = None <=> rooms[d] = None
                              /\ rooms[d] # None => /\ rooms'[d].status = rooms[d].status
                                                    /\ rooms'[d].frozen = rooms[d].frozen
                                                    /\ rooms'[d].reveal = rooms[d].reveal
          BY <3>1, <3>8, <4>1 DEF SameLife
        <5> QED
          BY <5>1
      <4>2. CASE /\ r.status \in {"lobby", "playing"} /\ q.status = "playing" /\ q.reveal = 0
                 /\ r.status = "playing" => r.frozen = {}
        <5>1. Life!Become(c, "playing", q.frozen, 0) /\ q.frozen \in SUBSET Player
          BY <3>2, <3>4, <3>8, <4>2
        <5>2. Life!Begin(c) \/ Life!Seal(c)
          BY <3>8, <4>2, <5>1 DEF Life!Begin, Life!Seal, Life!Boards, Exists
        <5> QED
          BY <5>2 DEF Life!Next
      <4>3. CASE /\ r.status \in {"lobby", "playing"} /\ q.status = "finished" /\ q.reveal = 0
                 /\ r.frozen # {} => q.frozen = r.frozen
        <5>1. Life!Become(c, "finished", q.frozen, 0) /\ q.frozen \in SUBSET Player
          BY <3>2, <3>4, <3>8, <4>3
        <5>2. Life!End(c) \/ Life!Cancel(c)
          BY <3>8, <4>3, <5>1 DEF Life!End, Life!Cancel, Life!Boards, Exists
        <5> QED
          BY <5>2 DEF Life!Next
      <4>4. CASE r.status = "finished" /\ q.status = "finished" /\ q.frozen = r.frozen
                 /\ q.reveal = r.reveal + 1
        <5> DEFINE m == r.reveal + 1
        <5>1. /\ "finished" = (IF rooms'[c] # None THEN rooms'[c].status ELSE "absent")
              /\ r.frozen = (IF rooms'[c] # None THEN rooms'[c].frozen ELSE {})
              /\ m = (IF rooms'[c] # None THEN rooms'[c].reveal ELSE 0)
          BY <3>8, <4>4
        <5>2. /\ stage[c] = "finished" /\ board[c] = r.frozen
              /\ m = opened[c] + 1
          BY <3>5, <3>8, <4>4
        <5>3. /\ stage' = [stage EXCEPT ![c] = "finished"]
              /\ board' = [board EXCEPT ![c] = r.frozen]
              /\ opened' = [opened EXCEPT ![c] = m]
          BY <3>1, <5>1
        <5>4. /\ stage' = [stage EXCEPT ![c] = "finished"]
              /\ board' = [board EXCEPT ![c] = board[c]]
              /\ opened' = [opened EXCEPT ![c] = opened[c] + 1]
          <6> HIDE DEF m, r, q, stage, board, opened
          <6> QED
            BY <5>2, <5>3
        <5>5. Life!Reveal(c)
          BY <5>2, <5>4 DEF Life!Reveal, Life!Become, Exists
        <5> QED
          BY <5>5 DEF Life!Next
      <4> QED
        BY <3>8, <4>1, <4>2, <4>3, <4>4 DEF Walks
    <3>9. CASE q = r
      <4>1. \A d \in Code : rooms'[d] = rooms[d]
        BY <3>1, <3>9
      <4> QED
        BY <4>1
    <3> QED
      BY <2>2, <3>6, <3>7, <3>8, <3>9 DEF WalksAt
  <2> QED
    BY <2>1, <2>2, NextWalks
<1> QED
  BY <1>1, <1>2, OwnSockets, NothingBeforeTheEnd, PTL DEF Spec, LifeSpec, Life!Spec
=============================================================================
