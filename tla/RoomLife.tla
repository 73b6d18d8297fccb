------------------------------ MODULE RoomLife ------------------------------
(***************************************************************************)
(* What a room promises, apart from who is in it and who is connected: its *)
(* exam runs once, the frozen board is sealed at most once per exam and is *)
(* the one the reveal starts from, the reveal opens one attempt at a time, *)
(* and only a lobby or a finished room is ever closed.  Rooms implements   *)
(* this specification.                                                     *)
(***************************************************************************)
EXTENDS Naturals

CONSTANTS Code, Player

VARIABLES
  stage,    \* stage[c]: absent, lobby, playing or finished
  board,    \* board[c]: the players on the frozen board
  opened    \* opened[c]: how many sealed attempts have been revealed

vars == <<stage, board, opened>>

Become(c, s, b, n) ==
  /\ stage' = [stage EXCEPT ![c] = s]
  /\ board' = [board EXCEPT ![c] = b]
  /\ opened' = [opened EXCEPT ![c] = n]

Boards == SUBSET Player

Init ==
  /\ stage = [c \in Code |-> "absent"]
  /\ board = [c \in Code |-> {}]
  /\ opened = [c \in Code |-> 0]

Open(c)  == stage[c] = "absent" /\ Become(c, "lobby", {}, 0)

(* The exam begins, at once when its release time has come; a freeze that  *)
(* covers the whole exam seals the board in the same step.                 *)
Begin(c) == /\ stage[c] \in {"absent", "lobby"}
            /\ \E b \in Boards : Become(c, "playing", b, 0)

Seal(c)  == /\ stage[c] = "playing" /\ board[c] = {}
            /\ \E b \in Boards : Become(c, "playing", b, 0)

(* The end keeps a board that was sealed before.                           *)
End(c)   == /\ stage[c] = "playing"
            /\ \E b \in Boards : /\ board[c] # {} => b = board[c]
                                 /\ Become(c, "finished", b, 0)

(* An administrator ends an exam that has not begun.                       *)
Cancel(c) == stage[c] = "lobby" /\ \E b \in Boards : Become(c, "finished", b, 0)

Reveal(c) == stage[c] = "finished" /\ Become(c, "finished", board[c], opened[c] + 1)

Close(c) == stage[c] \in {"lobby", "finished"} /\ Become(c, "absent", {}, 0)

Next == \E c \in Code :
  Open(c) \/ Begin(c) \/ Seal(c) \/ End(c) \/ Cancel(c) \/ Reveal(c) \/ Close(c)

Spec == Init /\ [][Next]_vars

(* Every exam that has begun ends, whatever the players do.                *)
FairSpec == Spec /\ \A c \in Code : WF_vars(End(c))
=============================================================================
