----------------------------- MODULE MCRoomStore -----------------------------
(* Processes are alike, and so are the answers of players who were there   *)
(* from the start and those of players who register: no definition names   *)
(* one of them.                                                            *)
EXTENDS RoomStore, TLC

CONSTANT Newcomers   \* answers of the player that a registration adds

MCPlayerOf ==
  [f \in Submission |-> IF f \in Newcomers THEN CHOOSE r \in Registration : TRUE ELSE None]

Symmetry == Permutations(Process) \cup Permutations(Newcomers)
              \cup Permutations(Submission \ Newcomers)
=============================================================================
