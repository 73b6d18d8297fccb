------------------------------ MODULE MCServer ------------------------------
(* What serialises the server's handlers, in three kinds of behaviour:     *)
(* calls of KeyedMutex; requests that open rooms; requests for places.     *)
EXTENDS KeyedMutex, RoomAdmission

CONSTANTS p, q, c1, c2, e1, e2, s1, h1, x

VARIABLE part

(* The requests that are made.  Two openings under one key, openings under *)
(* both while a time is up, two for the last place, one of each while a    *)
(* broadcast timer runs; always beside a handler of room x.                *)
Made == CASE part = "mutex" -> {}
          [] part = "opening" -> {c1, c2, e1, h1}
          [] part = "ending" -> {c1, e1, s1, h1}
          [] part = "places" -> {e1, e2, h1}
          [] part = "timer" -> {c1, e1, h1}

MCInit ==
  /\ part \in {"mutex", "opening", "ending", "places", "timer"}
  /\ Init /\ AdmissionInit
  /\ at = [r \in Request |-> IF r \in {c1, e1} THEN p ELSE q]
  /\ target[h1] = x

(* While rooms are opened one statement fails.                             *)
Served(r) ==
  \/ Ask(r) \/ Proceed(r)
  \/ part = "opening" /\ Fail(r) /\ \A u \in Request : stage[u] # "failed"

Bounded == /\ crashes' > 0 => part = "places"
           /\ captured' # captured => part = "timer" \/ (part = "places" /\ crashes = 0)
           /\ crashes' # crashes => timed = {} /\ \A c \in Room : captured[c] = NoRow

MCNext ==
  \/ part = "mutex" /\ Next /\ UNCHANGED <<admissionVars, part>>
  \/ /\ part # "mutex" /\ UNCHANGED <<vars, part>>
     /\ (\E r \in Made : Served(r)) \/ Elsewhere
     /\ Bounded

MCSpec == MCInit /\ [][MCNext]_<<vars, admissionVars, part>> /\ Fairness
=============================================================================
