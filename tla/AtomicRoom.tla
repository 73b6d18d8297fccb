----------------------------- MODULE AtomicRoom -----------------------------
(***************************************************************************)
(* A room whose changes happen one at a time, each at one moment between   *)
(* the request and its reply, on what the change before it has left, and   *)
(* whose reader finds the room as it is at one moment.  A request that is  *)
(* lost changes nothing.  Nothing is said here of transactions, locks and  *)
(* processes: RoomStore refines this module where every writer of the row  *)
(* holds the lock of the room.                                             *)
(***************************************************************************)
EXTENDS Naturals

CONSTANTS Mutation, Reader, None

VARIABLES content,   \* the operations that the room reflects, and how many changes it has had
          outcome,   \* of a request: "idle", "asked", then "acked", "refused" or "failed"
          found      \* the room that a request has seen, None before it does

vars == <<content, outcome, found>>

Request == Mutation \cup Reader

Init ==
  /\ content = [ops |-> {}, version |-> 0]
  /\ outcome = [o \in Request |-> "idle"]
  /\ found = [o \in Request |-> None]

Ask(o) ==
  /\ outcome[o] = "idle"
  /\ outcome' = [outcome EXCEPT ![o] = "asked"]
  /\ UNCHANGED <<content, found>>

(* The change is made, and the reply shows the room with it.               *)
Perform(o) ==
  /\ outcome[o] = "asked"
  /\ content' = [ops |-> content.ops \cup {o}, version |-> content.version + 1]
  /\ outcome' = [outcome EXCEPT ![o] = "acked"]
  /\ found' = [found EXCEPT ![o] = content']

(* A refusal judges the room as it is.                                     *)
Refuse(o) ==
  /\ outcome[o] = "asked"
  /\ outcome' = [outcome EXCEPT ![o] = "refused"]
  /\ found' = [found EXCEPT ![o] = content]
  /\ UNCHANGED content

Observe(q) ==
  /\ outcome[q] = "idle"
  /\ outcome' = [outcome EXCEPT ![q] = "asked"]
  /\ found' = [found EXCEPT ![q] = content]
  /\ UNCHANGED content

Return(q) ==
  /\ outcome[q] = "asked"
  /\ outcome' = [outcome EXCEPT ![q] = "acked"]
  /\ UNCHANGED <<content, found>>

(* One request fails, or all that a process has under way.                 *)
Lose(lost) ==
  /\ \A o \in lost : outcome[o] = "asked"
  /\ outcome' = [o \in Request |-> IF o \in lost THEN "failed" ELSE outcome[o]]
  /\ UNCHANGED <<content, found>>

Next ==
  \/ \E o \in Mutation : Ask(o) \/ Perform(o) \/ Refuse(o)
  \/ \E q \in Reader : Observe(q) \/ Return(q)
  \/ \E lost \in SUBSET Request : Lose(lost)

Spec == Init /\ [][Next]_vars
=============================================================================
