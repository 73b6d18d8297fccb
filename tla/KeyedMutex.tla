----------------------------- MODULE KeyedMutex -----------------------------
(***************************************************************************)
(* server/keyedMutex.ts.  run(key, task) chains a promise per key: it reads*)
(* the tail of the key's queue, makes itself the new tail, waits for the   *)
(* old tail, runs the task, releases, and drops the map entry if it is     *)
(* still the tail.  Each element of Calls is one call of run().            *)
(***************************************************************************)
EXTENDS Naturals, FiniteSets

CONSTANTS Calls,   \* the calls of run()
          Keys,    \* the keys run() is called with
          None     \* no promise, no key

ASSUME NoneAssumption == None \notin Calls /\ None \notin Keys

VARIABLES
  queues,     \* the map: key -> call whose `next` promise is the tail, or None
  previous,   \* previous[c]: the call whose promise c awaits, None for Promise.resolve()
  key,        \* key[c]: the argument of call c, None before the call is made
  pc,         \* idle | waiting (at `await previous`) | running | resolved | rejected
  ticket,     \* history: the position of c among all the calls made, 0 before
  made        \* history: how many calls have been made

vars == <<queues, previous, key, pc, ticket, made>>

Settled(c) == pc[c] \in {"resolved", "rejected"}
Active(c)  == pc[c] \in {"waiting", "running"}

Init ==
  /\ queues = [k \in Keys |-> None]
  /\ previous = [c \in Calls |-> None]
  /\ key = [c \in Calls |-> None]
  /\ pc = [c \in Calls |-> "idle"]
  /\ ticket = [c \in Calls |-> 0]
  /\ made = 0

(* The synchronous part of run(), up to `await previous`.                  *)
Enter(c, k) ==
  /\ pc[c] = "idle"
  /\ previous' = [previous EXCEPT ![c] = queues[k]]
  /\ queues' = [queues EXCEPT ![k] = c]
  /\ key' = [key EXCEPT ![c] = k]
  /\ pc' = [pc EXCEPT ![c] = "waiting"]
  /\ made' = made + 1
  /\ ticket' = [ticket EXCEPT ![c] = made + 1]

(* Faulty variants: a promise that does not wait for a waiting predecessor,*)
(* and one that a rejected task never settles.                             *)
ReleasedUnlessRunning(p) == p # None => pc[p] # "running"
ReleasedIfResolved(p)    == p # None => pc[p] = "resolved"

(* The promise `next` of a call: it is settled once the call has released. *)
Released(p) == p # None => Settled(p)

(* `await previous` continues and the task starts.                         *)
Start(c) ==
  /\ pc[c] = "waiting"
  /\ Released(previous[c])
  /\ pc' = [pc EXCEPT ![c] = "running"]
  /\ UNCHANGED <<queues, previous, key, ticket, made>>

(* Faulty variant: the queue is removed although a later call is its tail. *)
FinishDroppingQueue(c, outcome) ==
  /\ pc[c] = "running"
  /\ pc' = [pc EXCEPT ![c] = outcome]
  /\ queues' = [queues EXCEPT ![key[c]] = None]
  /\ UNCHANGED <<previous, key, ticket, made>>

(* The task resolves or throws; `finally` releases in both cases and       *)
(* removes the queue when no later call has replaced its tail.             *)
Finish(c, outcome) ==
  /\ pc[c] = "running"
  /\ pc' = [pc EXCEPT ![c] = outcome]
  /\ queues' = [queues EXCEPT ![key[c]] = IF @ = c THEN None ELSE @]
  /\ UNCHANGED <<previous, key, ticket, made>>

Next ==
  \E c \in Calls :
    \/ \E k \in Keys : Enter(c, k)
    \/ Start(c)
    \/ \E outcome \in {"resolved", "rejected"} : Finish(c, outcome)

(* Promise callbacks run and every task settles: a room mutation ends in   *)
(* COMMIT or ROLLBACK, so its promise does not stay pending.               *)
Fairness == \A c \in Calls :
  /\ WF_vars(Start(c))
  /\ WF_vars(\E outcome \in {"resolved", "rejected"} : Finish(c, outcome))

Spec == Init /\ [][Next]_vars
FairSpec == Spec /\ Fairness
-----------------------------------------------------------------------------
TypeOK ==
  /\ queues \in [Keys -> Calls \cup {None}]
  /\ previous \in [Calls -> Calls \cup {None}]
  /\ key \in [Calls -> Keys \cup {None}]
  /\ pc \in [Calls -> {"idle", "waiting", "running", "resolved", "rejected"}]
  /\ ticket \in [Calls -> Nat]
  /\ made \in Nat

(* Two tasks never run at once under one key: what withRoomMutation and    *)
(* the contest submit path build on.                                       *)
MutualExclusion ==
  \A c, d \in Calls : pc[c] = "running" /\ pc[d] = "running" /\ key[c] = key[d] => c = d

(* First come, first served: a task that has started means every earlier   *)
(* call with its key has settled.  The promise chain gives this although   *)
(* the queue entry is dropped and made anew in between.                    *)
NoOvertaking ==
  \A c, d \in Calls :
    /\ pc[c] \in {"running", "resolved", "rejected"}
    /\ pc[d] # "idle" /\ key[d] = key[c] /\ ticket[d] < ticket[c]
    => Settled(d)

(* The map keeps an entry exactly while some call with that key is pending:*)
(* no entry leaks and no entry is dropped under a waiting call.            *)
EntryIffPending ==
  \A k \in Keys : queues[k] # None <=> \E c \in Calls : Active(c) /\ key[c] = k

(* The promise chain implements a lock per key, and a fair one: a task that*)
(* throws does not wedge its key, every call that waits is served.         *)
Lock == INSTANCE KeyLock WITH
  want <- key,
  holder <- [k \in Keys |-> IF \E c \in Calls : pc[c] = "running" /\ key[c] = k
                            THEN CHOOSE c \in Calls : pc[c] = "running" /\ key[c] = k
                            ELSE None],
  settled <- {c \in Calls : Settled(c)}

LockSpec == Lock!Spec
LockFairSpec == Lock!FairSpec
=============================================================================
