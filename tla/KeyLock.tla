------------------------------ MODULE KeyLock ------------------------------
(***************************************************************************)
(* What a user of KeyedMutex.run relies on: one lock per key.  A call asks *)
(* for the lock of its key, holds it while its task runs and gives it back *)
(* when the task settles, whichever way it settles.  Nothing is said here  *)
(* of promises or of the map of queues: KeyedMutex refines this module.    *)
(***************************************************************************)
CONSTANTS Calls,    \* the calls of run()
          Keys,     \* room codes and the other names run() is called with
          None      \* no key, no holder

VARIABLES want,     \* want[c]: the key call c asked for, None before it does
          holder,   \* holder[k]: the call whose task runs under key k, or None
          settled   \* the calls whose promise has settled

vars == <<want, holder, settled>>

Init ==
  /\ want = [c \in Calls |-> None]
  /\ holder = [k \in Keys |-> None]
  /\ settled = {}

Request(c, k) ==
  /\ want[c] = None
  /\ want' = [want EXCEPT ![c] = k]
  /\ UNCHANGED <<holder, settled>>

Acquire(c) ==
  /\ want[c] \in Keys
  /\ c \notin settled
  /\ holder[want[c]] = None
  /\ holder' = [holder EXCEPT ![want[c]] = c]
  /\ UNCHANGED <<want, settled>>

Release(c) ==
  /\ want[c] \in Keys
  /\ holder[want[c]] = c
  /\ holder' = [holder EXCEPT ![want[c]] = None]
  /\ settled' = settled \cup {c}
  /\ UNCHANGED want

Next == \E c \in Calls : \/ \E k \in Keys : Request(c, k)
                         \/ Acquire(c)
                         \/ Release(c)

Spec == Init /\ [][Next]_vars

(* A call that waits is served although others keep asking for its key.    *)
FairSpec == Spec /\ \A c \in Calls : SF_vars(Acquire(c)) /\ WF_vars(Release(c))
=============================================================================
