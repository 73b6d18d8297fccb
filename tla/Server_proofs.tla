---------------------------- MODULE Server_proofs ----------------------------
(***************************************************************************)
(* What serialises the server's handlers.  First KeyedMutex, for any number*)
(* of calls and keys: mutual exclusion and arrival order follow from one   *)
(* inductive invariant: the pending calls of a key form a list linked by   *)
(* `previous`, whose last element is the tail kept in the map.  Then       *)
(* RoomAdmission: the limit on active rooms and the places of a contest    *)
(* room, for any number of processes, requests, rooms and connections.     *)
(***************************************************************************)
EXTENDS KeyedMutex, RoomAdmission, FiniteSetTheorems, TLAPS


(* The call whose turn it is: pending, and the promise it awaits settled.  *)
AtHead(c) == Active(c) /\ Released(previous[c])

(* A call gets its key, and a number of its own, when it is made.          *)
CallsNumbered ==
  \A c \in Calls :
    /\ pc[c] # "idle" => key[c] \in Keys /\ ticket[c] \in 1 .. made
    /\ pc[c] = "idle" => key[c] = None
    /\ \A d \in Calls : pc[c] # "idle" /\ pc[d] # "idle" /\ ticket[c] = ticket[d] => c = d

(* `previous` leads to the call of the same key made just before.          *)
PreviousIsAdjacent ==
  \A c \in Calls :
    pc[c] # "idle" /\ previous[c] # None =>
      /\ pc[previous[c]] # "idle"
      /\ key[previous[c]] = key[c]
      /\ ticket[previous[c]] < ticket[c]
      /\ \A e \in Calls :
           pc[e] # "idle" /\ key[e] = key[c] =>
             ticket[e] <= ticket[previous[c]] \/ ticket[e] >= ticket[c]

(* The tail in the map is the last call of its key, and is pending.        *)
TailIsLast ==
  \A k \in Keys :
    /\ queues[k] = None => \A c \in Calls : Active(c) => key[c] # k
    /\ queues[k] # None =>
         /\ Active(queues[k]) /\ key[queues[k]] = k
         /\ \A c \in Calls : pc[c] # "idle" /\ key[c] = k => ticket[c] <= ticket[queues[k]]

(* The call whose turn it is is the oldest pending one of its key.         *)
HeadIsOldest ==
  \A c, d \in Calls : AtHead(c) /\ Active(d) /\ key[d] = key[c] => ticket[c] <= ticket[d]

RunningIsHead == \A c \in Calls : pc[c] = "running" => AtHead(c)

IInv ==
  /\ TypeOK
  /\ CallsNumbered
  /\ PreviousIsAdjacent
  /\ TailIsLast
  /\ HeadIsOldest
  /\ RunningIsHead
-----------------------------------------------------------------------------
(* Before any call of run() the queues are empty and every part of the     *)
(* invariant holds.                                                        *)
LEMMA InitIInv == Init => IInv
  BY NoneAssumption DEF Init, IInv, TypeOK, CallsNumbered, PreviousIsAdjacent, TailIsLast,
     HeadIsOldest, RunningIsHead, AtHead, Active, Released, Settled

(* The synchronous part of run() keeps the list of a key: the new call is  *)
(* linked to the old tail and becomes the tail itself.                     *)
LEMMA EnterIInv ==
  ASSUME IInv, NEW c \in Calls, NEW k \in Keys, Enter(c, k)
  PROVE  IInv'
<1> USE NoneAssumption DEF IInv
<1>1. TypeOK'
  BY DEF TypeOK, Enter
<1>2. CallsNumbered'
  BY DEF TypeOK, Enter, CallsNumbered
<1>3. PreviousIsAdjacent'
  <2> SUFFICES ASSUME NEW d \in Calls, pc'[d] # "idle", previous'[d] # None
               PROVE  /\ pc'[previous'[d]] # "idle"
                      /\ key'[previous'[d]] = key'[d]
                      /\ ticket'[previous'[d]] < ticket'[d]
                      /\ \A e \in Calls :
                           pc'[e] # "idle" /\ key'[e] = key'[d] =>
                             ticket'[e] <= ticket'[previous'[d]] \/ ticket'[e] >= ticket'[d]
    BY DEF PreviousIsAdjacent
  <2>1. CASE d = c
    <3>1. /\ previous'[c] = queues[k] /\ queues[k] \in Calls /\ queues[k] # c
          /\ Active(queues[k]) /\ key[queues[k]] = k
      BY <2>1 DEF TypeOK, Enter, TailIsLast, Active
    <3>2. ticket'[c] = made + 1 /\ key'[c] = k /\ ticket[queues[k]] \in 1 .. made
      BY <3>1 DEF TypeOK, Enter, CallsNumbered, Active
    <3>3. \A e \in Calls : e # c => pc'[e] = pc[e] /\ key'[e] = key[e] /\ ticket'[e] = ticket[e]
      BY DEF TypeOK, Enter
    <3>4. \A e \in Calls : e # c /\ pc[e] # "idle" /\ key[e] = k => ticket[e] <= ticket[queues[k]]
      BY <3>1 DEF TailIsLast
    <3> QED
      BY <2>1, <3>1, <3>2, <3>3, <3>4 DEF TypeOK, Active
  <2>2. CASE d # c
    <3>1. /\ previous'[d] = previous[d] /\ previous[d] \in Calls /\ pc[d] # "idle"
          /\ previous[d] # c
      BY <2>2 DEF TypeOK, Enter, PreviousIsAdjacent
    <3>2. \A e \in Calls : e # c => pc'[e] = pc[e] /\ key'[e] = key[e] /\ ticket'[e] = ticket[e]
      BY DEF TypeOK, Enter
    <3>3. ticket'[c] = made + 1 /\ ticket[d] \in 1 .. made
      BY <3>1 DEF TypeOK, Enter, CallsNumbered
    <3> QED
      BY <2>2, <3>1, <3>2, <3>3 DEF TypeOK, PreviousIsAdjacent
  <2> QED
    BY <2>1, <2>2
<1>4. TailIsLast'
  <2> SUFFICES ASSUME NEW j \in Keys
               PROVE  /\ queues'[j] = None => \A d \in Calls : Active(d)' => key'[d] # j
                      /\ queues'[j] # None =>
                           /\ Active(queues[j])' /\ key'[queues'[j]] = j
                           /\ \A d \in Calls : pc'[d] # "idle" /\ key'[d] = j =>
                                ticket'[d] <= ticket'[queues'[j]]
    BY DEF TailIsLast, Active
  <2>1. \A e \in Calls : e # c => pc'[e] = pc[e] /\ key'[e] = key[e] /\ ticket'[e] = ticket[e]
    BY DEF TypeOK, Enter
  <2>2. /\ pc'[c] = "waiting" /\ key'[c] = k /\ ticket'[c] = made + 1 /\ pc[c] = "idle"
        /\ queues' = [queues EXCEPT ![k] = c]
    BY DEF TypeOK, Enter
  <2>3. CASE j = k
    BY <2>1, <2>2, <2>3 DEF TypeOK, CallsNumbered, Active
  <2>4. CASE j # k
    BY <2>1, <2>2, <2>4 DEF TypeOK, TailIsLast, Active
  <2> QED
    BY <2>3, <2>4
<1>5. HeadIsOldest'
  <2> SUFFICES ASSUME NEW a \in Calls, NEW d \in Calls,
                      AtHead(a)', Active(d)', key'[d] = key'[a]
               PROVE  ticket'[a] <= ticket'[d]
    BY DEF HeadIsOldest
  <2>1. \A e \in Calls : e # c => /\ pc'[e] = pc[e] /\ key'[e] = key[e]
                                  /\ ticket'[e] = ticket[e] /\ previous'[e] = previous[e]
    BY DEF TypeOK, Enter
  <2>2. /\ pc'[c] = "waiting" /\ key'[c] = k /\ ticket'[c] = made + 1 /\ pc[c] = "idle"
        /\ previous'[c] = queues[k]
    BY DEF TypeOK, Enter
  <2>3. CASE a = c
    <3>1. queues[k] = None
      BY <2>1, <2>2, <2>3 DEF TypeOK, TailIsLast, AtHead, Released, Settled, Active
    <3> QED
      BY <3>1, <2>1, <2>2, <2>3 DEF TypeOK, TailIsLast, Active
  <2>4. CASE a # c
    <3>1. AtHead(a)
      BY <2>1, <2>2, <2>4 DEF TypeOK, AtHead, Active, Released, Settled, PreviousIsAdjacent
    <3>2. CASE d = c
      BY <3>1, <3>2, <2>1, <2>2, <2>4 DEF TypeOK, CallsNumbered, AtHead, Active
    <3>3. CASE d # c
      BY <3>1, <3>3, <2>1, <2>4 DEF HeadIsOldest, Active
    <3> QED
      BY <3>2, <3>3
  <2> QED
    BY <2>3, <2>4
<1>6. RunningIsHead'
  BY DEF TypeOK, Enter, RunningIsHead, AtHead, Active, Released, Settled
<1> QED
  BY <1>1, <1>2, <1>3, <1>4, <1>5, <1>6

(* Continuing after `await previous` changes neither links nor tails.      *)
LEMMA StartIInv ==
  ASSUME IInv, NEW c \in Calls, Start(c)
  PROVE  IInv'
<1> USE NoneAssumption DEF IInv, Start
<1>1. /\ TypeOK' /\ queues' = queues /\ key' = key /\ ticket' = ticket /\ previous' = previous
      /\ made' = made
  BY DEF TypeOK
<1>2. \A e \in Calls : /\ (pc'[e] = "idle" <=> pc[e] = "idle")
                       /\ (Active(e)' <=> Active(e)) /\ (Settled(e)' <=> Settled(e))
  BY DEF TypeOK, Active, Settled
<1>3. \A e \in Calls : AtHead(e)' <=> AtHead(e)
  BY <1>1, <1>2 DEF TypeOK, AtHead, Released
<1>4. CallsNumbered' /\ PreviousIsAdjacent'
  BY <1>1, <1>2 DEF TypeOK, CallsNumbered, PreviousIsAdjacent
<1>5. TailIsLast'
  BY <1>1, <1>2 DEF TypeOK, TailIsLast
<1>6. HeadIsOldest'
  BY <1>1, <1>2, <1>3 DEF HeadIsOldest
<1>7. RunningIsHead'
  BY <1>1, <1>3 DEF TypeOK, RunningIsHead, AtHead, Active
<1> QED
  BY <1>1, <1>4, <1>5, <1>6, <1>7

(* The `finally` block takes the oldest call off the list: the call that   *)
(* awaits it is then the oldest, and an entry is dropped only when the list*)
(* has become empty.                                                       *)
LEMMA FinishIInv ==
  ASSUME IInv, NEW c \in Calls, NEW outcome \in {"resolved", "rejected"}, Finish(c, outcome)
  PROVE  IInv'
<1> USE NoneAssumption DEF IInv
<1>1. /\ TypeOK' /\ key' = key /\ ticket' = ticket /\ previous' = previous /\ made' = made
      /\ pc' = [pc EXCEPT ![c] = outcome] /\ pc[c] = "running"
      /\ queues' = [queues EXCEPT ![key[c]] = IF @ = c THEN None ELSE @]
  BY DEF TypeOK, Finish
<1>2. \A e \in Calls : /\ (pc'[e] = "idle" <=> pc[e] = "idle")
                       /\ (Active(e)' <=> Active(e) /\ e # c)
                       /\ (Settled(e)' <=> Settled(e) \/ e = c)
  BY <1>1 DEF TypeOK, Active, Settled
<1>3. AtHead(c) /\ key[c] \in Keys
  BY <1>1 DEF RunningIsHead, CallsNumbered
<1>4. CallsNumbered' /\ PreviousIsAdjacent'
  BY <1>1, <1>2 DEF TypeOK, CallsNumbered, PreviousIsAdjacent
<1>5. TailIsLast'
  <2> SUFFICES ASSUME NEW j \in Keys
               PROVE  /\ queues'[j] = None => \A d \in Calls : Active(d)' => key[d] # j
                      /\ queues'[j] # None =>
                           /\ Active(queues[j])' /\ key[queues'[j]] = j
                           /\ \A d \in Calls : pc'[d] # "idle" /\ key[d] = j =>
                                ticket[d] <= ticket[queues'[j]]
    BY <1>1 DEF TailIsLast, Active
  <2>1. CASE j = key[c] /\ queues[j] = c
    <3>1. \A d \in Calls : Active(d) /\ key[d] = j => d = c
      BY <2>1, <1>3 DEF TypeOK, CallsNumbered, TailIsLast, HeadIsOldest, Active, AtHead
    <3> QED
      BY <3>1, <2>1, <1>1, <1>2 DEF TypeOK
  <2>2. CASE ~(j = key[c] /\ queues[j] = c)
    <3>1. queues'[j] = queues[j] /\ queues[j] # c
      BY <2>2, <1>1 DEF TypeOK, TailIsLast
    <3> QED
      BY <3>1, <1>1, <1>2 DEF TypeOK, TailIsLast, Active
  <2> QED
    BY <2>1, <2>2
<1>6. HeadIsOldest'
  <2> SUFFICES ASSUME NEW a \in Calls, NEW d \in Calls, AtHead(a)', Active(d)', key[d] = key[a]
               PROVE  ticket[a] <= ticket[d]
    BY <1>1 DEF HeadIsOldest
  <2>1. Active(a) /\ a # c /\ Active(d) /\ d # c
    BY <1>2 DEF AtHead
  <2>2. CASE AtHead(a)
    BY <2>1, <2>2 DEF HeadIsOldest
  <2>3. CASE ~AtHead(a)
    <3>1. previous[a] = c
      BY <2>1, <2>3, <1>1, <1>2 DEF TypeOK, AtHead, Released
    <3>2. key[c] = key[a] /\ ticket[c] <= ticket[d] /\ ticket[d] # ticket[c]
      BY <3>1, <2>1, <1>3 DEF TypeOK, PreviousIsAdjacent, HeadIsOldest, CallsNumbered, Active
    <3> QED
      BY <3>1, <3>2, <2>1 DEF TypeOK, PreviousIsAdjacent, Active
  <2> QED
    BY <2>2, <2>3
<1>7. RunningIsHead'
  BY <1>1, <1>2 DEF TypeOK, RunningIsHead, AtHead, Active, Released
<1> QED
  BY <1>1, <1>4, <1>5, <1>6, <1>7

(* A step that leaves the mutex alone keeps the invariant.                 *)
LEMMA StutterIInv == IInv /\ UNCHANGED vars => IInv'
  BY DEF vars, IInv, TypeOK, CallsNumbered, PreviousIsAdjacent, TailIsLast,
     HeadIsOldest, RunningIsHead, AtHead, Active, Released, Settled

(* The invariant holds in every state of the mutex.                        *)
THEOREM Invariance == Spec => []IInv
<1>1. IInv /\ [Next]_vars => IInv'
  BY EnterIInv, StartIInv, FinishIInv, StutterIInv DEF Next
<1> QED
  BY InitIInv, <1>1, PTL DEF Spec
-----------------------------------------------------------------------------
(* The state of the mutex stays well typed: a queue entry is a call's      *)
(* promise, a settled call never runs again.                               *)
THEOREM TypeCorrect == Spec => []TypeOK
<1>1. IInv => TypeOK
  BY DEF IInv
<1> QED
  BY Invariance, <1>1, PTL

(* KeyedMutex.run never runs two tasks of one key at once.                 *)
THEOREM MutexSafe == Spec => []MutualExclusion
<1>1. IInv => MutualExclusion
  <2> SUFFICES ASSUME IInv, NEW c \in Calls, NEW d \in Calls,
                      pc[c] = "running", pc[d] = "running", key[c] = key[d]
               PROVE  c = d
    BY DEF MutualExclusion
  <2>1. ticket[c] <= ticket[d] /\ ticket[d] <= ticket[c]
    BY DEF IInv, RunningIsHead, HeadIsOldest, Active
  <2> QED
    BY <2>1 DEF IInv, TypeOK, CallsNumbered
<1> QED
  BY Invariance, <1>1, PTL

(* A task starts only when every earlier call of its key has settled.  The *)
(* property is kept by each step because only the oldest pending call of a *)
(* key can start, and a new call is younger than all of them.              *)
THEOREM ArrivalOrder == Spec => []NoOvertaking
<1>1. Init => NoOvertaking
  BY DEF Init, NoOvertaking
<1>2. IInv /\ NoOvertaking /\ [Next]_vars => NoOvertaking'
  <2> SUFFICES ASSUME IInv, NoOvertaking, [Next]_vars
               PROVE  NoOvertaking'
    OBVIOUS
  <2>1. ASSUME NEW c \in Calls, NEW k \in Keys, Enter(c, k)
        PROVE  NoOvertaking'
    BY <2>1 DEF IInv, TypeOK, CallsNumbered, Enter, NoOvertaking, Settled
  <2>2. ASSUME NEW c \in Calls, Start(c)
        PROVE  NoOvertaking'
    <3>1. AtHead(c)
      BY <2>2 DEF Start, AtHead, Active
    <3>2. \A d \in Calls : pc[d] # "idle" /\ key[d] = key[c] /\ ticket[d] < ticket[c] => Settled(d)
      BY <3>1 DEF IInv, TypeOK, HeadIsOldest, Active, Settled
    <3>3. /\ pc' = [pc EXCEPT ![c] = "running"] /\ key' = key /\ ticket' = ticket
          /\ pc[c] = "waiting"
      BY <2>2 DEF Start
    <3> QED
      BY <3>2, <3>3 DEF IInv, TypeOK, NoOvertaking, Settled
  <2>3. ASSUME NEW c \in Calls, NEW outcome \in {"resolved", "rejected"}, Finish(c, outcome)
        PROVE  NoOvertaking'
    BY <2>3 DEF IInv, TypeOK, Finish, NoOvertaking, Settled
  <2>4. CASE UNCHANGED vars
    BY <2>4 DEF vars, NoOvertaking, Settled
  <2> QED
    BY <2>1, <2>2, <2>3, <2>4 DEF Next
<1> QED
  BY Invariance, <1>1, <1>2, PTL DEF Spec

(* The map keeps an entry exactly while a call of that key is pending.     *)
THEOREM NoLeakedEntry == Spec => []EntryIffPending
<1>1. IInv => EntryIffPending
  BY NoneAssumption DEF IInv, TypeOK, TailIsLast, EntryIffPending, Active
<1> QED
  BY Invariance, <1>1, PTL
-----------------------------------------------------------------------------
(* The promise chain implements the lock per key that withRoomMutation is  *)
(* written against: asking, acquiring and releasing are the three steps.   *)
THEOREM ImplementsLock == Spec => LockSpec
<1> DEFINE held == [k \in Keys |-> IF \E c \in Calls : pc[c] = "running" /\ key[c] = k
                                   THEN CHOOSE c \in Calls : pc[c] = "running" /\ key[c] = k
                                   ELSE None]
           done == {c \in Calls : Settled(c)}
<1>1. Init => Lock!Init
  BY DEF Init, Lock!Init, Settled
<1>2. IInv /\ IInv' /\ [Next]_vars => [Lock!Next]_(Lock!vars)
  <2> SUFFICES ASSUME IInv, IInv', [Next]_vars
               PROVE  Lock!Next \/ UNCHANGED <<key, held, done>>
    BY DEF Lock!vars
  <2> USE NoneAssumption
  <2>1. ASSUME NEW c \in Calls, NEW k \in Keys, Enter(c, k)
        PROVE  Lock!Request(c, k)
    <3>1. /\ pc' = [pc EXCEPT ![c] = "waiting"] /\ key' = [key EXCEPT ![c] = k]
          /\ pc[c] = "idle"
      BY <2>1 DEF Enter
    <3>2. \A e \in Calls : /\ pc'[e] = "running" <=> pc[e] = "running"
                           /\ pc'[e] = "running" => key'[e] = key[e]
                           /\ Settled(e)' <=> Settled(e)
      BY <3>1 DEF IInv, TypeOK, Settled
    <3>3. held' = held
      <4>1. \A j \in Keys, e \in Calls :
              (pc'[e] = "running" /\ key'[e] = j) <=> (pc[e] = "running" /\ key[e] = j)
        BY <3>2
      <4> QED
        BY <4>1
    <3>4. done' = done
      BY <3>2
    <3>5. key[c] = None
      BY <3>1 DEF IInv, CallsNumbered
    <3> QED
      BY <3>1, <3>3, <3>4, <3>5 DEF Lock!Request
  <2>2. ASSUME NEW c \in Calls, Start(c)
        PROVE  Lock!Acquire(c)
    <3>1. /\ pc' = [pc EXCEPT ![c] = "running"] /\ key' = key /\ pc[c] = "waiting"
          /\ key[c] \in Keys /\ AtHead(c)
      BY <2>2 DEF Start, IInv, CallsNumbered, AtHead, Active
    <3>2. \A e \in Calls : /\ pc'[e] = "running" <=> pc[e] = "running" \/ e = c
                           /\ Settled(e)' <=> Settled(e)
      BY <3>1 DEF IInv, TypeOK, Settled
    <3>3. done' = done /\ c \notin done
      BY <3>1, <3>2 DEF Settled
    <3>4. \A e \in Calls : ~(pc[e] = "running" /\ key[e] = key[c])
      <4>1. ASSUME NEW e \in Calls, pc[e] = "running", key[e] = key[c]
            PROVE  FALSE
        <5>1. ticket[e] <= ticket[c] /\ ticket[c] <= ticket[e]
          BY <3>1, <4>1 DEF IInv, RunningIsHead, HeadIsOldest, Active
        <5>2. e = c
          BY <5>1, <3>1, <4>1 DEF IInv, TypeOK, CallsNumbered
        <5> QED
          BY <5>2, <3>1, <4>1
      <4> QED
        BY <4>1
    <3>5. held[key[c]] = None
      BY <3>1, <3>4
    <3>6. held' = [held EXCEPT ![key[c]] = c]
      <4>1. ASSUME NEW j \in Keys
            PROVE  held'[j] = IF j = key[c] THEN c ELSE held[j]
        <5>1. CASE j = key[c]
          <6>1. \A e \in Calls : (pc'[e] = "running" /\ key'[e] = j) <=> e = c
            BY <5>1, <3>1, <3>2, <3>4
          <6>2. held'[j] = CHOOSE e \in Calls : pc'[e] = "running" /\ key'[e] = j
            BY <6>1
          <6> QED
            BY <6>1, <6>2, <5>1
        <5>2. CASE j # key[c]
          <6>1. \A e \in Calls :
                  (pc'[e] = "running" /\ key'[e] = j) <=> (pc[e] = "running" /\ key[e] = j)
            BY <5>2, <3>1, <3>2
          <6> QED
            BY <6>1, <5>2
        <5> QED
          BY <5>1, <5>2
      <4> QED
        BY <4>1
    <3> QED
      BY <3>1, <3>3, <3>5, <3>6 DEF Lock!Acquire
  <2>3. ASSUME NEW c \in Calls, NEW outcome \in {"resolved", "rejected"}, Finish(c, outcome)
        PROVE  Lock!Release(c)
    <3>1. /\ pc' = [pc EXCEPT ![c] = outcome] /\ key' = key /\ pc[c] = "running"
          /\ key[c] \in Keys
      BY <2>3 DEF Finish, IInv, CallsNumbered
    <3>2. \A e \in Calls : /\ pc'[e] = "running" <=> pc[e] = "running" /\ e # c
                           /\ Settled(e)' <=> Settled(e) \/ e = c
      BY <3>1 DEF IInv, TypeOK, Settled
    <3>3. done' = done \cup {c}
      BY <3>2
    <3>4. \A e \in Calls : pc[e] = "running" /\ key[e] = key[c] => e = c
      <4>1. ASSUME NEW e \in Calls, pc[e] = "running", key[e] = key[c]
            PROVE  e = c
        <5>1. AtHead(e) /\ AtHead(c) /\ Active(e) /\ Active(c)
          BY <3>1, <4>1 DEF IInv, RunningIsHead, Active
        <5>2. ticket[e] <= ticket[c] /\ ticket[c] <= ticket[e]
          BY <5>1, <4>1 DEF IInv, HeadIsOldest
        <5> QED
          BY <5>2, <3>1, <4>1 DEF IInv, TypeOK, CallsNumbered
      <4> QED
        BY <4>1
    <3>5. held[key[c]] = c
      <4>1. \A e \in Calls : (pc[e] = "running" /\ key[e] = key[c]) <=> e = c
        BY <3>1, <3>4
      <4>2. held[key[c]] = CHOOSE e \in Calls : pc[e] = "running" /\ key[e] = key[c]
        BY <4>1, <3>1
      <4> QED
        BY <4>1, <4>2
    <3>6. held' = [held EXCEPT ![key[c]] = None]
      <4>1. ASSUME NEW j \in Keys
            PROVE  held'[j] = IF j = key[c] THEN None ELSE held[j]
        <5>1. CASE j = key[c]
          <6>1. \A e \in Calls : ~(pc'[e] = "running" /\ key'[e] = j)
            BY <5>1, <3>1, <3>2, <3>4
          <6> QED
            BY <6>1, <5>1
        <5>2. CASE j # key[c]
          <6>1. \A e \in Calls :
                  (pc'[e] = "running" /\ key'[e] = j) <=> (pc[e] = "running" /\ key[e] = j)
            BY <5>2, <3>1, <3>2
          <6> QED
            BY <6>1, <5>2
        <5> QED
          BY <5>1, <5>2
      <4> QED
        BY <4>1
    <3> QED
      BY <3>1, <3>3, <3>5, <3>6 DEF Lock!Release
  <2>4. CASE UNCHANGED vars
    BY <2>4 DEF vars, Settled
  <2> QED
    BY <2>1, <2>2, <2>3, <2>4 DEF Next, Lock!Next
<1> QED
  BY Invariance, <1>1, <1>2, PTL DEF Spec, LockSpec, Lock!Spec
-----------------------------------------------------------------------------

Written(r) == stage[r] = "commit" /\ object[r] \notin {NoRow, NoWrite}

(* The advisory lock: bodies with one key come one after the other.        *)
KeyExclusive ==
  \A r, u \in Request : stage[r] \in Body /\ stage[u] \in Body /\ KeyOf(r) = KeyOf(u) => r = u

(* An opener is about its own room unless it has found a place in another. *)
OwnTarget ==
  /\ \A r \in Create \cup Solo : target[r] = r
  /\ \A r \in Register : stage[r] \notin {"reload", "commit", "done", "failed"} => target[r] = r

(* What a stage says of a request; nothing is written before "commit".     *)
Route ==
  \A r \in Request :
    /\ stage[r] \in {"account", "find", "reload"} => r \in Register
    /\ stage[r] \in {"count", "code"} => r \in Opener
    /\ stage[r] = "load" => r \in Change
    /\ stage[r] \notin {"commit", "done", "failed"} => object[r] = NoWrite

(* No trace of a room before the request that opens it has committed.      *)
NotYet ==
  \A r \in Opener : stage[r] # "done" =>
    /\ rows[r] = NoRow /\ captured[r] = NoRow
    /\ \A u \in Request \ {r} : target[u] = r => u \in Change /\ object[u] = NoWrite

(* What a change read is still there: no place has been taken away and no  *)
(* room has ended for another reason than its time.                        *)
ChangePending ==
  \A r \in Change : Written(r) /\ target[r] \notin timed =>
    /\ rows[target[r]] # NoRow
    /\ object[r].seats \subseteq rows[target[r]].seats
    /\ object[r].contest = rows[target[r]].contest
    /\ ~object[r].over => target[r] \in ActiveRooms \cup due

(* What a registration read can only have shrunk since.                    *)
OpenerPending ==
  \A r \in Opener :
    /\ object[r] # NoRow
    /\ Written(r) /\ target[r] \notin timed =>
         /\ object[r].contest => Cardinality(object[r].seats) <= MaxPlayers
         /\ rows[target[r]] # NoRow => /\ rows[target[r]].seats \subseteq object[r].seats
                                       /\ rows[target[r]].contest = object[r].contest
         /\ object[r].over => target[r] \notin ActiveRooms \ due

(* The place found is still free.                                          *)
PlaceLeft ==
  \A r \in Request : stage[r] = "reload" /\ target[r] \notin timed =>
    LET row == rows[target[r]] IN
    row # NoRow => row.contest /\ Cardinality(row.seats) < MaxPlayers

(* The active rooms with those that an opener is about to add.             *)
Pending(r) == stage[r] = "code" \/ (Written(r) /\ ~object[r].over)
Claimed    == {target[r] : r \in {u \in Opener : Pending(u)}}
Counted    == (ActiveRooms \cup Claimed) \ (due \cup timed)
RoomsCounted == Cardinality(Counted) <= MaxActiveRooms + 1

AdmissionInv ==
  /\ AdmissionTypeOK /\ KeyExclusive /\ OwnTarget /\ Route /\ NotYet
  /\ ChangePending /\ OpenerPending /\ PlaceLeft /\ RoomsCounted /\ PlacesBounded
-----------------------------------------------------------------------------
LEMMA RoomFinite == IsFiniteSet(Room)
<1>1. IsFiniteSet(Existing \cup Request)
  BY AdmissionAssumption, FS_Union
<1>2. Room \subseteq Existing \cup Request
  BY DEF Room, Request
<1> QED BY <1>1, <1>2, FS_Subset

LEMMA SeatsFinite ==
  ASSUME NEW S \in SUBSET (Existing \cup Request)
  PROVE  IsFiniteSet(S)
<1>1. IsFiniteSet(Existing \cup Request)
  BY AdmissionAssumption, FS_Union
<1> QED BY <1>1, FS_Subset

LEMMA OneMore ==
  ASSUME NEW A, IsFiniteSet(A), NEW a
  PROVE  IsFiniteSet(A \cup {a}) /\ Cardinality(A \cup {a}) <= Cardinality(A) + 1
<1>1. Cardinality(A) \in Nat
  BY FS_CardinalityType
<1>2. /\ IsFiniteSet(A \cup {a})
      /\ Cardinality(A \cup {a}) = IF a \in A THEN Cardinality(A) ELSE Cardinality(A) + 1
  BY FS_AddElement
<1> QED BY <1>1, <1>2

LEMMA TwoMore ==
  ASSUME NEW A, IsFiniteSet(A), NEW n \in Nat, Cardinality(A) < n,
         NEW a, NEW b, NEW S, S \subseteq (A \cup {a}) \cup {b}
  PROVE  Cardinality(S) <= n + 1
<1>1. Cardinality(A) \in Nat /\ Cardinality(A) <= n - 1
  BY FS_CardinalityType
<1>2. IsFiniteSet(A \cup {a}) /\ Cardinality(A \cup {a}) <= Cardinality(A) + 1
  BY OneMore
<1>3. /\ IsFiniteSet((A \cup {a}) \cup {b})
      /\ Cardinality((A \cup {a}) \cup {b}) <= Cardinality(A \cup {a}) + 1
  BY <1>2, OneMore
<1>4. Cardinality(S) <= Cardinality((A \cup {a}) \cup {b}) /\ Cardinality(S) \in Nat
  BY <1>3, FS_Subset, FS_CardinalityType
<1>5. Cardinality(A \cup {a}) \in Nat /\ Cardinality((A \cup {a}) \cup {b}) \in Nat
  BY <1>2, <1>3, FS_CardinalityType
<1> QED BY <1>1, <1>2, <1>3, <1>4, <1>5

(* A set of rooms never grows beyond one that was not above the limit.     *)
LEMMA StillCounted ==
  ASSUME NEW S, NEW T \in SUBSET Room, S \subseteq T,
         Cardinality(T) <= MaxActiveRooms + 1
  PROVE  Cardinality(S) <= MaxActiveRooms + 1
<1>1. IsFiniteSet(T)
  BY RoomFinite, FS_Subset
<1>2. Cardinality(S) <= Cardinality(T) /\ Cardinality(S) \in Nat /\ Cardinality(T) \in Nat
  BY <1>1, FS_Subset, FS_CardinalityType
<1> QED BY <1>2, AdmissionAssumption

LEMMA CountedRooms == AdmissionTypeOK => Counted \in SUBSET Room
BY DEF AdmissionTypeOK, Counted, ActiveRooms, Claimed, Opener, Request

LEMMA Disjoint ==
  /\ Change \cap Opener = {} /\ Register \cap (Create \cup Solo) = {} /\ Opener \subseteq Room
  /\ NoRow # NoWrite /\ NoRow \notin Row /\ NoWrite \notin Row
BY AdmissionAssumption DEF Room, Opener
-----------------------------------------------------------------------------
LEMMA InitAdmissionInv == AdmissionInit => AdmissionInv
<1> SUFFICES ASSUME AdmissionInit PROVE AdmissionInv
  OBVIOUS
<1>1. AdmissionTypeOK
  <2>1. \A c \in Existing : [contest |-> TRUE, over |-> FALSE, seats |-> {c}] \in Row
    BY DEF Row
  <2> QED BY <2>1 DEF AdmissionInit, AdmissionTypeOK, Stage, Holding, Body, Room
<1>2. \A r \in Request : stage[r] = "idle" /\ object[r] = NoWrite
  BY DEF AdmissionInit
<1>3. KeyExclusive /\ Route
  BY <1>2 DEF KeyExclusive, Body, Route
<1>4. OwnTarget
  BY DEF AdmissionInit, OwnTarget, Opener
<1>5. NotYet
  <2> SUFFICES ASSUME NEW r \in Opener
               PROVE  /\ rows[r] = NoRow /\ captured[r] = NoRow
                      /\ \A u \in Request \ {r} : target[u] = r => u \in Change /\ object[u] = NoWrite
    BY DEF NotYet
  <2>1. r \in Room /\ r \notin Existing
    BY AdmissionAssumption DEF Room
  <2>2. rows[r] = NoRow /\ captured[r] = NoRow
    BY <2>1 DEF AdmissionInit
  <2>3. \A u \in Request \ {r} : target[u] = r => u \in Change /\ object[u] = NoWrite
    BY <1>2 DEF AdmissionInit, Request
  <2> QED BY <2>2, <2>3
<1>6. ChangePending /\ OpenerPending /\ PlaceLeft
  BY <1>2, Disjoint DEF ChangePending, OpenerPending, PlaceLeft, Written, Request
<1>7. RoomsCounted
  <2>1. Counted \subseteq Existing
    BY <1>2 DEF Counted, Claimed, Pending, Written, ActiveRooms, AdmissionInit, Opener, Request
  <2>2. Cardinality(Counted) <= Cardinality(Existing) /\ Cardinality(Counted) \in Nat
        /\ Cardinality(Existing) \in Nat
    BY <2>1, AdmissionAssumption, FS_Subset, FS_CardinalityType
  <2> QED BY <2>2, AdmissionAssumption DEF RoomsCounted
<1>8. PlacesBounded
  <2> SUFFICES ASSUME NEW c \in Existing PROVE Cardinality(rows[c].seats) <= MaxPlayers
    BY DEF PlacesBounded, AdmissionInit
  <2>1. rows[c].seats = {c}
    BY DEF AdmissionInit, Room
  <2> QED BY <2>1, FS_Singleton, AdmissionAssumption
<1> QED BY <1>1, <1>3, <1>4, <1>5, <1>6, <1>7, <1>8 DEF AdmissionInv
-----------------------------------------------------------------------------
(* The steps that change stages only, and give nobody a place, a room or a *)
(* settled request.                                                        *)
Quiet ==
  /\ UNCHANGED <<rows, due, at, target, object, captured, timed>>
  /\ stage' \in [Request -> Stage] /\ crashes' \in Nat
  /\ \A u \in Request :
       \/ stage'[u] = stage[u]
       \/ stage'[u] = "failed" /\ stage[u] # "done"
       \/ /\ stage[u] \notin {"reload", "commit", "done", "failed"}
          /\ stage'[u] \notin {"reload", "code", "done"}

LEMMA QuietKeeps == AdmissionInv /\ Quiet /\ KeyExclusive' /\ Route' => AdmissionInv'
<1> SUFFICES ASSUME AdmissionInv, Quiet, KeyExclusive', Route' PROVE AdmissionInv'
  OBVIOUS
<1>1. \A r \in Request : Written(r)' => Written(r)
  BY DEF AdmissionInv, Quiet, Route, Written
<1>2. AdmissionTypeOK'
  BY DEF AdmissionInv, Quiet, AdmissionTypeOK
<1>3. OwnTarget'
  BY DEF AdmissionInv, Quiet, OwnTarget, Request, Opener
<1>4. NotYet'
  BY DEF AdmissionInv, Quiet, NotYet, Request
<1>5. ChangePending' /\ OpenerPending'
  <2>1. ActiveRooms' = ActiveRooms
    BY DEF Quiet, ActiveRooms
  <2>2. ChangePending'
    BY <1>1, <2>1 DEF AdmissionInv, Quiet, ChangePending, Request
  <2>3. OpenerPending'
    BY <1>1, <2>1 DEF AdmissionInv, Quiet, OpenerPending, Request
  <2> QED BY <2>2, <2>3
<1>6. PlaceLeft'
  BY DEF AdmissionInv, Quiet, PlaceLeft
<1>7. RoomsCounted'
  <2>1. \A r \in Request : Pending(r)' => Pending(r)
    BY <1>1 DEF Quiet, Pending
  <2>2. Counted' \subseteq Counted
    BY <2>1 DEF Quiet, Counted, Claimed, ActiveRooms, Request
  <2> QED BY <2>2, CountedRooms, StillCounted DEF AdmissionInv, RoomsCounted
<1>8. PlacesBounded'
  BY DEF AdmissionInv, Quiet, PlacesBounded
<1> QED BY <1>2, <1>3, <1>4, <1>5, <1>6, <1>7, <1>8 DEF AdmissionInv

(* Bodies that go on, or end, leave the keys with who has them.            *)
LEMMA KeysKept ==
  ASSUME KeyExclusive,
         \A r \in Request : /\ stage'[r] \in Body => stage[r] \in Body
                            /\ stage[r] \in Body => KeyOf(r)' = KeyOf(r)
  PROVE  KeyExclusive'
BY DEF KeyExclusive

LEMMA SameKeys == UNCHANGED target => \A r : KeyOf(r)' = KeyOf(r)
BY DEF KeyOf

LEMMA AskKeeps == ASSUME NEW r \in Request PROVE AdmissionInv /\ Ask(r) => AdmissionInv'
<1> SUFFICES ASSUME AdmissionInv, Ask(r) PROVE AdmissionInv'
  OBVIOUS
<1>1. Quiet
  BY DEF AdmissionInv, AdmissionTypeOK, Ask, GoTo, Quiet, Stage, Holding, Body
<1>2. KeyExclusive'
  BY KeysKept, SameKeys DEF AdmissionInv, AdmissionTypeOK, Ask, GoTo, Body
<1>3. Route'
  BY DEF AdmissionInv, AdmissionTypeOK, Route, Ask, GoTo
<1> QED BY <1>1, <1>2, <1>3, QuietKeeps

LEMMA WaitKeeps ==
  ASSUME NEW r \in Request
  PROVE  AdmissionInv /\ (TakeMutex(r) \/ Connect(r)) => AdmissionInv'
<1> SUFFICES ASSUME AdmissionInv, TakeMutex(r) \/ Connect(r) PROVE AdmissionInv'
  OBVIOUS
<1>1. /\ UNCHANGED <<rows, due, at, target, object, captured, timed, crashes>>
      /\ stage[r] \in {"queued", "connecting"}
      /\ \E s \in {"connecting", "begin"} : stage' = [stage EXCEPT ![r] = s]
  BY DEF TakeMutex, Connect, GoTo
<1>2. Quiet
  BY <1>1 DEF AdmissionInv, AdmissionTypeOK, Quiet, Stage, Holding, Body
<1>3. KeyExclusive'
  BY <1>1, KeysKept, SameKeys DEF AdmissionInv, AdmissionTypeOK, Body
<1>4. Route'
  BY <1>1 DEF AdmissionInv, AdmissionTypeOK, Route
<1> QED BY <1>2, <1>3, <1>4, QuietKeeps

LEMMA BeginKeeps == ASSUME NEW r \in Request PROVE AdmissionInv /\ Begin(r) => AdmissionInv'
<1> SUFFICES ASSUME AdmissionInv, Begin(r) PROVE AdmissionInv'
  OBVIOUS
<1>1. Quiet
  BY DEF AdmissionInv, AdmissionTypeOK, Begin, GoTo, Quiet, Stage, Holding, Body
<1>2. KeyExclusive'
  <2>1. \A u \in Request \ {r} : stage'[u] = stage[u]
    BY DEF AdmissionInv, AdmissionTypeOK, Begin, GoTo
  <2>2. \A u \in Request \ {r} : stage[u] \in Body => KeyOf(u) # KeyOf(r)
    BY DEF Begin, LockedOut, SameKey
  <2>3. \A u \in Request : KeyOf(u)' = KeyOf(u)
    BY SameKeys DEF Begin
  <2> QED BY <2>1, <2>2, <2>3 DEF AdmissionInv, KeyExclusive
<1>3. Route'
  BY DEF AdmissionInv, AdmissionTypeOK, Route, Begin, GoTo, Request, Opener
<1> QED BY <1>1, <1>2, <1>3, QuietKeeps

LEMMA GiveUpKeeps ==
  ASSUME NEW r \in Request
  PROVE  AdmissionInv /\ (Timeout(r) \/ Fail(r)) => AdmissionInv'
<1> SUFFICES ASSUME AdmissionInv, Timeout(r) \/ Fail(r) PROVE AdmissionInv'
  OBVIOUS
<1>1. /\ UNCHANGED <<rows, due, at, target, object, captured, timed, crashes>>
      /\ stage[r] # "done" /\ stage' = [stage EXCEPT ![r] = "failed"]
  BY DEF Timeout, TimesOut, Fail, GoTo, Holding, Body
<1>2. Quiet
  BY <1>1 DEF AdmissionInv, AdmissionTypeOK, Quiet, Stage
<1>3. KeyExclusive'
  BY <1>1, KeysKept, SameKeys DEF AdmissionInv, AdmissionTypeOK, Body
<1>4. Route'
  BY <1>1 DEF AdmissionInv, AdmissionTypeOK, Route
<1> QED BY <1>2, <1>3, <1>4, QuietKeeps

LEMMA ReadAccountKeeps == ASSUME NEW r \in Request PROVE AdmissionInv /\ ReadAccount(r) => AdmissionInv'
<1> SUFFICES ASSUME AdmissionInv, ReadAccount(r) PROVE AdmissionInv'
  OBVIOUS
<1>1. Quiet
  BY DEF AdmissionInv, AdmissionTypeOK, ReadAccount, GoTo, Quiet, Stage, Holding, Body
<1>2. KeyExclusive'
  BY KeysKept, SameKeys DEF AdmissionInv, AdmissionTypeOK, ReadAccount, GoTo, Body
<1>3. Route'
  BY DEF AdmissionInv, AdmissionTypeOK, Route, ReadAccount, GoTo
<1> QED BY <1>1, <1>2, <1>3, QuietKeeps

LEMMA CrashKeeps == ASSUME NEW p \in Process PROVE AdmissionInv /\ Crash(p) => AdmissionInv'
<1> SUFFICES ASSUME AdmissionInv, Crash(p) PROVE AdmissionInv'
  OBVIOUS
<1>0. \A u \in Request : stage'[u] = stage[u] \/ (stage'[u] = "failed" /\ stage[u] # "done")
  BY DEF AdmissionInv, AdmissionTypeOK, Crash, Holding, Body
<1>1. Quiet
  BY <1>0 DEF AdmissionInv, AdmissionTypeOK, Crash, Quiet, Stage
<1>2. KeyExclusive'
  BY <1>0, KeysKept, SameKeys DEF AdmissionInv, Crash, Body
<1>3. Route'
  BY <1>0 DEF AdmissionInv, Route, Crash
<1> QED BY <1>1, <1>2, <1>3, QuietKeeps
-----------------------------------------------------------------------------
(* The registration finds a place, or there is none and it counts rooms.   *)
LEMMA FindPlaceKeeps == ASSUME NEW r \in Request PROVE AdmissionInv /\ FindPlace(r) => AdmissionInv'
<1> SUFFICES ASSUME AdmissionInv, FindPlace(r) PROVE AdmissionInv'
  OBVIOUS
<1>0. r \in Register /\ stage[r] = "find" /\ object[r] = NoWrite
  BY DEF AdmissionInv, Route, FindPlace
<1>1. CASE Reusable = {} /\ GoTo(r, "count") /\ UNCHANGED target
  <2>1. Quiet
    BY <1>0, <1>1 DEF AdmissionInv, AdmissionTypeOK, FindPlace, GoTo, Quiet, Stage, Holding, Body
  <2>2. KeyExclusive'
    BY <1>0, <1>1, KeysKept, SameKeys DEF AdmissionInv, AdmissionTypeOK, GoTo, Body
  <2>3. Route'
    BY <1>0, <1>1 DEF AdmissionInv, AdmissionTypeOK, Route, FindPlace, GoTo, Opener
  <2> QED BY <2>1, <2>2, <2>3, QuietKeeps
<1>2. ASSUME NEW c \in Reusable, target' = [target EXCEPT ![r] = c], GoTo(r, "reload")
      PROVE  AdmissionInv'
  <2>1. /\ UNCHANGED <<rows, due, at, object, captured, timed, crashes>>
        /\ stage' = [stage EXCEPT ![r] = "reload"]
        /\ c \in Room /\ rows[c] # NoRow /\ rows[c].contest /\ Cardinality(rows[c].seats) < MaxPlayers
    BY <1>2 DEF FindPlace, GoTo, Reusable, ActiveRooms
  <2>2. /\ \A u \in Request \ {r} : target'[u] = target[u] /\ stage'[u] = stage[u]
        /\ target'[r] = c /\ stage'[r] = "reload"
    BY <1>2, <2>1 DEF AdmissionInv, AdmissionTypeOK
  <2>3. AdmissionTypeOK'
    BY <1>2, <2>1 DEF AdmissionInv, AdmissionTypeOK, Stage, Holding, Body
  <2>4. KeyExclusive'
    <3>1. \A u \in Request : KeyOf(u)' = KeyOf(u)
      BY <1>0, <2>2 DEF KeyOf
    <3> QED BY <1>0, <2>2, <3>1, KeysKept DEF AdmissionInv, Body
  <2>5. OwnTarget'
    BY <1>0, <2>2, Disjoint DEF AdmissionInv, OwnTarget, Request, Opener
  <2>6. Route'
    BY <1>0, <2>1, <2>2 DEF AdmissionInv, Route
  <2>7. NotYet'
    BY <1>0, <2>1, <2>2 DEF AdmissionInv, NotYet, Request
  <2>8. \A u \in Request : /\ Written(u)' <=> Written(u)
                           /\ Written(u) \/ Pending(u) => target'[u] = target[u]
                           /\ Pending(u)' <=> Pending(u)
    BY <1>0, <2>1, <2>2 DEF Written, Pending
  <2>9. ActiveRooms' = ActiveRooms
    BY <2>1 DEF ActiveRooms
  <2>10. ChangePending' /\ OpenerPending'
    BY <2>1, <2>8, <2>9 DEF AdmissionInv, ChangePending, OpenerPending, Request
  <2>11. PlaceLeft'
    BY <2>1, <2>2 DEF AdmissionInv, PlaceLeft
  <2>12. RoomsCounted'
    <3>1. Claimed' = Claimed
      BY <2>8 DEF Claimed, Request
    <3>2. Counted' = Counted
      BY <2>1, <2>9, <3>1 DEF Counted
    <3> QED BY <3>2 DEF AdmissionInv, RoomsCounted
  <2>13. PlacesBounded'
    BY <2>1 DEF AdmissionInv, PlacesBounded
  <2> QED BY <2>3, <2>4, <2>5, <2>6, <2>7, <2>10, <2>11, <2>12, <2>13 DEF AdmissionInv
<1> QED BY <1>1, <1>2 DEF FindPlace

(* The room is read again: it has gone, or the place is taken.             *)
LEMMA TakePlaceKeeps == ASSUME NEW r \in Request PROVE AdmissionInv /\ TakePlace(r) => AdmissionInv'
<1> SUFFICES ASSUME AdmissionInv, TakePlace(r) PROVE AdmissionInv'
  OBVIOUS
<1> DEFINE c == target[r]
           row == Emitted(c, [rows[c] EXCEPT !.seats = @ \cup {r}])
<1>0. /\ r \in Register /\ stage[r] = "reload" /\ object[r] = NoWrite /\ c \in Room
      /\ r \notin Change
  BY Disjoint DEF AdmissionInv, Route, TakePlace, AdmissionTypeOK, Opener
<1>1. CASE /\ rows[c] = NoRow /\ GoTo(r, "count") /\ target' = [target EXCEPT ![r] = r]
           /\ UNCHANGED object
  <2>1. /\ UNCHANGED <<rows, due, at, object, captured, timed, crashes>>
        /\ stage' = [stage EXCEPT ![r] = "count"]
    BY <1>1 DEF TakePlace, GoTo
  <2>2. /\ \A u \in Request \ {r} : target'[u] = target[u] /\ stage'[u] = stage[u]
        /\ target'[r] = r /\ stage'[r] = "count"
    BY <1>1, <2>1 DEF AdmissionInv, AdmissionTypeOK
  <2>3. AdmissionTypeOK'
    BY <1>0, <1>1, <2>1, Disjoint DEF AdmissionInv, AdmissionTypeOK, Stage, Holding, Body, Opener
  <2>4. KeyExclusive'
    <3>1. \A u \in Request : KeyOf(u)' = KeyOf(u)
      BY <1>0, <2>2 DEF KeyOf
    <3> QED BY <1>0, <2>2, <3>1, KeysKept DEF AdmissionInv, Body
  <2>5. OwnTarget'
    BY <1>0, <2>2, Disjoint DEF AdmissionInv, OwnTarget, Request, Opener
  <2>6. Route'
    BY <1>0, <2>1, <2>2 DEF AdmissionInv, Route, Opener
  <2>7. NotYet'
    BY <1>0, <2>1, <2>2 DEF AdmissionInv, NotYet, Request
  <2>8. \A u \in Request : /\ Written(u)' <=> Written(u)
                           /\ Written(u) \/ Pending(u) => target'[u] = target[u]
                           /\ Pending(u)' <=> Pending(u)
    BY <1>0, <2>1, <2>2 DEF Written, Pending
  <2>9. ActiveRooms' = ActiveRooms
    BY <2>1 DEF ActiveRooms
  <2>10. ChangePending' /\ OpenerPending'
    BY <2>1, <2>8, <2>9 DEF AdmissionInv, ChangePending, OpenerPending, Request
  <2>11. PlaceLeft'
    BY <2>1, <2>2 DEF AdmissionInv, PlaceLeft
  <2>12. RoomsCounted'
    <3>1. Claimed' = Claimed
      BY <2>8 DEF Claimed, Request
    <3>2. Counted' = Counted
      BY <2>1, <2>9, <3>1 DEF Counted
    <3> QED BY <3>2 DEF AdmissionInv, RoomsCounted
  <2>13. PlacesBounded'
    BY <2>1 DEF AdmissionInv, PlacesBounded
  <2> QED BY <2>3, <2>4, <2>5, <2>6, <2>7, <2>10, <2>11, <2>12, <2>13 DEF AdmissionInv
<1>2. CASE /\ rows[c] # NoRow /\ object' = [object EXCEPT ![r] = row]
           /\ GoTo(r, "commit") /\ UNCHANGED target
  <2>1. /\ UNCHANGED <<rows, due, at, target, captured, timed, crashes>>
        /\ stage' = [stage EXCEPT ![r] = "commit"]
    BY <1>2 DEF TakePlace, GoTo
  <2>2. /\ \A u \in Request \ {r} : object'[u] = object[u] /\ stage'[u] = stage[u]
        /\ object'[r] = row /\ stage'[r] = "commit"
    BY <1>2, <2>1 DEF AdmissionInv, AdmissionTypeOK
  <2>3. /\ rows[c] \in Row /\ row \in Row
        /\ row.seats = rows[c].seats \cup {r} /\ row.contest = rows[c].contest
        /\ row.over <=> rows[c].over \/ c \in due
    BY <1>0, <1>2 DEF AdmissionInv, AdmissionTypeOK, Row, Emitted
  <2>4. AdmissionTypeOK'
    BY <1>2, <2>1, <2>3 DEF AdmissionInv, AdmissionTypeOK, Stage, Holding, Body
  <2>5. KeyExclusive'
    BY <1>0, <2>1, <2>2, KeysKept, SameKeys DEF AdmissionInv, Body
  <2>6. OwnTarget' /\ Route'
    BY <1>0, <2>1, <2>2, Disjoint DEF AdmissionInv, OwnTarget, Route, Request, Opener
  <2>7. NotYet'
    BY <1>0, <1>2, <2>1, <2>2 DEF AdmissionInv, NotYet, Request
  <2>8. \A u \in Request \ {r} : (Written(u)' <=> Written(u)) /\ (Pending(u)' <=> Pending(u))
    BY <2>2 DEF Written, Pending
  <2>9. ActiveRooms' = ActiveRooms
    BY <2>1 DEF ActiveRooms
  <2>10. ChangePending'
    BY <1>0, <2>1, <2>2, <2>8, <2>9 DEF AdmissionInv, ChangePending, Request
  <2>11. OpenerPending'
    <3>1. ASSUME c \notin timed PROVE row.contest => Cardinality(row.seats) <= MaxPlayers
      <4>1. Cardinality(rows[c].seats) < MaxPlayers
        BY <1>0, <1>2, <3>1 DEF AdmissionInv, PlaceLeft
      <4>2. IsFiniteSet(rows[c].seats)
        BY <2>3, SeatsFinite DEF Row
      <4>3. Cardinality(row.seats) <= Cardinality(rows[c].seats) + 1 /\ Cardinality(rows[c].seats) \in Nat
            /\ Cardinality(row.seats) \in Nat
        BY <2>3, <4>2, OneMore, FS_CardinalityType
      <4> QED BY <4>1, <4>3, AdmissionAssumption
    <3>2. row.over => c \notin ActiveRooms \ due
      BY <2>3 DEF ActiveRooms
    <3>3. row # NoRow
      BY <2>3, Disjoint
    <3> HIDE DEF row
    <3>4. \A u \in Opener \ {r} :
            /\ object'[u] # NoRow
            /\ Written(u)' /\ target'[u] \notin timed' =>
                 /\ object'[u].contest => Cardinality(object'[u].seats) <= MaxPlayers
                 /\ rows'[target'[u]] # NoRow => /\ rows'[target'[u]].seats \subseteq object'[u].seats
                                                 /\ rows'[target'[u]].contest = object'[u].contest
                 /\ object'[u].over => target'[u] \notin ActiveRooms' \ due'
      BY <2>1, <2>2, <2>8, <2>9 DEF AdmissionInv, OpenerPending, Request
    <3> QED BY <2>1, <2>2, <2>3, <2>9, <3>1, <3>2, <3>3, <3>4 DEF OpenerPending
  <2>12. PlaceLeft'
    BY <2>1, <2>2 DEF AdmissionInv, PlaceLeft
  <2>13. RoomsCounted'
    <3>1. Pending(r)' => c \in ActiveRooms
      BY <1>0, <1>2, <2>2, <2>3 DEF Pending, Written, ActiveRooms
    <3>2. Counted' \subseteq Counted
      BY <2>1, <2>8, <2>9, <3>1 DEF Counted, Claimed, Request
    <3> QED BY <3>2, CountedRooms, StillCounted DEF AdmissionInv, RoomsCounted
  <2>14. PlacesBounded'
    BY <2>1 DEF AdmissionInv, PlacesBounded
  <2> QED BY <2>4, <2>5, <2>6, <2>7, <2>10, <2>11, <2>12, <2>13, <2>14 DEF AdmissionInv
<1> QED BY <1>1, <1>2 DEF TakePlace

(* Only one other request can be about to add a room: that of the other    *)
(* key.                                                                    *)
LEMMA CountRoomsKeeps == ASSUME NEW r \in Request PROVE AdmissionInv /\ CountRooms(r) => AdmissionInv'
<1> SUFFICES ASSUME AdmissionInv, CountRooms(r) PROVE AdmissionInv'
  OBVIOUS
<1>0. /\ r \in Opener /\ stage[r] = "count" /\ object[r] = NoWrite /\ r \notin Change
      /\ UNCHANGED <<rows, due, at, target, object, captured, timed, crashes>>
  BY Disjoint DEF AdmissionInv, Route, CountRooms
<1>1. CASE GoTo(r, "commit")
  <2>1. Quiet
    BY <1>0, <1>1 DEF AdmissionInv, AdmissionTypeOK, GoTo, Quiet, Stage, Holding, Body
  <2>2. KeyExclusive'
    BY <1>0, <1>1, KeysKept, SameKeys DEF AdmissionInv, AdmissionTypeOK, GoTo, Body
  <2>3. Route'
    BY <1>0, <1>1 DEF AdmissionInv, AdmissionTypeOK, Route, GoTo
  <2> QED BY <2>1, <2>2, <2>3, QuietKeeps
<1>2. CASE Cardinality(ActiveRooms) < MaxActiveRooms /\ GoTo(r, "code")
  <2>1. /\ \A u \in Request \ {r} : stage'[u] = stage[u]
        /\ stage'[r] = "code"
    BY <1>2 DEF AdmissionInv, AdmissionTypeOK, GoTo
  <2>2. AdmissionTypeOK'
    BY <1>0, <1>2 DEF AdmissionInv, AdmissionTypeOK, GoTo, Stage, Holding, Body
  <2>3. KeyExclusive'
    BY <1>0, <2>1, KeysKept, SameKeys DEF AdmissionInv, Body
  <2>4. OwnTarget' /\ Route'
    BY <1>0, <2>1 DEF AdmissionInv, OwnTarget, Route, Request, Opener
  <2>5. NotYet'
    BY <1>0, <2>1 DEF AdmissionInv, NotYet, Request
  <2>6. \A u \in Request : /\ Written(u)' <=> Written(u)
                           /\ u # r => (Pending(u)' <=> Pending(u))
    BY <1>0, <2>1 DEF Written, Pending
  <2>7. ActiveRooms' = ActiveRooms
    BY <1>0 DEF ActiveRooms
  <2>8. ChangePending' /\ OpenerPending'
    BY <1>0, <2>6, <2>7 DEF AdmissionInv, ChangePending, OpenerPending, Request
  <2>9. PlaceLeft'
    BY <1>0, <2>1 DEF AdmissionInv, PlaceLeft
  <2>10. RoomsCounted'
    <3>1. PICK b : \A u \in Opener \ {r} : Pending(u) => target[u] = b
      <4>1. \A u, v \in Opener \ {r} : Pending(u) /\ Pending(v) => u = v
        <5> SUFFICES ASSUME NEW u \in Opener \ {r}, NEW v \in Opener \ {r}, Pending(u), Pending(v)
                     PROVE  u = v
          OBVIOUS
        <5>1. stage[u] \in Body /\ stage[v] \in Body /\ stage[r] \in Body
          BY <1>0 DEF Pending, Written, Body
        <5>2. KeyOf(u) # KeyOf(r) /\ KeyOf(v) # KeyOf(r)
          BY <1>0, <5>1 DEF AdmissionInv, KeyExclusive, Request
        <5>3. KeyOf(u) = KeyOf(v)
          BY <1>0, <5>2, Disjoint DEF KeyOf, Opener
        <5> QED BY <5>1, <5>3 DEF AdmissionInv, KeyExclusive, Request
      <4> QED BY <4>1
    <3>2. Counted' \subseteq (ActiveRooms \cup {target[r]}) \cup {b}
      BY <1>0, <2>6, <2>7, <3>1 DEF Counted, Claimed, Request
    <3>3. IsFiniteSet(ActiveRooms)
      BY RoomFinite, FS_Subset DEF ActiveRooms
    <3> QED BY <1>2, <3>2, <3>3, TwoMore, AdmissionAssumption DEF RoomsCounted
  <2>11. PlacesBounded'
    BY <1>0 DEF AdmissionInv, PlacesBounded
  <2> QED BY <2>2, <2>3, <2>4, <2>5, <2>8, <2>9, <2>10, <2>11 DEF AdmissionInv
<1> QED BY <1>1, <1>2 DEF CountRooms

LEMMA OpenRoomKeeps == ASSUME NEW r \in Request PROVE AdmissionInv /\ OpenRoom(r) => AdmissionInv'
<1> SUFFICES ASSUME AdmissionInv, OpenRoom(r) PROVE AdmissionInv'
  OBVIOUS
<1> DEFINE row == [contest |-> r \in Register, over |-> FALSE, seats |-> {r}]
<1>0. /\ r \in Opener /\ stage[r] = "code" /\ r \notin Change /\ target[r] = r /\ rows[r] = NoRow
      /\ UNCHANGED <<rows, due, at, target, captured, timed, crashes>>
      /\ object' = [object EXCEPT ![r] = row] /\ stage' = [stage EXCEPT ![r] = "commit"]
  BY Disjoint DEF AdmissionInv, Route, OpenRoom, GoTo, OwnTarget, NotYet, Opener
<1>1. /\ \A u \in Request \ {r} : object'[u] = object[u] /\ stage'[u] = stage[u]
      /\ object'[r] = row /\ stage'[r] = "commit"
  BY <1>0 DEF AdmissionInv, AdmissionTypeOK
<1>2. row \in Row /\ row # NoRow
  <2>1. row \in Row
    BY DEF Row
  <2> QED BY <2>1, Disjoint
<1>3. AdmissionTypeOK'
  BY <1>0, <1>2 DEF AdmissionInv, AdmissionTypeOK, Stage, Holding, Body
<1>4. KeyExclusive'
  BY <1>0, <1>1, KeysKept, SameKeys DEF AdmissionInv, Body
<1>5. OwnTarget' /\ Route'
  BY <1>0, <1>1 DEF AdmissionInv, OwnTarget, Route, Request, Opener
<1>6. NotYet'
  BY <1>0, <1>1 DEF AdmissionInv, NotYet, Request
<1>7. \A u \in Request \ {r} : (Written(u)' <=> Written(u)) /\ (Pending(u)' <=> Pending(u))
  BY <1>1 DEF Written, Pending
<1>8. ActiveRooms' = ActiveRooms
  BY <1>0 DEF ActiveRooms
<1>9. ChangePending'
  BY <1>0, <1>1, <1>7, <1>8 DEF AdmissionInv, ChangePending, Request
<1>10. OpenerPending'
  <2>1. Cardinality(row.seats) <= MaxPlayers
    <3>1. row.seats = {r} /\ Cardinality({r}) = 1
      BY FS_Singleton
    <3> QED
      BY ONLY <3>1, AdmissionAssumption
  <2>2. ~row.over
    OBVIOUS
  <2> HIDE DEF row
  <2>3. \A u \in Opener \ {r} :
            /\ object'[u] # NoRow
            /\ Written(u)' /\ target'[u] \notin timed' =>
                 /\ object'[u].contest => Cardinality(object'[u].seats) <= MaxPlayers
                 /\ rows'[target'[u]] # NoRow => /\ rows'[target'[u]].seats \subseteq object'[u].seats
                                                 /\ rows'[target'[u]].contest = object'[u].contest
                 /\ object'[u].over => target'[u] \notin ActiveRooms' \ due'
    BY <1>0, <1>1, <1>7, <1>8 DEF AdmissionInv, OpenerPending, Request
  <2> QED BY <1>0, <1>1, <1>2, <2>1, <2>2, <2>3 DEF OpenerPending
<1>11. PlaceLeft'
  BY <1>0, <1>1 DEF AdmissionInv, PlaceLeft
<1>12. RoomsCounted'
  <2>1. Counted' \subseteq Counted
    BY <1>0, <1>7, <1>8 DEF Counted, Claimed, Pending, Request
  <2> QED BY <2>1, CountedRooms, StillCounted DEF AdmissionInv, RoomsCounted
<1>13. PlacesBounded'
  BY <1>0 DEF AdmissionInv, PlacesBounded
<1> QED BY <1>3, <1>4, <1>5, <1>6, <1>9, <1>10, <1>11, <1>12, <1>13 DEF AdmissionInv

(* What a handler of a room may write, and nothing it has counted on goes.  *)
Outcome(c, o) ==
  \/ o = NoWrite
  \/ rows[c] # NoRow /\ o = NoRow
  \/ /\ rows[c] # NoRow /\ o \in Row /\ o.seats \subseteq rows[c].seats
     /\ o.contest = rows[c].contest /\ (~o.over => ~rows[c].over)

LEMMA ChangeRoomKeeps == ASSUME NEW r \in Request PROVE AdmissionInv /\ ChangeRoom(r) => AdmissionInv'
<1> SUFFICES ASSUME AdmissionInv, ChangeRoom(r) PROVE AdmissionInv'
  OBVIOUS
<1> DEFINE c == target[r]
<1>0. /\ r \in Change /\ r \notin Opener /\ c \in Room
      /\ stage[r] = "load" /\ object[r] = NoWrite
      /\ UNCHANGED <<rows, due, at, target, captured, timed, crashes>>
      /\ stage' = [stage EXCEPT ![r] = "commit"]
  BY Disjoint DEF AdmissionInv, Route, ChangeRoom, GoTo, AdmissionTypeOK
<1>1. \E o : object' = [object EXCEPT ![r] = o] /\ Outcome(c, o)
  <2>1. CASE UNCHANGED object
    <3>1. object' = [object EXCEPT ![r] = NoWrite]
      BY <1>0, <2>1 DEF AdmissionInv, AdmissionTypeOK
    <3> QED BY <3>1 DEF Outcome
  <2>2. CASE rows[c] # NoRow /\ object' = [object EXCEPT ![r] = NoRow]
    BY <2>2 DEF Outcome
  <2>3. ASSUME rows[c] # NoRow, NEW stay \in SUBSET rows[c].seats, NEW ends \in BOOLEAN,
               object' = [object EXCEPT ![r] =
                            Emitted(c, [rows[c] EXCEPT !.seats = stay, !.over = @ \/ ends])]
        PROVE  \E o : object' = [object EXCEPT ![r] = o] /\ Outcome(c, o)
    <3> DEFINE o == Emitted(c, [rows[c] EXCEPT !.seats = stay, !.over = @ \/ ends])
    <3>1. rows[c] \in Row
      BY <1>0, <2>3 DEF AdmissionInv, AdmissionTypeOK
    <3>2. /\ o \in Row /\ o.seats \subseteq rows[c].seats /\ o.contest = rows[c].contest
          /\ (~o.over => ~rows[c].over)
      BY <3>1 DEF Emitted, Row
    <3>3. Outcome(c, o)
      BY <2>3, <3>2 DEF Outcome
    <3> QED BY <2>3, <3>3
  <2> QED BY <2>1, <2>2, <2>3 DEF ChangeRoom
<1>2. PICK o : object' = [object EXCEPT ![r] = o] /\ Outcome(c, o)
  BY <1>1
<1>3. /\ \A u \in Request \ {r} : object'[u] = object[u] /\ stage'[u] = stage[u]
      /\ object'[r] = o /\ stage'[r] = "commit"
  BY <1>0, <1>2 DEF AdmissionInv, AdmissionTypeOK
<1>4. AdmissionTypeOK'
  <2>1. o \in Row \cup {NoRow, NoWrite}
    BY <1>2 DEF Outcome
  <2> QED BY <1>0, <1>2, <2>1 DEF AdmissionInv, AdmissionTypeOK, Stage, Holding, Body
<1>5. KeyExclusive'
  BY <1>0, <1>3, KeysKept, SameKeys DEF AdmissionInv, Body
<1>6. OwnTarget' /\ Route'
  BY <1>0, <1>3 DEF AdmissionInv, OwnTarget, Route, Request, Opener
<1>7. NotYet'
  <2> SUFFICES ASSUME NEW x \in Opener, stage'[x] # "done"
               PROVE  /\ rows'[x] = NoRow /\ captured'[x] = NoRow
                      /\ \A u \in Request \ {x} : target'[u] = x => u \in Change /\ object'[u] = NoWrite
    BY DEF NotYet
  <2>1. /\ rows[x] = NoRow /\ captured[x] = NoRow
        /\ \A u \in Request \ {x} : target[u] = x => u \in Change /\ object[u] = NoWrite
    BY <1>0, <1>3 DEF AdmissionInv, NotYet, Request
  <2>2. c = x => o = NoWrite
    BY <1>0, <1>2, <2>1, Disjoint DEF Outcome, AdmissionInv, Route, Written, ChangePending
  <2> QED BY <1>0, <1>3, <2>1, <2>2
<1>8. \A u \in Request \ {r} : (Written(u)' <=> Written(u)) /\ (Pending(u)' <=> Pending(u))
  BY <1>3 DEF Written, Pending
<1>9. ActiveRooms' = ActiveRooms
  BY <1>0 DEF ActiveRooms
<1>10. ChangePending'
  <2>1. Written(r)' => /\ rows[c] # NoRow /\ o.seats \subseteq rows[c].seats
                       /\ o.contest = rows[c].contest /\ (~o.over => c \in ActiveRooms)
    BY <1>0, <1>2, <1>3 DEF Outcome, Written, ActiveRooms
  <2>2. \A u \in Change \ {r} : Written(u)' /\ target'[u] \notin timed' =>
          /\ rows'[target'[u]] # NoRow
          /\ object'[u].seats \subseteq rows'[target'[u]].seats
          /\ object'[u].contest = rows'[target'[u]].contest
          /\ ~object'[u].over => target'[u] \in ActiveRooms' \cup due'
    BY <1>0, <1>3, <1>8, <1>9 DEF AdmissionInv, ChangePending, Request
  <2> QED BY <1>0, <1>3, <1>9, <2>1, <2>2 DEF ChangePending
<1>11. OpenerPending'
  BY <1>0, <1>3, <1>8, <1>9 DEF AdmissionInv, OpenerPending, Request
<1>12. PlaceLeft'
  BY <1>0, <1>3 DEF AdmissionInv, PlaceLeft
<1>13. RoomsCounted'
  <2>1. Counted' = Counted
    BY <1>0, <1>8, <1>9 DEF Counted, Claimed, Request
  <2> QED BY <2>1 DEF AdmissionInv, RoomsCounted
<1>14. PlacesBounded'
  BY <1>0 DEF AdmissionInv, PlacesBounded
<1> QED BY <1>4, <1>5, <1>6, <1>7, <1>10, <1>11, <1>12, <1>13, <1>14 DEF AdmissionInv

(* A row is replaced, and what the others have read of it still holds.     *)
LEMMA CommitKeeps == ASSUME NEW r \in Request PROVE AdmissionInv /\ Commit(r) => AdmissionInv'
<1> SUFFICES ASSUME AdmissionInv, Commit(r) PROVE AdmissionInv'
  OBVIOUS
<1> DEFINE c == target[r]
           o == object[r]
<1>0. /\ stage[r] = "commit" /\ c \in Room /\ o \in Row \cup {NoRow, NoWrite}
      /\ UNCHANGED <<due, at, target, object, captured, timed, crashes>>
      /\ stage' = [stage EXCEPT ![r] = "done"]
      /\ rows' = IF o = NoWrite THEN rows ELSE [rows EXCEPT ![c] = o]
  BY DEF AdmissionInv, AdmissionTypeOK, Commit, GoTo
<1>1. /\ \A u \in Request \ {r} : stage'[u] = stage[u]
      /\ stage'[r] = "done"
      /\ \A x \in Room \ {c} : rows'[x] = rows[x]
      /\ rows'[c] = IF o = NoWrite THEN rows[c] ELSE o
  BY <1>0 DEF AdmissionInv, AdmissionTypeOK
<1>2. AdmissionTypeOK'
  BY <1>0 DEF AdmissionInv, AdmissionTypeOK, Stage, Holding, Body
<1>3. KeyExclusive'
  BY <1>0, <1>1, KeysKept, SameKeys DEF AdmissionInv, Body
<1>4. OwnTarget' /\ Route'
  BY <1>0, <1>1 DEF AdmissionInv, OwnTarget, Route, Request, Opener
<1>5. NotYet'
  <2> SUFFICES ASSUME NEW x \in Opener, stage'[x] # "done"
               PROVE  /\ rows'[x] = NoRow /\ captured'[x] = NoRow
                      /\ \A u \in Request \ {x} : target'[u] = x => u \in Change /\ object'[u] = NoWrite
    BY DEF NotYet
  <2>1. /\ x # r /\ rows[x] = NoRow /\ captured[x] = NoRow
        /\ \A u \in Request \ {x} : target[u] = x => u \in Change /\ object[u] = NoWrite
    BY <1>0, <1>1 DEF AdmissionInv, NotYet, Request
  <2>2. c = x => o = NoWrite
    BY <2>1 DEF Request
  <2> QED BY <1>0, <1>1, <2>1, <2>2, Disjoint
<1>6. \A u \in Request : /\ Written(u)' <=> Written(u) /\ u # r
                         /\ Pending(u)' <=> Pending(u) /\ u # r
  BY <1>0, <1>1 DEF Written, Pending
<1>7. \A x \in Room \ {c} : x \in ActiveRooms' <=> x \in ActiveRooms
  BY <1>1 DEF ActiveRooms
<1>8. c \in ActiveRooms' <=> IF o = NoWrite THEN c \in ActiveRooms ELSE o # NoRow /\ ~o.over
  BY <1>0, <1>1 DEF ActiveRooms
(* Two that write the same room: a change and an opener.                   *)
<1>9. ASSUME NEW u \in Request \ {r}, Written(u), target[u] = c, o # NoWrite
      PROVE  \/ u \in Change /\ r \in Opener
             \/ u \in Opener /\ r \in Change
  <2>1. KeyOf(u) # KeyOf(r)
    BY <1>0, <1>9 DEF AdmissionInv, KeyExclusive, Written, Body
  <2>2. ~(u \in Change /\ r \in Change)
    BY <1>9, <2>1, AdmissionAssumption DEF KeyOf, Room, Opener
  <2>3. ASSUME u \in Opener, r \in Opener PROVE FALSE
    <3>1. \/ u \in Create /\ r \in Register \cup Solo
          \/ r \in Create /\ u \in Register \cup Solo
      BY <2>1, <2>3 DEF KeyOf, Opener
    <3>2. CASE u \in Create
      <4>1. c = u /\ stage[u] # "done" /\ r # u
        BY <1>9, <3>2 DEF AdmissionInv, OwnTarget, Written
      <4>2. r \in Change
        BY <2>3, <4>1 DEF AdmissionInv, NotYet, Request
      <4> QED BY <2>3, <4>2, Disjoint
    <3>3. CASE r \in Create
      <4>1. c = r /\ stage[r] # "done"
        BY <1>0, <3>3 DEF AdmissionInv, OwnTarget
      <4>2. u \in Change
        BY <1>9, <2>3, <4>1 DEF AdmissionInv, NotYet, Request
      <4> QED BY <2>3, <4>2, Disjoint
    <3> QED BY <3>1, <3>2, <3>3
  <2> QED BY <2>2, <2>3 DEF Request
(* An opener's own row is as its change left it, and the other way round.  *)
<1>10. r \in Opener /\ o # NoWrite /\ c \notin timed =>
         /\ o \in Row
         /\ o.contest => Cardinality(o.seats) <= MaxPlayers
         /\ rows[c] # NoRow => rows[c].seats \subseteq o.seats /\ rows[c].contest = o.contest
         /\ o.over => c \notin ActiveRooms \ due
  BY <1>0 DEF AdmissionInv, OpenerPending, Written
<1>11. r \in Change /\ o \notin {NoRow, NoWrite} /\ c \notin timed =>
         /\ o \in Row /\ rows[c] # NoRow
         /\ o.seats \subseteq rows[c].seats /\ o.contest = rows[c].contest
         /\ ~o.over => c \in ActiveRooms \cup due
  BY <1>0 DEF AdmissionInv, ChangePending, Written
<1> HIDE DEF c, o
<1>12. ChangePending'
  <2> SUFFICES ASSUME NEW u \in Change, Written(u)', target'[u] \notin timed'
               PROVE  /\ rows'[target'[u]] # NoRow
                      /\ object'[u].seats \subseteq rows'[target'[u]].seats
                      /\ object'[u].contest = rows'[target'[u]].contest
                      /\ ~object'[u].over => target'[u] \in ActiveRooms' \cup due'
    BY DEF ChangePending
  <2>1. /\ u \in Request \ {r} /\ Written(u) /\ target[u] \notin timed /\ target[u] \in Room
        /\ rows[target[u]] # NoRow
        /\ object[u].seats \subseteq rows[target[u]].seats
        /\ object[u].contest = rows[target[u]].contest
        /\ ~object[u].over => target[u] \in ActiveRooms \cup due
    BY <1>0, <1>6 DEF AdmissionInv, ChangePending, Request, AdmissionTypeOK
  <2>2. CASE target[u] # c \/ o = NoWrite
    BY <1>0, <1>1, <1>7, <1>8, <2>1, <2>2
  <2>3. CASE target[u] = c /\ o # NoWrite
    <3>1. r \in Opener
      BY <1>9, <2>1, <2>3, Disjoint DEF c, o
    <3>2. /\ o \in Row /\ rows[c].seats \subseteq o.seats /\ rows[c].contest = o.contest
          /\ o.over => c \notin ActiveRooms \ due
      BY <1>10, <2>1, <2>3, <3>1
    <3>3. rows'[c] = o /\ o # NoRow
      BY <1>1, <2>3, <3>2, Disjoint
    <3>4. ~object[u].over => c \in ActiveRooms' \cup due
      BY <1>8, <2>1, <2>3, <3>2, <3>3
    <3> QED BY <1>0, <2>1, <2>3, <3>2, <3>3, <3>4
  <2> QED BY <2>2, <2>3
<1>13. OpenerPending'
  <2> SUFFICES ASSUME NEW u \in Opener
        PROVE  /\ object'[u] # NoRow
               /\ Written(u)' /\ target'[u] \notin timed' =>
                    /\ object'[u].contest => Cardinality(object'[u].seats) <= MaxPlayers
                    /\ rows'[target'[u]] # NoRow => /\ rows'[target'[u]].seats \subseteq object'[u].seats
                                                    /\ rows'[target'[u]].contest = object'[u].contest
                    /\ object'[u].over => target'[u] \notin ActiveRooms' \ due'
    BY DEF OpenerPending
  <2>1. object'[u] # NoRow
    BY <1>0 DEF AdmissionInv, OpenerPending
  <2> SUFFICES ASSUME Written(u)', target'[u] \notin timed'
        PROVE  /\ object'[u].contest => Cardinality(object'[u].seats) <= MaxPlayers
               /\ rows'[target'[u]] # NoRow => /\ rows'[target'[u]].seats \subseteq object'[u].seats
                                               /\ rows'[target'[u]].contest = object'[u].contest
               /\ object'[u].over => target'[u] \notin ActiveRooms' \ due'
    BY <2>1
  <2>2. /\ u \in Request \ {r} /\ Written(u) /\ target[u] \notin timed /\ target[u] \in Room
        /\ object[u].contest => Cardinality(object[u].seats) <= MaxPlayers
        /\ rows[target[u]] # NoRow => /\ rows[target[u]].seats \subseteq object[u].seats
                                      /\ rows[target[u]].contest = object[u].contest
        /\ object[u].over => target[u] \notin ActiveRooms \ due
    BY <1>0, <1>6 DEF AdmissionInv, OpenerPending, Request, AdmissionTypeOK
  <2>3. CASE target[u] # c \/ o = NoWrite
    BY <1>0, <1>1, <1>7, <1>8, <2>2, <2>3
  <2>4. CASE target[u] = c /\ o # NoWrite
    <3>1. r \in Change
      BY <1>9, <2>2, <2>4, Disjoint DEF c, o
    <3>2. rows'[c] = o
      BY <1>1, <2>4
    <3>3. CASE o = NoRow
      BY <1>0, <1>8, <2>2, <2>4, <3>2, <3>3
    <3>4. CASE o # NoRow
      <4>1. /\ rows[c] # NoRow /\ o.seats \subseteq rows[c].seats /\ o.contest = rows[c].contest
            /\ ~o.over => c \in ActiveRooms \cup due
        BY <1>11, <2>2, <2>4, <3>1, <3>4
      <4>2. object[u].over => c \notin ActiveRooms' \ due
        BY <1>8, <2>2, <2>4, <4>1
      <4> QED BY <1>0, <2>2, <2>4, <3>2, <4>1, <4>2
    <3> QED BY <3>3, <3>4
  <2> QED BY <2>3, <2>4
<1>14. PlaceLeft'
  <2> SUFFICES ASSUME NEW u \in Request, stage'[u] = "reload", target'[u] \notin timed',
                      rows'[target'[u]] # NoRow
               PROVE  rows'[target'[u]].contest /\ Cardinality(rows'[target'[u]].seats) < MaxPlayers
    BY DEF PlaceLeft
  <2>1. /\ u # r /\ stage[u] = "reload" /\ target[u] \notin timed /\ target'[u] = target[u]
        /\ target[u] \in Room
    BY <1>0, <1>1 DEF AdmissionInv, AdmissionTypeOK
  <2>2. rows[target[u]] # NoRow =>
          rows[target[u]].contest /\ Cardinality(rows[target[u]].seats) < MaxPlayers
    BY <2>1 DEF AdmissionInv, PlaceLeft
  <2>3. CASE target[u] # c \/ o = NoWrite
    BY <1>1, <2>1, <2>2, <2>3
  <2>4. CASE target[u] = c /\ o # NoWrite
    <3>1. r \in Change
      <4>1. u \in Register /\ stage[u] # "done"
        BY <2>1 DEF AdmissionInv, Route
      <4>2. r \notin Register \cup Solo
        <5>1. r \in Register \cup Solo => KeyOf(r) = KeyOf(u)
          BY <4>1, Disjoint, AdmissionAssumption DEF KeyOf
        <5> QED BY <1>0, <2>1, <5>1 DEF AdmissionInv, KeyExclusive, Body
      <4>3. r \notin Create
        <5> SUFFICES ASSUME r \in Create PROVE FALSE
          OBVIOUS
        <5>1. target[u] = r /\ stage[r] # "done"
          BY <1>0, <2>4 DEF AdmissionInv, OwnTarget, c
        <5>2. u \in Change
          BY <2>1, <5>1 DEF AdmissionInv, NotYet, Opener
        <5> QED BY <4>1, <5>2, Disjoint DEF Opener
      <4> QED BY <4>2, <4>3 DEF Request, Opener
    <3>2. rows'[c] = o /\ o # NoRow
      BY <1>1, <2>1, <2>4
    <3>3. /\ rows[c] # NoRow /\ o.seats \subseteq rows[c].seats /\ o.contest = rows[c].contest
      BY <1>11, <2>1, <2>4, <3>1, <3>2
    <3>4. IsFiniteSet(rows[c].seats)
      BY <2>1, <2>4, <3>3, SeatsFinite DEF AdmissionInv, AdmissionTypeOK, Row
    <3>5. Cardinality(o.seats) <= Cardinality(rows[c].seats) /\ Cardinality(o.seats) \in Nat
          /\ Cardinality(rows[c].seats) \in Nat
      BY <3>3, <3>4, FS_Subset, FS_CardinalityType
    <3> QED BY <2>1, <2>2, <2>4, <3>2, <3>3, <3>5, AdmissionAssumption
  <2> QED BY <2>3, <2>4
<1>15. RoomsCounted'
  <2>1. c \in ActiveRooms' \ (due \cup timed) => c \in Counted
    <3> SUFFICES ASSUME c \in ActiveRooms', c \notin due, c \notin timed PROVE c \in Counted
      OBVIOUS
    <3>1. CASE o = NoWrite
      BY <1>8, <3>1 DEF Counted
    <3>2. CASE o # NoWrite /\ r \in Opener
      <4>1. Pending(r)
        BY <1>0, <1>8, <3>2 DEF Pending, Written, o
      <4> QED BY <3>2, <4>1 DEF Counted, Claimed, c
    <3>3. CASE o # NoWrite /\ r \in Change
      BY <1>8, <1>11, <3>3 DEF Counted
    <3> QED BY <3>1, <3>2, <3>3 DEF Request
  <2>2. Claimed' \subseteq Claimed
    BY <1>0, <1>6 DEF Claimed, Request
  <2>3. ActiveRooms' \subseteq Room
    BY DEF ActiveRooms
  <2>4. Counted' \subseteq Counted
    BY <1>0, <1>7, <2>1, <2>2, <2>3 DEF Counted
  <2> QED BY <2>4, CountedRooms, StillCounted DEF AdmissionInv, RoomsCounted
<1>16. PlacesBounded'
  <2> SUFFICES ASSUME NEW x \in Room \ timed', rows'[x] # NoRow, rows'[x].contest
               PROVE  Cardinality(rows'[x].seats) <= MaxPlayers
    BY DEF PlacesBounded
  <2>1. CASE x # c \/ o = NoWrite
    BY <1>0, <1>1, <2>1 DEF AdmissionInv, PlacesBounded
  <2>2. CASE x = c /\ o # NoWrite /\ r \in Opener
    BY <1>0, <1>1, <1>10, <2>2
  <2>3. CASE x = c /\ o # NoWrite /\ r \in Change
    <3>1. /\ rows'[c] = o /\ rows[c] # NoRow /\ o.seats \subseteq rows[c].seats
          /\ o.contest = rows[c].contest
      BY <1>0, <1>1, <1>11, <2>3
    <3>2. Cardinality(rows[c].seats) <= MaxPlayers
      BY <1>0, <2>3, <3>1 DEF AdmissionInv, PlacesBounded
    <3>3. IsFiniteSet(rows[c].seats)
      BY <2>3, <3>1, SeatsFinite DEF AdmissionInv, AdmissionTypeOK, Row
    <3>4. Cardinality(o.seats) <= Cardinality(rows[c].seats) /\ Cardinality(o.seats) \in Nat
          /\ Cardinality(rows[c].seats) \in Nat
      BY <3>1, <3>3, FS_Subset, FS_CardinalityType
    <3> QED BY <2>3, <3>1, <3>2, <3>4, AdmissionAssumption
  <2> QED BY <2>1, <2>2, <2>3 DEF Request
<1> QED BY <1>2, <1>3, <1>4, <1>5, <1>12, <1>13, <1>14, <1>15, <1>16 DEF AdmissionInv

LEMMA TimeUpKeeps == ASSUME NEW c \in Room PROVE AdmissionInv /\ TimeUp(c) => AdmissionInv'
<1> SUFFICES ASSUME AdmissionInv, TimeUp(c) PROVE AdmissionInv'
  OBVIOUS
<1>0. /\ UNCHANGED <<rows, stage, at, target, object, captured, timed, crashes>>
      /\ due' = due \cup {c} /\ ActiveRooms' = ActiveRooms
  BY DEF TimeUp, ActiveRooms
<1>1. AdmissionTypeOK'
  BY <1>0 DEF AdmissionInv, AdmissionTypeOK
<1>2. KeyExclusive' /\ OwnTarget' /\ Route' /\ NotYet'
  BY <1>0, KeysKept, SameKeys DEF AdmissionInv, OwnTarget, Route, NotYet
<1>3. \A u \in Request : (Written(u)' <=> Written(u)) /\ (Pending(u)' <=> Pending(u))
  BY <1>0 DEF Written, Pending
<1>4. ChangePending' /\ OpenerPending'
  BY <1>0, <1>3 DEF AdmissionInv, ChangePending, OpenerPending, Request
<1>5. PlaceLeft' /\ PlacesBounded'
  BY <1>0 DEF AdmissionInv, PlaceLeft, PlacesBounded
<1>6. RoomsCounted'
  <2>1. Counted' \subseteq Counted
    BY <1>0, <1>3 DEF Counted, Claimed, Request
  <2> QED BY <2>1, CountedRooms, StillCounted DEF AdmissionInv, RoomsCounted
<1> QED BY <1>1, <1>2, <1>4, <1>5, <1>6 DEF AdmissionInv

LEMMA CaptureKeeps == ASSUME NEW c \in Room PROVE AdmissionInv /\ Capture(c) => AdmissionInv'
<1> SUFFICES ASSUME AdmissionInv, Capture(c) PROVE AdmissionInv'
  OBVIOUS
<1>0. /\ UNCHANGED <<rows, due, stage, at, target, object, timed, crashes>>
      /\ captured' = [captured EXCEPT ![c] = rows[c]] /\ rows[c] # NoRow
      /\ ActiveRooms' = ActiveRooms
  BY DEF Capture, ActiveRooms
<1>1. AdmissionTypeOK'
  BY <1>0 DEF AdmissionInv, AdmissionTypeOK
<1>2. NotYet'
  BY <1>0, Disjoint DEF AdmissionInv, NotYet, AdmissionTypeOK
<1>3. KeyExclusive' /\ OwnTarget' /\ Route'
  BY <1>0, KeysKept, SameKeys DEF AdmissionInv, OwnTarget, Route
<1>4. \A u \in Request : (Written(u)' <=> Written(u)) /\ (Pending(u)' <=> Pending(u))
  BY <1>0 DEF Written, Pending
<1>5. ChangePending' /\ OpenerPending'
  BY <1>0, <1>4 DEF AdmissionInv, ChangePending, OpenerPending, Request
<1>6. PlaceLeft' /\ PlacesBounded'
  BY <1>0 DEF AdmissionInv, PlaceLeft, PlacesBounded
<1>7. RoomsCounted'
  <2>1. Counted' = Counted
    BY <1>0, <1>4 DEF Counted, Claimed, Request
  <2> QED BY <2>1 DEF AdmissionInv, RoomsCounted
<1> QED BY <1>1, <1>2, <1>3, <1>5, <1>6, <1>7 DEF AdmissionInv

LEMMA TimerWritesKeeps == ASSUME NEW c \in Room PROVE AdmissionInv /\ TimerWrites(c) => AdmissionInv'
<1> SUFFICES ASSUME AdmissionInv, TimerWrites(c) PROVE AdmissionInv'
  OBVIOUS
<1>0. /\ UNCHANGED <<due, stage, at, target, object, crashes>>
      /\ captured[c] # NoRow /\ rows' = [rows EXCEPT ![c] = captured[c]]
      /\ captured' = [captured EXCEPT ![c] = NoRow] /\ timed' = timed \cup {c}
  BY DEF TimerWrites
<1>1. /\ \A x \in Room \ {c} : rows'[x] = rows[x] /\ captured'[x] = captured[x]
      /\ \A x \in Room \ {c} : x \in ActiveRooms' <=> x \in ActiveRooms
  BY <1>0 DEF AdmissionInv, AdmissionTypeOK, ActiveRooms
<1>2. AdmissionTypeOK'
  BY <1>0 DEF AdmissionInv, AdmissionTypeOK
<1>3. NotYet'
  <2>1. \A x \in Opener : stage[x] # "done" => x # c
    BY <1>0 DEF AdmissionInv, NotYet
  <2> QED BY <1>0, <1>1, <2>1, Disjoint DEF AdmissionInv, NotYet
<1>4. KeyExclusive' /\ OwnTarget' /\ Route'
  BY <1>0, KeysKept, SameKeys DEF AdmissionInv, OwnTarget, Route
<1>5. \A u \in Request : /\ target[u] \in Room
                         /\ Written(u)' <=> Written(u)
                         /\ Pending(u)' <=> Pending(u)
  BY <1>0 DEF AdmissionInv, AdmissionTypeOK, Written, Pending
<1>6. ChangePending'
  BY <1>0, <1>1, <1>5 DEF AdmissionInv, ChangePending, Request
<1>7. OpenerPending'
  BY <1>0, <1>1, <1>5 DEF AdmissionInv, OpenerPending, Request
<1>8. PlaceLeft' /\ PlacesBounded'
  BY <1>0, <1>1, <1>5 DEF AdmissionInv, PlaceLeft, PlacesBounded
<1>9. RoomsCounted'
  <2>1. Claimed' = Claimed /\ ActiveRooms' \subseteq Room
    BY <1>0, <1>5 DEF Claimed, Request, ActiveRooms
  <2>2. Counted' \subseteq Counted
    BY <1>0, <1>1, <2>1 DEF Counted
  <2> QED BY <2>2, CountedRooms, StillCounted DEF AdmissionInv, RoomsCounted
<1> QED BY <1>2, <1>3, <1>4, <1>6, <1>7, <1>8, <1>9 DEF AdmissionInv
-----------------------------------------------------------------------------
LEMMA NextKeeps == AdmissionInv /\ [AdmissionNext]_admissionVars => AdmissionInv'
<1> SUFFICES ASSUME AdmissionInv, [AdmissionNext]_admissionVars PROVE AdmissionInv'
  OBVIOUS
<1>1. CASE UNCHANGED admissionVars
  <2>1. Quiet /\ KeyExclusive' /\ Route'
    BY <1>1 DEF AdmissionInv, AdmissionTypeOK, admissionVars, Quiet, KeyExclusive, KeyOf, Route
  <2> QED BY <2>1, QuietKeeps
<1>2. ASSUME NEW r \in Request, RequestStep(r) PROVE AdmissionInv'
  BY <1>2, AskKeeps, WaitKeeps, BeginKeeps, GiveUpKeeps, ReadAccountKeeps, FindPlaceKeeps,
     TakePlaceKeeps, CountRoomsKeeps, OpenRoomKeeps, ChangeRoomKeeps, CommitKeeps
  DEF RequestStep, Proceed
<1>3. CASE Elsewhere
  BY <1>3, TimeUpKeeps, CaptureKeeps, TimerWritesKeeps, CrashKeeps DEF Elsewhere
<1> QED BY <1>1, <1>2, <1>3 DEF AdmissionNext

(* The inductive invariant: what each pending write has counted on is      *)
(* still so when it is made (index.ts, room:create, event:register and the *)
(* handlers of a room between their reads and their COMMIT).               *)
THEOREM PendingWritesHold == AdmissionSpec => []AdmissionInv
<1> QED BY InitAdmissionInv, NextKeeps, PTL DEF AdmissionSpec

(* Every value stays in its range.                                         *)
THEOREM AdmissionTypeCorrect == AdmissionSpec => []AdmissionTypeOK
<1>1. AdmissionInv => AdmissionTypeOK
  BY DEF AdmissionInv
<1> QED BY <1>1, PendingWritesHold, PTL

(* room:create and event:register together exceed the limit on active      *)
(* rooms by one at most, whatever the number of processes and requests     *)
(* (index.ts:966, counted under two keys).                                 *)
THEOREM ActiveRoomsAlwaysBounded == AdmissionSpec => []ActiveRoomsBounded
<1>1. AdmissionInv => ActiveRoomsBounded
  <2> SUFFICES ASSUME AdmissionInv PROVE ActiveRoomsBounded
    OBVIOUS
  <2>1. ActiveRooms \ (due \cup timed) \subseteq Counted
    BY DEF Counted
  <2> QED BY <2>1, CountedRooms, StillCounted DEF AdmissionInv, RoomsCounted, ActiveRoomsBounded
<1> QED BY <1>1, PendingWritesHold, PTL

(* No registration takes a place that is not there, in any number of       *)
(* processes, with any number of registrations and of changes to the room  *)
(* (index.ts:972, findReusableEventRoom).                                  *)
THEOREM PlacesAlwaysBounded == AdmissionSpec => []PlacesBounded
<1>1. AdmissionInv => PlacesBounded
  BY DEF AdmissionInv
<1> QED BY <1>1, PendingWritesHold, PTL
-----------------------------------------------------------------------------
(* Whoever waits for something waits for another: a queued request for one *)
(* that has the mutex, a transaction for one that has the lock; and that   *)
(* one has all it needs or gives up.  So waiting is two deep at most.      *)
LEMMA BodiesProceed ==
  ASSUME NEW u \in Request, stage[u] \in Body \cup {"connecting"}
  PROVE  CanProceed(u)
  BY DEF Body, CanProceed, TimesOut

LEMMA BeginnersProceed ==
  ASSUME NEW u \in Request, stage[u] = "begin"
  PROVE  \E v \in Request : KeyOf(v) = KeyOf(u) /\ CanProceed(v)
<1>1. CASE LockedOut(u)
  BY <1>1, BodiesProceed DEF LockedOut, SameKey
<1>2. CASE ~LockedOut(u)
  BY <1>2 DEF CanProceed
<1> QED
  BY <1>1, <1>2

(* For any requests, processes and pools, whatever fails and stops: whoever*)
(* is not settled can go on, or one under the same key can.                *)
THEOREM NobodyEverStuck == AdmissionSpec => []NobodyStuck
<1>1. AdmissionTypeOK => NobodyStuck
  <2> SUFFICES ASSUME AdmissionTypeOK, NEW r \in Request, Waiting(r)
               PROVE  \E u \in Request : KeyOf(u) = KeyOf(r) /\ CanProceed(u)
    BY DEF NobodyStuck
  <2>1. stage[r] \in {"queued", "begin"} \cup Body \cup {"connecting"}
    BY DEF AdmissionTypeOK, Stage, Holding, Waiting
  <2>2. CASE stage[r] \in Body \cup {"connecting"}
    BY <2>2, BodiesProceed
  <2>3. CASE stage[r] = "begin"
    BY <2>3, BeginnersProceed
  <2>4. CASE stage[r] = "queued" /\ ~MutexTaken(r)
    BY <2>4 DEF CanProceed
  <2>5. CASE MutexTaken(r)
    <3>1. PICK u \in Request : SameKey(r, u) /\ stage[u] \in Holding \cup {"connecting"}
      BY <2>5 DEF MutexTaken
    <3>2. CASE stage[u] = "begin"
      BY <3>1, <3>2, BeginnersProceed DEF SameKey
    <3>3. CASE stage[u] \in Body \cup {"connecting"}
      BY <3>1, <3>3, BodiesProceed DEF SameKey
    <3> QED
      BY <3>1, <3>2, <3>3 DEF Holding
  <2> QED
    BY <2>1, <2>2, <2>3, <2>4, <2>5
<1> QED
  BY <1>1, AdmissionTypeCorrect, PTL

(* How far a request is: each step takes it further, and none takes it     *)
(* back, so that what NobodyStuck promises a request can use up.           *)
Progress(s) ==
  CASE s = "idle" -> 0 [] s = "queued" -> 1 [] s = "connecting" -> 2 [] s = "begin" -> 3
    [] s = "account" -> 4 [] s = "find" -> 5 [] s = "reload" -> 6 [] s = "count" -> 7
    [] s = "code" -> 8 [] s = "load" -> 9 [] s = "commit" -> 10 [] OTHER -> 11

OnlyForward == \A r \in Request : stage'[r] # stage[r] => Progress(stage[r]) < Progress(stage'[r])

LEMMA StepForward ==
  ASSUME AdmissionTypeOK, NEW r \in Request, RequestStep(r)
  PROVE  /\ Progress(stage[r]) < Progress(stage'[r])
         /\ \A u \in Request \ {r} : stage'[u] = stage[u]
<1>1. stage \in [Request -> Stage]
  BY DEF AdmissionTypeOK
<1>2. \E s \in Stage : GoTo(r, s) /\ Progress(stage[r]) < Progress(s)
  <2>1. CASE Ask(r) \/ TakeMutex(r) \/ Connect(r) \/ Begin(r)
    BY <2>1 DEF Ask, TakeMutex, Connect, Begin, Progress, Stage, Holding, Body
  <2>2. CASE Timeout(r) \/ Fail(r)
    BY <2>2 DEF Timeout, TimesOut, Fail, Progress, Stage, Holding, Body
  <2>3. CASE ReadAccount(r) \/ FindPlace(r) \/ TakePlace(r)
    BY <2>3 DEF ReadAccount, FindPlace, TakePlace, Progress, Stage, Holding, Body
  <2>4. CASE CountRooms(r) \/ OpenRoom(r)
    BY <2>4 DEF CountRooms, OpenRoom, Progress, Stage, Holding, Body
  <2>5. CASE ChangeRoom(r)
    <3>1. stage[r] = "load" /\ GoTo(r, "commit")
      BY <2>5 DEF ChangeRoom
    <3> QED
      BY <3>1 DEF Progress, Stage, Holding, Body
  <2>6. CASE Commit(r)
    <3>1. stage[r] = "commit" /\ GoTo(r, "done")
      BY <2>6 DEF Commit
    <3> QED
      BY <3>1 DEF Progress, Stage, Holding, Body
  <2> QED
    BY <2>1, <2>2, <2>3, <2>4, <2>5, <2>6 DEF RequestStep, Proceed
<1> QED
  BY <1>1, <1>2 DEF GoTo

(* A request is settled after eleven steps of its own at most, whichever   *)
(* way they go, and no other request nor the end of a process sets it back.*)
THEOREM RequestsRunOut == AdmissionSpec => [][OnlyForward]_admissionVars
<1>1. AdmissionTypeOK /\ [AdmissionNext]_admissionVars => [OnlyForward]_admissionVars
  <2> SUFFICES ASSUME AdmissionTypeOK, AdmissionNext PROVE OnlyForward
    BY DEF admissionVars
  <2>1. ASSUME NEW r \in Request, RequestStep(r) PROVE OnlyForward
    BY <2>1, StepForward DEF OnlyForward
  <2>2. ASSUME NEW c \in Room, TimeUp(c) \/ Capture(c) \/ TimerWrites(c) PROVE OnlyForward
    BY <2>2 DEF TimeUp, Capture, TimerWrites, OnlyForward
  <2>3. ASSUME NEW p \in Process, Crash(p) PROVE OnlyForward
    BY <2>3 DEF Crash, OnlyForward, AdmissionTypeOK, Progress, Holding, Body
  <2> QED
    BY <2>1, <2>2, <2>3 DEF AdmissionNext, Elsewhere
<1> QED
  BY <1>1, AdmissionTypeCorrect, PTL DEF AdmissionSpec
=============================================================================
