----------------------------- MODULE RateLimit -----------------------------
(***************************************************************************)
(* The limit on the requests of one address about one account              *)
(* (server/httpRateLimit.ts): a bucket per key counts the attempts of a    *)
(* window that opens with the first of them.                               *)
(***************************************************************************)
EXTENDS Integers, Sequences

CONSTANTS Key,       \* scope, address and account name
          Limit,     \* of a key
          Window,    \* how long a bucket lives
          MaxTime,   \* bound on the clock
          NoBucket

ASSUME LimitAssumption ==
  /\ Limit \in [Key -> Nat \ {0}]
  /\ Window \in Nat \ {0}
  /\ MaxTime \in Nat

VARIABLES now,      \* Date.now()
          buckets,  \* httpRateLimitStore: key -> [count, resetAt] or NoBucket
          passed    \* history: when attempts were let through since the start

limitVars == <<now, buckets, passed>>

Bucket == [count : Nat \ {0}, resetAt : Nat]

ASSUME NoBucketAssumption == NoBucket \notin Bucket

LimitInit ==
  /\ now = 0
  /\ buckets = [k \in Key |-> NoBucket]
  /\ passed = [k \in Key |-> <<>>]

Open(b) == b # NoBucket /\ b.resetAt > now
-----------------------------------------------------------------------------
(* Faulty variant: the store is emptied.                                   *)
Emptied == [k \in Key |-> NoBucket]

(* Every attempt first prunes the whole store.                             *)
Pruned == [k \in Key |-> IF Open(buckets[k]) THEN buckets[k] ELSE NoBucket]

(* shouldRateLimitHttp: the attempt that meets an open bucket is counted   *)
(* before the comparison, so the refused ones are counted as well.         *)
Refuses(k) == Pruned[k] # NoBucket /\ Pruned[k].count + 1 > Limit[k]

Counted(k) ==
  [Pruned EXCEPT ![k] =
     IF @ = NoBucket THEN [count |-> 1, resetAt |-> now + Window]
     ELSE [count |-> @.count + 1, resetAt |-> @.resetAt]]

Attempt(k) ==
  /\ buckets' = Counted(k)
  /\ passed' = IF Refuses(k) THEN passed ELSE [passed EXCEPT ![k] = Append(@, now)]
  /\ UNCHANGED now

Tick ==
  /\ now < MaxTime
  /\ now' = now + 1
  /\ UNCHANGED <<buckets, passed>>

(* The store lives in memory: a start of the process begins it anew.       *)
Forget ==
  /\ buckets' = [k \in Key |-> NoBucket]
  /\ passed' = [k \in Key |-> <<>>]
  /\ UNCHANGED now

LimitNext == Tick \/ Forget \/ \E k \in Key : Attempt(k)

LimitSpec == LimitInit /\ [][LimitNext]_limitVars
-----------------------------------------------------------------------------
LimitTypeOK ==
  /\ now \in Nat
  /\ buckets \in [Key -> Bucket \cup {NoBucket}]
  /\ passed \in [Key -> Seq(Nat)]

(* A window that starts with the first attempt lets through, around its    *)
(* end, nearly twice the limit; never more.  Any 2 * Limit attempts in a   *)
(* row take at least a window, so no interval of that length holds them.   *)
AttemptsBounded ==
  \A k \in Key : \A i \in DOMAIN passed[k] :
    LET j == i + 2 * Limit[k] - 1
    IN  j \in DOMAIN passed[k] => passed[k][j] - passed[k][i] >= Window
=============================================================================
