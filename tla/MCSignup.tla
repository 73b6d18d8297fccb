------------------------------ MODULE MCSignup ------------------------------
(* The campaign in three kinds of behaviours: two browsers (two visitors)  *)
(* and one link that stays as it is, in one instant of the clock; one      *)
(* browser, and two links that change, in two instants of it, the second   *)
(* once there is a code that can expire; and the limit on one key's        *)
(* attempts alone, over all of the clock.                                  *)
EXTENDS Signup, TLC

CONSTANTS k1, k2, s1, s2, MaxPassed

VARIABLE part

MCVisitor == [b \in Browser |-> b]
MCKey     == Scope \X Browser \X Name
MCLimit   == [key \in MCKey |-> 2]
MCEnv     == [k \in Code |-> IF k = k1 THEN s1 ELSE s2]

(* Which browsers and links there are in a kind of behaviours.             *)
InSight ==
  /\ part # "links" => \A b \in Browser :
       page[b].link # k2 /\ (page[b].stored # None => page[b].stored.code = k1)
  /\ part = "links" => Cardinality({b \in Browser : page[b] # EmptyPage}) <= 1

MCInit == part \in {"pages", "links", "limit"} /\ Init /\ InSight

(* Attempts of one key; MaxPassed bounds those let through, and one more   *)
(* than the limit is made in a window.                                     *)
LimitAlone ==
  \/ Tick
  \/ Forget
  \/ \E k \in Key :
       /\ \A other \in Key \ {k} : passed[other] = <<>> /\ buckets[other] = NoBucket
       /\ Attempt(k)
       /\ buckets'[k].count <= Limit[k] + 1 /\ Len(passed'[k]) <= MaxPassed

MCNext ==
  \/ part = "pages" /\ Next /\ UNCHANGED <<now, whitelist, part>> /\ InSight'
  \/ part = "links" /\ Next /\ UNCHANGED part /\ InSight'
       /\ sent' < MaxSent /\ now' <= 1
       /\ (now' # now => \E n \in Name : users[n] # None)
  \/ part = "limit" /\ LimitAlone /\ UNCHANGED <<accountVars, page, part>>

MCSpec == MCInit /\ [][MCNext]_<<vars, part>>

(* Browsers, requests, names and e-mails differ only in name.              *)
MCSymmetry == Permutations(Browser) \cup Permutations(Call) \cup Permutations(Name)
                \cup Permutations(Email)
=============================================================================
