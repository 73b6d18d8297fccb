-------------------------- MODULE Signup_proofs --------------------------
(***************************************************************************)
(* The campaign, for any accounts, links, browsers and requests.           *)
(*                                                                         *)
(* The limit comes first.  Its invariant relates a bucket to the tail of   *)
(* the history: the last `count` attempts (at most the limit) are the      *)
(* bucket's, the first of them opened it, and what is a limit or more      *)
(* before that one is at least a window older.                             *)
(*                                                                         *)
(* Then the accounts, with every interleaving of their statements.  The    *)
(* invariant says of each request what its next statement relies on (the   *)
(* ticket it carries was of its link's school under the number it names,   *)
(* its row is written, the visit it picked is of its link and visitor) and of each     *)
(* page and answer what they may claim.  The tables only grow (Later), so  *)
(* a claim that was true when it was made stays true however late it is    *)
(* read.                                                                   *)
(***************************************************************************)
EXTENDS Signup, FiniteSetTheorems, SequenceTheorems, TLAPS

Ordered(s, t) ==
  /\ \A i \in DOMAIN s : s[i] <= t
  /\ \A i, j \in DOMAIN s : i <= j => s[i] <= s[j]

Least(a, b) == IF a <= b THEN a ELSE b

(* The place of the attempt that opened the bucket.                        *)
First(k) == Len(passed[k]) - Least(buckets[k].count, Limit[k]) + 1

(* What is m or more before place f is a window older than moment t.       *)
OlderBefore(s, m, f, t) == \A i \in DOMAIN s : i <= f - m => t - s[i] >= Window

KeyInv(k) ==
  /\ Ordered(passed[k], now)
  /\ buckets[k] # NoBucket =>
       /\ First(k) \in DOMAIN passed[k]
       /\ passed[k][First(k)] = buckets[k].resetAt - Window
       /\ OlderBefore(passed[k], Limit[k], First(k), buckets[k].resetAt - Window)
  /\ buckets[k] = NoBucket => OlderBefore(passed[k], Limit[k], Len(passed[k]) + 1, now)
  /\ \A i \in DOMAIN passed[k] :
       LET j == i + 2 * Limit[k] - 1
       IN  j \in DOMAIN passed[k] => passed[k][j] - passed[k][i] >= Window

LimitInv == LimitTypeOK /\ \A k \in Key : KeyInv(k)
-----------------------------------------------------------------------------
LEMMA LimitInitInv == LimitInit => LimitInv
  BY LimitAssumption
  DEF LimitInit, LimitInv, LimitTypeOK, KeyInv, Ordered, OlderBefore

(* The clock only makes the attempts older.                                *)
LEMMA LimitTickInv == LimitInv /\ Tick => LimitInv'
<1> SUFFICES ASSUME LimitInv, Tick PROVE LimitInv'
  OBVIOUS
<1>1. LimitTypeOK'
  BY LimitAssumption DEF LimitInv, LimitTypeOK, Tick
<1>2. ASSUME NEW k \in Key PROVE KeyInv(k)'
  BY <1>2, LimitAssumption
  DEF LimitInv, LimitTypeOK, Tick, KeyInv, Ordered, First, Least, OlderBefore
<1> QED
  BY <1>1, <1>2 DEF LimitInv

LEMMA LimitForgetInv == LimitInv /\ Forget => LimitInv'
  BY LimitAssumption
  DEF LimitInv, LimitTypeOK, Forget, KeyInv, Ordered, OlderBefore
-----------------------------------------------------------------------------
(* An attempt of a key prunes the buckets of the others: one that is over  *)
(* leaves attempts that are a window old by now.                           *)
LEMMA PrunedOlder ==
  ASSUME LimitInv, NEW k \in Key, Pruned[k] = NoBucket
  PROVE  OlderBefore(passed[k], Limit[k], Len(passed[k]) + 1, now)
<1>1. CASE buckets[k] = NoBucket
  BY <1>1 DEF LimitInv, KeyInv
<1>2. CASE buckets[k] # NoBucket
  <2>1. PICK s \in Seq(Nat) : s = passed[k]
    BY DEF LimitInv, LimitTypeOK
  <2>2. PICK l \in Nat \ {0} : l = Limit[k]
    BY LimitAssumption
  <2>3. PICK n \in Nat : n = Len(s) /\ DOMAIN s = 1 .. n
    OBVIOUS
  <2>4. buckets[k] \in Bucket /\ buckets[k].resetAt <= now /\ buckets[k].count \in Nat \ {0}
    BY <1>2, LimitAssumption DEF LimitInv, LimitTypeOK, Pruned, Open, Bucket
  <2>5. PICK f \in 1 .. n : f = First(k) /\ s[f] = buckets[k].resetAt - Window
    BY <1>2, <2>1, <2>3 DEF LimitInv, KeyInv
  <2>6. f >= n + 1 - l
    <3>1. PICK m \in Nat : m = Least(buckets[k].count, Limit[k]) /\ m <= l
      BY <2>2, <2>4 DEF Least
    <3>2. f = n - m + 1
      BY <2>1, <2>3, <2>5, <3>1 DEF First
    <3> QED
      BY <3>1, <3>2
  <2>7. /\ \A i \in 1 .. n : s[i] \in Nat
        /\ \A i \in 1 .. n : i <= f => s[i] <= s[f]
    BY <2>1, <2>3 DEF LimitInv, KeyInv, Ordered
  <2>8. \A i \in 1 .. n : i <= n + 1 - l => now - s[i] >= Window
    <3>1. PICK r \in Nat : r = buckets[k].resetAt
      BY <2>4 DEF Bucket
    <3>2. PICK w \in Nat : w = Window
      BY LimitAssumption
    <3>3. now \in Nat /\ s[f] = r - w /\ r <= now /\ s[f] \in Nat
      BY <2>4, <2>5, <2>7, <3>1, <3>2 DEF LimitInv, LimitTypeOK
    <3>4. \A i \in 1 .. n : i <= n + 1 - l => i <= f
      BY <2>6
    <3>5. \A i \in 1 .. n : i <= n + 1 - l => s[i] <= s[f] /\ s[i] \in Nat
      BY <3>4, <2>7
    <3> QED
      BY <3>2, <3>3, <3>5
  <2>9. OlderBefore(s, l, n + 1, now)
    BY <2>3, <2>8 DEF OlderBefore
  <2> QED
    BY <2>1, <2>2, <2>3, <2>9
<1> QED
  BY <1>1, <1>2

(* What an attempt of key k leaves of the other keys.                      *)
LEMMA OtherKeys ==
  ASSUME LimitInv, NEW k \in Key, Attempt(k), NEW h \in Key, h # k
  PROVE  KeyInv(h)'
<1>1. passed'[h] = passed[h] /\ buckets'[h] = Pruned[h] /\ now' = now
  BY LimitAssumption DEF Attempt, Counted, LimitInv, LimitTypeOK, Pruned
<1>2. Pruned[h] = NoBucket \/ Pruned[h] = buckets[h]
  BY DEF Pruned
<1>3. Pruned[h] = NoBucket => OlderBefore(passed[h], Limit[h], Len(passed[h]) + 1, now)
  BY PrunedOlder
<1> QED
  BY <1>1, <1>2, <1>3 DEF LimitInv, KeyInv, Ordered, First, OlderBefore

(* A refused attempt is counted beyond the limit and not let through.      *)
LEMMA RefusedKey ==
  ASSUME LimitInv, NEW k \in Key, Attempt(k), Refuses(k)
  PROVE  KeyInv(k)'
<1>1. /\ passed' = passed /\ now' = now /\ Pruned[k] = buckets[k] /\ buckets[k] # NoBucket
      /\ buckets'[k] = [count |-> buckets[k].count + 1, resetAt |-> buckets[k].resetAt]
      /\ buckets[k].count >= Limit[k] /\ buckets[k] \in Bucket
  BY LimitAssumption DEF Attempt, Refuses, Counted, Pruned, LimitInv, LimitTypeOK, Bucket
<1>2. buckets'[k] \in Bucket /\ buckets'[k].resetAt = buckets[k].resetAt
  BY <1>1 DEF Bucket
<1>3. First(k)' = First(k)
  BY <1>1, LimitAssumption DEF First, Least, Bucket
<1> QED
  BY <1>1, <1>2, <1>3, NoBucketAssumption DEF LimitInv, KeyInv, Ordered, OlderBefore

(* What appending one more moment does to a history.                       *)
LEMMA AppendFacts ==
  ASSUME NEW s \in Seq(Nat), NEW m \in Nat
  PROVE  /\ Len(s) \in Nat /\ Len(Append(s, m)) = Len(s) + 1
         /\ DOMAIN s = 1 .. Len(s) /\ DOMAIN Append(s, m) = 1 .. Len(s) + 1
         /\ Append(s, m)[Len(s) + 1] = m
         /\ \A i \in 1 .. Len(s) : Append(s, m)[i] = s[i] /\ s[i] \in Nat
  OBVIOUS

(* An attempt let through: the first of a bucket, or the next of an open   *)
(* one that has not reached the limit.                                     *)
LEMMA AllowedKey ==
  ASSUME LimitInv, NEW k \in Key, Attempt(k), ~Refuses(k)
  PROVE  KeyInv(k)'
<1>1. PICK s \in Seq(Nat) : s = passed[k]
  BY DEF LimitInv, LimitTypeOK
<1>2. PICK n \in Nat : n = Len(s)
  BY AppendFacts
<1>3. PICK t : t = Append(s, now)
  OBVIOUS
<1>4. PICK w \in Nat \ {0} : w = Window
  BY LimitAssumption
<1>5. PICK l \in Nat \ {0} : l = Limit[k]
  BY LimitAssumption
<1>6. passed'[k] = t /\ now' = now /\ now \in Nat
  BY <1>1, <1>3 DEF Attempt, LimitInv, LimitTypeOK
<1>7. /\ Len(t) = n + 1 /\ DOMAIN s = 1 .. n /\ DOMAIN t = 1 .. n + 1
      /\ t[n + 1] = now /\ \A i \in 1 .. n : t[i] = s[i] /\ s[i] \in Nat
  BY <1>2, <1>3, <1>6, AppendFacts
<1>8. /\ \A i \in 1 .. n : s[i] <= now
      /\ \A i, j \in 1 .. n : i <= j => s[i] <= s[j]
      /\ \A i \in 1 .. n : i + 2 * l - 1 \in 1 .. n => s[i + 2 * l - 1] - s[i] >= w
  BY <1>1, <1>4, <1>5, <1>7 DEF LimitInv, KeyInv, Ordered
<1>9. Ordered(t, now)
  BY <1>6, <1>7, <1>8 DEF Ordered
<1>10. buckets \in [Key -> Bucket \cup {NoBucket}]
  BY DEF LimitInv, LimitTypeOK
<1>11. buckets'[k] = IF Pruned[k] = NoBucket THEN [count |-> 1, resetAt |-> now + w]
                     ELSE [count |-> Pruned[k].count + 1, resetAt |-> Pruned[k].resetAt]
  BY <1>4 DEF Attempt, Counted, Pruned
(* It suffices that the attempt at place f opened the bucket at o.         *)
<1>12. SUFFICES ASSUME NEW f \in 1 .. n + 1, NEW o \in Nat,
                       First(k)' = f, buckets'[k] # NoBucket, buckets'[k].resetAt - w = o,
                       t[f] = o,
                       \A i \in 1 .. n : i <= f - l => o - s[i] >= w,
                       \A i \in 1 .. n : i + 2 * l - 1 = n + 1 => now - s[i] >= w
                PROVE  KeyInv(k)'
  <2>1. CASE Pruned[k] = NoBucket
    <3>1. /\ buckets'[k] \in Bucket /\ buckets'[k].count = 1
          /\ buckets'[k].resetAt = now + w /\ now + w \in Nat
      BY <2>1, <1>4, <1>6, <1>11 DEF Bucket
    <3>2. First(k)' = n + 1
      BY <3>1, <1>5, <1>6, <1>7 DEF First, Least
    <3>3. \A i \in 1 .. n : i <= n + 1 - l => now - s[i] >= w
      BY <2>1, <1>1, <1>2, <1>4, <1>5, <1>7, PrunedOlder DEF OlderBefore
    <3>4. \A i \in 1 .. n : i + 2 * l - 1 = n + 1 => i <= n + 1 - l
      BY <1>5
    <3>5. /\ n + 1 \in 1 .. n + 1 /\ buckets'[k].resetAt - w = now /\ buckets'[k] # NoBucket
          /\ t[n + 1] = now
      BY <3>1, <1>4, <1>6, <1>7, NoBucketAssumption
    <3> QED
      BY <3>2, <3>3, <3>4, <3>5, <1>6, <1>12
  <2>2. CASE Pruned[k] # NoBucket
    <3>1. PICK b \in Bucket : b = buckets[k] /\ Pruned[k] = b /\ b # NoBucket
      BY <2>2, <1>10 DEF Pruned
    <3>2. PICK c \in Nat \ {0} : c = b.count
      BY DEF Bucket
    <3>3. PICK r \in Nat : r = b.resetAt
      BY DEF Bucket
    <3>4. c + 1 <= l
      BY <3>1, <3>2, <1>5, <2>2 DEF Refuses
    <3>5. buckets'[k] = [count |-> c + 1, resetAt |-> r]
      BY <3>1, <3>2, <3>3, <2>2, <1>11
    <3>6. /\ buckets'[k] \in Bucket /\ buckets'[k] # NoBucket
          /\ buckets'[k].count = c + 1 /\ buckets'[k].resetAt = r
      BY <3>5, NoBucketAssumption DEF Bucket
    <3>7. First(k) = n - c + 1
      BY <3>1, <3>2, <3>4, <1>1, <1>2, <1>5 DEF First, Least
    <3>8. First(k)' = n - c + 1
      BY <3>6, <3>4, <1>5, <1>6, <1>7 DEF First, Least
    <3>9. PICK f \in 1 .. n : f = n - c + 1
      BY <3>1, <3>7, <1>1, <1>7 DEF LimitInv, KeyInv
    <3>10. /\ s[f] = r - w
           /\ \A i \in 1 .. n : i <= f - l => r - w - s[i] >= w
      BY <3>1, <3>3, <3>7, <3>9, <1>1, <1>4, <1>5, <1>7 DEF LimitInv, KeyInv, OlderBefore
    <3>11. s[f] \in Nat /\ t[f] = s[f] /\ f \in 1 .. n + 1 /\ First(k)' = f
      BY <3>8, <3>9, <1>7
    <3>12. ASSUME NEW i \in 1 .. n, i + 2 * l - 1 = n + 1 PROVE now - s[i] >= w
      <4>1. i <= f - l
        BY <3>12, <3>4, <3>9, <1>5, SMTT(30)
      <4>2. s[f] <= now /\ s[f] - s[i] >= w
        BY <4>1, <3>9, <3>10, <1>8
      <4>3. s[i] \in Nat
        BY <1>7
      <4> QED
        BY <4>2, <4>3, <3>11, <1>6
    <3>13. buckets'[k].resetAt - w = s[f] /\ \A i \in 1 .. n : i <= f - l => s[f] - s[i] >= w
      BY <3>6, <3>10
    <3> QED
      BY <3>6, <3>11, <3>12, <3>13, <1>12
  <2> QED
    BY <2>1, <2>2
<1>13. \A i \in 1 .. n + 1 : i + 2 * l - 1 \in 1 .. n + 1 => t[i + 2 * l - 1] - t[i] >= w
  <2> SUFFICES ASSUME NEW i \in 1 .. n + 1, i + 2 * l - 1 \in 1 .. n + 1
               PROVE  t[i + 2 * l - 1] - t[i] >= w
    OBVIOUS
  <2>1. i \in 1 .. n
    BY <1>5
  <2>2. CASE i + 2 * l - 1 \in 1 .. n
    BY <2>1, <2>2, <1>7, <1>8
  <2>3. CASE i + 2 * l - 1 = n + 1
    BY <2>1, <2>3, <1>7, <1>12
  <2> QED
    BY <2>2, <2>3
<1>14. OlderBefore(t, l, f, o)
  <2>1. ASSUME NEW i \in 1 .. n + 1, i <= f - l PROVE o - t[i] >= w
    <3>1. i \in 1 .. n
      BY <2>1, <1>5
    <3> QED
      BY <2>1, <3>1, <1>7, <1>12
  <2> QED
    BY <2>1, <1>4, <1>7 DEF OlderBefore
<1> QED
  BY <1>4, <1>5, <1>6, <1>7, <1>9, <1>12, <1>13, <1>14 DEF KeyInv

LEMMA LimitAttemptInv == ASSUME LimitInv, NEW k \in Key, Attempt(k) PROVE LimitInv'
<1>1. Pruned \in [Key -> Bucket \cup {NoBucket}]
  BY DEF Pruned, LimitInv, LimitTypeOK
<1>2. LimitTypeOK'
  <2>1. Counted(k) \in [Key -> Bucket \cup {NoBucket}]
    BY <1>1, LimitAssumption DEF Counted, Bucket, LimitInv, LimitTypeOK
  <2> QED
    BY <2>1 DEF Attempt, LimitInv, LimitTypeOK
<1>3. \A h \in Key : KeyInv(h)'
  BY OtherKeys, RefusedKey, AllowedKey
<1> QED
  BY <1>2, <1>3 DEF LimitInv
-----------------------------------------------------------------------------
(* The types and the place of every bucket in the history.                 *)
THEOREM LimitHolds == LimitSpec => []LimitInv
<1>1. LimitInv /\ [LimitNext]_limitVars => LimitInv'
  <2> SUFFICES ASSUME LimitInv, [LimitNext]_limitVars PROVE LimitInv'
    OBVIOUS
  <2>1. CASE Tick
    BY <2>1, LimitTickInv
  <2>2. CASE Forget
    BY <2>2, LimitForgetInv
  <2>3. CASE \E k \in Key : Attempt(k)
    BY <2>3, LimitAttemptInv
  <2>4. CASE UNCHANGED limitVars
    BY <2>4 DEF limitVars, LimitInv, LimitTypeOK, KeyInv, Ordered, First, OlderBefore
  <2> QED
    BY <2>1, <2>2, <2>3, <2>4 DEF LimitNext
<1> QED
  BY <1>1, LimitInitInv, PTL DEF LimitSpec

(* However the attempts are spread over the ends of the windows, fewer     *)
(* than twice the limit are let through in any interval of one window.     *)
THEOREM AttemptsAlwaysBounded == LimitSpec => []AttemptsBounded
<1>1. LimitInv => AttemptsBounded
  BY DEF LimitInv, KeyInv, AttemptsBounded
<1> QED
  BY <1>1, LimitHolds, PTL
-----------------------------------------------------------------------------
MaybeNone(S) == S \cup {None}

Op    == Scope \cup {"locate", "enter"}
Stage == {"whitelist", "record", "insert", "pick", "convert", "mail", "row", "answered"}

Request ==
  [op : MaybeNone(Op), stage : MaybeNone(Stage), by : MaybeNone(Browser), name : MaybeNone(Name),
   email : MaybeNone(Email), school : MaybeNone(School), code : MaybeNone(Code),
   secret : MaybeNone(Secret), at : MaybeNone(Nat), picked : MaybeNone(Nat), promised : BOOLEAN,
   answer : MaybeNone(Answer)]

Visit == [code : Code, visitor : {Visitor[b] : b \in Browser}, user : MaybeNone(Name)]

Page ==
  [stored : MaybeNone(Ticket), ticket : MaybeNone(Ticket), matched : MaybeNone(Ticket),
   user : MaybeNone(User), registered : MaybeNone(User), cookie : MaybeNone(Name),
   handshake : MaybeNone(Name), link : MaybeNone(Code), call : MaybeNone(Call),
   left : SUBSET Call, entry : MaybeNone(Call), entering : BOOLEAN,
   gate : {"closed", "open", "matched", "issued"}]

Typed ==
  /\ now \in Nat /\ edits \in Nat
  /\ users \in [Name -> MaybeNone(UserRow)]
  /\ events \in Seq(Visit)
  /\ whitelist \in [Code -> MaybeNone(School)]
  /\ calls \in [Call -> Request]
  /\ seats \subseteq Name
  /\ page \in [Browser -> Page]
-----------------------------------------------------------------------------
(* A ticket names the school of its link, unless the links have changed    *)
(* since it was issued.                                                    *)
Valid(t)    == t.at <= edits /\ (t.at = edits => whitelist[t.code] = t.school)
Issued(t)   == t # None => Valid(t)

(* No visit is attributed to n.                                            *)
Free(n)     == \A i \in DOMAIN events : events[i].user # n

Registering(call) == call.op = "register" /\ call.stage \in {"pick", "convert"}

AnswerInv(call) ==
  /\ call.answer \in Answer
  /\ Agrees(call.answer.user) /\ Issued(call.answer.ticket)
  /\ call.answer.status \in {200, 201} =>
       /\ call.op \in Op
       /\ call.op \in Scope => call.answer.user # None
       /\ call.op = "locate" => call.answer.ticket # None
  /\ call.op = "register" /\ call.answer.status = 403 => call.at \in Nat /\ call.at < edits

(* The ticket that a request carries.                                      *)
Carried(call) == [code |-> call.code, school |-> call.school, at |-> call.at]

CallInv(call) ==
  /\ call.op = "locate" /\ call.stage # "answered" => call.by \in Browser /\ call.code \in Code
  /\ call.op = "locate" /\ call.stage = "record" => Carried(call) \in Ticket /\ Valid(Carried(call))
  /\ call.op = "register" /\ call.stage # "answered" => call.by \in Browser /\ call.name \in Name
  /\ call.op = "register" /\ call.stage \in {"whitelist", "insert"} => 
       call.email \in Email /\ Carried(call) \in Ticket
  /\ call.op = "register" /\ call.stage = "whitelist" => Valid(Carried(call))
  /\ call.op = "register" /\ call.stage \in {"pick", "convert", "mail"} => users[call.name] # None
  /\ Registering(call) =>
       /\ users[call.name].referredBy = call.code /\ users[call.name].from = Visitor[call.by]
       /\ Free(call.name) /\ call.code \in Code
  /\ call.stage = "convert" =>
       /\ call.picked \in DOMAIN events
       /\ events[call.picked].code = call.code /\ events[call.picked].visitor = Visitor[call.by]
  /\ call.op \in {"verify", "login"} /\ call.stage # "answered" => call.name \in Name
  /\ IF call.stage = "answered" THEN AnswerInv(call) ELSE call.answer = None

(* Two sign-ups under way that have their rows have two rows.              *)
Apart ==
  \A c, d \in Call :
    Registering(calls[c]) /\ Registering(calls[d]) /\ calls[c].name = calls[d].name => c = d

PageInv(p) ==
  /\ Agrees(p.user) /\ Agrees(p.registered)
  /\ p.cookie # None => users[p.cookie] # None
  /\ Issued(p.stored) /\ Issued(p.ticket) /\ Issued(p.matched)
  /\ p.gate = "open" => p.link # None

IInv ==
  /\ Typed
  /\ SeatsVerified /\ ConversionsAttributed /\ Apart
  /\ \A c \in Call : CallInv(calls[c])
  /\ \A b \in Browser : PageInv(page[b])
-----------------------------------------------------------------------------
(* The tables only grow: no account goes or changes what it was signed up  *)
(* with, no visit loses its link or its visitor, and the links change      *)
(* under a new number.                                                     *)
UsersLater ==
  \A n \in Name : users[n] # None =>
    /\ users'[n] # None
    /\ users'[n].email = users[n].email /\ users'[n].school = users[n].school
    /\ users'[n].referredBy = users[n].referredBy /\ users'[n].from = users[n].from
    /\ users[n].verified => users'[n].verified

LinksLater == edits <= edits' /\ (edits' = edits => whitelist' = whitelist)

EventsLater ==
  \A i \in DOMAIN events :
    i \in DOMAIN events' /\ events'[i].code = events[i].code /\ events'[i].visitor = events[i].visitor

Later == UsersLater /\ LinksLater /\ EventsLater

LEMMA SameTables == ASSUME Typed, UNCHANGED <<tables, edits>> PROVE Later
  BY DEF Typed, Later, UsersLater, LinksLater, EventsLater, tables

LEMMA AgreesLater ==
  ASSUME UsersLater, NEW u \in MaybeNone(User), Agrees(u)
  PROVE  Agrees(u)'
  BY DEF UsersLater, Agrees, MaybeNone, User

LEMMA ValidLater ==
  ASSUME Typed, LinksLater, edits' \in Nat, NEW t \in Ticket, Valid(t)
  PROVE  Valid(t)'
  BY DEF Typed, LinksLater, Valid, Ticket

LEMMA IssuedLater ==
  ASSUME Typed, LinksLater, edits' \in Nat, NEW t \in MaybeNone(Ticket), Issued(t)
  PROVE  Issued(t)'
  BY ValidLater DEF Issued, MaybeNone

LEMMA PageLater ==
  ASSUME Typed, Typed', Later, NEW p \in Page, PageInv(p)
  PROVE  PageInv(p)'
<1>1. Agrees(p.user)' /\ Agrees(p.registered)'
  BY AgreesLater DEF Later, PageInv, Page
<1>2. Issued(p.stored)' /\ Issued(p.ticket)' /\ Issued(p.matched)'
  BY IssuedLater DEF Later, PageInv, Page, Typed
<1>3. p.cookie # None => users'[p.cookie] # None
  BY DEF Later, UsersLater, PageInv, Page, MaybeNone
<1> QED
  BY <1>1, <1>2, <1>3 DEF PageInv

LEMMA AnswerLater ==
  ASSUME Typed, Typed', Later, NEW call \in Request, AnswerInv(call)
  PROVE  AnswerInv(call)'
<1>1. call.answer \in Answer
  BY DEF AnswerInv, Request, MaybeNone
<1>2. Agrees(call.answer.user)' /\ Issued(call.answer.ticket)'
  BY <1>1, AgreesLater, IssuedLater DEF AnswerInv, Answer, MaybeNone, Later, Typed
<1>3. call.at \in Nat /\ call.at < edits => call.at < edits'
  BY DEF Later, LinksLater, Typed
<1> QED
  BY <1>2, <1>3 DEF AnswerInv

LEMMA CallLater ==
  ASSUME Typed, Typed', Later, NEW call \in Request, CallInv(call),
         Registering(call) => Free(call.name)'
  PROVE  CallInv(call)'
<1>1. Carried(call) \in Ticket /\ Valid(Carried(call)) => Valid(Carried(call))'
  BY ValidLater DEF Later, Typed
<1>2. call.stage = "answered" => AnswerInv(call)'
  BY AnswerLater DEF CallInv
<1>3. call.op = "register" /\ call.stage \in {"pick", "convert", "mail"} =>
        /\ users'[call.name] # None
        /\ Registering(call) => /\ users'[call.name].referredBy = call.code
                                /\ users'[call.name].from = Visitor[call.by]
  BY DEF CallInv, Later, UsersLater
<1>4. call.stage = "convert" =>
        /\ call.picked \in DOMAIN events' /\ events'[call.picked].code = call.code
        /\ events'[call.picked].visitor = Visitor[call.by]
  BY DEF CallInv, Later, EventsLater
<1> QED
  BY <1>1, <1>2, <1>3, <1>4 DEF CallInv, Carried, Registering

(* What a step has to show: the types, the three properties, and of every  *)
(* request and every page that it changes what it has become.              *)
LEMMA Keeps ==
  ASSUME IInv, Typed', Later, SeatsVerified', ConversionsAttributed', Apart',
         \A d \in Call : \/ CallInv(calls[d])'
                         \/ calls'[d] = calls[d] /\ (Registering(calls[d]) => Free(calls[d].name)'),
         \A b \in Browser : page'[b] = page[b] \/ PageInv(page[b])'
  PROVE  IInv'
<1>1. ASSUME NEW d \in Call PROVE CallInv(calls[d])'
  <2>1. CASE calls'[d] = calls[d] /\ (Registering(calls[d]) => Free(calls[d].name)')
    <3>1. PICK call \in Request : call = calls[d] /\ CallInv(call)
      BY DEF IInv, Typed
    <3>2. CallInv(call)'
      BY <2>1, <3>1, CallLater DEF IInv
    <3> QED
      BY <2>1, <3>1, <3>2
  <2> QED
    BY <2>1
<1>2. ASSUME NEW b \in Browser PROVE PageInv(page[b])'
  <2>1. CASE page'[b] = page[b]
    <3>1. PICK p \in Page : p = page[b] /\ PageInv(p)
      BY DEF IInv, Typed
    <3>2. PageInv(p)'
      BY <3>1, PageLater DEF IInv
    <3> QED
      BY <2>1, <3>1, <3>2
  <2> QED
    BY <2>1
<1> QED
  BY <1>1, <1>2 DEF IInv
-----------------------------------------------------------------------------
(* Steps of the server that change one request and no table.               *)
LEMMA NoCallTyped == NoCall \in Request /\ CallInv(NoCall) /\ ~Registering(NoCall)
  BY CampaignAssumption DEF NoCall, Request, MaybeNone, CallInv, Registering, Scope

LEMMA AnsweredTyped ==
  ASSUME Typed, NEW c \in Call, NEW status \in Nat, NEW user \in MaybeNone(User),
         NEW ticket \in MaybeNone(Ticket)
  PROVE  LET r == Answered(c, status, user, ticket)
         IN  /\ r \in Request /\ r.op = calls[c].op /\ r.stage = "answered"
             /\ r.answer = [status |-> status, user |-> user, ticket |-> ticket]
             /\ r.at = IF status = 403 THEN calls[c].at ELSE None
<1> DEFINE at == IF status = 403 THEN calls[c].at ELSE None
           answer == [status |-> status, user |-> user, ticket |-> ticket]
<1>1. calls[c] \in Request
  BY DEF Typed
<1>2. answer \in MaybeNone(Answer)
  BY DEF Answer, MaybeNone
<1>3. at \in MaybeNone(Nat) /\ calls[c].op \in MaybeNone(Op) /\ calls[c].promised \in BOOLEAN
  BY <1>1 DEF Request, MaybeNone
<1>4. "answered" \in MaybeNone(Stage)
  BY DEF Stage, MaybeNone
<1>5. Answered(c, status, user, ticket)
        = [NoCall EXCEPT !.op = calls[c].op, !.stage = "answered", !.promised = calls[c].promised,
                         !.at = at, !.answer = answer]
  BY DEF Answered
<1> HIDE DEF at, answer
<1> DEFINE r == [NoCall EXCEPT !.op = calls[c].op, !.stage = "answered",
                               !.promised = calls[c].promised, !.at = at, !.answer = answer]
<1>6. r \in Request
  BY NoCallTyped, <1>2, <1>3, <1>4, Zenon DEF Request
<1>7. r.op = calls[c].op /\ r.stage = "answered" /\ r.at = at /\ r.answer = answer
  BY DEF NoCall
<1> QED
  BY <1>5, <1>6, <1>7 DEF at, answer

LEMMA QuietStep ==
  ASSUME IInv, now' = now, UNCHANGED <<tables, seats, edits, page>>, NEW c \in Call, NEW r \in Request,
         calls' = [calls EXCEPT ![c] = r], CallInv(r)',
         Registering(r) => Registering(calls[c]) /\ r.name = calls[c].name
  PROVE  IInv'
<1>1. Typed'
  BY DEF IInv, Typed, tables
<1>2. Later
  BY SameTables DEF IInv
<1>3. SeatsVerified' /\ ConversionsAttributed' /\ Apart'
  BY DEF IInv, SeatsVerified, ConversionsAttributed, Apart, tables, Typed
<1>4. ASSUME NEW d \in Call
      PROVE  \/ CallInv(calls[d])'
             \/ calls'[d] = calls[d] /\ (Registering(calls[d]) => Free(calls[d].name)')
  <2>1. CASE d = c
    BY <2>1 DEF IInv, Typed
  <2>2. CASE d # c
    BY <2>2 DEF IInv, Typed, CallInv, Free, tables
  <2> QED
    BY <2>1, <2>2
<1> QED
  BY <1>1, <1>2, <1>3, <1>4, Keeps

(* An answer: what it tells must hold when it is given.                    *)
LEMMA AnswerGood ==
  ASSUME Typed, NEW c \in Call, NEW status \in Nat, NEW user \in MaybeNone(User),
         NEW ticket \in MaybeNone(Ticket), AnswerWith(c, status, user, ticket),
         Agrees(user)', Issued(ticket)',
         status \in {200, 201} =>
           /\ calls[c].op \in Op
           /\ calls[c].op \in Scope => user # None
           /\ calls[c].op = "locate" => ticket # None,
         calls[c].op = "register" /\ status = 403 => calls[c].at \in Nat /\ calls[c].at < edits'
  PROVE  \E r \in Request : /\ calls' = [calls EXCEPT ![c] = r]
                           /\ CallInv(r)' /\ ~Registering(r)
<1>1. PICK r \in Request :
        /\ r = Answered(c, status, user, ticket) /\ r.op = calls[c].op /\ r.stage = "answered"
        /\ r.answer = [status |-> status, user |-> user, ticket |-> ticket]
        /\ r.at = IF status = 403 THEN calls[c].at ELSE None
  BY AnsweredTyped
<1>2. calls' = [calls EXCEPT ![c] = r]
  BY <1>1 DEF AnswerWith
<1>3. AnswerInv(r)'
  <2>1. r.answer \in Answer
    BY <1>1 DEF Answer, MaybeNone
  <2>2. r.answer.user = user /\ r.answer.ticket = ticket /\ r.answer.status = status
    BY <1>1
  <2>3. r.op = calls[c].op /\ (status = 403 => r.at = calls[c].at)
    BY <1>1
  <2>4. Agrees(r.answer.user)'
    BY <2>2 DEF Agrees
  <2>5. Issued(r.answer.ticket)'
    BY <2>2 DEF Issued, Valid
  <2>6. r.answer.status \in {200, 201} =>
          /\ r.op \in Op
          /\ r.op \in Scope => r.answer.user # None
          /\ r.op = "locate" => r.answer.ticket # None
    BY <2>2, <2>3
  <2>7. r.op = "register" /\ r.answer.status = 403 => r.at \in Nat /\ r.at < edits'
    BY <2>2, <2>3
  <2> QED
    BY <2>1, <2>4, <2>5, <2>6, <2>7 DEF AnswerInv
<1>4. CallInv(r)' /\ ~Registering(r)
  BY <1>1, <1>3 DEF CallInv, Registering
<1> QED
  BY <1>2, <1>4

LEMMA NoneAgrees == Agrees(None) /\ Agrees(None)' /\ Issued(None) /\ Issued(None)'
  BY DEF Agrees, Issued

(* An answer that says nothing but an error.                               *)
LEMMA RefuseGood ==
  ASSUME Typed, NEW c \in Call, NEW status \in Nat \ {200, 201}, Refuse(c, status),
         status = 403 /\ calls[c].op = "register" => calls[c].at \in Nat /\ calls[c].at < edits'
  PROVE  \E r \in Request : /\ calls' = [calls EXCEPT ![c] = r]
                           /\ CallInv(r)' /\ ~Registering(r)
<1>1. None \in MaybeNone(User) /\ None \in MaybeNone(Ticket)
  BY DEF MaybeNone
<1> QED
  BY <1>1, AnswerGood, NoneAgrees DEF Refuse

LEMMA RefuseStep ==
  ASSUME IInv, now' = now, UNCHANGED <<tables, seats, edits, page>>, NEW c \in Call,
         NEW status \in Nat \ {200, 201}, Refuse(c, status),
         status = 403 /\ calls[c].op = "register" => calls[c].at \in Nat /\ calls[c].at < edits
  PROVE  IInv'
<1>1. PICK r \in Request : calls' = [calls EXCEPT ![c] = r] /\ CallInv(r)' /\ ~Registering(r)
  BY RefuseGood DEF IInv
<1> QED
  BY <1>1, QuietStep
-----------------------------------------------------------------------------
(* The handlers, one statement at a time.                                  *)
LEMMA ReadLinkStep == ASSUME IInv, NEW c \in Call, ReadLink(c), page' = page PROVE IInv'
<1> USE DEF ReadLink, At
<1>1. now' = now /\ UNCHANGED <<tables, seats, edits, page>>
  BY DEF limitVars, tables
<1>2. PICK call \in Request : call = calls[c] /\ CallInv(call)
  BY DEF IInv, Typed
<1>3. /\ call.op = "locate" /\ call.stage = "whitelist" /\ call.by \in Browser /\ call.code \in Code
      /\ call.answer = None
  BY <1>2 DEF CallInv
<1>4. CASE Refuse(c, 403)
  BY <1>1, <1>2, <1>3, <1>4, RefuseStep
<1>5. CASE ~Refuse(c, 403)
  <2>1. PICK s \in School : s = whitelist[call.code]
    BY <1>2, <1>3, <1>5 DEF IInv, Typed, MaybeNone
  <2>2. PICK r : r = [call EXCEPT !.stage = "record", !.at = edits, !.school = s]
    OBVIOUS
  <2>3. edits \in Nat
    BY DEF IInv, Typed
  <2>4. edits \in MaybeNone(Nat) /\ s \in MaybeNone(School) /\ "record" \in MaybeNone(Stage)
    BY <2>3 DEF MaybeNone, Stage
  <2>5. r \in Request
    BY <2>2, <2>4, Zenon DEF Request
  <2>6. /\ r.op = "locate" /\ r.stage = "record" /\ r.by \in Browser /\ r.code = call.code
        /\ r.at = edits /\ r.school = s /\ r.answer = None
    BY <2>2, <1>3 DEF Request
  <2>7. calls' = [calls EXCEPT ![c] = r]
    BY <1>2, <1>5, <2>1, <2>2
  <2>8. Carried(r) \in Ticket /\ Valid(Carried(r))'
    BY <1>1, <1>3, <2>1, <2>3, <2>6 DEF Carried, Ticket, Valid, tables
  <2>9. CallInv(r)' /\ ~Registering(r)
    BY <1>3, <2>6, <2>8, CampaignAssumption DEF CallInv, Registering
  <2> QED
    BY <1>1, <2>5, <2>7, <2>9, QuietStep
<1> QED
  BY <1>4, <1>5

LEMMA RecordVisitStep == ASSUME IInv, NEW c \in Call, RecordVisit(c), page' = page PROVE IInv'
<1> USE DEF RecordVisit, At
<1>1. UNCHANGED <<now, users, whitelist, seats, edits, page>>
  BY DEF limitVars
<1>2. PICK call \in Request : call = calls[c] /\ CallInv(call)
  BY DEF IInv, Typed
<1>3. /\ call.op = "locate" /\ call.by \in Browser /\ call.code \in Code
      /\ TicketOf(c) \in Ticket /\ Valid(TicketOf(c))
  BY <1>2 DEF CallInv, Carried, TicketOf
<1>4. PICK v \in Visit : events' = Append(events, v) /\ v.user = None
  BY <1>2, <1>3 DEF Visit, MaybeNone
<1>5. PICK r \in Request : calls' = [calls EXCEPT ![c] = r] /\ CallInv(r)' /\ ~Registering(r)
  <2>1. PICK t \in Ticket : t = TicketOf(c) /\ Valid(t)
    BY <1>3
  <2>2. Issued(t)' /\ None \in MaybeNone(User) /\ t \in MaybeNone(Ticket) /\ t # None
    BY <2>1, <1>1, CampaignAssumption DEF Issued, Valid, MaybeNone
  <2>3. AnswerWith(c, 200, None, t)
    BY <2>1
  <2> QED
    BY <1>2, <1>3, <2>2, <2>3, AnswerGood, NoneAgrees, CampaignAssumption DEF IInv, Op, Scope
<1>6. Typed' /\ Later
  BY <1>1, <1>4, <1>5 DEF IInv, Typed, Later, UsersLater, LinksLater, EventsLater
<1>7. /\ \A i \in DOMAIN events : i \in DOMAIN events' /\ events'[i] = events[i]
      /\ \A i \in DOMAIN events' : i \in DOMAIN events \/ events'[i].user = None
  BY <1>4 DEF IInv, Typed
<1>8. SeatsVerified' /\ ConversionsAttributed'
  BY <1>1, <1>7 DEF IInv, SeatsVerified, ConversionsAttributed
<1>9. Apart'
  BY <1>5 DEF IInv, Apart, Typed
<1>10. ASSUME NEW d \in Call
       PROVE  \/ CallInv(calls[d])'
              \/ calls'[d] = calls[d] /\ (Registering(calls[d]) => Free(calls[d].name)')
  <2>1. Registering(calls[d]) => calls[d].name # None /\ Free(calls[d].name)
    BY CampaignAssumption DEF IInv, CallInv, Registering
  <2> QED
    BY <1>5, <1>7, <2>1 DEF IInv, Typed, Free
<1> QED
  BY <1>1, <1>6, <1>8, <1>9, <1>10, Keeps

LEMMA CheckLinkStep == ASSUME IInv, NEW c \in Call, CheckLink(c), page' = page PROVE IInv'
<1> USE DEF CheckLink, At
<1>1. now' = now /\ UNCHANGED <<tables, seats, edits, page>>
  BY DEF limitVars, tables
<1>2. PICK call \in Request : call = calls[c] /\ CallInv(call)
  BY DEF IInv, Typed
<1>3. /\ call.op = "register" /\ call.stage = "whitelist" /\ call.by \in Browser
      /\ call.name \in Name /\ call.email \in Email
      /\ Carried(call) \in Ticket /\ Valid(Carried(call)) /\ call.answer = None
  BY <1>2 DEF CallInv
<1>4. CASE Refuse(c, 403) /\ whitelist[call.code] # call.school
  <2>1. call.at \in Nat /\ call.at < edits
    BY <1>3, <1>4 DEF Carried, Valid, Ticket, IInv, Typed
  <2> QED
    BY <1>1, <1>2, <1>4, <2>1, RefuseStep
<1>5. CASE GoTo(c, "insert")
  <2>1. PICK r : r = [call EXCEPT !.stage = "insert"]
    OBVIOUS
  <2>2. r \in Request
    BY <2>1 DEF Request, MaybeNone, Stage
  <2>3. calls' = [calls EXCEPT ![c] = r]
    BY <1>2, <1>5, <2>1 DEF GoTo
  <2>4. /\ r.op = "register" /\ r.stage = "insert" /\ r.by \in Browser /\ r.name \in Name
        /\ r.email \in Email /\ Carried(r) = Carried(call) /\ r.answer = None
    BY <1>3, <2>1 DEF Carried, Request
  <2>5. CallInv(r)' /\ ~Registering(r)
    BY <1>3, <2>4, CampaignAssumption DEF CallInv, Registering, Scope
  <2> QED
    BY <1>1, <2>2, <2>3, <2>5, QuietStep
<1> QED
  BY <1>2, <1>4, <1>5

LEMMA FailStep == ASSUME IInv, NEW c \in Call, FailRequest(c), page' = page PROVE IInv'
<1>1. now' = now /\ UNCHANGED <<tables, seats, edits, page>> /\ Refuse(c, 500)
  BY DEF FailRequest, limitVars, tables
<1> QED
  BY <1>1, RefuseStep

(* An answer about an account, of what is in its row.                      *)
LEMMA PublicUserAgrees ==
  ASSUME Typed, NEW n \in Name, users[n] # None
  PROVE  /\ PublicUser(n) \in User /\ Agrees(PublicUser(n))
         /\ [PublicUser(n) EXCEPT !.verified = FALSE] \in User
         /\ Agrees([PublicUser(n) EXCEPT !.verified = FALSE])
<1>1. users[n] \in UserRow
  BY DEF Typed, MaybeNone
<1>2. PICK u \in User : u = PublicUser(n)
  BY <1>1 DEF UserRow, User, PublicUser
<1>3. PICK v \in User : v = [u EXCEPT !.verified = FALSE]
  BY <1>2 DEF User
<1>4. /\ u.name = n /\ u.email = users[n].email /\ u.school = users[n].school
      /\ u.verified = users[n].verified
  BY <1>2 DEF PublicUser
<1>5. v.name = n /\ v.email = users[n].email /\ v.school = users[n].school /\ v.verified = FALSE
  BY <1>3, <1>4 DEF User
<1>6. Agrees(u) /\ Agrees(v)
  BY <1>4, <1>5 DEF Agrees
<1> QED
  BY <1>2, <1>3, <1>6

(* A good answer while the tables stay as they are.                        *)
LEMMA TellStep ==
  ASSUME IInv, now' = now, UNCHANGED <<tables, seats, edits, page>>, NEW c \in Call,
         NEW status \in {200, 201}, NEW user \in User,
         AnswerWith(c, status, user, None), Agrees(user), calls[c].op \in Scope
  PROVE  IInv'
<1>1. Agrees(user)'
  BY DEF Agrees, tables
<1>2. user \in MaybeNone(User) /\ user # None /\ None \in MaybeNone(Ticket)
  BY CampaignAssumption DEF MaybeNone
<1>3. calls[c].op \in Op /\ calls[c].op # "locate"
  BY DEF Op, Scope
<1>4. PICK r \in Request : calls' = [calls EXCEPT ![c] = r] /\ CallInv(r)' /\ ~Registering(r)
  BY <1>1, <1>2, <1>3, AnswerGood, NoneAgrees DEF IInv
<1>5. now' = now /\ UNCHANGED <<tables, seats, edits, page>>
  OBVIOUS
<1> QED
  BY ONLY IInv, <1>4, <1>5, QuietStep

LEMMA LogInStep == ASSUME IInv, NEW c \in Call, LogIn(c), page' = page PROVE IInv'
<1> USE DEF LogIn, At
<1>1. now' = now /\ UNCHANGED <<tables, seats, edits, page>>
  BY DEF limitVars, tables
<1>2. calls[c].name \in Name
  BY DEF IInv, CallInv
<1>3. CASE Refuse(c, 500)
  BY <1>1, <1>3, RefuseStep
<1>4. CASE users[calls[c].name] # None /\ AnswerWith(c, 200, PublicUser(calls[c].name), None)
  <2>1. PICK user \in User : user = PublicUser(calls[c].name) /\ Agrees(user)
    BY <1>2, <1>4, PublicUserAgrees DEF IInv
  <2>2. AnswerWith(c, 200, user, None)
    BY <1>4, <2>1
  <2>3. calls[c].op \in Scope
    BY DEF Scope
  <2> QED
    BY <1>1, <2>1, <2>2, <2>3, TellStep
<1> QED
  BY <1>3, <1>4

LEMMA SendMailStep == ASSUME IInv, NEW c \in Call, SendMail(c), page' = page PROVE IInv'
<1> USE DEF SendMail, At
<1>1. now' = now /\ UNCHANGED <<tables, seats, edits, page>>
  BY DEF limitVars, tables
<1>2. calls[c].name \in Name /\ users[calls[c].name] # None
  BY DEF IInv, CallInv
<1>3. PICK user \in User :
        user = [PublicUser(calls[c].name) EXCEPT !.verified = FALSE] /\ Agrees(user)
  BY <1>2, PublicUserAgrees DEF IInv
<1>4. AnswerWith(c, 201, user, None) /\ calls[c].op \in Scope
  BY <1>3 DEF Scope
<1> QED
  BY <1>1, <1>3, <1>4, TellStep

LEMMA EnterEventStep == ASSUME IInv, NEW c \in Call, EnterEvent(c), page' = page PROVE IInv'
<1> USE DEF EnterEvent, At
<1>1. UNCHANGED <<now, users, events, whitelist, edits, page>>
  BY DEF limitVars, tables
<1>2. CASE Refuse(c, 403) /\ UNCHANGED seats
  BY <1>1, <1>2, RefuseStep DEF tables
<1>3. CASE /\ calls[c].name # None /\ users[calls[c].name] # None /\ users[calls[c].name].verified
           /\ seats' = seats \cup {calls[c].name} /\ AnswerWith(c, 200, None, None)
  <2>1. calls[c].name \in Name
    BY <1>3 DEF IInv, Typed, Request, MaybeNone
  <2>2. calls[c].op \notin Scope /\ calls[c].op # "locate" /\ calls[c].op # "register"
    BY DEF Scope
  <2>3. calls[c].op \in Op /\ None \in MaybeNone(User) /\ None \in MaybeNone(Ticket)
    BY DEF MaybeNone, Op
  <2>4. PICK r \in Request : calls' = [calls EXCEPT ![c] = r] /\ CallInv(r)' /\ ~Registering(r)
    BY <1>3, <2>2, <2>3, AnswerGood, NoneAgrees DEF IInv
  <2>5. Typed' /\ Later
    BY <1>1, <1>3, <2>1, <2>4 DEF IInv, Typed, Later, UsersLater, LinksLater, EventsLater
  <2>6. SeatsVerified' /\ ConversionsAttributed'
    BY <1>1, <1>3 DEF IInv, SeatsVerified, ConversionsAttributed
  <2>7. Apart'
    BY <2>4 DEF IInv, Apart, Typed
  <2>8. ASSUME NEW d \in Call
        PROVE  \/ CallInv(calls[d])'
               \/ calls'[d] = calls[d] /\ (Registering(calls[d]) => Free(calls[d].name)')
    BY <1>1, <2>4 DEF IInv, Typed, CallInv, Free
  <2> QED
    BY <1>1, <2>5, <2>6, <2>7, <2>8, Keeps
<1> QED
  BY <1>2, <1>3

(* The account a code verifies keeps everything else; its answer says so.  *)
LEMMA VerifyEmailStep == ASSUME IInv, NEW c \in Call, VerifyEmail(c), page' = page PROVE IInv'
<1> USE DEF VerifyEmail, At
<1>1. UNCHANGED <<now, events, whitelist, seats, edits, page>>
  BY DEF limitVars
<1>2. PICK n \in Name : n = calls[c].name
  BY DEF IInv, CallInv
<1>3. CASE Refuse(c, 500) /\ UNCHANGED users
  BY <1>1, <1>3, RefuseStep DEF tables
<1>4. CASE Verifiable(n, calls[c].secret) /\ ~(Refuse(c, 500) /\ UNCHANGED users)
  <2>1. PICK row \in UserRow : row = users[n]
    BY <1>4 DEF Verifiable, IInv, Typed, MaybeNone
  <2>2. PICK new : new = [row EXCEPT !.verified = TRUE, !.secret = None, !.expires = None]
    OBVIOUS
  <2>3. users' = [users EXCEPT ![n] = new]
    BY <1>2, <1>4, <2>1, <2>2
  <2>4. /\ new \in UserRow /\ new # None /\ new.verified
        /\ new.email = row.email /\ new.school = row.school /\ new.referredBy = row.referredBy
        /\ new.from = row.from
    <3>1. UserRow = [name : Name, email : Email, school : School, referredBy : MaybeNone(Code),
                     from : {Visitor[b] : b \in Browser},
                     secret : MaybeNone(Secret), expires : MaybeNone(Nat), verified : BOOLEAN]
      BY DEF UserRow, MaybeNone
    <3>2. None \in MaybeNone(Secret) /\ None \in MaybeNone(Nat) /\ TRUE \in BOOLEAN
      BY DEF MaybeNone
    <3>3. new \in UserRow
      BY ONLY <2>2, <3>1, <3>2, row \in UserRow, Zenon
    <3>4. new # None
      BY ONLY <3>3, CampaignAssumption
    <3>5. row \in [name : Name, email : Email, school : School, referredBy : MaybeNone(Code),
                   from : {Visitor[b] : b \in Browser},
                   secret : MaybeNone(Secret), expires : MaybeNone(Nat), verified : BOOLEAN]
      BY <3>1
    <3>6. /\ new.verified /\ new.email = row.email /\ new.from = row.from
          /\ new.school = row.school /\ new.referredBy = row.referredBy
      BY ONLY <2>2, <3>5
    <3> QED
      BY ONLY <3>3, <3>4, <3>6
  <2>5. PICK old, user : old = PublicUser(n) /\ user = [old EXCEPT !.verified = TRUE]
    OBVIOUS
  <2>6. /\ user \in User /\ user # None /\ user.name = n /\ user.verified
        /\ user.email = row.email /\ user.school = row.school
    <3>1. /\ old \in User /\ old.name = n /\ old.email = row.email /\ old.school = row.school
      BY <2>1, <2>5 DEF PublicUser, User, UserRow
    <3>2. user \in User
      BY <2>5, <3>1, Zenon DEF User
    <3> QED
      BY <2>5, <3>1, <3>2, CampaignAssumption DEF User
  <2>7. users \in [Name -> MaybeNone(UserRow)]
    BY DEF IInv, Typed
  <2>8. Agrees(user)'
    BY <2>3, <2>4, <2>6, <2>7 DEF Agrees
  <2>9. PICK r \in Request : calls' = [calls EXCEPT ![c] = r] /\ CallInv(r)' /\ ~Registering(r)
    <3>1. AnswerWith(c, 200, user, None)
      BY <1>2, <1>4, <2>5
    <3>2. user \in MaybeNone(User) /\ None \in MaybeNone(Ticket) /\ calls[c].op \in Op
      BY <2>6 DEF MaybeNone, Op, Scope
    <3> QED
      BY <3>1, <3>2, <2>6, <2>8, AnswerGood, NoneAgrees DEF IInv
  <2>10. Typed'
    BY <1>1, <2>3, <2>4, <2>9 DEF IInv, Typed, MaybeNone
  <2>11. \A m \in Name : users'[m] = IF m = n THEN new ELSE users[m]
    BY <2>3, <2>7
  <2>12. Later
    BY <1>1, <2>1, <2>4, <2>11 DEF Later, UsersLater, LinksLater, EventsLater, IInv, Typed
  <2>13. SeatsVerified'
    BY <1>1, <2>4, <2>11 DEF SeatsVerified, IInv, Typed
  <2>14. ConversionsAttributed'
    <3>1. \A i \in DOMAIN events : events[i] \in Visit
      BY DEF IInv, Typed
    <3>2. \A i \in DOMAIN events : events[i].user \in MaybeNone(Name)
      BY <3>1 DEF Visit
    <3> QED
      BY <1>1, <2>1, <2>4, <2>11, <3>2 DEF ConversionsAttributed, IInv, MaybeNone
  <2>15. Apart'
    BY <2>9 DEF IInv, Apart, Typed
  <2>16. ASSUME NEW d \in Call
         PROVE  \/ CallInv(calls[d])'
                \/ calls'[d] = calls[d] /\ (Registering(calls[d]) => Free(calls[d].name)')
    BY <1>1, <2>9 DEF IInv, Typed, CallInv, Free
  <2> QED
    BY <1>1, <2>10, <2>12, <2>13, <2>14, <2>15, <2>16, Keeps
<1> QED
  BY <1>2, <1>3, <1>4

(* A set of places of a sequence has a last one.                           *)
LEMMA LastPlace ==
  ASSUME NEW n \in Nat, NEW S \in SUBSET (1 .. n), S # {}
  PROVE  Max(S) \in S
<1> DEFINE R == OpToRel(<, Nat)
           B == {n - i : i \in S}
<1>1. IsWellFoundedOn(R, Nat)
  BY NatLessThanWellFounded
<1>2. \A x, y \in Nat : x < y => <<x, y>> \in R
  BY DEF OpToRel
<1> HIDE DEF R
<1>3. B \subseteq Nat /\ B # {}
  <2>1. \A i \in S : i \in Nat /\ n - i \in Nat
    OBVIOUS
  <2> QED
    BY <2>1
<1>4. PICK b \in B : \A y \in B : ~ (<<y, b>> \in R)
  <2> HIDE DEF B
  <2> QED
    BY <1>1, <1>3, WFMin
<1>5. PICK i \in S : b = n - i
  OBVIOUS
<1>6. ASSUME NEW j \in S PROVE i >= j
  <2>1. n - j \in B /\ n - j \in Nat /\ b \in Nat
    BY <1>3
  <2>2. ~ (n - j < b)
    BY <1>2, <1>4, <2>1
  <2> QED
    BY <1>5, <2>2
<1> QED
  BY <1>6 DEF Max

LEMMA PickVisitStep == ASSUME IInv, NEW c \in Call, PickVisit(c), page' = page PROVE IInv'
<1> USE DEF PickVisit, At
<1>1. now' = now /\ UNCHANGED <<tables, seats, edits, page>>
  BY DEF limitVars, tables
<1>2. PICK call \in Request : call = calls[c] /\ CallInv(call)
  BY DEF IInv, Typed
<1>3. /\ call.op = "register" /\ call.stage = "pick" /\ call.by \in Browser /\ call.name \in Name
      /\ users[call.name] # None /\ users[call.name].referredBy = call.code
      /\ users[call.name].from = Visitor[call.by] /\ Free(call.name) /\ call.code \in Code /\ call.answer = None
  BY <1>2, CampaignAssumption DEF CallInv, Registering
<1>4. PICK stage, picked :
        /\ stage = IF Unconverted(c) = {} THEN "mail" ELSE "convert"
        /\ picked = IF Unconverted(c) = {} THEN None ELSE Max(Unconverted(c))
  OBVIOUS
<1>5. stage = "convert" => picked \in Unconverted(c) /\ picked \in Nat
  <2>1. Len(events) \in Nat /\ Unconverted(c) \subseteq 1 .. Len(events)
    BY DEF IInv, Typed, Unconverted
  <2> QED
    BY <1>4, <2>1, LastPlace
<1>6. PICK r : r = [call EXCEPT !.stage = stage, !.picked = picked]
  OBVIOUS
<1>7. stage \in {"mail", "convert"} /\ stage \in MaybeNone(Stage) /\ picked \in MaybeNone(Nat)
  BY <1>4, <1>5 DEF MaybeNone, Stage
<1>8. r \in Request
  BY <1>6, <1>7, Zenon DEF Request
<1>9. /\ r.op = "register" /\ r.stage = stage /\ r.by = call.by /\ r.name = call.name
      /\ r.code = call.code /\ r.picked = picked /\ r.answer = None
  BY <1>3, <1>6 DEF Request
<1>10. calls' = [calls EXCEPT ![c] = r]
  BY <1>2, <1>4, <1>6
<1>11. stage = "convert" => /\ picked \in DOMAIN events /\ events[picked].code = call.code
                            /\ events[picked].visitor = Visitor[call.by]
  BY <1>2, <1>5 DEF Unconverted
<1>12. CallInv(r)'
  BY <1>1, <1>3, <1>7, <1>9, <1>11, CampaignAssumption DEF CallInv, Registering, Free, tables
<1>13. Registering(calls[c]) /\ r.name = calls[c].name
  BY <1>2, <1>3, <1>9 DEF Registering
<1> QED
  BY ONLY IInv, <1>1, <1>8, <1>10, <1>12, <1>13, QuietStep

LEMMA ConvertStep == ASSUME IInv, NEW c \in Call, Convert(c), page' = page PROVE IInv'
<1> USE DEF Convert, At
<1>1. UNCHANGED <<now, users, whitelist, seats, edits, page>>
  BY DEF limitVars
<1>2. PICK call \in Request : call = calls[c] /\ CallInv(call)
  BY DEF IInv, Typed
<1>3. PICK n \in Name, i \in DOMAIN events :
        /\ n = call.name /\ i = call.picked
        /\ call.op = "register" /\ call.stage = "convert" /\ call.by \in Browser
        /\ users[n] # None /\ users[n].referredBy = events[i].code
        /\ users[n].from = events[i].visitor /\ Free(n)
        /\ call.answer = None
  BY <1>2, CampaignAssumption DEF CallInv, Registering
<1>4. PICK r : r = [call EXCEPT !.stage = "mail", !.picked = None]
  OBVIOUS
<1>5. "mail" \in MaybeNone(Stage) /\ None \in MaybeNone(Nat)
  BY DEF MaybeNone, Stage
<1>6. r \in Request
  BY <1>4, <1>5, Zenon DEF Request
<1>7. /\ r.op = "register" /\ r.stage = "mail" /\ r.by = call.by /\ r.name = n
      /\ r.answer = None
      /\ calls' = [calls EXCEPT ![c] = r]
  BY <1>2, <1>3, <1>4 DEF Request
<1>8. CallInv(r)' /\ ~Registering(r)
  BY <1>1, <1>3, <1>7, CampaignAssumption DEF CallInv, Registering
<1>9. PICK v : v = [events[i] EXCEPT !.user = n]
  OBVIOUS
<1>10. events' = [events EXCEPT ![i] = v]
  BY <1>2, <1>3, <1>9
<1>11. events \in Seq(Visit) /\ events[i] \in Visit
  BY DEF IInv, Typed
<1>12. v \in Visit /\ v.user = n /\ v.code = events[i].code /\ v.visitor = events[i].visitor
  BY <1>9, <1>11 DEF Visit, MaybeNone
<1>13. /\ events' \in Seq(Visit) /\ DOMAIN events' = DOMAIN events
       /\ \A j \in DOMAIN events : events'[j] = IF j = i THEN v ELSE events[j]
  <2>1. PICK m \in Nat : m = Len(events) /\ DOMAIN events = 1 .. m
    BY <1>11
  <2>2. PICK old \in Seq(Visit) : old = events /\ Len(old) = m
    BY <1>11, <2>1
  <2>3. PICK new : new = [old EXCEPT ![i] = v]
    OBVIOUS
  <2>4. /\ new \in Seq(Visit) /\ Len(new) = m
        /\ \A j \in 1 .. m : new[j] = IF j = i THEN v ELSE old[j]
    BY ONLY <2>1, <2>2, <2>3, <1>12, i \in DOMAIN events, ExceptSeq
  <2> QED
    BY ONLY <1>10, <2>1, <2>2, <2>3, <2>4
<1>14. Typed' /\ Later
  <2>1. Typed'
    BY ONLY IInv, <1>1, <1>6, <1>7, <1>13 DEF IInv, Typed
  <2>2. UsersLater /\ LinksLater
    BY <1>1 DEF UsersLater, LinksLater, IInv, Typed
  <2>3. EventsLater
    BY ONLY <1>12, <1>13 DEF EventsLater
  <2> QED
    BY <2>1, <2>2, <2>3 DEF Later
<1>15. SeatsVerified'
  BY <1>1 DEF IInv, SeatsVerified
<1>16. ConversionsAttributed'
  <2>1. ASSUME NEW j \in DOMAIN events, NEW m, m = events'[j].user, m # None
        PROVE  /\ users[m] # None /\ users[m].referredBy = events'[j].code
               /\ users[m].from = events'[j].visitor
               /\ \A k \in DOMAIN events : events'[k].user = m => k = j
    <3>1. \A k \in DOMAIN events : events[k].user # n
      BY <1>3 DEF Free
    <3>2. \A k \in DOMAIN events : events'[k].user = IF k = i THEN n ELSE events[k].user
      BY ONLY <1>12, <1>13
    <3>3. \A k \in DOMAIN events :
            events'[k].code = events[k].code /\ events'[k].visitor = events[k].visitor
      BY ONLY <1>12, <1>13
    <3>4. CASE j = i
      BY ONLY <2>1, <3>1, <3>2, <3>3, <3>4, <1>3
    <3>5. CASE j # i
      <4>1. m = events[j].user /\ m # n
        BY ONLY <2>1, <3>1, <3>2, <3>5
      <4>2. /\ users[m] # None /\ users[m].referredBy = events[j].code
            /\ users[m].from = events[j].visitor
            /\ \A k \in DOMAIN events : events[k].user = m => k = j
        BY <2>1, <4>1 DEF IInv, ConversionsAttributed
      <4> QED
        BY ONLY <2>1, <3>2, <3>3, <4>1, <4>2
    <3> QED
      BY <3>4, <3>5
  <2> QED
    BY ONLY <1>1, <1>13, <2>1 DEF ConversionsAttributed
<1>17. Apart'
  BY <1>7, <1>8 DEF IInv, Apart, Typed
<1>18. ASSUME NEW d \in Call
       PROVE  \/ CallInv(calls[d])'
              \/ calls'[d] = calls[d] /\ (Registering(calls[d]) => Free(calls[d].name)')
  <2>1. CASE d = c
    BY <1>7, <1>8, <2>1 DEF IInv, Typed
  <2>2. CASE d # c
    <3>1. Registering(calls[d]) => calls[d].name # n /\ Free(calls[d].name)
      BY <1>2, <1>3, <2>2 DEF IInv, Apart, CallInv, Registering
    <3>2. calls'[d] = calls[d]
      BY <1>7, <2>2 DEF IInv, Typed
    <3>3. ASSUME Registering(calls[d]) PROVE Free(calls[d].name)'
      <4>1. PICK m : m = calls[d].name /\ m # n /\ \A j \in DOMAIN events : events[j].user # m
        BY <3>1, <3>3 DEF Free
      <4>2. \A j \in DOMAIN events' : events'[j].user # m
        BY ONLY <1>12, <1>13, <4>1
      <4>3. (calls[d].name)' = m
        BY <3>2, <4>1
      <4> QED
        BY <4>2, <4>3 DEF Free
    <3> QED
      BY <3>2, <3>3
  <2> QED
    BY <2>1, <2>2
<1> QED
  BY <1>1, <1>14, <1>15, <1>16, <1>17, <1>18, Keeps

(* The row of a new account: nobody had its name, so nothing referred to   *)
(* it, and no other sign-up of that name is at its visit.                  *)
LEMMA CreateUserStep == ASSUME IInv, NEW c \in Call, CreateUser(c), page' = page PROVE IInv'
<1>1. UNCHANGED <<now, events, whitelist, seats, edits, page>>
  BY DEF CreateUser, limitVars
<1>2. PICK call \in Request : call = calls[c] /\ CallInv(call)
  BY DEF IInv, Typed
<1>3. /\ call.op = "register" /\ call.stage = "insert" /\ call.by \in Browser
      /\ call.name \in Name /\ call.email \in Email /\ call.school \in School
      /\ call.code \in Code /\ call.code # None /\ call.answer = None
  BY <1>2, CampaignAssumption DEF CreateUser, At, CallInv, Carried, Ticket
<1>4. CASE Refuse(c, 500) /\ UNCHANGED users
  <2>1. UNCHANGED <<tables, seats, edits, page>>
    BY <1>1, <1>4 DEF tables
  <2> QED
    BY ONLY IInv, <1>1, <1>4, <2>1, c \in Call, RefuseStep
<1>5. CASE ~(Refuse(c, 500) /\ UNCHANGED users)
  <2>1. PICK n \in Name, secret \in Secret :
          /\ n = call.name /\ users[n] = None
          /\ users' = [users EXCEPT ![n] = Row(n, call.email, call.school, call.code,
                                                   Visitor[call.by], secret)]
          /\ calls' = [calls EXCEPT ![c].stage = "pick"]
    BY <1>2, <1>3, <1>5 DEF CreateUser, GoTo, Taken
  <2>2. PICK row \in UserRow :
          /\ row = Row(n, call.email, call.school, call.code, Visitor[call.by], secret)
          /\ row.referredBy = call.code /\ row.from = Visitor[call.by]
    <3>1. PICK t \in Nat : t = now + CodeTTL
      BY CampaignAssumption DEF IInv, Typed
    <3>2. PICK row : row = Row(n, call.email, call.school, call.code, Visitor[call.by], secret)
      OBVIOUS
    <3>3. row = [name |-> n, email |-> call.email, school |-> call.school,
                 referredBy |-> call.code, from |-> Visitor[call.by], secret |-> secret,
                 expires |-> t, verified |-> FALSE]
      BY <3>1, <3>2 DEF Row
    <3>4. row \in UserRow /\ row.referredBy = call.code /\ row.from = Visitor[call.by]
      BY <1>3, <3>3 DEF UserRow
    <3> QED
      BY <3>2, <3>4
  <2>3. users \in [Name -> MaybeNone(UserRow)]
    BY DEF IInv, Typed
  <2>4. \A m \in Name : users'[m] = IF m = n THEN row ELSE users[m]
    BY ONLY <2>1, <2>2, <2>3
  <2>5. PICK r : r = [call EXCEPT !.stage = "pick"]
    OBVIOUS
  <2>6. r \in Request
    BY <2>5 DEF Request, MaybeNone, Stage
  <2>7. calls' = [calls EXCEPT ![c] = r]
    BY <1>2, <2>1, <2>5
  <2>8. /\ r.op = "register" /\ r.stage = "pick" /\ r.by = call.by /\ r.name = n
        /\ r.code = call.code /\ r.answer = None
    BY ONLY <1>3, <2>1, <2>5 DEF Request
  <2>9. Typed'
    BY ONLY IInv, <1>1, <2>1, <2>2, <2>3, <2>6, <2>7 DEF IInv, Typed, MaybeNone
  <2>10. Later
    BY ONLY IInv, <1>1, <2>1, <2>4 DEF IInv, Typed, Later, UsersLater, LinksLater, EventsLater
  <2>11. SeatsVerified'
    BY ONLY IInv, <1>1, <2>1, <2>4 DEF IInv, Typed, SeatsVerified
  <2>12. \A i \in DOMAIN events : events[i].user # n /\ events[i].user \in MaybeNone(Name)
    <3>1. \A i \in DOMAIN events : events[i] \in Visit
      BY DEF IInv, Typed
    <3> QED
      BY <2>1, <3>1, CampaignAssumption DEF IInv, ConversionsAttributed, Visit
  <2>13. ConversionsAttributed'
    BY ONLY IInv, <1>1, <2>4, <2>12 DEF IInv, ConversionsAttributed, MaybeNone
  <2>14. \A d \in Call : Registering(calls[d]) => calls[d].name # n
    BY <2>1, CampaignAssumption DEF IInv, CallInv, Registering
  <2>15. Apart'
    <3>1. \A d \in Call : calls'[d] = IF d = c THEN r ELSE calls[d]
      BY ONLY IInv, <2>7 DEF IInv, Typed
    <3>2. Apart
      BY DEF IInv
    <3>3. ASSUME NEW d \in Call, NEW e \in Call, Registering(calls'[d]), Registering(calls'[e]),
                 calls'[d].name = calls'[e].name
          PROVE  d = e
      <4>1. CASE d = c
        BY ONLY <2>8, <2>14, <3>1, <3>3, <4>1
      <4>2. CASE e = c
        BY ONLY <2>8, <2>14, <3>1, <3>3, <4>2
      <4>3. CASE d # c /\ e # c
        BY ONLY <3>1, <3>2, <3>3, <4>3 DEF Apart
      <4> QED
        BY <4>1, <4>2, <4>3
    <3> QED
      BY <3>3 DEF Apart, Registering
  <2>16. CallInv(r)'
    <3>1. users'[n] # None /\ users'[n].referredBy = call.code /\ users'[n].from = Visitor[call.by]
      BY <2>2, <2>4, CampaignAssumption
    <3>2. Free(n)'
      BY ONLY <1>1, <2>12 DEF Free
    <3> QED
      BY <1>3, <2>1, <2>8, <3>1, <3>2, CampaignAssumption DEF CallInv, Registering, Scope, Free
  <2>17. ASSUME NEW d \in Call
         PROVE  \/ CallInv(calls[d])'
                \/ calls'[d] = calls[d] /\ (Registering(calls[d]) => Free(calls[d].name)')
    <3>1. CASE d = c
      BY <2>7, <2>16, <3>1 DEF IInv, Typed
    <3>2. CASE d # c
      BY <1>1, <2>7, <3>2 DEF IInv, Typed, CallInv, Free
    <3> QED
      BY <3>1, <3>2
  <2> QED
    BY ONLY IInv, <1>1, <2>9, <2>10, <2>11, <2>13, <2>15, <2>17, Keeps
<1> QED
  BY <1>4, <1>5
-----------------------------------------------------------------------------
(* The administrator, the clock and the start of the server.               *)
LEMMA EditLinkStep ==
  ASSUME IInv, NEW k \in Code, NEW s \in School \cup {None}, EditLink(k, s), page' = page
  PROVE  IInv'
<1>1. /\ UNCHANGED <<now, users, events, calls, seats, page>>
      /\ edits \in Nat /\ edits' = edits + 1 /\ whitelist' = [whitelist EXCEPT ![k] = s]
  BY DEF EditLink, limitVars, IInv, Typed
<1>2. Typed' /\ Later
  BY <1>1 DEF IInv, Typed, MaybeNone, Later, UsersLater, LinksLater, EventsLater
<1>3. SeatsVerified' /\ ConversionsAttributed' /\ Apart'
  BY <1>1 DEF IInv, SeatsVerified, ConversionsAttributed, Apart, Registering
<1>4. \A d \in Call : calls'[d] = calls[d] /\ (Registering(calls[d]) => Free(calls[d].name)')
  BY <1>1 DEF IInv, CallInv, Free
<1> QED
  BY <1>1, <1>2, <1>3, <1>4, Keeps

LEMMA TickStep == ASSUME IInv, Tick, UNCHANGED <<accountVars, page>> PROVE IInv'
<1>1. /\ UNCHANGED <<users, events, whitelist, edits, calls, seats, page, tables>>
      /\ now' \in Nat
  BY DEF Tick, accountVars, tables, IInv, Typed
<1>2. Typed' /\ Later
  BY <1>1, SameTables DEF IInv, Typed
<1>3. SeatsVerified' /\ ConversionsAttributed' /\ Apart'
  BY <1>1 DEF IInv, SeatsVerified, ConversionsAttributed, Apart, Registering
<1>4. \A d \in Call : calls'[d] = calls[d] /\ (Registering(calls[d]) => Free(calls[d].name)')
  BY <1>1 DEF IInv, CallInv, Free
<1> QED
  BY <1>1, <1>2, <1>3, <1>4, Keeps

LEMMA InitInv == Init => IInv
<1> SUFFICES ASSUME Init PROVE IInv
  OBVIOUS
<1> USE DEF Init, AccountsInit, LimitInit
<1>1. EmptyPage \in Page /\ PageInv(EmptyPage)
  BY DEF EmptyPage, Page, MaybeNone, PageInv, Agrees, Issued
<1>2. ASSUME NEW k \in Code, EnvBinding[k] # None, NEW p,
             p = [EmptyPage EXCEPT !.stored = [code |-> k, school |-> EnvBinding[k], at |-> 0]]
      PROVE  p \in Page /\ PageInv(p)
  <2>1. PICK t \in Ticket : t = [code |-> k, school |-> EnvBinding[k], at |-> 0]
    BY <1>2, CampaignAssumption DEF Ticket
  <2>2. p = [EmptyPage EXCEPT !.stored = t] /\ t \in MaybeNone(Ticket)
    BY <1>2, <2>1 DEF MaybeNone
  <2>3. p \in Page
    BY <1>1, <2>2, Zenon DEF Page
  <2>4. p.stored = t /\ p.user = None /\ p.registered = None /\ p.cookie = None /\ p.ticket = None
        /\ p.matched = None /\ p.gate = "closed"
    BY <2>2 DEF EmptyPage
  <2> QED
    BY <2>1, <2>3, <2>4 DEF PageInv, Agrees, Issued, Valid
<1>3. \A b \in Browser : page[b] \in Page /\ PageInv(page[b])
  BY <1>1, <1>2
<1>4. \A c \in Call : calls[c] \in Request /\ CallInv(calls[c]) /\ ~Registering(calls[c])
  BY NoCallTyped
<1>5. Typed
  BY <1>3, <1>4, CampaignAssumption DEF Typed, MaybeNone
<1> QED
  BY <1>3, <1>4, <1>5 DEF IInv, SeatsVerified, ConversionsAttributed, Apart
-----------------------------------------------------------------------------
(* The pages.  What they do to themselves keeps what they may claim.       *)
LEMMA AwayGood ==
  ASSUME NEW old \in Page, PageInv(old) PROVE Away(old) \in Page /\ PageInv(Away(old))
<1>1. PICK left \in SUBSET Call : left = old.left \cup ({old.call} \ {None})
  BY DEF Page, MaybeNone
<1>2. PICK p : p = [old EXCEPT !.left = left, !.call = None, !.registered = None]
  OBVIOUS
<1>3. Away(old) = p
  BY <1>1, <1>2 DEF Away
<1>4. None \in MaybeNone(Call) /\ None \in MaybeNone(User)
  BY DEF MaybeNone
<1>5. p \in Page
  BY <1>1, <1>2, <1>4, Zenon DEF Page
<1>6. PageInv(p)
  BY <1>2 DEF Page, PageInv, Agrees
<1> QED
  BY <1>3, <1>5, <1>6

LEMMA ReopenedGood ==
  ASSUME NEW old \in Page, PageInv(old) PROVE Reopened(old) \in Page /\ PageInv(Reopened(old))
<1>1. PICK p : p = [old EXCEPT !.handshake = old.cookie, !.entry = None]
  OBVIOUS
<1>2. None \in MaybeNone(Call) /\ old.cookie \in MaybeNone(Name)
  BY DEF MaybeNone, Page
<1>3. p \in Page
  BY <1>1, <1>2, Zenon DEF Page
<1>4. PageInv(p)
  BY <1>1 DEF Page, PageInv
<1> QED
  BY <1>1, <1>3, <1>4 DEF Reopened

LEMMA WithoutGood ==
  ASSUME NEW old \in Page, PageInv(old), NEW c \in Call
  PROVE  Without(old, c) \in Page /\ PageInv(Without(old, c))
<1>1. CASE c = old.entry
  <2>1. PICK p : p = [old EXCEPT !.entry = None, !.entering = FALSE]
    OBVIOUS
  <2>2. None \in MaybeNone(Call) /\ FALSE \in BOOLEAN
    BY DEF MaybeNone
  <2>3. p \in Page
    BY <2>1, <2>2, Zenon DEF Page
  <2>4. PageInv(p)
    BY <2>1 DEF Page, PageInv
  <2> QED
    BY <1>1, <2>1, <2>3, <2>4 DEF Without
<1>2. CASE c # old.entry
  <2>1. PICK call \in MaybeNone(Call), left \in SUBSET Call :
          call = (IF c = old.call THEN None ELSE old.call) /\ left = old.left \ {c}
    BY DEF Page, MaybeNone
  <2>2. PICK p : p = [old EXCEPT !.call = call, !.left = left]
    OBVIOUS
  <2>3. p \in Page
    BY <2>1, <2>2, Zenon DEF Page
  <2>4. PageInv(p)
    BY <2>2 DEF Page, PageInv
  <2>5. Without(old, c) = p
    BY <1>2, <2>1, <2>2 DEF Without
  <2> QED
    BY <2>3, <2>4, <2>5
<1> QED
  BY <1>1, <1>2

LEMMA KnownGood ==
  ASSUME NEW old \in Page, PageInv(old), NEW u \in User, u # None, Agrees(u)
  PROVE  Known(old, u) \in Page /\ PageInv(Known(old, u))
<1>1. PICK n \in Name : n = u.name /\ users[n] # None
  BY DEF User, Agrees
<1>2. PICK p : p = [old EXCEPT !.user = u, !.cookie = n]
  OBVIOUS
<1>3. u \in MaybeNone(User) /\ n \in MaybeNone(Name)
  BY DEF MaybeNone
<1>4. p \in Page
  BY <1>2, <1>3, Zenon DEF Page
<1>5. PageInv(p)
  BY <1>1, <1>2 DEF Page, PageInv
<1> QED
  BY <1>1, <1>2, <1>4, <1>5 DEF Known

LEMMA RequestsTyped == ASSUME NEW p \in Page PROVE Requests(p) \subseteq Call
  BY DEF Requests, Page, MaybeNone

(* A cookie is of an account, also one that came without its answer.       *)
LEMMA CookiesGood ==
  ASSUME IInv, NEW p \in Page, PageInv(p), NEW C \in SUBSET Call, NEW cookie \in Cookies(p, C)
  PROVE  cookie \in MaybeNone(Name) /\ (cookie # None => users[cookie] # None)
<1>1. CASE cookie = p.cookie
  BY <1>1 DEF Page, PageInv
<1>2. CASE cookie # p.cookie
  <2>1. PICK c \in C : /\ calls[c].answer # None /\ calls[c].answer.user # None
                       /\ cookie = calls[c].answer.user.name
    BY <1>2 DEF Cookies
  <2>2. AnswerInv(calls[c])
    BY <2>1 DEF IInv, CallInv
  <2>3. PICK u \in User : u = calls[c].answer.user /\ Agrees(u) /\ u # None
    BY <2>1, <2>2 DEF AnswerInv, Answer
  <2> QED
    BY <2>1, <2>3 DEF User, MaybeNone, Agrees
<1> QED
  BY <1>1, <1>2

LEMMA PageStep ==
  ASSUME IInv, UNCHANGED <<now, tables, seats, edits, calls>>, NEW b \in Browser, NEW p \in Page,
         page' = [page EXCEPT ![b] = p], PageInv(p)
  PROVE  IInv'
<1>1. Typed'
  BY DEF IInv, Typed, tables
<1>2. Later
  BY SameTables DEF IInv
<1>3. SeatsVerified' /\ ConversionsAttributed' /\ Apart'
  BY DEF IInv, SeatsVerified, ConversionsAttributed, Apart, tables, Registering
<1>4. \A d \in Call : calls'[d] = calls[d] /\ (Registering(calls[d]) => Free(calls[d].name)')
  BY DEF IInv, CallInv, Free, tables
<1>5. PageInv(p)'
  BY <1>1, <1>2, PageLater DEF IInv
<1>6. \A a \in Browser : page'[a] = page[a] \/ PageInv(page[a])'
  <2>1. \A a \in Browser : page'[a] = IF a = b THEN p ELSE page[a]
    BY DEF IInv, Typed
  <2>2. page'[b] = p
    BY <2>1
  <2>3. PageInv(page[b])'
    BY ONLY <1>5, <2>2 DEF PageInv, Agrees, Issued, Valid
  <2> QED
    BY <2>1, <2>3
<1> QED
  BY <1>1, <1>2, <1>3, <1>4, <1>6, Keeps

(* After a start every request that was under way has failed.              *)
LEMMA RestartStep == ASSUME IInv, RestartAll PROVE IInv'
<1> USE DEF RestartAll
<1>1. UNCHANGED <<now, users, events, seats>>
  BY DEF Restart, Forget
<1>2. /\ whitelist' \in [Code -> MaybeNone(School)] /\ edits' \in Nat /\ LinksLater
  <2>1. whitelist' = [k \in Code |-> IF EnvBinding[k] = None THEN whitelist[k] ELSE EnvBinding[k]]
    BY DEF Restart
  <2>2. whitelist' \in [Code -> MaybeNone(School)]
    BY <2>1, CampaignAssumption DEF IInv, Typed, MaybeNone
  <2>3. edits' = (IF whitelist' = whitelist THEN edits ELSE edits + 1) /\ edits \in Nat
    BY DEF Restart, IInv, Typed
  <2> QED
    BY ONLY <2>2, <2>3 DEF LinksLater
<1>3. ASSUME NEW d \in Call PROVE calls'[d] \in Request /\ CallInv(calls[d])' /\ ~Registering(calls[d])'
  <2>1. calls'[d] = IF calls[d] = NoCall THEN NoCall ELSE Answered(d, 500, None, None)
    BY DEF Restart
  <2>2. None \in MaybeNone(User) /\ None \in MaybeNone(Ticket)
    BY DEF MaybeNone
  <2>3. PICK r \in Request :
          /\ r = Answered(d, 500, None, None) /\ r.stage = "answered"
          /\ r.answer = [status |-> 500, user |-> None, ticket |-> None]
    BY <2>2, AnsweredTyped DEF IInv
  <2>4. CallInv(r)' /\ ~Registering(r)
    BY <2>3 DEF CallInv, Registering, AnswerInv, Answer, Agrees, Issued
  <2>5. PICK q \in Request : q = NoCall /\ CallInv(q)' /\ ~Registering(q)
    BY NoCallTyped, CampaignAssumption DEF NoCall, CallInv, Registering
  <2> QED
    BY <2>1, <2>3, <2>4, <2>5 DEF Registering
<1>4. DOMAIN calls' = Call /\ calls' \in [Call -> Request]
  BY <1>3 DEF Restart
<1>5. \A b \in Browser : page'[b] \in Page /\ PageInv(page'[b])
  BY ReopenedGood DEF IInv, Typed
<1>6. Typed' /\ Later
  <2>1. page' \in [Browser -> Page]
    BY <1>5
  <2> QED
    BY <1>1, <1>2, <1>4, <2>1 DEF IInv, Typed, Later, UsersLater, EventsLater
<1>7. SeatsVerified' /\ ConversionsAttributed' /\ Apart'
  BY <1>1, <1>3 DEF IInv, SeatsVerified, ConversionsAttributed, Apart
<1>8. ASSUME NEW b \in Browser PROVE PageInv(page[b])'
  <2>1. PICK p \in Page : p = page'[b] /\ PageInv(p)
    BY <1>5
  <2>2. PageInv(p)'
    BY <1>6, <2>1, PageLater DEF IInv
  <2> QED
    BY ONLY <2>1, <2>2 DEF PageInv, Agrees, Issued, Valid
<1> QED
  BY <1>3, <1>6, <1>7, <1>8, Keeps

(* A page and a request change together.                                   *)
LEMMA BothStep ==
  ASSUME IInv, UNCHANGED <<now, tables, seats, edits>>, NEW b \in Browser, NEW p \in Page,
         page' = [page EXCEPT ![b] = p], PageInv(p),
         NEW c \in Call, NEW r \in Request, calls' = [calls EXCEPT ![c] = r], CallInv(r), ~Registering(r)
  PROVE  IInv'
<1>1. Typed'
  BY DEF IInv, Typed, tables
<1>2. Later
  BY SameTables DEF IInv
<1>3. SeatsVerified' /\ ConversionsAttributed' /\ Apart'
  BY DEF IInv, SeatsVerified, ConversionsAttributed, Apart, tables, Typed
<1>4. CallInv(r)'
  BY <1>1, <1>2, CallLater DEF IInv
<1>5. ASSUME NEW d \in Call
      PROVE  \/ CallInv(calls[d])'
             \/ calls'[d] = calls[d] /\ (Registering(calls[d]) => Free(calls[d].name)')
  <2>1. CASE d = c
    BY <1>4, <2>1 DEF IInv, Typed
  <2>2. CASE d # c
    BY <2>2 DEF IInv, Typed, CallInv, Free, tables
  <2> QED
    BY <2>1, <2>2
<1>6. PageInv(p)'
  BY <1>1, <1>2, PageLater DEF IInv
<1>7. \A a \in Browser : page'[a] = page[a] \/ PageInv(page[a])'
  <2>1. \A a \in Browser : page'[a] = IF a = b THEN p ELSE page[a]
    BY DEF IInv, Typed
  <2>2. page'[b] = p
    BY <2>1
  <2>3. PageInv(page[b])'
    BY ONLY <1>6, <2>2 DEF PageInv, Agrees, Issued, Valid
  <2> QED
    BY <2>1, <2>3
<1> QED
  BY <1>1, <1>2, <1>3, <1>5, <1>7, Keeps

(* What a page asks, whether the limit refuses it or it waits for its turn.*)
Asked(call) ==
  /\ call.op \in Op /\ call.by \in Browser /\ call.answer = None
  /\ call.op = "locate" => call.code \in Code
  /\ call.op = "register" =>
       /\ call.name \in Name /\ call.email \in Email
       /\ Carried(call) \in Ticket /\ Valid(Carried(call))
  /\ call.op \in {"verify", "login"} => call.name \in Name

LEMMA ArriveGood ==
  ASSUME IInv, NEW c \in Call, NEW request \in Request, Asked(request), Arrive(c, request)
  PROVE  /\ UNCHANGED <<now, tables, seats, edits>>
         /\ \E r \in Request : calls' = [calls EXCEPT ![c] = r] /\ CallInv(r) /\ ~Registering(r)
<1>1. UNCHANGED <<now, tables, seats, edits>>
  BY DEF Arrive, Attempt, limitVars
<1>2. request.op \in MaybeNone(Op) /\ "answered" \in MaybeNone(Stage)
  BY DEF Asked, MaybeNone, Stage
<1>3. CASE calls' = [calls EXCEPT ![c] =
                       [NoCall EXCEPT !.op = request.op, !.stage = "answered", !.answer = Failed]]
  <2>1. PICK op, answer : op = request.op /\ answer = Failed
    OBVIOUS
  <2>2. answer \in Answer /\ answer.status = 500 /\ answer.user = None /\ answer.ticket = None
    BY <2>1 DEF Failed, Answer
  <2>3. PICK r : r = [NoCall EXCEPT !.op = op, !.stage = "answered", !.answer = answer]
    OBVIOUS
  <2>4. answer \in MaybeNone(Answer)
    BY <2>2 DEF MaybeNone
  <2>5. r \in Request
    BY <1>2, <2>1, <2>3, <2>4, NoCallTyped, Zenon DEF Request
  <2>6. r.stage = "answered" /\ r.answer = answer
    BY <2>3 DEF NoCall
  <2>7. CallInv(r) /\ ~Registering(r)
    BY <2>2, <2>6 DEF CallInv, Registering, AnswerInv, Agrees, Issued
  <2>8. calls' = [calls EXCEPT ![c] = r]
    BY <1>3, <2>1, <2>3
  <2> QED
    BY <1>1, <2>5, <2>7, <2>8
<1>4. CASE calls' = [calls EXCEPT ![c] = [request EXCEPT !.stage = FirstStage(request)]]
  <2>1. PICK stage : /\ stage = FirstStage(request)
                     /\ stage \in {"whitelist", "row", "insert"}
                     /\ request.op = "register" => stage = "whitelist"
                     /\ request.op = "locate" => stage = "whitelist"
    <3>1. request.op = "register" => request.code # None
      BY CampaignAssumption DEF Asked, Carried, Ticket
    <3>2. CASE request.op = "locate"
      BY <3>2 DEF FirstStage
    <3>3. CASE request.op = "register"
      BY <3>1, <3>3 DEF FirstStage
    <3>4. CASE request.op # "locate" /\ request.op # "register"
      BY <3>4 DEF FirstStage
    <3> QED
      BY <3>2, <3>3, <3>4
  <2>2. PICK r : r = [request EXCEPT !.stage = stage]
    OBVIOUS
  <2>3. stage \in MaybeNone(Stage)
    BY <2>1 DEF MaybeNone, Stage
  <2>4. r \in Request
    BY <2>2, <2>3, Zenon DEF Request
  <2>5. /\ r.op = request.op /\ r.by = request.by /\ r.name = request.name /\ r.email = request.email
        /\ r.stage = stage /\ r.code = request.code /\ Carried(r) = Carried(request)
        /\ r.answer = None
    BY <2>2 DEF Request, Carried, Asked
  <2>6. CallInv(r) /\ ~Registering(r)
    BY <2>1, <2>5 DEF CallInv, Registering, Asked
  <2>7. calls' = [calls EXCEPT ![c] = r]
    BY <1>4, <2>1, <2>2
  <2> QED
    BY <1>1, <2>4, <2>6, <2>7
<1> QED
  BY <1>3, <1>4 DEF Arrive

LEMMA AskStep ==
  ASSUME IInv, NEW b \in Browser, NEW p \in Page, PageInv(p), page' = [page EXCEPT ![b] = p],
         NEW c \in Call, NEW request \in Request, Asked(request), Arrive(c, request)
  PROVE  IInv'
<1>1. PICK r \in Request : calls' = [calls EXCEPT ![c] = r] /\ CallInv(r) /\ ~Registering(r)
  BY ArriveGood
<1>2. UNCHANGED <<now, tables, seats, edits>>
  BY ArriveGood
<1>3. page' = [page EXCEPT ![b] = p] /\ PageInv(p)
  OBVIOUS
<1> QED
  BY ONLY IInv, <1>1, <1>2, <1>3, b \in Browser, c \in Call, p \in Page, BothStep

LEMMA LocateStep == ASSUME IInv, NEW b \in Browser, NEW c \in Call, Locate(b, c) PROVE IInv'
<1>1. PICK old \in Page : old = page[b] /\ PageInv(old)
  BY DEF IInv, Typed
<1>2. PICK p : p = [old EXCEPT !.call = c]
  OBVIOUS
<1>3. p \in Page /\ page' = [page EXCEPT ![b] = p]
  BY <1>1, <1>2 DEF Page, MaybeNone, Locate
<1>4. PageInv(p)
  BY <1>1, <1>2 DEF Page, PageInv
<1>5. old.gate = "open" /\ old.link \in Code
  BY <1>1 DEF Locate, PageInv, Page, MaybeNone
<1>6. PICK request :
        request = [[NoCall EXCEPT !.op = "locate", !.code = page[b].link] EXCEPT !.by = b]
  OBVIOUS
<1>7. request \in Request /\ Asked(request)
  <2>1. PICK first : first = [NoCall EXCEPT !.op = "locate", !.code = old.link]
    OBVIOUS
  <2>2. "locate" \in MaybeNone(Op) /\ old.link \in MaybeNone(Code) /\ b \in MaybeNone(Browser)
    BY <1>5 DEF MaybeNone, Op
  <2>3. first \in Request
    BY <2>1, <2>2, NoCallTyped, Zenon DEF Request
  <2>4. first.op = "locate" /\ first.code = old.link /\ first.answer = None
    BY <2>1 DEF NoCall
  <2>5. request = [first EXCEPT !.by = b]
    BY <1>1, <1>6, <2>1
  <2>6. request \in Request
    BY <2>2, <2>3, <2>5, Zenon DEF Request
  <2>7. request.op = "locate" /\ request.code = old.link /\ request.by = b /\ request.answer = None
    BY <2>3, <2>4, <2>5 DEF Request
  <2> QED
    BY <1>5, <2>6, <2>7 DEF Asked, Op
<1>8. Arrive(c, request)
  BY <1>6 DEF Locate, Ask
<1> QED
  BY <1>3, <1>4, <1>7, <1>8, AskStep

LEMMA RegisterStep ==
  ASSUME IInv, NEW b \in Browser, NEW c \in Call, NEW n \in Name, NEW e \in Email,
         Register(b, c, n, e)
  PROVE  IInv'
<1>1. PICK old \in Page : old = page[b] /\ PageInv(old)
  BY DEF IInv, Typed
<1>2. PICK p : p = [old EXCEPT !.call = c]
  OBVIOUS
<1>3. p \in Page /\ page' = [page EXCEPT ![b] = p]
  BY <1>1, <1>2 DEF Page, MaybeNone, Register
<1>4. PageInv(p)
  BY <1>1, <1>2 DEF Page, PageInv
<1>5. PICK t \in Ticket : t = old.ticket /\ t = page[b].ticket /\ Valid(t)
  BY <1>1 DEF Register, PageInv, Page, MaybeNone, Issued
<1>6. PICK request :
        request = [[NoCall EXCEPT !.op = "register", !.name = n, !.email = e, !.code = t.code,
                                  !.school = t.school, !.at = t.at] EXCEPT !.by = b]
  OBVIOUS
<1>7. request \in Request /\ Asked(request)
  <2>1. PICK first : first = [NoCall EXCEPT !.op = "register", !.name = n, !.email = e,
                                            !.code = t.code, !.school = t.school, !.at = t.at]
    OBVIOUS
  <2>2. /\ "register" \in MaybeNone(Op) /\ n \in MaybeNone(Name) /\ e \in MaybeNone(Email)
        /\ t.code \in MaybeNone(Code) /\ t.school \in MaybeNone(School) /\ t.at \in MaybeNone(Nat)
        /\ b \in MaybeNone(Browser)
    BY <1>5 DEF MaybeNone, Op, Ticket, Scope
  <2>3. first \in Request
    BY <2>1, <2>2, NoCallTyped, Zenon DEF Request
  <2>4. /\ first.op = "register" /\ first.name = n /\ first.email = e /\ first.answer = None
        /\ first.code = t.code /\ first.school = t.school /\ first.at = t.at
    BY <2>1 DEF NoCall
  <2>5. request = [first EXCEPT !.by = b]
    BY <1>6, <2>1
  <2>6. request \in Request
    BY <2>2, <2>3, <2>5, Zenon DEF Request
  <2>7. /\ request.op = "register" /\ request.name = n /\ request.email = e /\ request.by = b
        /\ request.code = t.code /\ request.school = t.school /\ request.at = t.at
        /\ request.answer = None
    BY <2>3, <2>4, <2>5 DEF Request
  <2>8. Carried(request) \in Ticket /\ Valid(Carried(request))
    BY <1>5, <2>7 DEF Carried, Valid, Ticket
  <2> QED
    BY <2>6, <2>7, <2>8 DEF Asked, Op, Scope
<1>8. Arrive(c, request)
  BY <1>5, <1>6 DEF Register, Ask
<1> QED
  BY <1>3, <1>4, <1>7, <1>8, AskStep

LEMMA VerifyStep ==
  ASSUME IInv, NEW b \in Browser, NEW c \in Call, NEW secret \in Secret, Verify(b, c, secret)
  PROVE  IInv'
<1>1. PICK old \in Page : old = page[b] /\ PageInv(old)
  BY DEF IInv, Typed
<1>2. PICK p : p = [old EXCEPT !.call = c]
  OBVIOUS
<1>3. p \in Page /\ page' = [page EXCEPT ![b] = p]
  BY <1>1, <1>2 DEF Page, MaybeNone, Verify
<1>4. PageInv(p)
  BY <1>1, <1>2 DEF Page, PageInv
<1>5. PICK n \in Name : n = page[b].registered.name
  BY <1>1 DEF Verify, Page, MaybeNone, User
<1>6. PICK request :
        request = [[NoCall EXCEPT !.op = "verify", !.name = n, !.secret = secret] EXCEPT !.by = b]
  OBVIOUS
<1>7. request \in Request /\ Asked(request)
  <2>1. PICK first : first = [NoCall EXCEPT !.op = "verify", !.name = n, !.secret = secret]
    OBVIOUS
  <2>2. /\ "verify" \in MaybeNone(Op) /\ n \in MaybeNone(Name) /\ secret \in MaybeNone(Secret)
        /\ b \in MaybeNone(Browser)
    BY DEF MaybeNone, Op, Scope
  <2>3. first \in Request
    BY <2>1, <2>2, NoCallTyped, Zenon DEF Request
  <2>4. first.op = "verify" /\ first.name = n /\ first.answer = None
    BY <2>1 DEF NoCall
  <2>5. request = [first EXCEPT !.by = b]
    BY <1>6, <2>1
  <2>6. request \in Request
    BY <2>2, <2>3, <2>5, Zenon DEF Request
  <2>7. request.op = "verify" /\ request.name = n /\ request.by = b /\ request.answer = None
    BY <2>3, <2>4, <2>5 DEF Request
  <2> QED
    BY <2>6, <2>7 DEF Asked, Op, Scope
<1>8. Arrive(c, request)
  BY <1>5, <1>6 DEF Verify, Ask
<1> QED
  BY <1>3, <1>4, <1>7, <1>8, AskStep

LEMMA LoginStep ==
  ASSUME IInv, NEW b \in Browser, NEW c \in Call, NEW n \in Name, Login(b, c, n)
  PROVE  IInv'
<1>1. PICK old \in Page : old = page[b] /\ PageInv(old)
  BY DEF IInv, Typed
<1>2. PICK p : p = [old EXCEPT !.call = c, !.registered = None]
  OBVIOUS
<1>3. c \in MaybeNone(Call) /\ None \in MaybeNone(User)
  BY DEF MaybeNone
<1>4. p \in Page /\ page' = [page EXCEPT ![b] = p]
  BY <1>1, <1>2, <1>3 DEF Page, Login
<1>5. PageInv(p)
  BY <1>1, <1>2 DEF Page, PageInv, Agrees
<1>6. PICK request : request = [[NoCall EXCEPT !.op = "login", !.name = n] EXCEPT !.by = b]
  OBVIOUS
<1>7. request \in Request /\ Asked(request)
  <2>1. PICK first : first = [NoCall EXCEPT !.op = "login", !.name = n]
    OBVIOUS
  <2>2. "login" \in MaybeNone(Op) /\ n \in MaybeNone(Name) /\ b \in MaybeNone(Browser)
    BY DEF MaybeNone, Op, Scope
  <2>3. first \in Request
    BY <2>1, <2>2, NoCallTyped, Zenon DEF Request
  <2>4. first.op = "login" /\ first.name = n /\ first.answer = None
    BY <2>1 DEF NoCall
  <2>5. request = [first EXCEPT !.by = b]
    BY <1>6, <2>1
  <2>6. request \in Request
    BY <2>2, <2>3, <2>5, Zenon DEF Request
  <2>7. request.op = "login" /\ request.name = n /\ request.by = b /\ request.answer = None
    BY <2>3, <2>4, <2>5 DEF Request
  <2> QED
    BY <2>6, <2>7 DEF Asked, Op, Scope
<1>8. Arrive(c, request)
  BY <1>6 DEF Login, Ask
<1> QED
  BY <1>4, <1>5, <1>7, <1>8, AskStep

LEMMA EnterStep == ASSUME IInv, NEW b \in Browser, NEW c \in Call, Enter(b, c) PROVE IInv'
<1>1. PICK old \in Page : old = page[b] /\ PageInv(old)
  BY DEF IInv, Typed
<1>2. PICK p : p = [old EXCEPT !.entry = c, !.entering = TRUE, !.registered = None]
  OBVIOUS
<1>3. c \in MaybeNone(Call) /\ None \in MaybeNone(User) /\ TRUE \in BOOLEAN
  BY DEF MaybeNone
<1>4. p \in Page /\ page' = [page EXCEPT ![b] = p]
  <2>1. p \in Page
    BY <1>2, <1>3, Zenon DEF Page
  <2> QED
    BY <1>1, <1>2, <2>1 DEF Enter
<1>5. PageInv(p)
  BY <1>1, <1>2 DEF Page, PageInv, Agrees
<1>6. PICK n \in MaybeNone(Name), promised \in BOOLEAN :
        n = page[b].handshake /\ promised = (page[b].user # None /\ page[b].user.verified)
  BY <1>1 DEF Page, MaybeNone, User
<1>7. PICK request :
        request = [[NoCall EXCEPT !.op = "enter", !.name = n, !.promised = promised] EXCEPT !.by = b]
  OBVIOUS
<1>8. request \in Request /\ Asked(request)
  <2>1. PICK first : first = [NoCall EXCEPT !.op = "enter", !.name = n, !.promised = promised]
    OBVIOUS
  <2>2. "enter" \in MaybeNone(Op) /\ b \in MaybeNone(Browser)
    BY DEF MaybeNone, Op
  <2>3. first \in Request
    BY <1>6, <2>1, <2>2, NoCallTyped, Zenon DEF Request
  <2>4. first.op = "enter" /\ first.answer = None
    BY <2>1 DEF NoCall
  <2>5. request = [first EXCEPT !.by = b]
    BY <1>7, <2>1
  <2>6. request \in Request
    BY <2>2, <2>3, <2>5, Zenon DEF Request
  <2>7. request.op = "enter" /\ request.by = b /\ request.answer = None
    BY <2>3, <2>4, <2>5 DEF Request
  <2> QED
    BY <2>6, <2>7 DEF Asked, Op, Scope
<1>9. Arrive(c, request)
  BY <1>6, <1>7 DEF Enter, Ask
<1> QED
  BY <1>4, <1>5, <1>8, <1>9, AskStep

(* A page that is loaded keeps what was stored, and may have the cookie of *)
(* an answer that was on its way.                                          *)
LEMMA LoadStep ==
  ASSUME IInv, NEW b \in Browser, NEW k \in Code \cup {None}, Load(b, k) PROVE IInv'
<1>1. PICK old \in Page : old = page[b] /\ PageInv(old)
  BY DEF IInv, Typed
<1>2. PICK cookie \in Cookies(old, Requests(old)) :
        page' = [page EXCEPT ![b] =
          [EmptyPage EXCEPT !.stored = old.stored, !.ticket = old.stored, !.user = old.user,
             !.cookie = cookie, !.handshake = cookie,
             !.link = IF Passes(old, k) THEN None ELSE k,
             !.gate = IF Passes(old, k) THEN "closed" ELSE "open"]]
  BY <1>1, Zenon DEF Load
<1>3. PICK link, gate :
        /\ link = (IF Passes(old, k) THEN None ELSE k)
        /\ gate = (IF Passes(old, k) THEN "closed" ELSE "open")
  OBVIOUS
<1>4. page' = [page EXCEPT ![b] =
        [EmptyPage EXCEPT !.stored = old.stored, !.ticket = old.stored, !.user = old.user,
           !.cookie = cookie, !.handshake = cookie, !.link = link, !.gate = gate]]
  BY <1>2, <1>3
<1>5. cookie \in MaybeNone(Name) /\ (cookie # None => users[cookie] # None)
  BY <1>1, RequestsTyped, CookiesGood
<1>6. /\ link \in MaybeNone(Code) /\ gate \in {"closed", "open", "matched", "issued"}
      /\ gate = "open" => link # None
  BY <1>3 DEF MaybeNone, Passes
<1>7. PICK p : p = [EmptyPage EXCEPT !.stored = old.stored, !.ticket = old.stored,
                      !.user = old.user, !.cookie = cookie, !.handshake = cookie, !.link = link,
                      !.gate = gate]
  OBVIOUS
<1>8. p \in Page
  <2>1. EmptyPage \in Page
    BY DEF EmptyPage, Page, MaybeNone
  <2>2. old.stored \in MaybeNone(Ticket) /\ old.user \in MaybeNone(User)
    BY DEF Page
  <2> QED
    BY ONLY <1>5, <1>6, <1>7, <2>1, <2>2, Zenon DEF Page
<1>9. /\ p.stored = old.stored /\ p.ticket = old.stored /\ p.user = old.user /\ p.cookie = cookie
      /\ p.link = link /\ p.gate = gate /\ p.matched = None /\ p.registered = None
  BY <1>7 DEF EmptyPage
<1>10. PageInv(p)
  BY <1>1, <1>5, <1>6, <1>9 DEF PageInv, Agrees, Issued
<1>11. page' = [page EXCEPT ![b] = p] /\ UNCHANGED <<now, tables, seats, edits, calls>>
  BY <1>4, <1>7 DEF Load, limitVars, accountVars, tables
<1> QED
  BY <1>8, <1>10, <1>11, PageStep

LEMMA IssueTicketStep == ASSUME IInv, NEW b \in Browser, IssueTicket(b) PROVE IInv'
<1>1. PICK old \in Page : old = page[b] /\ PageInv(old)
  BY DEF IInv, Typed
<1>2. PICK p : p = [old EXCEPT !.gate = "issued", !.stored = old.matched]
  OBVIOUS
<1>3. p \in Page
  BY <1>2, Zenon DEF Page
<1>4. PageInv(p)
  BY <1>1, <1>2 DEF Page, PageInv, Agrees, Issued
<1>5. page' = [page EXCEPT ![b] = p] /\ UNCHANGED <<now, tables, seats, edits, calls>>
  BY <1>1, <1>2 DEF IssueTicket, limitVars, accountVars, tables
<1> QED
  BY <1>3, <1>4, <1>5, PageStep

LEMMA PassGateStep == ASSUME IInv, NEW b \in Browser, PassGate(b) PROVE IInv'
<1>1. PICK old \in Page : old = page[b] /\ PageInv(old)
  BY DEF IInv, Typed
<1>2. PICK p : p = [old EXCEPT !.gate = "closed", !.ticket = old.matched, !.matched = None,
                               !.link = None]
  OBVIOUS
<1>3. None \in MaybeNone(Ticket) /\ None \in MaybeNone(Code)
  BY DEF MaybeNone
<1>4. p \in Page
  BY <1>2, <1>3, Zenon DEF Page
<1>5. PageInv(p)
  BY <1>1, <1>2 DEF Page, PageInv, Agrees, Issued
<1>6. page' = [page EXCEPT ![b] = p] /\ UNCHANGED <<now, tables, seats, edits, calls>>
  BY <1>1, <1>2 DEF PassGate, limitVars, accountVars, tables
<1> QED
  BY <1>4, <1>5, <1>6, PageStep

LEMMA ExitGateStep == ASSUME IInv, NEW b \in Browser, ExitGate(b) PROVE IInv'
<1>1. PICK old \in Page : old = page[b] /\ PageInv(old)
  BY DEF IInv, Typed
<1>2. PICK p : p = [old EXCEPT !.gate = "closed", !.ticket = None, !.link = None,
                               !.matched = None, !.call = None]
  OBVIOUS
<1>3. None \in MaybeNone(Ticket) /\ None \in MaybeNone(Code) /\ None \in MaybeNone(Call)
  BY DEF MaybeNone
<1>4. p \in Page
  BY <1>2, <1>3, Zenon DEF Page
<1>5. PageInv(p)
  BY <1>1, <1>2 DEF Page, PageInv, Agrees, Issued
<1>6. page' = [page EXCEPT ![b] = p] /\ UNCHANGED <<now, tables, seats, edits, calls>>
  BY <1>1, <1>2 DEF ExitGate, limitVars, accountVars, tables
<1> QED
  BY <1>4, <1>5, <1>6, PageStep

LEMMA LeaveStep == ASSUME IInv, NEW b \in Browser, Leave(b) PROVE IInv'
<1>1. PICK p \in Page : p = Away(page[b]) /\ PageInv(p)
  BY AwayGood DEF IInv, Typed
<1>2. page' = [page EXCEPT ![b] = p] /\ UNCHANGED <<now, tables, seats, edits, calls>>
  BY <1>1 DEF Leave, limitVars, accountVars, tables
<1> QED
  BY <1>1, <1>2, PageStep

LEMMA ReconnectStep == ASSUME IInv, NEW b \in Browser, Reconnect(b) PROVE IInv'
<1>1. PICK p \in Page : p = Reopened(page[b]) /\ PageInv(p)
  BY ReopenedGood DEF IInv, Typed
<1>2. page' = [page EXCEPT ![b] = p] /\ UNCHANGED <<now, tables, seats, edits, calls>>
  BY <1>1 DEF Reconnect, limitVars, accountVars, tables
<1> QED
  BY <1>1, <1>2, PageStep

LEMMA LoseStep == ASSUME IInv, NEW b \in Browser, NEW c \in Call, Lose(b, c) PROVE IInv'
<1>1. PICK old \in Page : old = page[b] /\ PageInv(old)
  BY DEF IInv, Typed
<1>2. PICK without \in Page : without = Without(old, c) /\ PageInv(without)
  BY <1>1, WithoutGood
<1>3. PICK cookie \in Cookies(old, {c}) :
        page' = [page EXCEPT ![b] = [without EXCEPT !.cookie = cookie]]
  BY <1>1, <1>2 DEF Lose
<1>4. cookie \in MaybeNone(Name) /\ (cookie # None => users[cookie] # None)
  BY <1>1, CookiesGood
<1>5. PICK p : p = [without EXCEPT !.cookie = cookie]
  OBVIOUS
<1>6. p \in Page
  BY <1>4, <1>5, Zenon DEF Page
<1>7. PageInv(p)
  BY <1>2, <1>4, <1>5 DEF Page, PageInv
<1>8. page' = [page EXCEPT ![b] = p] /\ UNCHANGED <<now, tables, seats, edits, calls>>
  BY <1>3, <1>5 DEF Lose, limitVars, accountVars, tables
<1> QED
  BY <1>6, <1>7, <1>8, PageStep

LEMMA DiscardStep == ASSUME IInv, NEW c \in Call, Discard(c) PROVE IInv'
<1>1. /\ now' = now /\ UNCHANGED <<tables, seats, edits, page>>
      /\ calls' = [calls EXCEPT ![c] = NoCall]
  BY DEF Discard, limitVars
<1>2. PICK r \in Request : r = NoCall /\ CallInv(r)' /\ ~Registering(r)
  BY NoCallTyped, CampaignAssumption DEF NoCall, CallInv, Registering
<1> QED
  BY <1>1, <1>2, QuietStep

(* What a page takes from an answer is what the server told it.            *)
LEMMA AcceptedGood ==
  ASSUME NEW old \in Page, PageInv(old), NEW c \in Call, NEW call \in Request, AnswerInv(call),
         NEW p, p = Accepted(old, c, call.op, call.answer)
  PROVE  p \in Page /\ PageInv(p)
<1>1. PICK answer \in Answer : answer = call.answer
  BY DEF AnswerInv
<1>2. PICK q \in Page : q = Without(old, c) /\ PageInv(q)
  BY WithoutGood
<1>3. CASE answer.status \notin {200, 201}
  BY <1>1, <1>2, <1>3 DEF Accepted
<1>4. CASE answer.status \in {200, 201} /\ call.op = "locate"
  <2>1. p = [q EXCEPT !.gate = "matched", !.matched = answer.ticket]
    BY <1>1, <1>2, <1>4 DEF Accepted
  <2>2. answer.ticket \in MaybeNone(Ticket) /\ Issued(answer.ticket)
    BY <1>1 DEF Answer, MaybeNone, AnswerInv
  <2>3. p \in Page
    BY <2>1, <2>2, Zenon DEF Page
  <2> QED
    BY <1>2, <2>1, <2>2, <2>3 DEF Page, PageInv
<1>5. CASE answer.status \in {200, 201} /\ call.op \in Scope
  <2>1. PICK u \in User : u = answer.user /\ Agrees(u) /\ u # None
    BY <1>1, <1>5 DEF AnswerInv, Answer
  <2>2. PICK known \in Page : known = Known(q, u) /\ PageInv(known)
    BY <1>2, <2>1, KnownGood
  <2>3. CASE call.op = "register"
    <3>1. PICK registered :
            registered = IF old.call = c THEN u ELSE known.registered
      OBVIOUS
    <3>2. registered \in MaybeNone(User) /\ Agrees(registered)
      BY <2>1, <2>2, <3>1 DEF MaybeNone, Page, PageInv
    <3>3. p = [known EXCEPT !.registered = registered]
      BY <1>1, <1>2, <1>5, <2>1, <2>2, <2>3, <3>1 DEF Accepted
    <3>4. p \in Page
      BY <3>2, <3>3, Zenon DEF Page
    <3> QED
      BY <2>2, <3>2, <3>3, <3>4 DEF Page, PageInv
  <2>4. CASE call.op \in {"verify", "login"}
    <3>1. p = Away(known)
      BY <1>1, <1>2, <1>5, <2>1, <2>2, <2>4 DEF Accepted
    <3> QED
      BY <2>2, <3>1, AwayGood
  <2> QED
    BY <1>5, <2>3, <2>4 DEF Scope
<1>6. CASE answer.status \in {200, 201} /\ call.op = "enter"
  <2>1. p = Away(q)
    BY <1>1, <1>2, <1>6 DEF Accepted
  <2> QED
    BY <1>2, <2>1, AwayGood
<1> QED
  BY <1>1, <1>3, <1>4, <1>5, <1>6 DEF AnswerInv, Op

LEMMA ReceiveStep == ASSUME IInv, NEW b \in Browser, NEW c \in Call, Receive(b, c) PROVE IInv'
<1>1. PICK old \in Page : old = page[b] /\ PageInv(old)
  BY DEF IInv, Typed
<1>2. PICK call \in Request : call = calls[c] /\ AnswerInv(call)
  BY DEF Receive, IInv, Typed, CallInv
<1>3. PICK p : p = Accepted(old, c, call.op, call.answer)
  OBVIOUS
<1>4. p \in Page /\ PageInv(p)
  BY <1>1, <1>2, <1>3, AcceptedGood
<1>5. PICK r \in Request : r = NoCall /\ CallInv(r) /\ ~Registering(r)
  BY NoCallTyped
<1>6. /\ page' = [page EXCEPT ![b] = p] /\ calls' = [calls EXCEPT ![c] = r]
      /\ UNCHANGED <<now, tables, seats, edits>>
  BY <1>1, <1>2, <1>3, <1>5 DEF Receive, limitVars
<1> QED
  BY <1>4, <1>5, <1>6, BothStep
-----------------------------------------------------------------------------
LEMMA NextInv == IInv /\ [Next]_vars => IInv'
<1> SUFFICES ASSUME IInv, [Next]_vars PROVE IInv'
  OBVIOUS
<1>1. CASE \E c \in Call : Step(c) /\ UNCHANGED page
  <2>1. PICK c \in Call : Step(c) /\ page' = page
    BY <1>1
  <2> QED
    BY <2>1, ReadLinkStep, RecordVisitStep, CheckLinkStep, CreateUserStep, PickVisitStep, ConvertStep,
       SendMailStep, VerifyEmailStep, LogInStep, EnterEventStep, FailStep DEF Step
<1>2. CASE \E k \in Code, s \in School \cup {None} : EditLink(k, s) /\ UNCHANGED page
  BY <1>2, EditLinkStep
<1>3. CASE RestartAll
  BY <1>3, RestartStep
<1>4. CASE Tick /\ UNCHANGED <<accountVars, page>>
  BY <1>4, TickStep
<1>5. CASE \E b \in Browser :
             \/ \E k \in Code \cup {None} : Load(b, k)
             \/ IssueTicket(b) \/ PassGate(b) \/ ExitGate(b)
             \/ Leave(b) \/ Reconnect(b)
  BY <1>5, LoadStep, IssueTicketStep, PassGateStep, ExitGateStep, LeaveStep, ReconnectStep
<1>6. CASE \E b \in Browser, c \in Call :
             \/ Locate(b, c) \/ Enter(b, c) \/ Receive(b, c) \/ Lose(b, c)
             \/ \E n \in Name, e \in Email : Register(b, c, n, e)
             \/ \E secret \in Secret : Verify(b, c, secret)
             \/ \E n \in Name : Login(b, c, n)
  BY <1>6, LocateStep, EnterStep, ReceiveStep, LoseStep, RegisterStep, VerifyStep, LoginStep
<1>7. CASE \E c \in Call : Discard(c)
  BY <1>7, DiscardStep
<1>8. CASE UNCHANGED vars
  <2>1. UNCHANGED <<now, users, events, whitelist, calls, seats, edits, page>>
    BY <1>8 DEF vars, limitVars, accountVars
  <2> QED
    BY ONLY IInv, <2>1
    DEF IInv, Typed, SeatsVerified, ConversionsAttributed, Apart, CallInv, AnswerInv, PageInv, Registering,
        Agrees, Issued, Valid, Free, Carried
<1> QED
  BY <1>1, <1>2, <1>3, <1>4, <1>5, <1>6, <1>7, <1>8 DEF Next

(* What holds at every moment of every request and page.                   *)
THEOREM InvariantHolds == Spec => []IInv
  BY InitInv, NextInv, PTL DEF Spec

(* A place in an event room is only ever held by a verified account,       *)
(* whatever the statements of other requests between the two of its own    *)
(* (event:register asks the row, not the page).                            *)
THEOREM SeatsAlwaysVerified == Spec => []SeatsVerified
<1>1. IInv => SeatsVerified
  BY DEF IInv
<1> QED
  BY <1>1, InvariantHolds, PTL

(* No visit is attributed to an account of another link or visitor, and no *)
(* account counts for two visits, though attachReferralConversion chooses  *)
(* the visit in one snapshot and writes it in another.                     *)
THEOREM ConversionsAlwaysAttributed == Spec => []ConversionsAttributed
<1>1. IInv => ConversionsAttributed
  BY DEF IInv
<1> QED
  BY <1>1, InvariantHolds, PTL

(* What a browser keeps of an account is so in the database, with answers  *)
(* lost, cut off by a reload or late for a screen that is gone, and with   *)
(* restarts.                                                               *)
THEOREM BrowsersAlwaysAgree == Spec => []BrowsersAgree
<1>1. IInv => BrowsersAgree
  BY DEF IInv, PageInv, BrowsersAgree
<1> QED
  BY <1>1, InvariantHolds, PTL

(* A sign-up with a ticket is refused for its school only if its link was  *)
(* changed since.                                                          *)
THEOREM RefusalsAlwaysExplained == Spec => []RefusalsExplained
<1>1. IInv => RefusalsExplained
  BY DEF IInv, CallInv, AnswerInv, RefusalsExplained
<1> QED
  BY <1>1, InvariantHolds, PTL
-----------------------------------------------------------------------------
(* The server meets the limit's own specification: what a page can ask of  *)
(* a limited scope is under one of the limit's keys, and nothing else      *)
(* touches the buckets.                                                    *)
LEMMA ArriveLimited ==
  ASSUME NEW c \in Call, NEW request, Arrive(c, request),
         request.op \in Scope => request.by \in Browser /\ request.name \in Name
  PROVE  [LimitNext]_limitVars
<1>1. CASE request.op \in Scope
  <2>1. PICK k : k = KeyOf(request)
    OBVIOUS
  <2>2. k \in Key
    BY <1>1, <2>1, KeyAssumption DEF KeyOf
  <2>3. Attempt(k)
    BY <1>1, <2>1 DEF Arrive
  <2> QED
    BY <2>2, <2>3 DEF LimitNext
<1>2. CASE request.op \notin Scope
  BY <1>2 DEF Arrive
<1> QED
  BY <1>1, <1>2

LEMMA NextLimited == IInv /\ [Next]_vars => [LimitNext]_limitVars
<1> SUFFICES ASSUME IInv, [Next]_vars PROVE [LimitNext]_limitVars
  OBVIOUS
<1>1. ASSUME NEW c \in Call, Step(c) PROVE UNCHANGED limitVars
  BY <1>1
  DEF Step, ReadLink, RecordVisit, CheckLink, CreateUser, PickVisit, Convert, SendMail, VerifyEmail, LogIn,
      EnterEvent, FailRequest
<1>2. ASSUME NEW k, NEW s, EditLink(k, s) PROVE UNCHANGED limitVars
  BY <1>2 DEF EditLink
<1>3. ASSUME NEW b \in Browser, NEW c \in Call, Locate(b, c) \/ Enter(b, c)
      PROVE  [LimitNext]_limitVars
  <2>1. CASE Locate(b, c)
    <3>1. PICK k, request : /\ request = [[NoCall EXCEPT !.op = "locate", !.code = k] EXCEPT !.by = b]
                            /\ Arrive(c, request)
      BY <2>1 DEF Locate, Ask
    <3>2. request.op = "locate"
      BY <3>1 DEF NoCall
    <3> QED
      BY <3>1, <3>2, ArriveLimited DEF Scope
  <2>2. CASE Enter(b, c)
    <3>1. PICK n, promised, request :
            /\ request = [[NoCall EXCEPT !.op = "enter", !.name = n, !.promised = promised] EXCEPT !.by = b]
            /\ Arrive(c, request)
      BY <2>2 DEF Enter, Ask
    <3>2. request.op = "enter"
      BY <3>1 DEF NoCall
    <3> QED
      BY <3>1, <3>2, ArriveLimited DEF Scope
  <2> QED
    BY <1>3, <2>1, <2>2
<1>4. ASSUME NEW b \in Browser, NEW c \in Call, NEW n \in Name, NEW e \in Email, Register(b, c, n, e)
      PROVE  [LimitNext]_limitVars
  <2>1. PICK code, school, at, request :
          /\ request = [[NoCall EXCEPT !.op = "register", !.name = n, !.email = e, !.code = code,
                                       !.school = school, !.at = at] EXCEPT !.by = b]
          /\ Arrive(c, request)
    BY <1>4 DEF Register, Ask
  <2>2. request.by = b /\ request.name = n
    BY <2>1 DEF NoCall
  <2> QED
    BY <2>1, <2>2, ArriveLimited
<1>5. ASSUME NEW b \in Browser, NEW c \in Call, NEW secret \in Secret, Verify(b, c, secret)
      PROVE  [LimitNext]_limitVars
  <2>1. page[b] \in Page /\ page[b].registered # None
    BY <1>5 DEF Verify, IInv, Typed
  <2>2. PICK n \in Name : n = page[b].registered.name
    BY <2>1 DEF Page, MaybeNone, User
  <2>3. PICK request :
          /\ request = [[NoCall EXCEPT !.op = "verify", !.name = n, !.secret = secret] EXCEPT !.by = b]
          /\ Arrive(c, request)
    BY <1>5, <2>2 DEF Verify, Ask
  <2>4. request.by = b /\ request.name = n
    BY <2>3 DEF NoCall
  <2> QED
    BY <2>3, <2>4, ArriveLimited
<1>6. ASSUME NEW b \in Browser, NEW c \in Call, NEW n \in Name, Login(b, c, n)
      PROVE  [LimitNext]_limitVars
  <2>1. PICK request : /\ request = [[NoCall EXCEPT !.op = "login", !.name = n] EXCEPT !.by = b]
                       /\ Arrive(c, request)
    BY <1>6 DEF Login, Ask
  <2>2. request.by = b /\ request.name = n
    BY <2>1 DEF NoCall
  <2> QED
    BY <2>1, <2>2, ArriveLimited
<1>7. ASSUME NEW b \in Browser,
             \/ \E k \in Code \cup {None} : Load(b, k)
             \/ IssueTicket(b) \/ PassGate(b) \/ ExitGate(b)
             \/ Leave(b) \/ Reconnect(b) \/ \E c \in Call : Receive(b, c) \/ Lose(b, c)
      PROVE  UNCHANGED limitVars
  BY <1>7 DEF Load, IssueTicket, PassGate, ExitGate, Receive, Lose, Leave, Reconnect
<1>8. ASSUME NEW c \in Call, Discard(c) PROVE UNCHANGED limitVars
  BY <1>8 DEF Discard
<1>9. RestartAll => LimitNext
  BY DEF RestartAll, Restart, LimitNext
<1>10. UNCHANGED vars => UNCHANGED limitVars
  BY DEF vars
<1> QED
  BY <1>1, <1>2, <1>3, <1>4, <1>5, <1>6, <1>7, <1>8, <1>9, <1>10 DEF Next, LimitNext

THEOREM SignupLimits == Spec => LimitSpec
<1>1. Init => LimitInit
  BY DEF Init, AccountsInit
<1> QED
  BY <1>1, InvariantHolds, NextLimited, PTL DEF Spec, LimitSpec

(* So no interval of one window sees twice the limit of an account's       *)
(* sign-ups, verifications or logins from one address pass.                *)
THEOREM SignupAttemptsBounded == Spec => []AttemptsBounded
  BY SignupLimits, AttemptsAlwaysBounded, PTL
=============================================================================
