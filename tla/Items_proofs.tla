---------------------------- MODULE Items_proofs ----------------------------
(***************************************************************************)
(* Items and effects for any players, problems, items and durations: one   *)
(* active effect of an item on a player, and true notes.  The invariant    *)
(* also speaks of effects whose time is up and that no cleanup has seen    *)
(* yet.                                                                    *)
(***************************************************************************)
EXTENDS Items, FiniteSetTheorems, SequenceTheorems, TLAPS

SingleEffect ==
  \A p \in Player : \A e, f \in effects[p] :
    e.id = f.id /\ e.id \in Item /\ e.left > 0 /\ f.left > 0 => e = f

NotesRecorded ==
  \A p \in Player : \A e \in effects[p] :
    e.id = Advice => e.from \in Player \ {p} /\ e.problem \in ToSet(solved[e.from])

IInv == ItemsTypeOK /\ SingleEffect /\ NotesRecorded
-----------------------------------------------------------------------------
(* A nonempty set of places has a last one.                                *)
LEMMA LastPlace ==
  ASSUME NEW n \in Nat, NEW S \in SUBSET (1 .. n), S # {}
  PROVE  \E k \in S : \A other \in S : other <= k
<1> DEFINE R == OpToRel(<, Nat)
           B == {n - i : i \in S}
<1>1. IsWellFoundedOn(R, Nat)
  BY NatLessThanWellFounded
<1>2. \A x, y \in Nat : x < y => <<x, y>> \in R
  BY DEF OpToRel
<1> HIDE DEF R
<1>3. B \subseteq Nat /\ B # {}
  <2>1. \A i \in S : i \in Nat /\ n - i \in Nat
    OBVIOUS
  <2> QED
    BY <2>1
<1>4. PICK b \in B : \A y \in B : ~ (<<y, b>> \in R)
  <2> HIDE DEF B
  <2> QED
    BY <1>1, <1>3, WFMin
<1>5. PICK i \in S : b = n - i
  OBVIOUS
<1>6. ASSUME NEW j \in S PROVE j <= i
  <2>1. n - j \in B /\ n - j \in Nat /\ b \in Nat
    BY <1>3
  <2>2. ~ (n - j < b)
    BY <1>2, <1>4, <2>1
  <2> QED
    BY <1>5, <2>2
<1> QED
  BY <1>6

(* findAdviceNoteProblem finds a problem that the sender solved.           *)
LEMMA NoteFound ==
  ASSUME ItemsTypeOK, NEW sender \in Player, NEW target \in Player, Notes(sender, target) # {}
  PROVE  NewestNote(sender, target) \in ToSet(solved[sender])
<1>1. PICK sq \in Seq(Problem) : sq = solved[sender]
  BY DEF ItemsTypeOK
<1> DEFINE Open == {k \in DOMAIN sq : sq[k] \in Notes(sender, target)}
<1>2. Open # {} /\ Open \subseteq 1 .. Len(sq) /\ Len(sq) \in Nat
  BY <1>1 DEF Notes, ToSet
<1>3. \E k \in Open : \A other \in Open : other <= k
  <2> HIDE DEF Open
  <2> QED
    BY <1>2, LastPlace
<1>4. PICK k \in Open : k = CHOOSE last \in Open : \A other \in Open : other <= last
  BY <1>3
<1>5. NewestNote(sender, target) = sq[k]
  BY <1>1, <1>4 DEF NewestNote
<1> QED
  BY <1>1, <1>5 DEF ToSet

LEMMA SolvedGrows ==
  ASSUME NEW sq \in Seq(Problem), NEW q \in Problem
  PROVE  Append(sq, q) \in Seq(Problem) /\ ToSet(sq) \subseteq ToSet(Append(sq, q))
BY DEF ToSet
-----------------------------------------------------------------------------
LEMMA InitIInv == ItemsInit => IInv
BY ItemsAssumption DEF ItemsInit, IInv, ItemsTypeOK, SingleEffect, NotesRecorded

(* Effects and solved problems stay: so does what is said of them.         *)
LEMMA SameEffects ==
  ASSUME IInv, UNCHANGED effects, \A p \in Player : ToSet(solved[p]) \subseteq ToSet(solved'[p])
  PROVE  SingleEffect' /\ NotesRecorded'
BY DEF IInv, SingleEffect, NotesRecorded

LEMMA UseItemInv ==
  ASSUME IInv, NEW s \in Player, NEW i \in Item, NEW t \in Player, UseItem(s, i, t)
  PROVE  IInv'
<1>1. /\ UNCHANGED <<roomStatus, solved, wrong, row>> /\ s # t
      /\ i = Advice => Notes(s, t) # {}
      /\ inventory[s][i] > 0
  BY DEF UseItem, MayUse, ValidateItemTarget
<1>2. PICK note : note = IF i = Advice THEN NewestNote(s, t) ELSE Unset
  OBVIOUS
<1>3. /\ note \in Problem \cup {Unset}
      /\ i = Advice => note \in ToSet(solved[s])
  <2>1. PICK sq \in Seq(Problem) : sq = solved[s]
    BY DEF IInv, ItemsTypeOK
  <2>2. ToSet(sq) \subseteq Problem
    BY DEF ToSet
  <2>3. i = Advice => note \in ToSet(sq)
    BY <1>1, <1>2, <2>1, NoteFound DEF IInv
  <2> QED
    BY ONLY <1>2, <2>1, <2>2, <2>3
<1>4. PICK new : new = [id |-> i, left |-> Duration, from |-> s, problem |-> note]
  OBVIOUS
<1>5. /\ new \in Effect /\ new.id = i /\ new.from = s /\ new.problem = note
  BY <1>3, <1>4, ItemsAssumption DEF Effect
<1>6. /\ \A p \in Player \ {t} : effects'[p] = effects[p]
      /\ effects'[t] = (effects[t] \ {e \in effects[t] : e.id = i /\ e.left > 0}) \cup {new}
      /\ effects' \in [Player -> SUBSET Effect]
  <2>1. PICK after : after = (effects[t] \ {e \in effects[t] : e.id = i /\ e.left > 0}) \cup {new}
    OBVIOUS
  <2>2. Applied(i, s, t) = after
    BY ONLY <1>2, <1>4, <2>1 DEF Applied, Active
  <2>3. effects' = [effects EXCEPT ![t] = after]
    BY <2>2 DEF UseItem
  <2>4. after \subseteq Effect
    BY <1>5, <2>1 DEF IInv, ItemsTypeOK
  <2> QED
    BY ONLY <2>1, <2>3, <2>4, IInv DEF IInv, ItemsTypeOK
<1>7. ItemsTypeOK'
  <2>1. inventory' \in [Player -> [Item -> Nat]]
    BY <1>1 DEF IInv, ItemsTypeOK, UseItem
  <2>2. readyIn' \in [Player -> [Item -> Nat]]
    BY ItemsAssumption DEF IInv, ItemsTypeOK, UseItem
  <2>3. expired' \in [Player -> SUBSET [id : Item, left : 0 .. Notice]]
    BY DEF IInv, ItemsTypeOK, UseItem
  <2> QED
    BY <1>1, <1>6, <2>1, <2>2, <2>3 DEF IInv, ItemsTypeOK
<1>8. SingleEffect'
  BY <1>5, <1>6 DEF IInv, SingleEffect
<1>9. NotesRecorded'
  BY <1>1, <1>3, <1>5, <1>6 DEF IInv, NotesRecorded
<1> QED
  BY <1>7, <1>8, <1>9 DEF IInv

LEMMA AnswerRightInv ==
  ASSUME IInv, NEW p \in Player, NEW q \in Problem, AnswerRight(p, q)
  PROVE  IInv'
<1>1. UNCHANGED <<roomStatus, wrong, readyIn, effects, expired>>
  BY DEF AnswerRight
<1>2. \A r \in Player : /\ solved'[r] \in Seq(Problem)
                        /\ ToSet(solved[r]) \subseteq ToSet(solved'[r])
  BY SolvedGrows DEF AnswerRight, IInv, ItemsTypeOK
<1>3. solved' \in [Player -> Seq(Problem)] /\ row' \in [Player -> 0 .. 2]
  BY <1>2 DEF AnswerRight, IInv, ItemsTypeOK
<1>4. inventory' \in [Player -> [Item -> Nat]]
  <2>1. PICK won \in Awards(p, q) :
          inventory' = [inventory EXCEPT ![p] =
                          [i \in Item |-> @[i] + Cardinality({k \in DOMAIN won : won[k] = i})]]
    BY DEF AnswerRight
  <2>2. PICK n \in Nat : DOMAIN won = 1 .. n
    <3>1. PICK second \in {1, 2} : Awards(p, q) = UNION {[1 .. n -> Item] : n \in 0 .. second}
      BY DEF Awards
    <3> QED
      BY <3>1
  <2>3. IsFiniteSet(DOMAIN won)
    BY <2>2, FS_Interval
  <2>4. \A i \in Item : Cardinality({k \in DOMAIN won : won[k] = i}) \in Nat
    BY <2>3, FS_Subset, FS_CardinalityType
  <2>5. PICK mine : mine = [i \in Item |-> inventory[p][i] + Cardinality({k \in DOMAIN won : won[k] = i})]
    OBVIOUS
  <2>6. mine \in [Item -> Nat]
    <3>1. \A i \in Item : inventory[p][i] \in Nat
      BY DEF IInv, ItemsTypeOK
    <3>2. \A i \in Item : inventory[p][i] + Cardinality({k \in DOMAIN won : won[k] = i}) \in Nat
      BY ONLY <2>4, <3>1
    <3> QED
      BY ONLY <2>5, <3>2
  <2>7. inventory' = [inventory EXCEPT ![p] = mine]
    BY <2>1, <2>5 DEF IInv, ItemsTypeOK
  <2> QED
    BY <2>6, <2>7 DEF IInv, ItemsTypeOK
<1> QED
  BY <1>1, <1>2, <1>3, <1>4, SameEffects DEF IInv, ItemsTypeOK

LEMMA AnswerWrongInv ==
  ASSUME IInv, NEW p \in Player, NEW q \in Problem, AnswerWrong(p, q)
  PROVE  IInv'
<1>1. UNCHANGED <<roomStatus, solved, readyIn, inventory, expired>>
  BY DEF AnswerWrong
<1>2. wrong' \in [Player -> SUBSET Problem] /\ row' \in [Player -> 0 .. 2]
  <2>1. \A n \in 0 .. 2 : (n + 1) % 3 \in 0 .. 2
    OBVIOUS
  <2> QED
    BY <2>1 DEF AnswerWrong, IInv, ItemsTypeOK
<1>3. CASE UNCHANGED effects
  BY <1>1, <1>2, <1>3, SameEffects DEF IInv, ItemsTypeOK
<1>4. ASSUME NEW w \in Weak, effects' = [effects EXCEPT ![p] = @ \cup {WeakDebuff(w)}]
      PROVE  IInv'
  <2>1. PICK new : new = WeakDebuff(w)
    OBVIOUS
  <2>2. new \in Effect /\ new.id \notin Item
    BY <2>1, ItemsAssumption DEF WeakDebuff, Effect
  <2>3. /\ \A r \in Player \ {p} : effects'[r] = effects[r]
        /\ effects'[p] = effects[p] \cup {new}
        /\ effects' \in [Player -> SUBSET Effect]
    BY ONLY <1>4, <2>1, <2>2, IInv DEF IInv, ItemsTypeOK
  <2>4. SingleEffect' /\ NotesRecorded'
    BY <1>1, <2>2, <2>3 DEF IInv, SingleEffect, NotesRecorded, Item
  <2> QED
    BY <1>1, <1>2, <2>3, <2>4 DEF IInv, ItemsTypeOK
<1> QED
  BY <1>3, <1>4 DEF AnswerWrong

LEMMA CleanupInv == ASSUME IInv, CleanupEffects PROVE IInv'
<1>1. UNCHANGED <<roomStatus, solved, wrong, row, inventory, readyIn>>
  BY DEF CleanupEffects
<1>2. \A p \in Player : effects'[p] \subseteq effects[p]
  BY DEF CleanupEffects
<1>3. effects' \in [Player -> SUBSET Effect]
  BY DEF CleanupEffects, IInv, ItemsTypeOK
<1>4. expired' \in [Player -> SUBSET [id : Item, left : 0 .. Notice]]
  BY ItemsAssumption DEF CleanupEffects, Noticed, IInv, ItemsTypeOK
<1> QED
  BY <1>1, <1>2, <1>3, <1>4 DEF IInv, ItemsTypeOK, SingleEffect, NotesRecorded

(* The clock changes nothing but what is left of an effect.                *)
LEMMA TickInv == ASSUME IInv, PassTime PROVE IInv'
<1>1. UNCHANGED <<roomStatus, solved, wrong, row, inventory>>
  BY DEF PassTime
<1>2. \A n \in Nat : Less(n) \in Nat /\ Less(n) <= n /\ (Less(n) > 0 => n > 0)
  BY DEF Less
<1>3. ASSUME NEW p \in Player, NEW e \in effects'[p]
      PROVE  /\ e \in Effect
             /\ \E old \in effects[p] : /\ e = [old EXCEPT !.left = Less(@)]
                                        /\ e.id = old.id /\ e.from = old.from
                                        /\ e.problem = old.problem /\ (e.left > 0 => old.left > 0)
  <2>1. PICK old \in effects[p] : e = [old EXCEPT !.left = Less(@)]
    BY <1>3 DEF PassTime
  <2>2. old \in Effect
    BY DEF IInv, ItemsTypeOK
  <2>3. PICK n \in 0 .. Duration : n = Less(old.left) /\ (n > 0 => old.left > 0)
    BY <1>2, <2>2, ItemsAssumption DEF Effect
  <2>4. e = [old EXCEPT !.left = n]
    BY <2>1, <2>3
  <2> QED
    BY <2>1, <2>2, <2>3, <2>4 DEF Effect
<1>4. effects' \in [Player -> SUBSET Effect]
  BY <1>3 DEF PassTime
<1>5. expired' \in [Player -> SUBSET [id : Item, left : 0 .. Notice]]
  <2> DEFINE N == [id : Item, left : 0 .. Notice]
  <2>1. \A n \in N : [n EXCEPT !.left = Less(@)] \in N
    BY <1>2, ItemsAssumption
  <2>2. \A p \in Player : expired[p] \subseteq N
    BY DEF IInv, ItemsTypeOK
  <2> HIDE DEF N
  <2>3. expired' \in [Player -> SUBSET N]
    BY <2>1, <2>2 DEF PassTime
  <2> QED
    BY <2>3 DEF N
<1>6. readyIn' \in [Player -> [Item -> Nat]]
  BY <1>2 DEF PassTime, IInv, ItemsTypeOK
<1>7. SingleEffect'
  <2> SUFFICES ASSUME NEW p \in Player, NEW e \in effects'[p], NEW f \in effects'[p],
                      e.id = f.id, e.id \in Item, e.left > 0, f.left > 0
               PROVE  e = f
    BY DEF SingleEffect
  <2>1. PICK d \in effects[p] : /\ e = [d EXCEPT !.left = Less(@)]
                                /\ e.id = d.id /\ d.left > 0
    BY <1>3
  <2>2. PICK g \in effects[p] : /\ f = [g EXCEPT !.left = Less(@)]
                                /\ f.id = g.id /\ g.left > 0
    BY <1>3
  <2>3. d = g
    BY <2>1, <2>2 DEF IInv, SingleEffect
  <2> QED
    BY <2>1, <2>2, <2>3
<1>8. NotesRecorded'
  BY <1>1, <1>3 DEF IInv, NotesRecorded
<1> QED
  BY <1>1, <1>4, <1>5, <1>6, <1>7, <1>8 DEF IInv, ItemsTypeOK

LEMMA NextIInv == IInv /\ [ItemsNext]_itemVars => IInv'
<1> SUFFICES ASSUME IInv, [ItemsNext]_itemVars PROVE IInv'
  OBVIOUS
<1>1. CASE FinishPlay
  BY <1>1, SameEffects DEF FinishPlay, IInv, ItemsTypeOK
<1>2. CASE UNCHANGED itemVars
  BY <1>2, SameEffects DEF itemVars, IInv, ItemsTypeOK
<1> QED
  BY <1>1, <1>2, UseItemInv, AnswerRightInv, AnswerWrongInv, CleanupInv, TickInv DEF ItemsNext

(* The state stays typed, effects single and notes recorded.               *)
THEOREM InvariantHolds == ItemsSpec => []IInv
<1>1. ItemsInit => IInv
  BY InitIInv
<1>2. IInv /\ [ItemsNext]_itemVars => IInv'
  BY NextIInv
<1> QED BY <1>1, <1>2, PTL DEF ItemsSpec

(* No item is active twice on one player.                                  *)
THEOREM AlwaysOneEffect == ItemsSpec => []OneActiveEffect
<1>1. IInv => OneActiveEffect
  <2> SUFFICES ASSUME IInv, NEW p \in Player, NEW i \in Item PROVE Cardinality(Active(p, i)) <= 1
    BY DEF OneActiveEffect
  <2>1. \A e, f \in Active(p, i) : e = f
    BY DEF Active, IInv, SingleEffect
  <2>2. CASE Active(p, i) = {}
    BY <2>2, FS_EmptySet
  <2>3. ASSUME NEW e \in Active(p, i) PROVE Cardinality(Active(p, i)) <= 1
    <3>1. Active(p, i) = {e}
      BY <2>1, <2>3
    <3>2. Cardinality({e}) = 1
      BY FS_Singleton
    <3> QED
      BY ONLY <3>1, <3>2
  <2> QED
    BY <2>2, <2>3
<1> QED BY <1>1, InvariantHolds, PTL

(* A note tells of a problem that the player named on it solved.           *)
THEOREM NotesAlwaysTrue == ItemsSpec => []NotesAreTrue
<1>1. IInv => NotesAreTrue
  BY DEF IInv, NotesRecorded, NotesAreTrue, Active
<1> QED BY <1>1, InvariantHolds, PTL
=============================================================================
