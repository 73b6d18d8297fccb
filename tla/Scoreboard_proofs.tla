-------------------------- MODULE Scoreboard_proofs --------------------------
(***************************************************************************)
(* The board of a contest and its reveal, for any number of players,       *)
(* any problems, points and answers.  The parts, in this order:            *)
(*   sums      a sum over a finite set exists and does not depend on the   *)
(*             order in which the recursion picks the members;             *)
(*   places    Rank lists a finite set in the order of compareStandings,   *)
(*             which is a strict weak order;                               *)
(*   answers   an answer adds to points and penalty what the running       *)
(*             totals of the handler add;                                  *)
(*   IInv      the totals, the frozen board and the history agree;         *)
(*   reveal    opening an attempt only raises its player; the steps of the *)
(*             recursion exist, and every place below the cursor is final; *)
(*   result    with every attempt open a row is that of the standings.     *)
(* Recursion over data is handled by a smallest counterexample: a nonempty *)
(* set of numbers, or of finite sets, has a minimal member.                *)
(***************************************************************************)
EXTENDS Scoreboard, FiniteSetTheorems, SequenceTheorems, TLAPS

(* A family of finite sets has a smallest member, a set of numbers too.    *)
LEMMA SmallestSet ==
  ASSUME NEW S, IsFiniteSet(S), NEW B, B \subseteq SUBSET S, B # {}
  PROVE  \E T \in B : \A U \in B : U \subseteq T => U = T
<1> DEFINE R == StrictSubsetOrdering(S)
<1>1. IsWellFoundedOn(R, SUBSET S)
  BY FS_StrictSubsetOrderingWellFounded, FS_FiniteSubsetsOfFinite
<1>2. \A U, T \in SUBSET S : U \subseteq T /\ U # T => <<U, T>> \in R
  BY DEF StrictSubsetOrdering
<1> HIDE DEF R
<1>3. PICK T \in B : \A U \in B : ~ (<<U, T>> \in R)
  BY <1>1, WFMin
<1> QED
  BY <1>2, <1>3

LEMMA LeastNumber ==
  ASSUME NEW B, B \subseteq Nat, B # {}
  PROVE  \E b \in B : \A c \in B : b <= c
<1> DEFINE R == OpToRel(<, Nat)
<1>1. IsWellFoundedOn(R, Nat)
  BY NatLessThanWellFounded
<1>2. \A x, y \in Nat : x < y => <<x, y>> \in R
  BY DEF OpToRel
<1> HIDE DEF R
<1>3. PICK b \in B : \A c \in B : ~ (<<c, b>> \in R)
  BY <1>1, WFMin
<1>4. \A c \in B : ~ (c < b)
  BY <1>2, <1>3
<1> QED
  BY <1>3, <1>4
-----------------------------------------------------------------------------
Some(s) == CHOOSE x \in s : TRUE

(* `iter` adds up the values that g gives to the members of a set.         *)
Sums(iter, g, S) ==
  iter = [s \in SUBSET S |-> IF s = {} THEN 0 ELSE g[Some(s)] + iter[s \ {Some(s)}]]

LEMMA SomeMember == ASSUME NEW s, s # {} PROVE Some(s) \in s
BY DEF Some

LEMMA SumStep ==
  ASSUME NEW S, NEW iter, NEW g, Sums(iter, g, S), NEW T \in SUBSET S
  PROVE  iter[T] = IF T = {} THEN 0 ELSE g[Some(T)] + iter[T \ {Some(T)}]
BY DEF Sums

(* A set has one sum: it depends on the values of its members alone.       *)
LEMMA SumAgree ==
  ASSUME NEW S, NEW h, NEW g, Sums(h, g, S), NEW R, NEW k, NEW f, Sums(k, f, R),
         NEW T \in SUBSET S, T \subseteq R, IsFiniteSet(T), \A x \in T : g[x] = f[x]
  PROVE  h[T] = k[T]
<1> DEFINE B == {U \in SUBSET T : h[U] # k[U]}
<1> SUFFICES ASSUME B # {} PROVE FALSE
  OBVIOUS
<1>1. PICK U \in B : \A V \in B : V \subseteq U => V = U
  <2>1. B \subseteq SUBSET T
    OBVIOUS
  <2> HIDE DEF B
  <2> QED
    BY <2>1, SmallestSet
<1>2. U # {}
  BY SumStep
<1>3. Some(U) \in U /\ U \ {Some(U)} \notin B
  BY <1>1, <1>2, SomeMember
<1>4. h[U \ {Some(U)}] = k[U \ {Some(U)}]
  BY <1>3
<1>5. h[U] = g[Some(U)] + h[U \ {Some(U)}] /\ k[U] = f[Some(U)] + k[U \ {Some(U)}]
  <2>1. U \in SUBSET S /\ U \in SUBSET R
    OBVIOUS
  <2> QED
    BY <1>2, <2>1, SumStep
<1> QED
  BY <1>3, <1>4, <1>5

LEMMA SumExists ==
  ASSUME NEW S, IsFiniteSet(S), NEW g
  PROVE  \E iter : Sums(iter, g, S)
<1> DEFINE B == {T \in SUBSET S : ~ \E iter : Sums(iter, g, T)}
<1> SUFFICES ASSUME B # {} PROVE FALSE
  OBVIOUS
<1>1. PICK T \in B : \A V \in B : V \subseteq T => V = T
  <2>1. B \subseteq SUBSET S
    OBVIOUS
  <2> HIDE DEF B
  <2> QED
    BY <2>1, SmallestSet
<1>2. \A U \in SUBSET T : U # T => \E iter : Sums(iter, g, U)
  BY <1>1
<1>3. T \in SUBSET S /\ ~ \E iter : Sums(iter, g, T)
  OBVIOUS
<1> HIDE DEF B
<1>4. PICK own : own = [U \in SUBSET T |-> CHOOSE iter : Sums(iter, g, U)]
  OBVIOUS
<1>5. \A U \in SUBSET T : U # T => Sums(own[U], g, U)
  BY <1>2, <1>4
<1>6. PICK sum : sum = [s \in SUBSET T |-> IF s = {} THEN 0
                         ELSE g[Some(s)] + own[s \ {Some(s)}][s \ {Some(s)}]]
  OBVIOUS
<1>7. ASSUME NEW U \in SUBSET T, U # T PROVE sum[U] = own[U][U]
  <2>1. Sums(own[U], g, U)
    BY <1>5, <1>7
  <2>2. CASE U = {}
    BY <1>6, <2>1, <2>2, SumStep
  <2>3. CASE U # {}
    <3>1. PICK V : V = U \ {Some(U)}
      OBVIOUS
    <3>2. V \in SUBSET U /\ V \in SUBSET T /\ V # T
      BY <1>7, <2>3, <3>1, SomeMember
    <3>3. Sums(own[V], g, V)
      BY <1>5, <3>2
    <3>4. IsFiniteSet(V)
      BY <1>3, <3>2, FS_Subset
    <3>5. own[V][V] = own[U][V]
      BY <2>1, <3>2, <3>3, <3>4, SumAgree
    <3>6. own[U][U] = g[Some(U)] + own[U][V]
      BY <2>1, <2>3, <3>1, SumStep
    <3> QED
      BY <1>6, <2>3, <3>1, <3>5, <3>6
  <2> QED
    BY <2>2, <2>3
<1>8. ASSUME NEW U \in SUBSET T
      PROVE  sum[U] = IF U = {} THEN 0 ELSE g[Some(U)] + sum[U \ {Some(U)}]
  <2>1. U # {} => U \ {Some(U)} \in SUBSET T /\ U \ {Some(U)} # T
    BY SomeMember
  <2> QED
    BY <1>6, <1>7, <2>1
<1>9. sum = [U \in SUBSET T |-> sum[U]]
  BY <1>6
<1>10. Sums(sum, g, T)
  BY <1>8, <1>9 DEF Sums
<1> QED
  BY <1>3, <1>10

LEMMA SumType ==
  ASSUME NEW S, NEW iter, NEW g, Sums(iter, g, S), NEW T \in SUBSET S, IsFiniteSet(T),
         \A x \in T : g[x] \in Nat
  PROVE  iter[T] \in Nat
<1> DEFINE B == {U \in SUBSET T : iter[U] \notin Nat}
<1> SUFFICES ASSUME B # {} PROVE FALSE
  OBVIOUS
<1>1. PICK U \in B : \A V \in B : V \subseteq U => V = U
  <2>1. B \subseteq SUBSET T
    OBVIOUS
  <2> HIDE DEF B
  <2> QED
    BY <2>1, SmallestSet
<1>2. U \in SUBSET S /\ iter[U] = IF U = {} THEN 0 ELSE g[Some(U)] + iter[U \ {Some(U)}]
  <2>1. U \in SUBSET S
    OBVIOUS
  <2> QED
    BY ONLY Sums(iter, g, S), <2>1, SumStep
<1>3. iter[U] \notin Nat /\ U # {}
  BY <1>2
<1>4. Some(U) \in U /\ U \ {Some(U)} \notin B
  BY <1>1, <1>3, SomeMember
<1> QED
  BY <1>2, <1>3, <1>4

(* A member may be added last, whichever it is.                            *)
LEMMA SumAdd ==
  ASSUME NEW S, NEW iter, NEW g, Sums(iter, g, S), NEW T \in SUBSET S, IsFiniteSet(T),
         \A x \in T : g[x] \in Nat, NEW x \in T
  PROVE  iter[T] = g[x] + iter[T \ {x}]
<1> DEFINE B == {U \in SUBSET T : \E y \in U : iter[U] # g[y] + iter[U \ {y}]}
<1> SUFFICES ASSUME B # {} PROVE FALSE
  OBVIOUS
<1>1. PICK U \in B : \A V \in B : V \subseteq U => V = U
  <2>1. B \subseteq SUBSET T
    OBVIOUS
  <2> HIDE DEF B
  <2> QED
    BY <2>1, SmallestSet
<1>2. PICK y \in U : iter[U] # g[y] + iter[U \ {y}]
  OBVIOUS
<1>3. PICK z \in U : z = Some(U)
  BY SomeMember
<1>4. iter[U] = g[z] + iter[U \ {z}]
  <2>1. U \in SUBSET S /\ U # {}
    OBVIOUS
  <2> QED
    BY <1>3, <2>1, SumStep
<1>5. y # z
  BY <1>2, <1>4
<1>6. U \ {z} \notin B /\ U \ {y} \notin B
  BY <1>1
<1>7. PICK V \in SUBSET T : V = (U \ {z}) \ {y} /\ V = (U \ {y}) \ {z}
  OBVIOUS
<1>8. iter[U \ {z}] = g[y] + iter[V] /\ iter[U \ {y}] = g[z] + iter[V]
  BY <1>5, <1>6, <1>7
<1>9. IsFiniteSet(V)
  BY FS_Subset
<1>10. iter[V] \in Nat /\ g[y] \in Nat /\ g[z] \in Nat
  BY <1>9, SumType
<1> QED
  BY ONLY <1>2, <1>4, <1>8, <1>10
-----------------------------------------------------------------------------
(* The sum of the values that g gives to the members of a finite set.      *)
Total(g, S) == (CHOOSE iter : Sums(iter, g, S))[S]

LEMMA TotalIs ==
  ASSUME NEW S, IsFiniteSet(S), NEW g
  PROVE  \E iter : Sums(iter, g, S) /\ Total(g, S) = iter[S]
<1>1. PICK c : c = CHOOSE iter : Sums(iter, g, S)
  OBVIOUS
<1>2. Sums(c, g, S)
  BY <1>1, SumExists
<1> QED
  BY <1>1, <1>2 DEF Total

LEMMA TotalEmpty == ASSUME NEW g PROVE Total(g, {}) = 0
<1>1. PICK c : Sums(c, g, {}) /\ Total(g, {}) = c[{}]
  BY TotalIs, FS_EmptySet
<1>2. {} \in SUBSET {}
  OBVIOUS
<1> QED
  BY ONLY <1>1, <1>2, SumStep

LEMMA TotalType ==
  ASSUME NEW S, IsFiniteSet(S), NEW g, \A x \in S : g[x] \in Nat
  PROVE  Total(g, S) \in Nat
<1>1. PICK c : Sums(c, g, S) /\ Total(g, S) = c[S]
  BY TotalIs
<1>2. S \in SUBSET S
  OBVIOUS
<1> QED
  BY <1>1, <1>2, SumType

LEMMA TotalSame ==
  ASSUME NEW S, IsFiniteSet(S), NEW g, NEW f, \A x \in S : g[x] = f[x]
  PROVE  Total(g, S) = Total(f, S)
<1>1. PICK c : Sums(c, g, S) /\ Total(g, S) = c[S]
  BY TotalIs
<1>2. PICK d : Sums(d, f, S) /\ Total(f, S) = d[S]
  BY TotalIs
<1>3. S \in SUBSET S
  OBVIOUS
<1> QED
  BY <1>1, <1>2, <1>3, SumAgree

LEMMA TotalAdd ==
  ASSUME NEW S, IsFiniteSet(S), NEW g, \A x \in S : g[x] \in Nat, NEW x \in S
  PROVE  Total(g, S) = g[x] + Total(g, S \ {x})
<1>1. PICK c : Sums(c, g, S) /\ Total(g, S) = c[S]
  BY TotalIs
<1>2. IsFiniteSet(S \ {x})
  BY FS_RemoveElement
<1>3. PICK d : Sums(d, g, S \ {x}) /\ Total(g, S \ {x}) = d[S \ {x}]
  BY <1>2, TotalIs
<1>4. S \in SUBSET S /\ S \ {x} \in SUBSET S /\ S \ {x} \subseteq S \ {x}
  OBVIOUS
<1>5. c[S] = g[x] + c[S \ {x}]
  BY <1>1, <1>4, SumAdd
<1>6. c[S \ {x}] = d[S \ {x}]
  BY <1>1, <1>2, <1>3, <1>4, SumAgree
<1> QED
  BY <1>1, <1>3, <1>5, <1>6

LEMMA TotalUnion ==
  ASSUME NEW S, IsFiniteSet(S), NEW T, IsFiniteSet(T), S \cap T = {}, NEW g,
         \A x \in S \cup T : g[x] \in Nat
  PROVE  Total(g, S \cup T) = Total(g, S) + Total(g, T)
<1> DEFINE B == {U \in SUBSET T : Total(g, S \cup U) # Total(g, S) + Total(g, U)}
<1> SUFFICES ASSUME B # {} PROVE FALSE
  OBVIOUS
<1>1. PICK U \in B : \A V \in B : V \subseteq U => V = U
  <2>1. B \subseteq SUBSET T
    OBVIOUS
  <2> HIDE DEF B
  <2> QED
    BY <2>1, SmallestSet
<1>2. Total(g, S) \in Nat
  BY TotalType
<1>3. U # {}
  <2>1. Total(g, {}) = 0
    BY TotalEmpty
  <2>2. ASSUME U = {} PROVE FALSE
    <3>1. S \cup U = S
      BY <2>2
    <3>2. Total(g, S \cup U) = Total(g, S) /\ Total(g, U) = 0
      BY ONLY <2>1, <2>2, <3>1, Zenon
    <3>3. Total(g, S \cup U) # Total(g, S) + Total(g, U)
      OBVIOUS
    <3> QED
      BY ONLY <1>2, <3>2, <3>3
  <2> QED
    BY <2>2
<1>4. PICK x \in U : TRUE
  BY <1>3
<1>5. PICK V \in SUBSET T : V = U \ {x} /\ (S \cup U) \ {x} = S \cup V /\ V \notin B
  <2>1. U \in SUBSET T /\ U \ {x} # U /\ U \ {x} \subseteq U /\ (S \cup U) \ {x} = S \cup (U \ {x})
    OBVIOUS
  <2> HIDE DEF B
  <2>2. U \ {x} \notin B
    BY <1>1, <2>1
  <2> QED
    BY <2>1, <2>2
<1>6. IsFiniteSet(U) /\ IsFiniteSet(S \cup U) /\ IsFiniteSet(V)
  BY FS_Subset, FS_Union
<1>7. Total(g, S \cup U) = g[x] + Total(g, S \cup V)
  BY <1>5, <1>6, TotalAdd
<1>8. Total(g, U) = g[x] + Total(g, V)
  BY <1>5, <1>6, TotalAdd
<1>9. Total(g, V) \in Nat /\ g[x] \in Nat
  BY <1>6, TotalType
<1>10. Total(g, S \cup V) = Total(g, S) + Total(g, V)
  BY <1>5
<1>11. Total(g, S \cup U) # Total(g, S) + Total(g, U)
  OBVIOUS
<1> QED
  BY ONLY <1>2, <1>7, <1>8, <1>9, <1>10, <1>11

LEMMA TotalGrows ==
  ASSUME NEW S, IsFiniteSet(S), NEW g, NEW f,
         \A x \in S : g[x] \in Nat /\ f[x] \in Nat /\ g[x] <= f[x]
  PROVE  Total(g, S) <= Total(f, S)
<1> DEFINE B == {U \in SUBSET S : ~ (Total(g, U) <= Total(f, U))}
<1> SUFFICES ASSUME B # {} PROVE FALSE
  OBVIOUS
<1>1. PICK U \in B : \A V \in B : V \subseteq U => V = U
  <2>1. B \subseteq SUBSET S
    OBVIOUS
  <2> HIDE DEF B
  <2> QED
    BY <2>1, SmallestSet
<1>2. U # {}
  <2>1. Total(g, {}) = 0 /\ Total(f, {}) = 0
    BY TotalEmpty
  <2> QED
    BY <2>1
<1>3. PICK x \in U : TRUE
  BY <1>2
<1>4. PICK V \in SUBSET S : V = U \ {x} /\ V \notin B
  <2>1. U \in SUBSET S /\ U \ {x} # U /\ U \ {x} \subseteq U
    OBVIOUS
  <2> HIDE DEF B
  <2>2. U \ {x} \notin B
    BY <1>1, <2>1
  <2> QED
    BY <2>1, <2>2
<1>5. IsFiniteSet(U) /\ IsFiniteSet(V)
  BY FS_Subset
<1>6. Total(g, U) = g[x] + Total(g, V) /\ Total(f, U) = f[x] + Total(f, V)
  BY <1>4, <1>5, TotalAdd
<1>7. Total(g, V) \in Nat /\ Total(f, V) \in Nat /\ g[x] \in Nat /\ f[x] \in Nat /\ g[x] <= f[x]
  BY <1>5, TotalType
<1>8. Total(g, V) <= Total(f, V) /\ ~ (Total(g, U) <= Total(f, U))
  BY <1>4
<1> QED
  BY ONLY <1>6, <1>7, <1>8

LEMMA TotalLess ==
  ASSUME NEW S, IsFiniteSet(S), NEW g, NEW f, NEW x \in S, g[x] < f[x],
         \A y \in S : g[y] \in Nat /\ f[y] \in Nat /\ g[y] <= f[y]
  PROVE  Total(g, S) < Total(f, S)
<1>1. PICK T : T = S \ {x} /\ IsFiniteSet(T)
  BY FS_RemoveElement
<1>2. Total(g, S) = g[x] + Total(g, T) /\ Total(f, S) = f[x] + Total(f, T)
  BY <1>1, TotalAdd
<1>3. Total(g, T) <= Total(f, T) /\ Total(g, T) \in Nat /\ Total(f, T) \in Nat
  BY <1>1, TotalGrows, TotalType
<1>4. g[x] \in Nat /\ f[x] \in Nat /\ g[x] < f[x]
  OBVIOUS
<1> QED
  BY ONLY <1>2, <1>3, <1>4

LEMMA TotalChange ==
  ASSUME NEW S, IsFiniteSet(S), NEW g, NEW f, NEW x \in S, f[x] = g[x] + 1,
         \A y \in S \ {x} : f[y] = g[y], \A y \in S : g[y] \in Nat
  PROVE  Total(f, S) = Total(g, S) + 1
<1>1. PICK T : T = S \ {x} /\ IsFiniteSet(T)
  BY FS_RemoveElement
<1>2. \A y \in S : f[y] \in Nat
  OBVIOUS
<1>3. Total(g, S) = g[x] + Total(g, T) /\ Total(f, S) = f[x] + Total(f, T)
  BY <1>1, <1>2, TotalAdd
<1>4. Total(g, T) = Total(f, T) /\ Total(g, T) \in Nat
  BY <1>1, TotalSame, TotalType
<1>5. g[x] \in Nat /\ f[x] = g[x] + 1
  OBVIOUS
<1> QED
  BY ONLY <1>3, <1>4, <1>5
-----------------------------------------------------------------------------
(* The sums of the model.                                                  *)
LEMMA PointsSum ==
  ASSUME NEW S, IsFiniteSet(S), NEW g, \A s \in S : g[s] = Points(s)
  PROVE  Sum(S, Points) = Total(g, S)
<1> DEFINE P(h) == h = [s \in SUBSET S |-> IF s = {} THEN 0 ELSE Points(Some(s)) + h[s \ {Some(s)}]]
<1>1. \A s \in SUBSET S : s # {} => Some(s) \in S /\ g[Some(s)] = Points(Some(s))
  BY DEF Some
<1>2. \A h : P(h) <=> Sums(h, g, S)
  BY <1>1 DEF Sums
<1>3. \E h : P(h)
  BY <1>2, SumExists
<1>4. PICK c : c = CHOOSE h : P(h)
  OBVIOUS
<1>5. P(c)
  BY <1>3, <1>4
<1>6. Sum(S, Points) = c[S]
  BY <1>4 DEF Sum, MapThenSumSet, MapThenFoldSet, Points, Some
<1>7. PICK d : Sums(d, g, S) /\ Total(g, S) = d[S]
  BY TotalIs
<1> HIDE DEF P
<1>8. S \in SUBSET S
  OBVIOUS
<1>9. c[S] = d[S]
  BY <1>2, <1>5, <1>7, <1>8, SumAgree
<1> QED
  BY <1>6, <1>7, <1>9

LEMMA PenaltySum ==
  ASSUME NEW S, IsFiniteSet(S), NEW g, \A s \in S : g[s] = Penalty(s)
  PROVE  Sum(S, Penalty) = Total(g, S)
<1> DEFINE P(h) == h = [s \in SUBSET S |-> IF s = {} THEN 0 ELSE Penalty(Some(s)) + h[s \ {Some(s)}]]
<1>1. \A s \in SUBSET S : s # {} => Some(s) \in S /\ g[Some(s)] = Penalty(Some(s))
  BY DEF Some
<1>2. \A h : P(h) <=> Sums(h, g, S)
  BY <1>1 DEF Sums
<1>3. \E h : P(h)
  BY <1>2, SumExists
<1>4. PICK c : c = CHOOSE h : P(h)
  OBVIOUS
<1>5. P(c)
  BY <1>3, <1>4
<1>6. Sum(S, Penalty) = c[S]
  BY <1>4 DEF Sum, MapThenSumSet, MapThenFoldSet, Penalty, Some
<1>7. PICK d : Sums(d, g, S) /\ Total(g, S) = d[S]
  BY TotalIs
<1> HIDE DEF P
<1>8. S \in SUBSET S
  OBVIOUS
<1>9. c[S] = d[S]
  BY <1>2, <1>5, <1>7, <1>8, SumAgree
<1> QED
  BY <1>6, <1>7, <1>9
-----------------------------------------------------------------------------
(* Places in a finite set under a total order, given as a set of pairs.    *)
TotalOrder(B, S) ==
  /\ \A i, j \in S : <<i, j>> \in B \/ <<j, i>> \in B
  /\ \A i, j \in S : <<i, j>> \in B /\ <<j, i>> \in B => i = j
  /\ \A i, j, k \in S : <<i, j>> \in B /\ <<j, k>> \in B => <<i, k>> \in B

Rank(B, S, i) == Cardinality({j \in S : <<j, i>> \in B})

LEMMA RankType ==
  ASSUME NEW S, IsFiniteSet(S), NEW B, TotalOrder(B, S), NEW i \in S
  PROVE  Rank(B, S, i) \in 1 .. Cardinality(S)
<1>1. PICK U \in SUBSET S : U = {j \in S : <<j, i>> \in B} /\ i \in U
  <2>1. <<i, i>> \in B
    BY DEF TotalOrder
  <2> QED
    BY <2>1
<1>2. IsFiniteSet(U) /\ Cardinality(U) <= Cardinality(S)
  BY FS_Subset
<1>3. Cardinality(U) \in Nat /\ Cardinality(S) \in Nat /\ Cardinality(U) # 0
  BY <1>1, <1>2, FS_CardinalityType, FS_EmptySet
<1> QED
  BY <1>1, <1>2, <1>3 DEF Rank

LEMMA RankLess ==
  ASSUME NEW S, IsFiniteSet(S), NEW B, TotalOrder(B, S), NEW i \in S, NEW j \in S,
         <<i, j>> \in B, i # j
  PROVE  Rank(B, S, i) < Rank(B, S, j)
<1>1. PICK U \in SUBSET S : U = {k \in S : <<k, i>> \in B}
  OBVIOUS
<1>2. PICK V \in SUBSET S : V = {k \in S : <<k, j>> \in B}
  OBVIOUS
<1>3. U \subseteq V /\ j \in V /\ j \notin U
  BY <1>1, <1>2 DEF TotalOrder
<1>4. IsFiniteSet(U) /\ IsFiniteSet(V)
  BY FS_Subset
<1>5. Cardinality(U) <= Cardinality(V) /\ (Cardinality(V) = Cardinality(U) => V = U)
  BY <1>3, <1>4, FS_Subset
<1>6. Cardinality(U) \in Nat /\ Cardinality(V) \in Nat
  BY <1>4, FS_CardinalityType
<1> QED
  BY <1>1, <1>2, <1>3, <1>5, <1>6 DEF Rank

LEMMA RankOwn ==
  ASSUME NEW S, IsFiniteSet(S), NEW B, TotalOrder(B, S), NEW i \in S, NEW j \in S,
         Rank(B, S, i) = Rank(B, S, j)
  PROVE  i = j
<1> SUFFICES ASSUME i # j PROVE FALSE
  OBVIOUS
<1>1. Rank(B, S, i) < Rank(B, S, j) \/ Rank(B, S, j) < Rank(B, S, i)
  BY RankLess DEF TotalOrder
<1>2. Rank(B, S, i) \in 1 .. Cardinality(S) /\ Rank(B, S, j) \in 1 .. Cardinality(S)
  BY RankType
<1> QED
  BY <1>1, <1>2

(* Every place is taken.                                                   *)
LEMMA RankOnto ==
  ASSUME NEW S, IsFiniteSet(S), NEW B, TotalOrder(B, S), NEW n \in 1 .. Cardinality(S)
  PROVE  \E i \in S : Rank(B, S, i) = n
<1>1. PICK f : f = [i \in S |-> Rank(B, S, i)]
  OBVIOUS
<1>2. Cardinality(S) \in Nat
  BY FS_CardinalityType
<1>3. PICK T : T = 1 .. Cardinality(S) /\ IsFiniteSet(T) /\ Cardinality(T) = Cardinality(S)
  BY <1>2, FS_Interval
<1>4. f \in [S -> T]
  BY <1>1, <1>3, RankType
<1>5. \A i, j \in S : f[i] = f[j] => i = j
  BY <1>1, RankOwn
<1>6. f \in Injection(S, T)
  BY <1>4, <1>5 DEF Injection, IsInjective
<1>7. f \in Surjection(S, T)
  BY <1>3, <1>6, FS_Injection
<1> QED
  BY <1>1, <1>3, <1>7 DEF Surjection

(* The members in their order: a list that has each of them once.          *)
LEMMA RankList ==
  ASSUME NEW S, IsFiniteSet(S), NEW B, TotalOrder(B, S)
  PROVE  \E f \in [1 .. Cardinality(S) -> S] :
           /\ \A i \in S : Rank(B, S, i) \in 1 .. Cardinality(S) /\ f[Rank(B, S, i)] = i
           /\ \A n \in 1 .. Cardinality(S) : Rank(B, S, f[n]) = n
           /\ \A m, n \in 1 .. Cardinality(S) : m < n => <<f[m], f[n]>> \in B /\ f[m] # f[n]
<1>0. PICK f : f = [n \in 1 .. Cardinality(S) |-> CHOOSE i \in S : Rank(B, S, i) = n]
  OBVIOUS
<1>1. \A n \in 1 .. Cardinality(S) : f[n] \in S /\ Rank(B, S, f[n]) = n
  BY <1>0, RankOnto
<1>2. \A i \in S : Rank(B, S, i) \in 1 .. Cardinality(S) /\ f[Rank(B, S, i)] = i
  BY <1>1, RankType, RankOwn
<1>3. ASSUME NEW m \in 1 .. Cardinality(S), NEW n \in 1 .. Cardinality(S), m < n
      PROVE  <<f[m], f[n]>> \in B /\ f[m] # f[n]
  <2>1. f[m] \in S /\ f[n] \in S /\ Rank(B, S, f[m]) = m /\ Rank(B, S, f[n]) = n
    BY <1>1
  <2>2. f[m] # f[n]
    BY <1>3, <2>1
  <2>3. ASSUME <<f[n], f[m]>> \in B PROVE FALSE
    <3>1. n < m
      BY <2>1, <2>2, <2>3, RankLess
    <3>2. Cardinality(S) \in Nat
      BY FS_CardinalityType
    <3> QED
      BY <1>3, <3>1, <3>2
  <2> QED
    BY <2>1, <2>2, <2>3 DEF TotalOrder
<1>4. f \in [1 .. Cardinality(S) -> S]
  BY <1>0, <1>1
<1> QED
  BY <1>1, <1>2, <1>3, <1>4

LEMMA MaxMember ==
  ASSUME NEW S \in SUBSET Nat, IsFiniteSet(S), S # {}
  PROVE  Max(S) \in S /\ \A x \in S : x <= Max(S)
<1> DEFINE B == {pair \in S \X S : pair[1] <= pair[2]}
<1>1. \A i, j \in S : <<i, j>> \in B <=> i <= j
  OBVIOUS
<1> HIDE DEF B
<1>2. TotalOrder(B, S)
  BY <1>1 DEF TotalOrder
<1>3. Cardinality(S) \in Nat /\ Cardinality(S) # 0
  BY FS_CardinalityType, FS_EmptySet
<1>4. PICK m \in S : Rank(B, S, m) = Cardinality(S)
  BY <1>2, <1>3, RankOnto
<1>5. PICK U \in SUBSET S : U = {j \in S : <<j, m>> \in B} /\ Cardinality(U) = Cardinality(S)
  BY <1>4 DEF Rank
<1>6. U = S
  BY <1>5, FS_Subset
<1>7. \A x \in S : m >= x
  BY <1>1, <1>5, <1>6
<1> QED
  BY <1>7 DEF Max
-----------------------------------------------------------------------------
LEMMA AtPlaces ==
  ASSUME NEW seq, NEW places \in SUBSET Nat, IsFiniteSet(places)
  PROVE  \E f \in [1 .. Cardinality(places) -> places] :
           /\ At(seq, places) = [n \in 1 .. Cardinality(places) |-> seq[f[n]]]
           /\ \A m, n \in 1 .. Cardinality(places) : m < n => f[m] < f[n]
           /\ \A i \in places : \E n \in 1 .. Cardinality(places) : f[n] = i
<1>0. PICK B : B = {pair \in places \X places : pair[1] <= pair[2]}
  OBVIOUS
<1>1. \A i, j \in places : <<i, j>> \in B <=> i <= j
  BY <1>0
<1>2. TotalOrder(B, places)
  BY <1>1 DEF TotalOrder
<1>3. \A i \in places : Rank(B, places, i) = Cardinality({j \in places : j <= i})
  <2>1. \A i \in places : {j \in places : <<j, i>> \in B} = {j \in places : j <= i}
    BY <1>1
  <2> QED
    BY <2>1 DEF Rank
<1>5. PICK f \in [1 .. Cardinality(places) -> places] :
        /\ \A i \in places : Rank(B, places, i) \in 1 .. Cardinality(places) /\ f[Rank(B, places, i)] = i
        /\ \A n \in 1 .. Cardinality(places) : Rank(B, places, f[n]) = n
        /\ \A m, n \in 1 .. Cardinality(places) : m < n => <<f[m], f[n]>> \in B /\ f[m] # f[n]
  BY <1>2, RankList
<1>6. ASSUME NEW m \in 1 .. Cardinality(places), NEW n \in 1 .. Cardinality(places), m < n
      PROVE  f[m] < f[n]
  <2>1. f[m] \in places /\ f[n] \in places /\ <<f[m], f[n]>> \in B /\ f[m] # f[n]
    BY <1>5, <1>6
  <2>2. f[m] <= f[n] /\ f[m] \in Nat /\ f[n] \in Nat
    BY <1>1, <2>1
  <2> QED
    BY <2>1, <2>2
<1>7. ASSUME NEW n \in 1 .. Cardinality(places)
      PROVE  (CHOOSE i \in places : Cardinality({j \in places : j <= i}) = n) = f[n]
  <2>1. \A i \in places : Cardinality({j \in places : j <= i}) = n <=> i = f[n]
    BY <1>2, <1>3, <1>5, RankOwn
  <2> QED
    BY <1>5, <2>1
<1>8. At(seq, places) = [n \in 1 .. Cardinality(places) |-> seq[f[n]]]
  <2>1. At(seq, places) = [n \in 1 .. Cardinality(places) |->
                             seq[CHOOSE i \in places : Cardinality({j \in places : j <= i}) = n]]
    BY ONLY DEF At
  <2> QED
    BY ONLY <1>7, <2>1
<1>9. \A i \in places : \E n \in 1 .. Cardinality(places) : f[n] = i
  BY <1>5
<1> QED
  BY <1>5, <1>6, <1>8, <1>9

(* compareStandings is a strict weak order.                                *)
LEMMA AheadOrder ==
  ASSUME NEW a \in Row, NEW b \in Row, NEW c \in Row
  PROVE  /\ ~ (Ahead(a, b) /\ Ahead(b, a))
         /\ Ahead(a, c) => Ahead(a, b) \/ Ahead(b, c)
BY ScoreboardAssumption DEF Ahead, Earlier, Row

Before(rows, j, i) == Ahead(rows[j], rows[i]) \/ (~Ahead(rows[i], rows[j]) /\ j <= i)

LEMMA SortedPlaces ==
  ASSUME NEW N \in Nat, NEW rows \in [1 .. N -> Row]
  PROVE  \E f \in [1 .. N -> 1 .. N] :
           /\ Sorted(rows) = [n \in 1 .. N |-> rows[f[n]]]
           /\ \A m, n \in 1 .. N : m < n => Before(rows, f[m], f[n]) /\ f[m] # f[n]
           /\ \A i \in 1 .. N : LET n == Cardinality({j \in 1 .. N : Before(rows, j, i)})
                               IN  n \in 1 .. N /\ f[n] = i
<1> DEFINE S == 1 .. N
           B == {pair \in S \X S : Before(rows, pair[1], pair[2])}
<1>0. IsFiniteSet(S) /\ Cardinality(S) = N
  BY FS_Interval
<1>1. \A i, j \in S : <<i, j>> \in B <=> Before(rows, i, j)
  OBVIOUS
<1> HIDE DEF B
<1>2. TotalOrder(B, S)
  <2>1. ASSUME NEW i \in S, NEW j \in S
        PROVE  /\ Before(rows, i, j) \/ Before(rows, j, i)
               /\ Before(rows, i, j) /\ Before(rows, j, i) => i = j
    BY AheadOrder DEF Before
  <2>2. ASSUME NEW i \in S, NEW j \in S, NEW k \in S, Before(rows, i, j), Before(rows, j, k)
        PROVE  Before(rows, i, k)
    <3>1. rows[i] \in Row /\ rows[j] \in Row /\ rows[k] \in Row
      OBVIOUS
    <3>2. /\ Ahead(rows[k], rows[i]) => Ahead(rows[k], rows[j]) \/ Ahead(rows[j], rows[i])
          /\ Ahead(rows[i], rows[j]) => Ahead(rows[i], rows[k]) \/ Ahead(rows[k], rows[j])
          /\ Ahead(rows[j], rows[k]) => Ahead(rows[j], rows[i]) \/ Ahead(rows[i], rows[k])
          /\ ~ (Ahead(rows[i], rows[j]) /\ Ahead(rows[j], rows[i]))
          /\ ~ (Ahead(rows[k], rows[j]) /\ Ahead(rows[j], rows[k]))
      BY <3>1, AheadOrder
    <3> QED
      BY <2>2, <3>2 DEF Before
  <2> QED
    BY <1>1, <2>1, <2>2 DEF TotalOrder
<1>3. \A i \in S : Rank(B, S, i) = Cardinality({j \in S : Before(rows, j, i)})
  <2>1. \A i \in S : {j \in S : <<j, i>> \in B} = {j \in S : Before(rows, j, i)}
    BY <1>1
  <2> QED
    BY <2>1 DEF Rank
<1>5. PICK f \in [1 .. Cardinality(S) -> S] :
        /\ \A i \in S : Rank(B, S, i) \in 1 .. Cardinality(S) /\ f[Rank(B, S, i)] = i
        /\ \A n \in 1 .. Cardinality(S) : Rank(B, S, f[n]) = n
        /\ \A m, n \in 1 .. Cardinality(S) : m < n => <<f[m], f[n]>> \in B /\ f[m] # f[n]
  <2> HIDE DEF S
  <2> QED
    BY ONLY <1>0, <1>2, RankList, SMTT(30)
<1>6. \A n \in S : (CHOOSE i \in S : Cardinality({j \in S : Before(rows, j, i)}) = n) = f[n]
  <2>1. ASSUME NEW n \in S
        PROVE  (CHOOSE i \in S : Cardinality({j \in S : Before(rows, j, i)}) = n) = f[n]
    <3>1. \A i \in S : Cardinality({j \in S : Before(rows, j, i)}) = n <=> i = f[n]
      BY <1>0, <1>2, <1>3, <1>5, RankOwn
    <3> QED
      BY <1>0, <1>5, <3>1
  <2> QED
    BY <2>1
<1>7. Sorted(rows) = [n \in S |-> rows[f[n]]]
  <2>1. DOMAIN rows = S
    OBVIOUS
  <2>2. Sorted(rows) = [n \in S |-> rows[CHOOSE i \in S : Cardinality({j \in S : Before(rows, j, i)}) = n]]
    BY ONLY <2>1 DEF Sorted, Before
  <2> QED
    BY ONLY <1>6, <2>2
<1> QED
  BY <1>0, <1>1, <1>3, <1>5, <1>7, ZenonT(40)
-----------------------------------------------------------------------------
(* Finite sets of answers, each with the number of its attempt.            *)
Counted(S) == IsFiniteSet(S) /\ S \subseteq Submission /\ \A s \in S : s.attempts # 0

PointsOf  == [s \in Submission |-> Points(s)]
PenaltyOf == [s \in Submission |-> Penalty(s)]

LEMMA AnswerTypes ==
  ASSUME NEW s \in Submission, s.attempts # 0
  PROVE  Points(s) \in Nat \ {0} /\ Penalty(s) \in Nat
<1>1. Points(s) \in Nat \ {0}
  BY ScoreboardAssumption DEF Submission, Points
<1>2. PICK a, k, m, w \in Nat : a = s.at /\ k = s.attempts - 1 /\ m = TicksPerMinute /\ w = WrongPenalty
  BY ScoreboardAssumption DEF Submission
<1>3. m > 0
  BY <1>2, ScoreboardAssumption
<1>4. (a + m - 1) \div m \in Nat
  BY <1>3
<1>5. k * w \in Nat
  OBVIOUS
<1>6. (a + m - 1) \div m + k * w \in Nat
  BY <1>4, <1>5
<1>7. Penalty(s) = 0 \/ Penalty(s) = (a + m - 1) \div m + k * w
  BY <1>2 DEF Penalty
<1> QED
  BY <1>1, <1>6, <1>7

LEMMA SumsOf ==
  ASSUME NEW S, Counted(S)
  PROVE  /\ Sum(S, Points) = Total(PointsOf, S) /\ Sum(S, Penalty) = Total(PenaltyOf, S)
         /\ \A s \in S : PointsOf[s] \in Nat /\ PointsOf[s] = Points(s)
         /\ \A s \in S : PenaltyOf[s] \in Nat /\ PenaltyOf[s] = Penalty(s)
         /\ Sum(S, Points) \in Nat /\ Sum(S, Penalty) \in Nat
<1>1. /\ \A s \in S : PointsOf[s] \in Nat /\ PointsOf[s] = Points(s)
      /\ \A s \in S : PenaltyOf[s] \in Nat /\ PenaltyOf[s] = Penalty(s)
  BY AnswerTypes DEF Counted, PointsOf, PenaltyOf
<1>2. Sum(S, Points) = Total(PointsOf, S)
  BY <1>1, PointsSum DEF Counted
<1>3. Sum(S, Penalty) = Total(PenaltyOf, S)
  BY <1>1, PenaltySum DEF Counted
<1>4. Total(PointsOf, S) \in Nat /\ Total(PenaltyOf, S) \in Nat
  BY <1>1, TotalType DEF Counted
<1> QED
  BY <1>1, <1>2, <1>3, <1>4

LEMMA SumsAdd ==
  ASSUME NEW S, NEW s \in Submission, Counted(S \cup {s}), s \notin S
  PROVE  /\ Sum(S \cup {s}, Points) = Sum(S, Points) + Points(s)
         /\ Sum(S \cup {s}, Penalty) = Sum(S, Penalty) + Penalty(s)
         /\ Cardinality(S \cup {s}) = Cardinality(S) + 1
<1>1. Counted(S)
  BY FS_Subset DEF Counted
<1>2. (S \cup {s}) \ {s} = S /\ s \in S \cup {s}
  OBVIOUS
<1>3. IsFiniteSet(S \cup {s}) /\ IsFiniteSet(S)
  BY <1>1 DEF Counted
<1>4. /\ Total(PointsOf, S \cup {s}) = PointsOf[s] + Total(PointsOf, S)
      /\ Total(PenaltyOf, S \cup {s}) = PenaltyOf[s] + Total(PenaltyOf, S)
  <2>1. \A t \in S \cup {s} : PointsOf[t] \in Nat /\ PenaltyOf[t] \in Nat
    BY SumsOf
  <2>2. PICK U : U = S \cup {s} /\ U \ {s} = S /\ s \in U
    BY <1>2
  <2>3. IsFiniteSet(U) /\ (\A t \in U : PointsOf[t] \in Nat) /\ (\A t \in U : PenaltyOf[t] \in Nat)
    BY <1>3, <2>1, <2>2
  <2>4. /\ Total(PointsOf, U) = PointsOf[s] + Total(PointsOf, U \ {s})
        /\ Total(PenaltyOf, U) = PenaltyOf[s] + Total(PenaltyOf, U \ {s})
    BY ONLY <2>2, <2>3, TotalAdd
  <2> QED
    BY <2>2, <2>4
<1>5. Cardinality(S \cup {s}) = Cardinality(S) + 1
  BY <1>3, FS_AddElement
<1>6. /\ Sum(S \cup {s}, Points) = Total(PointsOf, S \cup {s})
      /\ Sum(S \cup {s}, Penalty) = Total(PenaltyOf, S \cup {s})
      /\ PointsOf[s] = Points(s) /\ PenaltyOf[s] = Penalty(s)
      /\ Points(s) \in Nat /\ Penalty(s) \in Nat
  BY <1>2, SumsOf
<1>7. /\ Sum(S, Points) = Total(PointsOf, S) /\ Sum(S, Penalty) = Total(PenaltyOf, S)
      /\ Sum(S, Points) \in Nat /\ Sum(S, Penalty) \in Nat
  BY <1>1, SumsOf
<1> QED
  BY ONLY <1>4, <1>5, <1>6, <1>7

LEMMA SumsUnion ==
  ASSUME NEW S, NEW T, Counted(S), Counted(T), S \cap T = {}
  PROVE  /\ Sum(S \cup T, Points) = Sum(S, Points) + Sum(T, Points)
         /\ Sum(S \cup T, Penalty) = Sum(S, Penalty) + Sum(T, Penalty)
         /\ Cardinality(S \cup T) = Cardinality(S) + Cardinality(T)
<1>1. Counted(S \cup T) /\ IsFiniteSet(S) /\ IsFiniteSet(T)
  BY FS_Union DEF Counted
<1>2. /\ Total(PointsOf, S \cup T) = Total(PointsOf, S) + Total(PointsOf, T)
      /\ Total(PenaltyOf, S \cup T) = Total(PenaltyOf, S) + Total(PenaltyOf, T)
  <2>1. (\A t \in S \cup T : PointsOf[t] \in Nat) /\ (\A t \in S \cup T : PenaltyOf[t] \in Nat)
    BY <1>1, SumsOf
  <2> QED
    BY ONLY <1>1, <2>1, S \cap T = {}, TotalUnion
<1>3. /\ Sum(S \cup T, Points) = Total(PointsOf, S \cup T)
      /\ Sum(S \cup T, Penalty) = Total(PenaltyOf, S \cup T)
      /\ Sum(S, Points) = Total(PointsOf, S) /\ Sum(S, Penalty) = Total(PenaltyOf, S)
      /\ Sum(T, Points) = Total(PointsOf, T) /\ Sum(T, Penalty) = Total(PenaltyOf, T)
  BY <1>1, SumsOf
<1>4. Cardinality(S \cap T) = 0 /\ Cardinality(S) \in Nat /\ Cardinality(T) \in Nat
  BY <1>1, FS_EmptySet, FS_CardinalityType
<1>5. Cardinality(S \cup T) = Cardinality(S) + Cardinality(T) - Cardinality(S \cap T)
  BY <1>1, FS_Union
<1> QED
  BY ONLY <1>2, <1>3, <1>4, <1>5

LEMMA NoSums ==
  Sum({}, Points) = 0 /\ Sum({}, Penalty) = 0 /\ Cardinality({}) = 0
<1>1. Counted({})
  BY FS_EmptySet DEF Counted
<1> QED
  BY <1>1, SumsOf, TotalEmpty, FS_EmptySet
-----------------------------------------------------------------------------
(* A player's record: answers with their attempts, none to a problem that  *)
(* was answered right before.                                              *)
GoodHistory(h) ==
  /\ h \in Seq(Submission)
  /\ \A i \in DOMAIN h : h[i].attempts # 0
  /\ \A i, j \in DOMAIN h : i < j /\ h[i].correct => h[i].problem # h[j].problem

LastPlaces(h) ==
  {j \in DOMAIN h : \A k \in DOMAIN h : k > j => h[k].problem # h[j].problem}

LastIn(h) == {h[i] : i \in LastPlaces(h)}

LEMMA AnswersCounted ==
  ASSUME NEW h, GoodHistory(h), NEW P \in SUBSET DOMAIN h
  PROVE  Counted({h[i] : i \in P})
<1>1. PICK S : S = {h[i] : i \in P}
  OBVIOUS
<1>2. DOMAIN h = 1 .. Len(h) /\ Len(h) \in Nat
  BY DEF GoodHistory
<1>3. IsFiniteSet(P)
  <2>1. IsFiniteSet(DOMAIN h)
    BY <1>2, FS_Interval
  <2> QED
    BY <2>1, FS_Subset
<1>4. PICK f : f = [i \in P |-> h[i]]
  OBVIOUS
<1>5. f \in Surjection(P, S)
  BY <1>1, <1>4 DEF Surjection
<1>6. IsFiniteSet(S)
  BY <1>3, <1>5, FS_Surjection
<1>7. \A i \in P : h[i] \in Submission /\ h[i].attempts # 0
  BY <1>2 DEF GoodHistory
<1> QED
  BY <1>1, <1>6, <1>7 DEF Counted

LEMMA CountedPart ==
  ASSUME NEW S, Counted(S), NEW T, T \subseteq S
  PROVE  Counted(T)
BY FS_Subset DEF Counted

(* A new answer, to a problem not answered right so far.                   *)
LEMMA AnswerAdds ==
  ASSUME NEW h, GoodHistory(h), NEW s \in Submission, s.attempts # 0,
         \A i \in DOMAIN h : h[i].problem = s.problem => ~h[i].correct
  PROVE  /\ GoodHistory(Append(h, s))
         /\ Accepted(LastIn(Append(h, s))) = Accepted(LastIn(h)) \cup (IF s.correct THEN {s} ELSE {})
         /\ s \notin Accepted(LastIn(h))
<1>1. PICK g : g = Append(h, s)
  OBVIOUS
<1>2. PICK n \in Nat : n = Len(h) /\ DOMAIN h = 1 .. n
  BY DEF GoodHistory
<1>3. /\ g \in Seq(Submission) /\ DOMAIN g = 1 .. n + 1 /\ g[n + 1] = s
      /\ \A i \in 1 .. n : g[i] = h[i] /\ h[i] \in Submission
  BY <1>1, <1>2 DEF GoodHistory
<1>4. GoodHistory(g)
  <2>1. \A i \in 1 .. n + 1 : i \in 1 .. n \/ i = n + 1
    BY <1>2
  <2>2. \A i \in DOMAIN g : g[i].attempts # 0
    BY <1>2, <1>3, <2>1 DEF GoodHistory
  <2>3. ASSUME NEW i \in DOMAIN g, NEW j \in DOMAIN g, i < j, g[i].correct
        PROVE  g[i].problem # g[j].problem
    <3>1. i \in 1 .. n
      BY <1>2, <1>3, <2>1, <2>3
    <3>2. CASE j = n + 1
      BY <1>2, <1>3, <2>3, <3>1, <3>2
    <3>3. CASE j \in 1 .. n
      BY <1>2, <1>3, <2>3, <3>1, <3>3 DEF GoodHistory
    <3> QED
      BY <1>3, <2>1, <3>2, <3>3
  <2> QED
    BY <1>3, <2>2, <2>3 DEF GoodHistory
<1>5. \A i \in 1 .. n : i \in LastPlaces(g) <=> i \in LastPlaces(h) /\ h[i].problem # s.problem
  <2>1. ASSUME NEW i \in 1 .. n
        PROVE  i \in LastPlaces(g) <=> i \in LastPlaces(h) /\ h[i].problem # s.problem
    <3>1. \A k \in 1 .. n + 1 : k \in 1 .. n \/ k = n + 1
      BY <1>2
    <3>2. n + 1 > i /\ n + 1 \in 1 .. n + 1 /\ \A k \in 1 .. n : k \in 1 .. n + 1
      BY <1>2, <2>1
    <3> QED
      BY <1>2, <1>3, <3>1, <3>2 DEF LastPlaces
  <2> QED
    BY <2>1
<1>6. n + 1 \in LastPlaces(g)
  BY <1>2, <1>3 DEF LastPlaces
<1>7. \A i \in LastPlaces(g) : i \in 1 .. n \/ i = n + 1
  BY <1>2, <1>3 DEF LastPlaces
<1>8. \A i \in LastPlaces(h) : i \in 1 .. n
  BY <1>2 DEF LastPlaces
<1>9. ASSUME NEW t \in Accepted(LastIn(g))
      PROVE  t \in Accepted(LastIn(h)) \cup (IF s.correct THEN {s} ELSE {})
  <2>1. PICK i \in LastPlaces(g) : t = g[i] /\ t.correct
    BY <1>9 DEF Accepted, LastIn
  <2> QED
    BY <1>3, <1>5, <1>7, <2>1 DEF Accepted, LastIn
<1>10. ASSUME NEW t \in Accepted(LastIn(h))
       PROVE  t \in Accepted(LastIn(g)) /\ t # s
  <2>1. PICK i \in LastPlaces(h) : t = h[i] /\ t.correct
    BY <1>10 DEF Accepted, LastIn
  <2>2. i \in 1 .. n /\ h[i].problem # s.problem
    BY <1>2, <1>8, <2>1
  <2> QED
    BY <1>3, <1>5, <2>1, <2>2 DEF Accepted, LastIn
<1>11. s.correct => s \in Accepted(LastIn(g))
  BY <1>3, <1>6 DEF Accepted, LastIn
<1> QED
  BY <1>1, <1>4, <1>9, <1>10, <1>11

LEMMA MaxIs ==
  ASSUME NEW S \in SUBSET Nat, NEW m \in S, \A x \in S : x <= m
  PROVE  Max(S) = m
<1>1. \A y \in S : (\A x \in S : y >= x) <=> y = m
  <2>1. \A x, y \in S : x \in Nat /\ y \in Nat
    OBVIOUS
  <2> QED
    BY <2>1
<1>2. Max(S) = CHOOSE y \in S : \A x \in S : y >= x
  BY DEF Max
<1> QED
  BY <1>1, <1>2

LEMMA LastTyped ==
  ASSUME NEW S, Counted(S), S # {}
  PROVE  /\ LastOf(S) \in Nat /\ \A s \in S : s.at <= LastOf(S)
         /\ \E s \in S : LastOf(S) = s.at
<1>1. PICK T : T = {s.at : s \in S}
  OBVIOUS
<1>2. PICK f : f = [s \in S |-> s.at]
  OBVIOUS
<1>3. f \in Surjection(S, T)
  BY <1>1, <1>2 DEF Surjection
<1>4. IsFiniteSet(T)
  BY <1>3, FS_Surjection DEF Counted
<1>5. T \in SUBSET Nat /\ T # {}
  BY <1>1 DEF Counted, Submission
<1>6. Max(T) \in T /\ \A x \in T : x <= Max(T)
  BY <1>4, <1>5, MaxMember
<1>7. LastOf(S) = Max(T)
  BY <1>1 DEF LastOf
<1> QED
  BY <1>1, <1>5, <1>6, <1>7

LEMMA LastUnion ==
  ASSUME NEW S, NEW T, Counted(S), Counted(T), S # {}, T # {}
  PROVE  LastOf(S \cup T) = Max({LastOf(S), LastOf(T)})
<1>1. Counted(S \cup T)
  BY FS_Union DEF Counted
<1>2. PICK a, b, c \in Nat : a = LastOf(S) /\ b = LastOf(T) /\ c = LastOf(S \cup T)
  BY <1>1, LastTyped
<1>3. a <= c /\ b <= c /\ (c <= a \/ c <= b)
  <2>1. PICK s \in S : a = s.at
    BY <1>2, LastTyped
  <2>2. PICK t \in T : b = t.at
    BY <1>2, LastTyped
  <2>3. PICK u \in S \cup T : c = u.at
    BY <1>1, <1>2, LastTyped
  <2>4. s.at <= c /\ t.at <= c
    BY <1>1, <1>2, LastTyped
  <2>5. u \in S => u.at <= a
    BY <1>2, LastTyped
  <2>6. u \in T => u.at <= b
    BY <1>2, LastTyped
  <2> QED
    BY <2>1, <2>2, <2>3, <2>4, <2>5, <2>6
<1>4. c \in {a, b} /\ \A x \in {a, b} : x <= c
  BY <1>2, <1>3
<1>5. Max({a, b}) = c
  BY <1>4, MaxIs
<1> QED
  BY <1>2, <1>5

LEMMA StandingTyped ==
  ASSUME NEW A, Counted(A), NEW p \in Contestant
  PROVE  StandingOf(p, A) \in Row /\ StandingOf(p, A).player = p
<1>1. PICK S : S = Accepted(A)
  OBVIOUS
<1>2. Counted(S)
  BY <1>1, CountedPart DEF Accepted
<1>3. Sum(S, Points) \in Nat /\ Sum(S, Penalty) \in Nat /\ Cardinality(S) \in Nat
  BY <1>2, SumsOf, FS_CardinalityType DEF Counted
<1>4. LastOf(S) \in Nat \cup {None}
  BY <1>2, LastTyped DEF LastOf
<1>5. StandingOf(p, A) = [player |-> p, score |-> Sum(S, Points), penalty |-> Sum(S, Penalty),
                          solved |-> Cardinality(S), last |-> LastOf(S)]
  BY ONLY <1>1 DEF StandingOf
<1> QED
  BY <1>3, <1>4, <1>5 DEF Row

(* A board: a row for every player, sorted.                                *)
Rows(base) == base \in [Contestant -> Row] /\ \A p \in Contestant : base[p].player = p

LEMMA BoardTyped ==
  ASSUME NEW base, Rows(base)
  PROVE  Sorted(base) \in Seq(Row) /\ Sorted(base) # <<>>
<1>1. PICK N \in Nat \ {0} : Contestant = 1 .. N
  BY ScoreboardAssumption DEF Contestant
<1>2. base \in [1 .. N -> Row]
  BY <1>1 DEF Rows
<1>3. PICK f \in [1 .. N -> 1 .. N] : Sorted(base) = [n \in 1 .. N |-> base[f[n]]]
  <2>1. \E f \in [1 .. N -> 1 .. N] :
          /\ Sorted(base) = [n \in 1 .. N |-> base[f[n]]]
          /\ \A m, n \in 1 .. N : m < n => Before(base, f[m], f[n]) /\ f[m] # f[n]
          /\ \A i \in 1 .. N : LET n == Cardinality({j \in 1 .. N : Before(base, j, i)})
                              IN  n \in 1 .. N /\ f[n] = i
    BY ONLY <1>1, <1>2, SortedPlaces
  <2> QED
    BY ONLY <2>1, Zenon
<1>4. Sorted(base) \in [1 .. N -> Row] /\ DOMAIN Sorted(base) = 1 .. N
  BY <1>2, <1>3
<1>5. Sorted(base) \in Seq(Row)
  BY <1>1, <1>4, SeqDef
<1>6. 1 \in DOMAIN Sorted(base)
  BY <1>1, <1>4
<1> QED
  BY <1>5, <1>6

StandingsOf(hist) == [p \in Contestant |-> StandingOf(p, LastIn(hist[p]))]

LEMMA StandingsRows ==
  ASSUME NEW hist, \A p \in Contestant : GoodHistory(hist[p])
  PROVE  Rows(StandingsOf(hist))
<1>1. ASSUME NEW p \in Contestant
      PROVE  StandingOf(p, LastIn(hist[p])) \in Row /\ StandingOf(p, LastIn(hist[p])).player = p
  <2>1. LastPlaces(hist[p]) \in SUBSET DOMAIN hist[p]
    BY DEF LastPlaces
  <2>2. Counted(LastIn(hist[p]))
    BY <2>1, AnswersCounted DEF LastIn
  <2> QED
    BY <2>2, StandingTyped
<1> QED
  BY <1>1 DEF Rows, StandingsOf

LEMMA StandingsAre == Standings = Sorted(StandingsOf(history))
BY DEF Standings, Standing, LastAnswers, StandingsOf, LastIn, LastPlaces
-----------------------------------------------------------------------------
TotalsOf(A) ==
  [score |-> Sum(Accepted(A), Points), penalty |-> Sum(Accepted(A), Penalty),
   solved |-> Cardinality(Accepted(A))]

IInv ==
  /\ TypeOK
  /\ \A p \in Contestant : GoodHistory(history[p])
  /\ \A p \in Contestant : total[p] = TotalsOf(LastIn(history[p]))
  /\ frozen # <<>> => \E base : Rows(base) /\ frozen = Sorted(base)
  /\ status = "finished" => frozen # <<>>

LEMMA InitIInv == Init => IInv
<1> SUFFICES ASSUME Init PROVE IInv
  OBVIOUS
<1>1. \A p \in Contestant : history[p] = <<>>
  BY DEF Init
<1>2. GoodHistory(<<>>)
  BY DEF GoodHistory
<1>3. LastIn(<<>>) = {} /\ Accepted({}) = {}
  BY DEF LastIn, LastPlaces, Accepted
<1>4. TotalsOf({}) = [score |-> 0, penalty |-> 0, solved |-> 0]
  BY <1>3, NoSums DEF TotalsOf
<1>5. \A p \in Contestant : total[p] = TotalsOf(LastIn(history[p]))
  BY <1>1, <1>3, <1>4 DEF Init
<1>6. TypeOK
  BY ScoreboardAssumption DEF Init, TypeOK, Totals
<1> QED
  BY <1>1, <1>2, <1>5, <1>6 DEF IInv, Init

(* The board that a step takes, and nothing else of it.                    *)
LEMMA FreezeStep ==
  ASSUME IInv, NEW hist, \A p \in Contestant : GoodHistory(hist[p]),
         frozen' = frozen \/ frozen' = Sorted(StandingsOf(hist))
  PROVE  /\ frozen' \in Seq(Row)
         /\ frozen' # <<>> => \E base : Rows(base) /\ frozen' = Sorted(base)
BY StandingsRows, BoardTyped DEF IInv, TypeOK

LEMMA SubmitInv ==
  ASSUME IInv, NEW p \in Contestant, NEW problem \in ScoredProblem, NEW correct \in BOOLEAN,
         Submit(p, problem, correct)
  PROVE  IInv'
<1>1. PICK h : h = history[p] /\ GoodHistory(h)
  BY DEF IInv
<1>2. PICK k : k = Cardinality({i \in DOMAIN h : h[i].problem = problem}) + 1
  OBVIOUS
<1>3. k \in Nat \ {0}
  <2>1. DOMAIN h = 1 .. Len(h) /\ Len(h) \in Nat
    BY <1>1 DEF GoodHistory
  <2>2. IsFiniteSet(DOMAIN h)
    BY <2>1, FS_Interval
  <2>3. PICK P \in SUBSET DOMAIN h : P = {i \in DOMAIN h : h[i].problem = problem}
    OBVIOUS
  <2>4. Cardinality(P) \in Nat
    BY <2>2, FS_Subset, FS_CardinalityType
  <2> QED
    BY <1>2, <2>3, <2>4
<1>4. PICK s : s = [problem |-> problem, correct |-> correct, at |-> now, attempts |-> k]
  OBVIOUS
<1>5. s \in Submission /\ s.attempts # 0 /\ s.correct = correct /\ s.problem = problem
  BY <1>3, <1>4, ScoreboardAssumption DEF Submission, IInv, TypeOK
<1>6. /\ UNCHANGED <<now, status, revealed>>
      /\ history' = [history EXCEPT ![p] = Append(@, s)]
      /\ total' = [total EXCEPT ![p] =
             IF correct THEN [score |-> @.score + Points(s), penalty |-> @.penalty + Penalty(s),
                              solved |-> @.solved + 1]
             ELSE @]
      /\ FreezeWith(Standings')
      /\ \A i \in DOMAIN h : h[i].problem = s.problem => ~h[i].correct
  BY ONLY Submit(p, problem, correct), <1>1, <1>2, <1>4, <1>5 DEF Submit, Elements
<1>7. PICK g : g = Append(h, s)
  OBVIOUS
<1>8. /\ GoodHistory(g) /\ s \notin Accepted(LastIn(h))
      /\ Accepted(LastIn(g)) = Accepted(LastIn(h)) \cup (IF correct THEN {s} ELSE {})
  BY <1>1, <1>5, <1>6, <1>7, AnswerAdds
<1>9. history' = [history EXCEPT ![p] = g]
  BY <1>1, <1>6, <1>7
<1>10. g \in Seq(Submission) /\ history' \in [Contestant -> Seq(Submission)]
  BY <1>8, <1>9 DEF GoodHistory, IInv, TypeOK
<1>11. \A q \in Contestant : GoodHistory(history'[q])
  BY <1>8, <1>9 DEF IInv, TypeOK
<1>12. PICK t : t = TotalsOf(LastIn(h)) /\ t = total[p] /\ t \in Totals
  BY <1>1 DEF IInv, TypeOK
<1>13. PICK u : u = IF correct THEN [score |-> t.score + Points(s), penalty |-> t.penalty + Penalty(s),
                                     solved |-> t.solved + 1]
                    ELSE t
  OBVIOUS
<1>14. u \in Totals /\ u = TotalsOf(LastIn(g))
  <2>1. PICK S : S = Accepted(LastIn(h))
    OBVIOUS
  <2>2. t = [score |-> Sum(S, Points), penalty |-> Sum(S, Penalty), solved |-> Cardinality(S)]
    BY ONLY <1>12, <2>1 DEF TotalsOf
  <2>3. CASE correct
    <3>1. Accepted(LastIn(g)) = S \cup {s} /\ s \notin S
      BY <1>8, <2>1, <2>3
    <3>2. Counted(S \cup {s})
      <4>1. Counted(LastIn(g))
        BY <1>8, AnswersCounted DEF LastIn, LastPlaces
      <4> QED
        BY <3>1, <4>1, CountedPart DEF Accepted
    <3>3. PICK R : R = S \cup {s}
      OBVIOUS
    <3>4. /\ Sum(R, Points) = Sum(S, Points) + Points(s)
          /\ Sum(R, Penalty) = Sum(S, Penalty) + Penalty(s)
          /\ Cardinality(R) = Cardinality(S) + 1
      BY <1>5, <3>1, <3>2, <3>3, SumsAdd
    <3>5. TotalsOf(LastIn(g)) = [score |-> Sum(R, Points), penalty |-> Sum(R, Penalty), solved |-> Cardinality(R)]
      BY ONLY <3>1, <3>3 DEF TotalsOf
    <3>6. /\ u = [score |-> Sum(R, Points), penalty |-> Sum(R, Penalty), solved |-> Cardinality(R)]
          /\ t.score = Sum(S, Points) /\ t.penalty = Sum(S, Penalty) /\ t.solved = Cardinality(S)
      BY ONLY <1>13, <2>2, <2>3, <3>4
    <3>7. Points(s) \in Nat /\ Penalty(s) \in Nat
      BY <1>5, AnswerTypes
    <3>8. Sum(R, Points) \in Nat /\ Sum(R, Penalty) \in Nat /\ Cardinality(R) \in Nat
      <4>1. t.score \in Nat /\ t.penalty \in Nat /\ t.solved \in Nat
        BY ONLY <1>12 DEF Totals
      <4>2. PICK a, b, c, d, e : /\ a = Sum(S, Points) /\ b = Sum(S, Penalty) /\ c = Cardinality(S)
                                /\ d = Points(s) /\ e = Penalty(s)
        OBVIOUS
      <4>3. a \in Nat /\ b \in Nat /\ c \in Nat /\ d \in Nat /\ e \in Nat
        BY ONLY <3>6, <3>7, <4>1, <4>2, Zenon
      <4>4. Sum(R, Points) = a + d /\ Sum(R, Penalty) = b + e /\ Cardinality(R) = c + 1
        BY ONLY <3>4, <4>2, Zenon
      <4>5. a + d \in Nat /\ b + e \in Nat /\ c + 1 \in Nat
        BY ONLY <4>3
      <4> QED
        BY ONLY <4>4, <4>5, Zenon
    <3> QED
      BY <3>5, <3>6, <3>8 DEF Totals
  <2>4. CASE ~correct
    <3>1. Accepted(LastIn(g)) = Accepted(LastIn(h)) /\ u = t
      BY <1>8, <1>13, <2>4
    <3> QED
      BY <1>12, <3>1 DEF TotalsOf
  <2> QED
    BY <2>3, <2>4
<1>15. total' = [total EXCEPT ![p] = u]
  BY ONLY <1>6, <1>12, <1>13, IInv DEF IInv, TypeOK
<1>16. /\ total' \in [Contestant -> Totals]
       /\ \A q \in Contestant : total'[q] = TotalsOf(LastIn(history'[q]))
  BY <1>9, <1>14, <1>15 DEF IInv, TypeOK
<1>17. Standings' = Sorted(StandingsOf(history'))
  BY DEF Standings, Standing, LastAnswers, StandingsOf, LastIn, LastPlaces
<1>18. frozen' = frozen \/ frozen' = Sorted(StandingsOf(history'))
  BY <1>6, <1>17 DEF FreezeWith
<1>19. /\ frozen' \in Seq(Row)
       /\ frozen' # <<>> => \E base : Rows(base) /\ frozen' = Sorted(base)
  BY <1>11, <1>18, FreezeStep
<1>20. status' # "finished"
  BY <1>6 DEF Submit
<1> QED
  BY <1>6, <1>10, <1>11, <1>16, <1>19, <1>20 DEF IInv, TypeOK

LEMMA NextIInv == IInv /\ [Next]_vars => IInv'
<1> SUFFICES ASSUME IInv, [Next]_vars PROVE IInv'
  OBVIOUS
<1>1. CASE Freeze \/ Finish \/ RevealNext \/ Tick \/ UNCHANGED vars
  <2>1. UNCHANGED <<history, total>>
    BY <1>1 DEF Freeze, Finish, RevealNext, Tick, vars
  <2>2. now' \in 0 .. EndAt /\ status' \in {"playing", "finished"} /\ revealed' \in Nat
    BY <1>1, ScoreboardAssumption DEF Freeze, Finish, RevealNext, Tick, vars, IInv, TypeOK
  <2>3. frozen' = frozen \/ frozen' = Sorted(StandingsOf(history))
    BY <1>1, StandingsAre DEF Freeze, Finish, RevealNext, Tick, vars
  <2>4. /\ frozen' \in Seq(Row)
        /\ frozen' # <<>> => \E base : Rows(base) /\ frozen' = Sorted(base)
    BY <2>3, FreezeStep DEF IInv
  <2>5. status' = "finished" => frozen' # <<>>
    <3>1. Standings # <<>>
      BY StandingsAre, StandingsRows, BoardTyped DEF IInv
    <3> QED
      BY <1>1, <3>1 DEF Freeze, Finish, RevealNext, Tick, vars, IInv
  <2> QED
    BY <2>1, <2>2, <2>4, <2>5 DEF IInv, TypeOK
<1> QED
  BY <1>1, SubmitInv DEF Next

(* Histories, totals and boards stay right.                                *)
THEOREM InvariantHolds == Spec => []IInv
<1>1. IInv /\ [Next]_vars => IInv'
  BY NextIInv
<1> QED BY <1>1, InitIInv, PTL DEF Spec

(* The totals kept with a player are those derived from the last answers.  *)
THEOREM TotalsAlwaysAgree == Spec => []TotalsAgree
<1>1. IInv => TotalsAgree
  <2> SUFFICES ASSUME IInv, NEW p \in Contestant
               PROVE  total[p] = [score |-> Standing(p).score, penalty |-> Standing(p).penalty,
                                  solved |-> Standing(p).solved]
    BY DEF TotalsAgree
  <2>1. Standing(p) = StandingOf(p, LastIn(history[p]))
    BY DEF Standing, LastAnswers, LastIn, LastPlaces
  <2>2. total[p] = TotalsOf(LastIn(history[p]))
    BY DEF IInv
  <2> QED
    BY <2>1, <2>2 DEF StandingOf, TotalsOf
<1> QED BY <1>1, InvariantHolds, PTL
-----------------------------------------------------------------------------
(* Boards: every player once, nobody below somebody they are ahead of.     *)
Board(rows) ==
  /\ rows \in [Contestant -> Row]
  /\ \A p \in Contestant : \E i \in Contestant : rows[i].player = p
  /\ \A i, j \in Contestant : rows[i].player = rows[j].player => i = j

InOrder(rows) == \A i, j \in Contestant : i < j => ~Ahead(rows[j], rows[i])

LEMMA PlayerPlaces ==
  ASSUME NEW rows \in [Contestant -> Row]
  PROVE  \E f \in [Contestant -> Contestant] :
           /\ Sorted(rows) = [n \in Contestant |-> rows[f[n]]]
           /\ \A m, n \in Contestant : m < n => Before(rows, f[m], f[n]) /\ f[m] # f[n]
           /\ \A i \in Contestant : LET n == Cardinality({j \in Contestant : Before(rows, j, i)})
                                IN  n \in Contestant /\ f[n] = i
<1>1. PICK N \in Nat : Contestant = 1 .. N
  BY ScoreboardAssumption DEF Contestant
<1>2. rows \in [1 .. N -> Row]
  BY <1>1
<1>3. PICK f \in [1 .. N -> 1 .. N] :
        /\ Sorted(rows) = [n \in 1 .. N |-> rows[f[n]]]
        /\ \A m, n \in 1 .. N : m < n => Before(rows, f[m], f[n]) /\ f[m] # f[n]
        /\ \A i \in 1 .. N : LET n == Cardinality({j \in 1 .. N : Before(rows, j, i)})
                            IN  n \in 1 .. N /\ f[n] = i
  BY ONLY <1>2, N \in Nat, SortedPlaces
<1> QED
  BY ONLY <1>1, <1>3

LEMMA SortedBoard ==
  ASSUME NEW rows, Board(rows)
  PROVE  /\ Board(Sorted(rows)) /\ InOrder(Sorted(rows))
         /\ Elements(Sorted(rows)) = {rows[i] : i \in Contestant}
<1>1. rows \in [Contestant -> Row] /\ \A i \in Contestant : rows[i] \in Row
  BY DEF Board
<1>2. PICK f \in [Contestant -> Contestant] :
        /\ Sorted(rows) = [n \in Contestant |-> rows[f[n]]]
        /\ \A m, n \in Contestant : m < n => Before(rows, f[m], f[n]) /\ f[m] # f[n]
        /\ \A i \in Contestant : LET n == Cardinality({j \in Contestant : Before(rows, j, i)})
                             IN  n \in Contestant /\ f[n] = i
  BY <1>1, PlayerPlaces
<1>3. PICK b : b = Sorted(rows) /\ b \in [Contestant -> Row] /\ \A n \in Contestant : b[n] = rows[f[n]] /\ f[n] \in Contestant
  BY <1>1, <1>2
<1>4. \A m, n \in Contestant : m # n => f[m] # f[n]
  <2>1. \A m, n \in Contestant : m < n \/ n < m \/ m = n
    BY DEF Contestant
  <2> QED
    BY <1>2, <2>1
<1>5. Board(b)
  <2>1. ASSUME NEW p \in Contestant PROVE \E n \in Contestant : b[n].player = p
    <3>1. PICK i \in Contestant : rows[i].player = p
      BY DEF Board
    <3>2. PICK n \in Contestant : f[n] = i
      BY <1>2
    <3> QED
      BY <1>3, <3>1, <3>2
  <2>2. ASSUME NEW m \in Contestant, NEW n \in Contestant, b[m].player = b[n].player PROVE m = n
    <3>1. f[m] = f[n]
      BY <1>3, <2>2 DEF Board
    <3> QED
      BY <1>4, <3>1
  <2> QED
    BY <1>3, <2>1, <2>2 DEF Board
<1>6. InOrder(b)
  <2>1. ASSUME NEW m \in Contestant, NEW n \in Contestant, m < n PROVE ~Ahead(b[n], b[m])
    <3>1. Ahead(b[m], b[n]) \/ ~Ahead(b[n], b[m])
      BY <1>2, <1>3, <2>1 DEF Before
    <3>2. b[m] \in Row /\ b[n] \in Row
      BY <1>3
    <3> QED
      BY <3>1, <3>2, AheadOrder
  <2> QED
    BY <2>1 DEF InOrder
<1>7. DOMAIN b = Contestant
  BY <1>3
<1>8. Elements(b) = {rows[i] : i \in Contestant}
  <2>1. ASSUME NEW i \in Contestant PROVE rows[i] \in Elements(b)
    <3>1. PICK n \in Contestant : f[n] = i
      BY <1>2
    <3> QED
      BY <1>3, <1>7, <3>1 DEF Elements
  <2>2. ASSUME NEW n \in Contestant PROVE b[n] \in {rows[i] : i \in Contestant}
    BY <1>3
  <2> QED
    BY <1>7, <2>1, <2>2 DEF Elements
<1> QED
  BY <1>3, <1>5, <1>6, <1>8

(* One row gets better: the places below keep their rows, and it does not  *)
(* fall.                                                                   *)
LEMMA Raised ==
  ASSUME NEW b, Board(b), InOrder(b), NEW k \in Contestant, NEW r \in Row,
         r = b[k] \/ Ahead(r, b[k]),
         NEW rows \in [Contestant -> Row], rows[k] = r, \A i \in Contestant \ {k} : rows[i] = b[i]
  PROVE  /\ \A j \in Contestant : j > k => Sorted(rows)[j] = b[j]
         /\ \E n \in Contestant : n <= k /\ Sorted(rows)[n] = r
<1>1. PICK f \in [Contestant -> Contestant] :
        /\ Sorted(rows) = [n \in Contestant |-> rows[f[n]]]
        /\ \A i \in Contestant : LET n == Cardinality({j \in Contestant : Before(rows, j, i)})
                             IN  n \in Contestant /\ f[n] = i
  BY PlayerPlaces
<1>2. \A i \in Contestant : b[i] \in Row /\ rows[i] \in Row
  BY DEF Board
<1>3. PICK N \in Nat : Contestant = 1 .. N
  BY ScoreboardAssumption DEF Contestant
<1>4. ASSUME NEW i \in Contestant, NEW j \in Contestant, i < j, j > k
      PROVE  ~Ahead(rows[j], rows[i])
  <2>1. rows[j] = b[j] /\ ~Ahead(b[j], b[i])
    BY <1>3, <1>4 DEF InOrder
  <2>2. CASE i # k
    BY <2>1, <2>2
  <2>3. CASE i = k
    <3>1. ASSUME Ahead(b[j], r) PROVE FALSE
      <4>1. Ahead(r, b[k])
        BY <2>1, <2>3, <3>1
      <4>2. Ahead(b[j], b[k])
        BY <1>2, <3>1, <4>1, AheadOrder
      <4> QED
        BY <2>1, <2>3, <4>2
    <3> QED
      BY <2>1, <2>3, <3>1
  <2> QED
    BY <2>2, <2>3
<1>5. ASSUME NEW j \in Contestant, j > k PROVE Sorted(rows)[j] = b[j]
  <2>1. \A i \in Contestant : Before(rows, i, j) <=> i <= j
    <3>1. ASSUME NEW i \in Contestant, i <= j PROVE Before(rows, i, j)
      <4>1. CASE i = j
        <5>1. ~ (Ahead(rows[j], rows[j]) /\ Ahead(rows[j], rows[j]))
          BY <1>2, AheadOrder
        <5> QED
          BY <3>1, <4>1, <5>1 DEF Before
      <4>2. CASE i # j
        <5>1. i < j
          BY <1>3, <3>1, <4>2
        <5> QED
          BY <1>4, <1>5, <3>1, <5>1 DEF Before
      <4> QED
        BY <4>1, <4>2
    <3>2. ASSUME NEW i \in Contestant, ~ (i <= j) PROVE ~Before(rows, i, j)
      <4>1. j < i /\ i > k /\ j # k /\ i # k
        BY <1>3, <1>5, <3>2
      <4>2. ~Ahead(rows[i], rows[j])
        BY <1>4, <4>1
      <4> QED
        BY <3>2, <4>2 DEF Before
    <3> QED
      BY <3>1, <3>2
  <2>2. {i \in Contestant : Before(rows, i, j)} = 1 .. j
    BY <1>3, <2>1
  <2>3. Cardinality(1 .. j) = j
    BY <1>3, FS_Interval
  <2>4. f[j] = j
    BY <1>1, <2>2, <2>3
  <2>5. j # k
    BY <1>3, <1>5
  <2> QED
    BY <1>1, <2>4, <2>5
<1>6. PICK n : n = Cardinality({j \in Contestant : Before(rows, j, k)}) /\ n \in Contestant /\ f[n] = k
  BY <1>1
<1>7. n <= k
  <2>1. {j \in Contestant : Before(rows, j, k)} \subseteq 1 .. k
    <3>1. ASSUME NEW j \in Contestant, ~ (j <= k) PROVE ~Before(rows, j, k)
      <4>1. k < j /\ j > k
        BY <1>3, <3>1
      <4> QED
        BY <1>4, <3>1, <4>1 DEF Before
    <3> QED
      BY <1>3, <3>1
  <2>2. IsFiniteSet(1 .. k) /\ Cardinality(1 .. k) = k
    BY <1>3, FS_Interval
  <2> QED
    BY <1>6, <2>1, <2>2, FS_Subset
<1> QED
  BY <1>1, <1>5, <1>6, <1>7
-----------------------------------------------------------------------------
(* A row with a set of opened answers added.                               *)
WithOpened(base, S) ==
  LET accepted == Accepted(S)
  IN [player |-> base.player,
      score |-> base.score + Sum(accepted, Points),
      penalty |-> base.penalty + Sum(S, Penalty),
      solved |-> base.solved + Cardinality(accepted),
      last |-> IF accepted = {} THEN base.last
               ELSE IF base.last = None THEN LastOf(accepted)
               ELSE Max({base.last, LastOf(accepted)})]

LEMMA MaxPair ==
  ASSUME NEW a \in Nat, NEW b \in Nat
  PROVE  Max({a, b}) = IF a <= b THEN b ELSE a
<1>1. PICK m \in {a, b} : m = (IF a <= b THEN b ELSE a) /\ \A x \in {a, b} : x <= m
  OBVIOUS
<1>2. {a, b} \in SUBSET Nat
  OBVIOUS
<1> QED
  BY <1>1, <1>2, MaxIs

LEMMA OpenedTyped ==
  ASSUME NEW base \in Row, NEW S, Counted(S)
  PROVE  WithOpened(base, S) \in Row /\ WithOpened(base, S).player = base.player
<1>1. PICK A : A = Accepted(S) /\ Counted(A)
  BY CountedPart DEF Accepted
<1>2. PICK a, b, c \in Nat : a = Sum(A, Points) /\ b = Sum(S, Penalty) /\ c = Cardinality(A)
  BY <1>1, SumsOf, FS_CardinalityType DEF Counted
<1>3. PICK l \in Nat \cup {None} :
        l = IF A = {} THEN base.last ELSE IF base.last = None THEN LastOf(A) ELSE Max({base.last, LastOf(A)})
  <2>1. base.last \in Nat \cup {None}
    BY DEF Row
  <2>2. A # {} => LastOf(A) \in Nat
    BY <1>1, LastTyped
  <2>3. ASSUME A # {}, base.last # None PROVE Max({base.last, LastOf(A)}) \in Nat
    BY <2>1, <2>2, <2>3, MaxPair
  <2> QED
    BY <2>1, <2>2, <2>3
<1>4. WithOpened(base, S) = [player |-> base.player, score |-> base.score + a, penalty |-> base.penalty + b,
                             solved |-> base.solved + c, last |-> l]
  BY ONLY <1>1, <1>2, <1>3 DEF WithOpened
<1>5. base.player \in Contestant /\ base.score \in Nat /\ base.penalty \in Nat /\ base.solved \in Nat
  BY DEF Row
<1>6. base.score + a \in Nat /\ base.penalty + b \in Nat /\ base.solved + c \in Nat
  BY <1>5
<1> QED
  BY <1>4, <1>5, <1>6 DEF Row

LEMMA OpenedNone ==
  ASSUME NEW base \in Row
  PROVE  WithOpened(base, {}) = base
<1>1. Accepted({}) = {}
  BY DEF Accepted
<1>2. Sum({}, Points) = 0 /\ Sum({}, Penalty) = 0 /\ Cardinality({}) = 0
  BY NoSums, FS_EmptySet
<1>3. base = [player |-> base.player, score |-> base.score, penalty |-> base.penalty,
              solved |-> base.solved, last |-> base.last]
      /\ base.score \in Nat /\ base.penalty \in Nat /\ base.solved \in Nat
  BY DEF Row
<1>4. WithOpened(base, {}) = [player |-> base.player, score |-> base.score + 0, penalty |-> base.penalty + 0,
                              solved |-> base.solved + 0, last |-> base.last]
  BY ONLY <1>1, <1>2 DEF WithOpened
<1> QED
  BY <1>3, <1>4

(* An opened answer leaves the row as it is or puts it ahead.              *)
LEMMA OpenedMore ==
  ASSUME NEW base \in Row, NEW S, NEW s \in Submission, Counted(S \cup {s})
  PROVE  \/ WithOpened(base, S \cup {s}) = WithOpened(base, S)
         \/ Ahead(WithOpened(base, S \cup {s}), WithOpened(base, S))
<1>1. CASE s \in S
  <2>1. S \cup {s} = S
    BY <1>1
  <2> QED
    BY <2>1
<1>2. CASE s \notin S /\ ~s.correct
  <2>1. PICK T : T = S \cup {s} /\ Accepted(T) = Accepted(S)
    BY <1>2 DEF Accepted
  <2>2. Sum(T, Penalty) = Sum(S, Penalty) + Penalty(s)
    BY <1>2, <2>1, SumsAdd
  <2>3. Penalty(s) = 0
    BY <1>2 DEF Penalty
  <2>4. Sum(S, Penalty) \in Nat
    BY SumsOf, CountedPart
  <2>5. Sum(T, Penalty) = Sum(S, Penalty)
    BY ONLY <2>2, <2>3, <2>4
  <2>6. WithOpened(base, T) = WithOpened(base, S)
    BY ONLY <2>1, <2>5, Zenon DEF WithOpened
  <2> QED
    BY <2>1, <2>6
<1>3. CASE s \notin S /\ s.correct
  <2>1. PICK A : A = Accepted(S) /\ s \notin A /\ Accepted(S \cup {s}) = A \cup {s}
    <3>1. s \notin Accepted(S)
      BY <1>3 DEF Accepted
    <3>2. Accepted(S \cup {s}) = Accepted(S) \cup {s}
      BY <1>3 DEF Accepted
    <3> QED
      BY <3>1, <3>2
  <2>2. Counted(A \cup {s}) /\ Counted(A)
    BY <2>1, CountedPart DEF Accepted
  <2>3. Sum(A \cup {s}, Points) = Sum(A, Points) + Points(s)
    BY <2>1, <2>2, SumsAdd
  <2>4. Points(s) \in Nat \ {0}
    BY AnswerTypes DEF Counted
  <2>5. Sum(A, Points) \in Nat
    BY <2>2, SumsOf
  <2>6. PICK a, b, c \in Nat : a = base.score /\ b = Sum(A, Points) /\ c = Points(s) /\ c # 0
    <3>1. base.score \in Nat /\ Sum(A, Points) \in Nat /\ Points(s) \in Nat /\ Points(s) # 0
      BY <2>4, <2>5 DEF Row
    <3> QED
      BY ONLY <3>1, Zenon
  <2>7. WithOpened(base, S \cup {s}).score = a + (b + c) /\ WithOpened(base, S).score = a + b
    BY ONLY <2>1, <2>3, <2>6 DEF WithOpened
  <2>8. \A x, y, z \in Nat : z # 0 => x + (y + z) > x + y
    OBVIOUS
  <2> QED
    BY <2>6, <2>7, <2>8 DEF Ahead
<1> QED
  BY <1>1, <1>2, <1>3

(* Wrong answers cost nothing by themselves.                               *)
LEMMA WrongFree ==
  ASSUME NEW S, Counted(S)
  PROVE  Sum(S, Penalty) = Sum(Accepted(S), Penalty)
<1> DEFINE B == {T \in SUBSET S : Sum(T, Penalty) # Sum(Accepted(T), Penalty)}
<1> SUFFICES ASSUME B # {} PROVE FALSE
  OBVIOUS
<1>1. PICK T \in B : \A V \in B : V \subseteq T => V = T
  <2>1. B \subseteq SUBSET S /\ IsFiniteSet(S)
    BY DEF Counted
  <2> HIDE DEF B
  <2> QED
    BY <2>1, SmallestSet
<1>2. T \in SUBSET S /\ Sum(T, Penalty) # Sum(Accepted(T), Penalty)
  OBVIOUS
<1>3. PICK s \in T : ~s.correct
  BY <1>2 DEF Accepted
<1>4. PICK U \in SUBSET S : U = T \ {s} /\ U \cup {s} = T /\ s \notin U /\ Accepted(U) = Accepted(T) /\ U \notin B
  <2>1. T \ {s} \in SUBSET S /\ (T \ {s}) \cup {s} = T /\ Accepted(T \ {s}) = Accepted(T)
    BY <1>3 DEF Accepted
  <2>2. T \ {s} # T /\ T \ {s} \subseteq T
    OBVIOUS
  <2> HIDE DEF B
  <2>3. T \ {s} \notin B
    BY <1>1, <2>2
  <2> QED
    BY <2>1, <2>3
<1>5. Counted(U \cup {s}) /\ Counted(U) /\ s \in Submission
  BY <1>4, CountedPart DEF Counted
<1>6. Sum(T, Penalty) = Sum(U, Penalty) + Penalty(s)
  <2>1. U \cup {s} = T /\ s \notin U
    BY <1>4
  <2>2. Sum(U \cup {s}, Penalty) = Sum(U, Penalty) + Penalty(s)
    BY ONLY <1>5, <2>1, SumsAdd, Zenon
  <2> QED
    BY ONLY <2>1, <2>2, Zenon
<1>7. Penalty(s) = 0 /\ Sum(U, Penalty) \in Nat
  BY <1>3, <1>5, SumsOf DEF Penalty
<1>8. Sum(T, Penalty) = Sum(U, Penalty)
  BY ONLY <1>6, <1>7
<1>9. Sum(U, Penalty) = Sum(Accepted(U), Penalty)
  BY <1>4
<1> QED
  BY ONLY <1>2, <1>4, <1>8, <1>9
-----------------------------------------------------------------------------
(* The sealed answers of a player.                                         *)
Late(h) == {i \in DOMAIN h : h[i].at > FreezeAt}

LEMMA SealedList ==
  ASSUME IInv, NEW p \in Contestant
  PROVE  /\ Len(Sealed(p)) \in Nat
         /\ \A i \in 1 .. Len(Sealed(p)) : Sealed(p)[i] \in Submission /\ Sealed(p)[i].attempts # 0
         /\ {Sealed(p)[i] : i \in 1 .. Len(Sealed(p))} = {history[p][i] : i \in Late(history[p])}
<1>1. PICK h : h = history[p] /\ GoodHistory(h)
  BY DEF IInv
<1>2. PICK P : P = Late(h) /\ P \in SUBSET DOMAIN h
  BY DEF Late
<1>3. DOMAIN h = 1 .. Len(h) /\ Len(h) \in Nat
  BY <1>1 DEF GoodHistory
<1>4. P \in SUBSET Nat /\ IsFiniteSet(P)
  <2>1. IsFiniteSet(DOMAIN h)
    BY <1>3, FS_Interval
  <2> QED
    BY <1>2, <1>3, <2>1, FS_Subset
<1>5. Sealed(p) = At(h, P)
  BY <1>1, <1>2 DEF Sealed, Late
<1>6. PICK N \in Nat : N = Cardinality(P)
  BY <1>4, FS_CardinalityType
<1>7. PICK f \in [1 .. N -> P] :
        /\ At(h, P) = [n \in 1 .. N |-> h[f[n]]]
        /\ \A i \in P : \E n \in 1 .. N : f[n] = i
  <2>1. PICK f \in [1 .. Cardinality(P) -> P] :
          /\ At(h, P) = [n \in 1 .. Cardinality(P) |-> h[f[n]]]
          /\ \A i \in P : \E n \in 1 .. Cardinality(P) : f[n] = i
    <3>1. \E f \in [1 .. Cardinality(P) -> P] :
            /\ At(h, P) = [n \in 1 .. Cardinality(P) |-> h[f[n]]]
            /\ \A m, n \in 1 .. Cardinality(P) : m < n => f[m] < f[n]
            /\ \A i \in P : \E n \in 1 .. Cardinality(P) : f[n] = i
      BY ONLY <1>4, AtPlaces, SMTT(30)
    <3> QED
      BY ONLY <3>1, Zenon
  <2> QED
    BY ONLY <1>6, <2>1, Zenon
<1>8. \A i \in P : h[i] \in Submission /\ h[i].attempts # 0
  BY <1>1, <1>2, <1>3 DEF GoodHistory
<1>9. PICK g : g = Sealed(p) /\ g \in [1 .. N -> Submission] /\ \A n \in 1 .. N : g[n] = h[f[n]] /\ f[n] \in P
  <2>1. PICK g : g = [n \in 1 .. N |-> h[f[n]]]
    OBVIOUS
  <2>2. g = Sealed(p)
    BY ONLY <1>5, <1>7, <2>1
  <2>3. \A n \in 1 .. N : g[n] = h[f[n]] /\ f[n] \in P
    BY ONLY <2>1, f \in [1 .. N -> P]
  <2>4. g \in [1 .. N -> Submission]
    BY ONLY <1>8, <2>1, <2>3
  <2> QED
    BY ONLY <2>2, <2>3, <2>4, Zenon
<1>10. g \in Seq(Submission) /\ Len(g) = N
  BY <1>6, <1>9, SeqDef, LenProperties
<1>11. {g[i] : i \in 1 .. N} = {h[i] : i \in P}
  <2>1. ASSUME NEW i \in P PROVE h[i] \in {g[n] : n \in 1 .. N}
    <3>1. PICK n \in 1 .. N : f[n] = i
      BY <1>7
    <3> QED
      BY <1>9, <3>1
  <2>2. ASSUME NEW n \in 1 .. N PROVE g[n] \in {h[i] : i \in P}
    BY <1>9
  <2> QED
    BY <2>1, <2>2
<1>12. \A n \in 1 .. N : g[n] \in Submission /\ g[n].attempts # 0
  BY <1>8, <1>9
<1>13. Len(Sealed(p)) = N /\ {history[p][i] : i \in Late(history[p])} = {h[i] : i \in P}
  BY ONLY <1>1, <1>2, <1>9, <1>10
<1> QED
  BY ONLY <1>9, <1>11, <1>12, <1>13

Lens == [p \in Contestant |-> Len(Sealed(p))]

Opened(p, n) == {Sealed(p)[i] : i \in 1 .. n}

LEMMA OpenedCounted ==
  ASSUME IInv, NEW p \in Contestant, NEW n \in Nat, n <= Lens[p]
  PROVE  Counted(Opened(p, n))
<1>1. PICK g : g = Sealed(p) /\ Len(g) \in Nat /\ \A i \in 1 .. Len(g) : g[i] \in Submission /\ g[i].attempts # 0
  BY SealedList
<1>2. n <= Len(g)
  BY <1>1 DEF Lens
<1>3. PICK f : f = [i \in 1 .. n |-> g[i]]
  OBVIOUS
<1>4. PICK S : S = Opened(p, n) /\ S = {g[i] : i \in 1 .. n}
  BY <1>1 DEF Opened
<1>5. f \in Surjection(1 .. n, S)
  BY <1>3, <1>4 DEF Surjection
<1>6. IsFiniteSet(1 .. n)
  BY FS_Interval
<1>7. IsFiniteSet(S)
  BY <1>5, <1>6, FS_Surjection
<1>8. \A i \in 1 .. n : i \in 1 .. Len(g)
  BY <1>1, <1>2
<1> QED
  BY <1>1, <1>4, <1>7, <1>8 DEF Counted

(* The board of the freeze, and the row on it of each player.              *)
LEMMA FrozenBoard ==
  ASSUME IInv, frozen # <<>>
  PROVE  /\ Board(frozen) /\ DOMAIN frozen = Contestant
         /\ \A p \in Contestant : /\ FrozenRow(p) \in Elements(frozen) /\ FrozenRow(p).player = p
                              /\ \A row \in Elements(frozen) : row.player = p => row = FrozenRow(p)
<1>1. PICK base : Rows(base) /\ frozen = Sorted(base)
  BY DEF IInv
<1>2. Board(base)
  BY <1>1 DEF Rows, Board
<1>3. Board(frozen)
  BY <1>1, <1>2, SortedBoard
<1>4. DOMAIN frozen = Contestant
  BY <1>3 DEF Board
<1>5. ASSUME NEW p \in Contestant
      PROVE  /\ FrozenRow(p) \in Elements(frozen) /\ FrozenRow(p).player = p
             /\ \A row \in Elements(frozen) : row.player = p => row = FrozenRow(p)
  <2>1. PICK i \in Contestant : frozen[i].player = p
    BY <1>3 DEF Board
  <2>2. frozen[i] \in Elements(frozen)
    BY <1>4 DEF Elements
  <2>3. ASSUME NEW row \in Elements(frozen), row.player = p PROVE row = frozen[i]
    <3>1. PICK j \in Contestant : row = frozen[j]
      BY <1>4 DEF Elements
    <3>2. j = i
      BY <1>3, <2>1, <2>3, <3>1 DEF Board
    <3> QED
      BY <3>1, <3>2
  <2>4. FrozenRow(p) = frozen[i]
    BY <2>1, <2>2, <2>3 DEF FrozenRow
  <2> QED
    BY <2>1, <2>2, <2>3, <2>4
<1> QED
  BY <1>3, <1>4, <1>5

Opening(open) == open \in [Contestant -> Nat] /\ \A p \in Contestant : open[p] <= Lens[p]

LEMMA PartialRow ==
  ASSUME IInv, frozen # <<>>, NEW open, Opening(open), NEW p \in Contestant
  PROVE  /\ FrozenRow(p) \in Row
         /\ Partial(p, open) = WithOpened(FrozenRow(p), Opened(p, open[p]))
         /\ Partial(p, open) \in Row /\ Partial(p, open).player = p
<1>1. FrozenRow(p) \in Row /\ FrozenRow(p).player = p
  BY FrozenBoard DEF Board, Elements
<1>2. Counted(Opened(p, open[p]))
  BY OpenedCounted DEF Opening
<1>3. Partial(p, open) = WithOpened(FrozenRow(p), Opened(p, open[p]))
  BY ONLY <1>1 DEF Partial, WithOpened, Opened
<1> QED
  BY <1>1, <1>2, <1>3, OpenedTyped

(* Opening one more answer of a player.                                    *)
LEMMA PartialGrows ==
  ASSUME IInv, frozen # <<>>, NEW open, Opening(open), NEW more, Opening(more),
         NEW p \in Contestant, more[p] = open[p] + 1
  PROVE  Partial(p, more) = Partial(p, open) \/ Ahead(Partial(p, more), Partial(p, open))
<1>1. PICK n \in Nat : n = open[p] /\ n + 1 = more[p] /\ n + 1 <= Lens[p]
  BY DEF Opening
<1>0. n + 1 \in Nat
  OBVIOUS
<1>2. PICK S, s : S = Opened(p, n) /\ s = Sealed(p)[n + 1]
  OBVIOUS
<1>3. Opened(p, n + 1) = S \cup {s}
  <2>1. 1 .. n + 1 = (1 .. n) \cup {n + 1}
    BY <1>1
  <2> QED
    BY <1>2, <2>1 DEF Opened
<1>4. Counted(S \cup {s}) /\ s \in Submission
  <2>1. Counted(Opened(p, n + 1))
    BY <1>0, <1>1, OpenedCounted
  <2>2. Counted(S \cup {s})
    BY ONLY <1>3, <2>1, Zenon
  <2> QED
    BY <2>2 DEF Counted
<1>5. Partial(p, more) = WithOpened(FrozenRow(p), S \cup {s}) /\ Partial(p, open) = WithOpened(FrozenRow(p), S)
      /\ FrozenRow(p) \in Row
  <2>1. /\ Partial(p, more) = WithOpened(FrozenRow(p), Opened(p, more[p]))
        /\ Partial(p, open) = WithOpened(FrozenRow(p), Opened(p, open[p]))
        /\ FrozenRow(p) \in Row
    BY PartialRow
  <2> QED
    BY ONLY <1>1, <1>2, <1>3, <2>1, Zenon
<1> QED
  BY <1>4, <1>5, OpenedMore
-----------------------------------------------------------------------------
LEMMA PlayersFinite == IsFiniteSet(Contestant)
<1>1. PICK N \in Nat : Contestant = 1 .. N
  BY ScoreboardAssumption DEF Contestant
<1> QED
  BY <1>1, FS_Interval

LEMMA SealedSum ==
  ASSUME NEW S, IsFiniteSet(S), NEW g, \A p \in S : g[p] = Len(Sealed(p))
  PROVE  Sum(S, LAMBDA p : Len(Sealed(p))) = Total(g, S)
<1> DEFINE P(h) == h = [s \in SUBSET S |-> IF s = {} THEN 0 ELSE Len(Sealed(Some(s))) + h[s \ {Some(s)}]]
<1>1. \A s \in SUBSET S : s # {} => Some(s) \in S /\ g[Some(s)] = Len(Sealed(Some(s)))
  BY DEF Some
<1>2. \A h : P(h) <=> Sums(h, g, S)
  BY <1>1 DEF Sums
<1>3. \E h : P(h)
  BY <1>2, SumExists
<1>4. PICK c : c = CHOOSE h : P(h)
  OBVIOUS
<1>5. P(c)
  BY <1>3, <1>4
<1>6. Sum(S, LAMBDA p : Len(Sealed(p))) = c[S]
  BY <1>4 DEF Sum, MapThenSumSet, MapThenFoldSet, Some
<1>7. PICK d : Sums(d, g, S) /\ Total(g, S) = d[S]
  BY TotalIs
<1> HIDE DEF P
<1>8. S \in SUBSET S
  OBVIOUS
<1>9. c[S] = d[S]
  BY <1>2, <1>5, <1>7, <1>8, SumAgree
<1> QED
  BY <1>6, <1>7, <1>9

LEMMA RevealTotalIs ==
  ASSUME IInv, frozen # <<>>
  PROVE  RevealTotal = Total(Lens, Contestant) /\ RevealTotal \in Nat
<1>1. {row.player : row \in Elements(frozen)} = Contestant
  <2>1. DOMAIN frozen = Contestant /\ Board(frozen)
    BY FrozenBoard
  <2>2. ASSUME NEW p \in Contestant PROVE p \in {row.player : row \in Elements(frozen)}
    <3>1. PICK i \in Contestant : frozen[i].player = p
      BY <2>1 DEF Board
    <3> QED
      BY <2>1, <3>1 DEF Elements
  <2>3. ASSUME NEW row \in Elements(frozen) PROVE row.player \in Contestant
    BY <2>1, <2>3 DEF Elements, Board, Row
  <2> QED
    BY <2>2, <2>3
<1>2. \A p \in Contestant : Lens[p] = Len(Sealed(p)) /\ Lens[p] \in Nat
  BY SealedList DEF Lens
<1>3. Sum(Contestant, LAMBDA p : Len(Sealed(p))) = Total(Lens, Contestant)
  BY <1>2, PlayersFinite, SealedSum
<1>4. RevealTotal = Sum(Contestant, LAMBDA p : Len(Sealed(p)))
  BY <1>1 DEF RevealTotal
<1> QED
  BY <1>2, <1>3, <1>4, PlayersFinite, TotalType
-----------------------------------------------------------------------------
(* The steps of a reveal exist: there is a list of every length.           *)
FirstState == [board |-> Sorted(frozen), open |-> [p \in Contestant |-> 0], event |-> None]

StepsTo(step, m) == step = [n \in 0 .. m |-> IF n = 0 THEN FirstState ELSE OpenNext(step[n - 1])]

LEMMA StepsExist ==
  ASSUME NEW m \in Nat
  PROVE  \E step : StepsTo(step, m)
<1> DEFINE B == {b \in Nat : ~ \E step : StepsTo(step, b)}
<1> SUFFICES ASSUME B # {} PROVE FALSE
  OBVIOUS
<1>1. PICK b \in B : \A c \in B : b <= c
  <2>1. B \subseteq Nat
    OBVIOUS
  <2> HIDE DEF B
  <2> QED
    BY <2>1, LeastNumber
<1>2. b \in Nat /\ ~ \E step : StepsTo(step, b)
  OBVIOUS
<1>3. b # 0
  <2>1. ASSUME b = 0 PROVE FALSE
    <3>1. PICK step : step = [n \in 0 .. 0 |-> FirstState]
      OBVIOUS
    <3>2. step = [n \in 0 .. 0 |-> IF n = 0 THEN FirstState ELSE OpenNext(step[n - 1])]
      BY <3>1
    <3> QED
      BY <1>2, <2>1, <3>2 DEF StepsTo
  <2> QED
    BY <2>1
<1>4. b - 1 \in Nat /\ ~ (b <= b - 1)
  BY <1>2, <1>3
<1>5. b - 1 \notin B
  BY <1>1, <1>4
<1>6. PICK old : StepsTo(old, b - 1)
  BY <1>4, <1>5
<1> HIDE DEF B
<1>7. PICK step : step = [n \in 0 .. b |-> IF n = b THEN OpenNext(old[b - 1]) ELSE old[n]]
  OBVIOUS
<1>8. \A n \in 0 .. b - 1 : old[n] = IF n = 0 THEN FirstState ELSE OpenNext(old[n - 1])
  BY <1>6 DEF StepsTo
<1>9. ASSUME NEW n \in 0 .. b
      PROVE  step[n] = IF n = 0 THEN FirstState ELSE OpenNext(step[n - 1])
  <2>1. CASE n = b
    <3>1. b - 1 \in 0 .. b /\ b - 1 # b
      BY <1>2, <1>4
    <3> QED
      BY <1>3, <1>7, <2>1, <3>1
  <2>2. CASE n # b
    <3>1. n \in 0 .. b - 1 /\ (n # 0 => n - 1 \in 0 .. b /\ n - 1 # b)
      BY <1>2, <2>2
    <3> QED
      BY <1>7, <1>8, <2>2, <3>1
  <2> QED
    BY <2>1, <2>2
<1>10. step = [n \in 0 .. b |-> step[n]]
  BY <1>7
<1>11. step = [n \in 0 .. b |-> IF n = 0 THEN FirstState ELSE OpenNext(step[n - 1])]
  BY ONLY <1>9, <1>10
<1> QED
  BY <1>2, <1>11 DEF StepsTo

LEMMA StepsAre ==
  ASSUME RevealTotal \in Nat
  PROVE  /\ RevealSteps[0] = FirstState
         /\ \A n \in 1 .. RevealTotal : RevealSteps[n] = OpenNext(RevealSteps[n - 1])
<1>1. RevealSteps = CHOOSE step : StepsTo(step, RevealTotal)
  BY DEF RevealSteps, StepsTo, FirstState
<1>2. StepsTo(RevealSteps, RevealTotal)
  BY <1>1, StepsExist
<1>3. PICK step, m : step = RevealSteps /\ m = RevealTotal /\ m \in Nat
  OBVIOUS
<1>4. step = [n \in 0 .. m |-> IF n = 0 THEN FirstState ELSE OpenNext(step[n - 1])]
  BY ONLY <1>2, <1>3 DEF StepsTo
<1>5. step[0] = FirstState
  BY <1>3, <1>4
<1>6. \A n \in 1 .. m : step[n] = OpenNext(step[n - 1])
  BY <1>3, <1>4
<1> QED
  BY <1>3, <1>5, <1>6

(* A state of the reveal with n answers open.                              *)
Good(state, n) ==
  /\ Opening(state.open) /\ Total(state.open, Contestant) = n
  /\ Board(state.board) /\ InOrder(state.board)
  /\ \A i \in Contestant : state.board[i] = Partial(state.board[i].player, state.open)

LEMMA FirstGood ==
  ASSUME IInv, frozen # <<>>
  PROVE  Good(FirstState, 0)
<1>1. PICK open : open = [p \in Contestant |-> 0]
  OBVIOUS
<1>2. PICK board : board = Sorted(frozen)
  OBVIOUS
<1>3. FirstState.open = open /\ FirstState.board = board
  BY <1>1, <1>2 DEF FirstState
<1>4. \A p \in Contestant : Lens[p] \in Nat
  BY SealedList DEF Lens
<1>5. Opening(open)
  BY <1>1, <1>4 DEF Opening
<1>6. Total(open, Contestant) = 0
  <2> DEFINE B == {U \in SUBSET Contestant : Total(open, U) # 0}
  <2> SUFFICES ASSUME B # {} PROVE FALSE
    OBVIOUS
  <2>1. PICK U \in B : \A V \in B : V \subseteq U => V = U
    <3>1. B \subseteq SUBSET Contestant
      OBVIOUS
    <3> HIDE DEF B
    <3> QED
      BY <3>1, PlayersFinite, SmallestSet
  <2>2. U \in SUBSET Contestant /\ Total(open, U) # 0
    OBVIOUS
  <2>3. PICK x \in U : TRUE
    BY <2>2, TotalEmpty
  <2>4. Total(open, U \ {x}) = 0
    <3>1. U \ {x} # U /\ U \ {x} \subseteq U /\ U \ {x} \in SUBSET Contestant
      BY <2>2
    <3>2. U \ {x} \notin B
      <4> HIDE DEF B
      <4> QED
        BY <2>1, <3>1
    <3> QED
      BY <3>1, <3>2
  <2>5. IsFiniteSet(U) /\ (\A y \in U : open[y] \in Nat) /\ open[x] = 0
    BY <1>1, <2>2, PlayersFinite, FS_Subset
  <2>6. Total(open, U) = open[x] + Total(open, U \ {x})
    BY ONLY <2>5, x \in U, TotalAdd
  <2> QED
    BY ONLY <2>2, <2>4, <2>5, <2>6
<1>7. Board(frozen) /\ DOMAIN frozen = Contestant
  BY FrozenBoard
<1>8. Board(board) /\ InOrder(board) /\ Elements(board) = {frozen[i] : i \in Contestant}
  BY <1>2, <1>7, SortedBoard
<1>9. ASSUME NEW i \in Contestant PROVE board[i] = Partial(board[i].player, open)
  <2>1. board[i] \in Elements(frozen) /\ board[i].player \in Contestant
    <3>1. board[i] \in Elements(board) /\ board[i] \in Row
      BY <1>8 DEF Board, Elements
    <3> QED
      BY <1>7, <1>8, <3>1 DEF Elements, Row
  <2>2. PICK p \in Contestant : p = board[i].player /\ FrozenRow(p) = board[i]
    BY <2>1, FrozenBoard
  <2>3. Partial(p, open) = WithOpened(FrozenRow(p), Opened(p, open[p])) /\ FrozenRow(p) \in Row
    BY <1>5, PartialRow
  <2>4. Opened(p, open[p]) = {}
    BY <1>1 DEF Opened
  <2> QED
    BY <2>2, <2>3, <2>4, OpenedNone
<1> QED
  BY <1>3, <1>5, <1>6, <1>8, <1>9 DEF Good

(* While something is left, a step opens one more answer of the lowest     *)
(* player with something left: nobody below moves, and it does not fall.   *)
LEMMA GoodStep ==
  ASSUME IInv, frozen # <<>>, NEW n \in Nat, n < RevealTotal, NEW state, Good(state, n)
  PROVE  \E k \in Contestant :
           /\ OpenNext(state).event = state.board[k].player
           /\ \A i \in Contestant : i > k => state.open[state.board[i].player] = Lens[state.board[i].player]
           /\ Good(OpenNext(state), n + 1)
           /\ state.open[state.board[k].player] < Lens[state.board[k].player]
           /\ \A q \in Contestant : q # state.board[k].player => OpenNext(state).open[q] = state.open[q]
           /\ \A j \in Contestant : j > k => OpenNext(state).board[j] = state.board[j]
           /\ \E m \in Contestant : m <= k /\ OpenNext(state).board[m].player = state.board[k].player
<1>1. PICK open, board : open = state.open /\ board = state.board
  OBVIOUS
<1>2. /\ Opening(open) /\ Total(open, Contestant) = n
      /\ Board(board) /\ InOrder(board) /\ DOMAIN board = Contestant
      /\ \A i \in Contestant : board[i] \in Row /\ board[i].player \in Contestant
                           /\ board[i] = Partial(board[i].player, open)
  BY <1>1 DEF Good, Board, Row
<1>3. \A p \in Contestant : /\ Lens[p] = Len(Sealed(p)) /\ Lens[p] \in Nat /\ open[p] \in Nat
                        /\ open[p] <= Lens[p]
  BY <1>2, SealedList DEF Lens, Opening
<1>4. PICK N \in Nat : Contestant = 1 .. N
  BY ScoreboardAssumption DEF Contestant
<1>5. PICK U \in SUBSET Contestant : U = {i \in Contestant : Unopened(board[i].player, open)}
  OBVIOUS
<1>6. U # {}
  <2>1. ASSUME \A p \in Contestant : open[p] = Lens[p] PROVE FALSE
    <3>1. Total(open, Contestant) = Total(Lens, Contestant)
      BY <2>1, PlayersFinite, TotalSame
    <3> QED
      BY <1>2, <3>1, RevealTotalIs
  <2>2. PICK p \in Contestant : open[p] < Lens[p]
    BY <1>3, <2>1
  <2>3. PICK i \in Contestant : board[i].player = p
    BY <1>2 DEF Board
  <2> QED
    BY <1>3, <1>5, <2>2, <2>3 DEF Unopened
<1>7. PICK k \in Contestant : k = Max(U) /\ k \in U /\ \A i \in U : i <= k
  <2>1. IsFiniteSet(U)
    BY PlayersFinite, FS_Subset
  <2>2. U \in SUBSET Nat
    BY <1>4
  <2> QED
    BY <1>6, <2>1, <2>2, MaxMember
<1>8. PICK p \in Contestant : p = board[k].player /\ open[p] < Lens[p] /\ p = Bottom(board, open)
  <2>1. Bottom(board, open) = board[k].player
    BY ONLY <1>2, <1>5, <1>7 DEF Bottom
  <2> QED
    BY <1>2, <1>3, <1>5, <1>7, <2>1 DEF Unopened
<1>9. \A i \in Contestant : i > k => open[board[i].player] = Lens[board[i].player]
  <2>1. ASSUME NEW i \in Contestant, i > k PROVE open[board[i].player] = Lens[board[i].player]
    <3>1. PICK q \in Contestant : q = board[i].player
      BY <1>2
    <3>2. ~Unopened(q, open)
      BY <1>4, <1>5, <1>7, <2>1, <3>1
    <3>3. ~ (open[q] < Lens[q]) /\ open[q] <= Lens[q] /\ open[q] \in Nat /\ Lens[q] \in Nat
      BY <1>3, <3>2 DEF Unopened
    <3> QED
      BY ONLY <3>1, <3>3
  <2> QED
    BY <2>1
<1>10. PICK more : more = [open EXCEPT ![p] = @ + 1]
  OBVIOUS
<1>11. /\ Opening(more) /\ more[p] = open[p] + 1
       /\ \A q \in Contestant \ {p} : more[q] = open[q]
  BY <1>2, <1>3, <1>8, <1>10 DEF Opening
<1>12. Total(more, Contestant) = n + 1
  BY <1>2, <1>3, <1>11, PlayersFinite, TotalChange
<1>13. PICK rows : rows = [i \in Contestant |-> Partial(board[i].player, more)]
  OBVIOUS
<1>14. \A i \in Contestant : rows[i] = Partial(board[i].player, more) /\ rows[i] \in Row
                        /\ rows[i].player = board[i].player
  BY <1>2, <1>11, <1>13, PartialRow
<1>15. \A i \in Contestant \ {k} : rows[i] = board[i]
  <2>1. ASSUME NEW i \in Contestant \ {k} PROVE rows[i] = board[i]
    <3>1. PICK q \in Contestant : q = board[i].player /\ q # p
      <4>1. \A a, b \in Contestant : board[a].player = board[b].player => a = b
        BY ONLY <1>2 DEF Board
      <4> QED
        BY <1>2, <1>8, <4>1
    <3>2. more[q] = open[q]
      BY <1>11, <3>1
    <3>3. Partial(q, more) = Partial(q, open)
      BY <1>2, <1>11, <3>2, PartialRow
    <3> QED
      BY <1>2, <1>14, <3>1, <3>3
  <2> QED
    BY <2>1
<1>16. rows[k] = board[k] \/ Ahead(rows[k], board[k])
  <2>1. Partial(p, more) = Partial(p, open) \/ Ahead(Partial(p, more), Partial(p, open))
    BY <1>2, <1>11, PartialGrows
  <2> QED
    BY <1>2, <1>8, <1>14, <2>1
<1>17. rows \in [Contestant -> Row] /\ Board(rows)
  <2>1. rows \in [Contestant -> Row]
    BY <1>13, <1>14
  <2>2. /\ \A q \in Contestant : \E i \in Contestant : board[i].player = q
        /\ \A i, j \in Contestant : board[i].player = board[j].player => i = j
    BY ONLY <1>2 DEF Board
  <2>3. \A i \in Contestant : rows[i].player = board[i].player
    BY <1>14
  <2> QED
    BY ONLY <2>1, <2>2, <2>3 DEF Board
<1>18. PICK next : next = Sorted(rows) /\ Board(next) /\ InOrder(next) /\ Elements(next) = {rows[i] : i \in Contestant}
  BY <1>17, SortedBoard
<1>19. OpenNext(state) = [open |-> more, event |-> p, board |-> next]
  <2>1. OpenNext(state) = [open |-> more, event |-> p,
                           board |-> Sorted([i \in DOMAIN board |-> Partial(board[i].player, more)])]
    BY ONLY <1>1, <1>8, <1>10 DEF OpenNext
  <2> QED
    BY ONLY <1>2, <1>13, <1>18, <2>1
<1>20. /\ \A j \in Contestant : j > k => next[j] = board[j]
       /\ \E m \in Contestant : m <= k /\ next[m] = rows[k]
  <2>1. rows[k] \in Row
    BY <1>14
  <2> QED
    BY <1>2, <1>15, <1>16, <1>17, <1>18, <2>1, Raised
<1>21. \A i \in Contestant : next[i] = Partial(next[i].player, more)
  <2>1. ASSUME NEW i \in Contestant PROVE next[i] = Partial(next[i].player, more)
    <3>1. next[i] \in Elements(next)
      BY <1>18 DEF Board, Elements
    <3>2. PICK j \in Contestant : next[i] = rows[j]
      BY <1>18, <3>1
    <3> QED
      BY <1>14, <3>2
  <2> QED
    BY <2>1
<1>22. Good(OpenNext(state), n + 1)
  BY <1>11, <1>12, <1>18, <1>19, <1>21 DEF Good
<1>23. OpenNext(state).event = p /\ OpenNext(state).open = more /\ OpenNext(state).board = next
  BY ONLY <1>19
<1>24. PICK m \in Contestant : m <= k /\ next[m].player = p
  <2>1. PICK m \in Contestant : m <= k /\ next[m] = rows[k]
    BY <1>20
  <2> QED
    BY <1>8, <1>14, <2>1
<1>25. \A q \in Contestant : q # p => more[q] = open[q]
  BY <1>11
<1>26. /\ OpenNext(state).event = state.board[k].player
       /\ \A i \in Contestant : i > k => state.open[state.board[i].player] = Lens[state.board[i].player]
       /\ state.open[state.board[k].player] < Lens[state.board[k].player]
  BY ONLY <1>1, <1>8, <1>9, <1>23, Zenon
<1>27. \A q \in Contestant : q # state.board[k].player => OpenNext(state).open[q] = state.open[q]
  BY ONLY <1>1, <1>8, <1>23, <1>25, Zenon
<1>28. \A j \in Contestant : j > k => OpenNext(state).board[j] = state.board[j]
  BY ONLY <1>1, <1>20, <1>23, Zenon
<1>29. \E l \in Contestant : l <= k /\ OpenNext(state).board[l].player = state.board[k].player
  BY ONLY <1>1, <1>8, <1>23, <1>24, Zenon
<1> QED
  BY <1>22, <1>26, <1>27, <1>28, <1>29, Zenon

LEMMA AllGood ==
  ASSUME IInv, frozen # <<>>, NEW n \in 0 .. RevealTotal
  PROVE  Good(RevealSteps[n], n)
<1>1. RevealTotal \in Nat
  BY RevealTotalIs
<1> DEFINE B == {b \in 0 .. RevealTotal : ~Good(RevealSteps[b], b)}
<1> SUFFICES ASSUME B # {} PROVE FALSE
  OBVIOUS
<1>2. PICK b \in B : \A c \in B : b <= c
  <2>1. B \subseteq Nat
    BY <1>1
  <2> HIDE DEF B
  <2> QED
    BY <2>1, LeastNumber
<1>3. b \in 0 .. RevealTotal /\ ~Good(RevealSteps[b], b)
  OBVIOUS
<1>4. b # 0
  BY <1>1, <1>3, StepsAre, FirstGood
<1>5. PICK a \in Nat : b = a + 1 /\ a < RevealTotal /\ a \in 0 .. RevealTotal /\ ~ (b <= a)
  <2>1. b - 1 \in Nat /\ b = (b - 1) + 1 /\ b - 1 < RevealTotal /\ b - 1 \in 0 .. RevealTotal /\ ~ (b <= b - 1)
    BY <1>1, <1>3, <1>4
  <2> QED
    BY <2>1
<1>6. a \notin B
  BY <1>2, <1>5
<1>7. Good(RevealSteps[a], a)
  BY <1>5, <1>6
<1>8. RevealSteps[b] = OpenNext(RevealSteps[a])
  <2>1. b \in 1 .. RevealTotal /\ b - 1 = a
    BY <1>1, <1>3, <1>5
  <2> QED
    BY <1>1, <2>1, StepsAre
<1>9. Good(OpenNext(RevealSteps[a]), a + 1)
  BY <1>5, <1>7, GoodStep
<1> QED
  BY <1>3, <1>5, <1>8, <1>9

(* Places whose players have nothing left stay as they are.                *)
Settled(a, k, b) ==
  \A j \in Contestant : j > k =>
    /\ RevealSteps[b].board[j] = RevealSteps[a].board[j]
    /\ RevealSteps[b].open[RevealSteps[a].board[j].player] = Lens[RevealSteps[a].board[j].player]

LEMMA StaySettled ==
  ASSUME IInv, frozen # <<>>, NEW a \in 0 .. RevealTotal, NEW k \in Contestant, Settled(a, k, a),
         NEW b \in a .. RevealTotal
  PROVE  Settled(a, k, b)
<1>1. RevealTotal \in Nat
  BY RevealTotalIs
<1> DEFINE B == {c \in a .. RevealTotal : ~Settled(a, k, c)}
<1> SUFFICES ASSUME B # {} PROVE FALSE
  OBVIOUS
<1>2. PICK c \in B : \A d \in B : c <= d
  <2>1. B \subseteq Nat
    BY <1>1
  <2> HIDE DEF B
  <2> QED
    BY <2>1, LeastNumber
<1>3. c \in a .. RevealTotal /\ ~Settled(a, k, c)
  OBVIOUS
<1>4. c # a
  BY <1>3
<1>5. PICK d \in Nat : c = d + 1 /\ d < RevealTotal /\ d \in a .. RevealTotal /\ ~ (c <= d) /\ d \in 0 .. RevealTotal
  <2>1. c - 1 \in Nat /\ c = (c - 1) + 1 /\ c - 1 < RevealTotal /\ c - 1 \in a .. RevealTotal
        /\ ~ (c <= c - 1) /\ c - 1 \in 0 .. RevealTotal
    BY <1>1, <1>3, <1>4
  <2> QED
    BY <2>1
<1>6. d \notin B
  BY <1>2, <1>5
<1>7. Settled(a, k, d)
  BY <1>5, <1>6
<1> HIDE DEF B
<1>8. PICK old : old = RevealSteps[d] /\ Good(old, d)
  BY <1>5, AllGood
<1>9. PICK new : new = OpenNext(old) /\ new = RevealSteps[c]
  <2>1. c \in 1 .. RevealTotal /\ c - 1 = d
    BY <1>1, <1>3, <1>5
  <2>2. RevealSteps[c] = OpenNext(RevealSteps[d])
    BY <1>1, <2>1, StepsAre
  <2> QED
    BY <1>8, <2>2
<1>10. PICK l \in Contestant :
         /\ \A i \in Contestant : i > l => old.open[old.board[i].player] = Lens[old.board[i].player]
         /\ \A q \in Contestant : q # old.board[l].player => new.open[q] = old.open[q]
         /\ \A j \in Contestant : j > l => new.board[j] = old.board[j]
         /\ old.open[old.board[l].player] < Lens[old.board[l].player]
  <2>1. Good(old, d) /\ d < RevealTotal /\ d \in Nat /\ new = OpenNext(old)
    BY <1>5, <1>8, <1>9
  <2> QED
    BY ONLY IInv, frozen # <<>>, <2>1, GoodStep
<1>11. PICK first : first = RevealSteps[a].board
  OBVIOUS
<1>12. \A j \in Contestant : j > k => old.board[j] = first[j] /\ old.open[first[j].player] = Lens[first[j].player]
  BY ONLY <1>7, <1>8, <1>11 DEF Settled
<1>13. /\ old.board \in [Contestant -> Row]
       /\ \A i, j \in Contestant : old.board[i].player = old.board[j].player => i = j
  BY ONLY <1>8 DEF Good, Board
<1>14. \A p \in Contestant : Lens[p] \in Nat
  BY SealedList DEF Lens
<1>15. l <= k
  <2>1. PICK N \in Nat : Contestant = 1 .. N
    BY ScoreboardAssumption DEF Contestant
  <2>2. ASSUME l > k PROVE FALSE
    <3>1. PICK q \in Contestant : q = old.board[l].player
      BY <1>13 DEF Row
    <3>2. old.open[q] = Lens[q] /\ old.open[q] < Lens[q]
      BY <1>10, <1>12, <2>2, <3>1
    <3> QED
      BY <1>14, <3>2
  <2> QED
    BY <2>1, <2>2
<1>16. ASSUME NEW j \in Contestant, j > k
       PROVE  new.board[j] = first[j] /\ new.open[first[j].player] = Lens[first[j].player]
  <2>1. j > l /\ j # l
    <3>1. PICK N \in Nat : Contestant = 1 .. N
      BY ScoreboardAssumption DEF Contestant
    <3> QED
      BY <1>15, <1>16, <3>1
  <2>2. PICK q \in Contestant : q = old.board[j].player /\ q # old.board[l].player /\ q = first[j].player
    <3>1. old.board[j] \in Row /\ old.board[l] \in Row
      BY ONLY <1>13, j \in Contestant, l \in Contestant
    <3>2. old.board[j].player \in Contestant
      BY <3>1 DEF Row
    <3>3. old.board[j].player # old.board[l].player
      BY ONLY <1>13, <2>1, j \in Contestant, l \in Contestant
    <3>4. old.board[j] = first[j]
      BY <1>12, <1>16
    <3> QED
      BY ONLY <3>2, <3>3, <3>4, Zenon
  <2>3. new.open[q] = old.open[q] /\ old.open[q] = Lens[q]
    BY <1>10, <1>12, <1>16, <2>2
  <2>4. new.board[j] = first[j]
    BY <1>10, <1>12, <1>16, <2>1
  <2> QED
    BY <2>2, <2>3, <2>4
<1> QED
  BY <1>3, <1>9, <1>11, <1>16 DEF Settled

(* Whoever stands below the place being opened has reached the final place *)
(* and row, and whoever is opened does not fall.                           *)
LEMMA FromBelow ==
  ASSUME IInv
  PROVE  RevealFromBelow
<1> SUFFICES ASSUME status = "finished", NEW n \in 1 .. RevealTotal
             PROVE  LET before == RevealSteps[n - 1].board
                        place  == PlaceOf(RevealSteps[n].event, before)
                    IN /\ PlaceOf(RevealSteps[n].event, RevealSteps[n].board) <= place
                       /\ \A j \in DOMAIN before : j > place => before[j] = RevealSteps[RevealTotal].board[j]
  BY DEF RevealFromBelow
<1>1. frozen # <<>> /\ RevealTotal \in Nat
  BY RevealTotalIs DEF IInv
<1>2. PICK a \in 0 .. RevealTotal : a = n - 1 /\ a < RevealTotal /\ a \in Nat /\ n = a + 1
  BY <1>1
<1>3. PICK old, new : old = RevealSteps[a] /\ new = RevealSteps[n] /\ new = OpenNext(old) /\ Good(old, a)
  <2>1. RevealSteps[n] = OpenNext(RevealSteps[a])
    BY <1>1, <1>2, StepsAre
  <2> QED
    BY <1>1, <2>1, AllGood
<1>4. PICK k \in Contestant :
        /\ new.event = old.board[k].player
        /\ \A i \in Contestant : i > k => old.open[old.board[i].player] = Lens[old.board[i].player]
        /\ Good(new, n)
        /\ \E m \in Contestant : m <= k /\ new.board[m].player = old.board[k].player
  BY <1>1, <1>2, <1>3, GoodStep
<1>5. PICK m \in Contestant : m <= k /\ new.board[m].player = old.board[k].player
  BY <1>4
<1>6. \A state, c : Good(state, c) =>
        \A i \in Contestant : DOMAIN state.board = Contestant /\ PlaceOf(state.board[i].player, state.board) = i
  <2>1. ASSUME NEW state, NEW c, Good(state, c), NEW i \in Contestant
        PROVE  DOMAIN state.board = Contestant /\ PlaceOf(state.board[i].player, state.board) = i
    <3>1. /\ DOMAIN state.board = Contestant
          /\ \A j \in Contestant : state.board[j].player = state.board[i].player => j = i
      BY ONLY <2>1, i \in Contestant DEF Good, Board
    <3> QED
      BY <3>1 DEF PlaceOf
  <2> QED
    BY <2>1
<1>7. PlaceOf(new.event, old.board) = k /\ PlaceOf(new.event, new.board) = m /\ DOMAIN old.board = Contestant
  BY <1>3, <1>4, <1>5, <1>6
<1>8. Settled(a, k, a)
  BY <1>3, <1>4 DEF Settled
<1>9. Settled(a, k, RevealTotal)
  BY <1>1, <1>2, <1>8, StaySettled
<1>10. \A j \in Contestant : j > k => old.board[j] = RevealSteps[RevealTotal].board[j]
  BY <1>3, <1>9 DEF Settled
<1> QED
  BY <1>2, <1>3, <1>5, <1>7, <1>10
-----------------------------------------------------------------------------
(* The answers of the freeze and the sealed ones make up the result.       *)
OnTime(h) == {s \in LastIn(h) : s.at <= FreezeAt}

Sealeds(h) == {h[i] : i \in Late(h)}

LEMMA SplitAnswers ==
  ASSUME NEW h, GoodHistory(h)
  PROVE  /\ Counted(OnTime(h)) /\ Counted(Sealeds(h))
         /\ Accepted(OnTime(h)) \cup Accepted(Sealeds(h)) = Accepted(LastIn(h))
         /\ Accepted(OnTime(h)) \cap Accepted(Sealeds(h)) = {}
<1>1. PICK n \in Nat : DOMAIN h = 1 .. n
  BY DEF GoodHistory
<1>2. \A i \in 1 .. n : h[i] \in Submission /\ h[i].at \in Nat
  <2>1. \A i \in 1 .. n : h[i] \in Submission
    BY <1>1 DEF GoodHistory
  <2>2. \A s \in Submission : s.at \in Nat
    BY DEF Submission
  <2> QED
    BY <2>1, <2>2
<1>3. Counted(OnTime(h)) /\ Counted(Sealeds(h))
  <2>1. Counted(LastIn(h))
    BY AnswersCounted DEF LastIn, LastPlaces
  <2>2. Counted(Sealeds(h))
    BY AnswersCounted DEF Sealeds, Late
  <2> QED
    BY <2>1, <2>2, CountedPart DEF OnTime
<1>4. \A s : s \in LastIn(h) => \E i \in 1 .. n : s = h[i]
  BY <1>1 DEF LastIn, LastPlaces
<1>5. \A i \in 1 .. n : h[i].correct => h[i] \in LastIn(h)
  <2>1. ASSUME NEW i \in 1 .. n, h[i].correct PROVE i \in LastPlaces(h)
    <3>1. \A k \in 1 .. n : k > i => h[k].problem # h[i].problem
      BY <1>1, <2>1 DEF GoodHistory
    <3> QED
      BY <1>1, <3>1 DEF LastPlaces
  <2> QED
    BY <2>1 DEF LastIn
<1>6. \A s : s \in Sealeds(h) <=> \E i \in 1 .. n : s = h[i] /\ s.at > FreezeAt
  BY <1>1 DEF Sealeds, Late
<1>7. FreezeAt \in Nat
  BY ScoreboardAssumption
<1>8. ASSUME NEW s \in Accepted(LastIn(h)) PROVE s \in Accepted(OnTime(h)) \cup Accepted(Sealeds(h))
  <2>1. PICK i \in 1 .. n : s = h[i] /\ s.correct /\ s \in LastIn(h) /\ s.at \in Nat
    BY <1>2, <1>4, <1>8 DEF Accepted
  <2>2. s.at <= FreezeAt \/ s.at > FreezeAt
    BY <1>7, <2>1
  <2> QED
    BY <1>6, <2>1, <2>2 DEF OnTime, Accepted
<1>9. Accepted(OnTime(h)) \subseteq Accepted(LastIn(h)) /\ Accepted(Sealeds(h)) \subseteq Accepted(LastIn(h))
  BY <1>5, <1>6 DEF OnTime, Accepted
<1>10. ASSUME NEW s, s \in Accepted(OnTime(h)), s \in Accepted(Sealeds(h)) PROVE FALSE
  <2>1. s.at <= FreezeAt /\ s.at > FreezeAt /\ s.at \in Nat
    BY <1>2, <1>6, <1>10 DEF OnTime, Accepted
  <2> QED
    BY <1>7, <2>1
<1> QED
  BY <1>3, <1>8, <1>9, <1>10

LEMMA WholeRow ==
  ASSUME NEW h, GoodHistory(h), NEW p \in Contestant
  PROVE  WithOpened(StandingOf(p, OnTime(h)), Sealeds(h)) = StandingOf(p, LastIn(h))
<1>1. PICK E, L : E = Accepted(OnTime(h)) /\ L = Accepted(Sealeds(h))
  OBVIOUS
<1>2. Counted(E) /\ Counted(L) /\ E \cap L = {} /\ Accepted(LastIn(h)) = E \cup L
  BY <1>1, SplitAnswers, CountedPart DEF Accepted
<1>3. /\ Sum(E \cup L, Points) = Sum(E, Points) + Sum(L, Points)
      /\ Sum(E \cup L, Penalty) = Sum(E, Penalty) + Sum(L, Penalty)
      /\ Cardinality(E \cup L) = Cardinality(E) + Cardinality(L)
  BY <1>2, SumsUnion
<1>4. Sum(Sealeds(h), Penalty) = Sum(L, Penalty)
  BY <1>1, SplitAnswers, WrongFree
<1>5. PICK base : base = StandingOf(p, OnTime(h))
                  /\ base = [player |-> p, score |-> Sum(E, Points), penalty |-> Sum(E, Penalty),
                             solved |-> Cardinality(E), last |-> LastOf(E)]
  BY ONLY <1>1 DEF StandingOf
<1>6. LastOf(E \cup L) = IF L = {} THEN LastOf(E) ELSE IF LastOf(E) = None THEN LastOf(L)
                         ELSE Max({LastOf(E), LastOf(L)})
  <2>1. CASE L = {}
    <3>1. E \cup L = E
      BY <2>1
    <3> QED
      BY <2>1, <3>1
  <2>2. CASE L # {} /\ E = {}
    <3>1. E \cup L = L /\ LastOf(E) = None
      BY <2>2 DEF LastOf
    <3> QED
      BY <2>2, <3>1
  <2>3. CASE L # {} /\ E # {}
    <3>1. LastOf(E) # None
      BY <1>2, <2>3, LastTyped, ScoreboardAssumption
    <3> QED
      BY <1>2, <2>3, <3>1, LastUnion
  <2> QED
    BY <2>1, <2>2, <2>3
<1>7. WithOpened(base, Sealeds(h)) =
        [player |-> p, score |-> Sum(E, Points) + Sum(L, Points), penalty |-> Sum(E, Penalty) + Sum(L, Penalty),
         solved |-> Cardinality(E) + Cardinality(L),
         last |-> IF L = {} THEN LastOf(E) ELSE IF LastOf(E) = None THEN LastOf(L)
                  ELSE Max({LastOf(E), LastOf(L)})]
  BY ONLY <1>1, <1>4, <1>5 DEF WithOpened
<1>8. StandingOf(p, LastIn(h)) =
        [player |-> p, score |-> Sum(E \cup L, Points), penalty |-> Sum(E \cup L, Penalty),
         solved |-> Cardinality(E \cup L), last |-> LastOf(E \cup L)]
  BY ONLY <1>2 DEF StandingOf
<1> QED
  BY ONLY <1>3, <1>5, <1>6, <1>7, <1>8, Zenon

(* A board that is the one of the freeze leads to the real result.         *)
LEMMA PromptResult ==
  ASSUME IInv
  PROVE  PromptBoardShowsResult
<1> SUFFICES ASSUME BoardOfTheFreeze, status = "finished"
             PROVE  Elements(RevealSteps[RevealTotal].board) = Elements(Standings)
  BY DEF PromptBoardShowsResult, RevealShowsResult
<1>1. frozen # <<>> /\ RevealTotal \in Nat /\ RevealTotal = Total(Lens, Contestant)
  BY RevealTotalIs DEF IInv
<1>2. PICK board, open : /\ board = RevealSteps[RevealTotal].board /\ Board(board) /\ Opening(open)
                         /\ Total(open, Contestant) = RevealTotal
                         /\ \A i \in Contestant : board[i] = Partial(board[i].player, open)
  <2>1. RevealTotal \in 0 .. RevealTotal
    BY <1>1
  <2>2. Good(RevealSteps[RevealTotal], RevealTotal)
    BY <1>1, <2>1, AllGood
  <2> QED
    BY <2>2 DEF Good
<1>3. ASSUME NEW p \in Contestant PROVE open[p] = Lens[p]
  <2>1. \A q \in Contestant : open[q] \in Nat /\ Lens[q] \in Nat /\ open[q] <= Lens[q]
    BY <1>2, SealedList DEF Opening, Lens
  <2>2. ASSUME open[p] # Lens[p] PROVE FALSE
    <3>1. open[p] < Lens[p]
      BY <2>1, <2>2
    <3>2. Total(open, Contestant) < Total(Lens, Contestant)
      BY <2>1, <3>1, PlayersFinite, TotalLess
    <3> QED
      BY <1>1, <1>2, <3>2
  <2> QED
    BY <2>2
<1>4. ASSUME NEW p \in Contestant PROVE Partial(p, open) = StandingOf(p, LastIn(history[p]))
  <2>1. GoodHistory(history[p])
    BY DEF IInv
  <2>2. Opened(p, open[p]) = Sealeds(history[p])
    <3>1. {Sealed(p)[i] : i \in 1 .. Len(Sealed(p))} = {history[p][i] : i \in Late(history[p])}
      BY SealedList
    <3>2. open[p] = Len(Sealed(p))
      BY <1>3 DEF Lens
    <3> QED
      BY ONLY <3>1, <3>2 DEF Opened, Sealeds
  <2>3. FrozenRow(p) = StandingOf(p, OnTime(history[p]))
    <3>1. Elements(frozen) = {StandingOf(q, OnTime(history[q])) : q \in Contestant}
      BY DEF BoardOfTheFreeze, OnTime, LastIn, LastPlaces, LastAnswers
    <3>2. StandingOf(p, OnTime(history[p])).player = p
      BY DEF StandingOf
    <3> QED
      BY <1>1, <3>1, <3>2, FrozenBoard
  <2>4. Partial(p, open) = WithOpened(FrozenRow(p), Opened(p, open[p]))
    BY <1>1, <1>2, PartialRow
  <2> QED
    BY <2>1, <2>2, <2>3, <2>4, WholeRow
<1>5. Elements(board) = {StandingOf(p, LastIn(history[p])) : p \in Contestant}
  <2>1. DOMAIN board = Contestant /\ \A i \in Contestant : board[i].player \in Contestant
    BY <1>2 DEF Board, Row
  <2>2. ASSUME NEW i \in Contestant PROVE board[i] \in {StandingOf(p, LastIn(history[p])) : p \in Contestant}
    <3>1. PICK p \in Contestant : p = board[i].player
      BY <2>1
    <3>2. board[i] = Partial(p, open)
      BY <1>2, <3>1
    <3> QED
      BY <1>4, <3>2
  <2>3. ASSUME NEW p \in Contestant PROVE StandingOf(p, LastIn(history[p])) \in Elements(board)
    <3>1. PICK i \in Contestant : board[i].player = p
      BY <1>2 DEF Board
    <3>2. board[i] = Partial(p, open)
      BY <1>2, <3>1
    <3> QED
      BY <1>4, <2>1, <3>2 DEF Elements
  <2>4. Elements(board) = {board[i] : i \in Contestant}
    BY <2>1 DEF Elements
  <2> QED
    BY <2>2, <2>3, <2>4
<1>6. Elements(Standings) = {StandingOf(p, LastIn(history[p])) : p \in Contestant}
  <2>1. PICK rows : rows = StandingsOf(history)
    OBVIOUS
  <2>2. Board(rows)
    BY <2>1, StandingsRows DEF IInv, Rows, Board
  <2>3. Elements(Sorted(rows)) = {rows[i] : i \in Contestant}
    BY <2>2, SortedBoard
  <2>4. \A p \in Contestant : rows[p] = StandingOf(p, LastIn(history[p]))
    BY <2>1 DEF StandingsOf
  <2>5. Standings = Sorted(rows)
    BY <2>1, StandingsAre
  <2>6. {rows[i] : i \in Contestant} = {StandingOf(p, LastIn(history[p])) : p \in Contestant}
    BY ONLY <2>4, Zenon
  <2> QED
    BY ONLY <2>3, <2>5, <2>6
<1> QED
  BY <1>2, <1>5, <1>6
-----------------------------------------------------------------------------
(* The reveal settles the board from below.                                *)
THEOREM RevealAlwaysFromBelow == Spec => []RevealFromBelow
<1>1. IInv => RevealFromBelow
  BY FromBelow
<1> QED BY <1>1, InvariantHolds, PTL

(* A board that is the one of the freeze is revealed to the real result.   *)
THEOREM PromptBoardsShowResult == Spec => []PromptBoardShowsResult
<1>1. IInv => PromptBoardShowsResult
  BY PromptResult
<1> QED BY <1>1, InvariantHolds, PTL
=============================================================================
