------------------------------- MODULE Items -------------------------------
(***************************************************************************)
(* Items and effects of one playing room (server/items.ts, item:use and    *)
(* answer:submit in server/index.ts, the dock of components/arena).  A     *)
(* right answer may be paid in items, three wrong ones in a row cost a     *)
(* weak effect, an item puts an effect on another player until it expires, *)
(* and the maintenance timer turns expired effects into short notices.     *)
(*                                                                         *)
(* Time is kept as the ticks that an effect, a notice or a cooldown has    *)
(* left, so that a run may last for ever.  Every handler runs alone: the   *)
(* room's lock is RoomStore's subject.                                     *)
(***************************************************************************)
EXTENDS Naturals, SequencesExt

CONSTANTS
  Player, Problem,
  Opponent,   \* items with target "opponent", blocked while active
  Advice,     \* the item with target "eligibleUnsolved", refreshed while active
  Weak,       \* what randomWeakDebuff picks from
  Hardest,    \* problems of difficulty 5
  Choice,     \* problems with answerKind "choice", answered once
  Locking,    \* effects under which no answer is taken: penLock and slowInput
  Duration,   \* ticks an effect lasts
  Notice,     \* EXPIRED_EFFECT_NOTICE_MS in ticks
  Cooldown,   \* item -> ticks before its owner may use it again
  Unset,
  Answerable  \* bound: the <<player, problem, right or wrong>> that may be answered

Item == Opponent \cup {Advice}

(* isItemId tells an item's effect from a weak one.                        *)
ASSUME ItemsAssumption ==
  /\ Weak \cap Item = {} /\ Unset \notin Player
  /\ {Duration, Notice} \subseteq Nat \ {0} /\ Cooldown \in [Item -> Nat]

VARIABLES
  roomStatus, \* playing or finished
  solved,     \* player -> problems answered correctly, oldest first
  wrong,      \* player -> problems with a wrong answer
  row,        \* consecutiveWrong
  inventory,  \* player -> item -> how many
  readyIn,    \* player -> item -> ticks of itemCooldowns left
  effects,    \* player -> effects, gone or not, that no cleanup has seen expired
  expired     \* player -> expiredEffects

itemVars == <<roomStatus, solved, wrong, row, inventory, readyIn, effects, expired>>

Effect == [id : Item \cup Weak, left : 0 .. Duration, from : Player \cup {Unset},
           problem : Problem \cup {Unset}]

ItemsTypeOK ==
  /\ roomStatus \in {"playing", "finished"}
  /\ solved \in [Player -> Seq(Problem)] /\ wrong \in [Player -> SUBSET Problem]
  /\ row \in [Player -> 0 .. 2]
  /\ inventory \in [Player -> [Item -> Nat]]
  /\ readyIn \in [Player -> [Item -> Nat]]
  /\ effects \in [Player -> SUBSET Effect]
  /\ expired \in [Player -> SUBSET [id : Item, left : 0 .. Notice]]

ItemsInit ==
  /\ roomStatus = "playing"
  /\ solved = [p \in Player |-> <<>>] /\ wrong = [p \in Player |-> {}]
  /\ row = [p \in Player |-> 0]
  /\ inventory = [p \in Player |-> [i \in Item |-> 0]]
  /\ readyIn = [p \in Player |-> [i \in Item |-> 0]]
  /\ effects = [p \in Player |-> {}]
  /\ expired = [p \in Player |-> {}]

Less(n) == IF n = 0 THEN 0 ELSE n - 1

(* findAdviceNoteProblem: what the sender solved and the target has not,   *)
(* the newest of them.                                                     *)
Notes(sender, target) == ToSet(solved[sender]) \ ToSet(solved[target])
NewestNote(sender, target) ==
  LET Open == {k \in DOMAIN solved[sender] : solved[sender][k] \in Notes(sender, target)}
  IN  solved[sender][CHOOSE k \in Open : \A other \in Open : other <= k]

Active(target, i) == {e \in effects[target] : e.id = i /\ e.left > 0}

(* Faulty variant: an item may be used on a target that still suffers it.  *)
TargetUnchecked(i, sender, target) ==
  /\ sender # target
  /\ i = Advice => Notes(sender, target) # {}

ValidateItemTarget(i, sender, target) ==
  /\ sender # target
  /\ i = Advice => Notes(sender, target) # {}
  /\ i \in Opponent => Active(target, i) = {}

(* Faulty variant: a refreshed note keeps the name of its first sender.    *)
KeptSender(i, sender, target) ==
  LET old == Active(target, i)
      new == [id |-> i, left |-> Duration, from |-> sender,
              problem |-> IF i = Advice THEN NewestNote(sender, target) ELSE Unset]
  IN  IF old = {} THEN effects[target] \cup {new}
      ELSE (effects[target] \ old) \cup {[new EXCEPT !.from = e.from] : e \in old}

(* Faulty variant: a refreshed effect is added to the running one.         *)
AppliedBeside(i, sender, target) ==
  effects[target] \cup
    {[id |-> i, left |-> Duration, from |-> sender,
      problem |-> IF i = Advice THEN NewestNote(sender, target) ELSE Unset]}

(* What the target's effects become: an active one of the same item is     *)
(* written over, label, sender, expiry and note alike.                     *)
Applied(i, sender, target) ==
  (effects[target] \ Active(target, i)) \cup
    {[id |-> i, left |-> Duration, from |-> sender,
      problem |-> IF i = Advice THEN NewestNote(sender, target) ELSE Unset]}

MayUse(sender, i, target) ==
  /\ inventory[sender][i] > 0
  /\ readyIn[sender][i] = 0
  /\ ValidateItemTarget(i, sender, target)

(* item:use.                                                               *)
UseItem(sender, i, target) ==
  /\ roomStatus = "playing"
  /\ MayUse(sender, i, target)
  /\ effects' = [effects EXCEPT ![target] = Applied(i, sender, target)]
  /\ inventory' = [inventory EXCEPT ![sender][i] = @ - 1]
  /\ readyIn' = [readyIn EXCEPT ![sender][i] = Cooldown[i]]
  /\ expired' = [expired EXCEPT ![target] = {n \in @ : n.id # i}]
  /\ UNCHANGED <<roomStatus, solved, wrong, row>>

(* maybeAwardItems: at most one item by chance, and a second one for a     *)
(* first try at a problem of the highest difficulty.                       *)
Awards(p, q) ==
  LET second == IF q \in Hardest /\ q \notin wrong[p] THEN 2 ELSE 1
  IN  UNION {[1 .. n -> Item] : n \in 0 .. second}

(* answer:submit takes an answer to a problem that the player has not      *)
(* solved, a second one only to a problem without choices, and none while  *)
(* the player's pen is taken away.                                         *)
MayAnswer(p, q) ==
  /\ roomStatus = "playing"
  /\ q \notin ToSet(solved[p])
  /\ q \in Choice => q \notin wrong[p]
  /\ \A i \in Locking : Active(p, i) = {}

AnswerRight(p, q) ==
  /\ MayAnswer(p, q)
  /\ solved' = [solved EXCEPT ![p] = Append(@, q)]
  /\ row' = [row EXCEPT ![p] = 0]
  /\ \E won \in Awards(p, q) :
       inventory' = [inventory EXCEPT ![p] =
                       [i \in Item |-> @[i] + Cardinality({k \in DOMAIN won : won[k] = i})]]
  /\ UNCHANGED <<roomStatus, wrong, readyIn, effects, expired>>

WeakDebuff(w) == [id |-> w, left |-> Duration, from |-> Unset, problem |-> Unset]

AnswerWrong(p, q) ==
  /\ MayAnswer(p, q)
  /\ wrong' = [wrong EXCEPT ![p] = @ \cup {q}]
  /\ row' = [row EXCEPT ![p] = (@ + 1) % 3]
  /\ IF row[p] = 2
     THEN \E w \in Weak : effects' = [effects EXCEPT ![p] = @ \cup {WeakDebuff(w)}]
     ELSE UNCHANGED effects
  /\ UNCHANGED <<roomStatus, solved, inventory, readyIn, expired>>

(* Faulty variant: the expired notices are put on the player afresh at     *)
(* every cleanup.                                                          *)
NoticeForEver(p) ==
  expired[p] \cup {[id |-> e.id, left |-> Notice] : e \in {x \in effects[p] : x.left = 0 /\ x.id \in Item}}

(* The notices that a cleanup leaves: those of the item effects that it    *)
(* finds expired, and the older ones that are still short enough.          *)
Noticed(p) ==
  {n \in expired[p] : n.left > 0} \cup
    {[id |-> e.id, left |-> Notice] : e \in {x \in effects[p] : x.left = 0 /\ x.id \in Item}}

(* cleanupEffects, once a second for every room, whatever its status.      *)
CleanupEffects ==
  /\ effects' = [p \in Player |-> {e \in effects[p] : e.left > 0}]
  /\ expired' = [p \in Player |-> Noticed(p)]
  /\ UNCHANGED <<roomStatus, solved, wrong, row, inventory, readyIn>>

FinishPlay ==
  /\ roomStatus = "playing"
  /\ roomStatus' = "finished"
  /\ UNCHANGED <<solved, wrong, row, inventory, readyIn, effects, expired>>

(* The clock.                                                              *)
PassTime ==
  /\ \E p \in Player : \/ \E e \in effects[p] : e.left > 0
                       \/ \E n \in expired[p] : n.left > 0
                       \/ \E i \in Item : readyIn[p][i] > 0
  /\ effects' = [p \in Player |-> {[e EXCEPT !.left = Less(@)] : e \in effects[p]}]
  /\ expired' = [p \in Player |-> {[n EXCEPT !.left = Less(@)] : n \in expired[p]}]
  /\ readyIn' = [p \in Player |-> [i \in Item |-> Less(readyIn[p][i])]]
  /\ UNCHANGED <<roomStatus, solved, wrong, row, inventory>>

ItemsNext ==
  \/ \E p \in Player, q \in Problem : <<p, q, TRUE>> \in Answerable /\ AnswerRight(p, q)
  \/ \E p \in Player, q \in Problem : <<p, q, FALSE>> \in Answerable /\ AnswerWrong(p, q)
  \/ \E p, t \in Player, i \in Item : UseItem(p, i, t)
  \/ CleanupEffects
  \/ FinishPlay
  \/ PassTime

ItemsFairness == WF_itemVars(PassTime) /\ WF_itemVars(CleanupEffects)

ItemsSpec     == ItemsInit /\ [][ItemsNext]_itemVars
ItemsFairSpec == ItemsSpec /\ ItemsFairness

-----------------------------------------------------------------------------
(* What a player's screen offers: the dock an item for a target, unless it *)
(* is blocked by cooldown, for the sender itself, without a solved problem *)
(* that the target misses or while the same effect runs; and the answer    *)
(* panel an answer, unless the input is locked.                            *)
ActiveOnScreen(p) == {e.id : e \in {x \in effects[p] : x.left > 0}}

DockOffers(i, sender, target) ==
  /\ inventory[sender][i] > 0
  /\ readyIn[sender][i] = 0
  /\ sender # target
  /\ i = Advice => \E q \in ToSet(solved[sender]) : q \notin ToSet(solved[target])
  /\ i \in Opponent => i \notin ActiveOnScreen(target)

PanelOffers(p, q) ==
  /\ ActiveOnScreen(p) \cap Locking = {}
  /\ q \in Choice => q \notin wrong[p] \cup ToSet(solved[p])

(* Typing and Enter, as far as they do not go through the panel.           *)
KeysOffer(p, q) ==
  IF ActiveOnScreen(p) \cap Locking # {} THEN FALSE
  ELSE q \in Choice => \A s \in wrong[p] \cup ToSet(solved[p]) : s # q

(* On the same room the screens and the server agree about every item, and *)
(* the panel never holds an answer back that the server would take: no     *)
(* player is kept from a move that is allowed.  (The panel does offer a    *)
(* solved problem without choices again, which the server refuses.)        *)
ScreenAgreesWithServer ==
  roomStatus = "playing" =>
    /\ \A i \in Item, sender, target \in Player :
         DockOffers(i, sender, target) <=> MayUse(sender, i, target)
    /\ \A p \in Player, q \in Problem :
         /\ MayAnswer(p, q) => PanelOffers(p, q)
         /\ PanelOffers(p, q) <=> KeysOffer(p, q)

(* No item is active twice on one player: a second one is refused or       *)
(* written over the first, even when cleanup lags behind the clock.        *)
OneActiveEffect ==
  \A p \in Player, i \in Item : Cardinality(Active(p, i)) <= 1

(* A note that a player sees is about a problem that the player named on   *)
(* it really solved, also after another player's note was written over it. *)
NotesAreTrue ==
  \A p \in Player : \A e \in Active(p, Advice) :
    e.from # p /\ e.problem \in ToSet(solved[e.from])

Shown(p, i) == (\E e \in effects[p] : e.id = i) \/ (\E n \in expired[p] : n.id = i)

(* Whatever is thrown at a player ends, even when the exam is over: the    *)
(* problems can be solved once and so the items run out, and then some     *)
(* cleanup leaves neither an effect nor a notice of one.                   *)
EffectsEnd == <>[](\A p \in Player, i \in Item : ~Shown(p, i))
=============================================================================
