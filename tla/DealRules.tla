------------------------------ MODULE DealRules ------------------------------
(***************************************************************************)
(* One deal of bardak as a value, and what may be asked about it.          *)
(*                                                                         *)
(* The program keeps a deal in one immutable value (DealState); a command  *)
(* produces the next value.  This module has that value, the queries on it *)
(* and the rules: who may attack, defend, transfer and pass, to whom the   *)
(* right to attack moves, and who may hang a card on whom.  Nothing here   *)
(* changes a deal; DealEngine does.                                        *)
(*                                                                         *)
(* Seats sit in a circle: clockwise is the direction of growing numbers.   *)
(***************************************************************************)
EXTENDS Cards

CONSTANTS
  DealSize,             \* a hand is refilled up to this many cards
  MaxAttackFirstRound,  \* attacking cards in a round before the first discarded pile
  MaxAttackPerRound,    \* and after it
  TransfersEnabled,     \* may the defender pass the attack on?
  NavesEnabled          \* are cards hung at all?

ASSUME RulesAssumption ==
  /\ DealSize \in Nat \ {0}
  /\ MaxAttackFirstRound \in Nat \ {0}
  /\ MaxAttackPerRound \in Nat \ {0}
  /\ TransfersEnabled \in BOOLEAN
  /\ NavesEnabled \in BOOLEAN

Phases == {"DICE", "ATTACK", "DEFEND", "TAKING", "HANGING", "DEAL_OVER"}

\* A pair "attacking card - what it is beaten with".
Slot == [attack : Card, attackBy : Seats, attackPinned : BOOLEAN,
         defence : Card \cup {None}, defenceBy : Seats, defencePinned : BOOLEAN]

\* Fault: the table does not remember who laid the card.
SlotWithoutAuthor(c, s) == [attack |-> c, attackBy |-> NobodySeat, attackPinned |-> FALSE,
                            defence |-> None, defenceBy |-> 0, defencePinned |-> FALSE]

NewSlot(c, s) == [attack |-> c, attackBy |-> s, attackPinned |-> FALSE,
                  defence |-> None, defenceBy |-> 0, defencePinned |-> FALSE]

IsBeaten(slot) == slot.defence # None

Claim  == [seat : Seats, card : Card]

Window == [victim : Seats, steps : Seq(SUBSET Seats), stepIndex : Nat \ {0},
           claims : SUBSET Claim, decided : SUBSET Seats, everyone : BOOLEAN]

\* The hidden trump that turned out to be a joker and waits for a suit.
Pending == [card : Card, recipient : Seats, chooser : Seats]

\* "There is none" is neither a window, nor a hidden trump that waits, nor a seat.
ASSUME NoneAssumption == None \notin Window /\ None \notin Pending /\ None \notin Seats

(***************************************************************************)
(* The deal.  Hands, the hung cards and the table are sets: a card exists  *)
(* once, and no rule depends on the order in which they are held (the one  *)
(* that looks at the first card of the table, CanTransfer, is only asked   *)
(* while all attacking cards are of one rank).  exitPlace gives for each   *)
(* seat its position in ExitOrder, 0 while it is not there.  discard is    *)
(* not kept by the program: it is what the events ROUND_BEATEN carry away. *)
(***************************************************************************)
Deal ==
  [phase        : Phases,
   trump        : Suits \cup {None},
   deck         : Seq(Card),                 \* the last card is the hidden trump
   hand         : [Seats -> SUBSET Card],
   faceDown     : [Seats -> Card \cup {None}],
   inDeal       : SUBSET Seats,
   level        : [Seats -> Int],
   hung         : [Seats -> SUBSET Card],
   jokerHanger  : [Seats -> Seats \cup {NobodySeat}],
   table        : SUBSET Slot,
   starter      : Seats,
   right        : Seats,
   defender     : Seats,
   passed       : SUBSET Seats,
   exitPlace    : [Seats -> Nat],
   anyBeaten    : BOOLEAN,
   anyDiscarded : BOOLEAN,
   window       : Window \cup {None},
   lastAttack   : SUBSET Card,
   pending      : Pending \cup {None},
   discard      : SUBSET Card]

-----------------------------------------------------------------------------
\* Queries.

DeckEmpty(d)   == d.deck = << >>
HandSize(d, s) == Cardinality(d.hand[s])

\* Fault: the face-down card may be turned up while there is a deck to draw from.
CanPlayFaceDownEarly(d, s) == d.faceDown[s] # None /\ d.hand[s] = {}

\* The face-down card is played only when nothing else is left.
CanPlayFaceDown(d, s) == DeckEmpty(d) /\ d.faceDown[s] # None /\ d.hand[s] = {}

\* How many cards a player could put into defence right now.
DefendableCards(d, s) == HandSize(d, s) + (IF CanPlayFaceDown(d, s) THEN 1 ELSE 0)

Unbeaten(d)      == {slot \in d.table : ~IsBeaten(slot)}
UnbeatenCount(d) == Cardinality(Unbeaten(d))

AttackCards(d)  == {slot.attack : slot \in d.table}
DefenceCards(d) == {slot.defence : slot \in {sl \in d.table : IsBeaten(sl)}}
TableCards(d)   == AttackCards(d) \cup DefenceCards(d)

\* Defence cards count as well as attacking ones.
HasRankOnTable(d, c) == \E e \in TableCards(d) : SameRank(c, e)

\* Steps clockwise from seat s to seat t: 1 for the neighbour, N for s itself.
Clockwise(s, t) == IF t > s THEN t - s ELSE t - s + N

NextActive(d, s) ==
  CHOOSE t \in d.inDeal : \A u \in d.inDeal : Clockwise(s, t) <= Clockwise(s, u)

SecondNeighbour(d) == NextActive(d, d.defender)

AttackLimit(d) == IF d.anyDiscarded THEN MaxAttackPerRound ELSE MaxAttackFirstRound

-----------------------------------------------------------------------------
(***************************************************************************)
(* To whom the right to attack goes: the starter of the round, then the    *)
(* next active player after the defender, and nobody else.                 *)
(***************************************************************************)
EligibleAttacker(d, s) ==
  /\ s # d.defender
  /\ s \notin d.passed
  /\ s \in d.inDeal
  /\ d.hand[s] # {} \/ CanPlayFaceDown(d, s)

NextAttacker(d) ==
  CASE EligibleAttacker(d, d.starter)          -> d.starter
    [] ~EligibleAttacker(d, d.starter)
       /\ EligibleAttacker(d, SecondNeighbour(d)) -> SecondNeighbour(d)
    [] OTHER                                   -> None

-----------------------------------------------------------------------------
\* Legality of a move.

\* Fault: after "take" the hand of the defender no longer limits the attack.
CanAttackFreelyAfterTake(d, s, c) ==
  /\ d.right = s /\ s \notin d.passed
  /\ c \in d.hand[s]
  /\ Cardinality(d.table) < AttackLimit(d)
  /\ d.table # {} => HasRankOnTable(d, c)
  /\ d.phase # "TAKING" => UnbeatenCount(d) + 1 <= DefendableCards(d, d.defender)

CanAttack(d, s, c) ==
  /\ d.right = s /\ s \notin d.passed
  /\ c \in d.hand[s]
  /\ Cardinality(d.table) < AttackLimit(d)
  /\ d.table # {} => HasRankOnTable(d, c)
  /\ UnbeatenCount(d) + 1 <= DefendableCards(d, d.defender)

CanDefend(d, s, c, target) ==
  /\ d.defender = s
  /\ d.phase # "TAKING"
  /\ c \in d.hand[s]
  /\ \E slot \in Unbeaten(d) : slot.attack = target
  /\ d.trump # None
  /\ Beats(d.trump, c, target)

\* While nothing is beaten the whole attack is of one rank, that of the first card.
CanTransfer(d, s, c) ==
  /\ TransfersEnabled
  /\ d.defender = s
  /\ d.phase # "TAKING"
  /\ c \in d.hand[s]
  /\ d.table # {}
  /\ ~d.anyBeaten
  /\ \E e \in AttackCards(d) : SameRank(e, c)
  /\ DefendableCards(d, NextActive(d, s)) >= Cardinality(d.table) + 1

\* On an empty table the starter has to attack; only an empty hand may pass.
CanPass(d, s) ==
  /\ d.right = s /\ s \notin d.passed
  /\ d.table = {} => ~CanPlayFaceDown(d, s) /\ d.hand[s] = {}

CanTake(d, s) == d.defender = s /\ d.phase # "TAKING" /\ d.table # {}

-----------------------------------------------------------------------------
(***************************************************************************)
(* The order of refilling, of leaving the deal and of hanging: the starter *)
(* of the round, the second neighbour, the others clockwise from the       *)
(* starter, the defender last.                                             *)
(***************************************************************************)
OrderOf(d, s) ==
  IF s = d.defender THEN N + 1
  ELSE IF s = d.starter THEN 0
  ELSE IF s = SecondNeighbour(d) THEN 1
  ELSE 1 + Clockwise(d.starter, s)

FirstOf(d, S) == CHOOSE s \in S : \A t \in S : OrderOf(d, s) <= OrderOf(d, t)
LastOf(d, S)  == CHOOSE s \in S : \A t \in S : OrderOf(d, t) <= OrderOf(d, s)

-----------------------------------------------------------------------------
\* Hanging: the victim is the one who took the table, still the defender.

IsUniqueLaggard(d, victim) ==
  \A s \in d.inDeal \ {victim} : d.level[s] > d.level[victim]

IsRightEqualForAll(d, victim) ==
  NextIsJoker(d.level[victim]) \/ IsUniqueLaggard(d, victim)

IsEveryClaimantHanging(d, victim) ==
  ~NextIsJoker(d.level[victim]) /\ IsUniqueLaggard(d, victim)

HoldersOfFlyingCard(d, victim) ==
  {s \in d.inDeal \ {victim} : \E c \in d.hand[s] : IsFlyingCard(d.level[victim], c)}

\* One step of the right for all, or the first in order, the second, and the rest together.
HangingSteps(d, victim) ==
  LET holders == HoldersOfFlyingCard(d, victim)
      others  == d.inDeal \ {victim}
      first   == FirstOf(d, others)
      second  == FirstOf(d, others \ {first})
      step(S) == IF S \cap holders = {} THEN << >> ELSE << S \cap holders >>
  IN IF IsRightEqualForAll(d, victim) THEN << holders >>
     ELSE IF others = {first} THEN step({first})
     ELSE step({first}) \o step({second}) \o step(others \ {first, second})

CurrentStep(w)    == w.steps[w.stepIndex]
MayDecide(w, s)   == s \in CurrentStep(w) \ w.decided
\* Fault: only claims count as decisions.
IsStepClaimed(w)  == CurrentStep(w) \subseteq {cl.seat : cl \in w.claims}
IsStepComplete(w) == CurrentStep(w) \subseteq w.decided
HasNextStep(w)    == w.stepIndex < Len(w.steps)
=============================================================================
