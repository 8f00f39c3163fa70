------------------------------ MODULE Projection ------------------------------
(***************************************************************************)
(* What one player is shown of a deal, and the moves he is offered.        *)
(*                                                                         *)
(* The view is built, for each player anew, from his own cards and what    *)
(* lies open; the moves are found by trying every candidate on the rules.  *)
(* A client knows no rules: it can do what it is offered, and what it is   *)
(* not offered it does not do.                                             *)
(***************************************************************************)
EXTENDS DealEngine

Maps == INSTANCE Functions

\* The second last card lies open under the deck.
OpenTrumpAt(d) == Len(d.deck) - 1

\* Fault: the card next to it is shown.
HiddenTrumpCard(d) == IF Len(d.deck) < 2 THEN None ELSE d.deck[Len(d.deck)]

TrumpCard(d) == IF Len(d.deck) < 2 THEN None ELSE d.deck[OpenTrumpAt(d)]

\* What is nowhere to be found has been discarded.  The card that waits for its suit is not
\* looked for.
InPlay(d, s) ==
  Cardinality(d.hand[s]) + Cardinality(d.hung[s]) + (IF d.faceDown[s] = None THEN 0 ELSE 1)

DiscardCount(d) ==
  LET inPlay == Len(d.deck) + Cardinality(TableCards(d))
                + Maps!FoldFunction(+, 0, [s \in Seats |-> InPlay(d, s)])
  IN IF Cardinality(Pack) > inPlay THEN Cardinality(Pack) - inPlay ELSE 0

StepsToJoker(level) == IF level < JokerLevel THEN JokerLevel - level ELSE 0

SeatView(d, s) ==
  [cardsCount    |-> HandSize(d, s),
   hasHiddenCard |-> d.faceDown[s] # None,
   hung          |-> d.hung[s],
   level         |-> d.level[s],
   nextRank      |-> IF d.level[s] + 1 < JokerLevel THEN ScaleRanks[d.level[s] + 2] ELSE None,
   nextIsJoker   |-> NextIsJoker(d.level[s]),
   passed        |-> s \in d.passed,
   inDeal        |-> s \in d.inDeal,
   exitPlace     |-> d.exitPlace[s],
   stepsToJoker  |-> StepsToJoker(d.level[s])]

-----------------------------------------------------------------------------
\* The moves.

\* Fault: the card lying face down is not tried against a card of the table.
CandidatesInHand(d, s) ==
  [type : {"CHOOSE_TRUMP"}, suit : Suits]
  \cup [type : {"ATTACK", "TRANSFER", "HANG"}, card : d.hand[s]]
  \cup [type : {"DEFEND"}, card : d.hand[s], target : AttackCards(d)]
  \cup [type : {"REVEAL", "TAKE", "PASS", "HANG_SKIP"}]

\* Only the player's own cards and those on the table are tried.
Candidates(d, s) ==
  [type : {"CHOOSE_TRUMP"}, suit : Suits]
  \cup [type : {"ATTACK", "TRANSFER", "HANG"}, card : d.hand[s]]
  \cup [type : {"DEFEND"}, card : d.hand[s], target : AttackCards(d)]
  \cup [type : {"REVEAL_TO_DEFEND"}, target : AttackCards(d)]
  \cup [type : {"REVEAL", "TAKE", "PASS", "HANG_SKIP"}]

\* Does the engine accept the command?
Accepts(d, s, a) ==
  CASE a.type = "CHOOSE_TRUMP" ->
         d.phase = "DICE" /\ s = IF d.pending = None THEN d.right ELSE d.pending.chooser
    [] a.type = "HANG" ->
         /\ d.phase = "HANGING" /\ d.window # None
         /\ MayDecide(d.window, s) /\ NavesEnabled /\ s # d.window.victim
         /\ IsFlyingCard(d.level[d.window.victim], a.card)
    [] a.type = "HANG_SKIP" ->
         d.phase = "HANGING" /\ d.window # None /\ MayDecide(d.window, s)
    [] OTHER ->
         /\ d.phase \notin {"DEAL_OVER", "DICE"}
         /\ CASE a.type = "ATTACK"   -> CanAttack(d, s, a.card)
              [] a.type = "TRANSFER" -> CanTransfer(d, s, a.card)
              [] a.type = "DEFEND"   -> CanDefend(d, s, a.card, a.target)
              [] a.type = "TAKE"     -> CanTake(d, s)
              [] a.type = "PASS"     -> CanPass(d, s)
              [] OTHER               -> CanPlayFaceDown(d, s)

AvailableActions(d, s) == {a \in Candidates(d, s) : Accepts(d, s, a)}

-----------------------------------------------------------------------------
Project(d, viewer) ==
  [mySeat           |-> viewer,
   phase            |-> d.phase,
   trumpSuit        |-> d.trump,
   trumpCard        |-> TrumpCard(d),
   protectedSuit    |-> IF d.trump = None THEN None ELSE ProtectedSuit(d.trump),
   deckLeft         |-> Len(d.deck),
   discardCount     |-> DiscardCount(d),
   myHand           |-> d.hand[viewer],
   iHaveHiddenCard  |-> d.faceDown[viewer] # None,
   table            |-> d.table,
   seats            |-> [s \in Seats |-> SeatView(d, s)],
   starter          |-> d.starter,
   right            |-> d.right,
   defender         |-> d.defender,
   victim           |-> IF d.window = None THEN None ELSE d.window.victim,
   availableActions |-> AvailableActions(d, viewer)]

-----------------------------------------------------------------------------
(***************************************************************************)
(* What a player must not learn, and a deal that differs in it only: the   *)
(* cards hidden from him are exchanged among their places, in a circle.    *)
(***************************************************************************)
HiddenInDeck(d) == DOMAIN d.deck \ {OpenTrumpAt(d)}

HiddenFrom(d, viewer) ==
  (UNION {d.hand[s] : s \in Seats \ {viewer}})
  \cup ({d.faceDown[s] : s \in Seats} \ {None})
  \cup {d.deck[j] : j \in HiddenInDeck(d)}
  \cup d.discard

\* The cards in an order of their own.
KeyOf(c) ==
  IF IsJoker(c) THEN -c.joker
  ELSE 4 * c.rank + CASE c.suit = "diamonds" -> 0
                      [] c.suit = "hearts"   -> 1
                      [] c.suit = "spades"   -> 2
                      [] c.suit = "clubs"    -> 3

Lowest(S) == CHOOSE c \in S : \A e \in S : KeyOf(c) <= KeyOf(e)

\* The next card of a set, and after the last one the first.
Following(S, c) ==
  LET above == {e \in S : KeyOf(c) < KeyOf(e)}
  IN IF above = {} THEN Lowest(S) ELSE Lowest(above)

\* Wherever a hidden card c is, turn[c] is there instead.
ExchangedBy(d, viewer, turn) ==
  LET turnAll(S) == {turn[c] : c \in S}
  IN [d EXCEPT
        !.hand     = [s \in Seats |-> IF s = viewer THEN @[s] ELSE turnAll(@[s])],
        !.faceDown = [s \in Seats |-> IF @[s] = None THEN None ELSE turn[@[s]]],
        !.deck     = [j \in DOMAIN @ |-> IF j \in HiddenInDeck(d) THEN turn[@[j]] ELSE @[j]],
        !.discard  = turnAll(@)]

Exchanged(d, viewer) ==
  LET hidden == HiddenFrom(d, viewer)
  IN ExchangedBy(d, viewer, [c \in hidden |-> Following(hidden, c)])
=============================================================================
