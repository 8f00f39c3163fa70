------------------------------ MODULE DealEngine ------------------------------
(***************************************************************************)
(* The automaton of a deal: what every command of a player does to it.     *)
(*                                                                         *)
(* The first part has, as operators from a deal to a deal, the steps the   *)
(* program composes: clearing the table, refilling, leaving the deal,      *)
(* opening and resolving the hanging window, closing the round.  The       *)
(* second part has one action per command; a rejected command changes      *)
(* nothing and is no step.                                                 *)
(*                                                                         *)
(* Dice are thrown by the server from a seed nobody knows.  Here a throw   *)
(* is an arbitrary choice: "chooser" is who would win the throw over a     *)
(* hidden joker, "winner" who would win the throw over a hanging claim.    *)
(***************************************************************************)
EXTENDS DealRules

CONSTANTS
  Shuffles,       \* the shuffled packs a deal may start from, top card first
  StartLevels,    \* the naves levels the players may bring into the deal
  PlayerCommands  \* which of the commands below the players of this table use

CommandNames ==
  {"ATTACK", "DEFEND", "TRANSFER", "PASS", "TAKE", "HANG", "HANG_SKIP",
   "CHOOSE_TRUMP", "REVEAL", "REVEAL_TO_DEFEND", "RECALL", "PIN"}

ASSUME DealAssumption ==
  /\ \A pack \in Shuffles :
       /\ pack \in Seq(Pack)
       /\ Len(pack) = Cardinality(Pack)
       /\ {pack[i] : i \in DOMAIN pack} = Pack
       /\ Len(pack) >= N * (DealSize + 1) + 2
  /\ StartLevels \subseteq [Seats -> Levels]
  /\ PlayerCommands \subseteq CommandNames

VARIABLE deal

-----------------------------------------------------------------------------
(***************************************************************************)
(* Refilling.  A player asks for the cards his hand lacks; asks are served *)
(* from the top of the deck in the order of refilling, while it lasts.     *)
(***************************************************************************)
Asks(d) == {ask \in d.inDeal \X (1 .. DealSize) : ask[2] > HandSize(d, ask[1])}

AskedUpTo(d, s) ==
  Cardinality({ask \in Asks(d) : OrderOf(d, ask[1]) <= OrderOf(d, s)})

\* Who draws the card at position j of the deck.
Drawers(d, j) == {s \in d.inDeal : j <= AskedUpTo(d, s)}
Drawer(d, j)  == FirstOf(d, Drawers(d, j))

DrawnCount(d) ==
  IF Cardinality(Asks(d)) < Len(d.deck) THEN Cardinality(Asks(d)) ELSE Len(d.deck)

\* The last card of the deck is the hidden trump: a pip changes the trump and is drawn,
\* a joker waits aside until the winner of the dice names a suit.
Refill(d, chooser) ==
  LET last    == Len(d.deck)
      toLast  == last > 0 /\ DrawnCount(d) = last
      joker   == toLast /\ IsJoker(d.deck[last])
      toHand  == {j \in 1 .. DrawnCount(d) : ~(joker /\ j = last)}
  IN [d EXCEPT
        !.hand    = [s \in Seats |->
                       d.hand[s] \cup {d.deck[j] : j \in {i \in toHand : Drawer(d, i) = s}}],
        !.deck    = SubSeq(d.deck, DrawnCount(d) + 1, last),
        !.trump   = IF toLast /\ ~joker THEN d.deck[last].suit ELSE @,
        !.pending = IF joker
                      THEN [card |-> d.deck[last], recipient |-> Drawer(d, last),
                            chooser |-> chooser]
                      ELSE @]

\* Who leaves: out of cards with the deck empty, but the last player never.
HasNothingLeft(d, s) == DeckEmpty(d) /\ d.hand[s] = {} /\ d.faceDown[s] = None

\* Fault: the last player leaves as well.
LeaversToTheLast(d) == {s \in d.inDeal : HasNothingLeft(d, s)}

Leavers(d) ==
  LET done == {s \in d.inDeal : HasNothingLeft(d, s)}
  IN IF done = d.inDeal THEN done \ {LastOf(d, done)} ELSE done

\* Fault: who leaves in the same round takes the same place.
MarkExitsTogether(d) ==
  [d EXCEPT
    !.inDeal    = @ \ Leavers(d),
    !.exitPlace = [s \in Seats |-> IF s \in Leavers(d)
                                     THEN Cardinality(Seats \ d.inDeal) + 1 ELSE @[s]]]

MarkExits(d) ==
  LET before == Cardinality(Seats \ d.inDeal)
      rank(s) == Cardinality({t \in Leavers(d) : OrderOf(d, t) <= OrderOf(d, s)})
  IN [d EXCEPT
        !.inDeal    = @ \ Leavers(d),
        !.exitPlace = [s \in Seats |-> IF s \in Leavers(d) THEN before + rank(s) ELSE @[s]]]

-----------------------------------------------------------------------------
\* Closing the round.

\* Fault: the table is cleared later than the cards have gone to the hand.
ClearTableLater(d, discarded) ==
  [d EXCEPT !.lastAttack = AttackCards(d), !.anyDiscarded = @ \/ discarded]

\* The table goes to the pile or to a hand; what lay in attack is remembered.
ClearTable(d, discarded) ==
  [d EXCEPT !.lastAttack   = AttackCards(d),
            !.table        = {},
            !.anyDiscarded = @ \/ discarded,
            !.discard      = IF discarded THEN @ \cup TableCards(d) ELSE @]

\* Fault: the defender starts even if he has just left the deal.
StartNextRoundBlindly(d, taken) ==
  LET starter == IF taken THEN NextActive(d, d.defender) ELSE d.defender
  IN [d EXCEPT !.phase     = IF d.pending = None THEN "ATTACK" ELSE "DICE",
               !.starter   = starter,
               !.right     = starter,
               !.defender  = NextActive(d, starter),
               !.passed    = {},
               !.anyBeaten = FALSE]

\* Fault: the next round starts before the suit is named.
StartNextRoundTrumpless(d, taken) ==
  LET starter == IF taken \/ d.defender \notin d.inDeal
                   THEN NextActive(d, d.defender) ELSE d.defender
  IN [d EXCEPT !.phase     = "ATTACK",
               !.starter   = starter,
               !.right     = starter,
               !.defender  = NextActive(d, starter),
               !.passed    = {},
               !.anyBeaten = FALSE]

\* After a beaten table the defender starts; after a taken one, or if he is out, the next.
StartNextRound(d, taken) ==
  LET starter == IF taken \/ d.defender \notin d.inDeal
                   THEN NextActive(d, d.defender) ELSE d.defender
  IN [d EXCEPT !.phase     = IF d.pending = None THEN "ATTACK" ELSE "DICE",
               !.starter   = starter,
               !.right     = starter,
               !.defender  = NextActive(d, starter),
               !.passed    = {},
               !.anyBeaten = FALSE]

FinishRound(d, taken, chooser) ==
  LET left == MarkExits(Refill(d, chooser))
  IN IF Cardinality(left.inDeal) <= 1
       THEN [left EXCEPT !.phase = "DEAL_OVER"]
       ELSE StartNextRound(left, taken)

RoundBeaten(d, chooser) == FinishRound(ClearTable(d, TRUE), FALSE, chooser)

OpenHangingWindow(d, chooser) ==
  LET victim == d.defender
  IN IF ~NavesEnabled \/ HoldersOfFlyingCard(d, victim) = {}
       THEN FinishRound(d, TRUE, chooser)
       ELSE [d EXCEPT !.phase  = "HANGING",
                      !.window = [victim    |-> victim,
                                  steps     |-> HangingSteps(d, victim),
                                  stepIndex |-> 1,
                                  claims    |-> {},
                                  decided   |-> {},
                                  everyone  |-> IsEveryClaimantHanging(d, victim)]]

CollectTable(d, chooser) ==
  LET taken == [d EXCEPT !.hand[d.defender] = @ \cup TableCards(d)]
  IN OpenHangingWindow(ClearTable(taken, FALSE), chooser)

-----------------------------------------------------------------------------
\* Moves.  Each operator is the state after an accepted move.

Passed(d, s, chooser) ==
  LET after == [d EXCEPT !.passed = @ \cup {s}]
      next  == NextAttacker(after)
  IN CASE next # None ->
            [after EXCEPT !.right = next,
                          !.phase = IF @ = "TAKING" THEN "TAKING"
                                    ELSE IF Unbeaten(d) # {} THEN "DEFEND" ELSE "ATTACK"]
       [] next = None /\ d.phase = "TAKING" -> CollectTable(after, chooser)
       [] next = None /\ d.phase # "TAKING" /\ Unbeaten(d) # {} ->
            [after EXCEPT !.phase = "DEFEND"]
       [] OTHER -> RoundBeaten(after, chooser)

\* Who has played the last card passes at once.  "Take" survives a thrown-in card.
Attacked(d, s, c, chooser) ==
  LET laid == [d EXCEPT !.hand[s] = @ \ {c},
                        !.table   = @ \cup {NewSlot(c, s)},
                        !.phase   = IF @ = "TAKING" THEN "TAKING" ELSE "DEFEND"]
  IN IF laid.hand[s] = {} /\ ~CanPlayFaceDown(laid, s)
       THEN Passed(laid, s, chooser) ELSE laid

\* Fault (ADR-051): the right stays with who has passed already.
DefendedInPlace(d, s, c, target, chooser) ==
  LET beaten == {IF slot.attack = target
                   THEN [slot EXCEPT !.defence = c, !.defenceBy = s] ELSE slot
                 : slot \in d.table}
      after  == [d EXCEPT !.hand[s] = @ \ {c}, !.table = beaten, !.anyBeaten = TRUE]
  IN [after EXCEPT !.phase = IF Unbeaten(after) = {} THEN "ATTACK" ELSE "DEFEND"]

\* With the last card beaten the right goes to who can use it; with nobody, the round ends.
Defended(d, s, c, target, chooser) ==
  LET beaten == {IF slot.attack = target
                   THEN [slot EXCEPT !.defence = c, !.defenceBy = s] ELSE slot
                 : slot \in d.table}
      after  == [d EXCEPT !.hand[s] = @ \ {c}, !.table = beaten, !.anyBeaten = TRUE]
      open   == [after EXCEPT !.phase = "ATTACK"]
  IN CASE Unbeaten(after) # {}                              -> [after EXCEPT !.phase = "DEFEND"]
       [] Unbeaten(after) = {} /\ NextAttacker(open) # None -> [open EXCEPT !.right = NextAttacker(open)]
       [] OTHER                                             -> RoundBeaten(open, chooser)

Transferred(d, s, c) ==
  [d EXCEPT !.hand[s]  = @ \ {c},
            !.table    = @ \cup {NewSlot(c, s)},
            !.starter  = s,
            !.right    = s,
            !.defender = NextActive(d, s),
            !.passed   = {},
            !.phase    = "DEFEND"]

\* Fault: "take" closes the round although others may still throw in.
TakenAtOnce(d, chooser) == CollectTable([d EXCEPT !.phase = "TAKING"], chooser)

Taken(d, chooser) ==
  LET taking == [d EXCEPT !.phase = "TAKING"]
  IN IF NextAttacker(taking) # None THEN taking ELSE CollectTable(taking, chooser)

\* Turning the face-down card up cannot be undone, whatever becomes of the move.
Revealed(d, s) == [d EXCEPT !.hand[s] = @ \cup {d.faceDown[s]}, !.faceDown[s] = None]

-----------------------------------------------------------------------------
\* The hanging window.

\* Fault: every card raises the level.
HungByEach(d, claims) ==
  LET w == d.window
  IN [d EXCEPT
        !.hand  = [s \in Seats |-> @[s] \ {cl.card : cl \in {x \in claims : x.seat = s}}],
        !.hung[w.victim]  = @ \cup {cl.card : cl \in claims},
        !.level[w.victim] = @ + Cardinality(claims)]

\* The cards that fly land on the victim; the level rises by one step per window.
HungBy(d, claims) ==
  LET w      == d.window
      jokers == {cl \in claims : IsJoker(cl.card)}
  IN [d EXCEPT
        !.hand  = [s \in Seats |-> @[s] \ {cl.card : cl \in {x \in claims : x.seat = s}}],
        !.hung[w.victim]        = @ \cup {cl.card : cl \in claims},
        !.level[w.victim]       = @ + 1,
        !.jokerHanger[w.victim] = IF jokers = {} THEN @ ELSE (CHOOSE cl \in jokers : TRUE).seat]

\* Fault: the window is left behind.
CloseWindowBehind(d, chooser) == FinishRound(d, TRUE, chooser)

CloseWindow(d, chooser) == FinishRound([d EXCEPT !.window = None], TRUE, chooser)

\* A laggard is hung by all who claimed, anybody else by the winner of the dice.
AdvanceWindow(d, winner, chooser) ==
  LET w      == d.window
      chosen == IF w.everyone \/ Cardinality(w.claims) = 1 THEN w.claims
                ELSE {cl \in w.claims : cl.seat = winner}
  IN CASE ~IsStepComplete(w) -> d
       [] IsStepComplete(w) /\ w.claims = {} /\ HasNextStep(w) ->
            [d EXCEPT !.window = [w EXCEPT !.stepIndex = @ + 1, !.claims = {}, !.decided = {}]]
       [] IsStepComplete(w) /\ w.claims = {} /\ ~HasNextStep(w) -> CloseWindow(d, chooser)
       [] OTHER -> CloseWindow(HungBy(d, chosen), chooser)

Decided(d, s, cards) ==
  LET w == d.window
  IN [d EXCEPT !.window =
        [w EXCEPT !.claims  = @ \cup {[seat |-> s, card |-> c] : c \in cards},
                  !.decided = @ \cup {s}]]

\* The dice are thrown among the seats that claimed.
Claimants(w) == {cl.seat : cl \in w.claims}

-----------------------------------------------------------------------------
(***************************************************************************)
(* The start of a deal: DealSize cards each, one by one, a face-down card  *)
(* each, the rest is the deck.  The second last card of it is the trump.   *)
(* A deal in which nobody holds a trump is dealt anew, but after ten tries *)
(* the program takes whatever came, so every shuffle may be played.        *)
(***************************************************************************)
LowestTrumpSeat(hand, suit) ==
  LET ranks(s) == {c.rank : c \in {x \in hand[s] : x \in Pip /\ x.suit = suit}}
      holders  == {s \in Seats : \E r \in ranks(s) : \A t \in Seats : \A q \in ranks(t) : r <= q}
  IN IF holders = {} THEN 0 ELSE CHOOSE s \in holders : TRUE

Dealt(pack, levels, chooser) ==
  LET hand      == [s \in Seats |-> {pack[i * N + s + 1] : i \in 0 .. DealSize - 1}]
      deck      == SubSeq(pack, N * (DealSize + 1) + 1, Len(pack))
      trumpCard == deck[Len(deck) - 1]
      joker     == IsJoker(trumpCard)
      starter   == IF joker THEN 0 ELSE LowestTrumpSeat(hand, trumpCard.suit)
  IN [phase        |-> IF joker THEN "DICE" ELSE "ATTACK",
      trump        |-> IF joker THEN None ELSE trumpCard.suit,
      deck         |-> deck,
      hand         |-> hand,
      faceDown     |-> [s \in Seats |-> pack[N * DealSize + s + 1]],
      inDeal       |-> Seats,
      level        |-> levels,
      hung         |-> [s \in Seats |-> {}],
      jokerHanger  |-> [s \in Seats |-> NobodySeat],
      table        |-> {},
      starter      |-> starter,
      right        |-> IF joker THEN chooser ELSE starter,
      defender     |-> IF starter = N - 1 THEN 0 ELSE starter + 1,
      passed       |-> {},
      exitPlace    |-> [s \in Seats |-> 0],
      anyBeaten    |-> FALSE,
      anyDiscarded |-> FALSE,
      window       |-> None,
      lastAttack   |-> {},
      pending      |-> None,
      discard      |-> {}]

Init ==
  \E pack \in Shuffles, levels \in StartLevels, chooser \in Seats :
    deal = Dealt(pack, levels, chooser)

-----------------------------------------------------------------------------
(***************************************************************************)
(* The commands.  A deal that is over accepts none, one that waits for the *)
(* trump only the choice of the trump.                                     *)
(***************************************************************************)
Playable == deal.phase \notin {"DEAL_OVER", "DICE"}

Attack(s, c, chooser) ==
  /\ "ATTACK" \in PlayerCommands /\ Playable
  /\ CanAttack(deal, s, c)
  /\ deal' = Attacked(deal, s, c, chooser)

Defend(s, c, target, chooser) ==
  /\ "DEFEND" \in PlayerCommands /\ Playable
  /\ CanDefend(deal, s, c, target)
  /\ deal' = Defended(deal, s, c, target, chooser)

Transfer(s, c) ==
  /\ "TRANSFER" \in PlayerCommands /\ Playable
  /\ CanTransfer(deal, s, c)
  /\ deal' = Transferred(deal, s, c)

Pass(s, chooser) ==
  /\ "PASS" \in PlayerCommands /\ Playable
  /\ CanPass(deal, s)
  /\ deal' = Passed(deal, s, chooser)

Take(s, chooser) ==
  /\ "TAKE" \in PlayerCommands /\ Playable
  /\ CanTake(deal, s)
  /\ deal' = Taken(deal, chooser)

\* Several cards at once only under the rule of the laggard.
HangCard(s, cards, winner, chooser) ==
  /\ "HANG" \in PlayerCommands
  /\ deal.phase = "HANGING" /\ deal.window # None
  /\ MayDecide(deal.window, s)
  /\ NavesEnabled
  /\ s # deal.window.victim
  /\ cards # {} /\ cards \subseteq deal.hand[s]
  /\ \A c \in cards : IsFlyingCard(deal.level[deal.window.victim], c)
  /\ Cardinality(cards) > 1 => deal.window.everyone
  /\ winner \in Claimants(deal.window) \cup {s}
  /\ deal' = AdvanceWindow(Decided(deal, s, cards), winner, chooser)

HangSkip(s, winner, chooser) ==
  /\ "HANG_SKIP" \in PlayerCommands
  /\ deal.phase = "HANGING" /\ deal.window # None
  /\ MayDecide(deal.window, s)
  /\ winner \in IF deal.window.claims = {} THEN {s} ELSE Claimants(deal.window)
  /\ deal' = AdvanceWindow(Decided(deal, s, {}), winner, chooser)

\* At the start of the deal: the suit also decides who goes first.
ChooseTrump(s, suit) ==
  /\ "CHOOSE_TRUMP" \in PlayerCommands
  /\ deal.phase = "DICE" /\ deal.pending = None
  /\ deal.right = s
  /\ LET starter == LowestTrumpSeat(deal.hand, suit)
     IN deal' = [deal EXCEPT !.trump    = suit,
                             !.phase    = "ATTACK",
                             !.starter  = starter,
                             !.right    = starter,
                             !.defender = NextActive(deal, starter)]

\* In the middle of it: first the suit, only then the card goes to the hand.
ChooseTrumpForHidden(s, suit) ==
  /\ "CHOOSE_TRUMP" \in PlayerCommands
  /\ deal.phase = "DICE" /\ deal.pending # None
  /\ deal.pending.chooser = s
  /\ deal' = [deal EXCEPT !.trump   = suit,
                          !.pending = None,
                          !.phase   = "ATTACK",
                          !.hand[deal.pending.recipient] = @ \cup {deal.pending.card}]

RevealFaceDown(s, chooser) ==
  /\ "REVEAL" \in PlayerCommands /\ Playable
  /\ CanPlayFaceDown(deal, s)
  /\ LET card == deal.faceDown[s]
         open == Revealed(deal, s)
     IN deal' = IF CanAttack(open, s, card) THEN Attacked(open, s, card, chooser) ELSE open

RevealToDefend(s, target, chooser) ==
  /\ "REVEAL_TO_DEFEND" \in PlayerCommands /\ Playable
  /\ CanPlayFaceDown(deal, s)
  /\ LET card == deal.faceDown[s]
         open == Revealed(deal, s)
     IN deal' = IF CanDefend(open, s, card, target)
                  THEN Defended(open, s, card, target, chooser) ELSE open

\* Fault: an objection is not asked about.
RecallAttackPinned(s, slot) ==
  /\ "RECALL" \in PlayerCommands /\ deal.phase \in {"ATTACK", "DEFEND"}
  /\ slot \in deal.table /\ slot.attackBy = s
  /\ ~IsBeaten(slot)
  /\ deal' = [deal EXCEPT !.table   = @ \ {slot},
                          !.hand[s] = @ \cup {slot.attack},
                          !.phase   = IF deal.table = {slot} THEN "ATTACK" ELSE @]

\* A card that nobody objected to may be taken back from the table.
RecallAttack(s, slot) ==
  /\ "RECALL" \in PlayerCommands /\ deal.phase \in {"ATTACK", "DEFEND"}
  /\ slot \in deal.table /\ slot.attackBy = s
  /\ ~slot.attackPinned /\ ~IsBeaten(slot)
  /\ deal' = [deal EXCEPT !.table   = @ \ {slot},
                          !.hand[s] = @ \cup {slot.attack},
                          !.phase   = IF deal.table = {slot} THEN "ATTACK" ELSE @]

RecallDefence(s, slot) ==
  /\ "RECALL" \in PlayerCommands /\ deal.phase \in {"ATTACK", "DEFEND"}
  /\ slot \in deal.table /\ IsBeaten(slot) /\ slot.defenceBy = s
  /\ ~slot.defencePinned
  /\ deal' = [deal EXCEPT
                !.table   = (@ \ {slot}) \cup {[slot EXCEPT !.defence = None, !.defenceBy = 0]},
                !.hand[s] = @ \cup {slot.defence},
                !.phase   = "DEFEND"]

\* "The card stays": any other player in the deal may say it of any card, out of turn.
PinAttack(s, slot) ==
  /\ "PIN" \in PlayerCommands /\ Playable
  /\ s \in deal.inDeal
  /\ slot \in deal.table /\ slot.attackBy # s /\ ~slot.attackPinned
  /\ deal' = [deal EXCEPT !.table = (@ \ {slot}) \cup {[slot EXCEPT !.attackPinned = TRUE]}]

PinDefence(s, slot) ==
  /\ "PIN" \in PlayerCommands /\ Playable
  /\ s \in deal.inDeal
  /\ slot \in deal.table /\ IsBeaten(slot)
  /\ slot.defenceBy # s /\ ~slot.defencePinned
  /\ deal' = [deal EXCEPT !.table = (@ \ {slot}) \cup {[slot EXCEPT !.defencePinned = TRUE]}]

-----------------------------------------------------------------------------
Round(s, chooser) ==
  \/ \E c \in deal.hand[s] :
       \/ Attack(s, c, chooser)
       \/ Transfer(s, c)
       \/ \E target \in AttackCards(deal) : Defend(s, c, target, chooser)
  \/ Pass(s, chooser)
  \/ Take(s, chooser)
  \/ RevealFaceDown(s, chooser)
  \/ \E target \in Pack : RevealToDefend(s, target, chooser)

Hanging(s, chooser) ==
  \E winner \in Seats :
    \/ \E cards \in SUBSET deal.hand[s] : HangCard(s, cards, winner, chooser)
    \/ HangSkip(s, winner, chooser)

Trump(s) ==
  \E suit \in Suits : ChooseTrump(s, suit) \/ ChooseTrumpForHidden(s, suit)

SecondThoughts(s) ==
  \E slot \in deal.table :
    \/ RecallAttack(s, slot) \/ RecallDefence(s, slot)
    \/ PinAttack(s, slot) \/ PinDefence(s, slot)

\* Anyone still in the deal may win the throw over a hidden joker; otherwise none is made.
Choosers ==
  IF ~DeckEmpty(deal) /\ IsJoker(deal.deck[Len(deal.deck)]) THEN deal.inDeal ELSE {deal.defender}

Next ==
  \E s \in Seats :
    \/ \E chooser \in Choosers : Round(s, chooser) \/ Hanging(s, chooser)
    \/ Trump(s)
    \/ SecondThoughts(s)

vars == <<deal>>

Spec == Init /\ [][Next]_vars
=============================================================================
