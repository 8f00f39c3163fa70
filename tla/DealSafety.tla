------------------------------ MODULE DealSafety ------------------------------
(***************************************************************************)
(* What must be true of a deal, whatever the players do.                   *)
(***************************************************************************)
EXTENDS DealEngine

\* Every step of the automaton leaves a well-formed deal (DealState and its parts).
TypeOK == deal \in Deal

(***************************************************************************)
(* A card is neither lost nor doubled: each card of the pack is in exactly *)
(* one place - a hand, face down, hung, in the deck, on the table in       *)
(* attack or in defence, put aside as the pending hidden trump, or gone in *)
(* a discarded pile.  Every move of the engine shifts cards between two of *)
(* these places by two separate assignments.                               *)
(***************************************************************************)
PlacesOf(d, c) ==
  Cardinality({s \in Seats : c \in d.hand[s]})
  + Cardinality({s \in Seats : c = d.faceDown[s]})
  + Cardinality({s \in Seats : c \in d.hung[s]})
  + Cardinality({j \in DOMAIN d.deck : c = d.deck[j]})
  + Cardinality({slot \in d.table : c = slot.attack})
  + Cardinality({slot \in d.table : c = slot.defence})
  + (IF d.pending = None THEN 0 ELSE IF c = d.pending.card THEN 1 ELSE 0)
  + (IF c \in d.discard THEN 1 ELSE 0)

EveryCardInOnePlace == \A c \in Pack : PlacesOf(deal, c) = 1

(***************************************************************************)
(* Nobody leaves before the deck is empty, and until then nobody can have  *)
(* turned his face-down card up (markExits, CanPlayFaceDown).  From it     *)
(* follows that the joker at the bottom of the deck finds both its         *)
(* recipient and the winner of the dice still in the deal.                 *)
(***************************************************************************)
NobodyLeavesEarly ==
  ~DeckEmpty(deal) => /\ deal.inDeal = Seats
                      /\ \A s \in Seats : deal.faceDown[s] # None
                      /\ deal.pending = None

HiddenTrumpFindsItsPlayers ==
  deal.pending # None =>
    /\ deal.phase = "DICE"
    /\ deal.pending.recipient \in deal.inDeal
    /\ deal.pending.chooser \in deal.inDeal

(***************************************************************************)
(* Roles.  The right to attack never leaves the starter of the round and   *)
(* the second neighbour, and is never the defender's (attack_order.go).    *)
(***************************************************************************)
RolesAreApart ==
  deal.phase \notin {"DEAL_OVER", "DICE"} =>
    /\ deal.defender \in deal.inDeal /\ deal.right \in deal.inDeal
    /\ deal.defender \notin {deal.starter, deal.right}
    /\ deal.right \in {deal.starter, SecondNeighbour(deal)}

(***************************************************************************)
(* The defender is never attacked with more cards than he could answer     *)
(* (CanAttack; after a transfer verdictOnReceiver), after "take" neither:  *)
(* so it is in the code (move_rules.go:33-45) and in 03-domain-rules       *)
(* 1.4.2, while three comments still state the rule of before 2026-08-31,  *)
(* that after "take" the hand of the taker limits nothing any more         *)
(* (move_rules.go:17-19, deal_engine.go:389-390, deal_phase.go:27-29).     *)
(* Holds as long as nobody takes a card back: a recalled defence card      *)
(* fills the hand, and the face-down card counted before is no longer      *)
(* playable.                                                               *)
(***************************************************************************)
AttackCanBeAnswered == UnbeatenCount(deal) <= DefendableCards(deal, deal.defender)

(***************************************************************************)
(* The hanging window exists exactly while the deal is in HANGING; whoever *)
(* may still decide is in the deal and is not the victim, somebody may,    *)
(* and what was claimed is still in the hand of who claimed it and still   *)
(* flies to the victim: hands can change before the window is resolved.    *)
(***************************************************************************)
WindowIsSound ==
  /\ deal.phase = "HANGING" <=> deal.window # None
  /\ deal.window # None =>
       LET w == deal.window
       IN /\ w.victim = deal.defender /\ deal.table = {}
          /\ CurrentStep(w) \subseteq deal.inDeal \ {w.victim}
          /\ \E s \in Seats : MayDecide(w, s)
          /\ \A cl \in w.claims :
               /\ cl.seat \in w.decided
               /\ cl.card \in deal.hand[cl.seat]
               /\ IsFlyingCard(deal.level[w.victim], cl.card)

(***************************************************************************)
(* While the window is open the round is really over.  The handlers of     *)
(* attack and pass do not look at the phase: only the passes already made  *)
(* and the empty hands keep the last holder of the right from playing into *)
(* the open window, or from closing the round under it.                    *)
(***************************************************************************)
NoMoveIntoTheWindow ==
  deal.phase = "HANGING" =>
    \A s \in Seats : /\ ~CanPass(deal, s) /\ ~CanTake(deal, s)
                     /\ \A c \in deal.hand[s] : ~CanAttack(deal, s, c)

(***************************************************************************)
(* ExitOrder lists exactly those who are out, each once; and when a deal   *)
(* is over the score can be made of it: one player is left, the deck is    *)
(* empty, no suit or hanging is being waited for, and the cards of the     *)
(* last attack are known (scoring looks for eights in them).               *)
(***************************************************************************)
ExitsAreInOrder ==
  LET out == Seats \ deal.inDeal
  IN /\ {deal.exitPlace[s] : s \in out} = 1 .. Cardinality(out)
     /\ \A s \in deal.inDeal : deal.exitPlace[s] = 0

OverMeansScorable ==
  deal.phase = "DEAL_OVER" =>
    /\ Cardinality(deal.inDeal) = 1
    /\ DeckEmpty(deal) /\ deal.trump # None
    /\ deal.pending = None /\ deal.window = None
    /\ deal.table = {} /\ deal.lastAttack # {}

-----------------------------------------------------------------------------
(***************************************************************************)
(* "Pinning cannot be undone until the end of the round": a pinned card    *)
(* stays on the table, in its place and pinned, until the table is cleared.*)
(***************************************************************************)
PinnedStays ==
  [][deal'.table # {} =>
       \A slot \in deal.table :
         /\ slot.attackPinned =>
              \E new \in deal'.table : new.attack = slot.attack /\ new.attackPinned
         /\ slot.defencePinned =>
              \E new \in deal'.table :
                /\ new.attack = slot.attack /\ new.defence = slot.defence
                /\ new.defencePinned]_vars
=============================================================================
