------------------------------- MODULE DealViews -------------------------------
(***************************************************************************)
(* What must be true of the deal as it is shown to its players and as it   *)
(* is kept in the snapshot of the match.                                   *)
(***************************************************************************)
EXTENDS Projection, DealSnapshot

(***************************************************************************)
(* Fog of war: exchange all cards a player cannot see among the places     *)
(* where he cannot see them, and nothing he is shown changes; neither do   *)
(* the moves he is offered, which are found by trying them on a deal with  *)
(* everybody's cards in it.  His own face-down card is hidden from him too *)
(* (StateProjection.Project).                                              *)
(***************************************************************************)
NothingHiddenIsShown ==
  \A viewer \in Seats : Project(Exchanged(deal, viewer), viewer) = Project(deal, viewer)

(***************************************************************************)
(* A match restored from its snapshot goes on with the deal it was left    *)
(* with: who laid which card and who objected to it, who has claimed in    *)
(* the hanging window, and the card that waits for its suit.               *)
(***************************************************************************)
SnapshotIsTheDeal == DecodeDeal(EncodeDeal(deal), deal.discard) = deal

-----------------------------------------------------------------------------
Made(s, a) ==
  \E chooser \in Choosers :
    \/ a.type = "CHOOSE_TRUMP" /\ (ChooseTrump(s, a.suit) \/ ChooseTrumpForHidden(s, a.suit))
    \/ a.type = "ATTACK" /\ Attack(s, a.card, chooser)
    \/ a.type = "TRANSFER" /\ Transfer(s, a.card)
    \/ a.type = "DEFEND" /\ Defend(s, a.card, a.target, chooser)
    \/ a.type = "REVEAL" /\ RevealFaceDown(s, chooser)
    \/ a.type = "REVEAL_TO_DEFEND" /\ RevealToDefend(s, a.target, chooser)
    \/ a.type = "TAKE" /\ Take(s, chooser)
    \/ a.type = "PASS" /\ Pass(s, chooser)
    \/ a.type = "HANG" /\ \E winner \in Seats : HangCard(s, {a.card}, winner, chooser)
    \/ a.type = "HANG_SKIP" /\ \E winner \in Seats : HangSkip(s, winner, chooser)

\* Accepted but never offered: several cards hung at once, the face-down card turned up against
\* a card that does not lie there, and to take a card back or to object to one.
NeverOffered(s) ==
  \E chooser \in Choosers :
    \/ \E cards \in SUBSET deal.hand[s], winner \in Seats :
         Cardinality(cards) > 1 /\ HangCard(s, cards, winner, chooser)
    \/ \E target \in Pack \ AttackCards(deal) : RevealToDefend(s, target, chooser)
    \/ SecondThoughts(s)

OfferedTo(s) ==
  \/ \E a \in AvailableActions(deal, s) : Made(s, a)
  \/ NeverOffered(s)

(***************************************************************************)
(* A client can do no more than it is offered.  Apart from the moves       *)
(* above whatever the engine accepts has been offered to the player who    *)
(* does it, though the projection does not ask the engine what it accepts  *)
(* but tries candidates of its own (candidateCommands).                    *)
(***************************************************************************)
MoveWasOffered ==
  [][\E s \in Seats : OfferedTo(s)]_vars
=============================================================================
