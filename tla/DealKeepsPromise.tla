--------------------------- MODULE DealKeepsPromise ---------------------------
(***************************************************************************)
(* The automaton of a deal implements what it promises to the match.       *)
(***************************************************************************)
EXTENDS DealTimeouts, DealViews

Eight == 2

Stage ==
  CASE deal.phase = "DEAL_OVER"                          -> "OVER"
    [] deal.phase = "DICE" /\ deal.pending = None        -> "DICE"
    [] deal.phase = "DICE" /\ deal.pending # None        -> "SUIT"
    [] OTHER                                             -> "PLAY"

Eights == {c \in deal.lastAttack : c \in Pip /\ c.rank = Eight}

Promised == INSTANCE PromisedDeal WITH
  promise <- [stage       |-> Stage,
              level       |-> deal.level,
              jokerHanger |-> deal.jokerHanger,
              inDeal      |-> deal.inDeal,
              exitPlace   |-> deal.exitPlace,
              deck        |-> ~DeckEmpty(deal),
              eights      |-> IF deal.phase # "DEAL_OVER" \/ Eights = {} THEN "NONE"
                              ELSE IF Cardinality(Eights) = 4 THEN "ALL" ELSE "SOME"]

(***************************************************************************)
(* Whatever is played, a deal changes for the match only at the end of a   *)
(* round: one player is hung one card by another who is still in the deal, *)
(* players leave when the deck is empty and in some order, who was hung a  *)
(* card stays, the last one never leaves, and a suit is waited for only    *)
(* once (DealEngine.Apply and what it composes).                           *)
(***************************************************************************)
KeepsPromise == Promised!PromiseSpec
=============================================================================
