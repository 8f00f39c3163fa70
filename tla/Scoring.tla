-------------------------------- MODULE Scoring --------------------------------
(***************************************************************************)
(* What a finished deal does to the score of the match.                    *)
(*                                                                         *)
(* A player's fate depends on that of others: who hung a joker on somebody *)
(* is rewarded if that one loses the game.  The order of the four passes   *)
(* is the rule: the loser of the deal up and the first one out down, who   *)
(* has lost the game, the rewards, and at last the ends of the scale.      *)
(*                                                                         *)
(* A deal here is any record with the levels, the places of exit, who is   *)
(* left, who hung the jokers, and the eights of the last attack.           *)
(***************************************************************************)
EXTENDS Cards

Degrees == {"NONE", "ROYAL", "SUPER_MEGA_SUCK", "SUPER_MEGA_FAIL", "SUPER_FAIL", "FAIL"}

Weight(degree) ==
  CASE degree = "ROYAL"           -> 1
    [] degree = "SUPER_MEGA_SUCK" -> 2
    [] degree = "SUPER_MEGA_FAIL" -> 3
    [] degree = "SUPER_FAIL"      -> 4
    [] degree = "FAIL"            -> 5
    [] degree = "NONE"            -> 7

\* The first seat that still has cards.
DealLoser(d) == CHOOSE s \in d.inDeal : \A t \in d.inDeal : s <= t

\* Pass 1.
LostDeal(d, s) == IF s = DealLoser(d) THEN 1 ELSE 0
FirstOut(d, s) == IF d.exitPlace[s] = 1 THEN -1 ELSE 0
Shifted(d, s)  == d.level[s] + LostDeal(d, s) + FirstOut(d, s)

\* Fault: only the loser of the deal can lose the game.
LosesTheDealToo(d) == {s \in Seats : s = DealLoser(d) /\ IsFinished(Shifted(d, s))}

\* Pass 2.  Who left first has lost his joker already.
GameLosers(d) == {s \in Seats : IsFinished(Shifted(d, s))}

\* Pass 3.  One step down for each opponent finished off.
Reward(d, s) == -Cardinality({l \in GameLosers(d) : d.jokerHanger[l] = s})

Raw(d, s) == Shifted(d, s) + Reward(d, s)

\* Pass 4.
ClampToScale(level) ==
  IF level < NoNaves THEN NoNaves ELSE IF level > JokerLevel THEN JokerLevel ELSE level

\* The heaviest that fits; the eights count however they were answered.
DegreeFor(d, s) ==
  CASE s # DealLoser(d)                                     -> "FAIL"
    [] s = DealLoser(d) /\ d.eights = "ALL"                 -> "ROYAL"
    [] s = DealLoser(d) /\ d.eights = "SOME"                -> "SUPER_MEGA_SUCK"
    [] s = DealLoser(d) /\ d.eights = "NONE"
         /\ d.jokerHanger[s] # NobodySeat                   -> "SUPER_MEGA_FAIL"
    [] OTHER                                                -> "SUPER_FAIL"

\* Fault: who was saved by a reward is a loser all the same.
DegreeOfPassTwo(d, s) == IF s \in GameLosers(d) THEN DegreeFor(d, s) ELSE "NONE"

\* A reward may have taken the joker off again.
Degree(d, s) ==
  IF s \in GameLosers(d) /\ IsFinished(ClampToScale(Raw(d, s))) THEN DegreeFor(d, s) ELSE "NONE"

\* Who left earlier is placed higher, who is left is last.
PlaceOf(d, s) == IF d.exitPlace[s] = 0 THEN N ELSE d.exitPlace[s]

\* The summands are kept next to the sum.
Changes(d, s) ==
  [LOST_DEAL         |-> LostDeal(d, s),
   FIRST_OUT         |-> FirstOut(d, s),
   FINISHED_OPPONENT |-> Reward(d, s),
   SCALE_LIMIT       |-> ClampToScale(Raw(d, s)) - Raw(d, s)]

Score(d) ==
  [s \in Seats |->
     [levelBefore |-> d.level[s],
      levelAfter  |-> ClampToScale(Raw(d, s)),
      degree      |-> Degree(d, s),
      place       |-> PlaceOf(d, s),
      changes     |-> Changes(d, s)]]

-----------------------------------------------------------------------------
\* Several may lose the game; the match is over when anybody has.
Losers(outcome)      == {s \in Seats : outcome[s].degree # "NONE"}
IsMatchOver(outcome) == Losers(outcome) # {}

\* The heaviest degree; of equals the first seat.
MainLoser(outcome) ==
  CHOOSE s \in Losers(outcome) : \A t \in Losers(outcome) :
    \/ Weight(outcome[s].degree) < Weight(outcome[t].degree)
    \/ Weight(outcome[s].degree) = Weight(outcome[t].degree) /\ s <= t

\* Summands that do not give the sum would make the history of the match unreadable.
Shift(outcome, s) == outcome[s].levelAfter - outcome[s].levelBefore
=============================================================================
