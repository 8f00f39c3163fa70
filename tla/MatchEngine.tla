------------------------------ MODULE MatchEngine ------------------------------
(***************************************************************************)
(* A match: deals are played until one of them leaves somebody with the    *)
(* joker.                                                                  *)
(*                                                                         *)
(* The levels belong to the match and are carried from deal to deal; a     *)
(* deal works on a copy of its own, on which cards are hung, and gives it  *)
(* back only when it is scored.  Of a deal the match needs no more than    *)
(* DealPromise says, which DealEngine implements.                          *)
(***************************************************************************)
EXTENDS Scoring, DealPromise

CONSTANTS
  MaxDeals   \* bound: deals of a match

ASSUME MatchAssumption == MaxDeals \in Nat \ {0}

VARIABLE match   \* MatchState

-----------------------------------------------------------------------------
\* Everybody starts below the scale, and the first deal is dealt.
MatchInit ==
  \E deal \in Fresh([s \in Seats |-> NoNaves]) :
       match = [phase |-> "IN_DEAL", levels |-> [s \in Seats |-> NoNaves], dealNo |-> 1,
                deal |-> deal, results |-> << >>]

\* The score is taken, and either the match is over or the next deal starts from it.
AfterScore(deal, outcome) ==
  LET levels == [s \in Seats |-> outcome[s].levelAfter]
      scored == [match EXCEPT !.levels = levels, !.deal = deal, !.results = Append(@, outcome)]
  IN IF IsMatchOver(outcome) THEN {[scored EXCEPT !.phase = "MATCH_OVER"]}
     ELSE {[scored EXCEPT !.dealNo = @ + 1, !.deal = next] : next \in Fresh(levels)}

CloseDeal(deal) == UNION {AfterScore(deal, outcome) : outcome \in {Score(deal)}}

InDeal == match.phase = "IN_DEAL" /\ Len(match.results) < MaxDeals

\* A command after which the deal goes on; most change nothing the match knows of.
PlayOn(deal) ==
  /\ deal.stage # "OVER" /\ deal # match.deal
  /\ match' = [match EXCEPT !.deal = deal]

EndDeal(deal) == deal.stage = "OVER" /\ match' \in CloseDeal(deal)

\* Fault: the hands are looked at after every table, not only when a suit was named.
NamesATrumpOrStarts(stage) == stage \in {"DICE", "SUIT", "PLAY"}

\* The event of a named trump is the same at the start of a deal and in the middle of it.
TrumpChosenBy(stage) == stage \in {"DICE", "SUIT"}

\* The suit that was just named nobody holds: another deal, from the levels of the match.
Reshuffle ==
  /\ InDeal
  /\ TrumpChosenBy(match.deal.stage)
  /\ \E deal \in Fresh(match.levels) : match' = [match EXCEPT !.deal = deal]

\* A match that is over rejects every command.
MatchNext ==
  \/ InDeal /\ \E deal \in NextPromises(match.deal) : PlayOn(deal) \/ EndDeal(deal)
  \/ Reshuffle

MatchSpec == MatchInit /\ [][MatchNext]_match

-----------------------------------------------------------------------------
(***************************************************************************)
(* A match that goes on has nobody with the joker: after the four passes   *)
(* whoever is still at the top of the scale has lost the game, and a deal  *)
(* never begins with a player on whom nothing can be hung any more.        *)
(***************************************************************************)
NobodyStartsFinished ==
  match.phase = "IN_DEAL" => \A s \in Seats : ~IsFinished(match.levels[s])

(***************************************************************************)
(* "... works even when the finisher has the joker himself: he gets -1,    *)
(* the joker comes off, and he is no loser any more" (scoring.go:316-318,  *)
(* 03-domain-rules 0.4, case 3): who finished off somebody does not lose   *)
(* with him.                                                               *)
(***************************************************************************)
FinisherIsNoLoser ==
  match.phase = "MATCH_OVER" =>
    LET o == match.results[Len(match.results)]
    IN \A s \in Losers(o) : o[s].changes.FINISHED_OPPONENT = 0

(***************************************************************************)
(* Who loses the game has earned it: the joker was hung on him or he lost  *)
(* the deal one step below it, and he did not leave first.  Who finished   *)
(* off somebody is spared, with one exception: the loser of the deal on    *)
(* whom the joker was hung is one step beyond it, and one reward brings    *)
(* him back no further than to the joker (outcomes: the excess step is     *)
(* dropped only in the fourth pass).  If the loser of the deal is among    *)
(* the losers, the heaviest degree is his, and the summands of every shift *)
(* give the shift.                                                         *)
(***************************************************************************)
LosersDeserveIt ==
  match.phase = "MATCH_OVER" =>
    LET o == match.results[Len(match.results)]
        d == match.deal
    IN /\ Losers(o) # {}
       /\ \A s \in Losers(o) :
            /\ match.levels[s] = JokerLevel
            /\ \/ d.jokerHanger[s] # NobodySeat
               \/ s \in d.inDeal /\ NextIsJoker(o[s].levelBefore)
            /\ o[s].place # 1
            /\ \A t \in Seats :
                 d.jokerHanger[t] = s =>
                   \/ o[t].place = 1
                   \/ /\ s \in d.inDeal /\ d.jokerHanger[s] # NobodySeat
                      /\ o[s].changes.FINISHED_OPPONENT = -1
       /\ d.inDeal \cap Losers(o) # {} => MainLoser(o) \in d.inDeal
       /\ \A s \in Seats :
            Shift(o, s) = o[s].changes.LOST_DEAL + o[s].changes.FIRST_OUT
                          + o[s].changes.FINISHED_OPPONENT + o[s].changes.SCALE_LIMIT

(***************************************************************************)
(* A card that was hung counts until the deal is scored.  Only the hidden  *)
(* joker can take it off before: if nobody holds the suit named for it the *)
(* deal is dealt anew in the middle, hung cards and exits with it          *)
(* (reshuffleIfNobodyHasTrump).                                            *)
(***************************************************************************)
HungLevelsAreKept ==
  [][\A s \in Seats :
       match'.dealNo = match.dealNo /\ match'.phase = "IN_DEAL"
         /\ match'.deal.level[s] < match.deal.level[s] => match.deal.stage = "SUIT"]_match
=============================================================================
