------------------------------ MODULE DealPromise ------------------------------
(***************************************************************************)
(* What a deal promises to the match that is played with it.               *)
(*                                                                         *)
(* The match looks at a deal only when it is over, and then at little of   *)
(* it: the levels, who hung a joker on whom, who left in which order, and  *)
(* how many eights the last attack had (scoring.go).  This module says how *)
(* these may come about, round by round, without a card being played;      *)
(* DealEngine, which plays them, implements it.                            *)
(*                                                                         *)
(* A deal is over when one player is left; until the deck runs out nobody  *)
(* leaves, and the round in which it runs out may leave a hidden joker     *)
(* behind that waits for a suit.                                           *)
(***************************************************************************)
EXTENDS Cards

\* DICE: the trump is to be named before the first move; SUIT: in the middle of the deal.
Stages == {"DICE", "PLAY", "SUIT", "OVER"}

\* Of the eights it matters whether there are any and whether there are all four.
EightsSeen == {"NONE", "SOME", "ALL"}

Promise ==
  [stage       : Stages,
   level       : [Seats -> Levels],
   jokerHanger : [Seats -> Seats \cup {NobodySeat}],
   inDeal      : SUBSET Seats,
   exitPlace   : [Seats -> 0 .. N],
   deck        : BOOLEAN,       \* are there cards to draw?
   eights      : EightsSeen]    \* in the last attack of a deal that is over

\* Nothing of an earlier deal is left but the levels.
Fresh(levels) ==
  {[stage |-> stage, level |-> levels, jokerHanger |-> [s \in Seats |-> NobodySeat],
    inDeal |-> Seats, exitPlace |-> [s \in Seats |-> 0], deck |-> TRUE, eights |-> "NONE"]
   : stage \in {"DICE", "PLAY"}}

-----------------------------------------------------------------------------
\* Somebody in the deal hangs the next step of his scale on the victim; the last is a joker.
HungOn(d, victim, hanger) ==
  [d EXCEPT !.level[victim]       = @ + 1,
            !.jokerHanger[victim] = IF NextIsJoker(d.level[victim]) THEN hanger ELSE @]

\* The players of S leave one after the other, in any order, after those who are out.
Exits(d, S) ==
  LET out    == N - Cardinality(d.inDeal)
      places == (out + 1) .. (out + Cardinality(S))
  IN {[s \in Seats |-> IF s \in S THEN place[s] ELSE d.exitPlace[s]]
      : place \in {p \in [S -> places] : {p[s] : s \in S} = places}}

Gone(d, S) == {[d EXCEPT !.inDeal = @ \ S, !.exitPlace = f] : f \in Exits(d, S)}
Over(d)    == {[d EXCEPT !.stage = "OVER", !.eights = k] : k \in EightsSeen}

\* Players leave only when there is nothing to draw, and never the last of them.
Left(d, S) ==
  IF Cardinality(d.inDeal \ S) > 1 THEN Gone(d, S) ELSE UNION {Over(o) : o \in Gone(d, S)}

Leaving(d, stay) ==
  IF d.deck THEN {}
  ELSE UNION {Left(d, S) : S \in {T \in SUBSET (d.inDeal \ stay) : T # {} /\ T # d.inDeal}}

RunsOut(d) ==
  IF d.deck THEN {[d EXCEPT !.deck = FALSE, !.stage = stage] : stage \in {"PLAY", "SUIT"}}
  ELSE {}

\* The end of a round whose table nobody, or "stay" as the victim of a hanging, has taken.
RoundEnds(d, stay) == {d} \cup RunsOut(d) \cup Leaving(d, stay)

\* A round that ends with a card hung on the victim, by anybody else.
Hangings(d, victim) ==
  UNION {RoundEnds(HungOn(d, victim, hanger), {victim}) : hanger \in d.inDeal \ {victim}}

\* A round that ends with a card hung, and one that ends without.
Rounds(d) ==
  RoundEnds(d, {})
  \cup UNION {Hangings(d, victim) : victim \in {s \in d.inDeal : ~IsFinished(d.level[s])}}

\* A suit is named, at the start or for the hidden joker.
Named(d) == [d EXCEPT !.stage = "PLAY"]

NextPromises(d) ==
  CASE d.stage = "PLAY"             -> Rounds(d)
    [] d.stage \in {"DICE", "SUIT"} -> {Named(d)}
    [] d.stage = "OVER"             -> {}
=============================================================================
