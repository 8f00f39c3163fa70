-------------------------------- MODULE Cards --------------------------------
(***************************************************************************)
(* The cards of bardak, the trump and the scale of hung cards ("naves").   *)
(*                                                                         *)
(* A pack holds one joker per player next to the pips.  The ranks of a     *)
(* table and the pack itself are parameters: the program always plays with *)
(* nine ranks, four suits and all 36 + N cards, a model-checking instance  *)
(* with a part of them.                                                    *)
(***************************************************************************)
EXTENDS Integers, Sequences, FiniteSets

CONSTANTS
  N,            \* number of seats at the table, 2..5
  Ranks,        \* the ranks of the pips, ordered as integers (Six = 0, ..., Ace = 8)
  Pack,         \* the cards that are in play at this table
  ScaleRanks,   \* the ranks of the naves scale, lowest first
  None          \* "there is none": no card, no trump, no window, nothing pending

Seats == 0 .. N - 1

\* NobodySeat of player.go: no one hung a joker on this player.
NobodySeat == -1

Suits == {"diamonds", "hearts", "spades", "clubs"}

Pip   == [rank : Ranks, suit : Suits]
Joker == [joker : 1 .. N]
Card  == Pip \cup Joker

IsJoker(c) == c \in Joker

ASSUME CardsAssumption ==
  /\ N \in Nat /\ N >= 2
  /\ Ranks \subseteq Nat
  /\ Pack \subseteq Card /\ IsFiniteSet(Pack)
  /\ ScaleRanks \in Seq(Ranks) /\ ScaleRanks # << >>
  /\ None \notin Card /\ None \notin Suits

-----------------------------------------------------------------------------
\* A joker matches jokers and a pip matches pips of its rank; the suit plays no part.
SameRank(c, e) ==
  \/ IsJoker(c) /\ IsJoker(e)
  \/ c \in Pip /\ e \in Pip /\ c.rank = e.rank

\* The suit the trump does not take: spades, or clubs when spades are trump.
ProtectedSuit(trump) == IF trump = "spades" THEN "clubs" ELSE "spades"

\* Does card c, played in defence, beat the attacking card e?
Beats(trump, c, e) ==
  \/ IsJoker(c)
  \/ /\ c \in Pip /\ e \in Pip
     /\ \/ c.suit = e.suit /\ c.rank > e.rank
        \/ /\ c.suit # e.suit
           /\ e.suit # ProtectedSuit(trump)
           /\ c.suit = trump

-----------------------------------------------------------------------------
\* Levels of the naves scale: -1 is "nothing hung yet", JokerLevel is "the joker is hung".
NoNaves    == -1
JokerLevel == Len(ScaleRanks)
Levels     == NoNaves .. JokerLevel

IsFinished(level)  == level >= JokerLevel
NextIsJoker(level) == level + 1 = JokerLevel

\* The card that "flies" to a player of this level: the next step of his scale.
IsFlyingCard(level, c) ==
  /\ ~IsFinished(level)
  /\ IF NextIsJoker(level)
       THEN IsJoker(c)
       ELSE c \in Pip /\ c.rank = ScaleRanks[level + 2]
=============================================================================
