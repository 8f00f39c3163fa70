----------------------------- MODULE DealTimeouts -----------------------------
(***************************************************************************)
(* The clock of a turn: whose turn it is and what the server does for a    *)
(* player who is silent, always the most harmless thing - pass, take, skip *)
(* the hanging, name the suit one holds most of.                           *)
(***************************************************************************)
EXTENDS DealSafety

\* The suits in the order of their declaration; it settles a draw.
SuitOrder == << "diamonds", "hearts", "spades", "clubs" >>

SuitCount(d, s, i) == Cardinality({c \in d.hand[s] : c \in Pip /\ c.suit = SuitOrder[i]})

RichestSuit(d, s) ==
  SuitOrder[CHOOSE i \in 1 .. 4 :
              \A j \in 1 .. 4 : \/ SuitCount(d, s, i) > SuitCount(d, s, j)
                                \/ SuitCount(d, s, i) = SuitCount(d, s, j) /\ i <= j]

Undecided(w) == CurrentStep(w) \ w.decided

\* Fault: in a dispute over the hidden trump the clock runs for the holder of the right.
SeatOnTheClockByRight(d) ==
  CASE d.phase \in {"ATTACK", "TAKING", "DICE"}  -> d.right
    [] d.phase = "DEFEND"                        -> d.defender
    [] d.phase = "HANGING" /\ d.window # None    ->
         IF Undecided(d.window) = {} THEN None ELSE FirstOf(d, Undecided(d.window))
    [] OTHER                                     -> None

SeatOnTheClock(d) ==
  CASE d.phase \in {"ATTACK", "TAKING"}          -> d.right
    [] d.phase = "DEFEND"                        -> d.defender
    [] d.phase = "DICE" /\ d.pending # None      -> d.pending.chooser
    [] d.phase = "DICE" /\ d.pending = None      -> d.right
    [] d.phase = "HANGING" /\ d.window # None    ->
         IF Undecided(d.window) = {} THEN None ELSE FirstOf(d, Undecided(d.window))
    [] OTHER                                     -> None

\* The command the server issues for the silent player, as a step of the deal.
AutoAction(winner, chooser) ==
  LET s == SeatOnTheClock(deal)
  IN /\ s # None
     /\ \/ deal.phase \in {"ATTACK", "TAKING"} /\ Pass(s, chooser)
        \/ deal.phase = "DEFEND" /\ deal.table = {} /\ Pass(s, chooser)
        \/ deal.phase = "DEFEND" /\ deal.table # {} /\ Take(s, chooser)
        \/ HangSkip(s, winner, chooser)
        \/ ChooseTrump(s, RichestSuit(deal, s))
        \/ ChooseTrumpForHidden(s, RichestSuit(deal, s))

AutoActions == \E winner \in Seats, chooser \in Choosers : AutoAction(winner, chooser)

\* Does the engine accept that command?  It is AutoActions being enabled, spelled out.
AutoActionIsAccepted(d) ==
  LET s == SeatOnTheClock(d)
  IN \/ d.phase \in {"ATTACK", "TAKING"} /\ CanPass(d, s)
     \/ d.phase = "DEFEND" /\ d.table = {} /\ CanPass(d, s)
     \/ d.phase = "DEFEND" /\ CanTake(d, s)
     \/ d.phase = "HANGING" /\ MayDecide(d.window, s)
     \/ d.phase = "DICE" /\ s = (IF d.pending = None THEN d.right ELSE d.pending.chooser)

(***************************************************************************)
(* With the clocks on, a silent player does not stop the others: an action *)
(* the engine keeps accepting is performed.  This is WF_vars(AutoActions)  *)
(* with its ENABLED written as above.                                      *)
(***************************************************************************)
ClocksRun == []<>~AutoActionIsAccepted(deal) \/ []<><<AutoActions>>_vars

FairSpec == Spec /\ ClocksRun

-----------------------------------------------------------------------------
\* Would the engine accept a command of seat s that moves the deal on?
MayMove(d, s) ==
  CASE d.phase = "DICE"    -> TRUE
    [] d.phase = "HANGING" -> MayDecide(d.window, s)
    [] OTHER -> \/ CanPass(d, s) \/ CanTake(d, s) \/ CanPlayFaceDown(d, s)
                \/ \E c \in d.hand[s] : CanAttack(d, s, c) \/ CanTransfer(d, s, c)

(***************************************************************************)
(* A deal never stops: until it is over there is a player to wait for and  *)
(* he has a move (match_test.go: "at least one command is accepted in any  *)
(* phase, or the match stands dead"; ADR-051: it is the holder of the turn *)
(* that has it).                                                           *)
(***************************************************************************)
PlayerToMoveCanMove ==
  deal.phase # "DEAL_OVER" =>
    SeatOnTheClock(deal) # None /\ MayMove(deal, SeatOnTheClock(deal))

(***************************************************************************)
(* The clock fails to act in one situation only, and always in that one:   *)
(* the starter of a round has not played yet, holds something to play, and *)
(* is refused the pass (AutoActionFor).  03-domain-rules 5.1 promises that *)
(* when the time is out the server performs the most harmless action for   *)
(* the player; here it performs none.                                      *)
(***************************************************************************)
TimeoutFailsExactlyAtTheOpening ==
  SeatOnTheClock(deal) # None /\ ~AutoActionIsAccepted(deal) <=>
    /\ deal.phase = "ATTACK" /\ deal.table = {}
    /\ deal.right = deal.starter /\ deal.passed = {}
    /\ deal.hand[deal.right] # {} \/ deal.faceDown[deal.right] # None

(***************************************************************************)
(* With the clocks on, a round that has begun is closed, a hanging window  *)
(* is resolved and a disputed trump is named, whatever players fall silent.*)
(***************************************************************************)
TableIsCleared == deal.table # {} ~> deal.table = {}
WindowCloses   == deal.phase = "HANGING" ~> deal.phase # "HANGING"
TrumpIsNamed   == deal.phase = "DICE" ~> deal.phase # "DICE"
=============================================================================
