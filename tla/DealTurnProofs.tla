----------------------------- MODULE DealTurnProofs -----------------------------
(***************************************************************************)
(* The turn, proved for every number of players, every pack and every      *)
(* setting of a table whose players take no card back: a deal never        *)
(* stops, an attack can always be answered, and the clock of a turn has    *)
(* nothing to do in one situation only.                                    *)
(*                                                                         *)
(* With cards taken back none of the three holds; the run recall_freezes   *)
(* shows how a deal stops.                                                 *)
(***************************************************************************)
EXTENDS DealRoundProofs, DealTimeouts

\* The players of the table take no card back.
NothingIsTakenBack == "RECALL" \notin PlayerCommands

-----------------------------------------------------------------------------
\* The parts of the invariant.

\* Whose turn it is has not passed; who has the right although he has passed has it only
\* because nobody else can use it.  Before the first card of a round nobody has passed and
\* the right is with the starter.
HeldRight(d) ==
  /\ d.phase \in {"ATTACK", "TAKING"} => d.right \notin d.passed
  /\ d.phase = "DEFEND" => d.table # {}
  /\ d.phase = "ATTACK" /\ d.table = {} => d.right = d.starter /\ d.passed = {}
  /\ InRound(d) /\ d.right \in d.passed => NextAttacker(d) = None
  /\ d.phase = "DICE" => d.passed = {} /\ (d.pending # None => d.right = d.starter)

\* What lies unbeaten on the table is not more than the defender has cards.
Answered(d) == d.table = {} \/ UnbeatenCount(d) <= DefendableCards(d, d.defender)

\* What every command but a taking back keeps.
Turned(d) == HeldRight(d) /\ Answered(d)

(***************************************************************************)
(* The inductive invariant.  That there is a move needs to know who has    *)
(* cards (RoundInv), and that a pass is refused to nobody whose turn it is.*)
(***************************************************************************)
TurnInv == RoundInv /\ Turned(deal)

\* An empty table: the round has not begun, or the deal waits for something else.
Opened(d) ==
  /\ d.table = {} /\ d.phase \notin {"DEFEND", "TAKING"}
  /\ d.phase = "ATTACK" => d.passed = {} /\ d.right = d.starter
  /\ d.phase = "DICE" => d.passed = {} /\ (d.pending # None => d.right = d.starter)

\* On an empty table there is nothing to answer.
LEMMA OpenedIsTurned ==
  ASSUME NEW d, Opened(d)
  PROVE  Turned(d)
BY DEF Opened, Turned, HeldRight, Answered, InRound

-----------------------------------------------------------------------------
\* The number of cards.

\* What lies unbeaten is finite.
LEMMA UnbeatenFinite ==
  ASSUME NEW d \in Deal, Conserved(d)
  PROVE  /\ IsFiniteSet(d.table) /\ IsFiniteSet(Unbeaten(d))
         /\ Cardinality(d.table) \in Nat /\ UnbeatenCount(d) \in Nat
         /\ UnbeatenCount(d) <= Cardinality(d.table)
<1>1. IsFiniteSet(d.table) /\ Unbeaten(d) \in SUBSET d.table
  BY TableFinite DEF Unbeaten
<1> QED
  BY <1>1, FS_Subset, FS_CardinalityType DEF UnbeatenCount

\* Who has something can answer a card.
LEMMA SomethingAnswers ==
  ASSUME NEW d \in Deal, Conserved(d), NEW s \in Seats
  PROVE  /\ DefendableCards(d, s) \in Nat
         /\ ~HasNothing(d, s) => DefendableCards(d, s) >= 1
<1>1. HandSize(d, s) \in Nat /\ (d.hand[s] # {} => HandSize(d, s) >= 1)
  BY HandFinite
<1> QED
  BY <1>1 DEF DefendableCards, HasNothing

\* How many cards a player can answer with depends on what he has and on the deck.
LEMMA SameAnswers ==
  ASSUME NEW d, NEW e, NEW s, e.hand[s] = d.hand[s], e.faceDown[s] = d.faceDown[s],
         e.deck = d.deck
  PROVE  DefendableCards(e, s) = DefendableCards(d, s)
BY DEF DefendableCards, HandSize, CanPlayFaceDown, DeckEmpty

-----------------------------------------------------------------------------
\* What closes a round leaves an empty table.

\* The next round begins with nobody having passed and the right with the starter.
LEMMA FinishRoundOpens ==
  ASSUME NEW d, Running(d), d.table = {}, NEW taken \in BOOLEAN, NEW chooser \in Seats
  PROVE  Opened(FinishRound(d, taken, chooser))
<1>1. PICK full : full = Refill(d, chooser)
  OBVIOUS
<1>2. PICK left : left = MarkExits(full)
  OBVIOUS
<1>3. Sound(full) /\ full.table = {}
  BY <1>1, RefillKeeps, RefillWrites DEF Running, Sound
<1>4. Sound(left) \/ Cardinality(left.inDeal) <= 1
  BY <1>2, <1>3, MarkExitsKeeps
<1>5. left \in Deal /\ left.table = {}
  BY <1>2, <1>3, MarkExitsWrites DEF SameRound
<1>6. CASE Cardinality(left.inDeal) <= 1
  <2>1. PICK over : over = [left EXCEPT !.phase = "DEAL_OVER"]
    OBVIOUS
  <2>2. FinishRound(d, taken, chooser) = over
    BY <1>1, <1>2, <1>6, <2>1 DEF FinishRound
  <2>3. over.phase = "DEAL_OVER" /\ over.table = {}
    BY <1>5, <2>1 DEF Deal
  <2> QED
    BY <2>2, <2>3 DEF Opened
<1>7. CASE ~(Cardinality(left.inDeal) <= 1)
  <2>1. PICK next : next = StartNextRound(left, taken)
    OBVIOUS
  <2>2. FinishRound(d, taken, chooser) = next
    BY <1>1, <1>2, <1>7, <2>1 DEF FinishRound
  <2>3. /\ next.right = next.starter /\ next.passed = {} /\ next.table = {}
        /\ next.phase \in {"ATTACK", "DICE"}
    BY <1>4, <1>5, <1>7, <2>1, StartNextRoundWrites
  <2> QED
    BY <2>2, <2>3 DEF Opened
<1> QED
  BY <1>6, <1>7

\* A beaten round is over.
LEMMA RoundBeatenOpens ==
  ASSUME NEW d, Running(d), NEW chooser \in Seats
  PROVE  Opened(RoundBeaten(d, chooser))
<1>1. PICK e : e = ClearTable(d, TRUE)
  OBVIOUS
<1>2. d \in Deal
  BY DEF Running, Sound, WellFormed
<1>3. Running(e) /\ e.table = {}
  BY <1>1, <1>2, ClearTableKeeps, ClearTableWritesRound
<1>4. RoundBeaten(d, chooser) = FinishRound(e, FALSE, chooser)
  BY <1>1 DEF RoundBeaten
<1> QED
  BY <1>3, <1>4, FinishRoundOpens

\* The table taken up, the round is over, or the window opens.
LEMMA CollectTableOpens ==
  ASSUME NEW d, Running(d), NEW chooser \in Seats
  PROVE  Opened(CollectTable(d, chooser))
<1> DEFINE hand == [d.hand EXCEPT ![d.defender] = @ \cup TableCards(d)]
<1>1. d \in Deal /\ hand \in [Seats -> SUBSET Card]
  <2>1. d \in Deal
    BY DEF Running, Sound, WellFormed
  <2>2. TableCards(d) \in SUBSET Card /\ d.hand \in [Seats -> SUBSET Card]
    BY <2>1, TableIsCards DEF Deal
  <2> QED
    BY <2>1, <2>2
<1>2. PICK t : t = [d EXCEPT !.hand = hand]
  OBVIOUS
<1>3. Running(t) /\ t \in Deal
  <2> HIDE DEF hand
  <2>1. Running(t)
    BY <1>1, <1>2, HandKeeps
  <2> QED
    BY <2>1 DEF Running, Sound, WellFormed
<1>4. PICK e : e = ClearTable(t, FALSE)
  OBVIOUS
<1>5. Running(e) /\ e \in Deal /\ e.table = {}
  <2>1. Running(e) /\ e.table = {}
    BY <1>3, <1>4, ClearTableKeeps, ClearTableWritesRound
  <2> QED
    BY <2>1 DEF Running, Sound, WellFormed
<1>6. CollectTable(d, chooser) = OpenHangingWindow(e, chooser)
  BY <1>2, <1>4 DEF CollectTable
<1>7. PICK r : r = OpenHangingWindow(e, chooser)
  OBVIOUS
<1>8. PICK window : window = [victim    |-> e.defender,
                              steps     |-> HangingSteps(e, e.defender),
                              stepIndex |-> 1,
                              claims    |-> {},
                              decided   |-> {},
                              everyone  |-> IsEveryClaimantHanging(e, e.defender)]
  OBVIOUS
<1>9. \/ r = FinishRound(e, TRUE, chooser)
      \/ r = [e EXCEPT !.phase = "HANGING", !.window = window]
  BY <1>7, <1>8 DEF OpenHangingWindow
<1>10. CASE r = FinishRound(e, TRUE, chooser)
  BY <1>5, <1>6, <1>7, <1>10, FinishRoundOpens
<1>11. CASE r = [e EXCEPT !.phase = "HANGING", !.window = window]
  <2>1. r.phase = "HANGING" /\ r.table = {}
    BY <1>5, <1>11 DEF Deal
  <2> QED
    BY <1>6, <1>7, <2>1 DEF Opened
<1> QED
  BY <1>9, <1>10, <1>11

\* The window closes with the end of the round.
LEMMA CloseWindowOpens ==
  ASSUME NEW d, Going(d), d.table = {}, NEW chooser \in Seats
  PROVE  Opened(CloseWindow(d, chooser))
<1>1. PICK r : r = [d EXCEPT !.window = None]
  OBVIOUS
<1>2. Running(r) /\ r.table = {}
  <2>1. Running(r)
    BY <1>1, WindowKeeps DEF Going
  <2> QED
    BY <1>1, <2>1 DEF Going, Running, Sound, WellFormed, Deal
<1>3. CloseWindow(d, chooser) = FinishRound(r, TRUE, chooser)
  BY <1>1 DEF CloseWindow
<1> QED
  BY <1>2, <1>3, FinishRoundOpens

\* While it is open the table is empty, whatever is decided.
LEMMA AdvanceWindowOpens ==
  ASSUME NEW d, Deciding(d), NEW winner, NEW chooser \in Seats
  PROVE  Opened(AdvanceWindow(d, winner, chooser))
<1>1. PICK chosen : chosen = IF d.window.everyone \/ Cardinality(d.window.claims) = 1
                               THEN d.window.claims
                               ELSE {cl \in d.window.claims : cl.seat = winner}
  OBVIOUS
<1>2. PICK next : next = [d.window EXCEPT !.stepIndex = @ + 1, !.claims = {}, !.decided = {}]
  OBVIOUS
<1>3. PICK later : later = [d EXCEPT !.window = next]
  OBVIOUS
<1>4. PICK r : r = AdvanceWindow(d, winner, chooser)
  OBVIOUS
<1>5. \/ r = d \/ r = later
      \/ r = CloseWindow(d, chooser) \/ r = CloseWindow(HungBy(d, chosen), chooser)
  BY <1>1, <1>2, <1>3, <1>4 DEF AdvanceWindow
<1>6. Going(d) /\ d \in Deal /\ d.table = {} /\ d.phase = "HANGING" /\ chosen \in SUBSET Claim
  BY <1>1 DEF Deciding, Going, Running, Sound, WellFormed, WindowOpen, Window
<1>7. later.table = {} /\ later.phase = "HANGING"
  BY <1>3, <1>6 DEF Deal
<1>8. Opened(CloseWindow(d, chooser))
  BY <1>6, CloseWindowOpens
<1>9. Opened(CloseWindow(HungBy(d, chosen), chooser))
  BY <1>6, HungByWritesRound, CloseWindowOpens DEF Deciding
<1>10. Opened(d) /\ Opened(later)
  BY <1>6, <1>7 DEF Opened
<1> QED
  BY <1>4, <1>5, <1>8, <1>9, <1>10

-----------------------------------------------------------------------------
\* Pass, attack and take.

\* To whom the right goes does not depend on the phase or on who has it.
LEMMA SameAttackNext ==
  ASSUME NEW d, NEW e, SameAttack(d, e)
  PROVE  /\ e.passed = d.passed => NextAttacker(e) = NextAttacker(d)
         /\ Answered(d) => Answered(e)
<1>1. e.passed = d.passed => \A s : EligibleAttacker(e, s) = EligibleAttacker(d, s)
  BY SameAttackFacts DEF EligibleAttacker, SameAttack
<1>2. SecondNeighbour(e) = SecondNeighbour(d) /\ e.starter = d.starter
  BY SameAttackFacts DEF SameAttack
<1>3. UnbeatenCount(e) = UnbeatenCount(d)
  BY SameAttackFacts DEF UnbeatenCount
<1>4. DefendableCards(e, e.defender) = DefendableCards(d, d.defender) /\ e.table = d.table
  BY SameAnswers DEF SameAttack
<1> QED
  BY <1>1, <1>2, <1>3, <1>4 DEF NextAttacker, Answered

\* After a pass it is the turn of somebody who has not passed, or the round is over.
LEMMA PassedTurns ==
  ASSUME NEW d, Going(d), InRound(d), d.table # {}, Answered(d),
         NEW s \in Seats, d.right = s, NEW chooser \in Seats
  PROVE  Turned(Passed(d, s, chooser))
<1>1. PICK after : after = [d EXCEPT !.passed = @ \cup {s}]
  OBVIOUS
<1>2. PICK next : next = NextAttacker(after)
  OBVIOUS
<1>3. d \in Deal /\ Running(d) /\ d.inDeal # {}
  BY DEF Going, Running, Sound, WellFormed, Deal
<1>4. /\ after \in Deal /\ SameFrame(d, after) /\ SameAttack(d, after)
      /\ after.phase = d.phase /\ after.right = s /\ after.passed = d.passed \cup {s}
  <2>1. d.passed \cup {s} \in SUBSET Seats
    BY <1>3 DEF Deal
  <2> QED
    BY <1>1, <1>3, <2>1 DEF Deal, SameFrame, SameAttack
<1>5. Running(after) /\ Answered(after)
  BY <1>3, <1>4, FrameKeeps, SameAttackNext
<1>6. CASE next # None
  <2>1. PICK phase : phase = IF d.phase = "TAKING" THEN "TAKING"
                             ELSE IF Unbeaten(d) # {} THEN "DEFEND" ELSE "ATTACK"
    OBVIOUS
  <2>2. PICK r : r = [after EXCEPT !.right = next, !.phase = phase]
    OBVIOUS
  <2>3. Passed(d, s, chooser) = r
    BY <1>1, <1>2, <1>4, <1>6, <2>1, <2>2 DEF Passed
  <2>4. /\ SameAttack(after, r) /\ r.right = next /\ r.phase = phase
        /\ r.passed = after.passed
    BY <1>4, <2>2 DEF Deal, SameAttack
  <2>5. next \notin after.passed
    BY <1>2, <1>3, <1>4, <1>6, NextAttackerIsEligible DEF SameAttack, EligibleAttacker
  <2>6. r.table # {} /\ phase \in {"ATTACK", "DEFEND", "TAKING"}
    BY <1>4, <2>1, <2>4 DEF SameAttack
  <2>7. HeldRight(r)
    BY <2>4, <2>5, <2>6 DEF HeldRight
  <2>8. Answered(r)
    BY <1>5, <2>4, SameAttackNext
  <2> QED
    BY <2>3, <2>7, <2>8 DEF Turned
<1>7. CASE next = None /\ d.phase = "TAKING"
  <2>1. Passed(d, s, chooser) = CollectTable(after, chooser)
    BY <1>1, <1>2, <1>4, <1>7 DEF Passed
  <2> QED
    BY <1>5, <2>1, CollectTableOpens, OpenedIsTurned
<1>8. CASE next = None /\ d.phase # "TAKING" /\ Unbeaten(d) # {}
  <2>1. PICK r : r = [after EXCEPT !.phase = "DEFEND"]
    OBVIOUS
  <2>2. Passed(d, s, chooser) = r
    BY <1>1, <1>2, <1>4, <1>8, <2>1 DEF Passed
  <2>3. /\ SameAttack(after, r) /\ r.phase = "DEFEND" /\ r.passed = after.passed
    BY <1>4, <2>1 DEF Deal, SameAttack
  <2>4. NextAttacker(r) = None /\ Answered(r) /\ r.table # {}
    BY <1>2, <1>4, <1>5, <1>8, <2>3, SameAttackNext DEF SameAttack
  <2>5. HeldRight(r)
    BY <2>3, <2>4 DEF HeldRight
  <2> QED
    BY <2>2, <2>4, <2>5 DEF Turned
<1>9. CASE next = None /\ d.phase # "TAKING" /\ Unbeaten(d) = {}
  <2>1. Passed(d, s, chooser) = RoundBeaten(after, chooser)
    BY <1>1, <1>2, <1>4, <1>9 DEF Passed
  <2> QED
    BY <1>5, <2>1, RoundBeatenOpens, OpenedIsTurned
<1> QED
  BY <1>6, <1>7, <1>8, <1>9

\* A card is laid only if the defender has one more to answer with.
LEMMA AttackedTurns ==
  ASSUME NEW d, RoundGoes(d), Conserved(d), NEW s \in Seats, NEW c, CanAttack(d, s, c),
         NEW chooser \in Seats
  PROVE  Turned(Attacked(d, s, c, chooser))
<1> DEFINE hand  == [d.hand EXCEPT ![s] = @ \ {c}]
           table == d.table \cup {NewSlot(c, s)}
           phase == IF d.phase = "TAKING" THEN "TAKING" ELSE "DEFEND"
<1>1. /\ d \in Deal /\ Running(d) /\ d.hand \in [Seats -> SUBSET Card] /\ c \in Card
      /\ d.right = s /\ s \notin d.passed /\ d.right # d.defender /\ d.defender \in Seats
  BY DEF RoundGoes, RoundCore, Roles, Going, Running, Sound, WellFormed, Deal, CanAttack
<1>2. /\ hand \in [Seats -> SUBSET Card] /\ table \in SUBSET Slot /\ phase \in Phases
      /\ hand[d.defender] = d.hand[d.defender]
  BY <1>1, NewSlotType DEF Deal, Phases
<1>3. PICK laid : laid = [d EXCEPT !.hand = hand, !.table = table, !.phase = phase]
  OBVIOUS
<1>4. /\ laid \in Deal /\ SameFrame(d, laid)
      /\ laid.hand = hand /\ laid.table = table /\ laid.phase = phase
      /\ laid.right = s /\ laid.passed = d.passed /\ laid.defender = d.defender
      /\ laid.exitPlace = d.exitPlace /\ laid.trump = d.trump
  <2> HIDE DEF hand, table, phase
  <2> QED
    BY <1>1, <1>2, <1>3 DEF Deal, SameFrame
<1>5. Attacked(d, s, c, chooser) = IF HasNothing(laid, s) THEN Passed(laid, s, chooser)
                                   ELSE laid
  BY <1>3, <1>4 DEF Attacked, HasNothing
<1>6. phase \in {"DEFEND", "TAKING"}
  OBVIOUS
<1> HIDE DEF hand, phase
<1>7. Going(laid) /\ InRound(laid)
  <2>1. Running(laid)
    BY <1>1, <1>4, FrameKeeps
  <2> QED
    BY <1>4, <1>6, <2>1 DEF RoundGoes, Going, Exits, SameFrame, InRound
<1>8. UnbeatenCount(laid) <= UnbeatenCount(d) + 1
  <2>1. ~IsBeaten(NewSlot(c, s))
    BY DEF NewSlot, IsBeaten
  <2>2. Unbeaten(laid) = Unbeaten(d) \cup {NewSlot(c, s)}
    BY <1>4, <2>1 DEF Unbeaten
  <2>3. IsFiniteSet(Unbeaten(d)) /\ UnbeatenCount(d) \in Nat
    BY <1>1, UnbeatenFinite
  <2>4. \/ Cardinality(Unbeaten(laid)) = Cardinality(Unbeaten(d))
        \/ Cardinality(Unbeaten(laid)) = Cardinality(Unbeaten(d)) + 1
    BY <2>2, <2>3, FS_AddElement
  <2> QED
    BY <2>3, <2>4 DEF UnbeatenCount
<1>9. Answered(laid)
  <2>1. DefendableCards(laid, laid.defender) = DefendableCards(d, d.defender)
    BY <1>2, <1>4, SameAnswers DEF SameFrame
  <2>2. UnbeatenCount(d) + 1 <= DefendableCards(d, d.defender)
    BY DEF CanAttack
  <2>3. IsFiniteSet(Unbeaten(d)) /\ UnbeatenCount(d) \in Nat
    BY <1>1, UnbeatenFinite
  <2>4. UnbeatenCount(laid) \in Nat
    <3>1. ~IsBeaten(NewSlot(c, s))
      BY DEF NewSlot, IsBeaten
    <3>2. Unbeaten(laid) = Unbeaten(d) \cup {NewSlot(c, s)}
      BY <1>4, <3>1 DEF Unbeaten
    <3>3. IsFiniteSet(Unbeaten(laid))
      BY <2>3, <3>2, FS_AddElement
    <3> QED
      BY <3>3, FS_CardinalityType DEF UnbeatenCount
  <2>5. DefendableCards(d, d.defender) \in Nat
    BY <1>1, SomethingAnswers
  <2> QED
    BY <1>8, <2>1, <2>2, <2>3, <2>4, <2>5 DEF Answered
<1>10. laid.table # {}
  BY <1>4
<1>11. CASE HasNothing(laid, s)
  BY <1>4, <1>5, <1>7, <1>9, <1>10, <1>11, PassedTurns
<1>12. CASE ~HasNothing(laid, s)
  <2>1. HeldRight(laid)
    BY <1>1, <1>4, <1>6, <1>10 DEF HeldRight
  <2> QED
    BY <1>5, <1>9, <1>12, <2>1 DEF Turned
<1> QED
  BY <1>11, <1>12

\* Who may throw in after "take" has not passed.
LEMMA TakenTurns ==
  ASSUME NEW d, RoundGoes(d), HeldRight(d), Answered(d), d.table # {}, NEW chooser \in Seats
  PROVE  Turned(Taken(d, chooser))
<1>1. PICK t : t = [d EXCEPT !.phase = "TAKING"]
  OBVIOUS
<1>2. d \in Deal /\ Running(d)
  BY DEF RoundGoes, Going, Running, Sound, WellFormed
<1>3. /\ t \in Deal /\ SameAttack(d, t) /\ SameFrame(d, t) /\ t.phase = "TAKING"
      /\ t.right = d.right /\ t.passed = d.passed
  BY <1>1, <1>2 DEF Deal, SameAttack, SameFrame, Phases
<1>4. Running(t) /\ Answered(t) /\ NextAttacker(t) = NextAttacker(d)
  BY <1>2, <1>3, FrameKeeps, SameAttackNext
<1>5. CASE NextAttacker(t) # None
  <2>1. Taken(d, chooser) = t
    BY <1>1, <1>5 DEF Taken
  <2>2. t.right \notin t.passed
    BY <1>3, <1>4, <1>5 DEF RoundGoes, HeldRight
  <2>3. HeldRight(t)
    BY <1>3, <2>2 DEF HeldRight
  <2> QED
    BY <1>4, <2>1, <2>3 DEF Turned
<1>6. CASE NextAttacker(t) = None
  <2>1. Taken(d, chooser) = CollectTable(t, chooser)
    BY <1>1, <1>6 DEF Taken
  <2> QED
    BY <1>4, <2>1, CollectTableOpens, OpenedIsTurned
<1> QED
  BY <1>5, <1>6

-----------------------------------------------------------------------------
\* Defence and transfer.

\* If nobody could use the right and nobody got anything to use it with, nobody can.
LEMMA NobodyGetsTheRight ==
  ASSUME NEW d \in Deal, d.inDeal # {}, NEW e, NextAttacker(d) = None,
         e.inDeal = d.inDeal, e.starter = d.starter, e.defender = d.defender,
         \A x \in d.inDeal : EligibleAttacker(e, x) => EligibleAttacker(d, x)
  PROVE  NextAttacker(e) = None
<1>1. ~EligibleAttacker(d, d.starter) /\ ~EligibleAttacker(d, SecondNeighbour(d))
  BY NextAttackerIsEligible
<1>2. SecondNeighbour(e) = SecondNeighbour(d)
  BY SameCircle DEF SecondNeighbour
<1>3. ~EligibleAttacker(e, e.starter) /\ ~EligibleAttacker(e, SecondNeighbour(e))
  BY <1>1, <1>2 DEF EligibleAttacker
<1> QED
  BY <1>3 DEF NextAttacker

\* A card played in defence is one card less in the hand and one less to be answered.
LEMMA BeatenAnswers ==
  ASSUME NEW d \in Deal, Conserved(d), NEW s \in Seats, NEW c \in d.hand[s],
         NEW target, \E slot \in Unbeaten(d) : slot.attack = target,
         d.defender = s, Answered(d),
         NEW e \in Deal, e.table = BeatenTable(d, s, c, target), e.defender = s,
         e.hand[s] = d.hand[s] \ {c}
  PROVE  Answered(e)
<1>1. PICK old \in d.table : \E new :
        /\ old.defence = None /\ new.attack = old.attack /\ new.defence = c
        /\ e.table = (d.table \ {old}) \cup {new}
  BY TargetIsBeaten
<1>2. PICK new : /\ old.defence = None /\ new.defence = c
                 /\ e.table = (d.table \ {old}) \cup {new}
  BY <1>1
<1>3. c # None
  BY CardsAssumption DEF Deal
<1>4. Unbeaten(e) = Unbeaten(d) \ {old} /\ old \in Unbeaten(d)
  BY <1>2, <1>3 DEF Unbeaten, IsBeaten
<1>5. IsFiniteSet(Unbeaten(d)) /\ UnbeatenCount(d) \in Nat
  BY UnbeatenFinite
<1>6. UnbeatenCount(e) = UnbeatenCount(d) - 1
  BY <1>4, <1>5, FS_RemoveElement DEF UnbeatenCount
<1>7. IsFiniteSet(d.hand[s]) /\ HandSize(d, s) \in Nat
  BY HandFinite
<1>8. HandSize(e, s) = HandSize(d, s) - 1
  <2>1. PICK held : held = d.hand[s]
    OBVIOUS
  <2>2. IsFiniteSet(held) /\ c \in held
    BY <1>7, <2>1
  <2>3. Cardinality(held \ {c}) = Cardinality(held) - 1
    BY <2>2, FS_RemoveElement
  <2> QED
    BY <2>1, <2>3 DEF HandSize
<1>9. UnbeatenCount(d) <= DefendableCards(d, s)
  BY <1>2 DEF Answered
<1>10. DefendableCards(d, s) = HandSize(d, s)
  BY <1>7 DEF DefendableCards, CanPlayFaceDown
<1>11. \/ DefendableCards(e, s) = HandSize(e, s) + 0
       \/ DefendableCards(e, s) = HandSize(e, s) + 1
  BY DEF DefendableCards
<1>12. UnbeatenCount(e) <= DefendableCards(e, s)
  <2> HIDE DEF UnbeatenCount, HandSize, DefendableCards
  <2> QED
    BY <1>5, <1>6, <1>7, <1>8, <1>9, <1>10, <1>11
<1> QED
  BY <1>12 DEF Answered

\* After a defence the turn is where it can be used.
LEMMA DefendedTurns ==
  ASSUME NEW d, RoundGoes(d), Conserved(d), Turned(d), NEW s \in Seats, NEW c,
         NEW target, CanDefend(d, s, c, target), NEW chooser \in Seats
  PROVE  Turned(Defended(d, s, c, target, chooser))
<1> DEFINE hand  == [d.hand EXCEPT ![s] = @ \ {c}]
           table == BeatenTable(d, s, c, target)
<1>1. /\ d \in Deal /\ Running(d) /\ d.hand \in [Seats -> SUBSET Card]
      /\ d.table \in SUBSET Slot /\ d.inDeal \in SUBSET Seats /\ d.inDeal # {}
  BY DEF RoundGoes, Going, Running, Sound, WellFormed, Deal
<1>2. /\ d.defender = s /\ c \in d.hand[s] /\ c \in Card
      /\ \E slot \in Unbeaten(d) : slot.attack = target
  BY <1>1 DEF CanDefend
<1>3. /\ hand \in [Seats -> SUBSET Card] /\ hand[s] = d.hand[s] \ {c}
      /\ \A u \in Seats : u # s => hand[u] = d.hand[u]
  BY <1>1
<1>4. table \in SUBSET Slot /\ table # {}
  <2>1. \A slot \in Slot : [slot EXCEPT !.defence = c, !.defenceBy = s] \in Slot
    BY <1>2 DEF Slot
  <2>2. table \in SUBSET Slot
    BY <1>1, <2>1 DEF BeatenTable
  <2>3. \E slot \in d.table : TRUE
    BY <1>2 DEF Unbeaten
  <2> QED
    BY <2>2, <2>3 DEF BeatenTable
<1>5. PICK after : after = [d EXCEPT !.hand = hand, !.table = table, !.anyBeaten = TRUE]
  OBVIOUS
<1>6. Defended(d, s, c, target, chooser) =
        IF Unbeaten(after) # {} THEN [after EXCEPT !.phase = "DEFEND"]
        ELSE IF NextAttacker([after EXCEPT !.phase = "ATTACK"]) # None
        THEN [[after EXCEPT !.phase = "ATTACK"] EXCEPT
                !.right = NextAttacker([after EXCEPT !.phase = "ATTACK"])]
        ELSE RoundBeaten([after EXCEPT !.phase = "ATTACK"], chooser)
  BY <1>5 DEF Defended, BeatenTable
<1> HIDE DEF hand, table
<1>7. /\ after \in Deal /\ after.hand = hand /\ after.table = table
      /\ SameFrame(d, after) /\ after.starter = d.starter /\ after.right = d.right
      /\ after.defender = s /\ after.passed = d.passed /\ after.deck = d.deck
      /\ after.faceDown = d.faceDown /\ after.inDeal = d.inDeal
  BY <1>1, <1>2, <1>3, <1>4, <1>5 DEF Deal, SameFrame
<1>8. Running(after)
  BY <1>1, <1>7, FrameKeeps
<1>9. Answered(after)
  BY <1>1, <1>2, <1>3, <1>7, BeatenAnswers DEF table, Turned
<1>10. d.right \in d.passed => NextAttacker(after) = None
  <2> SUFFICES ASSUME d.right \in d.passed  PROVE NextAttacker(after) = None
    OBVIOUS
  <2>1. NextAttacker(d) = None
    BY DEF Turned, HeldRight, RoundGoes
  <2>2. \A x \in d.inDeal : EligibleAttacker(after, x) => EligibleAttacker(d, x)
    BY <1>1, <1>2, <1>3, <1>7 DEF EligibleAttacker, CanPlayFaceDown, DeckEmpty
  <2> QED
    BY <1>1, <1>2, <1>7, <2>1, <2>2, NobodyGetsTheRight
<1>11. PICK open : open = [after EXCEPT !.phase = "ATTACK"]
  OBVIOUS
<1>12. /\ open \in Deal /\ SameAttack(after, open) /\ SameFrame(after, open)
       /\ open.phase = "ATTACK" /\ open.passed = d.passed
  BY <1>7, <1>11 DEF Deal, SameAttack, SameFrame, Phases
<1>13. CASE Unbeaten(after) # {}
  <2>1. PICK r : r = [after EXCEPT !.phase = "DEFEND"]
    OBVIOUS
  <2>2. /\ SameAttack(after, r) /\ r.phase = "DEFEND" /\ r.right = d.right
        /\ r.passed = d.passed /\ r.table # {}
    BY <1>4, <1>7, <2>1 DEF Deal, SameAttack
  <2>3. Answered(r) /\ NextAttacker(r) = NextAttacker(after)
    BY <1>7, <1>9, <2>2, SameAttackNext
  <2>4. HeldRight(r)
    BY <1>10, <2>2, <2>3 DEF HeldRight
  <2> QED
    BY <1>6, <1>13, <2>1, <2>3, <2>4 DEF Turned
<1>14. CASE Unbeaten(after) = {} /\ NextAttacker(open) # None
  <2>1. PICK next : next = NextAttacker(open)
    OBVIOUS
  <2>2. PICK r : r = [open EXCEPT !.right = next]
    OBVIOUS
  <2>3. /\ SameAttack(open, r) /\ r.phase = "ATTACK" /\ r.right = next
        /\ r.passed = open.passed
    BY <1>12, <2>2 DEF Deal, SameAttack
  <2>4. next \notin open.passed
    BY <1>1, <1>7, <1>12, <1>14, <2>1, NextAttackerIsEligible
       DEF SameAttack, EligibleAttacker
  <2>5. r.table # {}
    BY <1>4, <1>7, <1>12, <2>3 DEF SameAttack
  <2>6. HeldRight(r)
    BY <2>3, <2>4, <2>5 DEF HeldRight
  <2>7. Answered(r)
    BY <1>9, <1>12, <2>3, SameAttackNext
  <2> QED
    BY <1>6, <1>11, <1>14, <2>1, <2>2, <2>6, <2>7 DEF Turned
<1>15. CASE Unbeaten(after) = {} /\ NextAttacker(open) = None
  <2>1. Defended(d, s, c, target, chooser) = RoundBeaten(open, chooser)
    BY <1>6, <1>11, <1>15
  <2>2. Running(open)
    BY <1>8, <1>12, FrameKeeps
  <2> QED
    BY <2>1, <2>2, RoundBeatenOpens, OpenedIsTurned
<1> QED
  BY <1>13, <1>14, <1>15

\* An attack goes on only to who can answer all of it.
LEMMA TransferredTurns ==
  ASSUME NEW d, RoundGoes(d), Conserved(d), NEW s \in Seats, NEW c, CanTransfer(d, s, c)
  PROVE  Turned(Transferred(d, s, c))
<1> DEFINE hand  == [d.hand EXCEPT ![s] = @ \ {c}]
           table == d.table \cup {NewSlot(c, s)}
<1>1. /\ d \in Deal /\ d.hand \in [Seats -> SUBSET Card] /\ d.inDeal \in SUBSET Seats
      /\ d.inDeal # {} /\ d.defender = s /\ s \in d.inDeal /\ d.starter \in d.inDeal \ {s}
      /\ DefendableCards(d, NextActive(d, s)) >= Cardinality(d.table) + 1
  BY DEF RoundGoes, RoundCore, Roles, Going, Running, Sound, WellFormed, Deal, CanTransfer
<1>2. PICK n : n = NextActive(d, s)
  OBVIOUS
<1>3. n \in Seats /\ n # s
  BY <1>1, <1>2, NextIsNearest
<1>4. hand[n] = d.hand[n]
  BY <1>1, <1>3
<1>5. PICK r : r = [d EXCEPT !.hand = hand, !.table = table, !.starter = s, !.right = s,
                             !.defender = n, !.passed = {}, !.phase = "DEFEND"]
  OBVIOUS
<1>6. Transferred(d, s, c) = r
  BY <1>2, <1>5 DEF Transferred
<1> HIDE DEF hand
<1>7. /\ r.hand = hand /\ r.table = table /\ r.defender = n /\ r.passed = {}
      /\ r.phase = "DEFEND" /\ r.deck = d.deck /\ r.faceDown = d.faceDown
  <2> HIDE DEF table
  <2> QED
    BY <1>1, <1>5 DEF Deal
<1>8. HeldRight(r)
  BY <1>7 DEF HeldRight
<1>9. IsFiniteSet(d.table) /\ Cardinality(d.table) \in Nat
  BY <1>1, UnbeatenFinite
<1>10. /\ IsFiniteSet(table) /\ Cardinality(table) \in Nat
       /\ Cardinality(table) <= Cardinality(d.table) + 1
  <2>1. IsFiniteSet(table)
    BY <1>9, FS_AddElement
  <2>2. \/ Cardinality(table) = Cardinality(d.table)
        \/ Cardinality(table) = Cardinality(d.table) + 1
    BY <1>9, FS_AddElement
  <2> HIDE DEF table
  <2>3. Cardinality(table) \in Nat
    BY <2>1, FS_CardinalityType
  <2> QED
    BY <1>9, <2>1, <2>2, <2>3
<1> HIDE DEF table
<1>11. Unbeaten(r) \in SUBSET table
  BY <1>7 DEF Unbeaten
<1>12. UnbeatenCount(r) \in Nat /\ UnbeatenCount(r) <= Cardinality(table)
  BY <1>10, <1>11, FS_Subset, FS_CardinalityType DEF UnbeatenCount
<1>13. DefendableCards(r, n) = DefendableCards(d, n)
  BY <1>4, <1>7, SameAnswers
<1>14. DefendableCards(d, n) \in Nat
  BY <1>1, <1>3, SomethingAnswers
<1>15. UnbeatenCount(r) <= DefendableCards(r, n)
  BY <1>1, <1>2, <1>9, <1>10, <1>12, <1>13, <1>14
<1> QED
  BY <1>6, <1>7, <1>8, <1>15 DEF Turned, Answered

-----------------------------------------------------------------------------
\* The face-down card and the objections.

\* Turned up, the face-down card is a card of the hand and no more to answer.
LEMMA RevealedTurns ==
  ASSUME NEW d, Moving(d), Turned(d), NEW s \in Seats, CanPlayFaceDown(d, s)
  PROVE  Turned(Revealed(d, s))
<1> DEFINE hand     == [d.hand EXCEPT ![s] = @ \cup {d.faceDown[s]}]
           faceDown == [d.faceDown EXCEPT ![s] = None]
<1>1. /\ d \in Deal /\ d.hand \in [Seats -> SUBSET Card] /\ d.defender \in Seats
      /\ d.faceDown \in [Seats -> Card \cup {None}] /\ d.inDeal \in SUBSET Seats
      /\ d.inDeal # {} /\ d.phase \notin {"DEAL_OVER", "DICE"}
  BY DEF Moving, Running, Sound, WellFormed, Deal
<1>2. PICK r : r = Revealed(d, s)
  OBVIOUS
<1>3. r = [d EXCEPT !.hand = hand, !.faceDown = faceDown]
  BY <1>2 DEF Revealed
<1>4. /\ r.hand = hand /\ r.faceDown = faceDown /\ r.phase = d.phase /\ r.table = d.table
      /\ r.deck = d.deck /\ r.starter = d.starter /\ r.right = d.right
      /\ r.defender = d.defender /\ r.passed = d.passed /\ r.inDeal = d.inDeal
      /\ r.pending = d.pending
  <2> HIDE DEF hand, faceDown
  <2> QED
    BY <1>1, <1>3 DEF Deal
<1>5. /\ d.hand[s] = {} /\ hand[s] = {d.faceDown[s]} /\ faceDown[s] = None
      /\ \A u \in Seats : u # s => hand[u] = d.hand[u] /\ faceDown[u] = d.faceDown[u]
  BY <1>1 DEF CanPlayFaceDown
<1> HIDE DEF hand, faceDown
<1>6. InRound(d) /\ d.right \in d.passed => NextAttacker(r) = None
  <2> SUFFICES ASSUME InRound(d), d.right \in d.passed  PROVE NextAttacker(r) = None
    OBVIOUS
  <2>1. NextAttacker(d) = None
    BY DEF Turned, HeldRight
  <2>2. \A x \in d.inDeal : EligibleAttacker(r, x) => EligibleAttacker(d, x)
    <3> SUFFICES ASSUME NEW x \in d.inDeal, EligibleAttacker(r, x)
                 PROVE  EligibleAttacker(d, x)
      OBVIOUS
    <3>1. CASE x = s
      BY <1>4, <3>1 DEF EligibleAttacker
    <3>2. CASE x # s
      <4>1. r.hand[x] = d.hand[x] /\ r.faceDown[x] = d.faceDown[x]
        BY <1>1, <1>4, <1>5, <3>2
      <4> QED
        BY <1>4, <4>1 DEF EligibleAttacker, CanPlayFaceDown, DeckEmpty
    <3> QED
      BY <3>1, <3>2
  <2> QED
    BY <1>1, <1>4, <2>1, <2>2, NobodyGetsTheRight
<1>7. HeldRight(r)
  BY <1>1, <1>4, <1>6 DEF Turned, HeldRight, InRound
<1>8. DefendableCards(r, d.defender) = DefendableCards(d, d.defender)
  <2>1. CASE d.defender = s
    <3>1. HandSize(d, s) = 0 /\ DefendableCards(d, s) = 0 + 1
      BY <1>5, FS_EmptySet DEF HandSize, DefendableCards
    <3>2. PICK c : c = d.faceDown[s]
      OBVIOUS
    <3>3. Cardinality({c}) = 1
      BY FS_Singleton
    <3>4. HandSize(r, s) = 1
      BY <1>4, <1>5, <3>2, <3>3 DEF HandSize
    <3>5. DefendableCards(r, s) = 1 + 0
      BY <1>4, <1>5, <3>4 DEF DefendableCards, CanPlayFaceDown
    <3> QED
      BY <2>1, <3>1, <3>5
  <2>2. CASE d.defender # s
    BY <1>1, <1>4, <1>5, <2>2, SameAnswers
  <2> QED
    BY <2>1, <2>2
<1>9. UnbeatenCount(r) = UnbeatenCount(d)
  BY <1>4 DEF UnbeatenCount, Unbeaten
<1>10. Answered(r)
  BY <1>4, <1>8, <1>9 DEF Turned, Answered
<1> QED
  BY <1>2, <1>7, <1>10 DEF Turned

\* An objection changes nothing but the objection.
LEMMA PinTurns ==
  ASSUME NEW d \in Deal, Conserved(d), Turned(d), NEW slot \in d.table, NEW pinned,
         pinned.defence = slot.defence,
         NEW e, e = [d EXCEPT !.table = (@ \ {slot}) \cup {pinned}]
  PROVE  Turned(e)
<1> DEFINE table == (d.table \ {slot}) \cup {pinned}
<1>1. e = [d EXCEPT !.table = table]
  OBVIOUS
<1>2. table # {} /\ d.table # {}
  OBVIOUS
<1>3. IsBeaten(pinned) = IsBeaten(slot)
  BY DEF IsBeaten
<1>4. \/ Unbeaten(d) \ {slot} = {x \in table : ~IsBeaten(x)} /\ IsBeaten(slot)
      \/ /\ {x \in table : ~IsBeaten(x)} = (Unbeaten(d) \ {slot}) \cup {pinned}
         /\ slot \in Unbeaten(d)
  BY <1>3 DEF Unbeaten
<1> HIDE DEF table
<1>5. /\ e.table = table /\ e.phase = d.phase /\ e.hand = d.hand /\ e.deck = d.deck
      /\ e.faceDown = d.faceDown /\ e.starter = d.starter /\ e.right = d.right
      /\ e.defender = d.defender /\ e.passed = d.passed /\ e.inDeal = d.inDeal
      /\ e.pending = d.pending
  BY <1>1 DEF Deal
<1>6. NextAttacker(e) = NextAttacker(d)
  <2>1. \A s : EligibleAttacker(e, s) = EligibleAttacker(d, s)
    BY <1>5 DEF EligibleAttacker, CanPlayFaceDown, DeckEmpty
  <2>2. SecondNeighbour(e) = SecondNeighbour(d)
    BY <1>5 DEF SecondNeighbour, NextActive
  <2> QED
    BY <1>5, <2>1, <2>2 DEF NextAttacker
<1>7. HeldRight(e)
  BY <1>2, <1>5, <1>6 DEF Turned, HeldRight, InRound
<1>8. DefendableCards(e, e.defender) = DefendableCards(d, d.defender)
  BY <1>5 DEF DefendableCards, HandSize, CanPlayFaceDown, DeckEmpty
<1>9. IsFiniteSet(Unbeaten(d)) /\ UnbeatenCount(d) \in Nat
  BY UnbeatenFinite
<1>10. UnbeatenCount(e) <= UnbeatenCount(d) /\ UnbeatenCount(e) \in Nat
  <2>1. CASE Unbeaten(e) = Unbeaten(d) \ {slot} /\ slot \notin Unbeaten(d)
    <3>1. Unbeaten(e) = Unbeaten(d)
      BY <2>1
    <3> QED
      BY <1>9, <3>1 DEF UnbeatenCount
  <2>2. CASE Unbeaten(e) = (Unbeaten(d) \ {slot}) \cup {pinned} /\ slot \in Unbeaten(d)
    <3>1. PICK rest : rest = Unbeaten(d) \ {slot}
      OBVIOUS
    <3>2. IsFiniteSet(rest) /\ Cardinality(rest) = Cardinality(Unbeaten(d)) - 1
      BY <1>9, <2>2, <3>1, FS_RemoveElement
    <3>3. PICK all : all = rest \cup {pinned}
      OBVIOUS
    <3>4. IsFiniteSet(all)
      BY <3>2, <3>3, FS_AddElement
    <3>5. \/ Cardinality(all) = Cardinality(rest)
          \/ Cardinality(all) = Cardinality(rest) + 1
      BY <3>2, <3>3, FS_AddElement
    <3>6. Unbeaten(e) = all /\ Cardinality(all) \in Nat /\ Cardinality(rest) \in Nat
      BY <2>2, <3>1, <3>2, <3>3, <3>4, FS_CardinalityType
    <3> QED
      BY <1>9, <3>2, <3>5, <3>6 DEF UnbeatenCount
  <2> QED
    BY <1>4, <1>5, <2>1, <2>2 DEF Unbeaten
<1>11. DefendableCards(d, d.defender) \in Nat
  BY SomethingAnswers DEF Deal
<1>12. UnbeatenCount(d) <= DefendableCards(d, d.defender)
  BY <1>2 DEF Turned, Answered
<1>13. UnbeatenCount(e) <= DefendableCards(e, e.defender)
  BY <1>8, <1>9, <1>10, <1>11, <1>12
<1> QED
  BY <1>7, <1>13 DEF Turned, Answered

-----------------------------------------------------------------------------
\* The commands.

\* With the trump named the round begins at the starter.
LEMMA TrumpTurns ==
  ASSUME TurnInv, NEW s \in Seats, Trump(s)
  PROVE  Turned(deal')
<1> PICK suit \in Suits : ChooseTrump(s, suit) \/ ChooseTrumpForHidden(s, suit)
  BY DEF Trump
<1>1. /\ deal \in Deal /\ deal.phase = "DICE" /\ deal.table = {} /\ deal.passed = {}
      /\ deal.pending # None => deal.right = deal.starter
  BY DEF TurnInv, RoundInv, CardsInv, DealInv, Sound, WellFormed, Phased, DiceInv, Turned,
         HeldRight, ChooseTrump, ChooseTrumpForHidden
<1>2. PICK e : e = deal'
  OBVIOUS
<1>3. CASE ChooseTrump(s, suit)
  <2> DEFINE starter == LowestTrumpSeat(deal.hand, suit)
             next    == NextActive(deal, starter)
  <2>1. e = [deal EXCEPT !.trump = suit, !.phase = "ATTACK", !.starter = starter,
                         !.right = starter, !.defender = next]
    BY <1>2, <1>3 DEF ChooseTrump
  <2>2. /\ e.phase = "ATTACK" /\ e.starter = starter /\ e.right = starter
        /\ e.table = deal.table /\ e.passed = deal.passed
    <3> HIDE DEF starter, next
    <3> QED
      BY <1>1, <2>1 DEF Deal
  <2>3. Opened(e)
    BY <1>1, <2>2 DEF Opened
  <2> QED
    BY <1>2, <2>3, OpenedIsTurned
<1>4. CASE ChooseTrumpForHidden(s, suit)
  <2> DEFINE p    == deal.pending
             hand == [deal.hand EXCEPT ![p.recipient] = @ \cup {p.card}]
  <2>1. e = [deal EXCEPT !.trump = suit, !.pending = None, !.phase = "ATTACK",
                         !.hand = hand]
    BY <1>2, <1>4 DEF ChooseTrumpForHidden
  <2>2. /\ e.phase = "ATTACK" /\ e.starter = deal.starter /\ e.right = deal.right
        /\ e.table = deal.table /\ e.passed = deal.passed
    <3> HIDE DEF hand
    <3> QED
      BY <1>1, <2>1 DEF Deal
  <2>3. Opened(e)
    BY <1>1, <1>4, <2>2 DEF Opened, ChooseTrumpForHidden
  <2> QED
    BY <1>2, <2>3, OpenedIsTurned
<1> QED
  BY <1>3, <1>4

\* So it does when the cards are dealt, unless the dice are asked first.
LEMMA DealtTurns ==
  ASSUME NEW pack \in Shuffles, NEW levels \in StartLevels, NEW chooser \in Seats
  PROVE  Turned(Dealt(pack, levels, chooser))
<1>1. PICK r : r = Dealt(pack, levels, chooser)
  OBVIOUS
<1>2. /\ r.phase \in {"DICE", "ATTACK"}
      /\ r.phase = "ATTACK" => r.right = r.starter
      /\ r.table = {} /\ r.passed = {} /\ r.pending = None
  BY <1>1 DEF Dealt
<1>3. Opened(r)
  BY <1>2 DEF Opened
<1> QED
  BY <1>1, <1>3, OpenedIsTurned

\* The moves of a round.
LEMMA RoundTurns ==
  ASSUME TurnInv, NEW s \in Seats, NEW chooser \in Seats, Round(s, chooser)
  PROVE  Turned(deal')
<1>1. RoundInv /\ Turned(deal) /\ HeldRight(deal) /\ Answered(deal)
  BY DEF TurnInv, Turned
<1>2. CASE \E c \in deal.hand[s] : Attack(s, c, chooser)
  <2>1. PICK c \in deal.hand[s] : Attack(s, c, chooser)
    BY <1>2
  <2>2. CanAttack(deal, s, c) /\ Playable /\ deal' = Attacked(deal, s, c, chooser)
    BY <2>1 DEF Attack
  <2>3. RoundGoes(deal) /\ Conserved(deal)
    BY <1>1, <2>2, PlayableIsMoving, NoMoveInWindow
  <2> QED
    BY <2>2, <2>3, AttackedTurns
<1>3. CASE \E c \in deal.hand[s] : Transfer(s, c)
  <2>1. PICK c \in deal.hand[s] : Transfer(s, c)
    BY <1>3
  <2>2. CanTransfer(deal, s, c) /\ Playable /\ deal' = Transferred(deal, s, c)
    BY <2>1 DEF Transfer
  <2>3. RoundGoes(deal) /\ Conserved(deal)
    BY <1>1, <2>2, PlayableIsMoving, NoMoveInWindow
  <2> QED
    BY <2>2, <2>3, TransferredTurns
<1>4. CASE \E c \in deal.hand[s] : \E target \in AttackCards(deal) :
             Defend(s, c, target, chooser)
  <2>1. PICK c \in deal.hand[s], target \in AttackCards(deal) : Defend(s, c, target, chooser)
    BY <1>4
  <2>2. /\ CanDefend(deal, s, c, target) /\ Playable
        /\ deal' = Defended(deal, s, c, target, chooser)
    BY <2>1 DEF Defend
  <2>3. RoundGoes(deal) /\ Conserved(deal)
    BY <1>1, <2>2, PlayableIsMoving, NoMoveInWindow
  <2> QED
    BY <1>1, <2>2, <2>3, DefendedTurns
<1>5. CASE Pass(s, chooser)
  <2>1. CanPass(deal, s) /\ Playable /\ deal' = Passed(deal, s, chooser)
    BY <1>5 DEF Pass
  <2>2. RoundGoes(deal) /\ deal.right = s
    BY <1>1, <2>1, PlayableIsMoving, NoMoveInWindow DEF CanPass
  <2>3. deal.table # {}
    BY <2>1, <2>2, PassNeedsTable
  <2> QED
    BY <1>1, <2>1, <2>2, <2>3, PassedTurns DEF RoundGoes
<1>6. CASE Take(s, chooser)
  <2>1. CanTake(deal, s) /\ Playable /\ deal' = Taken(deal, chooser)
    BY <1>6 DEF Take
  <2>2. RoundGoes(deal) /\ deal.table # {}
    BY <1>1, <2>1, PlayableIsMoving, NoMoveInWindow DEF CanTake
  <2> QED
    BY <1>1, <2>1, <2>2, TakenTurns
<1>7. ASSUME Playable, CanPlayFaceDown(deal, s), NEW open, open = Revealed(deal, s)
      PROVE  /\ Turned(open) /\ Conserved(open)
             /\ deal.phase # "HANGING" => RoundGoes(open)
             /\ deal.phase = "HANGING" => WindowInv(open)
  <2>1. Moving(deal) /\ Running(deal) /\ Kept(deal)
    BY <1>1, <1>7, PlayableIsMoving DEF RoundInv, CardsInv, Moving
  <2>2. Conserved(open)
    BY <1>7, <2>1, RevealedKeepsCards DEF Kept
  <2> QED
    BY <1>1, <1>7, <2>1, <2>2, RevealedPhased, RevealedTurns
<1>8. CASE RevealFaceDown(s, chooser)
  <2>1. PICK card : card = deal.faceDown[s]
    OBVIOUS
  <2>2. PICK open : open = Revealed(deal, s)
    OBVIOUS
  <2>3. /\ Playable /\ CanPlayFaceDown(deal, s)
        /\ deal' = IF CanAttack(open, s, card) THEN Attacked(open, s, card, chooser) ELSE open
    BY <1>8, <2>1, <2>2 DEF RevealFaceDown
  <2>4. /\ Turned(open) /\ Conserved(open)
        /\ deal.phase # "HANGING" => RoundGoes(open)
        /\ deal.phase = "HANGING" => WindowInv(open)
    BY <1>7, <2>2, <2>3
  <2>5. CASE CanAttack(open, s, card)
    <3>1. RoundGoes(open)
      BY <2>4, <2>5, NoMoveInWindow
    <3> QED
      BY <2>3, <2>4, <2>5, <3>1, AttackedTurns
  <2> QED
    BY <2>3, <2>4, <2>5
<1>9. CASE \E target \in Pack : RevealToDefend(s, target, chooser)
  <2>1. PICK target \in Pack : RevealToDefend(s, target, chooser)
    BY <1>9
  <2>2. PICK card : card = deal.faceDown[s]
    OBVIOUS
  <2>3. PICK open : open = Revealed(deal, s)
    OBVIOUS
  <2>4. /\ Playable /\ CanPlayFaceDown(deal, s)
        /\ deal' = IF CanDefend(open, s, card, target)
                     THEN Defended(open, s, card, target, chooser) ELSE open
    BY <2>1, <2>2, <2>3 DEF RevealToDefend
  <2>5. /\ Turned(open) /\ Conserved(open)
        /\ deal.phase # "HANGING" => RoundGoes(open)
        /\ deal.phase = "HANGING" => WindowInv(open)
    BY <1>7, <2>3, <2>4
  <2>6. CASE CanDefend(open, s, card, target)
    <3>1. RoundGoes(open)
      BY <2>5, <2>6, NoMoveInWindow
    <3> QED
      BY <2>4, <2>5, <2>6, <3>1, DefendedTurns
  <2> QED
    BY <2>4, <2>5, <2>6
<1> QED
  BY <1>2, <1>3, <1>4, <1>5, <1>6, <1>8, <1>9 DEF Round

\* The decisions in the window.
LEMMA HangingTurns ==
  ASSUME TurnInv, NEW s \in Seats, NEW chooser \in Seats, Hanging(s, chooser)
  PROVE  Turned(deal')
<1>1. PICK winner \in Seats :
        \/ \E cards \in SUBSET deal.hand[s] : HangCard(s, cards, winner, chooser)
        \/ HangSkip(s, winner, chooser)
  BY DEF Hanging
<1>2. /\ deal.phase = "HANGING"
      /\ \E cards \in SUBSET deal.hand[s] :
           /\ \A c \in cards : IsFlyingCard(deal.level[deal.window.victim], c)
           /\ deal' = AdvanceWindow(Decided(deal, s, cards), winner, chooser)
  BY <1>1 DEF HangCard, HangSkip
<1>3. PICK cards \in SUBSET deal.hand[s] :
        /\ \A c \in cards : IsFlyingCard(deal.level[deal.window.victim], c)
        /\ deal' = AdvanceWindow(Decided(deal, s, cards), winner, chooser)
  BY <1>2
<1>4. Going(deal) /\ WindowInv(deal) /\ deal.window \in Window
  BY <1>2, PlayableIsMoving DEF TurnInv, Playable, WindowInv, WindowOpen, Deal
<1>5. Deciding(Decided(deal, s, cards))
  BY <1>2, <1>3, <1>4, DecidedPhased
<1> QED
  BY <1>3, <1>5, AdvanceWindowOpens, OpenedIsTurned

\* Of the second thoughts only the objections are left.
LEMMA SecondThoughtsTurn ==
  ASSUME NothingIsTakenBack, TurnInv, NEW s \in Seats, SecondThoughts(s)
  PROVE  Turned(deal')
<1> PICK slot \in deal.table : PinAttack(s, slot) \/ PinDefence(s, slot)
  BY DEF SecondThoughts, RecallAttack, RecallDefence, NothingIsTakenBack
<1>1. deal \in Deal /\ Conserved(deal) /\ Turned(deal) /\ slot \in Slot
  BY DEF TurnInv, RoundInv, CardsInv, Kept, DealInv, Sound, WellFormed, Deal
<1>2. CASE PinAttack(s, slot)
  <2>1. PICK pinned : pinned = [slot EXCEPT !.attackPinned = TRUE]
    OBVIOUS
  <2>2. pinned.defence = slot.defence
    BY <1>1, <2>1 DEF Slot
  <2>3. deal' = [deal EXCEPT !.table = (@ \ {slot}) \cup {pinned}]
    BY <1>2, <2>1 DEF PinAttack
  <2>4. PICK e : e = deal'
    OBVIOUS
  <2>5. Turned(e)
    BY <1>1, <2>2, <2>3, <2>4, PinTurns
  <2> QED
    BY <2>4, <2>5
<1>3. CASE PinDefence(s, slot)
  <2>1. PICK pinned : pinned = [slot EXCEPT !.defencePinned = TRUE]
    OBVIOUS
  <2>2. pinned.defence = slot.defence
    BY <1>1, <2>1 DEF Slot
  <2>3. deal' = [deal EXCEPT !.table = (@ \ {slot}) \cup {pinned}]
    BY <1>3, <2>1 DEF PinDefence
  <2>4. PICK e : e = deal'
    OBVIOUS
  <2>5. Turned(e)
    BY <1>1, <2>2, <2>3, <2>4, PinTurns
  <2> QED
    BY <2>4, <2>5
<1> QED
  BY <1>2, <1>3

-----------------------------------------------------------------------------
\* Whatever the players do except take cards back, the turn is where it can be used and
\* the defender can answer.
THEOREM TurnInvariant == NothingIsTakenBack => (Spec => []TurnInv)
<1> SUFFICES ASSUME NothingIsTakenBack  PROVE Spec => []TurnInv
  OBVIOUS
<1>1. Init /\ RoundInv => TurnInv
  BY DealtTurns DEF Init, TurnInv
<1>2. TurnInv /\ RoundInv' /\ [Next]_vars => TurnInv'
  <2> SUFFICES ASSUME TurnInv, RoundInv', [Next]_vars  PROVE Turned(deal)'
    BY DEF TurnInv
  <2>1. CASE Next
    <3>1. PICK s \in Seats :
            \/ \E chooser \in Choosers : Round(s, chooser) \/ Hanging(s, chooser)
            \/ Trump(s)
            \/ SecondThoughts(s)
      BY <2>1 DEF Next
    <3>2. CASE \E chooser \in Choosers : Round(s, chooser) \/ Hanging(s, chooser)
      <4>1. Choosers \in SUBSET Seats
        BY ChoosersAreSeats DEF TurnInv, RoundInv, CardsInv, DealInv
      <4> QED
        BY <3>2, <4>1, RoundTurns, HangingTurns
    <3>3. CASE Trump(s)
      BY <3>3, TrumpTurns
    <3>4. CASE SecondThoughts(s)
      BY <3>4, SecondThoughtsTurn
    <3> QED
      BY <3>1, <3>2, <3>3, <3>4
  <2>2. CASE UNCHANGED vars
    BY <2>2 DEF vars, TurnInv
  <2> QED
    BY <2>1, <2>2
<1> QED
  BY <1>1, <1>2, RoundInvariant, PTL DEF Spec

\* An attack is never more than its defender can answer.
THEOREM AttacksCanBeAnswered == NothingIsTakenBack => (Spec => []AttackCanBeAnswered)
<1> SUFFICES ASSUME NothingIsTakenBack  PROVE Spec => []AttackCanBeAnswered
  OBVIOUS
<1>1. TurnInv => AttackCanBeAnswered
  <2> SUFFICES ASSUME TurnInv
               PROVE  UnbeatenCount(deal) <= DefendableCards(deal, deal.defender)
    BY DEF AttackCanBeAnswered
  <2>1. deal \in Deal /\ Conserved(deal) /\ Answered(deal) /\ deal.defender \in Seats
    BY DEF TurnInv, RoundInv, CardsInv, Kept, DealInv, Sound, WellFormed, Turned, Deal
  <2>2. DefendableCards(deal, deal.defender) \in Nat
    BY <2>1, SomethingAnswers
  <2>3. CASE deal.table = {}
    <3>1. Unbeaten(deal) = {}
      BY <2>3 DEF Unbeaten
    <3>2. UnbeatenCount(deal) = 0
      BY <3>1, FS_EmptySet DEF UnbeatenCount
    <3> QED
      BY <2>2, <3>2
  <2>4. CASE deal.table # {}
    BY <2>1, <2>4 DEF Answered
  <2> QED
    BY <2>3, <2>4
<1>2. Spec => []TurnInv
  BY TurnInvariant
<1> QED
  BY <1>1, <1>2, PTL

-----------------------------------------------------------------------------
\* Whose turn it is and what he can do.

\* While the dice, the window or the deal itself wait, the clock runs for somebody, and
\* the automatic action is one the engine accepts.
LEMMA WaitingForSomebody ==
  ASSUME RoundInv, deal.phase \in {"DICE", "HANGING"}
  PROVE  /\ SeatOnTheClock(deal) # None
         /\ AutoActionIsAccepted(deal) /\ MayMove(deal, SeatOnTheClock(deal))
<1>1. /\ deal \in Deal /\ Phased(deal) /\ deal.right \in Seats /\ deal.starter \in Seats
      /\ deal.inDeal \in SUBSET Seats /\ deal.pending \in Pending \cup {None}
  BY DEF RoundInv, CardsInv, DealInv, Sound, WellFormed, Deal
<1>2. CASE deal.phase = "DICE"
  <2>1. SeatOnTheClock(deal) = IF deal.pending = None THEN deal.right
                               ELSE deal.pending.chooser
    BY <1>2 DEF SeatOnTheClock
  <2>2. SeatOnTheClock(deal) \in Seats
    BY <1>1, <2>1 DEF Pending
  <2>3. SeatOnTheClock(deal) # None
    BY <2>2, NoneAssumption
  <2> QED
    BY <1>2, <2>1, <2>3 DEF AutoActionIsAccepted, MayMove
<1>3. CASE deal.phase = "HANGING"
  <2>1. WindowInv(deal) /\ deal.window # None
    BY <1>1, <1>3 DEF Phased, WindowInv, WindowOpen
  <2>2. PICK open : open = Undecided(deal.window)
    OBVIOUS
  <2>3. CurrentStep(deal.window) \subseteq deal.inDeal
    BY <2>1 DEF WindowInv, WindowOpen, StepsAreSound, CurrentStep
  <2>4. open \in SUBSET Seats /\ open # {}
    BY <1>1, <2>1, <2>2, <2>3 DEF WindowInv, IsStepComplete, Undecided
  <2>5. SeatOnTheClock(deal) = FirstOf(deal, open)
    BY <1>3, <2>1, <2>2, <2>4 DEF SeatOnTheClock
  <2>6. FirstOf(deal, open) \in open
    BY <1>1, <2>4, FirstOfMember
  <2>7. SeatOnTheClock(deal) # None
    BY <2>4, <2>5, <2>6, NoneAssumption
  <2>8. MayDecide(deal.window, SeatOnTheClock(deal))
    BY <2>2, <2>5, <2>6 DEF MayDecide, Undecided
  <2> QED
    BY <1>3, <2>7, <2>8 DEF AutoActionIsAccepted, MayMove
<1> QED
  BY <1>2, <1>3

\* In a round, too, but for the first card of it.
LEMMA RoundWaits ==
  ASSUME TurnInv, InRound(deal)
  PROVE  /\ SeatOnTheClock(deal) # None
         /\ \/ AutoActionIsAccepted(deal) /\ MayMove(deal, SeatOnTheClock(deal))
            \/ /\ deal.phase = "ATTACK" /\ deal.table = {}
               /\ SeatOnTheClock(deal) = deal.right
<1>1. /\ deal.right \in Seats /\ deal.defender \in Seats /\ HeldRight(deal)
      /\ deal.phase = "TAKING" => deal.table # {}
  BY DEF TurnInv, RoundInv, Phased, RoundCore, CardsInv, DealInv, Sound, WellFormed, Deal,
         Turned
<1>2. deal.right # None /\ deal.defender # None
  BY <1>1, NoneAssumption
<1>3. CASE deal.phase = "DEFEND"
  <2>1. SeatOnTheClock(deal) = deal.defender
    BY <1>3 DEF SeatOnTheClock
  <2>2. CanTake(deal, deal.defender)
    BY <1>1, <1>3 DEF CanTake, HeldRight
  <2> QED
    BY <1>2, <1>3, <2>1, <2>2 DEF AutoActionIsAccepted, MayMove
<1>4. CASE deal.phase \in {"ATTACK", "TAKING"}
  <2>1. SeatOnTheClock(deal) = deal.right
    BY <1>4 DEF SeatOnTheClock
  <2>2. deal.table # {} => CanPass(deal, deal.right)
    BY <1>1, <1>4 DEF CanPass, HeldRight
  <2>3. CASE deal.table # {}
    BY <1>2, <1>4, <2>1, <2>2, <2>3 DEF AutoActionIsAccepted, MayMove
  <2>4. CASE deal.table = {}
    BY <1>1, <1>2, <1>4, <2>1, <2>4
  <2> QED
    BY <2>3, <2>4
<1> QED
  BY <1>3, <1>4 DEF InRound

\* The starter, before the first card, has something to lay, and it can be answered.
LEMMA StarterCanLay ==
  ASSUME TurnInv, deal.phase = "ATTACK", deal.table = {}
  PROVE  /\ ~HasNothing(deal, deal.right)
         /\ MayMove(deal, deal.right)
<1>1. /\ deal \in Deal /\ Conserved(deal) /\ HeldRight(deal) /\ Roles(deal)
      /\ Supplied(deal) /\ deal.defender \in Seats /\ deal.right \in Seats
  BY DEF TurnInv, RoundInv, Phased, RoundCore, CardsInv, Kept, DealInv, Sound, WellFormed,
         Deal, Turned, InRound
<1>2. ~HasNothing(deal, deal.right) /\ ~HasNothing(deal, deal.defender)
  BY <1>1 DEF Supplied, Roles
<1>3. CASE CanPlayFaceDown(deal, deal.right)
  BY <1>2, <1>3 DEF MayMove
<1>4. CASE ~CanPlayFaceDown(deal, deal.right)
  <2>1. PICK c \in deal.hand[deal.right] : TRUE
    BY <1>2, <1>4 DEF HasNothing
  <2>2. Cardinality(deal.table) = 0 /\ UnbeatenCount(deal) = 0
    <3>1. Unbeaten(deal) = {}
      BY DEF Unbeaten
    <3> QED
      BY <3>1, FS_EmptySet DEF UnbeatenCount
  <2>3. AttackLimit(deal) \in Nat \ {0}
    BY RulesAssumption DEF AttackLimit
  <2>4. Cardinality(deal.table) < AttackLimit(deal)
    BY <2>2, <2>3
  <2>5. /\ DefendableCards(deal, deal.defender) \in Nat
        /\ DefendableCards(deal, deal.defender) >= 1
    BY <1>1, <1>2, SomethingAnswers
  <2>6. UnbeatenCount(deal) + 1 <= DefendableCards(deal, deal.defender)
    BY <2>2, <2>5
  <2>7. CanAttack(deal, deal.right, c)
    BY <1>1, <2>1, <2>4, <2>6 DEF CanAttack, HeldRight
  <2>8. \E x \in deal.hand[deal.right] :
          CanAttack(deal, deal.right, x) \/ CanTransfer(deal, deal.right, x)
    BY <2>1, <2>7
  <2> QED
    BY <1>2, <2>8 DEF MayMove
<1> QED
  BY <1>2, <1>3, <1>4

\* A deal never stops: until it is over it waits for a player, and he has a move.
THEOREM SomebodyCanMove == NothingIsTakenBack => (Spec => []PlayerToMoveCanMove)
<1> SUFFICES ASSUME NothingIsTakenBack  PROVE Spec => []PlayerToMoveCanMove
  OBVIOUS
<1>1. TurnInv => PlayerToMoveCanMove
  <2> SUFFICES ASSUME TurnInv, deal.phase # "DEAL_OVER"
               PROVE  /\ SeatOnTheClock(deal) # None
                      /\ MayMove(deal, SeatOnTheClock(deal))
    BY DEF PlayerToMoveCanMove
  <2>1. InRound(deal) \/ deal.phase \in {"DICE", "HANGING"}
    BY DEF TurnInv, RoundInv, CardsInv, DealInv, Sound, WellFormed, Deal, Phases, InRound
  <2> QED
    BY <2>1, WaitingForSomebody, RoundWaits, StarterCanLay DEF TurnInv
<1>2. Spec => []TurnInv
  BY TurnInvariant
<1> QED
  BY <1>1, <1>2, PTL

\* The clock has nothing to do in one situation only, and always in that one: the starter
\* of a round has not played yet and holds something to play.
THEOREM ClockFailsExactlyAtTheOpening ==
  NothingIsTakenBack => (Spec => []TimeoutFailsExactlyAtTheOpening)
<1> SUFFICES ASSUME NothingIsTakenBack  PROVE Spec => []TimeoutFailsExactlyAtTheOpening
  OBVIOUS
<1> DEFINE Opening == /\ deal.phase = "ATTACK" /\ deal.table = {}
                      /\ deal.right = deal.starter /\ deal.passed = {}
                      /\ deal.hand[deal.right] # {} \/ deal.faceDown[deal.right] # None
<1>1. ASSUME TurnInv, SeatOnTheClock(deal) # None, ~AutoActionIsAccepted(deal)  PROVE Opening
  <2>1. InRound(deal) \/ deal.phase \in {"DICE", "HANGING", "DEAL_OVER"}
    BY <1>1 DEF TurnInv, RoundInv, CardsInv, DealInv, Sound, WellFormed, Deal, Phases, InRound
  <2>2. deal.phase # "DEAL_OVER"
    BY <1>1 DEF SeatOnTheClock
  <2>3. InRound(deal)
    BY <1>1, <2>1, <2>2, WaitingForSomebody DEF TurnInv
  <2>4. deal.phase = "ATTACK" /\ deal.table = {}
    BY <1>1, <2>3, RoundWaits
  <2>5. deal.right = deal.starter /\ deal.passed = {}
    BY <1>1, <2>4 DEF TurnInv, Turned, HeldRight
  <2>6. deal.hand[deal.right] # {} \/ deal.faceDown[deal.right] # None
    BY <1>1, <2>4, StarterCanLay DEF HasNothing, CanPlayFaceDown
  <2> QED
    BY <2>4, <2>5, <2>6
<1>2. ASSUME TurnInv, Opening  PROVE SeatOnTheClock(deal) # None /\ ~AutoActionIsAccepted(deal)
  <2>1. SeatOnTheClock(deal) = deal.right /\ deal.right # None
    BY <1>2, NoneAssumption
       DEF SeatOnTheClock, TurnInv, RoundInv, CardsInv, DealInv, Sound, WellFormed, Deal
  <2>2. ~CanPass(deal, deal.right)
    BY <1>2, StarterCanLay DEF CanPass, HasNothing
  <2> QED
    BY <1>2, <2>1, <2>2 DEF AutoActionIsAccepted
<1>3. TurnInv => TimeoutFailsExactlyAtTheOpening
  BY <1>1, <1>2 DEF TimeoutFailsExactlyAtTheOpening
<1>4. Spec => []TurnInv
  BY TurnInvariant
<1> QED
  BY <1>3, <1>4, PTL
=============================================================================
