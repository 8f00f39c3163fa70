--------------------------- MODULE DealEngineProofs ---------------------------
(***************************************************************************)
(* Invariants of a deal, proved for every number of players, every pack,   *)
(* every order of it and every setting of the table.                       *)
(*                                                                         *)
(* The program composes the steps of a deal from pure functions, and so do *)
(* the proofs: each operator from a deal to a deal has a lemma that says   *)
(* what it keeps, and an action cites the lemmas of the operators it is    *)
(* made of.                                                                *)
(***************************************************************************)
EXTENDS DealSafety, TLAPS, FiniteSetTheorems, SequenceTheorems, WellFoundedInduction

-----------------------------------------------------------------------------
(***************************************************************************)
(* The queries of DealRules: that "the next", "the first" and "the last"   *)
(* seat exist and are among the seats asked about.  Each is a CHOOSE of    *)
(* the program's circle walk; without these facts nothing is known of its  *)
(* value.                                                                  *)
(***************************************************************************)

\* Every non-empty set of naturals has a least element.
LEMMA LeastNatural ==
  ASSUME NEW S \in SUBSET Nat, S # {}
  PROVE  \E m \in S : \A n \in S : m <= n
<1> DEFINE Less == {p \in Nat \X Nat : p[1] < p[2]}
<1>1. IsWellFoundedOn(Less, Nat)
  BY NatLessThanWellFounded, Zenon DEF OpToRel
<1>2. \E m \in S : \A n \in S : ~(<<n, m>> \in Less)
  <2> HIDE DEF Less
  <2> QED
    BY <1>1, WFMin
<1>3. PICK m \in S : \A n \in S : ~(<<n, m>> \in Less)
  BY <1>2
<1>4. \A n \in S : ~(n < m)
  BY <1>3
<1> QED
  BY <1>4

\* The seats are finitely many.
LEMMA SeatsFinite == IsFiniteSet(Seats) /\ Cardinality(Seats) = N
<1>1. N \in Nat /\ N >= 2
  BY CardsAssumption
<1> QED
  BY <1>1, FS_Interval DEF Seats

\* So are the seats of any part of the table, and they can be counted.
LEMMA SeatSubsetFinite ==
  ASSUME NEW S \in SUBSET Seats
  PROVE  IsFiniteSet(S) /\ Cardinality(S) \in Nat
BY SeatsFinite, FS_Subset, FS_CardinalityType

\* The clockwise distance is a number between 1 and N.
LEMMA ClockwiseType ==
  ASSUME NEW s \in Seats, NEW t \in Seats
  PROVE  Clockwise(s, t) \in 1 .. N
BY CardsAssumption DEF Clockwise, Seats

\* A seat of S at the least clockwise distance from s.
LEMMA NearestExists ==
  ASSUME NEW s \in Seats, NEW S \in SUBSET Seats, S # {}
  PROVE  \E t \in S : \A u \in S : Clockwise(s, t) <= Clockwise(s, u)
<1> DEFINE D == {Clockwise(s, t) : t \in S}
<1>1. D \in SUBSET Nat /\ D # {}
  BY ClockwiseType
<1>2. PICK m \in D : \A n \in D : m <= n
  BY <1>1, LeastNatural
<1>3. PICK t \in S : m = Clockwise(s, t)
  BY <1>2
<1> QED
  BY <1>2, <1>3

\* NextActiveSeatAfter finds a player who is in the deal, if there is one at all.
LEMMA NextActiveInDeal ==
  ASSUME NEW d, d.inDeal \in SUBSET Seats, d.inDeal # {}, NEW s \in Seats
  PROVE  NextActive(d, s) \in d.inDeal
BY NearestExists DEF NextActive

\* The position in the order of refilling is a natural number.
LEMMA OrderType ==
  ASSUME NEW d, d.starter \in Seats, NEW s \in Seats
  PROVE  OrderOf(d, s) \in 0 .. N + 1
<1>1. Clockwise(d.starter, s) \in 1 .. N
  BY ClockwiseType
<1> QED
  BY <1>1, CardsAssumption DEF OrderOf

\* Among any seats one is served first and one last.
LEMMA FirstOfMember ==
  ASSUME NEW d, d.starter \in Seats, NEW S \in SUBSET Seats, S # {}
  PROVE  /\ FirstOf(d, S) \in S
         /\ \A t \in S : OrderOf(d, FirstOf(d, S)) <= OrderOf(d, t)
<1> DEFINE O == {OrderOf(d, t) : t \in S}
<1>1. O \in SUBSET Nat /\ O # {}
  BY OrderType
<1>2. PICK m \in O : \A n \in O : m <= n
  BY <1>1, LeastNatural
<1>3. \E t \in S : \A u \in S : OrderOf(d, t) <= OrderOf(d, u)
  BY <1>2
<1> QED
  BY <1>3 DEF FirstOf

\* The same at the other end of the order.
LEMMA LastOfMember ==
  ASSUME NEW d, d.starter \in Seats, NEW S \in SUBSET Seats, S # {}
  PROVE  /\ LastOf(d, S) \in S
         /\ \A t \in S : OrderOf(d, t) <= OrderOf(d, LastOf(d, S))
<1> DEFINE O == {N + 1 - OrderOf(d, t) : t \in S}
<1>1. O \in SUBSET Nat /\ O # {}
  BY OrderType, CardsAssumption
<1>2. PICK m \in O : \A n \in O : m <= n
  BY <1>1, LeastNatural
<1>3. PICK t \in S : m = N + 1 - OrderOf(d, t)
  BY <1>2
<1>4. \A u \in S : OrderOf(d, u) <= OrderOf(d, t)
  <2> TAKE u \in S
  <2>1. N + 1 - OrderOf(d, t) <= N + 1 - OrderOf(d, u)
    BY <1>2, <1>3
  <2> QED
    BY <2>1, OrderType, CardsAssumption
<1> QED
  BY <1>4 DEF LastOf

-----------------------------------------------------------------------------
(***************************************************************************)
(* What the operators rely on: the deal is well-formed, somebody is in it, *)
(* and while there is a deck everybody is, with his face-down card.        *)
(***************************************************************************)
WellFormed(d) == d \in Deal /\ d.inDeal # {}

\* While there is a deck nobody has left and nobody has turned his face-down card up.
Early(d) ==
  d.deck # << >> => /\ d.inDeal = Seats
                    /\ \A s \in Seats : d.faceDown[s] # None
                    /\ d.pending = None

\* What every command keeps.
Sound(d) == WellFormed(d) /\ Early(d)

-----------------------------------------------------------------------------
\* What lies on the table are cards.
LEMMA TableIsCards ==
  ASSUME NEW d \in Deal
  PROVE  AttackCards(d) \in SUBSET Card /\ TableCards(d) \in SUBSET Card
<1>1. \A slot \in d.table : /\ slot.attack \in Card
                            /\ slot.defence # None => slot.defence \in Card
  BY DEF Deal, Slot
<1> QED
  BY <1>1 DEF AttackCards, DefenceCards, TableCards, IsBeaten

-----------------------------------------------------------------------------
\* Refilling.

\* The asks can be counted, and no more cards are drawn than the deck has.
LEMMA AsksCounted ==
  ASSUME NEW d \in Deal
  PROVE  /\ IsFiniteSet(Asks(d)) /\ Cardinality(Asks(d)) \in Nat
         /\ DrawnCount(d) \in 0 .. Len(d.deck)
         /\ Len(d.deck) \in Nat
<1>1. d.inDeal \in SUBSET Seats /\ d.deck \in Seq(Card)
  BY DEF Deal
<1>2. IsFiniteSet(d.inDeal) /\ IsFiniteSet(1 .. DealSize)
  BY <1>1, SeatSubsetFinite, FS_Interval, RulesAssumption
<1>3. IsFiniteSet(d.inDeal \X (1 .. DealSize))
  BY <1>2, FS_Product
<1>4. Asks(d) \in SUBSET (d.inDeal \X (1 .. DealSize))
  BY DEF Asks
<1>5. IsFiniteSet(Asks(d)) /\ Cardinality(Asks(d)) \in Nat
  BY <1>3, <1>4, FS_Subset, FS_CardinalityType
<1>6. Len(d.deck) \in Nat
  BY <1>1, LenProperties
<1> QED
  BY <1>5, <1>6 DEF DrawnCount

\* Every card that is drawn is drawn by somebody in the deal.
LEMMA DrawerInDeal ==
  ASSUME NEW d, WellFormed(d), NEW j \in 1 .. DrawnCount(d)
  PROVE  Drawer(d, j) \in d.inDeal
<1>1. d \in Deal /\ d.inDeal \in SUBSET Seats /\ d.inDeal # {} /\ d.starter \in Seats
  BY DEF WellFormed, Deal
<1> DEFINE last == LastOf(d, d.inDeal)
<1>2. last \in d.inDeal /\ \A t \in d.inDeal : OrderOf(d, t) <= OrderOf(d, last)
  BY <1>1, LastOfMember
<1>3. Asks(d) = {ask \in Asks(d) : OrderOf(d, ask[1]) <= OrderOf(d, last)}
  BY <1>2 DEF Asks
<1>4. AskedUpTo(d, last) = Cardinality(Asks(d))
  BY <1>3 DEF AskedUpTo
<1>5. j <= Cardinality(Asks(d))
  BY <1>1, AsksCounted DEF DrawnCount
<1>6. last \in Drawers(d, j)
  BY <1>2, <1>4, <1>5 DEF Drawers
<1>7. Drawers(d, j) \in SUBSET d.inDeal
  BY DEF Drawers
<1> QED
  BY <1>1, <1>6, <1>7, FirstOfMember DEF Drawer

\* Refilling deals out cards of the deck; who is in the deal and the roles stay.
LEMMA RefillKeeps ==
  ASSUME NEW d, Sound(d), NEW chooser \in Seats
  PROVE  LET r == Refill(d, chooser)
         IN /\ Sound(r)
            /\ r.inDeal = d.inDeal /\ r.faceDown = d.faceDown
            /\ r.defender = d.defender /\ r.starter = d.starter
            /\ r.pending # d.pending =>
                 /\ d.deck # << >>
                 /\ r.pending.recipient \in d.inDeal /\ r.pending.chooser = chooser
<1> DEFINE last  == Len(d.deck)
           n     == DrawnCount(d)
           r     == Refill(d, chooser)
<1>1. d \in Deal /\ d.inDeal # {} /\ d.deck \in Seq(Card)
  BY DEF Sound, WellFormed, Deal
<1>2. n \in 0 .. last /\ last \in Nat
  BY <1>1, AsksCounted
<1>3. \A j \in 1 .. last : d.deck[j] \in Card
  BY <1>1, ElementOfSeq
<1>4. /\ SubSeq(d.deck, n + 1, last) \in Seq(Card)
      /\ n = last => SubSeq(d.deck, n + 1, last) = << >>
      /\ last = 0 => d.deck = << >>
  BY <1>1, <1>2, <1>3, SubSeqProperties, SubSeqEmpty, EmptySeq
<1>5. last > 0 /\ n = last => Drawer(d, last) \in Seats
  <2> SUFFICES ASSUME last > 0, n = last  PROVE Drawer(d, last) \in Seats
    OBVIOUS
  <2>1. last \in 1 .. n /\ WellFormed(d) /\ d.inDeal \in SUBSET Seats
    BY <1>1, <1>2 DEF Sound, Deal
  <2>2. Drawer(d, last) \in d.inDeal
    BY <2>1, DrawerInDeal
  <2> QED
    BY <2>1, <2>2
<1>6. last > 0 /\ ~IsJoker(d.deck[last]) => d.deck[last].suit \in Suits
  <2> SUFFICES ASSUME last > 0, ~IsJoker(d.deck[last])  PROVE d.deck[last].suit \in Suits
    OBVIOUS
  <2>1. d.deck[last] \in Pip
    BY <1>2, <1>3 DEF IsJoker, Card
  <2> QED
    BY <2>1 DEF Pip
<1> DEFINE toLast == last > 0 /\ n = last
           joker  == toLast /\ IsJoker(d.deck[last])
           toHand == {j \in 1 .. n : ~(joker /\ j = last)}
           hand   == [s \in Seats |->
                        d.hand[s] \cup {d.deck[j] : j \in {i \in toHand : Drawer(d, i) = s}}]
           deck   == SubSeq(d.deck, n + 1, last)
           trump  == IF toLast /\ ~joker THEN d.deck[last].suit ELSE d.trump
           pending == IF joker THEN [card |-> d.deck[last], recipient |-> Drawer(d, last),
                                     chooser |-> chooser] ELSE d.pending
<1>7. r = [d EXCEPT !.hand = hand, !.deck = deck, !.trump = trump, !.pending = pending]
  BY DEF Refill
<1>8. hand \in [Seats -> SUBSET Card]
  <2> SUFFICES ASSUME NEW s \in Seats  PROVE hand[s] \in SUBSET Card
    OBVIOUS
  <2>1. d.hand[s] \in SUBSET Card
    BY <1>1 DEF Deal
  <2>2. \A j \in toHand : d.deck[j] \in Card
    BY <1>2, <1>3
  <2> QED
    BY <2>1, <2>2
<1>9. trump \in Suits \cup {None} /\ pending \in Pending \cup {None}
  <2>1. d.trump \in Suits \cup {None} /\ d.pending \in Pending \cup {None}
    BY <1>1 DEF Deal
  <2>2. joker => d.deck[last] \in Card
    BY <1>2, <1>3
  <2> QED
    BY <1>5, <1>6, <2>1, <2>2 DEF Pending
<1>10. /\ r.hand = hand /\ r.deck = deck /\ r.trump = trump /\ r.pending = pending
       /\ r.inDeal = d.inDeal /\ r.faceDown = d.faceDown
       /\ r.defender = d.defender /\ r.starter = d.starter
       /\ r \in Deal
  <2> HIDE DEF hand, deck, trump, pending, r, n, last
  <2> QED
    BY <1>1, <1>4, <1>7, <1>8, <1>9 DEF Deal, deck
<1>11. pending # d.pending =>
         /\ d.deck # << >>
         /\ pending.recipient \in d.inDeal /\ pending.chooser = chooser
  <2> SUFFICES ASSUME joker
               PROVE  /\ d.deck # << >>
                      /\ Drawer(d, last) \in d.inDeal
    OBVIOUS
  <2>1. d.deck # << >>
    BY EmptySeq
  <2>2. Drawer(d, last) \in d.inDeal
    BY <1>2, DrawerInDeal DEF Sound
  <2> QED
    BY <2>1, <2>2
<1>12. Early(r)
  <2> SUFFICES ASSUME deck # << >>
               PROVE  /\ d.inDeal = Seats /\ \A s \in Seats : d.faceDown[s] # None
                      /\ pending = None
    BY <1>10 DEF Early
  <2>1. ~toLast
    BY <1>4
  <2>2. d.deck # << >>
    BY <1>2, <1>4, SubSeqEmpty
  <2> QED
    BY <2>1, <2>2 DEF Sound, Early
<1> QED
  BY <1>1, <1>10, <1>11, <1>12 DEF Sound, WellFormed

-----------------------------------------------------------------------------
\* The end of a round.

\* A deal in which the players move: no hidden joker waits for its suit.
Running(d) == Sound(d) /\ d.pending = None

\* A hidden joker waits in the dice phase, and both its players are in the deal.
Waiting(d) ==
  d.pending # None => /\ d.phase = "DICE"
                      /\ d.pending.recipient \in d.inDeal
                      /\ d.pending.chooser \in d.inDeal

\* Whoever leaves, somebody stays; and with a face-down card nobody leaves.
LEMMA LeaversStay ==
  ASSUME NEW d, WellFormed(d)
  PROVE  /\ d.inDeal \ Leavers(d) # {}
         /\ (\A s \in Seats : d.faceDown[s] # None) => Leavers(d) = {}
<1>1. d \in Deal /\ d.inDeal \in SUBSET Seats /\ d.inDeal # {} /\ d.starter \in Seats
  BY DEF WellFormed, Deal
<1> DEFINE done == {s \in d.inDeal : HasNothingLeft(d, s)}
<1>2. CASE done = d.inDeal
  <2>1. LastOf(d, done) \in done
    BY <1>1, <1>2, LastOfMember
  <2>2. Leavers(d) = done \ {LastOf(d, done)}
    BY <1>2 DEF Leavers
  <2>3. \E s \in d.inDeal : HasNothingLeft(d, s)
    BY <1>1, <1>2
  <2> QED
    BY <1>1, <1>2, <2>1, <2>2, <2>3 DEF HasNothingLeft
<1>3. CASE done # d.inDeal
  <2>1. Leavers(d) = done
    BY <1>3 DEF Leavers
  <2> QED
    BY <1>1, <1>3, <2>1 DEF HasNothingLeft
<1> QED
  BY <1>2, <1>3

\* Leaving keeps the deal well-formed, and the deck, the pending joker and the roles.
LEMMA MarkExitsKeeps ==
  ASSUME NEW d, Sound(d)
  PROVE  LET r == MarkExits(d)
         IN /\ Sound(r)
            /\ r.pending = d.pending /\ r.deck = d.deck
            /\ (\A s \in Seats : d.faceDown[s] # None) => r.inDeal = d.inDeal
<1> DEFINE before   == Cardinality(Seats \ d.inDeal)
           rank(s)  == Cardinality({t \in Leavers(d) : OrderOf(d, t) <= OrderOf(d, s)})
           inDeal   == d.inDeal \ Leavers(d)
           places   == [s \in Seats |-> IF s \in Leavers(d) THEN before + rank(s)
                                        ELSE d.exitPlace[s]]
           r        == MarkExits(d)
<1>1. d \in Deal /\ WellFormed(d) /\ Early(d) /\ d.inDeal \in SUBSET Seats
  BY DEF Sound, WellFormed, Deal
<1>2. Leavers(d) \in SUBSET d.inDeal
  BY DEF Leavers
<1>3. before \in Nat /\ \A s \in Seats : rank(s) \in Nat
  <2>1. before \in Nat
    BY SeatSubsetFinite
  <2>2. ASSUME NEW s \in Seats  PROVE rank(s) \in Nat
    <3>1. {t \in Leavers(d) : OrderOf(d, t) <= OrderOf(d, s)} \in SUBSET Seats
      BY <1>1, <1>2
    <3> QED
      BY <3>1, SeatSubsetFinite
  <2> QED
    BY <2>1, <2>2
<1>4. places \in [Seats -> Nat]
  <2>1. d.exitPlace \in [Seats -> Nat]
    BY <1>1 DEF Deal
  <2> HIDE DEF before, rank
  <2> QED
    BY <1>3, <2>1
<1>5. r = [d EXCEPT !.inDeal = inDeal, !.exitPlace = places]
  BY <1>1 DEF MarkExits, Deal
<1>6. inDeal \in SUBSET Seats /\ inDeal # {}
  BY <1>1, LeaversStay
<1>7. /\ r \in Deal /\ r.inDeal = inDeal
      /\ r.pending = d.pending /\ r.deck = d.deck /\ r.faceDown = d.faceDown
  <2> HIDE DEF places, inDeal, r
  <2> QED
    BY <1>1, <1>4, <1>5, <1>6 DEF Deal
<1>8. (\A s \in Seats : d.faceDown[s] # None) => inDeal = d.inDeal
  BY <1>1, LeaversStay
<1> QED
  BY <1>1, <1>6, <1>7, <1>8 DEF Sound, WellFormed, Early

\* The next round starts with the dice if a hidden joker waits, and only then.
LEMMA StartNextRoundKeeps ==
  ASSUME NEW d, Sound(d), NEW taken \in BOOLEAN
  PROVE  LET r == StartNextRound(d, taken)
         IN /\ Sound(r)
            /\ r.pending = d.pending /\ r.inDeal = d.inDeal
            /\ r.phase = IF d.pending = None THEN "ATTACK" ELSE "DICE"
<1> DEFINE starter == IF taken \/ d.defender \notin d.inDeal
                        THEN NextActive(d, d.defender) ELSE d.defender
           phase   == IF d.pending = None THEN "ATTACK" ELSE "DICE"
           next    == NextActive(d, starter)
           r       == StartNextRound(d, taken)
<1>1. /\ d \in Deal /\ Early(d) /\ d.inDeal \in SUBSET Seats /\ d.inDeal # {}
      /\ d.defender \in Seats
  BY DEF Sound, WellFormed, Deal
<1>2. starter \in Seats
  BY <1>1, NextActiveInDeal
<1>3. next \in Seats
  <2> HIDE DEF starter
  <2> QED
    BY <1>1, <1>2, NextActiveInDeal
<1>4. r = [d EXCEPT !.phase = phase, !.starter = starter, !.right = starter,
                    !.defender = next, !.passed = {}, !.anyBeaten = FALSE]
  BY DEF StartNextRound
<1>5. phase \in Phases
  BY DEF Phases
<1>6. /\ r \in Deal /\ r.inDeal = d.inDeal /\ r.phase = phase
      /\ r.pending = d.pending /\ r.deck = d.deck /\ r.faceDown = d.faceDown
  <2> HIDE DEF phase, starter, next, r
  <2> QED
    BY <1>1, <1>2, <1>3, <1>4, <1>5 DEF Deal
<1> QED
  BY <1>1, <1>6 DEF Sound, WellFormed, Early

\* A round of a running deal ends in a deal that runs on, waits for a suit or is over.
LEMMA FinishRoundKeeps ==
  ASSUME NEW d, Running(d), NEW taken \in BOOLEAN, NEW chooser \in Seats
  PROVE  LET r == FinishRound(d, taken, chooser) IN Sound(r) /\ Waiting(r)
<1> DEFINE full == Refill(d, chooser)
           left == MarkExits(full)
           over == [left EXCEPT !.phase = "DEAL_OVER"]
           next == StartNextRound(left, taken)
<1>1. Sound(d) /\ d.pending = None
  BY DEF Running
<1>2. /\ Sound(full) /\ full.inDeal = d.inDeal /\ full.faceDown = d.faceDown
      /\ full.pending # None =>
           /\ d.deck # << >>
           /\ full.pending.recipient \in d.inDeal /\ full.pending.chooser = chooser
  BY <1>1, RefillKeeps
<1>3. /\ Sound(left) /\ left.pending = full.pending
      /\ (\A s \in Seats : full.faceDown[s] # None) => left.inDeal = full.inDeal
  <2> HIDE DEF full
  <2> QED
    BY <1>2, MarkExitsKeeps
<1>4. left.pending # None =>
        /\ left.inDeal = Seats
        /\ left.pending.recipient \in left.inDeal /\ left.pending.chooser \in left.inDeal
  <2> HIDE DEF full, left
  <2> QED
    BY <1>1, <1>2, <1>3 DEF Sound, Early
<1>5. CASE Cardinality(left.inDeal) <= 1
  <2>1. left.pending = None
    <3> HIDE DEF left
    <3> QED
      BY <1>4, <1>5, SeatsFinite, CardsAssumption
  <2>2. Sound(over) /\ over.pending = None
    <3> HIDE DEF left
    <3>1. /\ left \in Deal /\ left.inDeal # {} /\ Early(left)
      BY <1>3 DEF Sound, WellFormed
    <3>2. /\ over \in Deal /\ over.inDeal = left.inDeal /\ over.deck = left.deck
          /\ over.pending = left.pending /\ over.faceDown = left.faceDown
      BY <3>1 DEF Deal, Phases
    <3> HIDE DEF over
    <3> QED
      BY <2>1, <3>1, <3>2 DEF Sound, WellFormed, Early
  <2>3. FinishRound(d, taken, chooser) = over
    BY <1>5 DEF FinishRound
  <2> HIDE DEF over
  <2> QED
    BY <2>2, <2>3 DEF Waiting
<1>6. CASE ~(Cardinality(left.inDeal) <= 1)
  <2>1. FinishRound(d, taken, chooser) = next
    BY <1>6 DEF FinishRound
  <2>2. /\ Sound(next) /\ next.pending = left.pending /\ next.inDeal = left.inDeal
        /\ next.phase = IF left.pending = None THEN "ATTACK" ELSE "DICE"
    <3> HIDE DEF left
    <3> QED
      BY <1>3, StartNextRoundKeeps
  <2> HIDE DEF next, left
  <2> QED
    BY <1>4, <2>1, <2>2 DEF Waiting
<1> QED
  BY <1>5, <1>6

\* Clearing the table touches neither the deck nor who is in the deal.
LEMMA ClearTableKeeps ==
  ASSUME NEW d, Running(d), NEW discarded \in BOOLEAN
  PROVE  Running(ClearTable(d, discarded))
<1> DEFINE discard == IF discarded THEN d.discard \cup TableCards(d) ELSE d.discard
           anyDiscarded == d.anyDiscarded \/ discarded
           attack  == AttackCards(d)
           r       == ClearTable(d, discarded)
<1>1. d \in Deal /\ d.inDeal # {} /\ Early(d) /\ d.pending = None
  BY DEF Running, Sound, WellFormed
<1>2. AttackCards(d) \in SUBSET Card /\ TableCards(d) \in SUBSET Card
  BY <1>1, TableIsCards
<1>3. discard \in SUBSET Card /\ anyDiscarded \in BOOLEAN /\ attack \in SUBSET Card
  BY <1>1, <1>2 DEF Deal
<1>4. r = [d EXCEPT !.lastAttack = attack, !.table = {},
                    !.anyDiscarded = anyDiscarded, !.discard = discard]
  BY <1>1 DEF ClearTable, Deal
<1>5. /\ r \in Deal /\ r.inDeal = d.inDeal /\ r.deck = d.deck
      /\ r.faceDown = d.faceDown /\ r.pending = d.pending
  <2> DEFINE cleared == [d EXCEPT !.lastAttack = attack, !.table = {}]
             piled   == [cleared EXCEPT !.discard = discard]
             counted == [piled EXCEPT !.anyDiscarded = anyDiscarded]
  <2>1. /\ cleared \in Deal /\ cleared.inDeal = d.inDeal /\ cleared.deck = d.deck
        /\ cleared.faceDown = d.faceDown /\ cleared.pending = d.pending
    <3> HIDE DEF attack
    <3> QED
      BY <1>1, <1>3 DEF Deal
  <2>2. /\ piled \in Deal /\ piled.inDeal = d.inDeal /\ piled.deck = d.deck
        /\ piled.faceDown = d.faceDown /\ piled.pending = d.pending
    <3> HIDE DEF cleared, discard
    <3> QED
      BY <1>3, <2>1 DEF Deal
  <2>3. /\ counted \in Deal /\ counted.inDeal = d.inDeal /\ counted.deck = d.deck
        /\ counted.faceDown = d.faceDown /\ counted.pending = d.pending
    <3> HIDE DEF piled, anyDiscarded
    <3> QED
      BY <1>3, <2>2 DEF Deal
  <2>4. r = counted
    <3> HIDE DEF attack, discard, anyDiscarded, r
    <3> QED
      BY <1>1, <1>4 DEF Deal
  <2> QED
    BY <2>3, <2>4
<1> QED
  BY <1>1, <1>5 DEF Running, Sound, WellFormed, Early

\* The steps of a hanging window are sequences of sets of seats.
LEMMA HangingStepsType ==
  ASSUME NEW d \in Deal, NEW victim \in Seats
  PROVE  HangingSteps(d, victim) \in Seq(SUBSET Seats)
<1> DEFINE holders == HoldersOfFlyingCard(d, victim)
           others  == d.inDeal \ {victim}
           first   == FirstOf(d, others)
           second  == FirstOf(d, others \ {first})
           step(S) == IF S \cap holders = {} THEN << >> ELSE << S \cap holders >>
<1>1. holders \in SUBSET Seats
  BY DEF HoldersOfFlyingCard, Deal
<1>2. << holders >> \in Seq(SUBSET Seats)
  BY <1>1
<1>3. ASSUME NEW S  PROVE step(S) \in Seq(SUBSET Seats)
  <2> HIDE DEF holders
  <2>1. S \cap holders \in SUBSET Seats
    BY <1>1
  <2>2. << S \cap holders >> \in Seq(SUBSET Seats) /\ << >> \in Seq(SUBSET Seats)
    BY <2>1
  <2> QED
    BY <2>2
<1>4. /\ step({first}) \in Seq(SUBSET Seats) /\ step({second}) \in Seq(SUBSET Seats)
      /\ step(others \ {first, second}) \in Seq(SUBSET Seats)
  <2> HIDE DEF step, others, first, second
  <2> QED
    BY <1>3
<1>5. step({first}) \o step({second}) \o step(others \ {first, second}) \in Seq(SUBSET Seats)
  <2> HIDE DEF step, others, first, second
  <2> QED
    BY <1>4, ConcatProperties
<1>6. HangingSteps(d, victim)
        \in {<< holders >>, step({first}),
             step({first}) \o step({second}) \o step(others \ {first, second})}
  BY DEF HangingSteps
<1> QED
  BY <1>2, <1>4, <1>5, <1>6

\* "Take" ends in an open window or in a finished round.
LEMMA OpenHangingWindowKeeps ==
  ASSUME NEW d, Running(d), NEW chooser \in Seats
  PROVE  LET r == OpenHangingWindow(d, chooser) IN Sound(r) /\ Waiting(r)
<1> DEFINE window == [victim |-> d.defender, steps |-> HangingSteps(d, d.defender),
                      stepIndex |-> 1, claims |-> {}, decided |-> {},
                      everyone |-> IsEveryClaimantHanging(d, d.defender)]
           r      == [d EXCEPT !.phase = "HANGING", !.window = window]
<1>1. d \in Deal /\ d.inDeal # {} /\ Early(d) /\ d.pending = None /\ d.defender \in Seats
  BY DEF Running, Sound, WellFormed, Deal
<1>2. window \in Window
  <2>1. HangingSteps(d, d.defender) \in Seq(SUBSET Seats)
    BY <1>1, HangingStepsType
  <2>2. IsEveryClaimantHanging(d, d.defender) \in BOOLEAN
    BY DEF IsEveryClaimantHanging
  <2> QED
    BY <1>1, <2>1, <2>2 DEF Window
<1>3. /\ r \in Deal /\ r.inDeal = d.inDeal /\ r.deck = d.deck
      /\ r.faceDown = d.faceDown /\ r.pending = None
  <2> HIDE DEF window
  <2> QED
    BY <1>1, <1>2 DEF Deal, Phases
<1>4. Sound(r) /\ Waiting(r)
  <2> HIDE DEF r
  <2> QED
    BY <1>1, <1>3 DEF Sound, WellFormed, Early, Waiting
<1>5. OpenHangingWindow(d, chooser) \in {r, FinishRound(d, TRUE, chooser)}
  BY DEF OpenHangingWindow
<1> QED
  <2> HIDE DEF r
  <2> QED
    BY <1>4, <1>5, FinishRoundKeeps

\* Cards that come to a hand are cards of the deal.
LEMMA HandKeeps ==
  ASSUME NEW d, Running(d), NEW hand \in [Seats -> SUBSET Card]
  PROVE  Running([d EXCEPT !.hand = hand])
<1> DEFINE r == [d EXCEPT !.hand = hand]
<1> SUFFICES Running(r)
  OBVIOUS
<1>1. d \in Deal /\ d.inDeal # {} /\ Early(d) /\ d.pending = None
  BY DEF Running, Sound, WellFormed
<1>2. /\ r \in Deal /\ r.inDeal = d.inDeal /\ r.deck = d.deck
      /\ r.faceDown = d.faceDown /\ r.pending = None
  BY <1>1 DEF Deal
<1> HIDE DEF r
<1> QED
  BY <1>1, <1>2 DEF Running, Sound, WellFormed, Early

\* The defender picks the table up.
LEMMA CollectTableKeeps ==
  ASSUME NEW d, Running(d), NEW chooser \in Seats
  PROVE  LET r == CollectTable(d, chooser) IN Sound(r) /\ Waiting(r)
<1> DEFINE hand  == [d.hand EXCEPT ![d.defender] = @ \cup TableCards(d)]
           taken == [d EXCEPT !.hand = hand]
<1>1. d \in Deal /\ d.hand \in [Seats -> SUBSET Card] /\ d.defender \in Seats
  BY DEF Running, Sound, WellFormed, Deal
<1>2. hand \in [Seats -> SUBSET Card]
  <2>1. TableCards(d) \in SUBSET Card
    BY <1>1, TableIsCards
  <2> QED
    BY <1>1, <2>1
<1>3. Running(taken)
  <2> HIDE DEF hand
  <2> QED
    BY <1>2, HandKeeps
<1>4. CollectTable(d, chooser) = OpenHangingWindow(ClearTable(taken, FALSE), chooser)
  BY DEF CollectTable
<1>5. Running(ClearTable(taken, FALSE))
  <2> HIDE DEF taken
  <2> QED
    BY <1>3, ClearTableKeeps
<1> QED
  <2> HIDE DEF taken
  <2> QED
    BY <1>4, <1>5, OpenHangingWindowKeeps

\* The table goes to the discarded pile.
LEMMA RoundBeatenKeeps ==
  ASSUME NEW d, Running(d), NEW chooser \in Seats
  PROVE  LET r == RoundBeaten(d, chooser) IN Sound(r) /\ Waiting(r)
BY ClearTableKeeps, FinishRoundKeeps DEF RoundBeaten

-----------------------------------------------------------------------------
\* The moves.

\* A move that leaves the deck, the players and the hidden cards alone.
SameFrame(d, e) == /\ e.inDeal = d.inDeal /\ e.deck = d.deck
                   /\ e.faceDown = d.faceDown /\ e.pending = d.pending

\* Such a move keeps a running deal running.
LEMMA FrameKeeps ==
  ASSUME NEW d, Running(d), NEW e \in Deal, SameFrame(d, e)
  PROVE  Running(e) /\ Sound(e) /\ Waiting(e)
BY DEF Running, Sound, WellFormed, Early, Waiting, SameFrame

\* The right to attack goes to a seat or to nobody.
LEMMA NextAttackerType ==
  ASSUME NEW d \in Deal
  PROVE  NextAttacker(d) \in Seats \cup {None}
<1>1. \A s : EligibleAttacker(d, s) => s \in Seats
  BY DEF EligibleAttacker, Deal
<1> QED
  BY <1>1 DEF NextAttacker

\* What is laid is a slot of the table.
LEMMA NewSlotType ==
  ASSUME NEW c \in Card, NEW s \in Seats
  PROVE  NewSlot(c, s) \in Slot
<1>1. 0 \in Seats
  BY CardsAssumption DEF Seats
<1> QED
  BY <1>1 DEF NewSlot, Slot

\* A pass hands the right on, or ends the round.
LEMMA PassedKeeps ==
  ASSUME NEW d, Running(d), NEW s \in Seats, NEW chooser \in Seats
  PROVE  LET r == Passed(d, s, chooser) IN Sound(r) /\ Waiting(r)
<1> DEFINE passed == d.passed \cup {s}
           after  == [d EXCEPT !.passed = passed]
           next   == NextAttacker(after)
           phase  == IF d.phase = "TAKING" THEN "TAKING"
                     ELSE IF Unbeaten(d) # {} THEN "DEFEND" ELSE "ATTACK"
           handed == [after EXCEPT !.right = next, !.phase = phase]
           stays  == [after EXCEPT !.phase = "DEFEND"]
<1>1. d \in Deal
  BY DEF Running, Sound, WellFormed
<1>2. after \in Deal /\ SameFrame(d, after) /\ after.phase = d.phase
  BY <1>1 DEF Deal, SameFrame
<1>3. Running(after)
  <2> HIDE DEF after
  <2> QED
    BY <1>2, FrameKeeps
<1>4. next \in Seats \cup {None}
  <2> HIDE DEF after
  <2> QED
    BY <1>2, NextAttackerType
<1>5. next # None => Sound(handed) /\ Waiting(handed)
  <2> SUFFICES ASSUME next # None  PROVE Sound(handed) /\ Waiting(handed)
    OBVIOUS
  <2>1. phase \in Phases
    BY DEF Phases
  <2>2. handed \in Deal /\ SameFrame(after, handed)
    <3> HIDE DEF after, phase, next
    <3> QED
      BY <1>2, <1>4, <2>1 DEF Deal, SameFrame
  <2> HIDE DEF handed, after
  <2> QED
    BY <1>3, <2>2, FrameKeeps
<1>6. Sound(stays) /\ Waiting(stays)
  <2>1. stays \in Deal /\ SameFrame(after, stays)
    <3> HIDE DEF after
    <3> QED
      BY <1>2 DEF Deal, SameFrame, Phases
  <2> HIDE DEF stays, after
  <2> QED
    BY <1>3, <2>1, FrameKeeps
<1>7. /\ next # None => Passed(d, s, chooser) = handed
      /\ next = None => Passed(d, s, chooser)
           \in {CollectTable(after, chooser), stays, RoundBeaten(after, chooser)}
  <2>1. CASE next # None
    BY <1>2, <2>1 DEF Passed
  <2>2. CASE next = None
    BY <2>2 DEF Passed
  <2> QED
    BY <2>1, <2>2
<1> QED
  <2> HIDE DEF handed, stays, after, next
  <2> QED
    BY <1>3, <1>5, <1>6, <1>7, CollectTableKeeps, RoundBeatenKeeps

\* A card laid in attack; with the last one the player passes.
LEMMA AttackedKeeps ==
  ASSUME NEW d, Running(d), NEW s \in Seats, NEW c \in Card, NEW chooser \in Seats
  PROVE  LET r == Attacked(d, s, c, chooser) IN Sound(r) /\ Waiting(r)
<1> DEFINE hand  == [d.hand EXCEPT ![s] = @ \ {c}]
           table == d.table \cup {NewSlot(c, s)}
           phase == IF d.phase = "TAKING" THEN "TAKING" ELSE "DEFEND"
           laid  == [d EXCEPT !.hand = hand, !.table = table, !.phase = phase]
<1>1. d \in Deal
  BY DEF Running, Sound, WellFormed
<1>2. hand \in [Seats -> SUBSET Card]
  BY <1>1 DEF Deal
<1>3. table \in SUBSET Slot
  BY <1>1, NewSlotType DEF Deal
<1>4. laid \in Deal /\ SameFrame(d, laid)
  <2>1. phase \in Phases
    BY DEF Phases
  <2> HIDE DEF hand, table, phase
  <2> QED
    BY <1>1, <1>2, <1>3, <2>1 DEF Deal, SameFrame
<1>5. Attacked(d, s, c, chooser) \in {laid, Passed(laid, s, chooser)}
  BY DEF Attacked
<1> QED
  <2> HIDE DEF laid
  <2> QED
    BY <1>4, <1>5, FrameKeeps, PassedKeeps

\* A card beaten; with the last one the right moves or the round ends.
LEMMA DefendedKeeps ==
  ASSUME NEW d, Running(d), NEW s \in Seats, NEW c \in Card, NEW target,
         NEW chooser \in Seats
  PROVE  LET r == Defended(d, s, c, target, chooser) IN Sound(r) /\ Waiting(r)
<1> DEFINE hand   == [d.hand EXCEPT ![s] = @ \ {c}]
           beaten == {IF slot.attack = target
                        THEN [slot EXCEPT !.defence = c, !.defenceBy = s] ELSE slot
                      : slot \in d.table}
           after  == [d EXCEPT !.hand = hand, !.table = beaten, !.anyBeaten = TRUE]
           open   == [after EXCEPT !.phase = "ATTACK"]
           defend == [after EXCEPT !.phase = "DEFEND"]
           next   == NextAttacker(open)
           handed == [open EXCEPT !.right = next]
<1>1. d \in Deal
  BY DEF Running, Sound, WellFormed
<1>2. hand \in [Seats -> SUBSET Card]
  BY <1>1 DEF Deal
<1>3. beaten \in SUBSET Slot
  <2>1. d.table \in SUBSET Slot
    BY <1>1 DEF Deal
  <2>2. \A slot \in Slot : [slot EXCEPT !.defence = c, !.defenceBy = s] \in Slot
    BY DEF Slot
  <2> QED
    BY <2>1, <2>2
<1>4. after \in Deal /\ SameFrame(d, after)
  <2> HIDE DEF hand, beaten
  <2> QED
    BY <1>1, <1>2, <1>3 DEF Deal, SameFrame
<1>5. Running(after)
  <2> HIDE DEF after
  <2> QED
    BY <1>4, FrameKeeps
<1>6. /\ open \in Deal /\ SameFrame(after, open)
      /\ defend \in Deal /\ SameFrame(after, defend)
  <2> HIDE DEF after
  <2> QED
    BY <1>4 DEF Deal, SameFrame, Phases
<1>7. /\ Running(open)
      /\ Sound(defend) /\ Waiting(defend)
  <2> HIDE DEF after, open, defend
  <2> QED
    BY <1>5, <1>6, FrameKeeps
<1>8. next # None => Sound(handed) /\ Waiting(handed)
  <2> SUFFICES ASSUME next # None  PROVE Sound(handed) /\ Waiting(handed)
    OBVIOUS
  <2>1. next \in Seats
    <3> HIDE DEF open
    <3> QED
      BY <1>6, NextAttackerType
  <2>2. handed \in Deal /\ SameFrame(open, handed)
    <3> HIDE DEF open, next
    <3> QED
      BY <1>6, <2>1 DEF Deal, SameFrame
  <2> HIDE DEF open, handed
  <2> QED
    BY <1>7, <2>2, FrameKeeps
<1>9. /\ Unbeaten(after) # {} => Defended(d, s, c, target, chooser) = defend
      /\ Unbeaten(after) = {} /\ next # None => Defended(d, s, c, target, chooser) = handed
      /\ Unbeaten(after) = {} /\ next = None =>
           Defended(d, s, c, target, chooser) = RoundBeaten(open, chooser)
  BY DEF Defended
<1> QED
  <2> HIDE DEF after, open, defend, handed, next
  <2> QED
    BY <1>7, <1>8, <1>9, RoundBeatenKeeps

\* The attack goes on to the next player.
LEMMA TransferredKeeps ==
  ASSUME NEW d, Running(d), NEW s \in Seats, NEW c \in Card
  PROVE  LET r == Transferred(d, s, c) IN Sound(r) /\ Waiting(r)
<1> DEFINE hand  == [d.hand EXCEPT ![s] = @ \ {c}]
           table == d.table \cup {NewSlot(c, s)}
           next  == NextActive(d, s)
           r     == Transferred(d, s, c)
<1>1. d \in Deal /\ d.inDeal \in SUBSET Seats /\ d.inDeal # {}
  BY DEF Running, Sound, WellFormed, Deal
<1>2. hand \in [Seats -> SUBSET Card]
  BY <1>1 DEF Deal
<1>3. table \in SUBSET Slot
  BY <1>1, NewSlotType DEF Deal
<1>4. next \in Seats
  BY <1>1, NextActiveInDeal
<1>5. r = [d EXCEPT !.hand = hand, !.table = table, !.starter = s, !.right = s,
                    !.defender = next, !.passed = {}, !.phase = "DEFEND"]
  BY DEF Transferred
<1>6. r \in Deal /\ SameFrame(d, r)
  <2> HIDE DEF hand, table, next, r
  <2> QED
    BY <1>1, <1>2, <1>3, <1>4, <1>5 DEF Deal, SameFrame, Phases
<1>7. Sound(r) /\ Waiting(r)
  <2> HIDE DEF r
  <2> QED
    BY <1>6, FrameKeeps
<1> QED
  BY <1>7

\* "Take" waits for those who may still throw in, or ends the round.
LEMMA TakenKeeps ==
  ASSUME NEW d, Running(d), NEW chooser \in Seats
  PROVE  LET r == Taken(d, chooser) IN Sound(r) /\ Waiting(r)
<1> DEFINE taking == [d EXCEPT !.phase = "TAKING"]
<1>1. d \in Deal
  BY DEF Running, Sound, WellFormed
<1>2. taking \in Deal /\ SameFrame(d, taking)
  BY <1>1 DEF Deal, SameFrame, Phases
<1>3. Taken(d, chooser) \in {taking, CollectTable(taking, chooser)}
  BY DEF Taken
<1> HIDE DEF taking
<1> QED
  BY <1>2, <1>3, FrameKeeps, CollectTableKeeps

\* The face-down card is turned up only when the deck is empty.
LEMMA RevealedKeeps ==
  ASSUME NEW d, Running(d), NEW s \in Seats, CanPlayFaceDown(d, s)
  PROVE  Running(Revealed(d, s)) /\ d.faceDown[s] \in Card
<1> DEFINE hand     == [d.hand EXCEPT ![s] = @ \cup {d.faceDown[s]}]
           faceDown == [d.faceDown EXCEPT ![s] = None]
           r        == Revealed(d, s)
<1>1. d \in Deal /\ d.inDeal # {} /\ d.pending = None /\ d.deck = << >>
  BY DEF Running, Sound, WellFormed, CanPlayFaceDown, DeckEmpty
<1>2. d.faceDown[s] \in Card
  BY <1>1 DEF CanPlayFaceDown, Deal
<1>3. hand \in [Seats -> SUBSET Card] /\ faceDown \in [Seats -> Card \cup {None}]
  BY <1>1, <1>2 DEF Deal
<1>4. r = [d EXCEPT !.hand = hand, !.faceDown = faceDown]
  BY DEF Revealed
<1>5. r \in Deal /\ r.inDeal # {} /\ r.deck = << >> /\ r.pending = None
  <2> HIDE DEF hand, faceDown, r
  <2> QED
    BY <1>1, <1>3, <1>4 DEF Deal
<1>6. Running(r)
  <2> HIDE DEF r
  <2> QED
    BY <1>5 DEF Running, Sound, WellFormed, Early
<1> QED
  BY <1>2, <1>6

-----------------------------------------------------------------------------
\* The hanging window.

\* The cards that fly change hands, slots, levels and nothing of the frame.
LEMMA HungByKeeps ==
  ASSUME NEW d, Running(d), d.window \in Window, NEW claims \in SUBSET Claim
  PROVE  Running(HungBy(d, claims))
<1> DEFINE v      == d.window.victim
           jokers == {cl \in claims : IsJoker(cl.card)}
           hand   == [s \in Seats |->
                        d.hand[s] \ {cl.card : cl \in {x \in claims : x.seat = s}}]
           hung   == [d.hung EXCEPT ![v] = @ \cup {cl.card : cl \in claims}]
           level  == [d.level EXCEPT ![v] = @ + 1]
           hanger == [d.jokerHanger EXCEPT ![v] =
                        IF jokers = {} THEN @ ELSE (CHOOSE cl \in jokers : TRUE).seat]
           r      == HungBy(d, claims)
<1>1. d \in Deal /\ v \in Seats
  BY DEF Running, Sound, WellFormed, Window
<1>2. \A cl \in claims : cl.card \in Card /\ cl.seat \in Seats
  BY DEF Claim
<1>3. hand \in [Seats -> SUBSET Card]
  BY <1>1 DEF Deal
<1>4. hung \in [Seats -> SUBSET Card] /\ level \in [Seats -> Int]
  BY <1>1, <1>2 DEF Deal
<1>5. hanger \in [Seats -> Seats \cup {NobodySeat}]
  <2>1. jokers # {} => (CHOOSE cl \in jokers : TRUE) \in claims
    OBVIOUS
  <2>2. d.jokerHanger \in [Seats -> Seats \cup {NobodySeat}]
    BY <1>1 DEF Deal
  <2> HIDE DEF jokers
  <2> QED
    BY <1>2, <2>1, <2>2
<1>6. r = [d EXCEPT !.hand = hand, !.hung = hung, !.level = level, !.jokerHanger = hanger]
  BY DEF HungBy
<1>7. r \in Deal /\ SameFrame(d, r)
  <2> HIDE DEF hand, hung, level, hanger, r
  <2> QED
    BY <1>1, <1>3, <1>4, <1>5, <1>6 DEF Deal, SameFrame
<1>8. Running(r)
  <2> HIDE DEF r
  <2> QED
    BY <1>7, FrameKeeps
<1> QED
  BY <1>8

\* Another window, or none, does not disturb the deal.
LEMMA WindowKeeps ==
  ASSUME NEW d, Running(d), NEW window \in Window \cup {None}
  PROVE  LET r == [d EXCEPT !.window = window]
         IN Running(r) /\ r.window = window
<1> DEFINE r == [d EXCEPT !.window = window]
<1>1. d \in Deal
  BY DEF Running, Sound, WellFormed
<1>2. r \in Deal /\ SameFrame(d, r) /\ r.window = window
  BY <1>1 DEF Deal, SameFrame
<1>3. Running(r)
  <2> HIDE DEF r
  <2> QED
    BY <1>2, FrameKeeps
<1> QED
  BY <1>2, <1>3

\* The window closes with the end of the round.
LEMMA CloseWindowKeeps ==
  ASSUME NEW d, Running(d), NEW chooser \in Seats
  PROVE  LET r == CloseWindow(d, chooser) IN Sound(r) /\ Waiting(r)
<1> DEFINE closed == [d EXCEPT !.window = None]
<1>1. Running(closed)
  BY WindowKeeps
<1>2. CloseWindow(d, chooser) = FinishRound(closed, TRUE, chooser)
  BY DEF CloseWindow
<1> HIDE DEF closed
<1> QED
  BY <1>1, <1>2, FinishRoundKeeps

\* The window stays, moves to its next step, or closes.
LEMMA AdvanceWindowKeeps ==
  ASSUME NEW d, Running(d), d.window \in Window, NEW winner, NEW chooser \in Seats
  PROVE  LET r == AdvanceWindow(d, winner, chooser) IN Sound(r) /\ Waiting(r)
<1> DEFINE w      == d.window
           chosen == IF w.everyone \/ Cardinality(w.claims) = 1 THEN w.claims
                     ELSE {cl \in w.claims : cl.seat = winner}
           window == [w EXCEPT !.stepIndex = @ + 1, !.claims = {}, !.decided = {}]
           later  == [d EXCEPT !.window = window]
<1>1. chosen \in SUBSET Claim
  BY DEF Window
<1>2. window \in Window
  <2>1. w.stepIndex + 1 \in Nat \ {0}
    BY DEF Window
  <2> DEFINE index == w.stepIndex + 1
  <2>2. window = [w EXCEPT !.stepIndex = index, !.claims = {}, !.decided = {}]
    OBVIOUS
  <2> HIDE DEF index, window
  <2> QED
    BY <2>1, <2>2 DEF Window, index
<1>3. Sound(d) /\ Waiting(d)
  BY DEF Running, Waiting
<1>4. Sound(later) /\ Waiting(later)
  <2>1. Running(later)
    <3> HIDE DEF window
    <3> QED
      BY <1>2, WindowKeeps
  <2> HIDE DEF later
  <2> QED
    BY <2>1 DEF Running, Waiting
<1>5. Running(HungBy(d, chosen))
  <2> HIDE DEF chosen
  <2> QED
    BY <1>1, HungByKeeps
<1>6. AdvanceWindow(d, winner, chooser)
        \in {d, later, CloseWindow(d, chooser), CloseWindow(HungBy(d, chosen), chooser)}
  BY DEF AdvanceWindow
<1> QED
  <2> HIDE DEF chosen, later
  <2> QED
    BY <1>3, <1>4, <1>5, <1>6, CloseWindowKeeps

\* A decision is noted in the window.
LEMMA DecidedKeeps ==
  ASSUME NEW d, Running(d), d.window \in Window, NEW s \in Seats, NEW cards \in SUBSET Card
  PROVE  LET r == Decided(d, s, cards) IN Running(r) /\ r.window \in Window
<1> DEFINE window == [d.window EXCEPT
                        !.claims  = @ \cup {[seat |-> s, card |-> c] : c \in cards},
                        !.decided = @ \cup {s}]
           r      == [d EXCEPT !.window = window]
<1>1. {[seat |-> s, card |-> c] : c \in cards} \in SUBSET Claim
  BY DEF Claim
<1>2. window \in Window
  <2> HIDE DEF Claim
  <2> QED
    BY <1>1 DEF Window
<1>3. Running(r) /\ r.window = window
  <2> HIDE DEF window
  <2> QED
    BY <1>2, WindowKeeps
<1>4. Decided(d, s, cards) = r
  BY DEF Decided
<1> HIDE DEF r
<1> QED
  BY <1>2, <1>3, <1>4

-----------------------------------------------------------------------------
\* The start of the deal.

\* Whoever holds the lowest trump is a seat of the table, the first one if nobody does.
LEMMA LowestTrumpSeatType ==
  ASSUME NEW hand, NEW suit
  PROVE  LowestTrumpSeat(hand, suit) \in Seats
<1> DEFINE ranks(s) == {c.rank : c \in {x \in hand[s] : x \in Pip /\ x.suit = suit}}
           holders  == {s \in Seats : \E r \in ranks(s) :
                                       \A t \in Seats : \A q \in ranks(t) : r <= q}
<1>1. holders \in SUBSET Seats
  OBVIOUS
<1>2. LowestTrumpSeat(hand, suit) = IF holders = {} THEN 0 ELSE CHOOSE s \in holders : TRUE
  BY DEF LowestTrumpSeat
<1>3. 0 \in Seats
  BY CardsAssumption DEF Seats
<1> HIDE DEF holders
<1> QED
  BY <1>1, <1>2, <1>3

\* A product of counts is a count, and grows with its factor.
LEMMA ProductBound ==
  ASSUME NEW n \in Nat, NEW i \in Nat, NEW size \in Nat, i < size
  PROVE  n * i \in Nat /\ n * size \in Nat /\ n * i + n <= n * size
<1>1. size - i - 1 \in Nat
  OBVIOUS
<1>2. n * (size - i - 1) \in Nat
  BY <1>1
<1>3. n * size = n * (size - i - 1) + n * i + n
  OBVIOUS
<1> QED
  BY <1>2, <1>3

\* The dealer deals from within the pack, and a deck of two cards or more remains.
LEMMA DealtIsSound ==
  ASSUME NEW pack \in Shuffles, NEW levels \in StartLevels, NEW chooser \in Seats
  PROVE  LET r == Dealt(pack, levels, chooser) IN Sound(r) /\ Waiting(r)
<1> DEFINE hand      == [s \in Seats |-> {pack[i * N + s + 1] : i \in 0 .. DealSize - 1}]
           first     == N * (DealSize + 1) + 1
           deck      == SubSeq(pack, first, Len(pack))
           trumpCard == deck[Len(deck) - 1]
           joker     == IsJoker(trumpCard)
           starter   == IF joker THEN 0 ELSE LowestTrumpSeat(hand, trumpCard.suit)
           faceDown  == [s \in Seats |-> pack[N * DealSize + s + 1]]
           phase     == IF joker THEN "DICE" ELSE "ATTACK"
           trump     == IF joker THEN None ELSE trumpCard.suit
           right     == IF joker THEN chooser ELSE starter
           defender  == IF starter = N - 1 THEN 0 ELSE starter + 1
           r         == Dealt(pack, levels, chooser)
<1>1. /\ pack \in Seq(Card) /\ Len(pack) \in Nat
      /\ Len(pack) >= N * (DealSize + 1) + 2
  BY DealAssumption, CardsAssumption, LenProperties
<1>2. /\ N \in Nat /\ N >= 2 /\ DealSize \in Nat /\ N * DealSize \in Nat
      /\ N * (DealSize + 1) = N * DealSize + N
  BY CardsAssumption, RulesAssumption
<1>3. \A j \in 1 .. Len(pack) : pack[j] \in Card
  BY <1>1, ElementOfSeq
<1>4. hand \in [Seats -> SUBSET Card]
  <2> SUFFICES ASSUME NEW s \in Seats, NEW i \in 0 .. DealSize - 1
               PROVE  pack[i * N + s + 1] \in Card
    OBVIOUS
  <2>1. N * i \in Nat /\ N * i + N <= N * DealSize
    BY <1>2, ProductBound
  <2>2. i * N = N * i
    BY <1>2
  <2>3. s \in 0 .. N - 1
    BY DEF Seats
  <2>4. i * N + s + 1 \in 1 .. Len(pack)
    BY <1>1, <1>2, <2>1, <2>2, <2>3
  <2> QED
    BY <1>3, <2>4
<1>5. faceDown \in [Seats -> Card]
  <2> SUFFICES ASSUME NEW s \in Seats  PROVE pack[N * DealSize + s + 1] \in Card
    OBVIOUS
  <2>1. s \in 0 .. N - 1
    BY DEF Seats
  <2>2. N * DealSize + s + 1 \in 1 .. Len(pack)
    BY <1>1, <1>2, <2>1
  <2> QED
    BY <1>3, <2>2
<1>6. first \in 1 .. Len(pack) - 1
  BY <1>1, <1>2
<1>7. deck \in Seq(Card) /\ Len(deck) \in Nat /\ Len(deck) >= 2
  <2> HIDE DEF first
  <2>1. \A j \in first .. Len(pack) : pack[j] \in Card
    BY <1>1, <1>3, <1>6
  <2>2. deck \in Seq(Card) /\ Len(deck) = Len(pack) - first + 1
    BY <1>1, <1>6, <2>1, SubSeqProperties
  <2> QED
    BY <1>1, <1>6, <2>2
<1>8. trumpCard \in Card
  <2> HIDE DEF deck
  <2> QED
    BY <1>7, ElementOfSeq
<1>9. ~joker => trumpCard.suit \in Suits
  <2> HIDE DEF trumpCard
  <2> QED
    BY <1>8 DEF IsJoker, Card, Pip
<1>10. starter \in Seats
  BY LowestTrumpSeatType, CardsAssumption DEF Seats
<1>11. defender \in Seats
  <2> HIDE DEF starter
  <2> QED
    BY <1>2, <1>10 DEF Seats
<1>12. /\ phase \in Phases /\ trump \in Suits \cup {None} /\ right \in Seats
       /\ levels \in [Seats -> Int]
  <2>1. levels \in [Seats -> Levels] /\ Levels \in SUBSET Int
    BY DealAssumption, CardsAssumption, LenProperties DEF Levels, JokerLevel, NoNaves
  <2> HIDE DEF trumpCard, starter, joker
  <2> QED
    BY <1>9, <1>10, <2>1 DEF Phases
<1>13. r = [phase        |-> phase,
            trump        |-> trump,
            deck         |-> deck,
            hand         |-> hand,
            faceDown     |-> faceDown,
            inDeal       |-> Seats,
            level        |-> levels,
            hung         |-> [s \in Seats |-> {}],
            jokerHanger  |-> [s \in Seats |-> NobodySeat],
            table        |-> {},
            starter      |-> starter,
            right        |-> right,
            defender     |-> defender,
            passed       |-> {},
            exitPlace    |-> [s \in Seats |-> 0],
            anyBeaten    |-> FALSE,
            anyDiscarded |-> FALSE,
            window       |-> None,
            lastAttack   |-> {},
            pending      |-> None,
            discard      |-> {}]
  BY DEF Dealt
<1>14. /\ r \in Deal /\ r.inDeal = Seats /\ r.faceDown = faceDown /\ r.pending = None
  <2> HIDE DEF hand, deck, phase, trump, faceDown, starter, right, defender, r
  <2> QED
    BY <1>4, <1>5, <1>7, <1>10, <1>11, <1>12, <1>13 DEF Deal
<1>15. \A s \in Seats : faceDown[s] # None
  <2> HIDE DEF faceDown
  <2> QED
    BY <1>5, CardsAssumption
<1>16. Seats # {}
  BY CardsAssumption DEF Seats
<1>17. Sound(r) /\ Waiting(r)
  <2> HIDE DEF r, faceDown
  <2> QED
    BY <1>14, <1>15, <1>16 DEF Sound, WellFormed, Early, Waiting
<1> QED
  BY <1>17

-----------------------------------------------------------------------------
(***************************************************************************)
(* The inductive invariant.  That nobody leaves early is not inductive by  *)
(* itself: the joker at the bottom of the deck must find nobody waiting    *)
(* for a suit yet, the deal must be of its type for the refill to be       *)
(* understood, and it must not have lost its last player.                  *)
(***************************************************************************)
DealInv == Sound(deal) /\ Waiting(deal)

\* Who wins the dice is a seat of the table.
LEMMA ChoosersAreSeats ==
  ASSUME Sound(deal)
  PROVE  Choosers \in SUBSET Seats
<1>1. deal.inDeal \in SUBSET Seats /\ deal.defender \in Seats
  BY DEF Sound, WellFormed, Deal
<1> QED
  BY <1>1 DEF Choosers

\* In a phase other than the dice the deal runs.
LEMMA PlayableIsRunning ==
  ASSUME DealInv, deal.phase # "DICE"
  PROVE  Running(deal) /\ deal \in Deal /\ deal.hand \in [Seats -> SUBSET Card]
BY DEF DealInv, Waiting, Running, Sound, WellFormed, Deal

\* The moves of a round keep the invariant.
LEMMA RoundKeeps ==
  ASSUME DealInv, NEW s \in Seats, NEW chooser \in Seats, Round(s, chooser)
  PROVE  DealInv'
<1> USE DEF DealInv
<1>1. CASE \E c \in deal.hand[s] : Attack(s, c, chooser)
  <2>1. PICK c \in deal.hand[s] : Attack(s, c, chooser)
    BY <1>1
  <2>2. Running(deal) /\ c \in Card /\ deal' = Attacked(deal, s, c, chooser)
    BY <2>1, PlayableIsRunning DEF Attack, Playable
  <2> QED
    BY <2>2, AttackedKeeps
<1>2. CASE \E c \in deal.hand[s] : Transfer(s, c)
  <2>1. PICK c \in deal.hand[s] : Transfer(s, c)
    BY <1>2
  <2>2. Running(deal) /\ c \in Card /\ deal' = Transferred(deal, s, c)
    BY <2>1, PlayableIsRunning DEF Transfer, Playable
  <2> QED
    BY <2>2, TransferredKeeps
<1>3. CASE \E c \in deal.hand[s] : \E target \in AttackCards(deal) :
             Defend(s, c, target, chooser)
  <2>1. PICK c \in deal.hand[s], target \in AttackCards(deal) : Defend(s, c, target, chooser)
    BY <1>3
  <2>2. Running(deal) /\ c \in Card /\ deal' = Defended(deal, s, c, target, chooser)
    BY <2>1, PlayableIsRunning DEF Defend, Playable
  <2> QED
    BY <2>2, DefendedKeeps
<1>4. CASE Pass(s, chooser)
  <2>1. Running(deal) /\ deal' = Passed(deal, s, chooser)
    BY <1>4, PlayableIsRunning DEF Pass, Playable
  <2> QED
    BY <2>1, PassedKeeps
<1>5. CASE Take(s, chooser)
  <2>1. Running(deal) /\ deal' = Taken(deal, chooser)
    BY <1>5, PlayableIsRunning DEF Take, Playable
  <2> QED
    BY <2>1, TakenKeeps
<1>6. CASE RevealFaceDown(s, chooser)
  <2> DEFINE card == deal.faceDown[s]
             open == Revealed(deal, s)
  <2>1. Running(deal) /\ CanPlayFaceDown(deal, s)
    BY <1>6, PlayableIsRunning DEF RevealFaceDown, Playable
  <2>2. Running(open) /\ card \in Card
    BY <2>1, RevealedKeeps
  <2>3. deal' \in {Attacked(open, s, card, chooser), open}
    BY <1>6 DEF RevealFaceDown
  <2> HIDE DEF open, card
  <2> QED
    BY <2>2, <2>3, AttackedKeeps DEF Running, Waiting
<1>7. CASE \E target \in Pack : RevealToDefend(s, target, chooser)
  <2> DEFINE card == deal.faceDown[s]
             open == Revealed(deal, s)
  <2>1. PICK target \in Pack : RevealToDefend(s, target, chooser)
    BY <1>7
  <2>2. Running(deal) /\ CanPlayFaceDown(deal, s)
    BY <2>1, PlayableIsRunning DEF RevealToDefend, Playable
  <2>3. Running(open) /\ card \in Card
    BY <2>2, RevealedKeeps
  <2>4. deal' \in {Defended(open, s, card, target, chooser), open}
    BY <2>1 DEF RevealToDefend
  <2> HIDE DEF open, card
  <2> QED
    BY <2>3, <2>4, DefendedKeeps DEF Running, Waiting
<1> QED
  BY <1>1, <1>2, <1>3, <1>4, <1>5, <1>6, <1>7 DEF Round

\* So do the decisions in the hanging window.
LEMMA HangingKeeps ==
  ASSUME DealInv, NEW s \in Seats, NEW chooser \in Seats, Hanging(s, chooser)
  PROVE  DealInv'
<1> SUFFICES ASSUME NEW winner \in Seats, NEW cards \in SUBSET Card,
                    deal.phase = "HANGING", deal.window # None,
                    deal' = AdvanceWindow(Decided(deal, s, cards), winner, chooser)
             PROVE  DealInv'
  <2>1. PICK winner \in Seats :
          \/ \E cards \in SUBSET deal.hand[s] : HangCard(s, cards, winner, chooser)
          \/ HangSkip(s, winner, chooser)
    BY DEF Hanging
  <2>2. deal.phase = "HANGING" /\ deal.window # None
    BY <2>1 DEF HangCard, HangSkip
  <2>3. deal.hand[s] \in SUBSET Card
    BY <2>2, PlayableIsRunning
  <2>4. \E cards \in SUBSET Card :
          deal' = AdvanceWindow(Decided(deal, s, cards), winner, chooser)
    BY <2>1, <2>3 DEF HangCard, HangSkip
  <2> QED
    BY <2>2, <2>4
<1>1. Running(deal) /\ deal.window \in Window
  BY PlayableIsRunning DEF Deal
<1>2. /\ Running(Decided(deal, s, cards))
      /\ Decided(deal, s, cards).window \in Window
  BY <1>1, DecidedKeeps
<1> QED
  BY <1>2, AdvanceWindowKeeps DEF DealInv

\* So does naming the trump.
LEMMA TrumpKeeps ==
  ASSUME DealInv, NEW s \in Seats, Trump(s)
  PROVE  DealInv'
<1> PICK suit \in Suits : ChooseTrump(s, suit) \/ ChooseTrumpForHidden(s, suit)
  BY DEF Trump
<1>1. /\ deal \in Deal /\ deal.inDeal # {} /\ deal.inDeal \in SUBSET Seats
      /\ Early(deal) /\ Waiting(deal)
  BY DEF DealInv, Sound, WellFormed, Deal
<1>2. CASE ChooseTrump(s, suit)
  <2> DEFINE starter == LowestTrumpSeat(deal.hand, suit)
             next    == NextActive(deal, starter)
  <2>1. starter \in Seats
    BY LowestTrumpSeatType
  <2>2. next \in Seats
    <3> HIDE DEF starter
    <3> QED
      BY <1>1, <2>1, NextActiveInDeal
  <2>3. /\ deal' = [deal EXCEPT !.trump = suit, !.phase = "ATTACK", !.starter = starter,
                                !.right = starter, !.defender = next]
        /\ deal.pending = None
    BY <1>2 DEF ChooseTrump
  <2>4. deal' \in Deal /\ SameFrame(deal, deal')
    <3> HIDE DEF starter, next
    <3> DEFINE named == [deal EXCEPT !.trump = suit, !.phase = "ATTACK"]
    <3>1. named \in Deal /\ SameFrame(deal, named)
      BY <1>1 DEF Deal, SameFrame, Phases
    <3>2. deal' = [named EXCEPT !.starter = starter, !.right = starter, !.defender = next]
      BY <1>1, <2>3 DEF Deal
    <3> HIDE DEF named
    <3> QED
      BY <2>1, <2>2, <3>1, <3>2 DEF Deal, SameFrame
  <2>5. Running(deal)
    BY <2>3 DEF DealInv, Running
  <2> QED
    BY <2>4, <2>5, FrameKeeps DEF DealInv
<1>3. CASE ChooseTrumpForHidden(s, suit)
  <2> DEFINE p    == deal.pending
             hand == [deal.hand EXCEPT ![p.recipient] = @ \cup {p.card}]
  <2>1. p # None /\ p \in Pending /\ deal.deck = << >>
    BY <1>1, <1>3 DEF ChooseTrumpForHidden, Deal, Early
  <2>2. hand \in [Seats -> SUBSET Card]
    BY <1>1, <2>1 DEF Deal, Pending
  <2>3. deal' = [deal EXCEPT !.trump = suit, !.pending = None, !.phase = "ATTACK",
                             !.hand = hand]
    BY <1>3 DEF ChooseTrumpForHidden
  <2>4. /\ deal' \in Deal /\ deal'.inDeal = deal.inDeal /\ deal'.pending = None
        /\ deal'.deck = << >>
    <3> HIDE DEF hand
    <3> QED
      BY <1>1, <2>1, <2>2, <2>3 DEF Deal, Phases
  <2> QED
    BY <1>1, <2>4 DEF DealInv, Sound, WellFormed, Early, Waiting
<1> QED
  BY <1>2, <1>3

\* And so do the cards taken back and the objections to it.
LEMMA SecondThoughtsKeep ==
  ASSUME DealInv, NEW s \in Seats, SecondThoughts(s)
  PROVE  DealInv'
<1> PICK slot \in deal.table : \/ RecallAttack(s, slot) \/ RecallDefence(s, slot)
                               \/ PinAttack(s, slot) \/ PinDefence(s, slot)
  BY DEF SecondThoughts
<1> SUFFICES deal' \in Deal /\ SameFrame(deal, deal')
  <2>1. deal.phase # "DICE"
    BY DEF RecallAttack, RecallDefence, PinAttack, PinDefence, Playable
  <2>2. Running(deal)
    BY <2>1, PlayableIsRunning
  <2> QED
    BY <2>2, FrameKeeps DEF DealInv
<1>1. /\ deal \in Deal /\ slot \in Slot /\ deal.table \in SUBSET Slot
      /\ deal.phase \in Phases
  BY DEF DealInv, Sound, WellFormed, Deal
<1>2. CASE RecallAttack(s, slot)
  <2> DEFINE table == deal.table \ {slot}
             hand  == [deal.hand EXCEPT ![s] = @ \cup {slot.attack}]
             phase == IF deal.table = {slot} THEN "ATTACK" ELSE deal.phase
  <2>1. /\ table \in SUBSET Slot /\ hand \in [Seats -> SUBSET Card]
        /\ phase \in Phases
    BY <1>1 DEF Deal, Slot, Phases
  <2>2. deal' = [deal EXCEPT !.table = table, !.hand = hand, !.phase = phase]
    BY <1>2 DEF RecallAttack
  <2> HIDE DEF table, hand, phase
  <2> QED
    BY <1>1, <2>1, <2>2 DEF Deal, SameFrame
<1>3. CASE RecallDefence(s, slot)
  <2> DEFINE bare  == [slot EXCEPT !.defence = None, !.defenceBy = 0]
             table == (deal.table \ {slot}) \cup {bare}
             hand  == [deal.hand EXCEPT ![s] = @ \cup {slot.defence}]
  <2>1. bare \in Slot
    <3>1. 0 \in Seats
      BY CardsAssumption DEF Seats
    <3> QED
      BY <1>1, <3>1 DEF Slot
  <2>2. slot.defence \in Card
    BY <1>1, <1>3 DEF RecallDefence, IsBeaten, Slot
  <2>3. table \in SUBSET Slot /\ hand \in [Seats -> SUBSET Card]
    <3> HIDE DEF bare
    <3> QED
      BY <1>1, <2>1, <2>2 DEF Deal
  <2>4. deal' = [deal EXCEPT !.table = table, !.hand = hand, !.phase = "DEFEND"]
    BY <1>3 DEF RecallDefence
  <2> HIDE DEF table, hand
  <2> QED
    BY <1>1, <2>3, <2>4 DEF Deal, SameFrame, Phases
<1>4. CASE PinAttack(s, slot)
  <2> DEFINE pinned == [slot EXCEPT !.attackPinned = TRUE]
             table  == (deal.table \ {slot}) \cup {pinned}
  <2>1. pinned \in Slot
    BY <1>1 DEF Slot
  <2>2. table \in SUBSET Slot /\ deal' = [deal EXCEPT !.table = table]
    BY <1>1, <1>4, <2>1 DEF PinAttack
  <2> HIDE DEF table
  <2> QED
    BY <1>1, <2>2 DEF Deal, SameFrame
<1>5. CASE PinDefence(s, slot)
  <2> DEFINE pinned == [slot EXCEPT !.defencePinned = TRUE]
             table  == (deal.table \ {slot}) \cup {pinned}
  <2>1. pinned \in Slot
    BY <1>1 DEF Slot
  <2>2. table \in SUBSET Slot /\ deal' = [deal EXCEPT !.table = table]
    BY <1>1, <1>5, <2>1 DEF PinDefence
  <2> HIDE DEF table
  <2> QED
    BY <1>1, <2>2 DEF Deal, SameFrame
<1> QED
  BY <1>2, <1>3, <1>4, <1>5

\* Every deal starts in the invariant, and every command keeps it.
THEOREM DealInvariant == Spec => []DealInv
<1>1. Init => DealInv
  BY DealtIsSound DEF Init, DealInv
<1>2. DealInv /\ [Next]_vars => DealInv'
  <2> SUFFICES ASSUME DealInv, [Next]_vars  PROVE DealInv'
    OBVIOUS
  <2>1. CASE Next
    <3>1. PICK s \in Seats :
            \/ \E chooser \in Choosers : Round(s, chooser) \/ Hanging(s, chooser)
            \/ Trump(s)
            \/ SecondThoughts(s)
      BY <2>1 DEF Next
    <3>2. CASE \E chooser \in Choosers : Round(s, chooser) \/ Hanging(s, chooser)
      <4>1. Choosers \in SUBSET Seats
        BY ChoosersAreSeats DEF DealInv
      <4> QED
        BY <3>2, <4>1, RoundKeeps, HangingKeeps
    <3>3. CASE Trump(s)
      BY <3>3, TrumpKeeps
    <3>4. CASE SecondThoughts(s)
      BY <3>4, SecondThoughtsKeep
    <3> QED
      BY <3>1, <3>2, <3>3, <3>4
  <2>2. CASE UNCHANGED vars
    BY <2>2 DEF vars, DealInv
  <2> QED
    BY <2>1, <2>2
<1> QED
  BY <1>1, <1>2, PTL DEF Spec

\* Every command leaves a well-formed deal: the hands, the table, the roles and the
\* window that the handlers of deal_engine.go build are those of DealState.
THEOREM TypeCorrect == Spec => []TypeOK
<1>1. DealInv => TypeOK
  BY DEF DealInv, Sound, WellFormed, TypeOK
<1> QED
  BY <1>1, DealInvariant, PTL

\* While there is a deck nobody has left the deal or turned his face-down card up.
THEOREM NobodyLeavesEarlyEver == Spec => []NobodyLeavesEarly
<1>1. DealInv => NobodyLeavesEarly
  BY DEF DealInv, Sound, Early, NobodyLeavesEarly, DeckEmpty
<1> QED
  BY <1>1, DealInvariant, PTL

\* A joker that turns out to be the hidden trump finds its recipient and the winner of
\* the dice in the deal, and the deal waits for the suit.
THEOREM HiddenTrumpFindsItsPlayersEver == Spec => []HiddenTrumpFindsItsPlayers
<1>1. DealInv => HiddenTrumpFindsItsPlayers
  BY DEF DealInv, Waiting, HiddenTrumpFindsItsPlayers
<1> QED
  BY <1>1, DealInvariant, PTL
=============================================================================
