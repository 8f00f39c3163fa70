---------------------------- MODULE DealRoundProofs ----------------------------
(***************************************************************************)
(* The course of a round, proved for every number of players, every pack   *)
(* and every setting of the table: who holds which role, in which order    *)
(* the players leave, that no move is made into an open hanging window,    *)
(* and that a deal that is over can be scored.                             *)
(*                                                                         *)
(* The handlers of attack and pass do not look at the phase, only at the   *)
(* passes made and at the hands.  That this is enough is not local to any  *)
(* of them: it rests on who can have run out of cards while a round goes   *)
(* on, and on the rule that a transfer must leave its receiver cards to    *)
(* answer with.                                                            *)
(***************************************************************************)
EXTENDS DealCardsProofs

-----------------------------------------------------------------------------
\* The parts of the invariant.

\* A player who can neither attack nor defend: his hand is empty, and his face-down card
\* is gone or not playable yet.
HasNothing(d, s) == d.hand[s] = {} /\ ~CanPlayFaceDown(d, s)

\* The phases of a round.
InRound(d) == d.phase \in {"ATTACK", "DEFEND", "TAKING"}

\* The roles of a round: the defender sits next to the starter, the right to attack is
\* with the starter or with the second neighbour.
Roles(d) ==
  /\ d.starter \in d.inDeal /\ d.right \in d.inDeal /\ d.defender \in d.inDeal
  /\ d.defender = NextActive(d, d.starter)
  /\ d.defender \notin {d.starter, d.right}
  /\ d.right \in {d.starter, SecondNeighbour(d)}

\* Who has left has a place of his own, who is in the deal has none.
Exits(d) ==
  /\ {d.exitPlace[s] : s \in Seats \ d.inDeal} = 1 .. Cardinality(Seats \ d.inDeal)
  /\ \A s \in d.inDeal : d.exitPlace[s] = 0

\* Whoever has nothing has played in this round: his card is on the table.
Supplied(d) ==
  \A s \in d.inDeal : HasNothing(d, s) =>
    \E slot \in d.table : slot.attackBy = s \/ (IsBeaten(slot) /\ slot.defenceBy = s)

\* Only the defender has beaten cards, and none is beaten before the first one is.
Defences(d) ==
  /\ \A slot \in d.table : IsBeaten(slot) => slot.defenceBy = d.defender
  /\ ~d.anyBeaten => \A slot \in d.table : ~IsBeaten(slot)

\* Who received the attack by a transfer could answer more than one card: he will not be
\* left without cards by passing it on.
Attackers(d) ==
  ~d.anyBeaten => \/ \A slot \in d.table : slot.attackBy \in {d.starter, SecondNeighbour(d)}
                  \/ \E a, b \in d.hand[d.defender] : a # b

\* Who has the right to attack but nothing to attack with passed the attack on with his
\* last card; the second neighbour has not played then, unless nobody else is left.
Turn(d) ==
  d.right \notin d.passed /\ HasNothing(d, d.right) =>
    /\ d.right = d.starter /\ d.passed = {}
    /\ \A slot \in d.table :
         slot.attackBy = SecondNeighbour(d) /\ slot.attackBy # d.right =>
           d.inDeal = {d.right, d.defender, slot.attackBy}

\* A round but for whose turn it is.
RoundCore(d) ==
  /\ Roles(d) /\ Supplied(d) /\ Defences(d) /\ Attackers(d)
  /\ d.window = None
  /\ d.phase = "TAKING" => d.table # {}

\* The dice: everybody has something, and a hidden joker has left the roles as they are.
DiceInv(d) ==
  /\ d.table = {} /\ d.window = None
  /\ \A s \in d.inDeal : ~HasNothing(d, s)
  /\ IF d.pending = None THEN d.inDeal = Seats ELSE Roles(d)

\* The hanging window: the round is closed, its steps are all to be decided by somebody.
StepsAreSound(d, w) ==
  /\ w.stepIndex \in 1 .. Len(w.steps)
  /\ \A i \in 1 .. Len(w.steps) : /\ w.steps[i] # {}
                                  /\ w.steps[i] \subseteq d.inDeal \ {w.victim}

\* The window as it is opened and decided in; its step may be complete for the moment a command
\* takes.
WindowOpen(d) ==
  /\ d.table = {} /\ d.lastAttack # {} /\ d.right \in d.passed
  /\ Roles(d)
  /\ d.window # None
  /\ d.window.victim = d.defender
  /\ StepsAreSound(d, d.window)
  /\ \A cl \in d.window.claims : /\ cl.seat \in d.window.decided
                                 /\ IsFlyingCard(d.level[d.window.victim], cl.card)

\* Between two commands somebody can decide.
WindowInv(d) == WindowOpen(d) /\ ~IsStepComplete(d.window)

\* Over: the table is cleared and at most one player is left.
OverInv(d) ==
  /\ d.table = {} /\ d.lastAttack # {} /\ d.window = None
  /\ Cardinality(d.inDeal) <= 1

\* Each phase with what holds in it.
Phased(d) ==
  /\ Exits(d)
  /\ d.trump = None => d.phase = "DICE"
  /\ d.phase = "DICE" => DiceInv(d)
  /\ InRound(d) => RoundCore(d) /\ Turn(d)
  /\ d.phase = "HANGING" => WindowInv(d)
  /\ d.phase = "DEAL_OVER" => OverInv(d)

-----------------------------------------------------------------------------
\* The circle of the players.

\* The next player is the nearest one clockwise, and another one if there is another.
LEMMA NextIsNearest ==
  ASSUME NEW d, d.inDeal \in SUBSET Seats, d.inDeal # {}, NEW s \in Seats
  PROVE  /\ NextActive(d, s) \in d.inDeal
         /\ \A u \in d.inDeal : Clockwise(s, NextActive(d, s)) <= Clockwise(s, u)
         /\ d.inDeal \ {s} # {} => NextActive(d, s) # s
<1>1. /\ NextActive(d, s) \in d.inDeal
      /\ \A u \in d.inDeal : Clockwise(s, NextActive(d, s)) <= Clockwise(s, u)
  BY NearestExists DEF NextActive
<1>2. ASSUME NEW u \in d.inDeal \ {s}  PROVE Clockwise(s, u) < Clockwise(s, s)
  <2>1. u \in Seats /\ u # s /\ s \in 0 .. N - 1 /\ u \in 0 .. N - 1 /\ N \in Nat
    BY CardsAssumption DEF Seats
  <2> QED
    BY <2>1 DEF Clockwise
<1>3. \A t \in Seats : Clockwise(s, t) \in Nat
  BY ClockwiseType
<1> QED
  BY <1>1, <1>2, <1>3

\* If the second neighbour of x is x, only x and his neighbour are left.
LEMMA CircleOfTwo ==
  ASSUME NEW d, d.inDeal \in SUBSET Seats, NEW x \in d.inDeal, NEW y \in d.inDeal, x # y,
         y = NextActive(d, x), x = NextActive(d, y)
  PROVE  d.inDeal = {x, y}
<1>1. \A u \in d.inDeal : /\ Clockwise(x, y) <= Clockwise(x, u)
                          /\ Clockwise(y, x) <= Clockwise(y, u)
  BY NextIsNearest
<1>2. ASSUME NEW u \in d.inDeal, u # x, u # y  PROVE FALSE
  <2>1. /\ x \in 0 .. N - 1 /\ y \in 0 .. N - 1 /\ u \in 0 .. N - 1 /\ N \in Nat
        /\ Clockwise(x, y) <= Clockwise(x, u) /\ Clockwise(y, x) <= Clockwise(y, u)
    BY <1>1, CardsAssumption DEF Seats
  <2> QED
    BY <1>2, <2>1 DEF Clockwise
<1> QED
  BY <1>2

\* If his third neighbour is, three are left.
LEMMA CircleOfThree ==
  ASSUME NEW d, d.inDeal \in SUBSET Seats,
         NEW x \in d.inDeal, NEW y \in d.inDeal, NEW z \in d.inDeal,
         x # y, y # z, z # x,
         y = NextActive(d, x), z = NextActive(d, y), x = NextActive(d, z)
  PROVE  d.inDeal = {x, y, z}
<1>1. \A u \in d.inDeal : /\ Clockwise(x, y) <= Clockwise(x, u)
                          /\ Clockwise(y, z) <= Clockwise(y, u)
                          /\ Clockwise(z, x) <= Clockwise(z, u)
  BY NextIsNearest
<1>2. ASSUME NEW u \in d.inDeal, u # x, u # y, u # z  PROVE FALSE
  <2>1. /\ x \in 0 .. N - 1 /\ y \in 0 .. N - 1 /\ z \in 0 .. N - 1 /\ u \in 0 .. N - 1
        /\ N \in Nat
        /\ Clockwise(x, y) <= Clockwise(x, u) /\ Clockwise(x, y) <= Clockwise(x, z)
        /\ Clockwise(y, z) <= Clockwise(y, u) /\ Clockwise(y, z) <= Clockwise(y, x)
        /\ Clockwise(z, x) <= Clockwise(z, u) /\ Clockwise(z, x) <= Clockwise(z, y)
    BY <1>1, CardsAssumption DEF Seats
  <2> QED
    BY <1>2, <2>1 DEF Clockwise
<1> QED
  BY <1>2

\* No two seats have the same place in the order of leaving.
LEMMA OrderIsStrict ==
  ASSUME NEW d, d.starter \in Seats, NEW s \in Seats, NEW t \in Seats,
         OrderOf(d, s) = OrderOf(d, t)
  PROVE  s = t
<1>1. /\ s \in 0 .. N - 1 /\ t \in 0 .. N - 1 /\ d.starter \in 0 .. N - 1 /\ N \in Nat
      /\ N >= 2
  BY CardsAssumption DEF Seats
<1>2. ASSUME NEW u \in Seats, u # d.starter  PROVE Clockwise(d.starter, u) \in 1 .. N - 1
  BY <1>1, <1>2 DEF Clockwise, Seats
<1>3. Clockwise(d.starter, s) = Clockwise(d.starter, t) => s = t
  BY <1>1 DEF Clockwise
<1>4. \A u \in Seats : Clockwise(d.starter, u) \in 1 .. N
  BY ClockwiseType
<1> QED
  BY <1>1, <1>2, <1>3, <1>4 DEF OrderOf

-----------------------------------------------------------------------------
\* Leaving the deal.

\* The place of s among those of L who leave together.
RankIn(d, L, s) == Cardinality({t \in L : OrderOf(d, t) <= OrderOf(d, s)})

\* Who leaves together takes the next places one by one: nobody shares one, none is free.
LEMMA RanksAreDistinct ==
  ASSUME NEW d, d.starter \in Seats, NEW L \in SUBSET Seats
  PROVE  {RankIn(d, L, s) : s \in L} = 1 .. Cardinality(L)
<1> DEFINE rank == [s \in L |-> RankIn(d, L, s)]
           upTo(s) == {t \in L : OrderOf(d, t) <= OrderOf(d, s)}
           n == Cardinality(L)
<1>1. IsFiniteSet(L) /\ n \in Nat
  BY SeatSubsetFinite
<1>2. ASSUME NEW s \in L
      PROVE  /\ upTo(s) \in SUBSET L /\ s \in upTo(s) /\ IsFiniteSet(upTo(s))
             /\ rank[s] = Cardinality(upTo(s)) /\ rank[s] \in 1 .. n
  <2>1. OrderOf(d, s) \in 0 .. N + 1
    BY OrderType
  <2>2. upTo(s) \in SUBSET L /\ s \in upTo(s)
    BY <2>1, CardsAssumption
  <2>3. /\ IsFiniteSet(upTo(s)) /\ Cardinality(upTo(s)) <= n
        /\ Cardinality(upTo(s)) \in Nat
    BY <1>1, <2>2, FS_Subset, FS_CardinalityType
  <2>4. Cardinality(upTo(s)) # 0
    BY <2>2, <2>3, FS_EmptySet
  <2> QED
    BY <1>1, <2>2, <2>3, <2>4 DEF RankIn
<1>3. ASSUME NEW s \in L, NEW t \in L, OrderOf(d, s) < OrderOf(d, t)
      PROVE  rank[s] < rank[t]
  <2>1. OrderOf(d, s) \in 0 .. N + 1 /\ OrderOf(d, t) \in 0 .. N + 1
    BY OrderType
  <2>2. \A u \in L : OrderOf(d, u) \in 0 .. N + 1
    BY OrderType
  <2>3. upTo(s) \in SUBSET upTo(t) /\ t \notin upTo(s)
    BY <1>3, <2>1, <2>2, CardsAssumption
  <2>4. t \in upTo(t) /\ IsFiniteSet(upTo(t)) /\ IsFiniteSet(upTo(s))
    BY <1>2
  <2>5. Cardinality(upTo(s)) < Cardinality(upTo(t))
    <3> HIDE DEF upTo
    <3>1. /\ Cardinality(upTo(s)) <= Cardinality(upTo(t))
          /\ Cardinality(upTo(s)) = Cardinality(upTo(t)) => upTo(s) = upTo(t)
      BY <2>3, <2>4, FS_Subset
    <3>2. Cardinality(upTo(s)) \in Nat /\ Cardinality(upTo(t)) \in Nat
      BY <2>4, FS_CardinalityType
    <3> QED
      BY <2>3, <2>4, <3>1, <3>2
  <2> HIDE DEF upTo
  <2> QED
    BY <1>2, <2>5
<1>4. \A s, t \in L : rank[s] = rank[t] => s = t
  <2> TAKE s \in L, t \in L
  <2> HAVE rank[s] = rank[t]
  <2>1. OrderOf(d, s) \in 0 .. N + 1 /\ OrderOf(d, t) \in 0 .. N + 1
    BY OrderType
  <2>2. rank[s] \in 1 .. n /\ rank[t] \in 1 .. n
    BY <1>2
  <2>3. ~(OrderOf(d, s) < OrderOf(d, t)) /\ ~(OrderOf(d, t) < OrderOf(d, s))
    <3> HIDE DEF rank
    <3> QED
      BY <1>1, <1>3, <2>2
  <2>4. OrderOf(d, s) = OrderOf(d, t)
    BY <2>1, <2>3, CardsAssumption
  <2> QED
    BY <2>4, OrderIsStrict
<1>5. rank \in Surjection(L, 1 .. n)
  <2>1. \A s \in L : rank[s] \in 1 .. n
    BY <1>2
  <2>2. rank \in Injection(L, 1 .. n)
    <3>1. rank \in [L -> 1 .. n]
      BY <2>1
    <3> HIDE DEF rank
    <3> QED
      BY <1>4, <3>1 DEF Injection, IsInjective
  <2>3. IsFiniteSet(1 .. n) /\ Cardinality(1 .. n) = n
    BY <1>1, FS_Interval
  <2> HIDE DEF rank
  <2> QED
    BY <1>1, <2>2, <2>3, FS_Injection
<1>6. \A i \in 1 .. n : \E s \in L : rank[s] = i
  <2> HIDE DEF rank
  <2> QED
    BY <1>5 DEF Surjection
<1> QED
  BY <1>2, <1>6

\* All that decides about the end of a round but who is in the deal.
SameRound(d, e) ==
  /\ e.phase = d.phase /\ e.trump = d.trump /\ e.deck = d.deck /\ e.hand = d.hand
  /\ e.faceDown = d.faceDown /\ e.level = d.level /\ e.table = d.table
  /\ e.starter = d.starter /\ e.right = d.right /\ e.defender = d.defender
  /\ e.passed = d.passed /\ e.anyBeaten = d.anyBeaten /\ e.window = d.window
  /\ e.lastAttack = d.lastAttack /\ e.pending = d.pending

\* What leaving writes.
LEMMA MarkExitsWrites ==
  ASSUME NEW d, Sound(d)
  PROVE  /\ MarkExits(d) \in Deal
         /\ SameRound(d, MarkExits(d))
         /\ MarkExits(d).inDeal = d.inDeal \ Leavers(d)
         /\ \A s \in Seats : MarkExits(d).exitPlace[s] =
              IF s \in Leavers(d)
                THEN Cardinality(Seats \ d.inDeal) + RankIn(d, Leavers(d), s)
                ELSE d.exitPlace[s]
<1> DEFINE rank(s) == Cardinality({t \in Leavers(d) : OrderOf(d, t) <= OrderOf(d, s)})
           inDeal == d.inDeal \ Leavers(d)
           places == [s \in Seats |-> IF s \in Leavers(d)
                                        THEN Cardinality(Seats \ d.inDeal) + rank(s)
                                        ELSE d.exitPlace[s]]
           r      == MarkExits(d)
<1>1. d \in Deal /\ r \in Deal
  BY MarkExitsKeeps DEF Sound, WellFormed
<1>2. r = [d EXCEPT !.inDeal = inDeal, !.exitPlace = places]
  BY <1>1 DEF MarkExits, Deal
<1>3. \A s \in Seats : places[s] = IF s \in Leavers(d)
                THEN Cardinality(Seats \ d.inDeal) + RankIn(d, Leavers(d), s)
                ELSE d.exitPlace[s]
  BY DEF RankIn
<1>4. SameRound(d, r) /\ r.inDeal = inDeal /\ r.exitPlace = places
  <2> HIDE DEF inDeal, places, r
  <2> QED
    BY <1>1, <1>2 DEF Deal, SameRound
<1> QED
  BY <1>1, <1>3, <1>4

\* The places of those who are out stay a row without gaps.
LEMMA ExitsAreMarked ==
  ASSUME NEW d, Sound(d), Exits(d)
  PROVE  Exits(MarkExits(d))
<1> DEFINE r == MarkExits(d)
           L == Leavers(d)
           out == Seats \ d.inDeal
           k == Cardinality(out)
           n == Cardinality(L)
<1>1. d \in Deal /\ d.starter \in Seats /\ d.inDeal \in SUBSET Seats /\ L \in SUBSET d.inDeal
  BY DEF Sound, WellFormed, Deal, Leavers
<1>2. /\ r.inDeal = d.inDeal \ L
      /\ \A s \in Seats : r.exitPlace[s] = IF s \in L THEN k + RankIn(d, L, s)
                                            ELSE d.exitPlace[s]
  BY MarkExitsWrites
<1>3. /\ {d.exitPlace[s] : s \in out} = 1 .. k
      /\ \A s \in d.inDeal : d.exitPlace[s] = 0
  BY DEF Exits
<1>4. {RankIn(d, L, s) : s \in L} = 1 .. n
  BY <1>1, RanksAreDistinct
<1>5. /\ k \in Nat /\ n \in Nat
      /\ Cardinality(Seats \ r.inDeal) = k + n
  <2>1. IsFiniteSet(out) /\ IsFiniteSet(L) /\ k \in Nat /\ n \in Nat
    BY <1>1, SeatSubsetFinite
  <2>2. Seats \ r.inDeal = out \cup L /\ out \cap L = {}
    BY <1>1, <1>2
  <2> HIDE DEF r, out, L
  <2>3. Cardinality(out \cup L) = Cardinality(out) + Cardinality(L) - Cardinality(out \cap L)
    BY <2>1, FS_Union
  <2>4. Cardinality(out \cap L) = 0
    BY <2>2, FS_EmptySet
  <2>5. Cardinality(Seats \ r.inDeal) = Cardinality(out \cup L)
    BY <2>2
  <2> HIDE DEF k, n
  <2>6. k = Cardinality(out) /\ n = Cardinality(L)
    BY DEF k, n
  <2> QED
    BY <2>1, <2>3, <2>4, <2>5, <2>6
<1>6. {r.exitPlace[s] : s \in Seats \ r.inDeal} = 1 .. (k + n)
  <2>1. Seats \ r.inDeal = out \cup L /\ out \cap L = {} /\ out \cup L \in SUBSET Seats
    BY <1>1, <1>2
  <2>2. ASSUME NEW s \in out  PROVE r.exitPlace[s] \in 1 .. (k + n)
    <3>1. r.exitPlace[s] = d.exitPlace[s] /\ d.exitPlace[s] \in 1 .. k
      <4>1. s \notin L /\ s \in Seats
        BY <2>1
      <4> QED
        BY <1>2, <1>3, <4>1
    <3> QED
      BY <1>5, <3>1
  <2>3. ASSUME NEW s \in L  PROVE r.exitPlace[s] \in 1 .. (k + n)
    <3>1. r.exitPlace[s] = k + RankIn(d, L, s) /\ RankIn(d, L, s) \in 1 .. n
      <4>1. s \in Seats
        BY <2>1
      <4> QED
        BY <1>2, <1>4, <4>1
    <3> QED
      BY <1>5, <3>1
  <2>4. ASSUME NEW i \in 1 .. (k + n)  PROVE \E s \in out \cup L : r.exitPlace[s] = i
    <3>1. CASE i <= k
      <4>1. i \in 1 .. k
        BY <1>5, <3>1
      <4>2. PICK s \in out : d.exitPlace[s] = i
        BY <1>3, <4>1
      <4> QED
        BY <1>2, <2>1, <4>2
    <3>2. CASE ~(i <= k)
      <4>1. i - k \in 1 .. n
        BY <1>5, <3>2
      <4>2. PICK s \in L : RankIn(d, L, s) = i - k
        BY <1>4, <4>1
      <4>3. r.exitPlace[s] = k + (i - k)
        BY <1>2, <2>1, <4>2
      <4> QED
        BY <1>5, <4>3
    <3> QED
      BY <3>1, <3>2
  <2> HIDE DEF r, out, L, k, n
  <2> QED
    BY <2>1, <2>2, <2>3, <2>4
<1>7. \A s \in r.inDeal : r.exitPlace[s] = 0
  BY <1>1, <1>2, <1>3
<1> QED
  BY <1>5, <1>6, <1>7 DEF Exits

-----------------------------------------------------------------------------
\* Refilling.

\* What refilling leaves alone, and that a trump stays a trump.
LEMMA RefillWritesRound ==
  ASSUME NEW d, Sound(d), NEW chooser \in Seats
  PROVE  LET r == Refill(d, chooser)
         IN /\ r \in Deal
            /\ r.level = d.level /\ r.starter = d.starter /\ r.right = d.right
            /\ r.defender = d.defender /\ r.passed = d.passed /\ r.inDeal = d.inDeal
            /\ r.exitPlace = d.exitPlace /\ r.anyBeaten = d.anyBeaten
            /\ r.lastAttack = d.lastAttack
            /\ d.trump # None => r.trump # None
<1> DEFINE last  == Len(d.deck)
           toLast == last > 0 /\ DrawnCount(d) = last
           joker == toLast /\ IsJoker(d.deck[last])
           hand  == [s \in Seats |-> d.hand[s] \cup
                       {d.deck[j] : j \in {i \in ToHand(d) : Drawer(d, i) = s}}]
           deck  == SubSeq(d.deck, DrawnCount(d) + 1, last)
           trump == IF toLast /\ ~joker THEN d.deck[last].suit ELSE d.trump
           pending == IF joker
                        THEN [card |-> d.deck[last], recipient |-> Drawer(d, last),
                              chooser |-> chooser] ELSE d.pending
           r     == Refill(d, chooser)
<1>1. d \in Deal /\ r \in Deal
  BY RefillKeeps DEF Sound, WellFormed
<1>2. r = [d EXCEPT !.hand = hand, !.deck = deck, !.trump = trump, !.pending = pending]
  BY DEF Refill, JokerDrawn, ToHand
<1>3. d.trump # None => trump # None
  <2> SUFFICES ASSUME toLast, ~joker  PROVE d.deck[last].suit # None
    OBVIOUS
  <2>1. DrawnCount(d) \in 0 .. last /\ last \in Nat
    BY <1>1, AsksCounted
  <2>2. d.deck[last] \in Card
    BY <1>1, <2>1, ElementOfSeq DEF Deal
  <2>3. d.deck[last] \in Pip
    BY <2>2 DEF IsJoker, Card
  <2> QED
    BY <2>3, CardsAssumption DEF Pip
<1>4. /\ r.level = d.level /\ r.starter = d.starter /\ r.right = d.right
      /\ r.defender = d.defender /\ r.passed = d.passed /\ r.inDeal = d.inDeal
      /\ r.exitPlace = d.exitPlace /\ r.anyBeaten = d.anyBeaten
      /\ r.lastAttack = d.lastAttack /\ r.trump = trump
  <2> HIDE DEF hand, deck, trump, pending, r
  <2> QED
    BY <1>1, <1>2 DEF Deal
<1> HIDE DEF trump
<1> QED
  BY <1>1, <1>3, <1>4

\* While the deck lasts everybody is dealt at least one card.
LEMMA NobodyIsLeftEmpty ==
  ASSUME NEW d, Sound(d), NEW chooser \in Seats, NEW s \in d.inDeal,
         Refill(d, chooser).hand[s] = {}
  PROVE  Refill(d, chooser).deck = << >>
<1> DEFINE r    == Refill(d, chooser)
           last == Len(d.deck)
           j    == AskedUpTo(d, s)
           upTo(t) == {ask \in Asks(d) : OrderOf(d, ask[1]) <= OrderOf(d, t)}
<1>1. /\ d \in Deal /\ WellFormed(d) /\ d.inDeal \in SUBSET Seats /\ d.starter \in Seats
      /\ s \in Seats /\ d.deck \in Seq(Card)
  BY DEF Sound, WellFormed, Deal
<1>2. /\ IsFiniteSet(Asks(d)) /\ Cardinality(Asks(d)) \in Nat
      /\ DrawnCount(d) \in 0 .. last /\ last \in Nat
  BY <1>1, AsksCounted
<1>3. /\ d.hand[s] \subseteq r.hand[s]
      /\ \A k \in ToHand(d) : Drawer(d, k) = s => d.deck[k] \in r.hand[s]
      /\ r.deck = SubSeq(d.deck, DrawnCount(d) + 1, last)
  <2>1. /\ \A t \in Seats : r.hand[t] = d.hand[t] \cup
               {d.deck[k] : k \in {i \in ToHand(d) : Drawer(d, i) = t}}
        /\ r.deck = SubSeq(d.deck, DrawnCount(d) + 1, last)
    BY <1>1, RefillWrites
  <2> HIDE DEF r
  <2> QED
    BY <1>1, <2>1
<1>4. CASE DrawnCount(d) = last
  BY <1>1, <1>2, <1>3, <1>4, SubSeqEmpty
<1>5. CASE DrawnCount(d) # last
  <2>1. DrawnCount(d) = Cardinality(Asks(d))
    BY <1>2, <1>5 DEF DrawnCount
  <2>2. <<s, 1>> \in Asks(d)
    <3>1. Cardinality(d.hand[s]) = 0
      BY <1>3, FS_EmptySet
    <3>2. 1 \in 1 .. DealSize
      BY RulesAssumption
    <3> QED
      BY <3>1, <3>2 DEF Asks, HandSize
  <2>3. \A t \in Seats : OrderOf(d, t) \in 0 .. N + 1
    BY <1>1, OrderType
  <2>4. \A t \in Seats : /\ upTo(t) \in SUBSET Asks(d) /\ IsFiniteSet(upTo(t))
                         /\ AskedUpTo(d, t) = Cardinality(upTo(t))
                         /\ AskedUpTo(d, t) \in Nat
                         /\ AskedUpTo(d, t) <= Cardinality(Asks(d))
    BY <1>2, FS_Subset, FS_CardinalityType DEF AskedUpTo
  <2>5. <<s, 1>> \in upTo(s)
    BY <1>1, <2>2, <2>3, CardsAssumption
  <2>6. j \in 1 .. DrawnCount(d)
    <3>1. Cardinality(upTo(s)) # 0
      BY <1>1, <2>4, <2>5, FS_EmptySet
    <3>2. j = Cardinality(upTo(s)) /\ j \in Nat /\ j <= Cardinality(Asks(d))
      BY <1>1, <2>4
    <3> HIDE DEF j, upTo
    <3> QED
      BY <2>1, <3>1, <3>2
  <2>7. ASSUME NEW t \in d.inDeal, j <= AskedUpTo(d, t)
        PROVE  ~(OrderOf(d, t) < OrderOf(d, s))
    <3> SUFFICES ASSUME OrderOf(d, t) < OrderOf(d, s)  PROVE FALSE
      OBVIOUS
    <3>1. t \in Seats /\ OrderOf(d, t) \in Int /\ OrderOf(d, s) \in Int
      BY <1>1, <2>3
    <3>2. \A ask \in Asks(d) : OrderOf(d, ask[1]) \in Int
      BY <1>1, <2>3 DEF Asks
    <3>3. upTo(t) \in SUBSET upTo(s) /\ <<s, 1>> \notin upTo(t)
      BY <3>1, <3>2
    <3> HIDE DEF upTo
    <3>4. /\ Cardinality(upTo(t)) <= Cardinality(upTo(s))
          /\ Cardinality(upTo(t)) = Cardinality(upTo(s)) => upTo(t) = upTo(s)
      BY <1>1, <2>4, <3>3, FS_Subset
    <3> QED
      BY <1>1, <2>4, <2>5, <2>7, <3>1, <3>3, <3>4
  <2>8. Drawer(d, j) = s
    <3> DEFINE t == FirstOf(d, Drawers(d, j))
    <3>1. s \in Drawers(d, j) /\ Drawers(d, j) \in SUBSET d.inDeal
      <4>1. j <= AskedUpTo(d, s)
        BY <2>6
      <4> QED
        BY <4>1 DEF Drawers
    <3>2. t \in Drawers(d, j) /\ OrderOf(d, t) <= OrderOf(d, s)
      BY <1>1, <3>1, FirstOfMember
    <3>3. t \in d.inDeal /\ j <= AskedUpTo(d, t) /\ t \in Seats
      BY <1>1, <3>1, <3>2 DEF Drawers
    <3> HIDE DEF t, j
    <3>4. ~(OrderOf(d, t) < OrderOf(d, s))
      BY <2>7, <3>3
    <3>5. OrderOf(d, t) = OrderOf(d, s)
      BY <1>1, <2>3, <3>2, <3>3, <3>4
    <3>6. t = s
      BY <1>1, <3>3, <3>5, OrderIsStrict
    <3> QED
      BY <3>6 DEF t, Drawer
  <2>9. j \in ToHand(d)
    BY <1>5, <2>6 DEF ToHand, JokerDrawn
  <2>10. d.deck[j] \in r.hand[s]
    <3> HIDE DEF j, r
    <3> QED
      BY <1>3, <2>8, <2>9
  <2> QED
    BY <2>10
<1> QED
  BY <1>4, <1>5

-----------------------------------------------------------------------------
\* The end of a round.

\* Whoever stays after leaving has something to play, unless he is the last.
LEMMA StayersHaveSomething ==
  ASSUME NEW d, Sound(d), \A s \in d.inDeal : d.hand[s] = {} => d.deck = << >>,
         ~(Cardinality(MarkExits(d).inDeal) <= 1)
  PROVE  \A s \in MarkExits(d).inDeal : ~HasNothing(MarkExits(d), s)
<1> DEFINE r    == MarkExits(d)
           done == {s \in d.inDeal : HasNothingLeft(d, s)}
           last == LastOf(d, done)
<1>1. d \in Deal /\ d.inDeal \in SUBSET Seats /\ d.inDeal # {} /\ d.starter \in Seats
  BY DEF Sound, WellFormed, Deal
<1>2. /\ r.inDeal = d.inDeal \ Leavers(d)
      /\ r.hand = d.hand /\ r.deck = d.deck /\ r.faceDown = d.faceDown
  BY MarkExitsWrites DEF SameRound
<1>3. done # d.inDeal
  <2> SUFFICES ASSUME done = d.inDeal  PROVE FALSE
    OBVIOUS
  <2>1. last \in done
    BY <1>1, LastOfMember
  <2>2. Leavers(d) = done \ {last}
    BY DEF Leavers
  <2> HIDE DEF last
  <2>3. MarkExits(d).inDeal = {last}
    BY <1>2, <2>1, <2>2
  <2>4. Cardinality({last}) = 1
    BY FS_Singleton
  <2> QED
    BY <2>3, <2>4
<1>4. Leavers(d) = done
  BY <1>3 DEF Leavers
<1> SUFFICES ASSUME NEW s \in r.inDeal, HasNothing(r, s)  PROVE FALSE
  OBVIOUS
<1>5. s \in d.inDeal /\ ~HasNothingLeft(d, s)
  BY <1>2, <1>4
<1>6. d.hand[s] = {} /\ ~(d.deck = << >> /\ d.faceDown[s] # None)
  BY <1>2 DEF HasNothing, CanPlayFaceDown, DeckEmpty
<1> QED
  BY <1>5, <1>6 DEF HasNothingLeft, DeckEmpty

\* What the start of a round writes.
LEMMA StartNextRoundWrites ==
  ASSUME NEW d, Sound(d), NEW taken \in BOOLEAN
  PROVE  LET r == StartNextRound(d, taken)
         IN /\ r.starter \in d.inDeal /\ r.right = r.starter
            /\ r.defender = NextActive(d, r.starter)
            /\ r.passed = {} /\ r.anyBeaten = FALSE
            /\ r.phase = IF d.pending = None THEN "ATTACK" ELSE "DICE"
            /\ r.inDeal = d.inDeal /\ r.exitPlace = d.exitPlace /\ r.trump = d.trump
            /\ r.hand = d.hand /\ r.deck = d.deck /\ r.faceDown = d.faceDown
            /\ r.table = d.table /\ r.window = d.window /\ r.pending = d.pending
            /\ r.lastAttack = d.lastAttack /\ r.level = d.level
<1> DEFINE starter == IF taken \/ d.defender \notin d.inDeal
                        THEN NextActive(d, d.defender) ELSE d.defender
           phase   == IF d.pending = None THEN "ATTACK" ELSE "DICE"
           next    == NextActive(d, starter)
           r       == StartNextRound(d, taken)
<1>1. /\ d \in Deal /\ d.inDeal \in SUBSET Seats /\ d.inDeal # {} /\ d.defender \in Seats
  BY DEF Sound, WellFormed, Deal
<1>2. starter \in d.inDeal
  BY <1>1, NextActiveInDeal
<1>3. r = [d EXCEPT !.phase = phase, !.starter = starter, !.right = starter,
                    !.defender = next, !.passed = {}, !.anyBeaten = FALSE]
  BY DEF StartNextRound
<1>4. /\ r.starter = starter /\ r.right = starter /\ r.defender = next
      /\ r.passed = {} /\ r.anyBeaten = FALSE /\ r.phase = phase
      /\ r.inDeal = d.inDeal /\ r.exitPlace = d.exitPlace /\ r.trump = d.trump
      /\ r.hand = d.hand /\ r.deck = d.deck /\ r.faceDown = d.faceDown
      /\ r.table = d.table /\ r.window = d.window /\ r.pending = d.pending
      /\ r.lastAttack = d.lastAttack /\ r.level = d.level
  <2> HIDE DEF starter, phase, next, r
  <2> QED
    BY <1>1, <1>3 DEF Deal
<1> HIDE DEF starter
<1> QED
  BY <1>2, <1>4

\* The next player depends on nothing but who is in the deal.
LEMMA SameCircle ==
  ASSUME NEW d, NEW e, e.inDeal = d.inDeal
  PROVE  \A s : NextActive(e, s) = NextActive(d, s)
BY DEF NextActive

\* A round that starts with two players or more starts with its roles.
LEMMA NextRoundIsPhased ==
  ASSUME NEW d, Sound(d), Exits(d), d.trump # None, d.table = {}, d.window = None,
         ~(Cardinality(d.inDeal) <= 1), \A s \in d.inDeal : ~HasNothing(d, s),
         NEW taken \in BOOLEAN
  PROVE  Phased(StartNextRound(d, taken))
<1>1. PICK r : r = StartNextRound(d, taken)
  OBVIOUS
<1>2. /\ r.starter \in d.inDeal /\ r.right = r.starter
      /\ r.defender = NextActive(d, r.starter)
      /\ r.passed = {} /\ r.anyBeaten = FALSE
      /\ r.phase = IF d.pending = None THEN "ATTACK" ELSE "DICE"
      /\ r.inDeal = d.inDeal /\ r.exitPlace = d.exitPlace /\ r.trump = d.trump
      /\ r.hand = d.hand /\ r.deck = d.deck /\ r.faceDown = d.faceDown
      /\ r.table = {} /\ r.window = None /\ r.pending = d.pending
  BY <1>1, StartNextRoundWrites
<1>3. /\ d.inDeal \in SUBSET Seats /\ d.inDeal # {}
  BY DEF Sound, WellFormed, Deal
<1>4. d.inDeal \ {r.starter} # {}
  <2> SUFFICES ASSUME d.inDeal \ {r.starter} = {}  PROVE FALSE
    OBVIOUS
  <2>1. d.inDeal = {r.starter}
    BY <1>2
  <2> QED
    BY <2>1, FS_Singleton
<1>5. Roles(r)
  <2>1. /\ NextActive(d, r.starter) \in d.inDeal
        /\ NextActive(d, r.starter) # r.starter
    BY <1>2, <1>3, <1>4, NextIsNearest
  <2> QED
    BY <1>2, <2>1, SameCircle DEF Roles
<1>6. Exits(r)
  BY <1>2 DEF Exits
<1>7. \A s \in r.inDeal : ~HasNothing(r, s)
  BY <1>2 DEF HasNothing, CanPlayFaceDown, DeckEmpty
<1>8. RoundCore(r) /\ Turn(r)
  BY <1>2, <1>5, <1>7 DEF RoundCore, Turn, Supplied, Defences, Attackers, Roles
<1>9. d.pending # None => DiceInv(r)
  BY <1>2, <1>5, <1>7 DEF DiceInv
<1> QED
  BY <1>1, <1>2, <1>6, <1>8, <1>9 DEF Phased, InRound

\* A round can be closed: its table is cleared, and what lay on it is remembered.
Closing(d) == /\ Running(d) /\ Exits(d) /\ d.trump # None
              /\ d.table = {} /\ d.window = None /\ d.lastAttack # {}

\* However a round ends, the next one starts as it should, or the deal is over.
LEMMA FinishRoundPhased ==
  ASSUME NEW d, Closing(d), NEW taken \in BOOLEAN, NEW chooser \in Seats
  PROVE  Phased(FinishRound(d, taken, chooser))
<1>1. PICK full : full = Refill(d, chooser)
  OBVIOUS
<1>2. PICK left : left = MarkExits(full)
  OBVIOUS
<1>3. /\ Sound(full) /\ full.inDeal = d.inDeal /\ full.exitPlace = d.exitPlace
      /\ full.lastAttack = d.lastAttack /\ full.trump # None
      /\ full.table = {} /\ full.window = None
  BY <1>1, RefillKeeps, RefillWrites, RefillWritesRound DEF Closing, Running, Sound
<1>4. Exits(full)
  BY <1>3 DEF Closing, Exits
<1>5. \A s \in full.inDeal : full.hand[s] = {} => full.deck = << >>
  BY <1>1, <1>3, NobodyIsLeftEmpty DEF Closing, Running
<1>6. /\ Sound(left) /\ Exits(left) /\ left.trump # None /\ left.table = {}
      /\ left.window = None /\ left.lastAttack # {}
  BY <1>2, <1>3, <1>4, MarkExitsKeeps, MarkExitsWrites, ExitsAreMarked
     DEF Closing, SameRound
<1>7. CASE Cardinality(left.inDeal) <= 1
  <2>1. PICK over : over = [left EXCEPT !.phase = "DEAL_OVER"]
    OBVIOUS
  <2>2. FinishRound(d, taken, chooser) = over
    BY <1>1, <1>2, <1>7, <2>1 DEF FinishRound
  <2>3. /\ over.phase = "DEAL_OVER" /\ over.trump = left.trump /\ over.table = {}
        /\ over.window = None /\ over.lastAttack # {} /\ over.inDeal = left.inDeal
        /\ over.exitPlace = left.exitPlace
    BY <1>6, <2>1 DEF Sound, WellFormed, Deal
  <2> QED
    BY <1>6, <1>7, <2>2, <2>3 DEF Phased, Exits, OverInv, InRound
<1>8. CASE ~(Cardinality(left.inDeal) <= 1)
  <2>1. FinishRound(d, taken, chooser) = StartNextRound(left, taken)
    BY <1>1, <1>2, <1>8 DEF FinishRound
  <2>2. \A s \in left.inDeal : ~HasNothing(left, s)
    BY <1>2, <1>3, <1>5, <1>8, StayersHaveSomething
  <2> QED
    BY <1>6, <1>8, <2>1, <2>2, NextRoundIsPhased
<1> QED
  BY <1>7, <1>8

\* What clearing the table leaves alone, and that it remembers what lay in attack.
LEMMA ClearTableWritesRound ==
  ASSUME NEW d \in Deal, NEW discarded \in BOOLEAN
  PROVE  LET r == ClearTable(d, discarded)
         IN /\ r.lastAttack = AttackCards(d) /\ r.table = {}
            /\ r.phase = d.phase /\ r.trump = d.trump /\ r.inDeal = d.inDeal
            /\ r.exitPlace = d.exitPlace /\ r.level = d.level /\ r.window = d.window
            /\ r.starter = d.starter /\ r.right = d.right /\ r.defender = d.defender
            /\ r.passed = d.passed /\ r.hand = d.hand
<1> DEFINE discard == IF discarded THEN d.discard \cup TableCards(d) ELSE d.discard
           anyDiscarded == d.anyDiscarded \/ discarded
           attack  == AttackCards(d)
           r       == ClearTable(d, discarded)
<1>1. r = [d EXCEPT !.lastAttack = attack, !.table = {},
                    !.anyDiscarded = anyDiscarded, !.discard = discard]
  BY DEF ClearTable, Deal
<1>2. /\ r.lastAttack = attack /\ r.table = {}
      /\ r.phase = d.phase /\ r.trump = d.trump /\ r.inDeal = d.inDeal
      /\ r.exitPlace = d.exitPlace /\ r.level = d.level /\ r.window = d.window
      /\ r.starter = d.starter /\ r.right = d.right /\ r.defender = d.defender
      /\ r.passed = d.passed /\ r.hand = d.hand
  <2> HIDE DEF attack, discard, anyDiscarded, r
  <2> QED
    BY <1>1 DEF Deal
<1> QED
  BY <1>2

\* A deal in the middle of a round: trump known, nobody out of his place.
Going(d) == Running(d) /\ Exits(d) /\ d.trump # None

\* A beaten round ends as it should.
LEMMA RoundBeatenPhased ==
  ASSUME NEW d, Going(d), d.window = None, d.table # {}, NEW chooser \in Seats
  PROVE  Phased(RoundBeaten(d, chooser))
<1>1. PICK e : e = ClearTable(d, TRUE)
  OBVIOUS
<1>2. d \in Deal
  BY DEF Going, Running, Sound, WellFormed
<1>3. /\ Running(e) /\ e.lastAttack = AttackCards(d) /\ e.table = {}
      /\ e.trump = d.trump /\ e.inDeal = d.inDeal /\ e.exitPlace = d.exitPlace
      /\ e.window = d.window
  BY <1>1, <1>2, ClearTableKeeps, ClearTableWritesRound DEF Going
<1>4. e.lastAttack # {}
  BY <1>3 DEF AttackCards
<1>5. Closing(e)
  BY <1>3, <1>4 DEF Closing, Going, Exits
<1>6. RoundBeaten(d, chooser) = FinishRound(e, FALSE, chooser)
  BY <1>1 DEF RoundBeaten
<1> QED
  BY <1>5, <1>6, FinishRoundPhased

-----------------------------------------------------------------------------
\* The opening of the hanging window.

\* Steps that somebody of S is to decide.
StepsOf(q, S) ==
  /\ q \in Seq(SUBSET Seats)
  /\ \A i \in 1 .. Len(q) : q[i] # {} /\ q[i] \subseteq S

\* Such steps may be put one after the other.
LEMMA StepsTogether ==
  ASSUME NEW S, NEW p, NEW q, StepsOf(p, S), StepsOf(q, S)
  PROVE  /\ StepsOf(p \o q, S)
         /\ Len(p \o q) = Len(p) + Len(q) /\ Len(p) \in Nat /\ Len(q) \in Nat
<1>1. p \in Seq(SUBSET Seats) /\ q \in Seq(SUBSET Seats)
  BY DEF StepsOf
<1>2. /\ p \o q \in Seq(SUBSET Seats)
      /\ Len(p \o q) = Len(p) + Len(q) /\ Len(p) \in Nat /\ Len(q) \in Nat
      /\ \A i \in 1 .. Len(p) + Len(q) :
           (p \o q)[i] = IF i <= Len(p) THEN p[i] ELSE q[i - Len(p)]
  BY <1>1, ConcatProperties, LenProperties
<1>3. ASSUME NEW i \in 1 .. Len(p) + Len(q)
      PROVE  (p \o q)[i] # {} /\ (p \o q)[i] \subseteq S
  <2>1. CASE i <= Len(p)
    <3>1. i \in 1 .. Len(p) /\ (p \o q)[i] = p[i]
      BY <1>2, <2>1
    <3> QED
      BY <3>1 DEF StepsOf
  <2>2. CASE ~(i <= Len(p))
    <3>1. i - Len(p) \in 1 .. Len(q) /\ (p \o q)[i] = q[i - Len(p)]
      BY <1>2, <2>2
    <3> QED
      BY <3>1 DEF StepsOf
  <2> QED
    BY <2>1, <2>2
<1> QED
  BY <1>2, <1>3 DEF StepsOf

\* If anybody holds the flying card, there is a step, and in every step somebody holds it.
LEMMA HangingStepsSound ==
  ASSUME NEW d \in Deal, NEW victim \in Seats, HoldersOfFlyingCard(d, victim) # {}
  PROVE  /\ StepsOf(HangingSteps(d, victim), HoldersOfFlyingCard(d, victim))
         /\ 1 \in 1 .. Len(HangingSteps(d, victim))
<1> DEFINE holders == HoldersOfFlyingCard(d, victim)
           others  == d.inDeal \ {victim}
           first   == FirstOf(d, others)
           second  == FirstOf(d, others \ {first})
           step(S) == IF S \cap holders = {} THEN << >> ELSE << S \cap holders >>
           rest    == others \ {first, second}
<1>1. holders \in SUBSET Seats /\ holders # {} /\ holders \subseteq others
  BY DEF HoldersOfFlyingCard, Deal
<1> HIDE DEF holders
<1>2. ASSUME NEW S
      PROVE  /\ StepsOf(step(S), holders) /\ Len(step(S)) \in Nat
             /\ S \cap holders # {} => Len(step(S)) = 1
  <2>1. CASE S \cap holders = {}
    BY <2>1 DEF StepsOf
  <2>2. CASE S \cap holders # {}
    <3>1. PICK x : x = S \cap holders
      OBVIOUS
    <3>2. step(S) = << x >> /\ x \in SUBSET Seats /\ x # {} /\ x \subseteq holders
      BY <1>1, <2>2, <3>1
    <3> HIDE DEF step
    <3> QED
      BY <3>2 DEF StepsOf
  <2> QED
    BY <2>1, <2>2
<1>3. StepsOf(<< holders >>, holders) /\ Len(<< holders >>) = 1
  BY <1>1 DEF StepsOf
<1>4. HangingSteps(d, victim) =
        IF IsRightEqualForAll(d, victim) THEN << holders >>
        ELSE IF others = {first} THEN step({first})
        ELSE step({first}) \o step({second}) \o step(rest)
  BY DEF HangingSteps, holders
<1> HIDE DEF step, first, second
<1>5. CASE IsRightEqualForAll(d, victim)
  BY <1>3, <1>4, <1>5 DEF holders
<1>6. CASE ~IsRightEqualForAll(d, victim) /\ others = {first}
  <2>1. {first} \cap holders # {}
    BY <1>1, <1>6
  <2> QED
    BY <1>2, <1>4, <1>6, <2>1 DEF holders
<1>7. CASE ~IsRightEqualForAll(d, victim) /\ others # {first}
  <2> DEFINE a == step({first})
             b == step({second})
             c == step(rest)
  <2>1. /\ StepsOf(a, holders) /\ StepsOf(b, holders) /\ StepsOf(c, holders)
        /\ Len(a) \in Nat /\ Len(b) \in Nat /\ Len(c) \in Nat
        /\ Len(a) = 1 \/ Len(b) = 1 \/ Len(c) = 1
    <3>1. \/ {first} \cap holders # {} \/ {second} \cap holders # {}
          \/ rest \cap holders # {}
      BY <1>1
    <3> QED
      BY <1>2, <3>1
  <2> HIDE DEF a, b, c
  <2>2. StepsOf(a \o b, holders) /\ Len(a \o b) = Len(a) + Len(b)
    BY <2>1, StepsTogether
  <2>3. StepsOf(a \o b \o c, holders) /\ Len(a \o b \o c) = Len(a) + Len(b) + Len(c)
    BY <2>1, <2>2, StepsTogether
  <2>4. HangingSteps(d, victim) = a \o b \o c
    BY <1>4, <1>7 DEF a, b, c
  <2> QED
    BY <2>1, <2>3, <2>4 DEF holders
<1> QED
  BY <1>5, <1>6, <1>7

\* The window opens for those who have played their part, and only if somebody can use it.
LEMMA OpenHangingWindowPhased ==
  ASSUME NEW d, Closing(d), Roles(d),
         HoldersOfFlyingCard(d, d.defender) # {} => d.right \in d.passed,
         NEW chooser \in Seats
  PROVE  Phased(OpenHangingWindow(d, chooser))
<1> DEFINE victim  == d.defender
           holders == HoldersOfFlyingCard(d, victim)
           window  == [victim    |-> victim,
                       steps     |-> HangingSteps(d, victim),
                       stepIndex |-> 1,
                       claims    |-> {},
                       decided   |-> {},
                       everyone  |-> IsEveryClaimantHanging(d, victim)]
<1>1. Running(d) /\ d \in Deal /\ victim \in Seats
  BY DEF Closing, Running, Sound, WellFormed, Deal
<1>2. CASE ~NavesEnabled \/ holders = {}
  <2>1. OpenHangingWindow(d, chooser) = FinishRound(d, TRUE, chooser)
    BY <1>2 DEF OpenHangingWindow
  <2> QED
    BY <2>1, FinishRoundPhased
<1>3. CASE NavesEnabled /\ holders # {}
  <2>1. PICK w : w = window
    OBVIOUS
  <2>2. PICK r : r = [d EXCEPT !.phase = "HANGING", !.window = w]
    OBVIOUS
  <2>3. OpenHangingWindow(d, chooser) = r
    BY <1>3, <2>1, <2>2 DEF OpenHangingWindow
  <2>4. /\ r.phase = "HANGING" /\ r.window = w /\ r.table = {} /\ r.lastAttack # {}
        /\ r.right = d.right /\ r.passed = d.passed /\ r.starter = d.starter
        /\ r.defender = d.defender /\ r.inDeal = d.inDeal /\ r.exitPlace = d.exitPlace
        /\ r.trump = d.trump /\ r.level = d.level
    <3> HIDE DEF window
    <3> QED
      BY <1>1, <2>2 DEF Deal, Closing
  <2>5. /\ StepsOf(w.steps, holders) /\ 1 \in 1 .. Len(w.steps)
        /\ w.victim = d.defender /\ w.stepIndex = 1 /\ w.claims = {} /\ w.decided = {}
    BY <1>1, <1>3, <2>1, HangingStepsSound
  <2>6. w \in Window
    <3>1. HangingSteps(d, victim) \in Seq(SUBSET Seats)
      BY <1>1, HangingStepsType
    <3>2. IsEveryClaimantHanging(d, victim) \in BOOLEAN
      BY DEF IsEveryClaimantHanging, IsUniqueLaggard, NextIsJoker
    <3> QED
      BY <1>1, <2>1, <3>1, <3>2 DEF Window
  <2>7. holders \subseteq d.inDeal \ {d.defender}
    BY DEF HoldersOfFlyingCard
  <2>8. StepsAreSound(r, w)
    <3> HIDE DEF holders, window
    <3> QED
      BY <2>4, <2>5, <2>7 DEF StepsAreSound, StepsOf
  <2>9. ~IsStepComplete(w)
    <3> HIDE DEF holders, window
    <3> QED
      BY <2>5 DEF StepsOf, IsStepComplete, CurrentStep
  <2>10. Roles(r)
    BY <2>4 DEF Roles, SecondNeighbour, NextActive
  <2>11. WindowInv(r)
    <3> HIDE DEF window
    <3> QED
      BY <1>3, <2>4, <2>5, <2>6, <2>8, <2>9, <2>10, NoneAssumption
         DEF WindowInv, WindowOpen
  <2>12. Exits(r) /\ r.trump # None
    BY <2>4 DEF Closing, Exits
  <2> QED
    BY <2>3, <2>4, <2>11, <2>12 DEF Phased, InRound
<1> QED
  BY <1>2, <1>3

\* Taking the table up ends the round, or opens the window.
LEMMA CollectTablePhased ==
  ASSUME NEW d, Going(d), Roles(d), d.window = None, d.table # {},
         HoldersOfFlyingCard(d, d.defender) # {} => d.right \in d.passed,
         NEW chooser \in Seats
  PROVE  Phased(CollectTable(d, chooser))
<1> DEFINE hand == [d.hand EXCEPT ![d.defender] = @ \cup TableCards(d)]
<1>1. d \in Deal /\ Running(d) /\ hand \in [Seats -> SUBSET Card]
  <2>1. d \in Deal /\ Running(d)
    BY DEF Going, Running, Sound, WellFormed
  <2>2. TableCards(d) \in SUBSET Card /\ d.hand \in [Seats -> SUBSET Card]
    BY <2>1, TableIsCards DEF Deal
  <2> QED
    BY <2>1, <2>2
<1>2. PICK t : t = [d EXCEPT !.hand = hand]
  OBVIOUS
<1>3. /\ Running(t) /\ t \in Deal /\ t.hand = hand /\ t.table = d.table
      /\ t.trump = d.trump /\ t.inDeal = d.inDeal /\ t.exitPlace = d.exitPlace
      /\ t.level = d.level /\ t.window = d.window /\ t.starter = d.starter
      /\ t.right = d.right /\ t.defender = d.defender /\ t.passed = d.passed
  <2> HIDE DEF hand
  <2>1. Running(t)
    BY <1>1, <1>2, HandKeeps
  <2> QED
    BY <1>1, <1>2, <2>1 DEF Deal
<1>4. PICK e : e = ClearTable(t, FALSE)
  OBVIOUS
<1>5. /\ Running(e) /\ e.lastAttack = AttackCards(t) /\ e.table = {}
      /\ e.trump = d.trump /\ e.inDeal = d.inDeal /\ e.exitPlace = d.exitPlace
      /\ e.window = d.window /\ e.starter = d.starter /\ e.right = d.right
      /\ e.defender = d.defender /\ e.passed = d.passed /\ e.level = d.level
      /\ e.hand = hand
  BY <1>3, <1>4, ClearTableKeeps, ClearTableWritesRound
<1> HIDE DEF hand
<1>6. e.lastAttack # {}
  BY <1>3, <1>5 DEF AttackCards
<1>7. Closing(e)
  BY <1>5, <1>6 DEF Closing, Going, Exits
<1>8. Roles(e)
  BY <1>5 DEF Roles, SecondNeighbour, NextActive
<1>9. HoldersOfFlyingCard(e, e.defender) = HoldersOfFlyingCard(d, d.defender)
  <2>1. \A s \in d.inDeal \ {d.defender} : hand[s] = d.hand[s]
    BY <1>1 DEF hand, Deal
  <2> QED
    BY <1>5, <2>1 DEF HoldersOfFlyingCard
<1>10. CollectTable(d, chooser) = OpenHangingWindow(e, chooser)
  BY <1>2, <1>4 DEF CollectTable, hand
<1> QED
  BY <1>5, <1>7, <1>8, <1>9, <1>10, OpenHangingWindowPhased

-----------------------------------------------------------------------------
\* The right to attack.

\* NextAttacker names the starter or the second neighbour, if he can use it; nobody, if
\* neither of the two can.
LEMMA NextAttackerIsEligible ==
  ASSUME NEW d \in Deal, d.inDeal # {}
  PROVE  /\ NextAttacker(d) # None =>
              /\ EligibleAttacker(d, NextAttacker(d))
              /\ NextAttacker(d) \in {d.starter, SecondNeighbour(d)}
         /\ NextAttacker(d) = None =>
              ~EligibleAttacker(d, d.starter) /\ ~EligibleAttacker(d, SecondNeighbour(d))
<1>1. d.starter \in Seats /\ SecondNeighbour(d) \in Seats
  BY NextActiveInDeal DEF SecondNeighbour, Deal
<1>2. CASE EligibleAttacker(d, d.starter)
  BY <1>1, <1>2, NoneAssumption DEF NextAttacker
<1>3. CASE ~EligibleAttacker(d, d.starter) /\ EligibleAttacker(d, SecondNeighbour(d))
  BY <1>1, <1>3, NoneAssumption DEF NextAttacker
<1>4. CASE ~EligibleAttacker(d, d.starter) /\ ~EligibleAttacker(d, SecondNeighbour(d))
  BY <1>4 DEF NextAttacker
<1> QED
  BY <1>2, <1>3, <1>4

\* The round as the passes leave it: the right and the phase may differ, nothing else.
SameAttack(d, e) ==
  /\ e.inDeal = d.inDeal /\ e.exitPlace = d.exitPlace /\ e.starter = d.starter
  /\ e.defender = d.defender /\ e.hand = d.hand /\ e.deck = d.deck
  /\ e.faceDown = d.faceDown /\ e.table = d.table /\ e.anyBeaten = d.anyBeaten
  /\ e.window = d.window /\ e.trump = d.trump /\ e.pending = d.pending
  /\ e.level = d.level

\* Who may attack does not depend on the phase or on who has the right.
LEMMA SameAttackFacts ==
  ASSUME NEW d, NEW e, SameAttack(d, e)
  PROVE  /\ SecondNeighbour(e) = SecondNeighbour(d)
         /\ \A s : HasNothing(e, s) = HasNothing(d, s)
         /\ \A s : CanPlayFaceDown(e, s) = CanPlayFaceDown(d, s)
         /\ \A s : HoldersOfFlyingCard(e, s) = HoldersOfFlyingCard(d, s)
         /\ Exits(d) => Exits(e)
         /\ Unbeaten(e) = Unbeaten(d)
<1>1. SecondNeighbour(e) = SecondNeighbour(d)
  BY DEF SameAttack, SecondNeighbour, NextActive
<1>2. /\ \A s : HasNothing(e, s) = HasNothing(d, s)
      /\ \A s : CanPlayFaceDown(e, s) = CanPlayFaceDown(d, s)
  BY DEF SameAttack, HasNothing, CanPlayFaceDown, DeckEmpty
<1>3. \A s : HoldersOfFlyingCard(e, s) = HoldersOfFlyingCard(d, s)
  BY DEF SameAttack, HoldersOfFlyingCard
<1>4. Exits(d) => Exits(e)
  BY DEF SameAttack, Exits
<1>5. Unbeaten(e) = Unbeaten(d)
  BY DEF SameAttack, Unbeaten
<1> QED
  BY <1>1, <1>2, <1>3, <1>4, <1>5

\* A round in which the right went to somebody it may go to is still a round.
LEMMA SameAttackCore ==
  ASSUME NEW d, RoundCore(d), NEW e, SameAttack(d, e),
         e.right \in d.inDeal, e.right # d.defender,
         e.right \in {d.starter, SecondNeighbour(d)},
         e.phase = "TAKING" => d.table # {}
  PROVE  RoundCore(e)
<1>1. /\ SecondNeighbour(e) = SecondNeighbour(d)
      /\ \A s : HasNothing(e, s) = HasNothing(d, s)
      /\ \A s : NextActive(e, s) = NextActive(d, s)
  BY SameAttackFacts, SameCircle DEF SameAttack
<1>2. Roles(e)
  BY <1>1 DEF RoundCore, Roles, SameAttack
<1>3. Supplied(e)
  BY <1>1 DEF RoundCore, Supplied, SameAttack
<1>4. Defences(e) /\ Attackers(e)
  BY <1>1 DEF RoundCore, Defences, Attackers, SameAttack
<1> QED
  BY <1>2, <1>3, <1>4 DEF RoundCore, SameAttack

\* A pass in a round with cards on the table leaves a round, or ends it as it should.
LEMMA PassedPhased ==
  ASSUME NEW d, Going(d), InRound(d), RoundCore(d), d.table # {},
         NEW s \in Seats, d.right = s, NEW chooser \in Seats
  PROVE  Phased(Passed(d, s, chooser))
<1>1. PICK after : after = [d EXCEPT !.passed = @ \cup {s}]
  OBVIOUS
<1>2. PICK next : next = NextAttacker(after)
  OBVIOUS
<1>3. d \in Deal /\ Running(d) /\ d.inDeal # {} /\ d.inDeal \in SUBSET Seats
  BY DEF Going, Running, Sound, WellFormed, Deal
<1>4. /\ after \in Deal /\ SameFrame(d, after) /\ SameAttack(d, after)
      /\ after.phase = d.phase /\ after.right = s /\ after.passed = d.passed \cup {s}
  <2>1. d.passed \cup {s} \in SUBSET Seats
    BY <1>3 DEF Deal
  <2> QED
    BY <1>1, <1>3, <2>1 DEF Deal, SameFrame, SameAttack
<1>5. Running(after) /\ Going(after) /\ Roles(after) /\ after.window = None
  <2>1. Running(after)
    BY <1>3, <1>4, FrameKeeps
  <2>2. RoundCore(after)
    BY <1>4, SameAttackCore DEF RoundCore, Roles
  <2> QED
    BY <1>4, <2>1, <2>2, SameAttackFacts DEF Going, SameAttack, RoundCore
<1>6. CASE next # None
  <2>1. PICK phase : phase = IF d.phase = "TAKING" THEN "TAKING"
                             ELSE IF Unbeaten(d) # {} THEN "DEFEND" ELSE "ATTACK"
    OBVIOUS
  <2>2. PICK r : r = [after EXCEPT !.right = next, !.phase = phase]
    OBVIOUS
  <2>3. Passed(d, s, chooser) = r
    BY <1>1, <1>2, <1>4, <1>6, <2>1, <2>2 DEF Passed
  <2>4. /\ EligibleAttacker(after, next)
        /\ next \in {after.starter, SecondNeighbour(after)}
    BY <1>2, <1>3, <1>4, <1>6, NextAttackerIsEligible DEF SameAttack
  <2>5. /\ SameAttack(after, r) /\ r.right = next /\ r.phase = phase
        /\ r.passed = after.passed
    BY <1>4, <2>2 DEF Deal, SameAttack
  <2>6. SameAttack(d, r)
    BY <1>4, <2>5 DEF SameAttack
  <2>7. next \in d.inDeal /\ next # d.defender /\ ~HasNothing(r, next)
    <3>1. ~HasNothing(after, next)
      BY <2>4 DEF EligibleAttacker, HasNothing
    <3> QED
      BY <1>4, <2>4, <2>5, <3>1, SameAttackFacts DEF EligibleAttacker, SameAttack
  <2>8. next \in {d.starter, SecondNeighbour(d)}
    BY <1>4, <2>4, SameAttackFacts DEF SameAttack
  <2>9. RoundCore(r)
    BY <2>1, <2>5, <2>6, <2>7, <2>8, SameAttackCore
  <2>10. Turn(r)
    BY <2>5, <2>7 DEF Turn
  <2>11. Exits(r) /\ r.trump # None /\ InRound(r)
    BY <2>1, <2>5, <2>6, SameAttackFacts DEF Going, SameAttack, InRound
  <2> QED
    BY <2>1, <2>3, <2>5, <2>9, <2>10, <2>11 DEF Phased
<1>7. CASE next = None /\ d.phase = "TAKING"
  <2>1. Passed(d, s, chooser) = CollectTable(after, chooser)
    BY <1>1, <1>2, <1>4, <1>7 DEF Passed
  <2> QED
    BY <1>4, <1>5, <2>1, CollectTablePhased DEF SameAttack
<1>8. CASE next = None /\ d.phase # "TAKING" /\ Unbeaten(d) # {}
  <2>1. PICK r : r = [after EXCEPT !.phase = "DEFEND"]
    OBVIOUS
  <2>2. Passed(d, s, chooser) = r
    BY <1>1, <1>2, <1>4, <1>8, <2>1 DEF Passed
  <2>3. /\ SameAttack(after, r) /\ r.right = s /\ r.phase = "DEFEND"
        /\ r.passed = after.passed
    BY <1>4, <2>1 DEF Deal, SameAttack
  <2>4. SameAttack(d, r)
    BY <1>4, <2>3 DEF SameAttack
  <2>5. RoundCore(r)
    BY <2>3, <2>4, SameAttackCore DEF RoundCore, Roles
  <2>6. Turn(r) /\ Exits(r) /\ r.trump # None /\ InRound(r)
    BY <1>4, <2>3, <2>4, SameAttackFacts DEF Going, SameAttack, InRound, Turn
  <2> QED
    BY <2>2, <2>3, <2>5, <2>6 DEF Phased
<1>9. CASE next = None /\ d.phase # "TAKING" /\ Unbeaten(d) = {}
  <2>1. Passed(d, s, chooser) = RoundBeaten(after, chooser)
    BY <1>1, <1>2, <1>4, <1>9 DEF Passed
  <2> QED
    BY <1>4, <1>5, <2>1, RoundBeatenPhased DEF SameAttack
<1> QED
  BY <1>6, <1>7, <1>8, <1>9

-----------------------------------------------------------------------------
\* Attack.

\* What has to hold for a move of the round to be made.
RoundGoes(d) == Going(d) /\ InRound(d) /\ RoundCore(d) /\ Turn(d)

\* Who has the right and a card lays it; with the last one he passes.
LEMMA AttackedPhased ==
  ASSUME NEW d, RoundGoes(d), NEW s \in Seats, d.right = s, NEW c \in d.hand[s],
         NEW chooser \in Seats
  PROVE  Phased(Attacked(d, s, c, chooser))
<1> DEFINE hand  == [d.hand EXCEPT ![s] = @ \ {c}]
           table == d.table \cup {NewSlot(c, s)}
           phase == IF d.phase = "TAKING" THEN "TAKING" ELSE "DEFEND"
<1>1. d \in Deal /\ Running(d) /\ d.hand \in [Seats -> SUBSET Card] /\ c \in Card
  BY DEF RoundGoes, Going, Running, Sound, WellFormed, Deal
<1>2. /\ hand \in [Seats -> SUBSET Card] /\ table \in SUBSET Slot /\ phase \in Phases
      /\ \A u \in Seats : u # s => hand[u] = d.hand[u]
  BY <1>1, NewSlotType DEF Deal, Phases
<1>3. PICK laid : laid = [d EXCEPT !.hand = hand, !.table = table, !.phase = phase]
  OBVIOUS
<1>4. /\ laid \in Deal /\ SameFrame(d, laid)
      /\ laid.hand = hand /\ laid.table = table /\ laid.phase = phase
      /\ laid.starter = d.starter /\ laid.right = d.right /\ laid.defender = d.defender
      /\ laid.exitPlace = d.exitPlace /\ laid.trump = d.trump /\ laid.window = d.window
      /\ laid.anyBeaten = d.anyBeaten
  <2> HIDE DEF hand, table, phase
  <2> QED
    BY <1>1, <1>2, <1>3 DEF Deal, SameFrame
<1>5. Going(laid)
  <2> HIDE DEF hand, table, phase
  <2>1. Running(laid)
    BY <1>1, <1>4, FrameKeeps
  <2> QED
    BY <1>4, <2>1 DEF RoundGoes, Going, Exits, SameFrame
<1>6. InRound(laid) /\ laid.table # {} /\ Attacked(d, s, c, chooser) =
        IF HasNothing(laid, s) THEN Passed(laid, s, chooser) ELSE laid
  BY <1>3, <1>4 DEF Attacked, HasNothing, InRound
<1>7. /\ NewSlot(c, s).attackBy = s /\ ~IsBeaten(NewSlot(c, s))
  BY DEF NewSlot, IsBeaten
<1> HIDE DEF hand, phase
<1>8. RoundCore(laid)
  <2>1. RoundCore(d) /\ d.inDeal \in SUBSET Seats
    BY <1>1 DEF RoundGoes, Deal
  <2>2. SecondNeighbour(laid) = SecondNeighbour(d) /\ NextActive(laid, d.starter) = d.defender
    BY <1>4, <2>1 DEF SameFrame, RoundCore, Roles, SecondNeighbour, NextActive
  <2>3. Roles(laid)
    BY <1>4, <2>1, <2>2 DEF RoundCore, Roles, SameFrame
  <2>4. \A u \in d.inDeal : u # s => HasNothing(laid, u) = HasNothing(d, u)
    BY <1>2, <1>4, <2>1 DEF HasNothing, CanPlayFaceDown, DeckEmpty, SameFrame
  <2>5. Supplied(laid)
    <3> SUFFICES ASSUME NEW u \in d.inDeal, HasNothing(laid, u)
                 PROVE  \E slot \in table :
                          slot.attackBy = u \/ (IsBeaten(slot) /\ slot.defenceBy = u)
      BY <1>4 DEF Supplied, SameFrame
    <3>1. CASE u = s
      BY <1>7, <3>1
    <3>2. CASE u # s
      BY <2>1, <2>4, <3>2 DEF RoundCore, Supplied
    <3> QED
      BY <3>1, <3>2
  <2>6. Defences(laid)
    BY <1>4, <1>7, <2>1 DEF RoundCore, Defences
  <2>7. Attackers(laid)
    <3>1. laid.hand[d.defender] = d.hand[d.defender]
      BY <1>2, <1>4, <2>1 DEF RoundCore, Roles
    <3>2. s \in {d.starter, SecondNeighbour(d)}
      BY <2>1 DEF RoundCore, Roles
    <3> QED
      BY <1>4, <1>7, <2>1, <2>2, <3>1, <3>2 DEF RoundCore, Attackers
  <2> QED
    BY <1>4, <1>6, <2>1, <2>3, <2>5, <2>6, <2>7 DEF RoundCore
<1>9. CASE HasNothing(laid, s)
  BY <1>4, <1>5, <1>6, <1>8, <1>9, PassedPhased
<1>10. CASE ~HasNothing(laid, s)
  BY <1>4, <1>5, <1>6, <1>8, <1>10 DEF Phased, Going, Turn, InRound
<1> QED
  BY <1>9, <1>10

-----------------------------------------------------------------------------
\* Defence.

\* The defender beats a card; with the last one beaten the right moves or the round ends.
LEMMA DefendedPhased ==
  ASSUME NEW d, RoundGoes(d), NEW s \in Seats, d.defender = s, NEW c \in d.hand[s],
         NEW target, \E slot \in d.table : ~IsBeaten(slot) /\ slot.attack = target,
         NEW chooser \in Seats
  PROVE  Phased(Defended(d, s, c, target, chooser))
<1> DEFINE hand   == [d.hand EXCEPT ![s] = @ \ {c}]
           beat(slot) == [slot EXCEPT !.defence = c, !.defenceBy = s]
           table  == BeatenTable(d, s, c, target)
<1>1. /\ d \in Deal /\ Running(d) /\ d.hand \in [Seats -> SUBSET Card] /\ c \in Card
      /\ d.table \in SUBSET Slot /\ d.inDeal \in SUBSET Seats
  BY DEF RoundGoes, Going, Running, Sound, WellFormed, Deal
<1>2. /\ hand \in [Seats -> SUBSET Card]
      /\ \A u \in Seats : u # s => hand[u] = d.hand[u]
  BY <1>1
<1>3. \A slot \in Slot : /\ beat(slot) \in Slot
                         /\ beat(slot).attackBy = slot.attackBy
                         /\ beat(slot).defenceBy = s
                         /\ IsBeaten(beat(slot))
  BY <1>1, CardsAssumption DEF Slot, IsBeaten
<1> HIDE DEF beat
<1>4. /\ table \in SUBSET Slot /\ table # {}
      /\ \A new \in table : \E old \in d.table :
           new = old \/ new = beat(old)
      /\ \A old \in d.table : \E new \in table :
           new = old \/ new = beat(old)
      /\ \E new \in table : IsBeaten(new) /\ new.defenceBy = s
  <2>1. table = {IF slot.attack = target THEN beat(slot) ELSE slot : slot \in d.table}
    BY DEF BeatenTable, beat
  <2> QED
    BY <1>1, <1>3, <2>1
<1> HIDE DEF table
<1>5. \A new \in table : \E old \in d.table :
        /\ new.attackBy = old.attackBy
        /\ IsBeaten(new) => new.defenceBy = s \/ (IsBeaten(old) /\ new.defenceBy = old.defenceBy)
  BY <1>1, <1>3, <1>4
<1>6. \A old \in d.table : \E new \in table :
        /\ new.attackBy = old.attackBy
        /\ IsBeaten(old) => IsBeaten(new) /\ new.defenceBy \in {old.defenceBy, s}
  BY <1>1, <1>3, <1>4
<1>7. PICK after : after = [d EXCEPT !.hand = hand, !.table = table, !.anyBeaten = TRUE]
  OBVIOUS
<1>8. Defended(d, s, c, target, chooser) =
        IF Unbeaten(after) # {} THEN [after EXCEPT !.phase = "DEFEND"]
        ELSE IF NextAttacker([after EXCEPT !.phase = "ATTACK"]) # None
        THEN [[after EXCEPT !.phase = "ATTACK"] EXCEPT
                !.right = NextAttacker([after EXCEPT !.phase = "ATTACK"])]
        ELSE RoundBeaten([after EXCEPT !.phase = "ATTACK"], chooser)
  BY <1>7 DEF Defended, BeatenTable, table
<1> HIDE DEF hand
<1>9. /\ after \in Deal /\ after.hand = hand /\ after.table = table
      /\ after.anyBeaten = TRUE /\ SameFrame(d, after)
      /\ after.starter = d.starter /\ after.right = d.right
      /\ after.defender = d.defender /\ after.exitPlace = d.exitPlace
      /\ after.trump = d.trump /\ after.window = d.window /\ after.passed = d.passed
      /\ after.phase = d.phase
  BY <1>1, <1>2, <1>4, <1>7 DEF Deal, SameFrame
<1>10. Running(after) /\ Going(after)
  <2>1. Running(after)
    BY <1>1, <1>9, FrameKeeps
  <2> QED
    BY <1>9, <2>1 DEF RoundGoes, Going, Exits, SameFrame
<1>11. RoundCore(d) /\ Roles(d) /\ Defences(d) /\ Turn(d) /\ d.right # s
  BY DEF RoundGoes, RoundCore, Roles
<1>12. SecondNeighbour(after) = SecondNeighbour(d) /\ NextActive(after, d.starter) = s
  BY <1>9, <1>11 DEF SameFrame, Roles, SecondNeighbour, NextActive
<1>13. \A u \in d.inDeal : u # s => HasNothing(after, u) = HasNothing(d, u)
  BY <1>1, <1>2, <1>9 DEF HasNothing, CanPlayFaceDown, DeckEmpty, SameFrame
<1>14. RoundCore(after)
  <2>1. Roles(after)
    BY <1>9, <1>11, <1>12 DEF Roles, SameFrame
  <2>2. Supplied(after)
    <3> SUFFICES ASSUME NEW u \in d.inDeal, HasNothing(after, u)
                 PROVE  \E slot \in table :
                          slot.attackBy = u \/ (IsBeaten(slot) /\ slot.defenceBy = u)
      BY <1>9 DEF Supplied, SameFrame
    <3>1. CASE u = s
      BY <1>4, <3>1
    <3>2. CASE u # s
      <4>1. PICK old \in d.table :
              old.attackBy = u \/ (IsBeaten(old) /\ old.defenceBy = u)
        BY <1>11, <1>13, <3>2 DEF RoundCore, Supplied
      <4>2. old.attackBy = u
        BY <1>11, <3>2, <4>1 DEF Defences
      <4> QED
        BY <1>6, <4>2
    <3> QED
      BY <3>1, <3>2
  <2>3. Defences(after)
    <3>1. \A new \in table : IsBeaten(new) => new.defenceBy = s
      BY <1>5, <1>11 DEF Defences
    <3> QED
      BY <1>9, <3>1 DEF Defences
  <2>4. Attackers(after)
    BY <1>9 DEF Attackers
  <2> QED
    BY <1>4, <1>9, <1>11, <2>1, <2>2, <2>3, <2>4 DEF RoundCore
<1>15. Turn(after)
  <2>1. d.right \in d.inDeal
    BY <1>11 DEF Roles
  <2> SUFFICES ASSUME d.right \notin d.passed, HasNothing(after, d.right)
               PROVE  /\ d.right = d.starter /\ d.passed = {}
                      /\ \A slot \in table :
                           slot.attackBy = SecondNeighbour(d) /\ slot.attackBy # d.right =>
                             d.inDeal = {d.right, d.defender, slot.attackBy}
    BY <1>9, <1>12 DEF Turn, SameFrame
  <2>2. HasNothing(d, d.right)
    BY <1>11, <1>13, <2>1
  <2>3. /\ d.right = d.starter /\ d.passed = {}
        /\ \A slot \in d.table :
             slot.attackBy = SecondNeighbour(d) /\ slot.attackBy # d.right =>
               d.inDeal = {d.right, d.defender, slot.attackBy}
    BY <1>11, <2>2 DEF Turn
  <2> QED
    BY <1>5, <2>3
<1>16. PICK open : open = [after EXCEPT !.phase = "ATTACK"]
  OBVIOUS
<1>17. /\ open \in Deal /\ SameAttack(after, open) /\ SameFrame(after, open)
       /\ open.phase = "ATTACK" /\ open.right = d.right /\ open.passed = d.passed
  BY <1>9, <1>16 DEF Deal, SameAttack, SameFrame, Phases
<1>18. CASE Unbeaten(after) # {}
  <2>1. PICK r : r = [after EXCEPT !.phase = "DEFEND"]
    OBVIOUS
  <2>2. SameAttack(after, r) /\ r.phase = "DEFEND" /\ r.right = d.right
        /\ r.passed = d.passed
    BY <1>9, <2>1 DEF Deal, SameAttack
  <2>3. RoundCore(r)
    BY <1>9, <1>14, <2>2, SameAttackCore DEF RoundCore, Roles
  <2>4. Turn(r)
    BY <1>9, <1>15, <2>2, SameAttackFacts DEF SameAttack, Turn
  <2>5. Exits(r) /\ r.trump # None /\ InRound(r)
    BY <1>10, <2>2, SameAttackFacts DEF Going, SameAttack, InRound
  <2> QED
    BY <1>8, <1>18, <2>1, <2>2, <2>3, <2>4, <2>5 DEF Phased
<1>19. CASE Unbeaten(after) = {} /\ NextAttacker(open) # None
  <2>1. PICK next : next = NextAttacker(open)
    OBVIOUS
  <2>2. PICK r : r = [open EXCEPT !.right = next]
    OBVIOUS
  <2>3. SameAttack(open, r) /\ r.phase = "ATTACK" /\ r.right = next
    BY <1>17, <2>2 DEF Deal, SameAttack
  <2>4. SameAttack(after, r)
    BY <1>17, <2>3 DEF SameAttack
  <2>5. open.inDeal = d.inDeal /\ open.inDeal # {}
    BY <1>9, <1>11, <1>17 DEF SameFrame, Roles
  <2>6. EligibleAttacker(open, next) /\ next \in {open.starter, SecondNeighbour(open)}
    BY <1>17, <1>19, <2>1, <2>5, NextAttackerIsEligible
  <2>7. /\ next \in after.inDeal /\ next # after.defender /\ ~HasNothing(r, next)
        /\ next \in {after.starter, SecondNeighbour(after)}
    <3>1. ~HasNothing(open, next)
      BY <2>6 DEF EligibleAttacker, HasNothing
    <3>2. HasNothing(r, next) = HasNothing(open, next)
      BY <2>3, SameAttackFacts
    <3>3. SecondNeighbour(open) = SecondNeighbour(after)
      BY <1>17, SameAttackFacts
    <3> QED
      BY <1>17, <2>6, <3>1, <3>2, <3>3 DEF EligibleAttacker, SameAttack
  <2>8. RoundCore(r) /\ Turn(r)
    <3>1. RoundCore(r)
      BY <1>14, <2>3, <2>4, <2>7, SameAttackCore
    <3> QED
      BY <2>3, <2>7, <3>1 DEF Turn
  <2>9. Exits(r) /\ r.trump # None /\ InRound(r)
    BY <1>10, <2>3, <2>4, SameAttackFacts DEF Going, SameAttack, InRound
  <2>10. Defended(d, s, c, target, chooser) = r
    BY <1>8, <1>16, <1>19, <2>1, <2>2
  <2> QED
    BY <2>3, <2>8, <2>9, <2>10 DEF Phased
<1>20. CASE Unbeaten(after) = {} /\ NextAttacker(open) = None
  <2>1. Defended(d, s, c, target, chooser) = RoundBeaten(open, chooser)
    BY <1>8, <1>16, <1>20
  <2>2. Running(open)
    BY <1>10, <1>17, FrameKeeps
  <2>3. Going(open) /\ open.window = None /\ open.table # {}
    BY <1>4, <1>9, <1>10, <1>11, <1>17, <2>2, SameAttackFacts
       DEF Going, SameAttack, RoundCore
  <2> QED
    BY <2>1, <2>3, RoundBeatenPhased
<1> QED
  BY <1>18, <1>19, <1>20

-----------------------------------------------------------------------------
\* Transfer.

\* The table is finite: each card lies on it once.
LEMMA TableFinite ==
  ASSUME NEW d \in Deal, Conserved(d)
  PROVE  IsFiniteSet(d.table)
<1> DEFINE f == [slot \in d.table |-> slot.attack]
<1>1. \A slot \in d.table : slot.attack \in Pack
  <2> TAKE slot \in d.table
  <2>1. slot.attack \in Card /\ InAttack(d, slot.attack)
    BY DEF Deal, Slot, InAttack
  <2>2. Zones(d, slot.attack) = One(slot.attack \in Pack)
    BY <2>1 DEF Conserved
  <2>3. Zones(d, slot.attack) # 0
    BY <2>1 DEF Zones, One
  <2> QED
    BY <2>2, <2>3 DEF One
<1>2. \A x, y \in d.table : f[x] = f[y] => x = y
  BY DEF Conserved, Apart, AttackApart
<1>3. f \in [d.table -> Pack]
  BY <1>1
<1>4. f \in Injection(d.table, Pack)
  <2> HIDE DEF f
  <2> QED
    BY <1>2, <1>3 DEF Injection, IsInjective
<1> QED
  BY <1>4, CardsAssumption, FS_Injection

\* The attack goes on to a player who can answer more than one card.
LEMMA TransferredPhased ==
  ASSUME NEW d, RoundGoes(d), Conserved(d), NEW s \in Seats, NEW c, CanTransfer(d, s, c)
  PROVE  Phased(Transferred(d, s, c))
<1> DEFINE hand  == [d.hand EXCEPT ![s] = @ \ {c}]
           table == d.table \cup {NewSlot(c, s)}
<1>1. /\ d \in Deal /\ Running(d) /\ d.hand \in [Seats -> SUBSET Card]
      /\ d.inDeal \in SUBSET Seats /\ d.inDeal # {} /\ d.defender = s /\ c \in d.hand[s]
      /\ c \in Card
  BY DEF RoundGoes, Going, Running, Sound, WellFormed, Deal, CanTransfer
<1>2. /\ RoundCore(d) /\ Roles(d) /\ Defences(d) /\ Supplied(d) /\ Attackers(d)
      /\ ~d.anyBeaten
  BY DEF RoundGoes, RoundCore, CanTransfer
<1>3. PICK n : n = NextActive(d, s)
  OBVIOUS
<1>4. n \in d.inDeal /\ n # s /\ n = SecondNeighbour(d) /\ s \in d.inDeal
  <2>1. d.starter \in d.inDeal \ {s} /\ s \in d.inDeal
    BY <1>1, <1>2 DEF Roles
  <2> QED
    BY <1>1, <1>3, <2>1, NextIsNearest DEF SecondNeighbour
<1>5. /\ hand \in [Seats -> SUBSET Card] /\ table \in SUBSET Slot
      /\ \A u \in Seats : u # s => hand[u] = d.hand[u]
      /\ hand[s] = d.hand[s] \ {c}
  BY <1>1, NewSlotType DEF Deal
<1>6. PICK r : r = [d EXCEPT !.hand = hand, !.table = table, !.starter = s, !.right = s,
                             !.defender = n, !.passed = {}, !.phase = "DEFEND"]
  OBVIOUS
<1>7. Transferred(d, s, c) = r
  BY <1>3, <1>6 DEF Transferred
<1>8. /\ NewSlot(c, s).attackBy = s /\ ~IsBeaten(NewSlot(c, s))
  BY DEF NewSlot, IsBeaten
<1> HIDE DEF hand
<1>9. /\ r.hand = hand /\ r.table = table /\ r.starter = s /\ r.right = s
      /\ r.defender = n /\ r.passed = {} /\ r.phase = "DEFEND"
      /\ r.inDeal = d.inDeal /\ r.deck = d.deck /\ r.faceDown = d.faceDown
      /\ r.exitPlace = d.exitPlace /\ r.trump = d.trump /\ r.window = d.window
      /\ r.anyBeaten = d.anyBeaten
  <2> HIDE DEF table
  <2> QED
    BY <1>1, <1>6 DEF Deal
<1>10. \A u : NextActive(r, u) = NextActive(d, u)
  BY <1>9, SameCircle
<1>11. Roles(r)
  BY <1>3, <1>4, <1>9, <1>10 DEF Roles
<1>12. \A u \in d.inDeal : u # s => HasNothing(r, u) = HasNothing(d, u)
  BY <1>1, <1>5, <1>9 DEF HasNothing, CanPlayFaceDown, DeckEmpty
<1>13. Supplied(r)
  <2> SUFFICES ASSUME NEW u \in d.inDeal, HasNothing(r, u)
               PROVE  \E slot \in table :
                        slot.attackBy = u \/ (IsBeaten(slot) /\ slot.defenceBy = u)
    BY <1>9 DEF Supplied
  <2>1. CASE u = s
    BY <1>8, <2>1
  <2>2. CASE u # s
    BY <1>2, <1>12, <2>2 DEF Supplied
  <2> QED
    BY <2>1, <2>2
<1>14. Defences(r)
  BY <1>2, <1>8, <1>9 DEF Defences
<1>15. \E a, b \in r.hand[n] : a # b
  <2>1. DefendableCards(d, n) >= Cardinality(d.table) + 1
    BY <1>1, <1>3 DEF CanTransfer
  <2>2. Cardinality(d.table) \in Nat /\ Cardinality(d.table) # 0
    BY <1>1, TableFinite, FS_CardinalityType, FS_EmptySet DEF CanTransfer
  <2>3. CASE CanPlayFaceDown(d, n)
    <3>1. Cardinality(d.hand[n]) = 0
      BY <2>3, FS_EmptySet DEF CanPlayFaceDown
    <3> QED
      BY <2>1, <2>2, <2>3, <3>1 DEF DefendableCards, HandSize
  <2>4. CASE ~CanPlayFaceDown(d, n)
    <3>1. HandSize(d, n) + 0 >= Cardinality(d.table) + 1
      BY <2>1, <2>4 DEF DefendableCards
    <3>2. d.hand[n] # {}
      <4> SUFFICES ASSUME d.hand[n] = {}  PROVE FALSE
        OBVIOUS
      <4>1. Cardinality(d.hand[n]) = 0
        BY FS_EmptySet
      <4> QED
        BY <2>2, <3>1, <4>1 DEF HandSize
    <3>3. \E a, b \in d.hand[n] : a # b
      <4> SUFFICES ASSUME \A a, b \in d.hand[n] : a = b  PROVE FALSE
        OBVIOUS
      <4>1. PICK a \in d.hand[n] : d.hand[n] = {a}
        BY <3>2
      <4>2. Cardinality({a}) = 1
        BY FS_Singleton
      <4> QED
        BY <2>2, <3>1, <4>1, <4>2 DEF HandSize
    <3> QED
      BY <1>1, <1>4, <1>5, <1>9, <3>3
  <2> QED
    BY <2>3, <2>4
<1>16. Turn(r)
  <2> SUFFICES ASSUME HasNothing(r, s), NEW slot \in table,
                      slot.attackBy = NextActive(d, n), slot.attackBy # s
               PROVE  d.inDeal = {s, n, slot.attackBy}
    BY <1>9, <1>10 DEF Turn, SecondNeighbour
  <2>1. PICK q : q = NextActive(d, n)
    OBVIOUS
  <2>2. slot \in d.table /\ slot.attackBy = q
    BY <1>8, <2>1
  <2>3. ~(\E a, b \in d.hand[s] : a # b)
    BY <1>5, <1>9 DEF HasNothing
  <2>4. q \in {d.starter, n}
    BY <1>1, <1>2, <1>4, <2>2, <2>3 DEF Attackers
  <2>5. q # n /\ q \in d.inDeal
    BY <1>1, <1>4, <2>1, NextIsNearest
  <2>6. q = d.starter /\ s = NextActive(d, q) /\ q # s
    BY <1>1, <1>2, <2>4, <2>5 DEF Roles
  <2>7. d.inDeal = {s, n, q}
    <3>1. /\ q \in d.inDeal /\ s \in d.inDeal /\ n \in d.inDeal
          /\ q # s /\ s # n /\ n # q
          /\ s = NextActive(d, q) /\ n = NextActive(d, s) /\ q = NextActive(d, n)
      BY <1>3, <1>4, <2>1, <2>5, <2>6
    <3>2. d.inDeal = {q, s, n}
      BY <1>1, <3>1, CircleOfThree
    <3> QED
      BY <3>2
  <2> QED
    BY <2>2, <2>7
<1>17. RoundCore(r)
  BY <1>2, <1>9, <1>11, <1>13, <1>14, <1>15 DEF RoundCore, Attackers
<1>18. Exits(r) /\ r.trump # None
  BY <1>9 DEF RoundGoes, Going, Exits
<1> QED
  BY <1>7, <1>9, <1>16, <1>17, <1>18 DEF Phased, InRound

-----------------------------------------------------------------------------
\* Take.

\* If nobody can use the right to attack and who has it has not passed, nobody but the
\* defender has a card.
LEMMA NobodyCanAttack ==
  ASSUME NEW d, RoundGoes(d), NextAttacker(d) = None, d.right \notin d.passed
  PROVE  \A s \in d.inDeal \ {d.defender} : d.hand[s] = {}
<1>1. d \in Deal /\ d.inDeal \in SUBSET Seats /\ d.inDeal # {}
  BY DEF RoundGoes, Going, Running, Sound, WellFormed, Deal
<1>2. RoundCore(d) /\ Roles(d) /\ Supplied(d) /\ Defences(d) /\ Turn(d)
  BY DEF RoundGoes, RoundCore
<1>3. PICK q : q = SecondNeighbour(d)
  OBVIOUS
<1>4. q \in d.inDeal /\ q # d.defender /\ d.starter \in d.inDeal /\ d.starter # d.defender
      /\ d.defender \in d.inDeal /\ d.right \in {d.starter, q}
  <2>1. d.starter \in d.inDeal \ {d.defender} /\ d.defender \in d.inDeal
        /\ d.right \in {d.starter, q}
    BY <1>2, <1>3 DEF Roles
  <2> QED
    BY <1>1, <1>3, <2>1, NextIsNearest DEF SecondNeighbour
<1>5. ~EligibleAttacker(d, d.starter) /\ ~EligibleAttacker(d, q)
  BY <1>1, <1>3, NextAttackerIsEligible
<1>6. HasNothing(d, d.right)
  BY <1>4, <1>5 DEF EligibleAttacker, HasNothing
<1>7. /\ d.right = d.starter /\ d.passed = {}
      /\ \A slot \in d.table : slot.attackBy = q /\ slot.attackBy # d.right =>
           d.inDeal = {d.right, d.defender, slot.attackBy}
  BY <1>2, <1>3, <1>6 DEF Turn
<1>8. HasNothing(d, q)
  BY <1>4, <1>5, <1>7 DEF EligibleAttacker, HasNothing
<1>9. CASE q = d.starter
  <2>1. d.defender = NextActive(d, q) /\ q = NextActive(d, d.defender)
    BY <1>2, <1>3, <1>9 DEF Roles, SecondNeighbour
  <2>2. d.inDeal = {q, d.defender}
    BY <1>1, <1>4, <2>1, CircleOfTwo
  <2> QED
    BY <1>8, <2>2 DEF HasNothing
<1>10. CASE q # d.starter
  <2>1. PICK slot \in d.table : slot.attackBy = q \/ (IsBeaten(slot) /\ slot.defenceBy = q)
    BY <1>2, <1>4, <1>8 DEF Supplied
  <2>2. slot.attackBy = q
    BY <1>2, <1>4, <2>1 DEF Defences
  <2>3. d.inDeal = {d.starter, d.defender, q}
    BY <1>7, <1>10, <2>2
  <2> QED
    BY <1>6, <1>7, <1>8, <2>3 DEF HasNothing
<1> QED
  BY <1>9, <1>10

\* "Take" waits for the throwers, or the defender takes the table up.
LEMMA TakenPhased ==
  ASSUME NEW d, RoundGoes(d), d.table # {}, NEW chooser \in Seats
  PROVE  Phased(Taken(d, chooser))
<1>1. PICK t : t = [d EXCEPT !.phase = "TAKING"]
  OBVIOUS
<1>2. d \in Deal /\ Running(d)
  BY DEF RoundGoes, Going, Running, Sound, WellFormed
<1>3. /\ t \in Deal /\ SameAttack(d, t) /\ SameFrame(d, t) /\ t.phase = "TAKING"
      /\ t.right = d.right /\ t.passed = d.passed
  BY <1>1, <1>2 DEF Deal, SameAttack, SameFrame, Phases
<1>4. RoundGoes(t)
  <2>1. Running(t)
    BY <1>2, <1>3, FrameKeeps
  <2>2. Going(t) /\ InRound(t)
    BY <1>3, <2>1, SameAttackFacts DEF RoundGoes, Going, SameAttack, InRound
  <2>3. RoundCore(t)
    BY <1>3, SameAttackCore DEF RoundGoes, RoundCore, Roles
  <2>4. Turn(t)
    BY <1>3, SameAttackFacts DEF RoundGoes, SameAttack, Turn
  <2> QED
    BY <2>2, <2>3, <2>4 DEF RoundGoes
<1>5. CASE NextAttacker(t) # None
  <2>1. Taken(d, chooser) = t
    BY <1>1, <1>5 DEF Taken
  <2> QED
    BY <1>3, <1>4, <2>1 DEF Phased, RoundGoes, Going
<1>6. CASE NextAttacker(t) = None
  <2>1. Taken(d, chooser) = CollectTable(t, chooser)
    BY <1>1, <1>6 DEF Taken
  <2>2. HoldersOfFlyingCard(t, t.defender) # {} => t.right \in t.passed
    BY <1>4, <1>6, NobodyCanAttack DEF HoldersOfFlyingCard
  <2>3. Going(t) /\ Roles(t) /\ t.window = None /\ t.table # {}
    BY <1>3, <1>4 DEF RoundGoes, RoundCore, SameAttack
  <2> QED
    BY <2>1, <2>2, <2>3, CollectTablePhased
<1> QED
  BY <1>5, <1>6

-----------------------------------------------------------------------------
\* What changes the cards of a round but not its course.

\* From d to e the roles, the passes and the window are the same.
SameCourse(d, e) ==
  /\ e.inDeal = d.inDeal /\ e.starter = d.starter /\ e.right = d.right
  /\ e.defender = d.defender /\ e.passed = d.passed /\ e.anyBeaten = d.anyBeaten
  /\ e.window = d.window /\ e.trump = d.trump /\ e.exitPlace = d.exitPlace

\* Slot new is what became of slot old: of the same author, and beaten by the same player
\* if it is beaten at all.
Remains(old, new) ==
  /\ new.attackBy = old.attackBy
  /\ IsBeaten(new) => IsBeaten(old) /\ new.defenceBy = old.defenceBy

\* Is there a card of s in the slot?
IsOf(slot, s) == slot.attackBy = s \/ (IsBeaten(slot) /\ slot.defenceBy = s)

\* A round goes on if no card is new on the table, and whose card leaves it has something
\* to play again.
LEMMA RoundChanges ==
  ASSUME NEW d, RoundGoes(d), NEW e, Running(e), SameCourse(d, e), InRound(e),
         e.phase = "TAKING" => e.table # {},
         \A s \in d.inDeal : HasNothing(e, s) => HasNothing(d, s),
         d.hand[d.defender] \subseteq e.hand[d.defender],
         \A new \in e.table : \E old \in d.table : Remains(old, new),
         \A s \in d.inDeal : HasNothing(e, s) =>
           \A old \in d.table : IsOf(old, s) => \E new \in e.table : IsOf(new, s)
  PROVE  RoundGoes(e)
<1>1. /\ RoundCore(d) /\ Roles(d) /\ Supplied(d) /\ Defences(d) /\ Attackers(d) /\ Turn(d)
      /\ Going(d)
  BY DEF RoundGoes, RoundCore
<1>2. \A s : NextActive(e, s) = NextActive(d, s)
  BY SameCircle DEF SameCourse
<1>3. SecondNeighbour(e) = SecondNeighbour(d)
  BY <1>2 DEF SecondNeighbour, SameCourse
<1>4. Going(e)
  BY <1>1 DEF Going, Exits, SameCourse
<1>5. Roles(e)
  BY <1>1, <1>2, <1>3 DEF Roles, SameCourse
<1>6. Supplied(e)
  <2> SUFFICES ASSUME NEW s \in d.inDeal, HasNothing(e, s)
               PROVE  \E slot \in e.table : IsOf(slot, s)
    BY DEF Supplied, IsOf, SameCourse
  <2>1. \E old \in d.table : IsOf(old, s)
    BY <1>1 DEF Supplied, IsOf
  <2> QED
    BY <2>1
<1>7. Defences(e)
  BY <1>1 DEF Defences, Remains, SameCourse
<1>8. Attackers(e)
  BY <1>1, <1>3 DEF Attackers, Remains, SameCourse
<1>9. Turn(e)
  BY <1>1, <1>3, <1>5 DEF Turn, Remains, SameCourse, Roles
<1>10. e.window = None
  BY <1>1 DEF RoundCore, SameCourse
<1> QED
  BY <1>4, <1>5, <1>6, <1>7, <1>8, <1>9, <1>10 DEF RoundGoes, RoundCore

\* The same round with all its cards.
LEMMA RoundStays ==
  ASSUME NEW d, RoundGoes(d), NEW e, Running(e), SameCourse(d, e), e.phase = d.phase,
         e.table = d.table,
         \A s \in d.inDeal : HasNothing(e, s) => HasNothing(d, s),
         d.hand[d.defender] \subseteq e.hand[d.defender]
  PROVE  RoundGoes(e)
<1>1. InRound(e) /\ (e.phase = "TAKING" => e.table # {})
  BY DEF RoundGoes, RoundCore, InRound
<1>2. \A slot : Remains(slot, slot)
  BY DEF Remains
<1> QED
  BY <1>1, <1>2, RoundChanges

\* A deal in one of the phases in which the players move.
Moving(d) == Phased(d) /\ Running(d) /\ d.phase \notin {"DEAL_OVER", "DICE"}

\* It is in a round, or in the window.
LEMMA MovingIsRoundOrWindow ==
  ASSUME NEW d, Moving(d)
  PROVE  /\ Going(d)
         /\ RoundGoes(d) \/ (d.phase = "HANGING" /\ WindowInv(d))
<1>1. d.phase \in Phases
  BY DEF Moving, Running, Sound, WellFormed, Deal
<1> QED
  BY <1>1 DEF Moving, Phased, Going, RoundGoes, InRound, Phases

\* What is in a round is in a phase.
LEMMA RoundIsPhased ==
  ASSUME NEW d, RoundGoes(d)
  PROVE  Phased(d)
BY DEF RoundGoes, Going, Phased, InRound

\* The face-down card turned up is something to play.
LEMMA RevealedPhased ==
  ASSUME NEW d, Moving(d), NEW s \in Seats, CanPlayFaceDown(d, s)
  PROVE  /\ Phased(Revealed(d, s)) /\ Running(Revealed(d, s))
         /\ Revealed(d, s).phase = d.phase
         /\ d.phase # "HANGING" => RoundGoes(Revealed(d, s))
         /\ d.phase = "HANGING" => WindowInv(Revealed(d, s))
         /\ d.faceDown[s] \in Revealed(d, s).hand[s]
<1> DEFINE hand     == [d.hand EXCEPT ![s] = @ \cup {d.faceDown[s]}]
           faceDown == [d.faceDown EXCEPT ![s] = None]
<1>1. d \in Deal /\ Running(d) /\ d.hand \in [Seats -> SUBSET Card]
      /\ d.faceDown \in [Seats -> Card \cup {None}] /\ d.inDeal \in SUBSET Seats
  BY DEF Moving, Running, Sound, WellFormed, Deal
<1>2. PICK r : r = Revealed(d, s)
  OBVIOUS
<1>3. r = [d EXCEPT !.hand = hand, !.faceDown = faceDown]
  BY <1>2 DEF Revealed
<1>4. Running(r)
  BY <1>1, <1>2, RevealedKeeps
<1>5. /\ r.hand = hand /\ r.faceDown = faceDown
      /\ SameCourse(d, r) /\ r.phase = d.phase /\ r.table = d.table
      /\ r.deck = d.deck /\ r.level = d.level /\ r.lastAttack = d.lastAttack
  <2> HIDE DEF hand, faceDown
  <2> QED
    BY <1>1, <1>3 DEF Deal, SameCourse
<1>6. /\ \A u \in Seats : d.hand[u] \subseteq r.hand[u]
      /\ d.faceDown[s] \in r.hand[s]
      /\ \A u \in Seats : u # s => r.faceDown[u] = d.faceDown[u]
  BY <1>1, <1>5
<1> HIDE DEF hand, faceDown
<1>7. \A u \in d.inDeal : HasNothing(r, u) => HasNothing(d, u)
  <2> SUFFICES ASSUME NEW u \in d.inDeal, HasNothing(r, u)  PROVE HasNothing(d, u)
    OBVIOUS
  <2>1. u # s /\ u \in Seats /\ d.hand[u] = {} /\ r.hand[u] = {}
    BY <1>1, <1>6 DEF HasNothing
  <2>2. r.faceDown[u] = d.faceDown[u]
    BY <1>6, <2>1
  <2> QED
    BY <1>5, <2>1, <2>2 DEF HasNothing, CanPlayFaceDown, DeckEmpty
<1>8. d.phase # "HANGING" => RoundGoes(r)
  <2> SUFFICES ASSUME d.phase # "HANGING"  PROVE RoundGoes(r)
    OBVIOUS
  <2>1. RoundGoes(d)
    BY MovingIsRoundOrWindow
  <2>2. d.hand[d.defender] \subseteq r.hand[d.defender]
    BY <1>1, <1>6 DEF Deal
  <2> QED
    BY <1>4, <1>5, <1>7, <2>1, <2>2, RoundStays
<1>9. d.phase = "HANGING" => WindowInv(r) /\ Phased(r)
  <2> SUFFICES ASSUME d.phase = "HANGING"  PROVE WindowInv(r) /\ Phased(r)
    OBVIOUS
  <2>1. Going(d) /\ WindowInv(d)
    BY MovingIsRoundOrWindow DEF RoundGoes, InRound
  <2>2. Roles(r)
    BY <1>5, <2>1 DEF WindowInv, WindowOpen, Roles, SameCourse, SecondNeighbour, NextActive
  <2>3. WindowInv(r)
    BY <1>5, <2>1, <2>2 DEF WindowInv, WindowOpen, StepsAreSound, SameCourse
  <2>4. Exits(r) /\ r.trump # None
    BY <1>5, <2>1 DEF Going, Exits, SameCourse
  <2> QED
    BY <1>5, <2>3, <2>4 DEF Phased, InRound
<1> QED
  BY <1>2, <1>4, <1>5, <1>6, <1>8, <1>9, RoundIsPhased

-----------------------------------------------------------------------------
\* Decisions in the window.

\* What a window that may be complete holds.
Deciding(d) == Going(d) /\ d.phase = "HANGING" /\ d.window \in Window /\ WindowOpen(d)

\* The window closes with the end of the round, whatever became of the hands.
LEMMA CloseWindowPhased ==
  ASSUME NEW d, Going(d), d.table = {}, d.lastAttack # {}, NEW chooser \in Seats
  PROVE  Phased(CloseWindow(d, chooser))
<1>1. PICK r : r = [d EXCEPT !.window = None]
  OBVIOUS
<1>2. d \in Deal
  BY DEF Going, Running, Sound, WellFormed
<1>3. /\ Running(r) /\ r.window = None /\ r.table = {} /\ r.lastAttack # {}
      /\ r.trump = d.trump /\ r.inDeal = d.inDeal /\ r.exitPlace = d.exitPlace
  <2>1. Running(r) /\ r.window = None
    BY <1>1, WindowKeeps DEF Going
  <2> QED
    BY <1>1, <1>2, <2>1 DEF Deal
<1>4. Closing(r)
  BY <1>3 DEF Closing, Going, Exits
<1>5. CloseWindow(d, chooser) = FinishRound(r, TRUE, chooser)
  BY <1>1 DEF CloseWindow
<1> QED
  BY <1>4, <1>5, FinishRoundPhased

\* The cards fly: neither the table nor the places of those who are out are touched.
LEMMA HungByWritesRound ==
  ASSUME NEW d, Going(d), d.window \in Window, NEW claims \in SUBSET Claim
  PROVE  /\ Going(HungBy(d, claims)) /\ HungBy(d, claims).table = d.table
         /\ HungBy(d, claims).lastAttack = d.lastAttack
<1> DEFINE v      == d.window.victim
           jokers == {cl \in claims : IsJoker(cl.card)}
           hand   == [s \in Seats |->
                        d.hand[s] \ {cl.card : cl \in {x \in claims : x.seat = s}}]
           hung   == [d.hung EXCEPT ![v] = @ \cup {cl.card : cl \in claims}]
           level  == [d.level EXCEPT ![v] = @ + 1]
           hanger == [d.jokerHanger EXCEPT ![v] =
                        IF jokers = {} THEN @ ELSE (CHOOSE cl \in jokers : TRUE).seat]
<1>1. PICK r : r = HungBy(d, claims)
  OBVIOUS
<1>2. d \in Deal /\ Running(r)
  BY <1>1, HungByKeeps DEF Going, Running, Sound, WellFormed
<1>3. r = [d EXCEPT !.hand = hand, !.hung = hung, !.level = level, !.jokerHanger = hanger]
  BY <1>1 DEF HungBy
<1>4. /\ r.table = d.table /\ r.lastAttack = d.lastAttack /\ r.inDeal = d.inDeal
      /\ r.exitPlace = d.exitPlace /\ r.trump = d.trump
  <2> HIDE DEF hand, hung, level, hanger
  <2> QED
    BY <1>2, <1>3 DEF Deal
<1>5. Going(r)
  BY <1>2, <1>4 DEF Going, Exits
<1> QED
  BY <1>1, <1>4, <1>5

\* The window waits on, moves to a step somebody is to decide, or closes.
LEMMA AdvanceWindowPhased ==
  ASSUME NEW d, Deciding(d), NEW winner, NEW chooser \in Seats
  PROVE  Phased(AdvanceWindow(d, winner, chooser))
<1> DEFINE chosen == IF d.window.everyone \/ Cardinality(d.window.claims) = 1
                       THEN d.window.claims
                       ELSE {cl \in d.window.claims : cl.seat = winner}
<1>1. PICK w : w = d.window
  OBVIOUS
<1>2. PICK next : next = [w EXCEPT !.stepIndex = @ + 1, !.claims = {}, !.decided = {}]
  OBVIOUS
<1>3. PICK later : later = [d EXCEPT !.window = next]
  OBVIOUS
<1>4. /\ d \in Deal /\ w \in Window /\ Going(d) /\ WindowOpen(d) /\ d.phase = "HANGING"
      /\ d.table = {} /\ d.lastAttack # {} /\ Exits(d) /\ d.trump # None
  BY <1>1 DEF Deciding, Going, Running, Sound, WellFormed, WindowOpen
<1>5. chosen \in SUBSET Claim
  BY <1>1, <1>4 DEF Window
<1>6. AdvanceWindow(d, winner, chooser) =
        IF ~IsStepComplete(w) THEN d
        ELSE IF w.claims = {} /\ HasNextStep(w) THEN later
        ELSE IF w.claims = {} THEN CloseWindow(d, chooser)
        ELSE CloseWindow(HungBy(d, chosen), chooser)
  BY <1>1, <1>2, <1>3 DEF AdvanceWindow
<1> HIDE DEF chosen
<1>7. CASE ~IsStepComplete(w)
  <2>1. WindowInv(d)
    BY <1>1, <1>4, <1>7 DEF WindowInv
  <2> QED
    BY <1>4, <1>6, <1>7, <2>1 DEF Phased, InRound
<1>8. CASE IsStepComplete(w) /\ w.claims = {} /\ HasNextStep(w)
  <2>1. /\ StepsAreSound(d, w) /\ w.steps \in Seq(SUBSET Seats) /\ w.victim = d.defender
    BY <1>1, <1>4 DEF WindowOpen, Window
  <2>2. Len(w.steps) \in Nat /\ w.stepIndex + 1 \in 1 .. Len(w.steps)
    BY <1>8, <2>1, LenProperties DEF StepsAreSound, HasNextStep
  <2>3. PICK index : index = w.stepIndex + 1
    OBVIOUS
  <2>4. next = [w EXCEPT !.stepIndex = index, !.claims = {}, !.decided = {}]
    BY <1>2, <2>3
  <2>5. index \in Nat \ {0}
    BY <2>2, <2>3
  <2>6. /\ next \in Window /\ next.steps = w.steps /\ next.stepIndex = index
        /\ next.claims = {} /\ next.decided = {} /\ next.victim = w.victim
    BY <1>4, <2>4, <2>5 DEF Window
  <2>7. StepsAreSound(d, next) /\ ~IsStepComplete(next)
    BY <2>1, <2>2, <2>3, <2>6 DEF StepsAreSound, IsStepComplete, CurrentStep
  <2>8. /\ later.window = next /\ later.phase = d.phase /\ later.table = d.table
        /\ later.lastAttack = d.lastAttack /\ later.right = d.right
        /\ later.passed = d.passed /\ later.starter = d.starter
        /\ later.defender = d.defender /\ later.inDeal = d.inDeal
        /\ later.exitPlace = d.exitPlace /\ later.trump = d.trump
        /\ later.level = d.level
    BY <1>3, <1>4 DEF Deal
  <2>9. Roles(later)
    BY <1>4, <2>8 DEF WindowOpen, Roles, SecondNeighbour, NextActive
  <2>10. WindowInv(later)
    BY <1>1, <1>4, <2>1, <2>6, <2>7, <2>8, <2>9, NoneAssumption
       DEF WindowInv, WindowOpen, StepsAreSound
  <2>11. Exits(later) /\ later.trump # None
    BY <1>4, <2>8 DEF Exits
  <2> QED
    BY <1>4, <1>6, <1>8, <2>8, <2>10, <2>11 DEF Phased, InRound
<1>9. CASE IsStepComplete(w) /\ w.claims = {} /\ ~HasNextStep(w)
  BY <1>4, <1>6, <1>9, CloseWindowPhased
<1>10. CASE IsStepComplete(w) /\ w.claims # {}
  BY <1>1, <1>4, <1>5, <1>6, <1>10, HungByWritesRound, CloseWindowPhased
<1> QED
  BY <1>7, <1>8, <1>9, <1>10

\* A decision is noted in the window; what is claimed flies.
LEMMA DecidedPhased ==
  ASSUME NEW d, Going(d), d.phase = "HANGING", d.window \in Window, WindowInv(d),
         NEW s \in Seats, NEW cards \in SUBSET d.hand[s],
         \A c \in cards : IsFlyingCard(d.level[d.window.victim], c)
  PROVE  Deciding(Decided(d, s, cards))
<1> DEFINE claims == d.window.claims \cup {[seat |-> s, card |-> c] : c \in cards}
           decided == d.window.decided \cup {s}
<1>1. d \in Deal /\ Running(d) /\ cards \in SUBSET Card
  BY DEF Going, Running, Sound, WellFormed, Deal
<1>2. PICK w : w = [d.window EXCEPT !.claims = claims, !.decided = decided]
  OBVIOUS
<1>3. PICK r : r = Decided(d, s, cards)
  OBVIOUS
<1>4. r = [d EXCEPT !.window = w]
  BY <1>2, <1>3 DEF Decided
<1>5. Running(r) /\ r.window \in Window
  BY <1>1, <1>3, DecidedKeeps
<1>6. /\ r.window = w /\ r.phase = d.phase /\ r.table = d.table
      /\ r.lastAttack = d.lastAttack /\ r.right = d.right
      /\ r.passed = d.passed /\ r.starter = d.starter
      /\ r.defender = d.defender /\ r.inDeal = d.inDeal
      /\ r.exitPlace = d.exitPlace /\ r.trump = d.trump
      /\ r.level = d.level
  BY <1>1, <1>4 DEF Deal
<1>7. /\ w.steps = d.window.steps /\ w.stepIndex = d.window.stepIndex
      /\ w.victim = d.window.victim /\ w.claims = claims /\ w.decided = decided
  <2> HIDE DEF claims, decided
  <2> QED
    BY <1>2 DEF Window
<1>8. \A cl \in claims : /\ cl.seat \in decided
                         /\ IsFlyingCard(d.level[d.window.victim], cl.card)
  BY DEF WindowInv, WindowOpen
<1> HIDE DEF claims, decided
<1>9. Roles(r)
  BY <1>6 DEF WindowInv, WindowOpen, Roles, SecondNeighbour, NextActive
<1>10. WindowOpen(r)
  BY <1>5, <1>6, <1>7, <1>8, <1>9, NoneAssumption
     DEF WindowInv, WindowOpen, StepsAreSound
<1>11. Going(r)
  BY <1>5, <1>6 DEF Going, Exits
<1> QED
  BY <1>3, <1>5, <1>6, <1>10, <1>11 DEF Deciding

-----------------------------------------------------------------------------
(***************************************************************************)
(* The inductive invariant: each phase with what holds in it.  The roles   *)
(* and the window are not inductive by themselves: that the window does    *)
(* not open for somebody who could still play needs Supplied, Turn and     *)
(* Attackers, and those need to know who beat what (Defences).             *)
(***************************************************************************)
RoundInv == CardsInv /\ Phased(deal)

\* A deal the players move in is in a round or in the window.
LEMMA PlayableIsMoving ==
  ASSUME RoundInv, Playable
  PROVE  /\ Moving(deal) /\ Going(deal) /\ deal \in Deal /\ Conserved(deal)
         /\ deal.inDeal \in SUBSET Seats
         /\ deal.phase # "HANGING" => RoundGoes(deal)
         /\ deal.phase = "HANGING" => WindowInv(deal)
<1>1. Running(deal) /\ deal \in Deal /\ Conserved(deal) /\ deal.inDeal \in SUBSET Seats
  BY PlayableIsRunning DEF RoundInv, CardsInv, Playable, Kept, Deal
<1>2. Moving(deal)
  BY <1>1 DEF RoundInv, Moving, Playable
<1> QED
  BY <1>1, <1>2, MovingIsRoundOrWindow DEF RoundGoes, InRound

\* In the window nobody can attack, pass, take or defend: who has the right has passed,
\* and the table is empty.
LEMMA NoMoveInWindow ==
  ASSUME NEW d, WindowInv(d), NEW s
  PROVE  /\ \A c : ~CanAttack(d, s, c)
         /\ \A c, target : ~CanDefend(d, s, c, target)
         /\ \A c : ~CanTransfer(d, s, c)
         /\ ~CanPass(d, s) /\ ~CanTake(d, s)
<1>1. d.table = {} /\ d.right \in d.passed
  BY DEF WindowInv, WindowOpen
<1> QED
  BY <1>1 DEF CanAttack, CanDefend, CanTransfer, CanPass, CanTake, Unbeaten

\* An empty table cannot be passed: whoever has the right has something to lay.
LEMMA PassNeedsTable ==
  ASSUME NEW d, RoundGoes(d), NEW s, CanPass(d, s)
  PROVE  d.table # {}
<1> SUFFICES ASSUME d.table = {}  PROVE FALSE
  OBVIOUS
<1>1. d.right = s /\ HasNothing(d, s)
  BY DEF CanPass, HasNothing
<1>2. \E slot \in d.table : TRUE
  BY <1>1 DEF RoundGoes, RoundCore, Roles, Supplied
<1> QED
  BY <1>2

\* The moves of a round keep its course.
LEMMA RoundKeepsCourse ==
  ASSUME RoundInv, NEW s \in Seats, NEW chooser \in Seats, Round(s, chooser)
  PROVE  Phased(deal')
<1>1. CASE \E c \in deal.hand[s] : Attack(s, c, chooser)
  <2>1. PICK c \in deal.hand[s] : Attack(s, c, chooser)
    BY <1>1
  <2>2. CanAttack(deal, s, c) /\ Playable /\ deal' = Attacked(deal, s, c, chooser)
    BY <2>1 DEF Attack
  <2>3. RoundGoes(deal) /\ deal.right = s
    BY <2>2, PlayableIsMoving, NoMoveInWindow DEF CanAttack
  <2> QED
    BY <2>2, <2>3, AttackedPhased
<1>2. CASE \E c \in deal.hand[s] : Transfer(s, c)
  <2>1. PICK c \in deal.hand[s] : Transfer(s, c)
    BY <1>2
  <2>2. CanTransfer(deal, s, c) /\ Playable /\ deal' = Transferred(deal, s, c)
    BY <2>1 DEF Transfer
  <2>3. RoundGoes(deal) /\ Conserved(deal)
    BY <2>2, PlayableIsMoving, NoMoveInWindow
  <2> QED
    BY <2>2, <2>3, TransferredPhased
<1>3. CASE \E c \in deal.hand[s] : \E target \in AttackCards(deal) :
             Defend(s, c, target, chooser)
  <2>1. PICK c \in deal.hand[s], target \in AttackCards(deal) : Defend(s, c, target, chooser)
    BY <1>3
  <2>2. /\ CanDefend(deal, s, c, target) /\ Playable
        /\ deal' = Defended(deal, s, c, target, chooser)
    BY <2>1 DEF Defend
  <2>3. /\ RoundGoes(deal) /\ deal.defender = s
        /\ \E slot \in deal.table : ~IsBeaten(slot) /\ slot.attack = target
    BY <2>2, PlayableIsMoving, NoMoveInWindow DEF CanDefend, Unbeaten
  <2> QED
    BY <2>2, <2>3, DefendedPhased
<1>4. CASE Pass(s, chooser)
  <2>1. CanPass(deal, s) /\ Playable /\ deal' = Passed(deal, s, chooser)
    BY <1>4 DEF Pass
  <2>2. RoundGoes(deal) /\ deal.right = s
    BY <2>1, PlayableIsMoving, NoMoveInWindow DEF CanPass
  <2>3. deal.table # {}
    BY <2>1, <2>2, PassNeedsTable
  <2> QED
    BY <2>1, <2>2, <2>3, PassedPhased DEF RoundGoes
<1>5. CASE Take(s, chooser)
  <2>1. CanTake(deal, s) /\ Playable /\ deal' = Taken(deal, chooser)
    BY <1>5 DEF Take
  <2>2. RoundGoes(deal) /\ deal.table # {}
    BY <2>1, PlayableIsMoving, NoMoveInWindow DEF CanTake
  <2> QED
    BY <2>1, <2>2, TakenPhased
<1>6. CASE RevealFaceDown(s, chooser)
  <2>1. PICK card : card = deal.faceDown[s]
    OBVIOUS
  <2>2. PICK open : open = Revealed(deal, s)
    OBVIOUS
  <2>3. /\ Playable /\ CanPlayFaceDown(deal, s)
        /\ deal' = IF CanAttack(open, s, card) THEN Attacked(open, s, card, chooser) ELSE open
    BY <1>6, <2>1, <2>2 DEF RevealFaceDown
  <2>4. Moving(deal)
    BY <2>3, PlayableIsMoving
  <2>5. /\ Phased(open) /\ card \in open.hand[s]
        /\ deal.phase # "HANGING" => RoundGoes(open)
        /\ deal.phase = "HANGING" => WindowInv(open)
    BY <2>1, <2>2, <2>3, <2>4, RevealedPhased
  <2>6. CASE CanAttack(open, s, card)
    <3>1. RoundGoes(open) /\ open.right = s
      BY <2>5, <2>6, NoMoveInWindow DEF CanAttack
    <3> QED
      BY <2>3, <2>5, <2>6, <3>1, AttackedPhased
  <2> QED
    BY <2>3, <2>5, <2>6
<1>7. CASE \E target \in Pack : RevealToDefend(s, target, chooser)
  <2>1. PICK target \in Pack : RevealToDefend(s, target, chooser)
    BY <1>7
  <2>2. PICK card : card = deal.faceDown[s]
    OBVIOUS
  <2>3. PICK open : open = Revealed(deal, s)
    OBVIOUS
  <2>4. /\ Playable /\ CanPlayFaceDown(deal, s)
        /\ deal' = IF CanDefend(open, s, card, target)
                     THEN Defended(open, s, card, target, chooser) ELSE open
    BY <2>1, <2>2, <2>3 DEF RevealToDefend
  <2>5. Moving(deal)
    BY <2>4, PlayableIsMoving
  <2>6. /\ Phased(open) /\ card \in open.hand[s]
        /\ deal.phase # "HANGING" => RoundGoes(open)
        /\ deal.phase = "HANGING" => WindowInv(open)
    BY <2>2, <2>3, <2>4, <2>5, RevealedPhased
  <2>7. CASE CanDefend(open, s, card, target)
    <3>1. /\ RoundGoes(open) /\ open.defender = s
          /\ \E slot \in open.table : ~IsBeaten(slot) /\ slot.attack = target
      BY <2>6, <2>7, NoMoveInWindow DEF CanDefend, Unbeaten
    <3> QED
      BY <2>4, <2>6, <2>7, <3>1, DefendedPhased
  <2> QED
    BY <2>4, <2>6, <2>7
<1> QED
  BY <1>1, <1>2, <1>3, <1>4, <1>5, <1>6, <1>7 DEF Round

\* So do the decisions in the window.
LEMMA HangingKeepsCourse ==
  ASSUME RoundInv, NEW s \in Seats, NEW chooser \in Seats, Hanging(s, chooser)
  PROVE  Phased(deal')
<1>1. PICK winner \in Seats :
        \/ \E cards \in SUBSET deal.hand[s] : HangCard(s, cards, winner, chooser)
        \/ HangSkip(s, winner, chooser)
  BY DEF Hanging
<1>2. /\ deal.phase = "HANGING"
      /\ \E cards \in SUBSET deal.hand[s] :
           /\ \A c \in cards : IsFlyingCard(deal.level[deal.window.victim], c)
           /\ deal' = AdvanceWindow(Decided(deal, s, cards), winner, chooser)
  BY <1>1 DEF HangCard, HangSkip
<1>3. PICK cards \in SUBSET deal.hand[s] :
        /\ \A c \in cards : IsFlyingCard(deal.level[deal.window.victim], c)
        /\ deal' = AdvanceWindow(Decided(deal, s, cards), winner, chooser)
  BY <1>2
<1>4. Going(deal) /\ WindowInv(deal) /\ deal.window \in Window
  BY <1>2, PlayableIsMoving DEF Playable, WindowInv, WindowOpen, Deal
<1>5. Deciding(Decided(deal, s, cards))
  BY <1>2, <1>3, <1>4, DecidedPhased
<1> QED
  BY <1>3, <1>5, AdvanceWindowPhased

-----------------------------------------------------------------------------
\* The choice of the trump, and what players do out of turn.

\* A round nobody has played in yet, and in which everybody can.
LEMMA FreshRoundIsPhased ==
  ASSUME NEW d, Exits(d), d.trump # None, d.phase = "ATTACK",
         d.table = {}, d.window = None, Roles(d), \A s \in d.inDeal : ~HasNothing(d, s)
  PROVE  Phased(d)
<1>1. Supplied(d) /\ Defences(d) /\ Attackers(d)
  BY DEF Supplied, Defences, Attackers
<1>2. Turn(d)
  BY DEF Turn, Roles
<1> QED
  BY <1>1, <1>2 DEF Phased, RoundCore, InRound

\* The table has a neighbour for everybody.
LEMMA NobodySitsAlone ==
  ASSUME NEW s \in Seats
  PROVE  Seats \ {s} # {}
<1>1. N \in Nat /\ N >= 2 /\ 0 \in Seats /\ 1 \in Seats
  BY CardsAssumption DEF Seats
<1> QED
  BY <1>1

\* Who chose the trump of the deal names its suit, and the round begins; a hidden joker
\* changes the suit and one hand, and the roles stay.
LEMMA TrumpKeepsCourse ==
  ASSUME RoundInv, NEW s \in Seats, Trump(s)
  PROVE  Phased(deal')
<1> PICK suit \in Suits : ChooseTrump(s, suit) \/ ChooseTrumpForHidden(s, suit)
  BY DEF Trump
<1>1. deal \in Deal /\ Phased(deal) /\ suit # None
  BY CardsAssumption DEF RoundInv, CardsInv, DealInv, Sound, WellFormed
<1>2. PICK e : e = deal'
  OBVIOUS
<1>3. CASE ChooseTrump(s, suit)
  <2> DEFINE starter == LowestTrumpSeat(deal.hand, suit)
             next    == NextActive(deal, starter)
  <2>1. e = [deal EXCEPT !.trump = suit, !.phase = "ATTACK", !.starter = starter,
                         !.right = starter, !.defender = next]
    BY <1>2, <1>3 DEF ChooseTrump
  <2>2. /\ e.trump = suit /\ e.phase = "ATTACK" /\ e.starter = starter
        /\ e.right = starter /\ e.defender = next
        /\ e.inDeal = deal.inDeal /\ e.exitPlace = deal.exitPlace /\ e.table = deal.table
        /\ e.window = deal.window /\ e.hand = deal.hand /\ e.deck = deal.deck
        /\ e.faceDown = deal.faceDown
    <3> HIDE DEF starter, next
    <3> QED
      BY <1>1, <2>1 DEF Deal
  <2>3. DiceInv(deal) /\ Exits(deal) /\ deal.inDeal = Seats
    BY <1>1, <1>3 DEF ChooseTrump, Phased, DiceInv
  <2>4. starter \in Seats
    BY LowestTrumpSeatType
  <2>5. next \in Seats /\ next # starter
    <3> HIDE DEF starter
    <3> QED
      BY <2>3, <2>4, NextIsNearest, NobodySitsAlone
  <2> HIDE DEF starter, next
  <2>6. e.defender = NextActive(e, e.starter)
    BY <2>2, SameCircle DEF next
  <2>7. Roles(e)
    BY <2>2, <2>3, <2>4, <2>5, <2>6 DEF Roles
  <2>8. Exits(e)
    BY <2>2, <2>3 DEF Exits
  <2>9. \A u \in e.inDeal : ~HasNothing(e, u)
    BY <2>2, <2>3 DEF DiceInv, HasNothing, CanPlayFaceDown, DeckEmpty
  <2>10. e.table = {} /\ e.window = None
    BY <2>2, <2>3 DEF DiceInv
  <2>11. Phased(e)
    BY <1>1, <2>2, <2>7, <2>8, <2>9, <2>10, FreshRoundIsPhased
  <2> QED
    BY <1>2, <2>11
<1>4. CASE ChooseTrumpForHidden(s, suit)
  <2> DEFINE p    == deal.pending
             hand == [deal.hand EXCEPT ![p.recipient] = @ \cup {p.card}]
  <2>1. e = [deal EXCEPT !.trump = suit, !.pending = None, !.phase = "ATTACK",
                         !.hand = hand]
    BY <1>2, <1>4 DEF ChooseTrumpForHidden
  <2>2. /\ e.trump = suit /\ e.phase = "ATTACK" /\ e.starter = deal.starter
        /\ e.right = deal.right /\ e.defender = deal.defender
        /\ e.inDeal = deal.inDeal /\ e.exitPlace = deal.exitPlace /\ e.table = deal.table
        /\ e.window = deal.window /\ e.hand = hand /\ e.deck = deal.deck
        /\ e.faceDown = deal.faceDown
    <3> HIDE DEF hand
    <3> QED
      BY <1>1, <2>1 DEF Deal
  <2>3. DiceInv(deal) /\ Exits(deal) /\ Roles(deal)
    BY <1>1, <1>4 DEF ChooseTrumpForHidden, Phased, DiceInv
  <2>4. \A u \in Seats : deal.hand[u] \subseteq hand[u]
    BY <1>1 DEF Deal
  <2> HIDE DEF hand, p
  <2>5. SecondNeighbour(e) = SecondNeighbour(deal)
        /\ NextActive(e, e.starter) = NextActive(deal, deal.starter)
    BY <2>2, SameCircle DEF SecondNeighbour
  <2>6. Roles(e)
    BY <2>2, <2>3, <2>5 DEF Roles
  <2>7. Exits(e)
    BY <2>2, <2>3 DEF Exits
  <2>8. \A u \in e.inDeal : ~HasNothing(e, u)
    <3> SUFFICES ASSUME NEW u \in deal.inDeal, HasNothing(e, u)  PROVE FALSE
      BY <2>2
    <3>1. u \in Seats /\ ~HasNothing(deal, u)
      BY <1>1, <2>3 DEF DiceInv, Deal
    <3>2. deal.hand[u] = {} /\ e.hand[u] = {}
      BY <2>2, <2>4, <3>1 DEF HasNothing
    <3> QED
      BY <2>2, <3>1, <3>2 DEF HasNothing, CanPlayFaceDown, DeckEmpty
  <2>9. e.table = {} /\ e.window = None
    BY <2>2, <2>3 DEF DiceInv
  <2>10. Phased(e)
    BY <1>1, <2>2, <2>6, <2>7, <2>8, <2>9, FreshRoundIsPhased
  <2> QED
    BY <1>2, <2>10
<1> QED
  BY <1>3, <1>4

\* From d to e the hands have at most grown, and slot has become new or is gone; who lost
\* his card in it has a card in the hand.
SlotChanges(d, e, slot, new) ==
  /\ \A u \in Seats : d.hand[u] \subseteq e.hand[u]
  /\ e.phase \in {d.phase, "ATTACK", "DEFEND"}
  /\ e.phase = "TAKING" => e.table # {}
  /\ e.table \subseteq d.table \cup {new} /\ d.table \ {slot} \subseteq e.table
  /\ new \in e.table => Remains(slot, new)
  /\ \A u \in Seats : e.hand[u] = {} /\ IsOf(slot, u) => new \in e.table /\ IsOf(new, u)

\* A card taken back gives its player something to play; an objection changes no card.
LEMMA SecondThoughtsKeepCourse ==
  ASSUME RoundInv, NEW s \in Seats, SecondThoughts(s)
  PROVE  Phased(deal')
<1> PICK slot \in deal.table : \/ RecallAttack(s, slot) \/ RecallDefence(s, slot)
                               \/ PinAttack(s, slot) \/ PinDefence(s, slot)
  BY DEF SecondThoughts
<1>1. Playable
  BY DEF RecallAttack, RecallDefence, PinAttack, PinDefence, Playable
<1>2. /\ Moving(deal) /\ deal \in Deal /\ deal.pending = None
      /\ deal.inDeal \in SUBSET Seats /\ slot \in Slot
  BY <1>1, PlayableIsMoving DEF Moving, Running, Deal
<1>3. RoundGoes(deal)
  BY <1>1, PlayableIsMoving DEF WindowInv, WindowOpen
<1>4. PICK e : e = deal'
  OBVIOUS
<1>5. Sound(e)
  BY <1>4, SecondThoughtsKeep DEF RoundInv, CardsInv, DealInv
<1>6. InRound(deal) /\ deal.defender \in deal.inDeal /\ deal.defender \in Seats
  BY <1>2, <1>3 DEF RoundGoes, RoundCore, Roles
<1>7. ASSUME NEW hand, NEW table, NEW phase,
             e = [deal EXCEPT !.table = table, !.hand = hand, !.phase = phase]
      PROVE  /\ e.hand = hand /\ e.table = table /\ e.phase = phase /\ SameCourse(deal, e)
             /\ e.deck = deal.deck /\ e.faceDown = deal.faceDown /\ e.pending = deal.pending
  BY <1>2, <1>7 DEF Deal, SameCourse
<1>8. ASSUME NEW new, SlotChanges(deal, e, slot, new), SameCourse(deal, e),
             e.deck = deal.deck, e.faceDown = deal.faceDown, e.pending = deal.pending
      PROVE  Phased(e)
  <2>1. Running(e) /\ InRound(e)
    BY <1>2, <1>5, <1>6, <1>8 DEF Running, InRound, SlotChanges
  <2>2. \A u \in deal.inDeal : HasNothing(e, u) => HasNothing(deal, u) /\ e.hand[u] = {}
    <3> SUFFICES ASSUME NEW u \in deal.inDeal, HasNothing(e, u)
                 PROVE  HasNothing(deal, u) /\ e.hand[u] = {}
      OBVIOUS
    <3>1. e.hand[u] = {} /\ deal.hand[u] = {}
      BY <1>2, <1>8 DEF HasNothing, SlotChanges
    <3> QED
      BY <1>8, <3>1 DEF HasNothing, CanPlayFaceDown, DeckEmpty
  <2>3. \A n \in e.table : \E old \in deal.table : Remains(old, n)
    <3>1. \A n : Remains(n, n)
      BY DEF Remains
    <3> QED
      BY <1>8, <3>1 DEF SlotChanges
  <2>4. \A u \in deal.inDeal : e.hand[u] = {} =>
          \A old \in deal.table : IsOf(old, u) => \E n \in e.table : IsOf(n, u)
    BY <1>2, <1>8 DEF SlotChanges
  <2>5. deal.hand[deal.defender] \subseteq e.hand[deal.defender]
    BY <1>6, <1>8 DEF SlotChanges
  <2>6. RoundGoes(e)
    BY <1>3, <1>8, <2>1, <2>2, <2>3, <2>4, <2>5, RoundChanges DEF SlotChanges
  <2> QED
    BY <2>6, RoundIsPhased
<1>9. CASE RecallAttack(s, slot)
  <2> DEFINE table == deal.table \ {slot}
             hand  == [deal.hand EXCEPT ![s] = @ \cup {slot.attack}]
             phase == IF deal.table = {slot} THEN "ATTACK" ELSE deal.phase
  <2>1. e = [deal EXCEPT !.table = table, !.hand = hand, !.phase = phase]
    BY <1>4, <1>9 DEF RecallAttack
  <2>2. /\ \A u \in Seats : deal.hand[u] \subseteq hand[u]
        /\ hand[s] # {}
    BY <1>2 DEF Deal
  <2>3. phase \in {deal.phase, "ATTACK"} /\ phase # "TAKING"
    BY <1>9 DEF RecallAttack
  <2>4. \A u \in Seats : hand[u] = {} => ~IsOf(slot, u)
    BY <1>9, <2>2 DEF RecallAttack, IsOf
  <2>5. /\ slot \notin table /\ table \subseteq deal.table \cup {slot}
        /\ deal.table \ {slot} \subseteq table
    OBVIOUS
  <2> HIDE DEF hand, phase, table
  <2>6. /\ e.hand = hand /\ e.table = table /\ e.phase = phase /\ SameCourse(deal, e)
        /\ e.deck = deal.deck /\ e.faceDown = deal.faceDown /\ e.pending = deal.pending
    BY <1>7, <2>1
  <2>7. SlotChanges(deal, e, slot, slot)
    BY <2>2, <2>3, <2>4, <2>5, <2>6 DEF SlotChanges
  <2> QED
    BY <1>4, <1>8, <2>6, <2>7
<1>10. CASE RecallDefence(s, slot)
  <2> DEFINE bare  == [slot EXCEPT !.defence = None, !.defenceBy = 0]
             table == (deal.table \ {slot}) \cup {bare}
             hand  == [deal.hand EXCEPT ![s] = @ \cup {slot.defence}]
             phase == "DEFEND"
  <2>1. e = [deal EXCEPT !.table = table, !.hand = hand, !.phase = phase]
    BY <1>4, <1>10 DEF RecallDefence
  <2>2. /\ \A u \in Seats : deal.hand[u] \subseteq hand[u]
        /\ hand[s] # {}
    BY <1>2 DEF Deal
  <2>3. bare.attackBy = slot.attackBy /\ ~IsBeaten(bare)
    BY <1>2 DEF Slot, IsBeaten
  <2>4. Remains(slot, bare)
    BY <2>3 DEF Remains
  <2>5. \A u \in Seats : hand[u] = {} /\ IsOf(slot, u) => IsOf(bare, u)
    BY <1>10, <2>2, <2>3 DEF RecallDefence, IsOf
  <2>6. /\ bare \in table /\ table \subseteq deal.table \cup {bare}
        /\ deal.table \ {slot} \subseteq table
    OBVIOUS
  <2> HIDE DEF hand, bare, table
  <2>7. /\ e.hand = hand /\ e.table = table /\ e.phase = phase /\ SameCourse(deal, e)
        /\ e.deck = deal.deck /\ e.faceDown = deal.faceDown /\ e.pending = deal.pending
    BY <1>7, <2>1
  <2>8. SlotChanges(deal, e, slot, bare)
    BY <2>2, <2>4, <2>5, <2>6, <2>7 DEF SlotChanges
  <2> QED
    BY <1>4, <1>8, <2>7, <2>8
<1>11. ASSUME NEW pinned, pinned.attackBy = slot.attackBy, pinned.defence = slot.defence,
              pinned.defenceBy = slot.defenceBy,
              deal' = [deal EXCEPT !.table = (@ \ {slot}) \cup {pinned}]
       PROVE  Phased(deal')
  <2> DEFINE table == (deal.table \ {slot}) \cup {pinned}
             hand  == deal.hand
             phase == deal.phase
  <2>1. e = [deal EXCEPT !.table = table, !.hand = hand, !.phase = phase]
    <3> HIDE DEF table
    <3>1. e = [deal EXCEPT !.table = table]
      BY <1>4, <1>11 DEF table
    <3> QED
      BY <1>2, <3>1 DEF Deal
  <2>2. Remains(slot, pinned) /\ \A u : IsOf(slot, u) => IsOf(pinned, u)
    BY <1>11 DEF Remains, IsOf, IsBeaten
  <2>3. /\ pinned \in table /\ table \subseteq deal.table \cup {pinned}
        /\ deal.table \ {slot} \subseteq table
    OBVIOUS
  <2> HIDE DEF table
  <2>4. /\ e.hand = hand /\ e.table = table /\ e.phase = phase /\ SameCourse(deal, e)
        /\ e.deck = deal.deck /\ e.faceDown = deal.faceDown /\ e.pending = deal.pending
    BY <1>7, <2>1
  <2>5. deal.phase = "TAKING" => table # {}
    BY <2>3
  <2>6. SlotChanges(deal, e, slot, pinned)
    BY <2>2, <2>3, <2>4, <2>5 DEF SlotChanges
  <2> QED
    BY <1>4, <1>8, <2>4, <2>6
<1>12. CASE PinAttack(s, slot)
  <2> DEFINE pinned == [slot EXCEPT !.attackPinned = TRUE]
  <2>1. /\ pinned.attackBy = slot.attackBy /\ pinned.defence = slot.defence
        /\ pinned.defenceBy = slot.defenceBy
    BY <1>2 DEF Slot
  <2>2. deal' = [deal EXCEPT !.table = (@ \ {slot}) \cup {pinned}]
    BY <1>12 DEF PinAttack
  <2> HIDE DEF pinned
  <2> QED
    BY <1>11, <2>1, <2>2
<1>13. CASE PinDefence(s, slot)
  <2> DEFINE pinned == [slot EXCEPT !.defencePinned = TRUE]
  <2>1. /\ pinned.attackBy = slot.attackBy /\ pinned.defence = slot.defence
        /\ pinned.defenceBy = slot.defenceBy
    BY <1>2 DEF Slot
  <2>2. deal' = [deal EXCEPT !.table = (@ \ {slot}) \cup {pinned}]
    BY <1>13 DEF PinDefence
  <2> HIDE DEF pinned
  <2> QED
    BY <1>11, <2>1, <2>2
<1> QED
  BY <1>9, <1>10, <1>12, <1>13

-----------------------------------------------------------------------------
\* The start of the deal.

\* While everybody plays, the next player sits on the next seat.
LEMMA NeighbourIsNext ==
  ASSUME NEW d, d.inDeal = Seats, NEW s \in Seats
  PROVE  NextActive(d, s) = IF s = N - 1 THEN 0 ELSE s + 1
<1> DEFINE t == IF s = N - 1 THEN 0 ELSE s + 1
<1>1. N \in Nat /\ N >= 2 /\ s \in 0 .. N - 1
  BY CardsAssumption DEF Seats
<1>2. t \in Seats /\ Clockwise(s, t) = 1
  BY <1>1 DEF Seats, Clockwise
<1>3. PICK u : u = NextActive(d, s)
  OBVIOUS
<1>4. u \in Seats /\ Clockwise(s, u) <= Clockwise(s, t)
  <2> HIDE DEF t
  <2> QED
    BY <1>2, <1>3, NextIsNearest
<1>5. Clockwise(s, u) \in 1 .. N
  BY <1>4, ClockwiseType
<1>6. Clockwise(s, u) = 1 /\ u \in 0 .. N - 1
  <2> HIDE DEF t
  <2> QED
    BY <1>1, <1>2, <1>4, <1>5 DEF Seats
<1>7. u = t
  BY <1>1, <1>6 DEF Clockwise
<1> QED
  BY <1>3, <1>7

\* The second last card of the pack names the trump unless it is a joker.
LEMMA HiddenTrumpHasSuit ==
  ASSUME NEW pack \in Shuffles
  PROVE  LET deck == SubSeq(pack, N * (DealSize + 1) + 1, Len(pack))
             card == deck[Len(deck) - 1]
         IN ~IsJoker(card) => card.suit \in Suits /\ card.suit # None
<1> DEFINE first == N * (DealSize + 1) + 1
           deck  == SubSeq(pack, first, Len(pack))
           card  == deck[Len(deck) - 1]
<1>1. /\ Len(pack) \in Nat /\ Len(pack) >= N * (DealSize + 1) + 2 /\ pack \in Seq(Card)
      /\ \A j \in 1 .. Len(pack) : pack[j] \in Card
  BY PackIsShuffled
<1>2. N * (DealSize + 1) \in Nat
  BY CardsAssumption, RulesAssumption
<1>3. first \in 1 .. Len(pack) - 1
  BY <1>1, <1>2
<1>4. deck \in Seq(Card) /\ Len(deck) \in Nat /\ Len(deck) >= 2
  <2> HIDE DEF first
  <2>1. \A j \in first .. Len(pack) : pack[j] \in Card
    BY <1>1, <1>3
  <2>2. deck \in Seq(Card) /\ Len(deck) = Len(pack) - first + 1
    BY <1>1, <1>3, <2>1, SubSeqProperties
  <2> QED
    BY <1>1, <1>3, <2>2
<1>5. card \in Card
  <2> HIDE DEF deck
  <2> QED
    BY <1>4, ElementOfSeq
<1>6. ~IsJoker(card) => card.suit \in Suits
  <2> HIDE DEF card
  <2> QED
    BY <1>5 DEF IsJoker, Card, Pip
<1> QED
  BY <1>6, CardsAssumption

\* Everybody starts with a hand, and with the roles unless a joker asks for the dice.
LEMMA DealtIsPhased ==
  ASSUME NEW pack \in Shuffles, NEW levels \in StartLevels, NEW chooser \in Seats
  PROVE  Phased(Dealt(pack, levels, chooser))
<1> DEFINE hand      == [s \in Seats |-> {pack[i * N + s + 1] : i \in 0 .. DealSize - 1}]
           deck      == SubSeq(pack, N * (DealSize + 1) + 1, Len(pack))
           trumpCard == deck[Len(deck) - 1]
           joker     == IsJoker(trumpCard)
           starter   == IF joker THEN 0 ELSE LowestTrumpSeat(hand, trumpCard.suit)
           phase     == IF joker THEN "DICE" ELSE "ATTACK"
           trump     == IF joker THEN None ELSE trumpCard.suit
           right     == IF joker THEN chooser ELSE starter
           defender  == IF starter = N - 1 THEN 0 ELSE starter + 1
           places    == [s \in Seats |-> 0]
<1>1. PICK r : r = Dealt(pack, levels, chooser)
  OBVIOUS
<1>2. Sound(r) /\ r \in Deal
  BY <1>1, DealtIsSound DEF Sound, WellFormed
<1>3. /\ r.phase = phase /\ r.trump = trump /\ r.hand = hand /\ r.inDeal = Seats
      /\ r.table = {} /\ r.starter = starter /\ r.right = right /\ r.defender = defender
      /\ r.passed = {} /\ r.exitPlace = places /\ r.window = None /\ r.pending = None
  BY <1>1 DEF Dealt
<1>4. \A s \in r.inDeal : ~HasNothing(r, s)
  <2> SUFFICES ASSUME NEW s \in Seats  PROVE hand[s] # {}
    BY <1>3 DEF HasNothing
  <2>1. 0 \in 0 .. DealSize - 1
    BY RulesAssumption
  <2>2. pack[0 * N + s + 1] \in hand[s]
    BY <2>1
  <2> QED
    BY <2>2
<1>5. Exits(r)
  <2>1. Seats \ r.inDeal = {} /\ \A s \in r.inDeal : r.exitPlace[s] = 0
    BY <1>3
  <2>2. Cardinality(Seats \ r.inDeal) = 0
    BY <2>1, FS_EmptySet
  <2>3. {r.exitPlace[s] : s \in Seats \ r.inDeal} = {} /\ 1 .. 0 = {}
    BY <2>1
  <2> QED
    BY <2>1, <2>2, <2>3 DEF Exits
<1>6. starter \in Seats
  BY LowestTrumpSeatType, CardsAssumption DEF Seats
<1> HIDE DEF hand, trumpCard, starter, joker
<1>7. CASE joker
  <2>1. DiceInv(r) /\ r.phase = "DICE"
    BY <1>3, <1>4, <1>7 DEF DiceInv
  <2> QED
    BY <1>1, <1>5, <2>1 DEF Phased, InRound
<1>8. CASE ~joker
  <2>1. r.trump \in Suits \cup {None} /\ r.phase = "ATTACK" /\ right = starter
    BY <1>2, <1>3, <1>8 DEF Deal
  <2>2. trump # None
    BY <1>8, HiddenTrumpHasSuit DEF joker, trumpCard
  <2>3. defender = NextActive(r, starter)
    BY <1>3, <1>6, NeighbourIsNext
  <2>4. defender \in Seats /\ defender # starter
    BY <1>3, <1>6, <2>3, NextIsNearest, NobodySitsAlone
  <2>5. Roles(r)
    <3> HIDE DEF defender, right
    <3> QED
      BY <1>3, <1>6, <2>1, <2>3, <2>4 DEF Roles
  <2>6. r.trump # None
    BY <1>3, <2>2
  <2> QED
    BY <1>1, <1>3, <1>4, <1>5, <2>1, <2>5, <2>6, FreshRoundIsPhased
<1> QED
  BY <1>7, <1>8

-----------------------------------------------------------------------------
\* Every deal starts in its phase, and every command leaves it in one.
THEOREM RoundInvariant == Spec => []RoundInv
<1>1. Init /\ CardsInv => RoundInv
  BY DealtIsPhased DEF Init, RoundInv
<1>2. RoundInv /\ CardsInv' /\ [Next]_vars => RoundInv'
  <2> SUFFICES ASSUME RoundInv, CardsInv', [Next]_vars  PROVE Phased(deal)'
    BY DEF RoundInv
  <2>1. CASE Next
    <3>1. PICK s \in Seats :
            \/ \E chooser \in Choosers : Round(s, chooser) \/ Hanging(s, chooser)
            \/ Trump(s)
            \/ SecondThoughts(s)
      BY <2>1 DEF Next
    <3>2. CASE \E chooser \in Choosers : Round(s, chooser) \/ Hanging(s, chooser)
      <4>1. Choosers \in SUBSET Seats
        BY ChoosersAreSeats DEF RoundInv, CardsInv, DealInv
      <4> QED
        BY <3>2, <4>1, RoundKeepsCourse, HangingKeepsCourse
    <3>3. CASE Trump(s)
      BY <3>3, TrumpKeepsCourse
    <3>4. CASE SecondThoughts(s)
      BY <3>4, SecondThoughtsKeepCourse
    <3> QED
      BY <3>1, <3>2, <3>3, <3>4
  <2>2. CASE UNCHANGED vars
    BY <2>2 DEF vars, RoundInv
  <2> QED
    BY <2>1, <2>2
<1> QED
  BY <1>1, <1>2, CardsInvariant, PTL DEF Spec

\* The right to attack never leaves the starter of the round and the second neighbour,
\* and never comes to the defender; all three are in the deal.
THEOREM RolesStayApart == Spec => []RolesAreApart
<1>1. RoundInv => RolesAreApart
  <2> SUFFICES ASSUME RoundInv, deal.phase \notin {"DEAL_OVER", "DICE"}  PROVE Roles(deal)
    BY DEF RolesAreApart, Roles
  <2>1. Playable
    BY DEF Playable
  <2> QED
    BY <2>1, PlayableIsMoving DEF RoundGoes, RoundCore, WindowInv, WindowOpen
<1> QED
  BY <1>1, RoundInvariant, PTL

\* Who is out has a place of his own, without a gap between them, and nobody else has.
THEOREM ExitsStayInOrder == Spec => []ExitsAreInOrder
<1>1. RoundInv => ExitsAreInOrder
  BY DEF RoundInv, Phased, Exits, ExitsAreInOrder
<1> QED
  BY <1>1, RoundInvariant, PTL

\* The hanging window is there exactly in its phase, waits for somebody who is in the
\* deal, and what was claimed is still held and still flies.
THEOREM WindowStaysSound == Spec => []WindowIsSound
<1>1. RoundInv => WindowIsSound
  <2> SUFFICES ASSUME RoundInv  PROVE WindowIsSound
    OBVIOUS
  <2>1. /\ deal \in Deal /\ Phased(deal) /\ ClaimsAreHeld(deal)
        /\ deal.phase \in Phases /\ deal.inDeal \in SUBSET Seats
    BY DEF RoundInv, CardsInv, Kept, DealInv, Sound, WellFormed, Deal
  <2>2. CASE deal.phase = "HANGING"
    <3> DEFINE w == deal.window
    <3>1. WindowInv(deal) /\ w # None
      BY <2>1, <2>2 DEF Phased, WindowInv, WindowOpen
    <3>2. CurrentStep(w) \subseteq deal.inDeal \ {w.victim}
      BY <3>1 DEF WindowInv, WindowOpen, StepsAreSound, CurrentStep
    <3>3. \E s \in Seats : MayDecide(w, s)
      BY <2>1, <3>1, <3>2 DEF WindowInv, IsStepComplete, MayDecide
    <3>4. \A cl \in w.claims : /\ cl.seat \in w.decided
                               /\ cl.card \in deal.hand[cl.seat]
                               /\ IsFlyingCard(deal.level[w.victim], cl.card)
      BY <2>1, <2>2, <3>1 DEF WindowInv, WindowOpen, ClaimsAreHeld
    <3>5. w.victim = deal.defender /\ deal.table = {}
      BY <3>1 DEF WindowInv, WindowOpen
    <3> QED
      BY <2>2, <3>1, <3>2, <3>3, <3>4, <3>5 DEF WindowIsSound
  <2>3. CASE deal.phase # "HANGING"
    <3>1. deal.window = None
      BY <2>1, <2>3 DEF Phases, Phased, InRound, RoundCore, DiceInv, OverInv
    <3> QED
      BY <2>3, <3>1 DEF WindowIsSound
  <2> QED
    BY <2>2, <2>3
<1> QED
  BY <1>1, RoundInvariant, PTL

\* Nobody attacks, passes or takes while the window is open, although the handlers do not
\* look at the phase.
THEOREM NobodyMovesIntoTheWindow == Spec => []NoMoveIntoTheWindow
<1>1. RoundInv => NoMoveIntoTheWindow
  BY NoMoveInWindow DEF RoundInv, Phased, NoMoveIntoTheWindow
<1> QED
  BY <1>1, RoundInvariant, PTL

\* A deal that is over has one player left, and nothing in it is waited for.
THEOREM OverCanBeScored == Spec => []OverMeansScorable
<1>1. RoundInv => OverMeansScorable
  <2> SUFFICES ASSUME RoundInv, deal.phase = "DEAL_OVER"
               PROVE  /\ Cardinality(deal.inDeal) = 1
                      /\ DeckEmpty(deal) /\ deal.trump # None
                      /\ deal.pending = None /\ deal.window = None
                      /\ deal.table = {} /\ deal.lastAttack # {}
    BY DEF OverMeansScorable
  <2>1. /\ deal.inDeal \in SUBSET Seats /\ deal.inDeal # {} /\ Early(deal) /\ Waiting(deal)
        /\ OverInv(deal) /\ deal.trump # None
    BY DEF RoundInv, CardsInv, DealInv, Sound, WellFormed, Deal, Phased
  <2>2. IsFiniteSet(deal.inDeal) /\ Cardinality(deal.inDeal) \in Nat
    BY <2>1, SeatSubsetFinite
  <2>3. Cardinality(deal.inDeal) # 0
    BY <2>1, <2>2, FS_EmptySet
  <2>4. Cardinality(deal.inDeal) = 1
    BY <2>1, <2>2, <2>3 DEF OverInv
  <2>5. deal.inDeal # Seats
    BY <2>4, SeatsFinite, CardsAssumption
  <2>6. DeckEmpty(deal)
    BY <2>1, <2>5 DEF Early, DeckEmpty
  <2>7. deal.pending = None
    BY <2>1 DEF Waiting
  <2> QED
    BY <2>1, <2>4, <2>6, <2>7 DEF OverInv
<1> QED
  BY <1>1, RoundInvariant, PTL
=============================================================================
