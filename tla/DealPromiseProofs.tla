--------------------------- MODULE DealPromiseProofs ---------------------------
(***************************************************************************)
(* What those who look at a deal may rely on, for every number of          *)
(* players, every pack and every setting of the table: that it comes back  *)
(* from a snapshot as it was written, that its players are shown nothing   *)
(* hidden and miss no move, and that, whatever is played, it keeps the     *)
(* promise the match is played with.                                       *)
(***************************************************************************)
EXTENDS DealRoundProofs, DealKeepsPromise

-----------------------------------------------------------------------------
\* The snapshot.

\* A card is read as it was written: a joker is told by its prefix.
LEMMA CardComesBack ==
  ASSUME NEW c \in Card
  PROVE  DecodeCard(EncodeCard(c)) = c
<1>1. CASE c \in Joker
  <2>1. EncodeCard(c) = [prefix |-> "Joker", number |-> c.joker]
    BY <1>1 DEF EncodeCard, IsJoker
  <2>2. "prefix" \in DOMAIN EncodeCard(c) /\ EncodeCard(c).number = c.joker
    BY <2>1
  <2>3. DecodeCard(EncodeCard(c)) = [joker |-> c.joker]
    BY <2>2 DEF DecodeCard
  <2> QED
    BY <1>1, <2>3 DEF Joker
<1>2. CASE c \notin Joker
  <2>1. EncodeCard(c) = [code |-> <<c.rank, c.suit>>]
    BY <1>2 DEF EncodeCard, IsJoker
  <2>2. "prefix" \notin DOMAIN EncodeCard(c) /\ EncodeCard(c).code = <<c.rank, c.suit>>
    BY <2>1
  <2>3. DecodeCard(EncodeCard(c)) = [rank |-> c.rank, suit |-> c.suit]
    BY <2>2 DEF DecodeCard
  <2>4. c \in Pip
    BY <1>2 DEF Card
  <2> QED
    BY <2>3, <2>4 DEF Pip
<1> QED
  BY <1>1, <1>2

\* So are the cards of a hand ...
LEMMA CardsComeBack ==
  ASSUME NEW S \in SUBSET Card
  PROVE  DecodeCards(EncodeCards(S)) = S
BY CardComesBack DEF DecodeCards, EncodeCards

\* ... and a card that may be missing.
LEMMA CardOrNoneComesBack ==
  ASSUME NEW c \in Card \cup {None}
  PROVE  /\ DecodeCardOr(EncodeCardOr(c)) = c
         /\ EncodeCardOr(c) = << >> <=> c = None
<1>1. CASE c = None
  BY <1>1 DEF DecodeCardOr, EncodeCardOr
<1>2. CASE c # None
  <2>1. EncodeCardOr(c) = << EncodeCard(c) >>
    BY <1>2 DEF EncodeCardOr
  <2>2. EncodeCardOr(c) # << >> /\ EncodeCardOr(c)[1] = EncodeCard(c)
    BY <2>1
  <2> QED
    BY <1>2, <2>2, CardComesBack DEF DecodeCardOr
<1> QED
  BY <1>1, <1>2

\* A flag that is written only if it is set.
LEMMA FlagComesBack ==
  ASSUME NEW flag \in BOOLEAN
  PROVE  OrFalse(OmitIfFalse(flag)) = flag
BY DEF OrFalse, OmitIfFalse

\* A slot is laid again and beaten again.
LEMMA SlotComesBack ==
  ASSUME NEW slot \in Slot, slot.defence = None => slot.defenceBy = 0 /\ ~slot.defencePinned
  PROVE  DecodeSlot(EncodeSlot(slot)) = slot
<1>1. PICK node : node = EncodeSlot(slot)
  OBVIOUS
<1>2. PICK laid : laid = [NewSlot(DecodeCard(node.attack), node.attackBy) EXCEPT
                            !.attackPinned = OrFalse(node.attackPinned)]
  OBVIOUS
<1>3. /\ slot.attack \in Card /\ slot.defence \in Card \cup {None}
      /\ slot.attackPinned \in BOOLEAN /\ slot.defencePinned \in BOOLEAN
  BY DEF Slot
<1>4. /\ node.attack = EncodeCard(slot.attack) /\ node.attackBy = slot.attackBy
      /\ node.attackPinned = OmitIfFalse(slot.attackPinned)
      /\ node.defence = EncodeCardOr(slot.defence) /\ node.defenceBy = slot.defenceBy
      /\ node.defencePinned = OmitIfFalse(slot.defencePinned)
  BY <1>1 DEF EncodeSlot
<1>5. laid = [attack |-> slot.attack, attackBy |-> slot.attackBy,
              attackPinned |-> slot.attackPinned,
              defence |-> None, defenceBy |-> 0, defencePinned |-> FALSE]
  <2>1. DecodeCard(node.attack) = slot.attack /\ OrFalse(node.attackPinned) = slot.attackPinned
    BY <1>3, <1>4, CardComesBack, FlagComesBack
  <2> QED
    BY <1>2, <1>4, <2>1 DEF NewSlot
<1>6. CASE slot.defence = None
  <2>1. DecodeSlot(node) = laid
    BY <1>2, <1>3, <1>4, <1>6, CardOrNoneComesBack DEF DecodeSlot
  <2> QED
    BY <1>1, <1>3, <1>5, <1>6, <2>1 DEF Slot
<1>7. CASE slot.defence # None
  <2>1. node.defence # << >> /\ DecodeCardOr(node.defence) = slot.defence
    BY <1>3, <1>4, <1>7, CardOrNoneComesBack
  <2>2. OrFalse(node.defencePinned) = slot.defencePinned
    BY <1>3, <1>4, FlagComesBack
  <2>3. DecodeSlot(node) = [laid EXCEPT !.defence = slot.defence, !.defenceBy = slot.defenceBy,
                                        !.defencePinned = slot.defencePinned]
    BY <1>2, <1>4, <2>1, <2>2 DEF DecodeSlot
  <2> QED
    BY <1>1, <1>5, <2>3 DEF Slot
<1> QED
  BY <1>6, <1>7

\* The window with its claims.
LEMMA WindowComesBack ==
  ASSUME NEW w \in Window
  PROVE  DecodeWindow(EncodeWindow(w)) = w
<1>1. PICK written : written = {[seat |-> cl.seat, card |-> EncodeCard(cl.card)] : cl \in w.claims}
  OBVIOUS
<1>2. PICK node : node = EncodeWindow(w)
  OBVIOUS
<1>3. node = [w EXCEPT !.claims = written]
  BY <1>1, <1>2 DEF EncodeWindow
<1>4. node.claims = written
  BY <1>3 DEF Window
<1>5. {[seat |-> cl.seat, card |-> DecodeCard(cl.card)] : cl \in written} = w.claims
  <2>1. \A cl \in w.claims : /\ cl = [seat |-> cl.seat, card |-> cl.card]
                             /\ DecodeCard(EncodeCard(cl.card)) = cl.card
    BY CardComesBack DEF Window, Claim
  <2>2. PICK read : read = {[seat |-> x.seat, card |-> DecodeCard(x.card)] : x \in written}
    OBVIOUS
  <2>3. \A x \in written : \E cl \in w.claims :
          x.seat = cl.seat /\ x.card = EncodeCard(cl.card)
    BY <1>1
  <2>4. ASSUME NEW cl \in w.claims
        PROVE  \E x \in written : x.seat = cl.seat /\ x.card = EncodeCard(cl.card)
    <3>1. [seat |-> cl.seat, card |-> EncodeCard(cl.card)] \in written
      BY <1>1
    <3> QED
      BY <3>1
  <2>5. ASSUME NEW x \in written
        PROVE  [seat |-> x.seat, card |-> DecodeCard(x.card)] \in w.claims
    BY <2>1, <2>3
  <2>6. ASSUME NEW cl \in w.claims
        PROVE  \E x \in written : cl = [seat |-> x.seat, card |-> DecodeCard(x.card)]
    BY <2>1, <2>4
  <2> QED
    BY <2>2, <2>5, <2>6
<1>6. DecodeWindow(node) = [node EXCEPT !.claims = w.claims]
  BY <1>4, <1>5 DEF DecodeWindow
<1> QED
  BY <1>2, <1>3, <1>6 DEF Window

\* The joker that waits for its suit.
LEMMA PendingComesBack ==
  ASSUME NEW p \in Pending
  PROVE  DecodePending(EncodePending(p)) = p
<1>1. PICK node : node = EncodePending(p)
  OBVIOUS
<1>2. node = [p EXCEPT !.card = EncodeCard(p.card)]
  BY <1>1 DEF EncodePending
<1>3. node.card = EncodeCard(p.card) /\ p.card \in Card
  BY <1>2 DEF Pending
<1>4. DecodePending(node) = [node EXCEPT !.card = p.card]
  BY <1>3, CardComesBack DEF DecodePending
<1> QED
  BY <1>1, <1>2, <1>4 DEF Pending

\* The whole deal, if the slots that are not beaten say so.
LEMMA DealComesBack ==
  ASSUME NEW d \in Deal, PinsAreOfCards(d)
  PROVE  DecodeDeal(EncodeDeal(d), d.discard) = d
<1>1. PICK node : node = EncodeDeal(d)
  OBVIOUS
<1>2. PICK r : r = DecodeDeal(node, d.discard)
  OBVIOUS
<1>3. /\ node.phase = d.phase /\ node.trump = Optional(d.trump)
      /\ node.deck = [j \in DOMAIN d.deck |-> EncodeCard(d.deck[j])]
      /\ node.players = [s \in Seats |-> EncodePlayer(d, s)]
      /\ node.table = {EncodeSlot(slot) : slot \in d.table}
      /\ node.lastAttack = EncodeCards(d.lastAttack)
      /\ node.window = IF d.window = None THEN << >> ELSE << EncodeWindow(d.window) >>
      /\ node.pending = IF d.pending = None THEN << >> ELSE << EncodePending(d.pending) >>
  BY <1>1 DEF EncodeDeal
<1>4. /\ node.starter = d.starter /\ node.right = d.right /\ node.defender = d.defender
      /\ node.passed = d.passed /\ node.exitPlace = d.exitPlace
      /\ node.anyBeaten = d.anyBeaten /\ node.anyDiscarded = d.anyDiscarded
  BY <1>1 DEF EncodeDeal
<1>5. OrNone(node.trump) = d.trump
  BY <1>3 DEF OrNone, Optional
<1>6. [j \in DOMAIN node.deck |-> DecodeCard(node.deck[j])] = d.deck
  <2>1. d.deck \in Seq(Card)
    BY DEF Deal
  <2>2. \A j \in DOMAIN d.deck : d.deck[j] \in Card /\ DecodeCard(EncodeCard(d.deck[j])) = d.deck[j]
    BY <2>1, ElementOfSeq, LenProperties, CardComesBack
  <2>3. d.deck = [j \in DOMAIN d.deck |-> d.deck[j]]
    BY <2>1
  <2>4. DOMAIN node.deck = DOMAIN d.deck
    BY <1>3
  <2>5. \A j \in DOMAIN d.deck : DecodeCard(node.deck[j]) = d.deck[j]
    BY <1>3, <2>2
  <2> QED
    BY <2>3, <2>4, <2>5
\* The players, one by one.
<1>7. ASSUME NEW s \in Seats
      PROVE  /\ DecodeCards(node.players[s].hand) = d.hand[s]
             /\ DecodeCardOr(node.players[s].faceDown) = d.faceDown[s]
             /\ DecodeCards(node.players[s].hung) = d.hung[s]
             /\ node.players[s].inDeal = (s \in d.inDeal)
             /\ node.players[s].level = d.level[s]
             /\ node.players[s].jokerHanger = d.jokerHanger[s]
  <2>1. /\ node.players[s].hand = EncodeCards(d.hand[s])
        /\ node.players[s].faceDown = EncodeCardOr(d.faceDown[s])
        /\ node.players[s].hung = EncodeCards(d.hung[s])
        /\ node.players[s].inDeal = (s \in d.inDeal)
        /\ node.players[s].level = d.level[s]
        /\ node.players[s].jokerHanger = d.jokerHanger[s]
    BY <1>3 DEF EncodePlayer
  <2>2. /\ d.hand[s] \in SUBSET Card /\ d.hung[s] \in SUBSET Card
        /\ d.faceDown[s] \in Card \cup {None}
    BY DEF Deal
  <2> QED
    BY <2>1, <2>2, CardsComeBack, CardOrNoneComesBack
<1>8. /\ [s \in Seats |-> DecodeCards(node.players[s].hand)] = d.hand
      /\ [s \in Seats |-> DecodeCardOr(node.players[s].faceDown)] = d.faceDown
      /\ [s \in Seats |-> DecodeCards(node.players[s].hung)] = d.hung
  BY <1>7 DEF Deal
<1>9. /\ {s \in Seats : node.players[s].inDeal} = d.inDeal
      /\ [s \in Seats |-> node.players[s].level] = d.level
      /\ [s \in Seats |-> node.players[s].jokerHanger] = d.jokerHanger
  BY <1>7 DEF Deal
<1>10. {DecodeSlot(slot) : slot \in node.table} = d.table
  <2>1. \A slot \in d.table : DecodeSlot(EncodeSlot(slot)) = slot
    BY SlotComesBack DEF PinsAreOfCards, Deal
  <2> QED
    BY <1>3, <2>1
<1>11. DecodeCards(node.lastAttack) = d.lastAttack
  BY <1>3, CardsComeBack DEF Deal
<1>12. (IF node.window = << >> THEN None ELSE DecodeWindow(node.window[1])) = d.window
  <2>1. CASE d.window = None
    BY <1>3, <2>1
  <2>2. CASE d.window # None
    <3>1. node.window = << EncodeWindow(d.window) >> /\ d.window \in Window
      BY <1>3, <2>2 DEF Deal
    <3>2. node.window # << >> /\ node.window[1] = EncodeWindow(d.window)
      BY <3>1
    <3> QED
      BY <3>1, <3>2, WindowComesBack
  <2> QED
    BY <2>1, <2>2
<1>13. (IF node.pending = << >> THEN None ELSE DecodePending(node.pending[1])) = d.pending
  <2>1. CASE d.pending = None
    BY <1>3, <2>1
  <2>2. CASE d.pending # None
    <3>1. node.pending = << EncodePending(d.pending) >> /\ d.pending \in Pending
      BY <1>3, <2>2 DEF Deal
    <3>2. node.pending # << >> /\ node.pending[1] = EncodePending(d.pending)
      BY <3>1
    <3> QED
      BY <3>1, <3>2, PendingComesBack
  <2> QED
    BY <2>1, <2>2
<1>14. r = [phase |-> d.phase, trump |-> d.trump, deck |-> d.deck, hand |-> d.hand,
            faceDown |-> d.faceDown, inDeal |-> d.inDeal, level |-> d.level, hung |-> d.hung,
            jokerHanger |-> d.jokerHanger, table |-> d.table, starter |-> d.starter,
            right |-> d.right, defender |-> d.defender, passed |-> d.passed,
            exitPlace |-> d.exitPlace, anyBeaten |-> d.anyBeaten,
            anyDiscarded |-> d.anyDiscarded, window |-> d.window, lastAttack |-> d.lastAttack,
            pending |-> d.pending, discard |-> d.discard]
  BY <1>2, <1>3, <1>4, <1>5, <1>6, <1>8, <1>9, <1>10, <1>11, <1>12, <1>13, Zenon
     DEF DecodeDeal
<1>15. r = d
  BY <1>14 DEF Deal
<1> QED
  BY <1>1, <1>2, <1>15

\* A match that is restored goes on with the deal it was left with, objections, claims in the
\* window and a waiting joker included (state_codec.go).
THEOREM SnapshotIsTheDealAlways == Spec => []SnapshotIsTheDeal
<1> DEFINE Pins == PinsAreOfCards(deal)
<1>1. CardsInv /\ Pins => SnapshotIsTheDeal
  BY DealComesBack DEF CardsInv, DealInv, Sound, WellFormed, SnapshotIsTheDeal
<1>2. Spec => []Pins
  BY PinsOfCardsAlways
<1> HIDE DEF Pins
<1> QED
  BY <1>1, <1>2, CardsInvariant, PTL

-----------------------------------------------------------------------------
\* The views: what a player is offered.

\* Somebody may always be asked to throw the dice.
LEMMA SomebodyThrows ==
  ASSUME Sound(deal)
  PROVE  \E chooser \in Choosers : TRUE
<1>1. deal.inDeal # {}
  BY DEF Sound, WellFormed
<1> QED
  BY <1>1 DEF Choosers

\* A move of a round was among the candidates, unless the face-down card was turned up against
\* a card that does not lie there.
LEMMA RoundWasOffered ==
  ASSUME NEW s \in Seats, NEW chooser \in Choosers, Round(s, chooser)
  PROVE  (\E a \in AvailableActions(deal, s) : Made(s, a)) \/ NeverOffered(s)
<1>1. ASSUME NEW c \in deal.hand[s], Attack(s, c, chooser)
      PROVE  \E a \in AvailableActions(deal, s) : Made(s, a)
  <2> DEFINE a == [type |-> "ATTACK", card |-> c]
  <2>1. a \in Candidates(deal, s)
    BY DEF Candidates
  <2>2. Accepts(deal, s, a)
    BY <1>1 DEF Accepts, Attack, Playable
  <2>3. Made(s, a)
    BY <1>1 DEF Made
  <2> QED
    BY <2>1, <2>2, <2>3 DEF AvailableActions
<1>2. ASSUME NEW c \in deal.hand[s], Transfer(s, c)
      PROVE  \E a \in AvailableActions(deal, s) : Made(s, a)
  <2> DEFINE a == [type |-> "TRANSFER", card |-> c]
  <2>1. a \in Candidates(deal, s)
    BY DEF Candidates
  <2>2. Accepts(deal, s, a)
    BY <1>2 DEF Accepts, Transfer, Playable
  <2>3. Made(s, a)
    BY <1>2 DEF Made
  <2> QED
    BY <2>1, <2>2, <2>3 DEF AvailableActions
<1>3. ASSUME NEW c \in deal.hand[s], NEW target \in AttackCards(deal), Defend(s, c, target, chooser)
      PROVE  \E a \in AvailableActions(deal, s) : Made(s, a)
  <2> DEFINE a == [type |-> "DEFEND", card |-> c, target |-> target]
  <2>1. a \in Candidates(deal, s)
    BY DEF Candidates
  <2>2. Accepts(deal, s, a)
    BY <1>3 DEF Accepts, Defend, Playable
  <2>3. Made(s, a)
    BY <1>3 DEF Made
  <2> QED
    BY <2>1, <2>2, <2>3 DEF AvailableActions
<1>4. ASSUME Pass(s, chooser)
      PROVE  \E a \in AvailableActions(deal, s) : Made(s, a)
  <2> DEFINE a == [type |-> "PASS"]
  <2>1. a \in Candidates(deal, s)
    BY DEF Candidates
  <2>2. Accepts(deal, s, a)
    BY <1>4 DEF Accepts, Pass, Playable
  <2>3. Made(s, a)
    BY <1>4 DEF Made
  <2> QED
    BY <2>1, <2>2, <2>3 DEF AvailableActions
<1>5. ASSUME Take(s, chooser)
      PROVE  \E a \in AvailableActions(deal, s) : Made(s, a)
  <2> DEFINE a == [type |-> "TAKE"]
  <2>1. a \in Candidates(deal, s)
    BY DEF Candidates
  <2>2. Accepts(deal, s, a)
    BY <1>5 DEF Accepts, Take, Playable
  <2>3. Made(s, a)
    BY <1>5 DEF Made
  <2> QED
    BY <2>1, <2>2, <2>3 DEF AvailableActions
<1>6. ASSUME RevealFaceDown(s, chooser)
      PROVE  \E a \in AvailableActions(deal, s) : Made(s, a)
  <2> DEFINE a == [type |-> "REVEAL"]
  <2>1. a \in Candidates(deal, s)
    BY DEF Candidates
  <2>2. Accepts(deal, s, a)
    BY <1>6 DEF Accepts, RevealFaceDown, Playable
  <2>3. Made(s, a)
    BY <1>6 DEF Made
  <2> QED
    BY <2>1, <2>2, <2>3 DEF AvailableActions
<1>7. ASSUME NEW target \in Pack, RevealToDefend(s, target, chooser), target \in AttackCards(deal)
      PROVE  \E a \in AvailableActions(deal, s) : Made(s, a)
  <2> DEFINE a == [type |-> "REVEAL_TO_DEFEND", target |-> target]
  <2>1. a \in Candidates(deal, s)
    BY <1>7 DEF Candidates
  <2>2. Accepts(deal, s, a)
    BY <1>7 DEF Accepts, RevealToDefend, Playable
  <2>3. Made(s, a)
    BY <1>7 DEF Made
  <2> QED
    BY <2>1, <2>2, <2>3 DEF AvailableActions
<1>8. ASSUME NEW target \in Pack, RevealToDefend(s, target, chooser), target \notin AttackCards(deal)
      PROVE  NeverOffered(s)
  BY <1>8 DEF NeverOffered
<1> QED
  BY <1>1, <1>2, <1>3, <1>4, <1>5, <1>6, <1>7, <1>8 DEF Round

\* So was a decision in the hanging window, unless several cards were hung at once.
LEMMA HangingWasOffered ==
  ASSUME deal \in Deal, Conserved(deal),
         NEW s \in Seats, NEW chooser \in Choosers, Hanging(s, chooser)
  PROVE  (\E a \in AvailableActions(deal, s) : Made(s, a)) \/ NeverOffered(s)
<1>1. ASSUME NEW cards \in SUBSET deal.hand[s], NEW winner \in Seats,
             HangCard(s, cards, winner, chooser), Cardinality(cards) <= 1
      PROVE  \E a \in AvailableActions(deal, s) : Made(s, a)
  <2>1. IsFiniteSet(cards)
    BY HandFinite, FS_Subset
  <2>2. cards # {}
    BY <1>1 DEF HangCard
  <2>3. PICK c : cards = {c}
    <3>1. Cardinality(cards) \in Nat /\ Cardinality(cards) # 0
      BY <2>1, <2>2, FS_CardinalityType, FS_EmptySet
    <3>2. Cardinality(cards) = 1
      BY <1>1, <3>1
    <3> QED
      BY <2>1, <3>2, FS_Singleton
  <2> DEFINE a == [type |-> "HANG", card |-> c]
  <2>4. a \in Candidates(deal, s)
    BY <2>3 DEF Candidates
  <2>5. Accepts(deal, s, a)
    BY <1>1, <2>3 DEF Accepts, HangCard
  <2>6. Made(s, a)
    BY <1>1, <2>3 DEF Made
  <2> QED
    BY <2>4, <2>5, <2>6 DEF AvailableActions
<1>2. ASSUME NEW cards \in SUBSET deal.hand[s], NEW winner \in Seats,
             HangCard(s, cards, winner, chooser), ~(Cardinality(cards) <= 1)
      PROVE  NeverOffered(s)
  <2>1. Cardinality(cards) \in Nat
    BY HandFinite, FS_Subset, FS_CardinalityType
  <2> QED
    BY <1>2, <2>1 DEF NeverOffered
<1>3. ASSUME NEW winner \in Seats, HangSkip(s, winner, chooser)
      PROVE  \E a \in AvailableActions(deal, s) : Made(s, a)
  <2> DEFINE a == [type |-> "HANG_SKIP"]
  <2>1. a \in Candidates(deal, s)
    BY DEF Candidates
  <2>2. Accepts(deal, s, a)
    BY <1>3 DEF Accepts, HangSkip
  <2>3. Made(s, a)
    BY <1>3 DEF Made
  <2> QED
    BY <2>1, <2>2, <2>3 DEF AvailableActions
<1> QED
  BY <1>1, <1>2, <1>3 DEF Hanging

\* And the suit, both at the start of a deal and for the hidden joker.
LEMMA TrumpWasOffered ==
  ASSUME Sound(deal), NEW s \in Seats, Trump(s)
  PROVE  \E a \in AvailableActions(deal, s) : Made(s, a)
<1>1. PICK suit \in Suits : ChooseTrump(s, suit) \/ ChooseTrumpForHidden(s, suit)
  BY DEF Trump
<1> DEFINE a == [type |-> "CHOOSE_TRUMP", suit |-> suit]
<1>2. a \in Candidates(deal, s)
  BY DEF Candidates
<1>3. Accepts(deal, s, a)
  BY <1>1 DEF Accepts, ChooseTrump, ChooseTrumpForHidden
<1>4. Made(s, a)
  BY <1>1, SomebodyThrows DEF Made
<1> QED
  BY <1>2, <1>3, <1>4 DEF AvailableActions

\* The client, which knows no rules and does what it is offered, misses no move but those the
\* projection leaves out on purpose (candidateCommands), for any table and any deal.
THEOREM MoveWasOfferedAlways == Spec => MoveWasOffered
<1>1. CardsInv /\ [Next]_vars => [\E s \in Seats : OfferedTo(s)]_vars
  <2> SUFFICES ASSUME CardsInv, Next
               PROVE  \E s \in Seats : OfferedTo(s)
    OBVIOUS
  <2>1. Sound(deal) /\ deal \in Deal /\ Conserved(deal)
    BY DEF CardsInv, DealInv, Sound, WellFormed, Kept
  <2>2. PICK s \in Seats :
          \/ \E chooser \in Choosers : Round(s, chooser) \/ Hanging(s, chooser)
          \/ Trump(s)
          \/ SecondThoughts(s)
    BY DEF Next
  <2>3. CASE SecondThoughts(s)
    BY <2>1, <2>3, SomebodyThrows DEF NeverOffered, OfferedTo
  <2>4. CASE Trump(s)
    BY <2>1, <2>4, TrumpWasOffered DEF OfferedTo
  <2>5. CASE \E chooser \in Choosers : Round(s, chooser) \/ Hanging(s, chooser)
    BY <2>1, <2>5, RoundWasOffered, HangingWasOffered DEF OfferedTo
  <2> QED
    BY <2>2, <2>3, <2>4, <2>5
<1> QED
  BY <1>1, CardsInvariant, PTL DEF Spec, MoveWasOffered

-----------------------------------------------------------------------------
(***************************************************************************)
(* The views: the fog of war.  Two deals look the same to a player if they *)
(* differ in nothing he is shown; a deal in which the cards hidden from    *)
(* him are exchanged, in whatever way, is such another.                    *)
(***************************************************************************)
LooksLike(d, e, viewer) ==
  /\ e.phase = d.phase /\ e.trump = d.trump /\ e.inDeal = d.inDeal /\ e.level = d.level
  /\ e.hung = d.hung /\ e.table = d.table /\ e.starter = d.starter /\ e.right = d.right
  /\ e.defender = d.defender /\ e.passed = d.passed /\ e.exitPlace = d.exitPlace
  /\ e.anyBeaten = d.anyBeaten /\ e.anyDiscarded = d.anyDiscarded
  /\ e.window = d.window /\ e.pending = d.pending
  /\ e.hand[viewer] = d.hand[viewer]
  /\ \A s \in Seats : /\ Cardinality(e.hand[s]) = Cardinality(d.hand[s])
                      /\ e.hand[s] = {} <=> d.hand[s] = {}
                      /\ e.faceDown[s] = None <=> d.faceDown[s] = None
  /\ Len(e.deck) = Len(d.deck) /\ (DeckEmpty(e) <=> DeckEmpty(d))
  /\ TrumpCard(e) = TrumpCard(d)

\* He is offered the same moves then ...
LEMMA SameMovesOffered ==
  ASSUME NEW d, NEW e, NEW viewer \in Seats, LooksLike(d, e, viewer), d.defender \in Seats,
         NextActive(d, viewer) \in Seats
  PROVE  AvailableActions(e, viewer) = AvailableActions(d, viewer)
<1>1. Candidates(e, viewer) = Candidates(d, viewer)
  BY DEF LooksLike, Candidates, AttackCards
<1>2. \A s \in Seats : /\ CanPlayFaceDown(e, s) <=> CanPlayFaceDown(d, s)
                       /\ DefendableCards(e, s) = DefendableCards(d, s)
  BY DEF LooksLike, CanPlayFaceDown, DefendableCards, HandSize
<1>3. NextActive(e, viewer) = NextActive(d, viewer)
  BY DEF LooksLike, NextActive
<1>4. Unbeaten(e) = Unbeaten(d) /\ UnbeatenCount(e) = UnbeatenCount(d) /\ AttackLimit(e) = AttackLimit(d)
  BY DEF LooksLike, Unbeaten, UnbeatenCount, AttackLimit
<1>5. AttackCards(e) = AttackCards(d) /\ TableCards(e) = TableCards(d)
  BY DEF LooksLike, AttackCards, DefenceCards, TableCards
<1>6. ASSUME NEW c
      PROVE  /\ CanAttack(e, viewer, c) <=> CanAttack(d, viewer, c)
             /\ CanTransfer(e, viewer, c) <=> CanTransfer(d, viewer, c)
             /\ \A target : CanDefend(e, viewer, c, target) <=> CanDefend(d, viewer, c, target)
  <2>1. HasRankOnTable(e, c) <=> HasRankOnTable(d, c)
    BY <1>5 DEF HasRankOnTable
  <2>2. CanAttack(e, viewer, c) <=> CanAttack(d, viewer, c)
    BY <1>2, <1>4, <2>1 DEF LooksLike, CanAttack
  <2>3. CanTransfer(e, viewer, c) <=> CanTransfer(d, viewer, c)
    BY <1>2, <1>3, <1>5 DEF LooksLike, CanTransfer
  <2>4. \A target : CanDefend(e, viewer, c, target) <=> CanDefend(d, viewer, c, target)
    BY <1>4 DEF LooksLike, CanDefend
  <2> QED
    BY <2>2, <2>3, <2>4
<1>7. /\ CanPass(e, viewer) <=> CanPass(d, viewer)
      /\ CanTake(e, viewer) <=> CanTake(d, viewer)
  BY <1>2 DEF LooksLike, CanPass, CanTake
<1>8. ASSUME NEW a \in Candidates(d, viewer)
      PROVE  Accepts(e, viewer, a) <=> Accepts(d, viewer, a)
  BY <1>2, <1>6, <1>7 DEF LooksLike, Accepts
<1> QED
  BY <1>1, <1>8 DEF AvailableActions

\* ... and shown the same.
LEMMA SameView ==
  ASSUME NEW d, NEW e, NEW viewer \in Seats, LooksLike(d, e, viewer), d.defender \in Seats,
         NextActive(d, viewer) \in Seats
  PROVE  Project(e, viewer) = Project(d, viewer)
<1>1. AvailableActions(e, viewer) = AvailableActions(d, viewer)
  BY SameMovesOffered
<1>2. \A s \in Seats : SeatView(e, s) = SeatView(d, s)
  BY DEF LooksLike, SeatView, HandSize
<1>3. [s \in Seats |-> SeatView(e, s)] = [s \in Seats |-> SeatView(d, s)]
  BY <1>2
<1>4. DiscardCount(e) = DiscardCount(d)
  <2>1. \A s \in Seats : InPlay(e, s) = InPlay(d, s)
    BY DEF LooksLike, InPlay
  <2>2. [s \in Seats |-> InPlay(e, s)] = [s \in Seats |-> InPlay(d, s)]
    BY <2>1
  <2>3. TableCards(e) = TableCards(d) /\ Len(e.deck) = Len(d.deck)
    BY DEF LooksLike, TableCards, AttackCards, DefenceCards
  <2> QED
    BY <2>2, <2>3 DEF DiscardCount
<1>5. /\ TrumpCard(e) = TrumpCard(d) /\ Len(e.deck) = Len(d.deck)
      /\ (e.faceDown[viewer] # None) = (d.faceDown[viewer] # None)
  BY DEF LooksLike
<1>6. /\ e.phase = d.phase /\ e.trump = d.trump /\ e.table = d.table /\ e.starter = d.starter
      /\ e.right = d.right /\ e.defender = d.defender /\ e.window = d.window
      /\ e.hand[viewer] = d.hand[viewer]
  BY DEF LooksLike
<1> QED
  BY <1>1, <1>3, <1>4, <1>5, <1>6 DEF Project

\* Where a hidden card is.
LEMMA HiddenSomewhere ==
  ASSUME NEW d, NEW viewer, NEW c
  PROVE  c \in HiddenFrom(d, viewer) <=>
           \/ \E s \in Seats \ {viewer} : c \in d.hand[s]
           \/ c # None /\ \E s \in Seats : c = d.faceDown[s]
           \/ \E j \in HiddenInDeck(d) : c = d.deck[j]
           \/ c \in d.discard
<1> DEFINE held    == UNION {d.hand[s] : s \in Seats \ {viewer}}
           covered == {d.faceDown[s] : s \in Seats} \ {None}
           below   == {d.deck[j] : j \in HiddenInDeck(d)}
<1>1. HiddenFrom(d, viewer) = held \cup covered \cup below \cup d.discard
  BY Zenon DEF HiddenFrom
<1>2. c \in held <=> \E s \in Seats \ {viewer} : c \in d.hand[s]
  OBVIOUS
<1>3. c \in covered <=> c # None /\ \E s \in Seats : c = d.faceDown[s]
  OBVIOUS
<1>4. c \in below <=> \E j \in HiddenInDeck(d) : c = d.deck[j]
  OBVIOUS
<1> HIDE DEF held, covered, below
<1> QED
  BY <1>1, <1>2, <1>3, <1>4

\* What is hidden from a player are cards.
LEMMA HiddenAreCards ==
  ASSUME NEW d \in Deal, Conserved(d), NEW viewer \in Seats
  PROVE  HiddenFrom(d, viewer) \in SUBSET Card
<1>1. /\ \A s \in Seats : d.hand[s] \in SUBSET Card /\ d.faceDown[s] \in Card \cup {None}
      /\ \A j \in DOMAIN d.deck : d.deck[j] \in Card
      /\ d.discard \in SUBSET Card
  BY DEF Deal
<1>2. ASSUME NEW c \in HiddenFrom(d, viewer)
      PROVE  c \in Card
  BY <1>1, HiddenSomewhere DEF HiddenInDeck
<1> QED
  BY <1>2

\* A turn that takes no two hidden cards to the same one.
Turns(turn, hidden) ==
  /\ \A c \in hidden : turn[c] \in Card
  /\ \A c, e \in hidden : turn[c] = turn[e] => c = e

\* As many cards are there afterwards.
LEMMA AsManyAreTurned ==
  ASSUME NEW turn, NEW hidden, Turns(turn, hidden), NEW S \in SUBSET hidden, IsFiniteSet(S)
  PROVE  Cardinality({turn[c] : c \in S}) = Cardinality(S)
<1> DEFINE T == {turn[c] : c \in S}
           f == [c \in S |-> turn[c]]
<1>1. \A c \in S : f[c] = turn[c]
  OBVIOUS
<1>2. f \in [S -> T]
  OBVIOUS
<1>3. \A c, e \in S : f[c] = f[e] => c = e
  BY <1>1 DEF Turns
<1>4. \A t \in T : \E c \in S : f[c] = t
  BY <1>1
<1>5. f \in Bijection(S, T)
  <2> HIDE DEF f, T
  <2> QED
    BY <1>2, <1>3, <1>4 DEF Bijection, Injection, Surjection, IsInjective
<1> QED
  BY <1>5, FS_Bijection DEF ExistsBijection

\* Nothing of what is hidden can be told from what a player is shown, however it is exchanged.
LEMMA ExchangeIsNotSeen ==
  ASSUME NEW d \in Deal, Conserved(d), NEW viewer \in Seats,
         NEW turn, Turns(turn, HiddenFrom(d, viewer))
  PROVE  LooksLike(d, ExchangedBy(d, viewer, turn), viewer)
<1>1. PICK e : e = ExchangedBy(d, viewer, turn)
  OBVIOUS
<1>2. /\ d.hand \in [Seats -> SUBSET Card] /\ d.faceDown \in [Seats -> Card \cup {None}]
      /\ d.deck \in Seq(Card)
  BY DEF Deal
<1>3. /\ e.phase = d.phase /\ e.trump = d.trump /\ e.inDeal = d.inDeal /\ e.level = d.level
      /\ e.hung = d.hung /\ e.table = d.table /\ e.starter = d.starter /\ e.right = d.right
      /\ e.defender = d.defender /\ e.passed = d.passed /\ e.exitPlace = d.exitPlace
      /\ e.anyBeaten = d.anyBeaten /\ e.anyDiscarded = d.anyDiscarded
      /\ e.window = d.window /\ e.pending = d.pending
  BY <1>1 DEF ExchangedBy, Deal
<1>4. /\ e.hand = [s \in Seats |-> IF s = viewer THEN d.hand[s] ELSE {turn[c] : c \in d.hand[s]}]
      /\ e.faceDown = [s \in Seats |-> IF d.faceDown[s] = None THEN None ELSE turn[d.faceDown[s]]]
      /\ e.deck = [j \in DOMAIN d.deck |-> IF j \in HiddenInDeck(d) THEN turn[d.deck[j]] ELSE d.deck[j]]
  BY <1>1 DEF ExchangedBy, Deal
<1>5. ASSUME NEW s \in Seats
      PROVE  /\ Cardinality(e.hand[s]) = Cardinality(d.hand[s])
             /\ e.hand[s] = {} <=> d.hand[s] = {}
             /\ e.faceDown[s] = None <=> d.faceDown[s] = None
  <2>1. ASSUME s = viewer
        PROVE  e.hand[s] = d.hand[s]
    BY <1>4, <2>1
  <2>2. ASSUME s # viewer
        PROVE  /\ e.hand[s] = {turn[c] : c \in d.hand[s]}
               /\ Cardinality(e.hand[s]) = Cardinality(d.hand[s])
    <3>1. e.hand[s] = {turn[c] : c \in d.hand[s]}
      BY <1>4, <2>2
    <3>2. d.hand[s] \in SUBSET HiddenFrom(d, viewer)
      BY <2>2, HiddenSomewhere
    <3>3. IsFiniteSet(d.hand[s])
      BY HandFinite
    <3>4. Cardinality({turn[c] : c \in d.hand[s]}) = Cardinality(d.hand[s])
      BY <3>2, <3>3, AsManyAreTurned
    <3> QED
      BY <3>1, <3>4
  <2>3. e.faceDown[s] = None <=> d.faceDown[s] = None
    <3>1. CASE d.faceDown[s] = None
      BY <1>4, <3>1
    <3>2. CASE d.faceDown[s] # None
      <4>1. d.faceDown[s] \in HiddenFrom(d, viewer)
        BY <3>2, HiddenSomewhere
      <4>2. turn[d.faceDown[s]] \in Card
        BY <4>1 DEF Turns
      <4> QED
        BY <1>4, <3>2, <4>2, CardsAssumption
    <3> QED
      BY <3>1, <3>2
  <2>4. /\ Cardinality(e.hand[s]) = Cardinality(d.hand[s])
        /\ e.hand[s] = {} <=> d.hand[s] = {}
    <3>1. CASE s = viewer
      BY <2>1, <3>1
    <3>2. CASE s # viewer
      BY <2>2, <3>2
    <3> QED
      BY <3>1, <3>2
  <2> QED
    BY <2>3, <2>4
<1>6. DOMAIN d.deck = 1 .. Len(d.deck) /\ Len(d.deck) \in Nat
  BY <1>2
<1>7. /\ Len(e.deck) = Len(d.deck)
      /\ DeckEmpty(e) <=> DeckEmpty(d)
      /\ TrumpCard(e) = TrumpCard(d)
  <2>1. \A j \in HiddenInDeck(d) : turn[d.deck[j]] \in Card
    BY HiddenSomewhere DEF Turns
  <2>2. e.deck \in Seq(Card) /\ DOMAIN e.deck = 1 .. Len(d.deck)
    <3>1. \A j \in 1 .. Len(d.deck) :
            (IF j \in HiddenInDeck(d) THEN turn[d.deck[j]] ELSE d.deck[j]) \in Card
      BY <1>2, <1>6, <2>1
    <3>2. e.deck \in [1 .. Len(d.deck) -> Card]
      BY <1>4, <1>6, <3>1
    <3> QED
      BY <1>6, <3>2
  <2>3. Len(e.deck) = Len(d.deck)
    BY <1>6, <2>2
  <2>4. DeckEmpty(e) <=> DeckEmpty(d)
    BY <1>2, <2>2, <2>3 DEF DeckEmpty
  <2>5. Len(d.deck) >= 2 => e.deck[Len(d.deck) - 1] = d.deck[Len(d.deck) - 1]
    BY <1>4, <1>6 DEF HiddenInDeck, OpenTrumpAt
  <2> QED
    BY <1>6, <2>3, <2>4, <2>5 DEF TrumpCard, OpenTrumpAt
<1>8. e.hand[viewer] = d.hand[viewer]
  BY <1>4
<1> QED
  BY <1>1, <1>3, <1>5, <1>7, <1>8 DEF LooksLike

\* The cards have an order: no two have the same key.
LEMMA KeysTellCards ==
  /\ N \in Nat
  /\ \A c \in Card : KeyOf(c) \in Int /\ KeyOf(c) + N \in Nat
  /\ \A c, e \in Card : KeyOf(c) = KeyOf(e) => c = e
<1>1. N \in Nat /\ Ranks \in SUBSET Nat
  BY CardsAssumption
<1>2. ASSUME NEW c \in Joker
      PROVE  KeyOf(c) = -c.joker /\ c.joker \in 1 .. N /\ c = [joker |-> c.joker]
  BY <1>2 DEF KeyOf, IsJoker, Joker
<1> DEFINE place(s) == CASE s = "diamonds" -> 0 [] s = "hearts" -> 1 [] s = "spades" -> 2 [] s = "clubs" -> 3
<1>3. ASSUME NEW c \in Pip, c \notin Joker
      PROVE  /\ KeyOf(c) = 4 * c.rank + place(c.suit)
             /\ c.rank \in Nat /\ c.suit \in Suits /\ c = [rank |-> c.rank, suit |-> c.suit]
  BY <1>1, <1>3 DEF KeyOf, IsJoker, Pip
<1>4. /\ \A s \in Suits : place(s) \in 0 .. 3
      /\ \A s, t \in Suits : place(s) = place(t) => s = t
  <2>1. /\ place("diamonds") = 0 /\ place("hearts") = 1
        /\ place("spades") = 2 /\ place("clubs") = 3
    OBVIOUS
  <2> HIDE DEF place
  <2> QED
    BY <2>1 DEF Suits
<1>5. ASSUME NEW c \in Card
      PROVE  KeyOf(c) \in Int /\ KeyOf(c) + N \in Nat /\ (c \in Joker <=> KeyOf(c) < 0)
  <2>1. CASE c \in Joker
    <3>1. KeyOf(c) = -c.joker /\ c.joker \in 1 .. N
      BY <1>2, <2>1
    <3> QED
      BY <1>1, <2>1, <3>1
  <2>2. CASE c \notin Joker
    <3>1. c \in Pip
      BY <2>2 DEF Card
    <3>2. KeyOf(c) = 4 * c.rank + place(c.suit) /\ c.rank \in Nat /\ place(c.suit) \in 0 .. 3
      BY <1>3, <1>4, <2>2, <3>1
    <3> HIDE DEF place
    <3> QED
      BY <1>1, <2>2, <3>2
  <2> QED
    BY <2>1, <2>2
<1>6. ASSUME NEW c \in Card, NEW e \in Card, KeyOf(c) = KeyOf(e)
      PROVE  c = e
  <2>1. c \in Joker <=> e \in Joker
    BY <1>5, <1>6
  <2>2. CASE c \in Joker
    <3>1. -c.joker = -e.joker /\ c.joker \in 1 .. N /\ e.joker \in 1 .. N
      BY <1>2, <1>6, <2>1, <2>2
    <3>2. c.joker = e.joker
      BY <1>1, <3>1
    <3> QED
      BY <1>2, <2>1, <2>2, <3>2
  <2>3. CASE c \notin Joker
    <3>1. c \in Pip /\ e \in Pip
      BY <2>1, <2>3 DEF Card
    <3>2. /\ 4 * c.rank + place(c.suit) = 4 * e.rank + place(e.suit)
          /\ c.rank \in Nat /\ e.rank \in Nat /\ place(c.suit) \in 0 .. 3 /\ place(e.suit) \in 0 .. 3
      <4> HIDE DEF place
      <4> QED
        BY <1>3, <1>4, <1>6, <2>1, <2>3, <3>1
    <3>3. c.rank = e.rank /\ place(c.suit) = place(e.suit)
      <4>1. \A q, r \in Nat, x, y \in 0 .. 3 : 4 * q + x = 4 * r + y => q = r /\ x = y
        OBVIOUS
      <4> HIDE DEF place
      <4> QED
        BY <3>2, <4>1
    <3>4. c.suit = e.suit
      <4> HIDE DEF place
      <4> QED
        BY <1>3, <1>4, <2>1, <2>3, <3>1, <3>3
    <3> QED
      BY <1>3, <2>1, <2>3, <3>1, <3>3, <3>4
  <2> QED
    BY <2>2, <2>3
<1> QED
  BY <1>1, <1>5, <1>6

\* A set of cards has a lowest one.
LEMMA LowestIsLowest ==
  ASSUME NEW S \in SUBSET Card, S # {}
  PROVE  Lowest(S) \in S /\ \A e \in S : KeyOf(Lowest(S)) <= KeyOf(e)
<1> DEFINE K == {KeyOf(c) + N : c \in S}
<1>1. K \in SUBSET Nat /\ K # {}
  BY KeysTellCards
<1>2. PICK k \in K : \A n \in K : k <= n
  <2> HIDE DEF K
  <2> QED
    BY <1>1, LeastNatural
<1>3. PICK c \in S : k = KeyOf(c) + N
  BY <1>2
<1>4. \A e \in S : KeyOf(c) <= KeyOf(e)
  <2> TAKE e \in S
  <2>1. KeyOf(e) + N \in K
    OBVIOUS
  <2>2. KeyOf(c) + N <= KeyOf(e) + N
    BY <1>2, <1>3, <2>1
  <2>3. KeyOf(c) \in Int /\ KeyOf(e) \in Int /\ N \in Nat
    BY KeysTellCards
  <2> QED
    BY <2>2, <2>3
<1> QED
  BY <1>4 DEF Lowest

\* The circle of a set of cards leads to every card from one only.
LEMMA CircleTurns ==
  ASSUME NEW S \in SUBSET Card
  PROVE  Turns([c \in S |-> Following(S, c)], S)
<1> DEFINE above(c) == {e \in S : KeyOf(c) < KeyOf(e)}
<1>1. \A c \in S : Following(S, c) = IF above(c) = {} THEN Lowest(S) ELSE Lowest(above(c))
  BY DEF Following
<1>2. ASSUME NEW c \in S
      PROVE  /\ Following(S, c) \in S
             /\ above(c) = {} => \A e \in S : KeyOf(e) <= KeyOf(c) /\ KeyOf(Following(S, c)) <= KeyOf(e)
             /\ above(c) # {} => /\ KeyOf(c) < KeyOf(Following(S, c))
                                 /\ \A e \in S : KeyOf(c) < KeyOf(e) => KeyOf(Following(S, c)) <= KeyOf(e)
  <2>1. above(c) \in SUBSET S /\ \A e \in S : KeyOf(e) \in Int
    BY KeysTellCards
  <2>2. CASE above(c) = {}
    <3>1. Following(S, c) = Lowest(S)
      BY <1>1, <2>2
    <3>2. Lowest(S) \in S /\ \A e \in S : KeyOf(Lowest(S)) <= KeyOf(e)
      BY LowestIsLowest
    <3>3. \A e \in S : KeyOf(e) <= KeyOf(c)
      BY <2>1, <2>2
    <3> QED
      BY <2>2, <3>1, <3>2, <3>3
  <2>3. CASE above(c) # {}
    <3>1. Following(S, c) = Lowest(above(c))
      BY <1>1, <2>3
    <3>2. /\ Lowest(above(c)) \in above(c)
          /\ \A e \in above(c) : KeyOf(Lowest(above(c))) <= KeyOf(e)
      <4>1. above(c) \in SUBSET Card
        BY <2>1
      <4> HIDE DEF above
      <4> QED
        BY <2>3, <4>1, LowestIsLowest
    <3>3. PICK l : l = Following(S, c)
      OBVIOUS
    <3>4. l \in above(c) /\ \A e \in above(c) : KeyOf(l) <= KeyOf(e)
      BY <3>1, <3>2, <3>3
    <3>5. l \in S /\ KeyOf(c) < KeyOf(l) /\ \A e \in S : KeyOf(c) < KeyOf(e) => KeyOf(l) <= KeyOf(e)
      BY <3>4
    <3> QED
      BY <2>3, <3>3, <3>5
  <2> QED
    BY <2>2, <2>3
<1>3. ASSUME NEW c \in S, NEW e \in S, Following(S, c) = Following(S, e)
      PROVE  c = e
  <2>1. KeyOf(c) \in Int /\ KeyOf(e) \in Int /\ KeyOf(Following(S, c)) \in Int
    BY <1>2, KeysTellCards
  <2>2. KeyOf(c) = KeyOf(e)
    <3> HIDE DEF above
    <3>1. CASE above(c) = {} /\ above(e) = {}
      BY <1>2, <2>1, <3>1
    <3>2. CASE above(c) = {} /\ above(e) # {}
      BY <1>2, <1>3, <2>1, <3>2
    <3>3. CASE above(c) # {} /\ above(e) = {}
      BY <1>2, <1>3, <2>1, <3>3
    <3>4. CASE above(c) # {} /\ above(e) # {}
      BY <1>2, <1>3, <2>1, <3>4
    <3> QED
      BY <3>1, <3>2, <3>3, <3>4
  <2> QED
    BY <2>2, KeysTellCards
<1>4. \A c \in S : Following(S, c) \in Card
  BY <1>2
<1> QED
  BY <1>3, <1>4 DEF Turns

\* Nobody learns from his view or from the moves he is offered where a card is that he cannot
\* see, be it in a hand, face down, in the deck or discarded (StateProjection.Project).
THEOREM NothingHiddenIsShownEver == Spec => []NothingHiddenIsShown
<1>1. CardsInv => NothingHiddenIsShown
  <2> SUFFICES ASSUME CardsInv, NEW viewer \in Seats
               PROVE  Project(Exchanged(deal, viewer), viewer) = Project(deal, viewer)
    BY DEF NothingHiddenIsShown
  <2>1. deal \in Deal /\ deal.inDeal # {} /\ Conserved(deal)
    BY DEF CardsInv, DealInv, Sound, WellFormed, Kept
  <2> DEFINE hidden == HiddenFrom(deal, viewer)
             turn   == [c \in hidden |-> Following(hidden, c)]
  <2>2. Turns(turn, hidden)
    BY <2>1, HiddenAreCards, CircleTurns
  <2>3. LooksLike(deal, ExchangedBy(deal, viewer, turn), viewer)
    <3> HIDE DEF turn
    <3> QED
      BY <2>1, <2>2, ExchangeIsNotSeen
  <2>4. deal.defender \in Seats /\ NextActive(deal, viewer) \in Seats
    <3>1. deal.defender \in Seats /\ deal.inDeal \in SUBSET Seats
      BY <2>1 DEF Deal
    <3> QED
      BY <2>1, <3>1, NextActiveInDeal
  <2>5. Project(ExchangedBy(deal, viewer, turn), viewer) = Project(deal, viewer)
    <3> HIDE DEF turn
    <3> QED
      BY <2>3, <2>4, SameView
  <2> QED
    BY <2>5 DEF Exchanged
<1> QED
  BY <1>1, CardsInvariant, PTL

-----------------------------------------------------------------------------
(***************************************************************************)
(* The promise.  What the match sees of a deal d is the value PromiseOf(d) *)
(* of the abstract specification: each operator from a deal to a deal is   *)
(* shown to change it as the end of a round may, or not at all.            *)
(***************************************************************************)
\* The stage of the abstract deal: a dice throw of its own, or one with a trump to be named.
StageOf(d) ==
  CASE d.phase = "DEAL_OVER"                     -> "OVER"
    [] d.phase = "DICE" /\ d.pending = None      -> "DICE"
    [] d.phase = "DICE" /\ d.pending # None      -> "SUIT"
    [] OTHER                                     -> "PLAY"

\* The eights of the last attack, and how many they are to the scoring.
EightsIn(d) == {c \in d.lastAttack : c \in Pip /\ c.rank = Eight}

EightsOf(d) ==
  IF d.phase # "DEAL_OVER" \/ EightsIn(d) = {} THEN "NONE"
  ELSE IF Cardinality(EightsIn(d)) = 4 THEN "ALL" ELSE "SOME"

\* What the match sees of the deal.
PromiseOf(d) ==
  [stage |-> StageOf(d), level |-> d.level, jokerHanger |-> d.jokerHanger,
   inDeal |-> d.inDeal, exitPlace |-> d.exitPlace, deck |-> ~DeckEmpty(d),
   eights |-> EightsOf(d)]

\* From d to e nothing changed that the promise speaks of, but perhaps the stage.
SamePromise(d, e) ==
  /\ e.level = d.level /\ e.jokerHanger = d.jokerHanger /\ e.inDeal = d.inDeal
  /\ e.exitPlace = d.exitPlace /\ e.deck = d.deck

\* A deal in which players move, at least two of them.
Plays(d) == /\ Running(d) /\ d.phase \notin {"DEAL_OVER", "DICE"}
            /\ \E s, t \in d.inDeal : s # t

\* The round of d ends, or goes on, with e: nobody has been hung a card.
RoundStep(d, e) == PromiseOf(e) \in Promised!RoundEnds(PromiseOf(d), {})

\* Whoever waits to be hung a card has cards, those of the table he took; and only those have
\* decided whose step it is.
Awaited(d) ==
  d.phase = "HANGING" => /\ d.hand[d.window.victim] # {}
                         /\ d.window.decided \subseteq CurrentStep(d.window)

\* While players move the stage is that of the play.
LEMMA PlayingStage ==
  ASSUME NEW d, d.phase \notin {"DEAL_OVER", "DICE"}
  PROVE  StageOf(d) = "PLAY" /\ EightsOf(d) = "NONE"
BY DEF StageOf, EightsOf

\* A move within a round keeps the promise as it is.
LEMMA SameIsKept ==
  ASSUME NEW d, d.phase \notin {"DEAL_OVER", "DICE"},
         NEW e, e.phase \notin {"DEAL_OVER", "DICE"}, SamePromise(d, e)
  PROVE  /\ PromiseOf(e) = PromiseOf(d)
         /\ RoundStep(d, e)
<1>1. PromiseOf(e) = PromiseOf(d)
  BY PlayingStage DEF PromiseOf, SamePromise, DeckEmpty
<1>2. PromiseOf(d) \in Promised!RoundEnds(PromiseOf(d), {})
  BY DEF Promised!RoundEnds
<1> QED
  BY <1>1, <1>2 DEF RoundStep

\* The abstract specification counts as this one does, and has the same players.
LEMMA SameCounting ==
  /\ Promised!Seats = Seats /\ Promised!NobodySeat = NobodySeat
  /\ \A S : Promised!Cardinality(S) = Cardinality(S)
BY DEF Promised!Seats, Seats, Promised!NobodySeat, NobodySeat,
       Promised!Cardinality, Cardinality

\* Two players are more than one.
LEMMA TwoAreMore ==
  ASSUME NEW S \in SUBSET Seats
  PROVE  (\E s, t \in S : s # t) <=> Cardinality(S) > 1
<1>1. IsFiniteSet(S) /\ Cardinality(S) \in Nat
  BY SeatSubsetFinite
<1>2. ASSUME NEW s \in S, NEW t \in S, s # t  PROVE Cardinality(S) > 1
  <2>1. Cardinality(S) # 0
    BY <1>1, FS_EmptySet
  <2>2. Cardinality(S) # 1
    BY <1>1, <1>2, FS_Singleton
  <2> QED
    BY <1>1, <2>1, <2>2
<1>3. ASSUME Cardinality(S) > 1  PROVE \E s, t \in S : s # t
  <2>1. S # {}
    BY <1>1, <1>3, FS_EmptySet
  <2>2. PICK s \in S : TRUE
    BY <2>1
  <2>3. S # {s}
    BY <1>3, FS_Singleton
  <2> QED
    BY <2>2, <2>3
<1> QED
  BY <1>2, <1>3

\* What the match sees of the end of a round.
LEMMA FinishRoundWrites ==
  ASSUME NEW d, Running(d), NEW taken \in BOOLEAN, NEW chooser \in Seats,
         NEW full, full = Refill(d, chooser),
         NEW f, f = FinishRound(d, taken, chooser)
  PROVE  /\ Sound(full) /\ f.exitPlace \in [Seats -> Nat]
         /\ f.level = d.level /\ f.jokerHanger = d.jokerHanger
         /\ f.inDeal = d.inDeal \ Leavers(full)
         /\ f.deck = full.deck /\ f.pending = full.pending
         /\ \A s \in Seats : f.exitPlace[s] =
              IF s \in Leavers(full)
                THEN Cardinality(Seats \ d.inDeal) + RankIn(full, Leavers(full), s)
                ELSE d.exitPlace[s]
         /\ f.phase = IF Cardinality(f.inDeal) <= 1 THEN "DEAL_OVER"
                      ELSE IF full.pending = None THEN "ATTACK" ELSE "DICE"
<1> DEFINE last   == Len(d.deck)
           toLast == last > 0 /\ DrawnCount(d) = last
           joker  == toLast /\ IsJoker(d.deck[last])
           hand   == [s \in Seats |-> d.hand[s] \cup
                        {d.deck[j] : j \in {i \in ToHand(d) : Drawer(d, i) = s}}]
           deck   == SubSeq(d.deck, DrawnCount(d) + 1, last)
           trump  == IF toLast /\ ~joker THEN d.deck[last].suit ELSE d.trump
           pending == IF joker
                        THEN [card |-> d.deck[last], recipient |-> Drawer(d, last),
                              chooser |-> chooser] ELSE d.pending
<1>1. d \in Deal /\ Sound(d)
  BY DEF Running, Sound, WellFormed
<1>2. PICK left : left = MarkExits(full)
  OBVIOUS
<1>3. Sound(full) /\ full \in Deal /\ full.inDeal = d.inDeal /\ full.exitPlace = d.exitPlace
      /\ full.level = d.level
  BY <1>1, RefillKeeps, RefillWritesRound DEF Running
<1>4. full.jokerHanger = d.jokerHanger
  <2>1. full = [d EXCEPT !.hand = hand, !.deck = deck, !.trump = trump, !.pending = pending]
    BY DEF Refill, JokerDrawn, ToHand
  <2> HIDE DEF hand, deck, trump, pending
  <2> QED
    BY <1>1, <2>1 DEF Deal
<1>5. /\ Sound(left) /\ left \in Deal /\ SameRound(full, left)
      /\ left.inDeal = d.inDeal \ Leavers(full)
      /\ \A s \in Seats : left.exitPlace[s] =
              IF s \in Leavers(full)
                THEN Cardinality(Seats \ d.inDeal) + RankIn(full, Leavers(full), s)
                ELSE d.exitPlace[s]
  <2>1. Sound(left)
    BY <1>2, <1>3, MarkExitsKeeps
  <2>2. /\ left \in Deal /\ SameRound(full, left)
        /\ left.inDeal = full.inDeal \ Leavers(full)
        /\ \A s \in Seats : left.exitPlace[s] =
              IF s \in Leavers(full)
                THEN Cardinality(Seats \ full.inDeal) + RankIn(full, Leavers(full), s)
                ELSE full.exitPlace[s]
    BY <1>2, <1>3, MarkExitsWrites
  <2> QED
    BY <1>3, <2>1, <2>2
<1>6. left.jokerHanger = d.jokerHanger
  <2>1. PICK inDeal, places : left = [full EXCEPT !.inDeal = inDeal, !.exitPlace = places]
    BY <1>2, <1>3 DEF MarkExits, Deal
  <2> QED
    BY <1>3, <1>4, <2>1 DEF Deal
<1>7. left.exitPlace \in [Seats -> Nat]
  BY <1>5 DEF Deal
<1>8. CASE Cardinality(left.inDeal) <= 1
  <2>1. f = [left EXCEPT !.phase = "DEAL_OVER"]
    BY <1>2, <1>8 DEF FinishRound
  <2>2. /\ f.level = left.level /\ f.jokerHanger = left.jokerHanger /\ f.inDeal = left.inDeal
        /\ f.deck = left.deck /\ f.pending = left.pending /\ f.exitPlace = left.exitPlace
        /\ f.phase = "DEAL_OVER"
    BY <1>5, <2>1 DEF Deal
  <2> QED
    BY <1>3, <1>5, <1>6, <1>7, <1>8, <2>2 DEF SameRound
<1>9. CASE ~(Cardinality(left.inDeal) <= 1)
  <2>1. f = StartNextRound(left, taken)
    BY <1>2, <1>9 DEF FinishRound
  <2> DEFINE start == IF taken \/ left.defender \notin left.inDeal
                       THEN NextActive(left, left.defender) ELSE left.defender
             phase == IF left.pending = None THEN "ATTACK" ELSE "DICE"
             next  == NextActive(left, start)
  <2>2. f = [left EXCEPT !.phase = phase, !.starter = start, !.right = start,
                         !.defender = next, !.passed = {}, !.anyBeaten = FALSE]
    BY <2>1 DEF StartNextRound
  <2>3. left \in Deal
    BY <1>5
  <2> HIDE DEF start, next
  <2>4. /\ f.level = left.level /\ f.jokerHanger = left.jokerHanger /\ f.inDeal = left.inDeal
        /\ f.deck = left.deck /\ f.pending = left.pending /\ f.exitPlace = left.exitPlace
        /\ f.phase = phase
    BY <2>2, <2>3 DEF Deal
  <2> QED
    BY <1>3, <1>5, <1>6, <1>7, <1>9, <2>4 DEF SameRound
<1> QED
  BY <1>8, <1>9

\* Who leaves together takes the next free places, in some order.
LEMMA LeavingIsExit ==
  ASSUME NEW d, d.inDeal \in SUBSET Seats,
         NEW full, full.starter \in Seats, NEW L \in SUBSET d.inDeal,
         NEW places \in [Seats -> Nat],
         \A s \in Seats : places[s] =
           IF s \in L THEN Cardinality(Seats \ d.inDeal) + RankIn(full, L, s)
           ELSE d.exitPlace[s]
  PROVE  places \in Promised!Exits(PromiseOf(d), L)
<1> DEFINE k     == Cardinality(Seats \ d.inDeal)
           n     == Cardinality(L)
           place == [s \in L |-> places[s]]
<1>1. k \in Nat /\ n \in Nat /\ k = N - Cardinality(d.inDeal)
  <2>1. /\ IsFiniteSet(d.inDeal) /\ Cardinality(d.inDeal) \in Nat
        /\ k \in Nat /\ n \in Nat
    BY SeatSubsetFinite
  <2>2. /\ IsFiniteSet(Seats) /\ Cardinality(Seats) = N
        /\ IsFiniteSet(Seats \ d.inDeal)
    BY SeatsFinite, SeatSubsetFinite
  <2>3. (Seats \ d.inDeal) \cup d.inDeal = Seats /\ (Seats \ d.inDeal) \cap d.inDeal = {}
    OBVIOUS
  <2>4. Cardinality((Seats \ d.inDeal) \cup d.inDeal) =
          k + Cardinality(d.inDeal) - Cardinality((Seats \ d.inDeal) \cap d.inDeal)
    BY <2>1, <2>2, FS_Union
  <2>5. Cardinality((Seats \ d.inDeal) \cap d.inDeal) = 0
    BY <2>3, FS_EmptySet
  <2>6. N = k + Cardinality(d.inDeal) - 0
    BY <2>2, <2>3, <2>4, <2>5
  <2> HIDE DEF k
  <2> QED
    BY <2>1, <2>6
<1>2. {RankIn(full, L, s) : s \in L} = 1 .. n
  <2>1. L \in SUBSET Seats
    OBVIOUS
  <2> QED
    BY <2>1, RanksAreDistinct
<1>3. \A s \in L : place[s] = k + RankIn(full, L, s) /\ RankIn(full, L, s) \in 1 .. n
  BY <1>2
<1> HIDE DEF k, n
<1>4. place \in [L -> (k + 1) .. (k + n)]
  <2>1. \A s \in L : places[s] \in (k + 1) .. (k + n)
    BY <1>1, <1>3
  <2> QED
    BY <2>1
<1>5. {place[s] : s \in L} = (k + 1) .. (k + n)
  <2> HIDE DEF place
  <2>1. ASSUME NEW i \in (k + 1) .. (k + n)  PROVE \E s \in L : place[s] = i
    <3>1. i - k \in 1 .. n
      BY <1>1
    <3>2. PICK s \in L : RankIn(full, L, s) = i - k
      BY <1>2, <3>1
    <3> QED
      BY <1>1, <1>3, <3>2
  <2> QED
    BY <1>4, <2>1
<1>6. places = [s \in Seats |-> IF s \in L THEN place[s] ELSE d.exitPlace[s]]
  OBVIOUS
<1> HIDE DEF place
<1>7. PICK p : p = PromiseOf(d)
  OBVIOUS
<1>8. p.inDeal = d.inDeal /\ p.exitPlace = d.exitPlace
  BY <1>7 DEF PromiseOf
<1>9. places \in Promised!Exits(p, L)
  <2>1. N - Cardinality(p.inDeal) = k
    <3>1. Cardinality(d.inDeal) \in Nat /\ N \in Nat
      BY SeatSubsetFinite, SeatsFinite
    <3> QED
      BY <1>1, <1>8, <3>1
  <2>2. place \in {x \in [L -> (k + 1) .. (k + n)] : {x[s] : s \in L} = (k + 1) .. (k + n)}
    BY <1>4, <1>5
  <2>3. places = [s \in Seats |-> IF s \in L THEN place[s] ELSE p.exitPlace[s]]
    BY <1>6, <1>8
  <2>4. Promised!Exits(p, L) =
          {[s \in Seats |-> IF s \in L THEN x[s] ELSE p.exitPlace[s]]
           : x \in {y \in [L -> (k + 1) .. (k + n)] :
                    {y[s] : s \in L} = (k + 1) .. (k + n)}}
    BY <2>1, SameCounting DEF Promised!Exits, n
  <2> QED
    BY <2>2, <2>3, <2>4
<1> QED
  BY <1>7, <1>9

\* However a round ends, the match sees one of the ends it was promised; and who holds cards
\* stays.
LEMMA FinishRoundPromise ==
  ASSUME NEW d, Plays(d), NEW stay \in SUBSET Seats, \A s \in stay : d.hand[s] # {},
         NEW taken \in BOOLEAN, NEW chooser \in Seats
  PROVE  /\ PromiseOf(FinishRound(d, taken, chooser)) \in Promised!RoundEnds(PromiseOf(d), stay)
         /\ FinishRound(d, taken, chooser).phase # "HANGING"
<1>1. PICK full : full = Refill(d, chooser)
  OBVIOUS
<1>2. PICK f : f = FinishRound(d, taken, chooser)
  OBVIOUS
<1>3. PICK L : L = Leavers(full)
  OBVIOUS
<1>4. PICK p : p = PromiseOf(d)
  OBVIOUS
<1>5. PICK q : q = PromiseOf(f)
  OBVIOUS
<1>6. /\ Running(d) /\ d \in Deal /\ d.inDeal \in SUBSET Seats /\ d.pending = None
      /\ d.exitPlace \in [Seats -> Nat] /\ Early(d)
  BY DEF Plays, Running, Sound, WellFormed, Deal
<1>7. /\ Sound(full) /\ f.exitPlace \in [Seats -> Nat]
      /\ f.level = d.level /\ f.jokerHanger = d.jokerHanger /\ f.inDeal = d.inDeal \ L
      /\ f.deck = full.deck /\ f.pending = full.pending
      /\ \A s \in Seats : f.exitPlace[s] =
           IF s \in L THEN Cardinality(Seats \ d.inDeal) + RankIn(full, L, s)
           ELSE d.exitPlace[s]
      /\ f.phase = IF Cardinality(f.inDeal) <= 1 THEN "DEAL_OVER"
                   ELSE IF full.pending = None THEN "ATTACK" ELSE "DICE"
  BY <1>1, <1>2, <1>3, <1>6, FinishRoundWrites
<1>8. p = [stage |-> "PLAY", level |-> d.level, jokerHanger |-> d.jokerHanger,
           inDeal |-> d.inDeal, exitPlace |-> d.exitPlace, deck |-> ~DeckEmpty(d),
           eights |-> "NONE"]
  BY <1>4, PlayingStage DEF Plays, PromiseOf
<1>9. q = [stage |-> StageOf(f), level |-> d.level, jokerHanger |-> d.jokerHanger,
           inDeal |-> d.inDeal \ L, exitPlace |-> f.exitPlace, deck |-> ~DeckEmpty(f),
           eights |-> EightsOf(f)]
  BY <1>5, <1>7 DEF PromiseOf
\* The deck: it does not grow, and only its last card may be a joker that waits.
<1>10. /\ full.starter \in Seats /\ full.inDeal = d.inDeal /\ full.faceDown = d.faceDown
       /\ full.deck # << >> => full.pending = None
       /\ d.deck = << >> => full.deck = << >> /\ full.pending = None
       /\ \A s \in Seats : d.hand[s] \subseteq full.hand[s]
  <2>1. full.starter \in Seats /\ (full.deck # << >> => full.pending = None)
    BY <1>7 DEF Sound, WellFormed, Early, Deal
  <2>2. /\ \A s \in Seats : full.hand[s] = d.hand[s] \cup
             {d.deck[j] : j \in {i \in ToHand(d) : Drawer(d, i) = s}}
        /\ full.deck = SubSeq(d.deck, DrawnCount(d) + 1, Len(d.deck))
        /\ ~JokerDrawn(d) => full.pending = d.pending
        /\ full.faceDown = d.faceDown
    BY <1>1, <1>6, RefillWrites DEF Running, Sound
  <2>3. full.inDeal = d.inDeal
    BY <1>1, <1>6, RefillWritesRound DEF Running
  <2>4. d.deck = << >> => full.deck = << >> /\ full.pending = None
    <3> SUFFICES ASSUME d.deck = << >>  PROVE full.deck = << >> /\ full.pending = None
      OBVIOUS
    <3>1. Len(d.deck) = 0 /\ DrawnCount(d) \in 0 .. Len(d.deck)
      BY <1>6, AsksCounted
    <3>2. DrawnCount(d) = 0 /\ ~JokerDrawn(d)
      BY <3>1 DEF JokerDrawn
    <3>3. full.deck = SubSeq(<< >>, 1, 0)
      BY <2>2, <3>1, <3>2
    <3> QED
      BY <1>6, <2>2, <3>2, <3>3
  <2> QED
    BY <2>1, <2>2, <2>3, <2>4
<1>11. L \in SUBSET d.inDeal /\ d.inDeal \ L # {} /\ L \cap stay = {}
       /\ (L # {} => full.deck = << >>)
       /\ ((\A s \in Seats : full.faceDown[s] # None) => L = {})
  <2>1. d.inDeal \ L # {} /\ ((\A s \in Seats : full.faceDown[s] # None) => L = {})
    BY <1>3, <1>7, <1>10, LeaversStay DEF Sound
  <2>2. \A s \in L : s \in full.inDeal /\ HasNothingLeft(full, s)
    BY <1>3 DEF Leavers
  <2> QED
    BY <1>6, <1>10, <2>1, <2>2 DEF HasNothingLeft, DeckEmpty
<1>12. CASE L = {}
  <2>1. f.inDeal = d.inDeal /\ f.exitPlace = d.exitPlace
    BY <1>6, <1>7, <1>12
  <2>2. Cardinality(f.inDeal) > 1 /\ Cardinality(f.inDeal) \in Nat
    BY <1>6, <2>1, TwoAreMore, SeatSubsetFinite DEF Plays
  <2>3. f.phase = IF full.pending = None THEN "ATTACK" ELSE "DICE"
    BY <1>7, <2>2
  <2>4. /\ EightsOf(f) = "NONE" /\ f.phase # "HANGING"
        /\ StageOf(f) = IF full.pending = None THEN "PLAY" ELSE "SUIT"
    BY <1>7, <2>3 DEF EightsOf, StageOf
  <2>5. CASE d.deck = << >> \/ full.deck # << >>
    <3>1. q = p
      BY <1>7, <1>8, <1>9, <1>10, <1>12, <2>1, <2>4, <2>5 DEF DeckEmpty
    <3> QED
      BY <1>2, <1>4, <1>5, <2>4, <3>1 DEF Promised!RoundEnds
  <2>6. CASE d.deck # << >> /\ full.deck = << >>
    <3>1. PICK stage \in {"PLAY", "SUIT"} : stage = StageOf(f)
      BY <2>4
    <3>2. q = [p EXCEPT !.deck = FALSE, !.stage = stage]
      <4>1. q = [stage |-> stage, level |-> d.level, jokerHanger |-> d.jokerHanger,
                 inDeal |-> d.inDeal, exitPlace |-> d.exitPlace, deck |-> FALSE,
                 eights |-> "NONE"]
        <5>1. d.inDeal \ L = d.inDeal /\ DeckEmpty(f)
          BY <1>7, <1>12, <2>6 DEF DeckEmpty
        <5> QED
          BY <1>9, <2>1, <2>4, <3>1, <5>1
      <4>2. PICK r : r = [p EXCEPT !.deck = FALSE, !.stage = stage]
        OBVIOUS
      <4>3. r = [stage |-> stage, level |-> d.level, jokerHanger |-> d.jokerHanger,
                 inDeal |-> d.inDeal, exitPlace |-> d.exitPlace, deck |-> FALSE,
                 eights |-> "NONE"]
        BY <1>8, <4>2
      <4> QED
        BY <4>1, <4>2, <4>3
    <3>3. p.deck
      BY <1>8, <2>6 DEF DeckEmpty
    <3>4. q \in Promised!RunsOut(p)
      BY <3>2, <3>3 DEF Promised!RunsOut
    <3> QED
      BY <1>2, <1>4, <1>5, <2>4, <3>4 DEF Promised!RoundEnds
  <2> QED
    BY <2>5, <2>6
<1>13. CASE L # {}
  <2>1. d.deck = << >> /\ full.deck = << >> /\ full.pending = None
    BY <1>6, <1>10, <1>11, <1>13 DEF Early
  <2>2. f.exitPlace \in Promised!Exits(p, L)
    BY <1>4, <1>6, <1>7, <1>10, <1>11, LeavingIsExit
  <2>3. PICK g : g = [p EXCEPT !.inDeal = @ \ L, !.exitPlace = f.exitPlace]
    OBVIOUS
  <2>4. g \in Promised!Gone(p, L)
    BY <2>2, <2>3 DEF Promised!Gone
  <2>5. /\ g = [stage |-> "PLAY", level |-> d.level, jokerHanger |-> d.jokerHanger,
                inDeal |-> d.inDeal \ L, exitPlace |-> f.exitPlace, deck |-> FALSE,
                eights |-> "NONE"]
        /\ p.inDeal = d.inDeal /\ ~p.deck
    BY <1>8, <2>1, <2>3 DEF DeckEmpty
  <2>6. Cardinality(d.inDeal \ L) \in Nat
    BY <1>6, SeatSubsetFinite
  <2>10. q = [stage |-> StageOf(f), level |-> d.level, jokerHanger |-> d.jokerHanger,
              inDeal |-> d.inDeal \ L, exitPlace |-> f.exitPlace, deck |-> FALSE,
              eights |-> EightsOf(f)]
    <3>1. DeckEmpty(f)
      BY <1>7, <2>1 DEF DeckEmpty
    <3> QED
      BY <1>9, <3>1
  <2>11. p.inDeal \ L = d.inDeal \ L
    BY <2>5
  <2>7. q \in Promised!Left(p, L) /\ f.phase # "HANGING"
    <3>1. CASE Cardinality(d.inDeal \ L) > 1
      <4>1. f.phase = "ATTACK"
        BY <1>7, <2>1, <2>6, <3>1
      <4>2. q = g
        BY <2>5, <2>10, <4>1, PlayingStage
      <4>3. Promised!Left(p, L) = Promised!Gone(p, L)
        BY <2>11, <3>1, SameCounting DEF Promised!Left
      <4> QED
        BY <2>4, <4>1, <4>2, <4>3
    <3>2. CASE ~(Cardinality(d.inDeal \ L) > 1)
      <4>1. f.phase = "DEAL_OVER"
        BY <1>7, <2>6, <3>2
      <4>2. StageOf(f) = "OVER" /\ EightsOf(f) \in {"NONE", "SOME", "ALL"}
        BY <4>1 DEF StageOf, EightsOf
      <4>3. q = [g EXCEPT !.stage = "OVER", !.eights = EightsOf(f)]
        <5>1. PICK r : r = [g EXCEPT !.stage = "OVER", !.eights = EightsOf(f)]
          OBVIOUS
        <5>2. r = [stage |-> "OVER", level |-> d.level, jokerHanger |-> d.jokerHanger,
                   inDeal |-> d.inDeal \ L, exitPlace |-> f.exitPlace, deck |-> FALSE,
                   eights |-> EightsOf(f)]
          BY <2>5, <5>1
        <5> QED
          BY <2>10, <4>2, <5>1, <5>2
      <4>4. q \in Promised!Over(g)
        BY <4>2, <4>3 DEF Promised!Over, Promised!EightsSeen
      <4>5. Promised!Left(p, L) = UNION {Promised!Over(o) : o \in Promised!Gone(p, L)}
        BY <2>11, <3>2, SameCounting DEF Promised!Left
      <4> QED
        BY <2>4, <4>1, <4>4, <4>5
    <3> QED
      BY <3>1, <3>2
  <2>8. L \in SUBSET (p.inDeal \ stay) /\ L # p.inDeal
    BY <1>11, <2>5
  <2>9. q \in Promised!Leaving(p, stay)
    BY <1>13, <2>5, <2>7, <2>8 DEF Promised!Leaving
  <2> QED
    BY <1>2, <1>4, <1>5, <2>7, <2>9 DEF Promised!RoundEnds
<1> QED
  BY <1>12, <1>13

-----------------------------------------------------------------------------
\* The moves of a round.

\* After d comes e as promised, and whoever is then waited for is there.
Follows(d, e) == RoundStep(d, e) /\ Awaited(e)

\* A card laid, a pass or a taken table leaves a deal in which players move.
LEMMA StillPlays ==
  ASSUME NEW d, Plays(d), NEW e, Running(e), SamePromise(d, e),
         e.phase \notin {"DEAL_OVER", "DICE"}
  PROVE  Plays(e) /\ PromiseOf(e) = PromiseOf(d)
<1>1. Plays(e)
  BY DEF Plays, SamePromise
<1> QED
  BY <1>1, SameIsKept DEF Plays

\* What follows such a deal follows the one before it.
LEMMA FollowsThrough ==
  ASSUME NEW d, Plays(d), NEW e, Running(e), SamePromise(d, e),
         e.phase \notin {"DEAL_OVER", "DICE"}, NEW r, Follows(e, r)
  PROVE  Follows(d, r)
BY StillPlays DEF Follows, RoundStep

\* In a round it follows itself.
LEMMA RoundFollows ==
  ASSUME NEW d, Plays(d), NEW e, SamePromise(d, e), InRound(e)
  PROVE  Follows(d, e)
BY SameIsKept DEF Plays, InRound, Follows, Awaited

\* The end of a round in which nobody was hung a card.
LEMMA FinishRoundFollows ==
  ASSUME NEW d, Plays(d), NEW taken \in BOOLEAN, NEW chooser \in Seats
  PROVE  Follows(d, FinishRound(d, taken, chooser))
BY FinishRoundPromise DEF Follows, RoundStep, Awaited

\* Clearing the table tells the match nothing.
LEMMA ClearTableFollows ==
  ASSUME NEW d, Plays(d), NEW discarded \in BOOLEAN, NEW e, e = ClearTable(d, discarded)
  PROVE  /\ Running(e) /\ Plays(e) /\ SamePromise(d, e) /\ e.phase = d.phase
         /\ e.hand = d.hand /\ e.defender = d.defender
<1> DEFINE discard == IF discarded THEN d.discard \cup TableCards(d) ELSE d.discard
           anyDiscarded == d.anyDiscarded \/ discarded
           attack  == AttackCards(d)
<1>1. d \in Deal /\ Running(d)
  BY DEF Plays, Running, Sound, WellFormed
<1>2. e = [d EXCEPT !.lastAttack = attack, !.table = {},
                    !.anyDiscarded = anyDiscarded, !.discard = discard]
  BY <1>1 DEF ClearTable, Deal
<1>3. /\ SamePromise(d, e) /\ e.phase = d.phase /\ e.hand = d.hand
      /\ e.defender = d.defender
  <2> HIDE DEF attack, discard, anyDiscarded
  <2> QED
    BY <1>1, <1>2 DEF Deal, SamePromise
<1>4. Running(e)
  BY <1>1, ClearTableKeeps
<1> QED
  BY <1>3, <1>4, StillPlays DEF Plays

\* The round is beaten.
LEMMA RoundBeatenFollows ==
  ASSUME NEW d, Plays(d), NEW chooser \in Seats
  PROVE  Follows(d, RoundBeaten(d, chooser))
<1>1. PICK e : e = ClearTable(d, TRUE)
  OBVIOUS
<1>2. Running(e) /\ Plays(e) /\ SamePromise(d, e) /\ e.phase = d.phase
  BY <1>1, ClearTableFollows
<1>3. RoundBeaten(d, chooser) = FinishRound(e, FALSE, chooser)
  BY <1>1 DEF RoundBeaten
<1>4. Follows(e, FinishRound(e, FALSE, chooser))
  BY <1>2, FinishRoundFollows
<1> QED
  BY <1>2, <1>3, <1>4, FollowsThrough DEF Plays

\* The table is taken up: the round ends, or he who took it, and so holds cards, is waited for.
LEMMA CollectTableFollows ==
  ASSUME NEW d, Plays(d), d.table # {}, NEW chooser \in Seats
  PROVE  Follows(d, CollectTable(d, chooser))
<1> DEFINE hand == [d.hand EXCEPT ![d.defender] = @ \cup TableCards(d)]
<1>1. d \in Deal /\ Running(d) /\ hand \in [Seats -> SUBSET Card] /\ d.defender \in Seats
      /\ hand[d.defender] # {}
  <2>1. d \in Deal /\ Running(d)
    BY DEF Plays, Running, Sound, WellFormed
  <2>2. TableCards(d) \in SUBSET Card /\ d.hand \in [Seats -> SUBSET Card]
        /\ d.defender \in Seats
    BY <2>1, TableIsCards DEF Deal
  <2>3. TableCards(d) # {}
    BY DEF TableCards, AttackCards
  <2> QED
    BY <2>1, <2>2, <2>3
<1>2. PICK t : t = [d EXCEPT !.hand = hand]
  OBVIOUS
<1>3. /\ Running(t) /\ SamePromise(d, t) /\ t.phase = d.phase /\ t.hand = hand
      /\ t.defender = d.defender
  <2> HIDE DEF hand
  <2>1. Running(t)
    BY <1>1, <1>2, HandKeeps
  <2> QED
    BY <1>1, <1>2, <2>1 DEF Deal, SamePromise
<1>4. Plays(t)
  BY <1>3, StillPlays DEF Plays
<1>5. PICK e : e = ClearTable(t, FALSE)
  OBVIOUS
<1>6. /\ Running(e) /\ Plays(e) /\ SamePromise(t, e) /\ e.phase = d.phase
      /\ e.hand = hand /\ e.defender = d.defender
  BY <1>3, <1>4, <1>5, ClearTableFollows
<1>7. SamePromise(d, e) /\ e \in Deal
  BY <1>3, <1>6 DEF SamePromise, Running, Sound, WellFormed
<1>8. CollectTable(d, chooser) = OpenHangingWindow(e, chooser)
  BY <1>2, <1>5 DEF CollectTable
<1>9. PICK r : r = OpenHangingWindow(e, chooser)
  OBVIOUS
<1>10. PICK window : window = [victim    |-> e.defender,
                               steps     |-> HangingSteps(e, e.defender),
                               stepIndex |-> 1,
                               claims    |-> {},
                               decided   |-> {},
                               everyone  |-> IsEveryClaimantHanging(e, e.defender)]
  OBVIOUS
<1>11. \/ r = FinishRound(e, TRUE, chooser)
       \/ r = [e EXCEPT !.phase = "HANGING", !.window = window]
  BY <1>9, <1>10 DEF OpenHangingWindow
<1> HIDE DEF hand
<1>12. CASE r = FinishRound(e, TRUE, chooser)
  <2>1. Follows(e, r)
    BY <1>6, <1>12, FinishRoundFollows
  <2> QED
    BY <1>6, <1>7, <1>8, <1>9, <2>1, FollowsThrough DEF Plays
<1>13. CASE r = [e EXCEPT !.phase = "HANGING", !.window = window]
  <2>1. /\ r.phase = "HANGING" /\ r.window = window /\ SamePromise(e, r)
        /\ r.hand = hand
    BY <1>6, <1>7, <1>13 DEF Deal, SamePromise
  <2>2. window.victim = d.defender /\ window.decided = {}
    BY <1>6, <1>10
  <2>3. Awaited(r)
    BY <1>1, <2>1, <2>2 DEF Awaited
  <2>4. SamePromise(d, r)
    BY <1>7, <2>1 DEF SamePromise
  <2>5. RoundStep(d, r)
    BY <2>1, <2>4, SameIsKept DEF Plays
  <2> QED
    BY <1>8, <1>9, <2>3, <2>5 DEF Follows
<1> QED
  BY <1>11, <1>12, <1>13


\* A pass.
LEMMA PassedFollows ==
  ASSUME NEW d, Plays(d), InRound(d), d.table # {}, NEW s \in Seats, NEW chooser \in Seats
  PROVE  Follows(d, Passed(d, s, chooser))
<1>1. PICK after : after = [d EXCEPT !.passed = @ \cup {s}]
  OBVIOUS
<1>2. PICK next : next = NextAttacker(after)
  OBVIOUS
<1>3. d \in Deal /\ Running(d)
  BY DEF Plays, Running, Sound, WellFormed
<1>4. /\ after \in Deal /\ SameFrame(d, after) /\ SamePromise(d, after)
      /\ after.phase = d.phase /\ after.table = d.table
  <2>1. d.passed \cup {s} \in SUBSET Seats
    BY <1>3 DEF Deal
  <2> QED
    BY <1>1, <1>3, <2>1 DEF Deal, SameFrame, SamePromise
<1>5. Running(after) /\ Plays(after)
  <2>1. Running(after)
    BY <1>3, <1>4, FrameKeeps
  <2> QED
    BY <1>4, <2>1, StillPlays DEF Plays
<1>6. \/ /\ next # None
         /\ \E phase \in {"ATTACK", "DEFEND", "TAKING"} :
              Passed(d, s, chooser) = [after EXCEPT !.right = next, !.phase = phase]
      \/ Passed(d, s, chooser) = CollectTable(after, chooser)
      \/ Passed(d, s, chooser) = [after EXCEPT !.phase = "DEFEND"]
      \/ Passed(d, s, chooser) = RoundBeaten(after, chooser)
  BY <1>1, <1>2, <1>4 DEF Passed
<1>7. ASSUME NEW phase \in {"ATTACK", "DEFEND", "TAKING"},
             Passed(d, s, chooser) = [after EXCEPT !.right = next, !.phase = phase]
      PROVE  Follows(d, Passed(d, s, chooser))
  <2>1. PICK r : r = [after EXCEPT !.right = next, !.phase = phase]
    OBVIOUS
  <2>2. SamePromise(after, r) /\ r.phase = phase
    BY <1>4, <2>1 DEF Deal, SamePromise
  <2>3. SamePromise(d, r) /\ InRound(r)
    BY <1>4, <2>2 DEF SamePromise, InRound
  <2> QED
    BY <1>7, <2>1, <2>3, RoundFollows
<1>8. CASE Passed(d, s, chooser) = [after EXCEPT !.phase = "DEFEND"]
  <2>1. PICK r : r = [after EXCEPT !.phase = "DEFEND"]
    OBVIOUS
  <2>2. SamePromise(after, r) /\ r.phase = "DEFEND"
    BY <1>4, <2>1 DEF Deal, SamePromise
  <2>3. SamePromise(d, r) /\ InRound(r)
    BY <1>4, <2>2 DEF SamePromise, InRound
  <2> QED
    BY <1>8, <2>1, <2>3, RoundFollows
<1>9. Follows(after, CollectTable(after, chooser)) /\ Follows(after, RoundBeaten(after, chooser))
  BY <1>4, <1>5, CollectTableFollows, RoundBeatenFollows
<1>10. \A r : Follows(after, r) => Follows(d, r)
  BY <1>4, <1>5, FollowsThrough DEF Plays
<1> QED
  BY <1>6, <1>7, <1>8, <1>9, <1>10

\* A card laid in attack.
LEMMA AttackedFollows ==
  ASSUME NEW d, Plays(d), InRound(d), NEW s \in Seats, NEW c \in d.hand[s],
         NEW chooser \in Seats
  PROVE  Follows(d, Attacked(d, s, c, chooser))
<1> DEFINE hand  == [d.hand EXCEPT ![s] = @ \ {c}]
           table == d.table \cup {NewSlot(c, s)}
           phase == IF d.phase = "TAKING" THEN "TAKING" ELSE "DEFEND"
<1>1. d \in Deal /\ Running(d) /\ d.hand \in [Seats -> SUBSET Card] /\ c \in Card
  BY DEF Plays, Running, Sound, WellFormed, Deal
<1>2. hand \in [Seats -> SUBSET Card] /\ table \in SUBSET Slot /\ phase \in Phases
  BY <1>1, NewSlotType DEF Deal, Phases
<1>3. PICK laid : laid = [d EXCEPT !.hand = hand, !.table = table, !.phase = phase]
  OBVIOUS
<1>4. /\ laid \in Deal /\ SameFrame(d, laid) /\ SamePromise(d, laid)
      /\ laid.table = table /\ laid.phase = phase
  <2> HIDE DEF hand, table, phase
  <2> QED
    BY <1>1, <1>2, <1>3 DEF Deal, SameFrame, SamePromise
<1>5. \/ Attacked(d, s, c, chooser) = Passed(laid, s, chooser)
      \/ Attacked(d, s, c, chooser) = laid
  BY <1>3 DEF Attacked
<1>6. InRound(laid) /\ laid.phase \notin {"DEAL_OVER", "DICE"} /\ laid.table # {}
  BY <1>4 DEF InRound
<1>7. Running(laid) /\ Plays(laid)
  <2>1. Running(laid)
    BY <1>1, <1>4, FrameKeeps
  <2> QED
    BY <1>4, <1>6, <2>1, StillPlays
<1>8. Follows(d, laid)
  BY <1>4, <1>6, RoundFollows
<1>9. Follows(laid, Passed(laid, s, chooser))
  BY <1>6, <1>7, PassedFollows
<1> QED
  BY <1>4, <1>5, <1>6, <1>7, <1>8, <1>9, FollowsThrough

\* A card laid in defence.
LEMMA DefendedFollows ==
  ASSUME NEW d, Plays(d), InRound(d), NEW s \in Seats, NEW c \in d.hand[s], NEW target,
         NEW chooser \in Seats
  PROVE  Follows(d, Defended(d, s, c, target, chooser))
<1> DEFINE hand  == [d.hand EXCEPT ![s] = @ \ {c}]
           table == BeatenTable(d, s, c, target)
<1>1. /\ d \in Deal /\ Running(d) /\ d.hand \in [Seats -> SUBSET Card] /\ c \in Card
      /\ d.table \in SUBSET Slot
  BY DEF Plays, Running, Sound, WellFormed, Deal
<1>2. hand \in [Seats -> SUBSET Card] /\ table \in SUBSET Slot
  <2>1. \A slot \in Slot : [slot EXCEPT !.defence = c, !.defenceBy = s] \in Slot
    BY <1>1 DEF Slot
  <2> QED
    BY <1>1, <2>1 DEF BeatenTable
<1>3. PICK after : after = [d EXCEPT !.hand = hand, !.table = table, !.anyBeaten = TRUE]
  OBVIOUS
<1>4. PICK open : open = [after EXCEPT !.phase = "ATTACK"]
  OBVIOUS
<1>5. \/ Defended(d, s, c, target, chooser) = [after EXCEPT !.phase = "DEFEND"]
      \/ Defended(d, s, c, target, chooser) = [open EXCEPT !.right = NextAttacker(open)]
      \/ Defended(d, s, c, target, chooser) = RoundBeaten(open, chooser)
  BY <1>3, <1>4 DEF Defended, BeatenTable
<1>6. after \in Deal /\ SameFrame(d, after) /\ SamePromise(d, after)
  <2> HIDE DEF hand, table
  <2> QED
    BY <1>1, <1>2, <1>3 DEF Deal, SameFrame, SamePromise
<1> HIDE DEF hand, table
<1>7. /\ open \in Deal /\ SameFrame(d, open) /\ SamePromise(d, open)
      /\ open.phase = "ATTACK"
  BY <1>4, <1>6 DEF Deal, SameFrame, SamePromise, Phases
<1>8. CASE Defended(d, s, c, target, chooser) = [after EXCEPT !.phase = "DEFEND"]
  <2>1. PICK r : r = [after EXCEPT !.phase = "DEFEND"]
    OBVIOUS
  <2>2. SamePromise(d, r) /\ InRound(r)
    BY <1>6, <2>1 DEF Deal, SamePromise, InRound
  <2> QED
    BY <1>8, <2>1, <2>2, RoundFollows
<1>9. CASE Defended(d, s, c, target, chooser) = [open EXCEPT !.right = NextAttacker(open)]
  <2>1. PICK next : next = NextAttacker(open)
    OBVIOUS
  <2>2. PICK r : r = [open EXCEPT !.right = next]
    OBVIOUS
  <2>3. SamePromise(d, r) /\ InRound(r)
    BY <1>7, <2>2 DEF Deal, SamePromise, InRound
  <2> QED
    BY <1>9, <2>1, <2>2, <2>3, RoundFollows
<1>10. CASE Defended(d, s, c, target, chooser) = RoundBeaten(open, chooser)
  <2>1. Running(open) /\ Plays(open)
    <3>1. Running(open)
      BY <1>1, <1>7, FrameKeeps
    <3> QED
      BY <1>7, <3>1, StillPlays
  <2>2. Follows(open, RoundBeaten(open, chooser))
    BY <2>1, RoundBeatenFollows
  <2> QED
    BY <1>7, <1>10, <2>1, <2>2, FollowsThrough
<1> QED
  BY <1>5, <1>8, <1>9, <1>10

\* A transfer.
LEMMA TransferredFollows ==
  ASSUME NEW d, Plays(d), NEW s \in Seats, NEW c
  PROVE  Follows(d, Transferred(d, s, c))
<1> DEFINE hand  == [d.hand EXCEPT ![s] = @ \ {c}]
           table == d.table \cup {NewSlot(c, s)}
           n     == NextActive(d, s)
<1>1. d \in Deal
  BY DEF Plays, Running, Sound, WellFormed
<1>2. PICK r : r = [d EXCEPT !.hand = hand, !.table = table, !.starter = s, !.right = s,
                             !.defender = n, !.passed = {}, !.phase = "DEFEND"]
  OBVIOUS
<1>3. Transferred(d, s, c) = r
  BY <1>2 DEF Transferred
<1>4. SamePromise(d, r) /\ InRound(r)
  <2> HIDE DEF hand, table, n
  <2> QED
    BY <1>1, <1>2 DEF Deal, SamePromise, InRound
<1> QED
  BY <1>3, <1>4, RoundFollows

\* A taken table.
LEMMA TakenFollows ==
  ASSUME NEW d, Plays(d), d.table # {}, NEW chooser \in Seats
  PROVE  Follows(d, Taken(d, chooser))
<1>1. PICK t : t = [d EXCEPT !.phase = "TAKING"]
  OBVIOUS
<1>2. d \in Deal /\ Running(d)
  BY DEF Plays, Running, Sound, WellFormed
<1>3. /\ t \in Deal /\ SameFrame(d, t) /\ SamePromise(d, t) /\ t.phase = "TAKING"
      /\ t.table = d.table
  BY <1>1, <1>2 DEF Deal, SameFrame, SamePromise, Phases
<1>4. Running(t) /\ Plays(t)
  <2>1. Running(t)
    BY <1>2, <1>3, FrameKeeps
  <2> QED
    BY <1>3, <2>1, StillPlays
<1>5. Taken(d, chooser) = t \/ Taken(d, chooser) = CollectTable(t, chooser)
  BY <1>1 DEF Taken
<1>6. Follows(d, t)
  BY <1>3, RoundFollows DEF InRound
<1>7. Follows(t, CollectTable(t, chooser))
  BY <1>3, <1>4, CollectTableFollows
<1> QED
  BY <1>3, <1>4, <1>5, <1>6, <1>7, FollowsThrough

-----------------------------------------------------------------------------
\* The window.

\* Whoever leaves the hands alone, or only fills them, leaves the one who waits waiting.
LEMMA StillAwaited ==
  ASSUME NEW d, Awaited(d), NEW e, e.phase = d.phase, e.window = d.window,
         d.phase = "HANGING" => d.hand[d.window.victim] \subseteq e.hand[d.window.victim]
  PROVE  Awaited(e)
BY DEF Awaited

\* The face-down card turned up.
LEMMA RevealedFollows ==
  ASSUME NEW d, Plays(d), Awaited(d), NEW s \in Seats, CanPlayFaceDown(d, s)
  PROVE  /\ Follows(d, Revealed(d, s))
         /\ Running(Revealed(d, s)) /\ SamePromise(d, Revealed(d, s))
         /\ Revealed(d, s).phase = d.phase
<1> DEFINE hand     == [d.hand EXCEPT ![s] = @ \cup {d.faceDown[s]}]
           faceDown == [d.faceDown EXCEPT ![s] = None]
<1>1. d \in Deal /\ Running(d) /\ d.hand \in [Seats -> SUBSET Card]
      /\ d.window \in Window \cup {None}
  BY DEF Plays, Running, Sound, WellFormed, Deal
<1>2. PICK r : r = Revealed(d, s)
  OBVIOUS
<1>3. r = [d EXCEPT !.hand = hand, !.faceDown = faceDown]
  BY <1>2 DEF Revealed
<1>4. Running(r)
  BY <1>1, <1>2, RevealedKeeps
<1>5. /\ r.hand = hand /\ SamePromise(d, r) /\ r.phase = d.phase /\ r.window = d.window
  <2> HIDE DEF hand, faceDown
  <2> QED
    BY <1>1, <1>3 DEF Deal, SamePromise
<1>6. \A u : d.hand[u] \subseteq hand[u]
  BY <1>1
<1>7. Awaited(r)
  <2> HIDE DEF hand
  <2> QED
    BY <1>5, <1>6, StillAwaited
<1>8. RoundStep(d, r)
  BY <1>5, SameIsKept DEF Plays
<1> QED
  BY <1>2, <1>4, <1>5, <1>7, <1>8 DEF Follows

\* The abstract specification has the same scale.
LEMMA SameScale ==
  /\ \A level : Promised!NextIsJoker(level) = NextIsJoker(level)
  /\ \A level : Promised!IsFinished(level) = IsFinished(level)
BY DEF Promised!NextIsJoker, NextIsJoker, Promised!IsFinished, IsFinished,
       Promised!JokerLevel, JokerLevel

\* A card of a rank is not a joker.
LEMMA PipsAreNoJokers ==
  ASSUME NEW c \in Pip
  PROVE  ~IsJoker(c)
<1> SUFFICES ASSUME c \in Joker  PROVE FALSE
  BY DEF IsJoker
<1>1. "joker" \in DOMAIN c
  BY DEF Joker
<1>2. DOMAIN c = {"rank", "suit"}
  BY DEF Pip
<1> QED
  BY <1>1, <1>2

\* What the match sees of a card hung on the victim: the next step of his scale, by one of those
\* whose cards fly.
LEMMA HungByPromise ==
  ASSUME NEW d, Deciding(d), NEW claims \in SUBSET d.window.claims, claims # {}
  PROVE  \E cl \in claims :
           PromiseOf(HungBy(d, claims)) =
             Promised!HungOn(PromiseOf(d), d.window.victim, cl.seat)
<1> DEFINE v      == d.window.victim
           jokers == {cl \in claims : IsJoker(cl.card)}
           hand   == [s \in Seats |->
                        d.hand[s] \ {cl.card : cl \in {x \in claims : x.seat = s}}]
           hung   == [d.hung EXCEPT ![v] = @ \cup {cl.card : cl \in claims}]
           level  == [d.level EXCEPT ![v] = @ + 1]
           by     == IF jokers = {} THEN d.jokerHanger[v]
                     ELSE (CHOOSE cl \in jokers : TRUE).seat
           hanger == [d.jokerHanger EXCEPT ![v] = by]
<1>1. /\ d \in Deal /\ d.phase = "HANGING" /\ v \in Seats
      /\ d.level \in [Seats -> Int] /\ d.jokerHanger \in [Seats -> Seats \cup {NobodySeat}]
      /\ \A cl \in claims : IsFlyingCard(d.level[v], cl.card)
  BY DEF Deciding, Going, Running, Sound, WellFormed, WindowOpen, Window, Deal
<1>2. PICK r : r = HungBy(d, claims)
  OBVIOUS
<1>3. r = [d EXCEPT !.hand = hand, !.hung = hung, !.level = level, !.jokerHanger = hanger]
  BY <1>1, <1>2 DEF HungBy, Deal
<1>4. /\ r.level = level /\ r.jokerHanger = hanger /\ r.inDeal = d.inDeal
      /\ r.exitPlace = d.exitPlace /\ r.deck = d.deck /\ r.phase = "HANGING"
  <2> HIDE DEF hand, hung, level, hanger
  <2> QED
    BY <1>1, <1>3 DEF Deal
<1>5. PICK p : p = PromiseOf(d)
  OBVIOUS
<1>6. /\ p = [stage |-> "PLAY", level |-> d.level, jokerHanger |-> d.jokerHanger,
              inDeal |-> d.inDeal, exitPlace |-> d.exitPlace, deck |-> ~DeckEmpty(d),
              eights |-> "NONE"]
      /\ PromiseOf(r) = [stage |-> "PLAY", level |-> level, jokerHanger |-> hanger,
                         inDeal |-> d.inDeal, exitPlace |-> d.exitPlace,
                         deck |-> ~DeckEmpty(d), eights |-> "NONE"]
  <2>1. d.phase \notin {"DEAL_OVER", "DICE"} /\ r.phase \notin {"DEAL_OVER", "DICE"}
    BY <1>1, <1>4
  <2>2. DeckEmpty(r) = DeckEmpty(d)
    BY <1>4 DEF DeckEmpty
  <2> HIDE DEF level, hanger
  <2> QED
    BY <1>4, <1>5, <2>1, <2>2, PlayingStage DEF PromiseOf
\* The joker is the step after the last rank: all that fly are jokers, or none is.
<1>7. \E cl \in claims :
        hanger = [d.jokerHanger EXCEPT ![v] = IF NextIsJoker(d.level[v]) THEN cl.seat ELSE @]
  <2>1. CASE NextIsJoker(d.level[v])
    <3>1. jokers = claims
      BY <1>1, <2>1 DEF IsFlyingCard
    <3>2. (CHOOSE cl \in jokers : TRUE) \in claims
      BY <3>1
    <3>3. by = (CHOOSE cl \in jokers : TRUE).seat
      BY <3>1
    <3>4. PICK cl \in claims : by = cl.seat
      BY <3>2, <3>3
    <3> HIDE DEF by
    <3> QED
      BY <2>1, <3>4
  <2>2. CASE ~NextIsJoker(d.level[v])
    <3>1. \A cl \in claims : cl.card \in Pip
      BY <1>1, <2>2 DEF IsFlyingCard
    <3>2. \A c \in Pip : ~IsJoker(c)
      BY PipsAreNoJokers
    <3>3. jokers = {}
      BY <3>1, <3>2
    <3>4. by = d.jokerHanger[v]
      BY <3>3
    <3>5. PICK cl \in claims : TRUE
      OBVIOUS
    <3> HIDE DEF by
    <3> QED
      BY <2>2, <3>4, <3>5
  <2> QED
    BY <2>1, <2>2
<1>8. PICK cl \in claims :
        hanger = [d.jokerHanger EXCEPT ![v] = IF NextIsJoker(d.level[v]) THEN cl.seat ELSE @]
  BY <1>7
<1>9. PICK h : h = Promised!HungOn(p, v, cl.seat)
  OBVIOUS
<1>10. h = [p EXCEPT !.level = level, !.jokerHanger = hanger]
  <2>1. h = [p EXCEPT !.level = [p.level EXCEPT ![v] = @ + 1],
                      !.jokerHanger = [p.jokerHanger EXCEPT ![v] =
                         IF NextIsJoker(p.level[v]) THEN cl.seat ELSE @]]
    BY <1>9, SameScale DEF Promised!HungOn
  <2>2. p.level = d.level /\ p.jokerHanger = d.jokerHanger
    BY <1>6
  <2> HIDE DEF hanger, by
  <2> QED
    BY <1>8, <2>1, <2>2
<1>11. h = [stage |-> "PLAY", level |-> level, jokerHanger |-> hanger,
            inDeal |-> d.inDeal, exitPlace |-> d.exitPlace,
            deck |-> ~DeckEmpty(d), eights |-> "NONE"]
  <2> HIDE DEF level, hanger
  <2> QED
    BY <1>6, <1>10
<1> QED
  BY <1>2, <1>5, <1>6, <1>8, <1>9, <1>11

\* After d comes e as promised, perhaps with a card hung.
Promising(d, e) == PromiseOf(e) \in Promised!Rounds(PromiseOf(d)) /\ Awaited(e)

\* Rounds without a card hung are among the rounds.
LEMMA FollowsIsPromising ==
  ASSUME NEW d, NEW e, Follows(d, e)
  PROVE  Promising(d, e)
BY DEF Follows, RoundStep, Promising, Promised!Rounds

\* The window closes with nothing hung.
LEMMA CloseWindowFollows ==
  ASSUME NEW d, Plays(d), NEW chooser \in Seats
  PROVE  Follows(d, CloseWindow(d, chooser))
<1>1. PICK r : r = [d EXCEPT !.window = None]
  OBVIOUS
<1>2. d \in Deal /\ Running(d)
  BY DEF Plays, Running, Sound, WellFormed
<1>3. SamePromise(d, r) /\ r.phase = d.phase
  BY <1>1, <1>2 DEF Deal, SamePromise
<1>4. Running(r) /\ Plays(r)
  <2>1. Running(r)
    BY <1>1, <1>2, WindowKeeps
  <2> QED
    BY <1>3, <2>1, StillPlays DEF Plays
<1>5. CloseWindow(d, chooser) = FinishRound(r, TRUE, chooser)
  BY <1>1 DEF CloseWindow
<1>6. Follows(r, FinishRound(r, TRUE, chooser))
  BY <1>4, FinishRoundFollows
<1> QED
  BY <1>3, <1>4, <1>5, <1>6, FollowsThrough DEF Plays

\* Who claims is in the deal, and is not the victim.
LEMMA ClaimantsAreOthers ==
  ASSUME NEW d, Deciding(d), Awaited(d)
  PROVE  /\ d.window.victim \in d.inDeal
         /\ \A cl \in d.window.claims : /\ cl.seat \in d.inDeal \ {d.window.victim}
                                        /\ ~IsFinished(d.level[d.window.victim])
<1>1. PICK w : w = d.window
  OBVIOUS
<1>2. /\ StepsAreSound(d, w) /\ w.victim = d.defender /\ d.defender \in d.inDeal
      /\ \A cl \in w.claims : /\ cl.seat \in w.decided
                              /\ IsFlyingCard(d.level[w.victim], cl.card)
  BY <1>1 DEF Deciding, WindowOpen, Roles
<1>3. w.decided \subseteq CurrentStep(w)
  BY <1>1 DEF Deciding, Awaited
<1>4. CurrentStep(w) \subseteq d.inDeal \ {w.victim}
  BY <1>2 DEF StepsAreSound, CurrentStep
<1> QED
  BY <1>1, <1>2, <1>3, <1>4 DEF IsFlyingCard

\* The window closes with cards hung: the victim, who has the cards of the table, stays.
LEMMA HungIsPromising ==
  ASSUME NEW d, Plays(d), Deciding(d), Awaited(d),
         NEW claims \in SUBSET d.window.claims, claims # {}, NEW chooser \in Seats
  PROVE  Promising(d, CloseWindow(HungBy(d, claims), chooser))
<1>1. PICK v : v = d.window.victim
  OBVIOUS
<1>2. PICK h : h = HungBy(d, claims)
  OBVIOUS
<1>3. PICK r : r = [h EXCEPT !.window = None]
  OBVIOUS
<1>4. /\ d \in Deal /\ Going(d) /\ d.phase = "HANGING" /\ d.window \in Window
      /\ claims \in SUBSET Claim /\ v \in Seats /\ d.hand[v] # {}
  BY <1>1 DEF Deciding, Awaited, Going, Running, Sound, WellFormed, Window
<1>5. /\ v \in d.inDeal
      /\ \A cl \in claims : cl.seat \in d.inDeal \ {v} /\ ~IsFinished(d.level[v])
  BY <1>1, ClaimantsAreOthers
<1>6. Running(h) /\ h \in Deal
  BY <1>2, <1>4, HungByWritesRound DEF Going, Running, Sound, WellFormed
<1>7. h.inDeal = d.inDeal /\ h.phase = "HANGING" /\ h.hand[v] = d.hand[v]
  <2> DEFINE jokers == {cl \in claims : IsJoker(cl.card)}
             hand   == [s \in Seats |->
                          d.hand[s] \ {cl.card : cl \in {x \in claims : x.seat = s}}]
             hung   == [d.hung EXCEPT ![v] = @ \cup {cl.card : cl \in claims}]
             level  == [d.level EXCEPT ![v] = @ + 1]
             hanger == [d.jokerHanger EXCEPT ![v] =
                          IF jokers = {} THEN @ ELSE (CHOOSE cl \in jokers : TRUE).seat]
  <2>1. h = [d EXCEPT !.hand = hand, !.hung = hung, !.level = level, !.jokerHanger = hanger]
    BY <1>1, <1>2, <1>4 DEF HungBy, Deal
  <2>2. hand[v] = d.hand[v]
    <3>1. {x \in claims : x.seat = v} = {}
      BY <1>5
    <3>2. hand[v] = d.hand[v] \ {cl.card : cl \in {x \in claims : x.seat = v}}
      BY <1>4
    <3> QED
      BY <3>1, <3>2
  <2> HIDE DEF hand, hung, level, hanger
  <2> QED
    BY <1>4, <2>1, <2>2 DEF Deal
<1>8. /\ Running(r) /\ SamePromise(h, r) /\ r.phase = "HANGING" /\ r.inDeal = d.inDeal
      /\ r.hand[v] # {}
  <2>1. Running(r)
    BY <1>3, <1>6, WindowKeeps
  <2> QED
    BY <1>3, <1>4, <1>6, <1>7, <2>1 DEF Deal, SamePromise
<1>9. Plays(r) /\ PromiseOf(r) = PromiseOf(h)
  BY <1>7, <1>8, SameIsKept DEF Plays
<1>10. PICK e : e = FinishRound(r, TRUE, chooser)
  OBVIOUS
<1>11. PromiseOf(e) \in Promised!RoundEnds(PromiseOf(h), {v}) /\ e.phase # "HANGING"
  <2>1. /\ PromiseOf(FinishRound(r, TRUE, chooser)) \in Promised!RoundEnds(PromiseOf(r), {v})
        /\ FinishRound(r, TRUE, chooser).phase # "HANGING"
    BY <1>4, <1>8, <1>9, FinishRoundPromise
  <2> QED
    BY <1>9, <1>10, <2>1
<1>12. PICK cl \in claims : PromiseOf(h) = Promised!HungOn(PromiseOf(d), v, cl.seat)
  BY <1>1, <1>2, HungByPromise
<1>13. PICK p : p = PromiseOf(d)
  OBVIOUS
<1>14. p.inDeal = d.inDeal /\ p.level = d.level
  BY <1>13 DEF PromiseOf
<1>15. PromiseOf(e) \in Promised!Hangings(p, v)
  BY <1>5, <1>11, <1>12, <1>13, <1>14 DEF Promised!Hangings
<1>16. v \in {s \in p.inDeal : ~Promised!IsFinished(p.level[s])}
  BY <1>5, <1>12, <1>14, SameScale
<1>17. PromiseOf(e) \in Promised!Rounds(p)
  BY <1>15, <1>16 DEF Promised!Rounds
<1>18. CloseWindow(HungBy(d, claims), chooser) = e
  BY <1>2, <1>3, <1>10 DEF CloseWindow
<1> QED
  BY <1>11, <1>13, <1>17, <1>18 DEF Promising, Awaited

\* A complete step of the window: it waits on, moves to the next step, or closes.
LEMMA AdvanceWindowIsPromising ==
  ASSUME NEW d, Plays(d), Deciding(d), Awaited(d), NEW winner,
         d.window.claims # {} => winner \in Claimants(d.window), NEW chooser \in Seats
  PROVE  Promising(d, AdvanceWindow(d, winner, chooser))
<1>1. PICK chosen : chosen = IF d.window.everyone \/ Cardinality(d.window.claims) = 1
                               THEN d.window.claims
                               ELSE {cl \in d.window.claims : cl.seat = winner}
  OBVIOUS
<1>2. PICK next : next = [d.window EXCEPT !.stepIndex = @ + 1, !.claims = {}, !.decided = {}]
  OBVIOUS
<1>3. PICK later : later = [d EXCEPT !.window = next]
  OBVIOUS
<1>4. PICK r : r = AdvanceWindow(d, winner, chooser)
  OBVIOUS
<1>5. \/ r = d \/ r = later \/ r = CloseWindow(d, chooser)
      \/ d.window.claims # {} /\ r = CloseWindow(HungBy(d, chosen), chooser)
  BY <1>1, <1>2, <1>3, <1>4 DEF AdvanceWindow
<1>6. d \in Deal /\ d.window \in Window /\ d.phase = "HANGING" /\ d.hand[d.window.victim] # {}
  BY DEF Deciding, Awaited, Going, Running, Sound, WellFormed
<1>7. Follows(d, d)
  BY SameIsKept DEF Plays, Follows, SamePromise
<1>8. Follows(d, later)
  <2>1. next.victim = d.window.victim /\ next.decided = {}
    BY <1>2, <1>6 DEF Window
  <2>2. /\ later.window = next /\ later.phase = "HANGING" /\ later.hand = d.hand
        /\ SamePromise(d, later)
    BY <1>3, <1>6 DEF Deal, SamePromise
  <2>3. Awaited(later)
    BY <1>6, <2>1, <2>2 DEF Awaited
  <2> QED
    BY <1>6, <2>2, <2>3, SameIsKept DEF Follows
<1>9. Follows(d, CloseWindow(d, chooser))
  BY CloseWindowFollows
<1>10. ASSUME d.window.claims # {}
       PROVE  Promising(d, CloseWindow(HungBy(d, chosen), chooser))
  <2>1. \E cl \in d.window.claims : cl.seat = winner
    BY <1>10 DEF Claimants
  <2>2. chosen \in SUBSET d.window.claims /\ chosen # {}
    BY <1>1, <1>10, <2>1
  <2> QED
    BY <2>2, HungIsPromising
<1> QED
  BY <1>4, <1>5, <1>7, <1>8, <1>9, <1>10, FollowsIsPromising

\* A decision noted in the window changes nothing the match sees.
LEMMA DecidedIsAwaited ==
  ASSUME NEW d, Plays(d), d.phase = "HANGING", d.window \in Window, Awaited(d),
         NEW s \in Seats, MayDecide(d.window, s), NEW cards \in SUBSET d.hand[s]
  PROVE  /\ SamePromise(d, Decided(d, s, cards)) /\ Awaited(Decided(d, s, cards))
         /\ Decided(d, s, cards).phase = "HANGING"
         /\ Decided(d, s, cards).window.claims =
              d.window.claims \cup {[seat |-> s, card |-> c] : c \in cards}
<1> DEFINE claims == d.window.claims \cup {[seat |-> s, card |-> c] : c \in cards}
           decided == d.window.decided \cup {s}
<1>1. d \in Deal
  BY DEF Plays, Running, Sound, WellFormed
<1>2. PICK w : w = [d.window EXCEPT !.claims = claims, !.decided = decided]
  OBVIOUS
<1>3. PICK r : r = Decided(d, s, cards)
  OBVIOUS
<1>4. r = [d EXCEPT !.window = w]
  BY <1>2, <1>3 DEF Decided
<1>5. /\ r.window = w /\ r.phase = "HANGING" /\ r.hand = d.hand /\ SamePromise(d, r)
  BY <1>1, <1>4 DEF Deal, SamePromise
<1>6. /\ w.steps = d.window.steps /\ w.stepIndex = d.window.stepIndex
      /\ w.victim = d.window.victim /\ w.claims = claims /\ w.decided = decided
  <2> HIDE DEF claims, decided
  <2> QED
    BY <1>2 DEF Window
<1>7. decided \subseteq CurrentStep(w)
  BY <1>6 DEF MayDecide, Awaited, CurrentStep
<1> HIDE DEF claims, decided
<1>8. Awaited(r)
  BY <1>5, <1>6, <1>7 DEF Awaited
<1> QED
  BY <1>3, <1>5, <1>6, <1>8 DEF claims

-----------------------------------------------------------------------------
(***************************************************************************)
(* The commands.  The promise is not kept by every deal of the type: that  *)
(* the victim of a hanging stays is so because he holds the table he took, *)
(* and who hangs a card is in the deal because only those decide whose     *)
(* step it is (Awaited).                                                   *)
(***************************************************************************)
PromiseInv == RoundInv /\ Awaited(deal)

\* There are two players in a deal in which players move: the roles are apart.
LEMMA PlayableIsPlayed ==
  ASSUME PromiseInv, Playable
  PROVE  /\ Plays(deal) /\ deal \in Deal /\ Awaited(deal)
         /\ deal.phase # "HANGING" => RoundGoes(deal) /\ InRound(deal)
         /\ deal.phase = "HANGING" => WindowInv(deal)
<1>1. /\ Moving(deal) /\ deal \in Deal
      /\ deal.phase # "HANGING" => RoundGoes(deal)
      /\ deal.phase = "HANGING" => WindowInv(deal)
  BY PlayableIsMoving DEF PromiseInv
<1>2. Roles(deal)
  BY <1>1 DEF RoundGoes, RoundCore, WindowInv, WindowOpen
<1>3. \E s, t \in deal.inDeal : s # t
  BY <1>2 DEF Roles
<1> QED
  BY <1>1, <1>3 DEF PromiseInv, Plays, Moving, RoundGoes

\* The moves of a round.
LEMMA RoundIsPromising ==
  ASSUME PromiseInv, NEW s \in Seats, NEW chooser \in Seats, Round(s, chooser),
         NEW e, e = deal'
  PROVE  Playable /\ Promising(deal, e)
<1>1. CASE \E c \in deal.hand[s] : Attack(s, c, chooser)
  <2>1. PICK c \in deal.hand[s] : Attack(s, c, chooser)
    BY <1>1
  <2>2. CanAttack(deal, s, c) /\ Playable /\ e = Attacked(deal, s, c, chooser)
    BY <2>1 DEF Attack
  <2>3. Plays(deal) /\ InRound(deal)
    BY <2>2, PlayableIsPlayed, NoMoveInWindow
  <2> QED
    BY <2>2, <2>3, AttackedFollows, FollowsIsPromising
<1>2. CASE \E c \in deal.hand[s] : Transfer(s, c)
  <2>1. PICK c \in deal.hand[s] : Transfer(s, c)
    BY <1>2
  <2>2. Playable /\ e = Transferred(deal, s, c)
    BY <2>1 DEF Transfer
  <2> QED
    BY <2>2, PlayableIsPlayed, TransferredFollows, FollowsIsPromising
<1>3. CASE \E c \in deal.hand[s] : \E target \in AttackCards(deal) :
             Defend(s, c, target, chooser)
  <2>1. PICK c \in deal.hand[s], target \in AttackCards(deal) : Defend(s, c, target, chooser)
    BY <1>3
  <2>2. /\ CanDefend(deal, s, c, target) /\ Playable
        /\ e = Defended(deal, s, c, target, chooser)
    BY <2>1 DEF Defend
  <2>3. Plays(deal) /\ InRound(deal)
    BY <2>2, PlayableIsPlayed, NoMoveInWindow
  <2> QED
    BY <2>2, <2>3, DefendedFollows, FollowsIsPromising
<1>4. CASE Pass(s, chooser)
  <2>1. CanPass(deal, s) /\ Playable /\ e = Passed(deal, s, chooser)
    BY <1>4 DEF Pass
  <2>2. RoundGoes(deal) /\ Plays(deal) /\ InRound(deal)
    BY <2>1, PlayableIsPlayed, NoMoveInWindow
  <2>3. deal.table # {}
    BY <2>1, <2>2, PassNeedsTable
  <2> QED
    BY <2>1, <2>2, <2>3, PassedFollows, FollowsIsPromising
<1>5. CASE Take(s, chooser)
  <2>1. deal.table # {} /\ Playable /\ e = Taken(deal, chooser)
    BY <1>5 DEF Take, CanTake
  <2> QED
    BY <2>1, PlayableIsPlayed, TakenFollows, FollowsIsPromising
<1>6. CASE RevealFaceDown(s, chooser)
  <2>1. PICK card : card = deal.faceDown[s]
    OBVIOUS
  <2>2. PICK open : open = Revealed(deal, s)
    OBVIOUS
  <2>3. /\ Playable /\ CanPlayFaceDown(deal, s)
        /\ e = IF CanAttack(open, s, card) THEN Attacked(open, s, card, chooser) ELSE open
    BY <1>6, <2>1, <2>2 DEF RevealFaceDown
  <2>4. /\ Plays(deal) /\ Awaited(deal) /\ Moving(deal)
    BY <2>3, PlayableIsPlayed, PlayableIsMoving DEF PromiseInv
  <2>5. /\ Follows(deal, open) /\ Running(open) /\ SamePromise(deal, open)
        /\ open.phase = deal.phase
    BY <2>2, <2>3, <2>4, RevealedFollows
  <2>6. /\ card \in open.hand[s]
        /\ deal.phase # "HANGING" => RoundGoes(open)
        /\ deal.phase = "HANGING" => WindowInv(open)
    BY <2>1, <2>2, <2>3, <2>4, RevealedPhased
  <2>7. CASE CanAttack(open, s, card)
    <3>1. InRound(open) /\ Plays(open)
      BY <2>4, <2>5, <2>6, <2>7, NoMoveInWindow, StillPlays DEF Plays, RoundGoes
    <3>2. Follows(open, e)
      BY <2>3, <2>6, <2>7, <3>1, AttackedFollows
    <3>3. Follows(deal, e)
      BY <2>4, <2>5, <3>2, FollowsThrough DEF Plays
    <3> QED
      BY <2>3, <3>3, FollowsIsPromising
  <2> QED
    BY <2>3, <2>5, <2>7, FollowsIsPromising
<1>7. CASE \E target \in Pack : RevealToDefend(s, target, chooser)
  <2>1. PICK target \in Pack : RevealToDefend(s, target, chooser)
    BY <1>7
  <2>2. PICK card : card = deal.faceDown[s]
    OBVIOUS
  <2>3. PICK open : open = Revealed(deal, s)
    OBVIOUS
  <2>4. /\ Playable /\ CanPlayFaceDown(deal, s)
        /\ e = IF CanDefend(open, s, card, target)
                 THEN Defended(open, s, card, target, chooser) ELSE open
    BY <2>1, <2>2, <2>3 DEF RevealToDefend
  <2>5. /\ Plays(deal) /\ Awaited(deal) /\ Moving(deal)
    BY <2>4, PlayableIsPlayed, PlayableIsMoving DEF PromiseInv
  <2>6. /\ Follows(deal, open) /\ Running(open) /\ SamePromise(deal, open)
        /\ open.phase = deal.phase
    BY <2>3, <2>4, <2>5, RevealedFollows
  <2>7. /\ card \in open.hand[s]
        /\ deal.phase # "HANGING" => RoundGoes(open)
        /\ deal.phase = "HANGING" => WindowInv(open)
    BY <2>2, <2>3, <2>4, <2>5, RevealedPhased
  <2>8. CASE CanDefend(open, s, card, target)
    <3>1. InRound(open) /\ Plays(open)
      BY <2>5, <2>6, <2>7, <2>8, NoMoveInWindow, StillPlays DEF Plays, RoundGoes
    <3>2. Follows(open, e)
      BY <2>4, <2>7, <2>8, <3>1, DefendedFollows
    <3>3. Follows(deal, e)
      BY <2>5, <2>6, <3>2, FollowsThrough DEF Plays
    <3> QED
      BY <2>4, <3>3, FollowsIsPromising
  <2> QED
    BY <2>4, <2>6, <2>8, FollowsIsPromising
<1> QED
  BY <1>1, <1>2, <1>3, <1>4, <1>5, <1>6, <1>7 DEF Round

\* The decisions in the window.
LEMMA HangingIsPromising ==
  ASSUME PromiseInv, NEW s \in Seats, NEW chooser \in Seats, Hanging(s, chooser),
         NEW e, e = deal'
  PROVE  Playable /\ Promising(deal, e)
<1>1. PICK winner \in Seats :
        \/ \E cards \in SUBSET deal.hand[s] : HangCard(s, cards, winner, chooser)
        \/ HangSkip(s, winner, chooser)
  BY DEF Hanging
<1>2. /\ deal.phase = "HANGING" /\ deal.window # None /\ MayDecide(deal.window, s)
      /\ \E cards \in SUBSET deal.hand[s] :
           /\ \A c \in cards : IsFlyingCard(deal.level[deal.window.victim], c)
           /\ winner \in Claimants(deal.window) \/ (cards # {} /\ winner = s)
                \/ (cards = {} /\ deal.window.claims = {})
           /\ e = AdvanceWindow(Decided(deal, s, cards), winner, chooser)
  <2>1. CASE \E cards \in SUBSET deal.hand[s] : HangCard(s, cards, winner, chooser)
    BY <2>1 DEF HangCard
  <2>2. CASE HangSkip(s, winner, chooser)
    BY <2>2 DEF HangSkip
  <2> QED
    BY <1>1, <2>1, <2>2
<1>3. PICK cards \in SUBSET deal.hand[s] :
        /\ \A c \in cards : IsFlyingCard(deal.level[deal.window.victim], c)
        /\ winner \in Claimants(deal.window) \/ (cards # {} /\ winner = s)
             \/ (cards = {} /\ deal.window.claims = {})
        /\ e = AdvanceWindow(Decided(deal, s, cards), winner, chooser)
  BY <1>2
<1>4. /\ Playable /\ Going(deal) /\ WindowInv(deal) /\ deal.window \in Window
      /\ Plays(deal) /\ Awaited(deal)
  BY <1>2, PlayableIsMoving, PlayableIsPlayed DEF PromiseInv, Playable, Deal
<1>5. PICK r : r = Decided(deal, s, cards)
  OBVIOUS
<1>6. Deciding(r)
  BY <1>2, <1>3, <1>4, <1>5, DecidedPhased
<1>7. /\ SamePromise(deal, r) /\ Awaited(r) /\ r.phase = "HANGING"
      /\ r.window.claims = deal.window.claims \cup {[seat |-> s, card |-> c] : c \in cards}
  BY <1>2, <1>4, <1>5, DecidedIsAwaited
<1>8. r.window.claims # {} => winner \in Claimants(r.window)
  <2>1. CASE winner \in Claimants(deal.window)
    BY <1>7, <2>1 DEF Claimants
  <2>2. CASE cards # {} /\ winner = s
    <3>1. PICK c \in cards : TRUE
      BY <2>2
    <3>2. PICK cl : cl = [seat |-> s, card |-> c]
      OBVIOUS
    <3>3. cl \in r.window.claims /\ cl.seat = winner
      BY <1>7, <2>2, <3>1, <3>2
    <3> QED
      BY <3>3 DEF Claimants
  <2>3. CASE cards = {} /\ deal.window.claims = {}
    <3>1. r.window.claims = {}
      BY <1>7, <2>3
    <3> QED
      BY <3>1
  <2> QED
    BY <1>3, <2>1, <2>2, <2>3
<1>9. Plays(r) /\ PromiseOf(r) = PromiseOf(deal)
  <2>1. Running(r)
    BY <1>6 DEF Deciding, Going
  <2> QED
    BY <1>4, <1>7, <2>1, StillPlays
<1>10. Promising(r, e)
  BY <1>3, <1>5, <1>6, <1>7, <1>8, <1>9, AdvanceWindowIsPromising
<1> QED
  BY <1>4, <1>9, <1>10 DEF Promising

\* A suit is named only when one is waited for, and nothing else comes of it.
LEMMA TrumpIsPromised ==
  ASSUME PromiseInv, NEW s \in Seats, Trump(s), NEW e, e = deal'
  PROVE  /\ StageOf(deal) \in {"DICE", "SUIT"}
         /\ PromiseOf(e) = Promised!Named(PromiseOf(deal))
         /\ Awaited(e)
<1> PICK suit \in Suits : ChooseTrump(s, suit) \/ ChooseTrumpForHidden(s, suit)
  BY DEF Trump
<1>1. deal \in Deal /\ deal.phase = "DICE"
  BY DEF PromiseInv, RoundInv, CardsInv, DealInv, Sound, WellFormed,
         ChooseTrump, ChooseTrumpForHidden
<1>2. SamePromise(deal, e) /\ e.phase = "ATTACK"
  <2>1. CASE ChooseTrump(s, suit)
    <3> DEFINE starter == LowestTrumpSeat(deal.hand, suit)
               next    == NextActive(deal, starter)
    <3>1. e = [deal EXCEPT !.trump = suit, !.phase = "ATTACK", !.starter = starter,
                           !.right = starter, !.defender = next]
      BY <2>1 DEF ChooseTrump
    <3> HIDE DEF starter, next
    <3> QED
      BY <1>1, <3>1 DEF Deal, SamePromise
  <2>2. CASE ChooseTrumpForHidden(s, suit)
    <3> DEFINE p    == deal.pending
               hand == [deal.hand EXCEPT ![p.recipient] = @ \cup {p.card}]
    <3>1. e = [deal EXCEPT !.trump = suit, !.pending = None, !.phase = "ATTACK",
                           !.hand = hand]
      BY <2>2 DEF ChooseTrumpForHidden
    <3> HIDE DEF hand, p
    <3> QED
      BY <1>1, <3>1 DEF Deal, SamePromise
  <2> QED
    BY <2>1, <2>2
<1>3. PICK p : p = PromiseOf(deal)
  OBVIOUS
<1>4. /\ StageOf(deal) \in {"DICE", "SUIT"} /\ EightsOf(deal) = "NONE"
  BY <1>1 DEF StageOf, EightsOf
<1>5. p = [stage |-> StageOf(deal), level |-> deal.level, jokerHanger |-> deal.jokerHanger,
           inDeal |-> deal.inDeal, exitPlace |-> deal.exitPlace,
           deck |-> ~DeckEmpty(deal), eights |-> "NONE"]
  BY <1>3, <1>4 DEF PromiseOf
<1>6. PromiseOf(e) = [stage |-> "PLAY", level |-> deal.level,
                      jokerHanger |-> deal.jokerHanger,
                      inDeal |-> deal.inDeal, exitPlace |-> deal.exitPlace,
                      deck |-> ~DeckEmpty(deal), eights |-> "NONE"]
  BY <1>2, PlayingStage DEF PromiseOf, SamePromise, DeckEmpty
<1>7. PICK n : n = [p EXCEPT !.stage = "PLAY"]
  OBVIOUS
<1>8. n = PromiseOf(e)
  BY <1>5, <1>6, <1>7
<1> QED
  BY <1>2, <1>3, <1>4, <1>7, <1>8 DEF Promised!Named, Awaited

\* A card taken back and an objection do not concern the match.
LEMMA SecondThoughtsArePromising ==
  ASSUME PromiseInv, NEW s \in Seats, SecondThoughts(s), NEW e, e = deal'
  PROVE  Playable /\ Promising(deal, e)
<1> PICK slot \in deal.table : \/ RecallAttack(s, slot) \/ RecallDefence(s, slot)
                               \/ PinAttack(s, slot) \/ PinDefence(s, slot)
  BY DEF SecondThoughts
<1>1. Playable
  BY DEF RecallAttack, RecallDefence, PinAttack, PinDefence, Playable
<1>2. Plays(deal) /\ deal \in Deal /\ InRound(deal)
  BY <1>1, PlayableIsPlayed DEF WindowInv, WindowOpen
<1>3. /\ SamePromise(deal, e)
      /\ e.phase \in {deal.phase, "ATTACK", "DEFEND"}
  <2>1. CASE RecallAttack(s, slot)
    <3> DEFINE table == deal.table \ {slot}
               hand  == [deal.hand EXCEPT ![s] = @ \cup {slot.attack}]
               phase == IF deal.table = {slot} THEN "ATTACK" ELSE deal.phase
    <3>1. e = [deal EXCEPT !.table = table, !.hand = hand, !.phase = phase]
      BY <1>2, <2>1 DEF RecallAttack, Deal
    <3>2. phase \in {deal.phase, "ATTACK"}
      OBVIOUS
    <3> HIDE DEF table, hand, phase
    <3> QED
      BY <1>2, <3>1, <3>2 DEF Deal, SamePromise
  <2>2. CASE RecallDefence(s, slot)
    <3> DEFINE table == (deal.table \ {slot}) \cup
                          {[slot EXCEPT !.defence = None, !.defenceBy = 0]}
               hand  == [deal.hand EXCEPT ![s] = @ \cup {slot.defence}]
    <3>1. e = [deal EXCEPT !.table = table, !.hand = hand, !.phase = "DEFEND"]
      BY <2>2 DEF RecallDefence
    <3> HIDE DEF table, hand
    <3> QED
      BY <1>2, <3>1 DEF Deal, SamePromise
  <2>3. CASE PinAttack(s, slot) \/ PinDefence(s, slot)
    <3>1. PICK table : e = [deal EXCEPT !.table = table]
      BY <2>3 DEF PinAttack, PinDefence
    <3> QED
      BY <1>2, <3>1 DEF Deal, SamePromise
  <2> QED
    BY <2>1, <2>2, <2>3
<1>4. InRound(e)
  BY <1>2, <1>3 DEF InRound
<1> QED
  BY <1>1, <1>2, <1>3, <1>4, RoundFollows, FollowsIsPromising

\* A deal starts as promised.
LEMMA DealtIsPromised ==
  ASSUME NEW pack \in Shuffles, NEW levels \in StartLevels, NEW chooser \in Seats,
         NEW r, r = Dealt(pack, levels, chooser)
  PROVE  /\ levels \in [Promised!Seats -> Promised!Levels]
         /\ PromiseOf(r) \in Promised!Fresh(levels)
         /\ Awaited(r)
<1>1. /\ r.phase \in {"DICE", "ATTACK"} /\ r.pending = None /\ r.level = levels
      /\ r.jokerHanger = [s \in Seats |-> NobodySeat] /\ r.inDeal = Seats
      /\ r.exitPlace = [s \in Seats |-> 0]
      /\ r.deck = SubSeq(pack, N * (DealSize + 1) + 1, Len(pack))
  BY DEF Dealt
<1>2. r.deck # << >>
  <2>1. /\ pack \in Seq(Card) /\ Len(pack) \in Nat
        /\ Len(pack) >= N * (DealSize + 1) + 2
    BY DealAssumption, CardsAssumption, LenProperties
  <2>2. PICK first : first = N * (DealSize + 1) + 1
    OBVIOUS
  <2>3. first \in 1 .. Len(pack) - 1
    <3>1. N \in Nat /\ DealSize \in Nat /\ N * (DealSize + 1) \in Nat
      BY CardsAssumption, RulesAssumption
    <3> QED
      BY <2>1, <2>2, <3>1
  <2>4. \A j \in first .. Len(pack) : pack[j] \in Card
    BY <2>1, <2>3, ElementOfSeq
  <2>5. Len(r.deck) = Len(pack) - first + 1
    BY <1>1, <2>1, <2>2, <2>3, <2>4, SubSeqProperties
  <2> QED
    BY <2>1, <2>3, <2>5
<1>3. levels \in [Promised!Seats -> Promised!Levels]
  BY DealAssumption, SameCounting
     DEF Promised!Levels, Levels, Promised!NoNaves, NoNaves, Promised!JokerLevel, JokerLevel
<1>4. StageOf(r) \in {"DICE", "PLAY"} /\ EightsOf(r) = "NONE" /\ ~DeckEmpty(r)
  BY <1>1, <1>2 DEF StageOf, EightsOf, DeckEmpty
<1>5. PICK stage \in {"DICE", "PLAY"} : stage = StageOf(r)
  BY <1>4
<1>6. PromiseOf(r) = [stage |-> stage, level |-> levels,
                      jokerHanger |-> [s \in Promised!Seats |-> Promised!NobodySeat],
                      inDeal |-> Promised!Seats,
                      exitPlace |-> [s \in Promised!Seats |-> 0],
                      deck |-> TRUE, eights |-> "NONE"]
  BY <1>1, <1>4, <1>5, SameCounting DEF PromiseOf
<1>7. PromiseOf(r) \in Promised!Fresh(levels)
  BY <1>6 DEF Promised!Fresh
<1> QED
  BY <1>1, <1>3, <1>7 DEF Awaited

\* What the match sees of the deal is the value of the abstract specification.
LEMMA PromiseIsSeen ==
  [stage       |-> Stage,
   level       |-> deal.level,
   jokerHanger |-> deal.jokerHanger,
   inDeal      |-> deal.inDeal,
   exitPlace   |-> deal.exitPlace,
   deck        |-> ~DeckEmpty(deal),
   eights      |-> IF deal.phase # "DEAL_OVER" \/ Eights = {} THEN "NONE"
                   ELSE IF Cardinality(Eights) = 4 THEN "ALL" ELSE "SOME"]
    = PromiseOf(deal)
BY DEF PromiseOf, StageOf, Stage, EightsOf, EightsIn, Eights

\* Each step of a deal is a step of the abstract specification, or does not concern it.
LEMMA StepIsPromised ==
  ASSUME PromiseInv, Next, NEW e, e = deal'
  PROVE  /\ PromiseOf(e) \in Promised!NextPromises(PromiseOf(deal))
         /\ Awaited(e)
<1> PICK s \in Seats :
      \/ \E chooser \in Choosers : Round(s, chooser) \/ Hanging(s, chooser)
      \/ Trump(s)
      \/ SecondThoughts(s)
  BY DEF Next
<1>1. PromiseOf(deal).stage = StageOf(deal)
  BY DEF PromiseOf
<1>2. ASSUME Playable, Promising(deal, e)
      PROVE  /\ PromiseOf(e) \in Promised!NextPromises(PromiseOf(deal))
             /\ Awaited(e)
  <2>1. PromiseOf(deal).stage = "PLAY"
    BY <1>1, <1>2, PlayingStage DEF Playable
  <2> QED
    BY <1>2, <2>1 DEF Promising, Promised!NextPromises
<1>3. CASE \E chooser \in Choosers : Round(s, chooser) \/ Hanging(s, chooser)
  <2>1. Choosers \in SUBSET Seats
    BY ChoosersAreSeats DEF PromiseInv, RoundInv, CardsInv, DealInv
  <2> QED
    BY <1>2, <1>3, <2>1, RoundIsPromising, HangingIsPromising
<1>4. CASE Trump(s)
  <2>1. /\ StageOf(deal) \in {"DICE", "SUIT"}
        /\ PromiseOf(e) = Promised!Named(PromiseOf(deal))
        /\ Awaited(e)
    BY <1>4, TrumpIsPromised
  <2> QED
    BY <1>1, <2>1 DEF Promised!NextPromises
<1>5. CASE SecondThoughts(s)
  BY <1>2, <1>5, SecondThoughtsArePromising
<1> QED
  BY <1>3, <1>4, <1>5

\* The automaton of a deal, with its cards, rounds and windows, implements what the match was
\* promised: one card hung in a round at the most, by somebody in the deal; nobody leaves while
\* there is a deck; the victim and the last player stay; a suit is waited for before the play
\* goes on (DealEngine.Apply).
THEOREM DealKeepsItsPromise == Spec => KeepsPromise
<1>1. Init /\ RoundInv => PromiseInv
  <2> SUFFICES ASSUME Init, RoundInv  PROVE Awaited(deal)
    BY DEF PromiseInv
  <2> QED
    BY DealtIsPromised DEF Init
<1>2. PromiseInv /\ RoundInv' /\ [Next]_vars => PromiseInv'
  <2> SUFFICES ASSUME PromiseInv, RoundInv', [Next]_vars  PROVE Awaited(deal)'
    BY DEF PromiseInv
  <2>1. CASE Next
    <3>1. PICK e : e = deal'
      OBVIOUS
    <3> QED
      BY <2>1, <3>1, StepIsPromised
  <2>2. CASE UNCHANGED vars
    BY <2>2 DEF vars, PromiseInv
  <2> QED
    BY <2>1, <2>2
<1>3. Init => Promised!PromiseInit
  <2> SUFFICES ASSUME Init  PROVE Promised!PromiseInit
    OBVIOUS
  <2>1. PICK pack \in Shuffles, levels \in StartLevels, chooser \in Seats :
          deal = Dealt(pack, levels, chooser)
    BY DEF Init
  <2>2. /\ levels \in [Promised!Seats -> Promised!Levels]
        /\ PromiseOf(deal) \in Promised!Fresh(levels)
    BY <2>1, DealtIsPromised
  <2> QED
    BY <2>2, PromiseIsSeen DEF Promised!PromiseInit
<1> DEFINE seen == [stage       |-> Stage,
                     level       |-> deal.level,
                     jokerHanger |-> deal.jokerHanger,
                     inDeal      |-> deal.inDeal,
                     exitPlace   |-> deal.exitPlace,
                     deck        |-> ~DeckEmpty(deal),
                     eights      |-> IF deal.phase # "DEAL_OVER" \/ Eights = {} THEN "NONE"
                                     ELSE IF Cardinality(Eights) = 4 THEN "ALL"
                                     ELSE "SOME"]
<1>4. PromiseInv /\ [Next]_vars => [Promised!PromiseNext]_seen
  <2> SUFFICES ASSUME PromiseInv, [Next]_vars
               PROVE  Promised!PromiseNext \/ seen' = seen
    OBVIOUS
  <2>1. seen = PromiseOf(deal)
    BY PromiseIsSeen
  <2>2. seen' = PromiseOf(deal')
    BY DEF PromiseOf, StageOf, Stage, EightsOf, EightsIn, Eights
  <2>3. CASE Next
    <3>1. PICK e : e = deal'
      OBVIOUS
    <3>2. PromiseOf(e) \in Promised!NextPromises(PromiseOf(deal))
      BY <2>3, <3>1, StepIsPromised
    <3>3. seen' \in Promised!NextPromises(seen)
      <4> HIDE DEF seen
      <4> QED
        BY <2>1, <2>2, <3>1, <3>2
    <3> QED
      BY <3>3 DEF Promised!PromiseNext
  <2>4. CASE UNCHANGED vars
    <3>1. PromiseOf(deal') = PromiseOf(deal)
      BY <2>4 DEF vars
    <3> HIDE DEF seen
    <3> QED
      BY <2>1, <2>2, <3>1
  <2> QED
    BY <2>3, <2>4
<1> QED
  BY <1>1, <1>2, <1>3, <1>4, RoundInvariant, PTL
     DEF Spec, KeepsPromise, Promised!PromiseSpec
=============================================================================
