---------------------------- MODULE DealCardsProofs ----------------------------
(***************************************************************************)
(* No card of the pack is ever lost or doubled, proved for every number of *)
(* players, every pack and every order of it; and what rests on it: a      *)
(* pinned card stays where it lies.                                        *)
(*                                                                         *)
(* The engine moves a card by taking it from one field of the deal and     *)
(* putting it into another, in two assignments.  The proof follows the     *)
(* fields: a card is in one of eight zones, each operator of the engine    *)
(* carries some cards from one zone to another, and no zone holds a card   *)
(* twice.                                                                  *)
(***************************************************************************)
EXTENDS DealEngineProofs

-----------------------------------------------------------------------------
\* The zones in which a card may be.
InHand(d, c)    == \E s \in Seats : c \in d.hand[s]
IsCovered(d, c) == \E s \in Seats : c = d.faceDown[s]
IsHung(d, c)    == \E s \in Seats : c \in d.hung[s]
InDeck(d, c)    == \E j \in DOMAIN d.deck : c = d.deck[j]
InAttack(d, c)  == \E slot \in d.table : c = slot.attack
InDefence(d, c) == \E slot \in d.table : c = slot.defence
IsAside(d, c)   == d.pending # None /\ c = d.pending.card
IsGone(d, c)    == c \in d.discard

\* A zone counts a card once, however often it holds it.
One(b) == IF b THEN 1 ELSE 0

\* In how many zones the card is.
Zones(d, c) ==
  One(InHand(d, c)) + One(IsCovered(d, c)) + One(IsHung(d, c)) + One(InDeck(d, c))
  + One(InAttack(d, c)) + One(InDefence(d, c)) + One(IsAside(d, c)) + One(IsGone(d, c))

(***************************************************************************)
(* Conserved: the cards of the pack are in one zone each, other cards in   *)
(* none, and no zone holds a card twice.                                   *)
(***************************************************************************)
HandsApart(d)   == \A s, t \in Seats : \A c \in d.hand[s] \cap d.hand[t] : s = t
CoveredApart(d) == \A s, t \in Seats : d.faceDown[s] = d.faceDown[t] =>
                                         s = t \/ d.faceDown[s] = None
HungApart(d)    == \A s, t \in Seats : \A c \in d.hung[s] \cap d.hung[t] : s = t
DeckApart(d)    == \A i, j \in DOMAIN d.deck : d.deck[i] = d.deck[j] => i = j
AttackApart(d)  == \A x, y \in d.table : x.attack = y.attack => x = y
DefenceApart(d) == \A x, y \in d.table : x.defence = y.defence => x = y \/ x.defence = None

\* No zone holds a card twice.
Apart(d) == /\ HandsApart(d) /\ CoveredApart(d) /\ HungApart(d)
            /\ DeckApart(d) /\ AttackApart(d) /\ DefenceApart(d)

Conserved(d) == Apart(d) /\ \A c \in Card : Zones(d, c) = One(c \in Pack)

(***************************************************************************)
(* What is claimed in the hanging window is still in the hand of who       *)
(* claimed it: the cards fly from there when the window is resolved.       *)
(***************************************************************************)
ClaimsAreHeld(d) ==
  d.phase = "HANGING" /\ d.window # None =>
    \A cl \in d.window.claims : cl.card \in d.hand[cl.seat]

\* What every command keeps.
Kept(d) == Conserved(d) /\ ClaimsAreHeld(d)

-----------------------------------------------------------------------------
\* From the zones to the places a card is counted in.

\* A set of at most one member counts as one or none.
LEMMA CountOne ==
  ASSUME NEW S, \A x, y \in S : x = y
  PROVE  Cardinality(S) = One(S # {})
<1>1. CASE S = {}
  BY <1>1, FS_EmptySet DEF One
<1>2. CASE S # {}
  <2>1. PICK x \in S : S = {x}
    BY <1>2
  <2> QED
    BY <2>1, FS_Singleton DEF One
<1> QED
  BY <1>1, <1>2

\* In a conserved deal the places of a card are its zones.
LEMMA PlacesAreZones ==
  ASSUME NEW d, Apart(d), NEW c \in Card
  PROVE  PlacesOf(d, c) = Zones(d, c)
<1>0. c # None
  BY CardsAssumption
<1>1. Cardinality({s \in Seats : c \in d.hand[s]}) = One(InHand(d, c))
  <2> DEFINE S == {s \in Seats : c \in d.hand[s]}
  <2> SUFFICES Cardinality(S) = One(InHand(d, c))
    OBVIOUS
  <2>1. \A x, y \in S : x = y
    BY DEF Apart, HandsApart
  <2>2. (S # {}) <=> InHand(d, c)
    BY DEF InHand
  <2> HIDE DEF S
  <2>3. Cardinality(S) = One(S # {})
    BY <2>1, CountOne
  <2> QED
    BY <2>2, <2>3 DEF One
<1>2. Cardinality({s \in Seats : c = d.faceDown[s]}) = One(IsCovered(d, c))
  <2> DEFINE S == {s \in Seats : c = d.faceDown[s]}
  <2> SUFFICES Cardinality(S) = One(IsCovered(d, c))
    OBVIOUS
  <2>1. \A x, y \in S : x = y
    BY <1>0 DEF Apart, CoveredApart
  <2>2. (S # {}) <=> IsCovered(d, c)
    BY DEF IsCovered
  <2> HIDE DEF S
  <2>3. Cardinality(S) = One(S # {})
    BY <2>1, CountOne
  <2> QED
    BY <2>2, <2>3 DEF One
<1>3. Cardinality({s \in Seats : c \in d.hung[s]}) = One(IsHung(d, c))
  <2> DEFINE S == {s \in Seats : c \in d.hung[s]}
  <2> SUFFICES Cardinality(S) = One(IsHung(d, c))
    OBVIOUS
  <2>1. \A x, y \in S : x = y
    BY DEF Apart, HungApart
  <2>2. (S # {}) <=> IsHung(d, c)
    BY DEF IsHung
  <2> HIDE DEF S
  <2>3. Cardinality(S) = One(S # {})
    BY <2>1, CountOne
  <2> QED
    BY <2>2, <2>3 DEF One
<1>4. Cardinality({j \in DOMAIN d.deck : c = d.deck[j]}) = One(InDeck(d, c))
  <2> DEFINE S == {j \in DOMAIN d.deck : c = d.deck[j]}
  <2> SUFFICES Cardinality(S) = One(InDeck(d, c))
    OBVIOUS
  <2>1. \A x, y \in S : x = y
    BY DEF Apart, DeckApart
  <2>2. (S # {}) <=> InDeck(d, c)
    BY DEF InDeck
  <2> HIDE DEF S
  <2>3. Cardinality(S) = One(S # {})
    BY <2>1, CountOne
  <2> QED
    BY <2>2, <2>3 DEF One
<1>5. Cardinality({slot \in d.table : c = slot.attack}) = One(InAttack(d, c))
  <2> DEFINE S == {slot \in d.table : c = slot.attack}
  <2> SUFFICES Cardinality(S) = One(InAttack(d, c))
    OBVIOUS
  <2>1. \A x, y \in S : x = y
    BY DEF Apart, AttackApart
  <2>2. (S # {}) <=> InAttack(d, c)
    BY DEF InAttack
  <2> HIDE DEF S
  <2>3. Cardinality(S) = One(S # {})
    BY <2>1, CountOne
  <2> QED
    BY <2>2, <2>3 DEF One
<1>6. Cardinality({slot \in d.table : c = slot.defence}) = One(InDefence(d, c))
  <2> DEFINE S == {slot \in d.table : c = slot.defence}
  <2> SUFFICES Cardinality(S) = One(InDefence(d, c))
    OBVIOUS
  <2>1. \A x, y \in S : x = y
    BY <1>0 DEF Apart, DefenceApart
  <2>2. (S # {}) <=> InDefence(d, c)
    BY DEF InDefence
  <2> HIDE DEF S
  <2>3. Cardinality(S) = One(S # {})
    BY <2>1, CountOne
  <2> QED
    BY <2>2, <2>3 DEF One
<1>7. (IF d.pending = None THEN 0 ELSE IF c = d.pending.card THEN 1 ELSE 0)
        = One(IsAside(d, c))
  BY DEF One, IsAside
<1>8. (IF c \in d.discard THEN 1 ELSE 0) = One(IsGone(d, c))
  BY DEF One, IsGone
<1> QED
  BY <1>1, <1>2, <1>3, <1>4, <1>5, <1>6, <1>7, <1>8 DEF PlacesOf, Zones

-----------------------------------------------------------------------------
(***************************************************************************)
(* What the steps of the engine do to the zones.  Each lemma is about any  *)
(* deal e that differs from d in the fields named.                         *)
(***************************************************************************)

\* Nothing that holds a card is written.
SameCards(d, e) ==
  /\ e.hand = d.hand /\ e.faceDown = d.faceDown /\ e.hung = d.hung /\ e.deck = d.deck
  /\ e.table = d.table /\ e.pending = d.pending /\ e.discard = d.discard

\* Then the cards stay where they are.
LEMMA SameCardsConserve ==
  ASSUME NEW d, Conserved(d), NEW e, SameCards(d, e)
  PROVE  Conserved(e)
<1>1. Apart(e)
  BY DEF Conserved, SameCards, Apart, HandsApart, CoveredApart, HungApart, DeckApart,
         AttackApart, DefenceApart
<1>2. \A c : Zones(e, c) = Zones(d, c)
  BY DEF SameCards, Zones, InHand, IsCovered, IsHung, InDeck, InAttack, InDefence,
         IsAside, IsGone
<1> QED
  BY <1>1, <1>2 DEF Conserved

\* A card in one zone is in no other.
LEMMA InOneZone ==
  ASSUME NEW d, Conserved(d), NEW c \in Card
  PROVE  /\ InHand(d, c) => /\ ~IsCovered(d, c) /\ ~IsHung(d, c) /\ ~InDeck(d, c)
                            /\ ~InAttack(d, c) /\ ~InDefence(d, c)
                            /\ ~IsAside(d, c) /\ ~IsGone(d, c)
         /\ InAttack(d, c) => /\ ~IsCovered(d, c) /\ ~IsHung(d, c) /\ ~InDeck(d, c)
                              /\ ~InHand(d, c) /\ ~InDefence(d, c)
                              /\ ~IsAside(d, c) /\ ~IsGone(d, c)
         /\ InDefence(d, c) => /\ ~IsCovered(d, c) /\ ~IsHung(d, c) /\ ~InDeck(d, c)
                               /\ ~InHand(d, c) /\ ~InAttack(d, c)
                               /\ ~IsAside(d, c) /\ ~IsGone(d, c)
         /\ InDeck(d, c) => /\ ~IsCovered(d, c) /\ ~IsHung(d, c) /\ ~InHand(d, c)
                            /\ ~InAttack(d, c) /\ ~InDefence(d, c)
                            /\ ~IsAside(d, c) /\ ~IsGone(d, c)
         /\ IsCovered(d, c) => /\ ~InHand(d, c) /\ ~IsHung(d, c) /\ ~InDeck(d, c)
                               /\ ~InAttack(d, c) /\ ~InDefence(d, c)
                               /\ ~IsAside(d, c) /\ ~IsGone(d, c)
         /\ IsAside(d, c) => /\ ~InHand(d, c) /\ ~IsHung(d, c) /\ ~InDeck(d, c)
                             /\ ~InAttack(d, c) /\ ~InDefence(d, c)
                             /\ ~IsCovered(d, c) /\ ~IsGone(d, c)
<1>1. Zones(d, c) \in {0, 1}
  BY DEF Conserved, One
<1> QED
  BY <1>1 DEF Zones, One

\* A hand is finite: its cards are of the pack.
LEMMA HandFinite ==
  ASSUME NEW d \in Deal, Conserved(d), NEW s \in Seats
  PROVE  /\ IsFiniteSet(d.hand[s]) /\ HandSize(d, s) \in Nat
         /\ d.hand[s] # {} => HandSize(d, s) >= 1
<1>1. d.hand[s] \in SUBSET Card
  BY DEF Deal
<1>2. ASSUME NEW c \in d.hand[s]  PROVE c \in Pack
  <2>1. c \in Card /\ InHand(d, c)
    BY <1>1 DEF InHand
  <2>2. Zones(d, c) = One(c \in Pack)
    BY <2>1 DEF Conserved
  <2>3. Zones(d, c) # 0
    BY <2>1 DEF Zones, One
  <2> QED
    BY <2>2, <2>3 DEF One
<1>3. d.hand[s] \in SUBSET Pack
  BY <1>2
<1>4. IsFiniteSet(d.hand[s]) /\ Cardinality(d.hand[s]) \in Nat
  BY <1>3, CardsAssumption, FS_Subset, FS_CardinalityType
<1>5. d.hand[s] # {} => Cardinality(d.hand[s]) # 0
  BY <1>4, FS_EmptySet
<1> QED
  BY <1>4, <1>5 DEF HandSize

\* The zones of two deals add up to the same if a card has only changed its zone.
LEMMA MovedZones ==
  ASSUME NEW d, NEW e, NEW c,
         \/ /\ InHand(e, c) <=> InHand(d, c)
            /\ InAttack(e, c) <=> InAttack(d, c)
            /\ InDefence(e, c) <=> InDefence(d, c)
         \/ InHand(d, c) /\ ~InHand(e, c)
            /\ ~InAttack(d, c) /\ InAttack(e, c) /\ (InDefence(e, c) <=> InDefence(d, c))
         \/ InHand(d, c) /\ ~InHand(e, c)
            /\ ~InDefence(d, c) /\ InDefence(e, c) /\ (InAttack(e, c) <=> InAttack(d, c))
         \/ ~InHand(d, c) /\ InHand(e, c)
            /\ InAttack(d, c) /\ ~InAttack(e, c) /\ (InDefence(e, c) <=> InDefence(d, c))
         \/ ~InHand(d, c) /\ InHand(e, c)
            /\ InDefence(d, c) /\ ~InDefence(e, c) /\ (InAttack(e, c) <=> InAttack(d, c)),
         IsCovered(e, c) <=> IsCovered(d, c),
         IsHung(e, c) <=> IsHung(d, c),
         InDeck(e, c) <=> InDeck(d, c),
         IsAside(e, c) <=> IsAside(d, c),
         IsGone(e, c) <=> IsGone(d, c)
  PROVE  Zones(e, c) = Zones(d, c)
BY DEF Zones, One

\* Cards go between the hands and the table, and nowhere else.
HandsAndTable(d, e) ==
  /\ e.faceDown = d.faceDown /\ e.hung = d.hung /\ e.deck = d.deck
  /\ e.pending = d.pending /\ e.discard = d.discard

\* The other zones are as they were.
LEMMA HandsAndTableElsewhere ==
  ASSUME NEW d, NEW e, HandsAndTable(d, e), NEW c
  PROVE  /\ IsCovered(e, c) <=> IsCovered(d, c)
         /\ IsHung(e, c) <=> IsHung(d, c)
         /\ InDeck(e, c) <=> InDeck(d, c)
         /\ IsAside(e, c) <=> IsAside(d, c)
         /\ IsGone(e, c) <=> IsGone(d, c)
         /\ CoveredApart(d) => CoveredApart(e)
         /\ HungApart(d) => HungApart(e)
         /\ DeckApart(d) => DeckApart(e)
BY DEF HandsAndTable, IsCovered, IsHung, InDeck, IsAside, IsGone, CoveredApart, HungApart,
       DeckApart

\* A card laid in attack.
LEMMA LaidConserves ==
  ASSUME NEW d \in Deal, Conserved(d), NEW s \in Seats, NEW c \in d.hand[s],
         NEW e, HandsAndTable(d, e),
         e.hand = [d.hand EXCEPT ![s] = @ \ {c}],
         e.table = d.table \cup {NewSlot(c, s)}
  PROVE  Conserved(e)
<1>1. c \in Card /\ InHand(d, c) /\ d.hand \in [Seats -> SUBSET Card]
  BY DEF Deal, InHand
<1>2. ~InAttack(d, c) /\ ~InDefence(d, c)
  BY <1>1, InOneZone
<1>3. /\ NewSlot(c, s).attack = c /\ NewSlot(c, s).defence = None
  BY DEF NewSlot
<1>4. ASSUME NEW x \in Card
      PROVE  /\ InHand(e, x) <=> InHand(d, x) /\ x # c
             /\ InAttack(e, x) <=> InAttack(d, x) \/ x = c
             /\ InDefence(e, x) <=> InDefence(d, x)
  <2>1. InHand(e, x) <=> InHand(d, x) /\ x # c
    BY <1>1 DEF InHand, Conserved, Apart, HandsApart
  <2>2. InAttack(e, x) <=> InAttack(d, x) \/ x = c
    BY <1>3 DEF InAttack
  <2>3. InDefence(e, x) <=> InDefence(d, x)
    BY <1>3, CardsAssumption DEF InDefence
  <2> QED
    BY <2>1, <2>2, <2>3
<1>5. ASSUME NEW x \in Card  PROVE Zones(e, x) = Zones(d, x)
  BY <1>1, <1>2, <1>4, HandsAndTableElsewhere, MovedZones
<1>6. HandsApart(e)
  BY <1>1 DEF Conserved, Apart, HandsApart
<1>7. AttackApart(e) /\ DefenceApart(e)
  BY <1>2, <1>3 DEF Conserved, Apart, AttackApart, DefenceApart, InAttack
<1> QED
  BY <1>5, <1>6, <1>7, HandsAndTableElsewhere DEF Conserved, Apart

\* A slot that differs only in what it is beaten with, now a card from a hand.
LEMMA SlotBeatenConserves ==
  ASSUME NEW d \in Deal, Conserved(d), NEW s \in Seats, NEW c \in d.hand[s],
         NEW old \in d.table, old.defence = None,
         NEW new, new.attack = old.attack, new.defence = c,
         NEW e, HandsAndTable(d, e),
         e.hand = [d.hand EXCEPT ![s] = @ \ {c}],
         e.table = (d.table \ {old}) \cup {new}
  PROVE  Conserved(e)
<1>1. c \in Card /\ InHand(d, c) /\ d.hand \in [Seats -> SUBSET Card]
  BY DEF Deal, InHand
<1>2. ~InAttack(d, c) /\ ~InDefence(d, c)
  BY <1>1, InOneZone
<1>3. ASSUME NEW x \in Card
      PROVE  /\ InHand(e, x) <=> InHand(d, x) /\ x # c
             /\ InAttack(e, x) <=> InAttack(d, x)
             /\ InDefence(e, x) <=> InDefence(d, x) \/ x = c
  <2>1. InHand(e, x) <=> InHand(d, x) /\ x # c
    BY <1>1 DEF InHand, Conserved, Apart, HandsApart
  <2>2. InAttack(e, x) <=> InAttack(d, x)
    BY DEF InAttack
  <2>3. InDefence(e, x) <=> InDefence(d, x) \/ x = c
    BY CardsAssumption DEF InDefence
  <2> QED
    BY <2>1, <2>2, <2>3
<1>4. ASSUME NEW x \in Card  PROVE Zones(e, x) = Zones(d, x)
  BY <1>1, <1>2, <1>3, HandsAndTableElsewhere, MovedZones
<1>5. HandsApart(e)
  BY <1>1 DEF Conserved, Apart, HandsApart
<1>6. AttackApart(e) /\ DefenceApart(e)
  BY <1>2 DEF Conserved, Apart, AttackApart, DefenceApart, InDefence
<1> QED
  BY <1>4, <1>5, <1>6, HandsAndTableElsewhere DEF Conserved, Apart

\* The table after the card c was played on the target.
BeatenTable(d, s, c, target) ==
  {IF slot.attack = target THEN [slot EXCEPT !.defence = c, !.defenceBy = s] ELSE slot
   : slot \in d.table}

\* A card played in defence: the slot of the target, and no other, gets it.
LEMMA TargetIsBeaten ==
  ASSUME NEW d \in Deal, Conserved(d), NEW s \in Seats, NEW c \in d.hand[s],
         NEW target, \E slot \in Unbeaten(d) : slot.attack = target
  PROVE  \E old \in d.table : \E new :
           /\ old.defence = None /\ new.attack = old.attack /\ new.defence = c
           /\ BeatenTable(d, s, c, target) = (d.table \ {old}) \cup {new}
<1>1. PICK old \in d.table : old.attack = target /\ old.defence = None
  BY DEF Unbeaten, IsBeaten
<1> DEFINE new == [old EXCEPT !.defence = c, !.defenceBy = s]
<1>2. new.attack = old.attack /\ new.defence = c
  BY DEF Deal, Slot
<1>3. \A slot \in d.table : slot.attack = target <=> slot = old
  BY <1>1 DEF Conserved, Apart, AttackApart
<1>4. BeatenTable(d, s, c, target) = (d.table \ {old}) \cup {new}
  BY <1>3 DEF BeatenTable
<1> HIDE DEF new
<1> QED
  BY <1>1, <1>2, <1>4

\* The table in the pile.
LEMMA DiscardedConserves ==
  ASSUME NEW d \in Deal, Conserved(d), NEW e,
         e.hand = d.hand, e.faceDown = d.faceDown, e.hung = d.hung, e.deck = d.deck,
         e.pending = d.pending, e.table = {}, e.discard = d.discard \cup TableCards(d)
  PROVE  Conserved(e)
<1>1. ASSUME NEW c \in Card
      PROVE  /\ InHand(e, c) <=> InHand(d, c)
             /\ IsCovered(e, c) <=> IsCovered(d, c)
             /\ IsHung(e, c) <=> IsHung(d, c)
             /\ InDeck(e, c) <=> InDeck(d, c)
             /\ IsAside(e, c) <=> IsAside(d, c)
             /\ ~InAttack(e, c) /\ ~InDefence(e, c)
             /\ IsGone(e, c) <=> IsGone(d, c) \/ InAttack(d, c) \/ InDefence(d, c)
  <2>1. c \in TableCards(d) <=> InAttack(d, c) \/ InDefence(d, c)
    BY CardsAssumption
       DEF TableCards, AttackCards, DefenceCards, IsBeaten, InAttack, InDefence
  <2> QED
    BY <2>1 DEF InHand, IsCovered, IsHung, InDeck, IsAside, InAttack, InDefence, IsGone
<1>2. ASSUME NEW c \in Card  PROVE Zones(e, c) = Zones(d, c)
  <2>1. Zones(d, c) \in {0, 1}
    BY DEF Conserved, One
  <2> QED
    BY <1>1, <2>1 DEF Zones, One
<1>3. Apart(e)
  BY DEF Conserved, Apart, HandsApart, CoveredApart, HungApart, DeckApart, AttackApart,
         DefenceApart
<1> QED
  BY <1>2, <1>3 DEF Conserved

\* The table in the hand of who took it.
LEMMA TakenUpConserves ==
  ASSUME NEW d \in Deal, Conserved(d), NEW s \in Seats, NEW e, HandsAndTable(d, e),
         e.hand = [d.hand EXCEPT ![s] = @ \cup TableCards(d)], e.table = {}
  PROVE  Conserved(e)
<1>1. d.hand \in [Seats -> SUBSET Card] /\ TableCards(d) \in SUBSET Card
  BY TableIsCards DEF Deal
<1>2. ASSUME NEW c \in Card
      PROVE  c \in TableCards(d) <=> InAttack(d, c) \/ InDefence(d, c)
  BY CardsAssumption
     DEF TableCards, AttackCards, DefenceCards, IsBeaten, InAttack, InDefence
<1>3. ASSUME NEW c \in Card
      PROVE  /\ ~InAttack(e, c) /\ ~InDefence(e, c)
             /\ InHand(e, c) <=> InHand(d, c) \/ InAttack(d, c) \/ InDefence(d, c)
  <2>1. InHand(e, c) <=> InHand(d, c) \/ c \in TableCards(d)
    BY <1>1 DEF InHand
  <2> QED
    BY <1>2, <2>1 DEF InAttack, InDefence
<1>4. ASSUME NEW c \in Card  PROVE Zones(e, c) = Zones(d, c)
  <2>1. Zones(d, c) \in {0, 1}
    BY DEF Conserved, One
  <2> QED
    BY <1>3, <2>1, HandsAndTableElsewhere DEF Zones, One
<1>5. HandsApart(e)
  <2>1. \A c \in TableCards(d) : ~InHand(d, c)
    BY <1>1, <1>2, InOneZone
  <2> QED
    BY <1>1, <2>1 DEF Conserved, Apart, HandsApart, InHand
<1>6. AttackApart(e) /\ DefenceApart(e)
  BY DEF AttackApart, DefenceApart
<1> QED
  BY <1>4, <1>5, <1>6, HandsAndTableElsewhere DEF Conserved, Apart

\* The face-down card in the hand.
LEMMA RevealedConserves ==
  ASSUME NEW d \in Deal, Conserved(d), NEW s \in Seats, d.faceDown[s] # None, NEW e,
         e.hung = d.hung, e.deck = d.deck, e.pending = d.pending, e.table = d.table,
         e.discard = d.discard,
         e.hand = [d.hand EXCEPT ![s] = @ \cup {d.faceDown[s]}],
         e.faceDown = [d.faceDown EXCEPT ![s] = None]
  PROVE  Conserved(e)
<1> DEFINE card == d.faceDown[s]
<1>1. /\ d.hand \in [Seats -> SUBSET Card] /\ card \in Card
      /\ d.faceDown \in [Seats -> Card \cup {None}] /\ None \notin Card
  BY CardsAssumption DEF Deal
<1>2. IsCovered(d, card) /\ ~InHand(d, card)
  BY <1>1, InOneZone DEF IsCovered
<1>3. ASSUME NEW c \in Card
      PROVE  /\ InHand(e, c) <=> InHand(d, c) \/ c = card
             /\ IsCovered(e, c) <=> IsCovered(d, c) /\ c # card
             /\ IsHung(e, c) <=> IsHung(d, c)
             /\ InDeck(e, c) <=> InDeck(d, c)
             /\ IsAside(e, c) <=> IsAside(d, c)
             /\ InAttack(e, c) <=> InAttack(d, c)
             /\ InDefence(e, c) <=> InDefence(d, c)
             /\ IsGone(e, c) <=> IsGone(d, c)
  <2>1. InHand(e, c) <=> InHand(d, c) \/ c = card
    BY <1>1 DEF InHand
  <2>2. IsCovered(e, c) <=> IsCovered(d, c) /\ c # card
    BY <1>1 DEF IsCovered, Conserved, Apart, CoveredApart
  <2> QED
    BY <2>1, <2>2 DEF IsHung, InDeck, IsAside, InAttack, InDefence, IsGone
<1>4. ASSUME NEW c \in Card  PROVE Zones(e, c) = Zones(d, c)
  BY <1>2, <1>3 DEF Zones, One
<1>5. HandsApart(e) /\ CoveredApart(e)
  BY <1>1, <1>2 DEF Conserved, Apart, HandsApart, CoveredApart, InHand
<1>6. HungApart(e) /\ DeckApart(e) /\ AttackApart(e) /\ DefenceApart(e)
  BY DEF Conserved, Apart, HungApart, DeckApart, AttackApart, DefenceApart
<1> QED
  BY <1>4, <1>5, <1>6 DEF Conserved, Apart

\* Claimed cards fly from the hands of who claimed them to the victim.
LEMMA HungConserves ==
  ASSUME NEW d \in Deal, Conserved(d), NEW v \in Seats, NEW claims \in SUBSET Claim,
         \A cl \in claims : cl.card \in d.hand[cl.seat],
         NEW e,
         e.faceDown = d.faceDown, e.deck = d.deck, e.table = d.table,
         e.pending = d.pending, e.discard = d.discard,
         e.hand = [s \in Seats |->
                     d.hand[s] \ {cl.card : cl \in {x \in claims : x.seat = s}}],
         e.hung = [d.hung EXCEPT ![v] = @ \cup {cl.card : cl \in claims}]
  PROVE  Conserved(e)
<1> DEFINE flown == {cl.card : cl \in claims}
<1>1. /\ d.hand \in [Seats -> SUBSET Card] /\ d.hung \in [Seats -> SUBSET Card]
      /\ flown \in SUBSET Card
      /\ \A cl \in claims : cl.seat \in Seats
  BY DEF Deal, Claim
<1>2. \A s \in Seats : e.hand[s] = d.hand[s] \ flown
  <2> TAKE s \in Seats
  <2>1. \A c : c \in d.hand[s] /\ c \in flown =>
               \E cl \in claims : cl.seat = s /\ cl.card = c
    BY <1>1 DEF Conserved, Apart, HandsApart
  <2> QED
    BY <2>1
<1>3. \A s \in Seats : e.hung[s] = IF s = v THEN d.hung[s] \cup flown ELSE d.hung[s]
  BY <1>1
<1>4. \A c \in flown : InHand(d, c) /\ ~IsHung(d, c)
  BY <1>1, InOneZone DEF InHand
<1> HIDE DEF flown
<1>5. ASSUME NEW c \in Card
      PROVE  /\ InHand(e, c) <=> InHand(d, c) /\ c \notin flown
             /\ IsHung(e, c) <=> IsHung(d, c) \/ c \in flown
             /\ IsCovered(e, c) <=> IsCovered(d, c)
             /\ InDeck(e, c) <=> InDeck(d, c)
             /\ IsAside(e, c) <=> IsAside(d, c)
             /\ InAttack(e, c) <=> InAttack(d, c)
             /\ InDefence(e, c) <=> InDefence(d, c)
             /\ IsGone(e, c) <=> IsGone(d, c)
  <2>1. InHand(e, c) <=> InHand(d, c) /\ c \notin flown
    BY <1>2 DEF InHand
  <2>2. IsHung(e, c) <=> IsHung(d, c) \/ c \in flown
    BY <1>3 DEF IsHung
  <2> QED
    BY <2>1, <2>2 DEF IsCovered, InDeck, IsAside, InAttack, InDefence, IsGone
<1>6. ASSUME NEW c \in Card  PROVE Zones(e, c) = Zones(d, c)
  BY <1>4, <1>5 DEF Zones, One
<1>7. HandsApart(e)
  BY <1>2 DEF Conserved, Apart, HandsApart
<1>8. HungApart(e)
  <2>1. \A s \in Seats : \A c \in d.hung[s] : c \notin flown
    BY <1>4 DEF IsHung
  <2>2. \A s, t \in Seats : \A c : c \in d.hung[s] /\ c \in d.hung[t] => s = t
    BY DEF Conserved, Apart, HungApart
  <2> SUFFICES ASSUME NEW s \in Seats, NEW t \in Seats, NEW c, c \in e.hung[s], c \in e.hung[t]
               PROVE  s = t
    BY DEF HungApart
  <2>3. CASE c \in flown
    BY <1>3, <2>1, <2>3
  <2>4. CASE c \notin flown
    BY <1>3, <2>2, <2>4
  <2> QED
    BY <2>3, <2>4
<1>9. CoveredApart(e) /\ DeckApart(e) /\ AttackApart(e) /\ DefenceApart(e)
  BY DEF Conserved, Apart, CoveredApart, DeckApart, AttackApart, DefenceApart
<1> QED
  BY <1>6, <1>7, <1>8, <1>9 DEF Conserved, Apart

\* The hidden trump that waited for its suit comes to the hand of its recipient.
LEMMA HandedOverConserves ==
  ASSUME NEW d \in Deal, Conserved(d), d.pending # None, NEW e,
         e.faceDown = d.faceDown, e.hung = d.hung, e.deck = d.deck, e.table = d.table,
         e.discard = d.discard, e.pending = None,
         e.hand = [d.hand EXCEPT ![d.pending.recipient] = @ \cup {d.pending.card}]
  PROVE  Conserved(e)
<1> DEFINE card == d.pending.card
           to   == d.pending.recipient
<1>1. card \in Card /\ to \in Seats /\ d.hand \in [Seats -> SUBSET Card]
  BY DEF Deal, Pending
<1>2. IsAside(d, card) /\ ~InHand(d, card)
  BY <1>1, InOneZone DEF IsAside
<1>3. ASSUME NEW c \in Card
      PROVE  /\ InHand(e, c) <=> InHand(d, c) \/ c = card
             /\ ~IsAside(e, c) /\ (IsAside(d, c) <=> c = card)
             /\ IsCovered(e, c) <=> IsCovered(d, c)
             /\ IsHung(e, c) <=> IsHung(d, c)
             /\ InDeck(e, c) <=> InDeck(d, c)
             /\ InAttack(e, c) <=> InAttack(d, c)
             /\ InDefence(e, c) <=> InDefence(d, c)
             /\ IsGone(e, c) <=> IsGone(d, c)
  <2>1. InHand(e, c) <=> InHand(d, c) \/ c = card
    BY <1>1 DEF InHand
  <2> QED
    BY <2>1 DEF IsCovered, IsHung, InDeck, IsAside, InAttack, InDefence, IsGone
<1>4. ASSUME NEW c \in Card  PROVE Zones(e, c) = Zones(d, c)
  BY <1>2, <1>3 DEF Zones, One
<1>5. HandsApart(e)
  BY <1>1, <1>2 DEF Conserved, Apart, HandsApart, InHand
<1>6. /\ CoveredApart(e) /\ HungApart(e) /\ DeckApart(e)
      /\ AttackApart(e) /\ DefenceApart(e)
  BY DEF Conserved, Apart, CoveredApart, HungApart, DeckApart, AttackApart, DefenceApart
<1> QED
  BY <1>4, <1>5, <1>6 DEF Conserved, Apart

\* An unbeaten card taken back.
LEMMA AttackRecalledConserves ==
  ASSUME NEW d \in Deal, Conserved(d), NEW s \in Seats, NEW slot \in d.table,
         slot.defence = None, NEW e, HandsAndTable(d, e),
         e.hand = [d.hand EXCEPT ![s] = @ \cup {slot.attack}],
         e.table = d.table \ {slot}
  PROVE  Conserved(e)
<1> DEFINE card == slot.attack
<1>1. card \in Card /\ d.hand \in [Seats -> SUBSET Card] /\ InAttack(d, card)
  BY DEF Deal, Slot, InAttack
<1>2. ~InHand(d, card) /\ ~InDefence(d, card)
  BY <1>1, InOneZone
<1>3. ASSUME NEW x \in Card
      PROVE  /\ InHand(e, x) <=> InHand(d, x) \/ x = card
             /\ InAttack(e, x) <=> InAttack(d, x) /\ x # card
             /\ InDefence(e, x) <=> InDefence(d, x)
  <2>1. InHand(e, x) <=> InHand(d, x) \/ x = card
    BY <1>1 DEF InHand
  <2>2. InAttack(e, x) <=> InAttack(d, x) /\ x # card
    BY DEF InAttack, Conserved, Apart, AttackApart
  <2>3. InDefence(e, x) <=> InDefence(d, x)
    BY CardsAssumption DEF InDefence
  <2> QED
    BY <2>1, <2>2, <2>3
<1>4. ASSUME NEW x \in Card  PROVE Zones(e, x) = Zones(d, x)
  BY <1>1, <1>2, <1>3, HandsAndTableElsewhere, MovedZones
<1>5. HandsApart(e)
  BY <1>1, <1>2 DEF Conserved, Apart, HandsApart, InHand
<1>6. AttackApart(e) /\ DefenceApart(e)
  BY DEF Conserved, Apart, AttackApart, DefenceApart
<1> QED
  BY <1>4, <1>5, <1>6, HandsAndTableElsewhere DEF Conserved, Apart

\* A defence taken back.
LEMMA DefenceRecalledConserves ==
  ASSUME NEW d \in Deal, Conserved(d), NEW s \in Seats, NEW slot \in d.table,
         slot.defence # None, NEW bare, bare.attack = slot.attack, bare.defence = None,
         NEW e, HandsAndTable(d, e),
         e.hand = [d.hand EXCEPT ![s] = @ \cup {slot.defence}],
         e.table = (d.table \ {slot}) \cup {bare}
  PROVE  Conserved(e)
<1> DEFINE card == slot.defence
<1>1. card \in Card /\ d.hand \in [Seats -> SUBSET Card] /\ InDefence(d, card)
  BY DEF Deal, Slot, InDefence
<1>2. ~InHand(d, card) /\ ~InAttack(d, card)
  BY <1>1, InOneZone
<1>3. ASSUME NEW x \in Card
      PROVE  /\ InHand(e, x) <=> InHand(d, x) \/ x = card
             /\ InDefence(e, x) <=> InDefence(d, x) /\ x # card
             /\ InAttack(e, x) <=> InAttack(d, x)
  <2>1. InHand(e, x) <=> InHand(d, x) \/ x = card
    BY <1>1 DEF InHand
  <2>2. InDefence(e, x) <=> InDefence(d, x) /\ x # card
    BY CardsAssumption DEF InDefence, Conserved, Apart, DefenceApart
  <2>3. InAttack(e, x) <=> InAttack(d, x)
    BY DEF InAttack
  <2> QED
    BY <2>1, <2>2, <2>3
<1>4. ASSUME NEW x \in Card  PROVE Zones(e, x) = Zones(d, x)
  BY <1>1, <1>2, <1>3, HandsAndTableElsewhere, MovedZones
<1>5. HandsApart(e)
  BY <1>1, <1>2 DEF Conserved, Apart, HandsApart, InHand
<1>6. AttackApart(e) /\ DefenceApart(e)
  BY DEF Conserved, Apart, AttackApart, DefenceApart
<1> QED
  BY <1>4, <1>5, <1>6, HandsAndTableElsewhere DEF Conserved, Apart

\* An objection changes what is noted of a slot, not its cards.
LEMMA PinnedConserves ==
  ASSUME NEW d \in Deal, Conserved(d), NEW slot \in d.table,
         NEW pinned, pinned.attack = slot.attack, pinned.defence = slot.defence,
         NEW e, HandsAndTable(d, e), e.hand = d.hand,
         e.table = (d.table \ {slot}) \cup {pinned}
  PROVE  Conserved(e)
<1>1. ASSUME NEW x \in Card
      PROVE  /\ InHand(e, x) <=> InHand(d, x)
             /\ InDefence(e, x) <=> InDefence(d, x)
             /\ InAttack(e, x) <=> InAttack(d, x)
  BY DEF InHand, InDefence, InAttack
<1>2. ASSUME NEW x \in Card  PROVE Zones(e, x) = Zones(d, x)
  BY <1>1, HandsAndTableElsewhere, MovedZones
<1>3. HandsApart(e) /\ AttackApart(e) /\ DefenceApart(e)
  BY DEF Conserved, Apart, HandsApart, AttackApart, DefenceApart
<1> QED
  BY <1>2, <1>3, HandsAndTableElsewhere DEF Conserved, Apart

-----------------------------------------------------------------------------
\* Refilling.

\* Was the last card of the deck drawn, and is it a joker?
JokerDrawn(d) == /\ Len(d.deck) > 0 /\ DrawnCount(d) = Len(d.deck)
                 /\ IsJoker(d.deck[Len(d.deck)])

\* The positions of the deck that are drawn to a hand.
ToHand(d) == {j \in 1 .. DrawnCount(d) : ~(JokerDrawn(d) /\ j = Len(d.deck))}

\* What refilling writes.
LEMMA RefillWrites ==
  ASSUME NEW d, WellFormed(d), NEW chooser \in Seats
  PROVE  LET r == Refill(d, chooser)
         IN /\ \A s \in Seats : r.hand[s] = d.hand[s] \cup
                 {d.deck[j] : j \in {i \in ToHand(d) : Drawer(d, i) = s}}
            /\ r.deck = SubSeq(d.deck, DrawnCount(d) + 1, Len(d.deck))
            /\ ~JokerDrawn(d) => r.pending = d.pending
            /\ JokerDrawn(d) => /\ r.pending # None
                                /\ r.pending.card = d.deck[Len(d.deck)]
            /\ r.faceDown = d.faceDown /\ r.hung = d.hung /\ r.table = d.table
            /\ r.discard = d.discard /\ r.phase = d.phase /\ r.window = d.window
<1> DEFINE last  == Len(d.deck)
           toLast == last > 0 /\ DrawnCount(d) = last
           hand  == [s \in Seats |-> d.hand[s] \cup
                       {d.deck[j] : j \in {i \in ToHand(d) : Drawer(d, i) = s}}]
           deck  == SubSeq(d.deck, DrawnCount(d) + 1, last)
           trump == IF toLast /\ ~JokerDrawn(d) THEN d.deck[last].suit ELSE d.trump
           pending == IF JokerDrawn(d)
                        THEN [card |-> d.deck[last], recipient |-> Drawer(d, last),
                              chooser |-> chooser] ELSE d.pending
           r     == Refill(d, chooser)
<1>0. d \in Deal
  BY DEF WellFormed
<1>1. r = [d EXCEPT !.hand = hand, !.deck = deck, !.trump = trump, !.pending = pending]
  BY DEF Refill, JokerDrawn, ToHand
<1>2. /\ r.hand = hand /\ r.deck = deck /\ r.pending = pending
      /\ r.faceDown = d.faceDown /\ r.hung = d.hung /\ r.table = d.table
      /\ r.discard = d.discard /\ r.phase = d.phase /\ r.window = d.window
  <2> HIDE DEF hand, deck, trump, pending, r
  <2> QED
    BY <1>0, <1>1 DEF Deal
<1>3. JokerDrawn(d) => pending # None /\ pending.card = d.deck[last]
  <2> SUFFICES ASSUME JokerDrawn(d)  PROVE pending # None
    OBVIOUS
  <2>1. DrawnCount(d) \in 0 .. last /\ last \in Nat
    BY <1>0, AsksCounted
  <2>2. last \in 1 .. DrawnCount(d) /\ d.deck[last] \in Card
    BY <1>0, <2>1, ElementOfSeq DEF JokerDrawn, Deal
  <2>3. Drawer(d, last) \in Seats
    BY <1>0, <2>2, DrawerInDeal DEF Deal
  <2>4. pending \in Pending
    BY <2>2, <2>3 DEF Pending
  <2> QED
    BY <2>4, NoneAssumption
<1> HIDE DEF deck, pending
<1> QED
  BY <1>2, <1>3 DEF deck, pending

\* What is drawn leaves the deck and is in one hand, or waits aside if it is the joker.
LEMMA RefillConserves ==
  ASSUME NEW d, Sound(d), Conserved(d), NEW chooser \in Seats
  PROVE  Conserved(Refill(d, chooser))
<1> DEFINE last == Len(d.deck)
           n    == DrawnCount(d)
           r    == Refill(d, chooser)
<1>1. /\ WellFormed(d) /\ d \in Deal /\ d.deck \in Seq(Card)
      /\ n \in 0 .. last /\ last \in Nat
      /\ DOMAIN d.deck = 1 .. last
      /\ \A j \in 1 .. last : d.deck[j] \in Card
  <2>1. WellFormed(d) /\ d \in Deal /\ d.deck \in Seq(Card)
    BY DEF Sound, WellFormed, Deal
  <2>2. n \in 0 .. last /\ last \in Nat
    BY <2>1, AsksCounted
  <2> QED
    BY <2>1, <2>2, ElementOfSeq, LenProperties
<1>2. /\ \A s \in Seats : r.hand[s] = d.hand[s] \cup
           {d.deck[j] : j \in {i \in ToHand(d) : Drawer(d, i) = s}}
      /\ r.deck = SubSeq(d.deck, n + 1, last)
      /\ ~JokerDrawn(d) => r.pending = d.pending
      /\ JokerDrawn(d) => r.pending # None /\ r.pending.card = d.deck[last]
      /\ r.faceDown = d.faceDown /\ r.hung = d.hung /\ r.table = d.table
      /\ r.discard = d.discard
  BY <1>1, RefillWrites
<1>3. \A j \in ToHand(d) : j \in 1 .. n /\ j \in 1 .. last /\ Drawer(d, j) \in Seats
  BY <1>1, DrawerInDeal DEF ToHand, Deal
<1>4. /\ DOMAIN r.deck = 1 .. last - n
      /\ \A i \in 1 .. last - n : n + i \in 1 .. last /\ r.deck[i] = d.deck[n + i]
  <2>1. \A j \in n + 1 .. last : d.deck[j] \in Card
    BY <1>1
  <2>2. /\ r.deck \in Seq(Card)
        /\ Len(r.deck) = IF n + 1 <= last THEN last - (n + 1) + 1 ELSE 0
        /\ \A i \in 1 .. last - (n + 1) + 1 : r.deck[i] = d.deck[n + 1 + i - 1]
    <3> HIDE DEF n, last, r
    <3>1. n + 1 \in Int /\ last \in Int
      BY <1>1
    <3> QED
      BY <1>2, <2>1, <3>1, SubSeqProperties
  <2>3. Len(r.deck) = last - n
    BY <1>1, <2>2
  <2>4. DOMAIN r.deck = 1 .. last - n
    BY <2>2, <2>3, LenProperties
  <2> HIDE DEF n, last, r
  <2>5. ASSUME NEW i \in 1 .. last - n
        PROVE  n + i \in 1 .. last /\ i \in 1 .. last - (n + 1) + 1 /\ n + 1 + i - 1 = n + i
    BY <1>1
  <2>6. ASSUME NEW i \in 1 .. last - n
        PROVE  n + i \in 1 .. last /\ r.deck[i] = d.deck[n + i]
    BY <2>2, <2>5
  <2> QED
    BY <2>4, <2>6
<1>5. JokerDrawn(d) => n = last /\ last \in 1 .. last /\ d.pending = None
  BY <1>1, EmptySeq DEF JokerDrawn, Sound, Early
<1> HIDE DEF n, last, r
<1>6. \A j \in 1 .. last : j \in ToHand(d) \/ (JokerDrawn(d) /\ j = last) \/ j \in n + 1 .. last
  BY <1>1 DEF ToHand, n, last
<1>7. \A j \in ToHand(d) : j <= n /\ ~(JokerDrawn(d) /\ j = last)
  BY <1>1 DEF ToHand, n, last
<1> DEFINE Drawn(c) == \E j \in ToHand(d) : c = d.deck[j]
           Left(c)  == \E j \in n + 1 .. last : c = d.deck[j]
           Set(c)   == JokerDrawn(d) /\ c = d.deck[last]
<1>8. ASSUME NEW c \in Card
      PROVE  /\ InHand(r, c) <=> InHand(d, c) \/ Drawn(c)
             /\ InDeck(r, c) <=> Left(c)
             /\ IsAside(r, c) <=> Set(c) \/ IsAside(d, c)
             /\ InDeck(d, c) <=> Drawn(c) \/ Left(c) \/ Set(c)
             /\ ~(Drawn(c) /\ Left(c)) /\ ~(Drawn(c) /\ Set(c)) /\ ~(Left(c) /\ Set(c))
  <2>1. InHand(r, c) <=> InHand(d, c) \/ Drawn(c)
    BY <1>2, <1>3 DEF InHand
  <2>2. InDeck(r, c) <=> Left(c)
    <3>1. ASSUME NEW j \in n + 1 .. last
          PROVE  j - n \in 1 .. last - n /\ r.deck[j - n] = d.deck[j]
      BY <1>1, <1>4
    <3>2. ASSUME NEW i \in 1 .. last - n
          PROVE  n + i \in n + 1 .. last /\ r.deck[i] = d.deck[n + i]
      BY <1>1, <1>4
    <3>3. Left(c) => InDeck(r, c)
      BY <1>4, <3>1 DEF InDeck
    <3>4. InDeck(r, c) => Left(c)
      BY <1>4, <3>2 DEF InDeck
    <3> QED
      BY <3>3, <3>4
  <2>3. IsAside(r, c) <=> Set(c) \/ IsAside(d, c)
    BY <1>2, <1>5 DEF IsAside
  <2>4. InDeck(d, c) <=> Drawn(c) \/ Left(c) \/ Set(c)
    BY <1>1, <1>3, <1>5, <1>6 DEF InDeck
  <2>5. DeckApart(d)
    BY DEF Conserved, Apart
  <2>6. ~(Drawn(c) /\ Left(c)) /\ ~(Drawn(c) /\ Set(c)) /\ ~(Left(c) /\ Set(c))
    BY <1>1, <1>3, <1>5, <1>7, <2>5 DEF DeckApart
  <2> QED
    BY <2>1, <2>2, <2>3, <2>4, <2>6
<1>9. ASSUME NEW c \in Card
      PROVE  /\ IsCovered(r, c) <=> IsCovered(d, c)
             /\ IsHung(r, c) <=> IsHung(d, c)
             /\ InAttack(r, c) <=> InAttack(d, c)
             /\ InDefence(r, c) <=> InDefence(d, c)
             /\ IsGone(r, c) <=> IsGone(d, c)
  BY <1>2 DEF IsCovered, IsHung, InAttack, InDefence, IsGone
<1>10. ASSUME NEW c \in Card  PROVE Zones(r, c) = Zones(d, c)
  <2>1. Zones(d, c) \in {0, 1}
    BY DEF Conserved, One
  <2> HIDE DEF Drawn, Left, Set
  <2> QED
    BY <1>8, <1>9, <2>1 DEF Zones, One
<1>11. HandsApart(r)
  <2> SUFFICES ASSUME NEW s \in Seats, NEW t \in Seats, NEW c,
                      c \in r.hand[s], c \in r.hand[t]
               PROVE  s = t
    BY DEF HandsApart
  <2>1. \A j \in ToHand(d) : d.deck[j] \in Card /\ InDeck(d, d.deck[j])
    BY <1>1, <1>3 DEF InDeck
  <2>2. \A j \in ToHand(d) : ~InHand(d, d.deck[j])
    BY <2>1, InOneZone
  <2>3. \A i, j \in ToHand(d) : d.deck[i] = d.deck[j] => i = j
    BY <1>1, <1>3 DEF Conserved, Apart, DeckApart
  <2>4. c \in d.hand[s] /\ c \in d.hand[t] => s = t
    BY DEF Conserved, Apart, HandsApart
  <2> QED
    BY <1>2, <2>2, <2>3, <2>4 DEF InHand
<1>12. DeckApart(r)
  <2>1. \A i, j \in 1 .. last : d.deck[i] = d.deck[j] => i = j
    BY <1>1 DEF Conserved, Apart, DeckApart
  <2> SUFFICES ASSUME NEW i \in 1 .. last - n, NEW j \in 1 .. last - n,
                      r.deck[i] = r.deck[j]
               PROVE  i = j
    BY <1>4 DEF DeckApart
  <2>2. n + i = n + j
    BY <1>4, <2>1
  <2> QED
    BY <1>1, <2>2
<1>13. CoveredApart(r) /\ HungApart(r) /\ AttackApart(r) /\ DefenceApart(r)
  BY <1>2 DEF Conserved, Apart, CoveredApart, HungApart, AttackApart, DefenceApart
<1> QED
  BY <1>10, <1>11, <1>12, <1>13 DEF Conserved, Apart, r

-----------------------------------------------------------------------------
\* The end of a round.

\* A claim is noted only while the window is open: in another phase there is nothing to hold.
LEMMA NoWindowNoClaims ==
  ASSUME NEW d, Conserved(d), d.phase # "HANGING"
  PROVE  Kept(d)
BY DEF Kept, ClaimsAreHeld

\* Leaving the deal moves no card.
LEMMA MarkExitsSame ==
  ASSUME NEW d \in Deal
  PROVE  SameCards(d, MarkExits(d))
<1> DEFINE inDeal == d.inDeal \ Leavers(d)
           rank(s) == Cardinality({t \in Leavers(d) : OrderOf(d, t) <= OrderOf(d, s)})
           places == [s \in Seats |-> IF s \in Leavers(d)
                                        THEN Cardinality(Seats \ d.inDeal) + rank(s)
                                        ELSE d.exitPlace[s]]
           r      == MarkExits(d)
<1>1. r = [d EXCEPT !.inDeal = inDeal, !.exitPlace = places]
  BY DEF MarkExits, Deal
<1> SUFFICES SameCards(d, r)
  OBVIOUS
<1> HIDE DEF inDeal, places, r
<1> QED
  BY <1>1 DEF Deal, SameCards

\* Nor does the start of the next round.
LEMMA StartNextRoundSame ==
  ASSUME NEW d \in Deal, NEW taken \in BOOLEAN
  PROVE  SameCards(d, StartNextRound(d, taken))
<1> DEFINE starter == IF taken \/ d.defender \notin d.inDeal
                        THEN NextActive(d, d.defender) ELSE d.defender
           phase   == IF d.pending = None THEN "ATTACK" ELSE "DICE"
           next    == NextActive(d, starter)
           r       == StartNextRound(d, taken)
<1>1. r = [d EXCEPT !.phase = phase, !.starter = starter, !.right = starter,
                    !.defender = next, !.passed = {}, !.anyBeaten = FALSE]
  BY DEF StartNextRound
<1> SUFFICES SameCards(d, r)
  OBVIOUS
<1> HIDE DEF starter, phase, next, r
<1> QED
  BY <1>1 DEF Deal, SameCards

\* A round ends without losing a card, and not in the hanging phase.
LEMMA FinishRoundConserves ==
  ASSUME NEW d, Running(d), Conserved(d), NEW taken \in BOOLEAN, NEW chooser \in Seats
  PROVE  Kept(FinishRound(d, taken, chooser))
<1> DEFINE full == Refill(d, chooser)
           left == MarkExits(full)
           over == [left EXCEPT !.phase = "DEAL_OVER"]
           next == StartNextRound(left, taken)
<1>1. Sound(full) /\ Conserved(full)
  BY RefillKeeps, RefillConserves DEF Running
<1>2. Sound(left) /\ Conserved(left) /\ left \in Deal
  <2> HIDE DEF full
  <2>1. Sound(left) /\ SameCards(full, left)
    BY <1>1, MarkExitsKeeps, MarkExitsSame DEF Sound, WellFormed
  <2> HIDE DEF left
  <2> QED
    BY <1>1, <2>1, SameCardsConserve DEF Sound, WellFormed
<1> HIDE DEF full, left
<1>3. Conserved(over) /\ over.phase # "HANGING"
  <2>1. SameCards(left, over) /\ over.phase = "DEAL_OVER"
    BY <1>2 DEF Deal, SameCards
  <2> HIDE DEF over
  <2> QED
    BY <1>2, <2>1, SameCardsConserve
<1>4. Conserved(next) /\ next.phase # "HANGING"
  <2>1. SameCards(left, next) /\ next.phase \in {"ATTACK", "DICE"}
    BY <1>2, StartNextRoundKeeps, StartNextRoundSame
  <2> HIDE DEF next
  <2> QED
    BY <1>2, <2>1, SameCardsConserve
<1>5. FinishRound(d, taken, chooser) \in {over, next}
  BY DEF FinishRound, full, left
<1> HIDE DEF over, next
<1> QED
  BY <1>3, <1>4, <1>5, NoWindowNoClaims

\* What clearing the table writes.
LEMMA ClearTableWrites ==
  ASSUME NEW d \in Deal, NEW discarded \in BOOLEAN
  PROVE  LET r == ClearTable(d, discarded)
         IN /\ r.hand = d.hand /\ r.faceDown = d.faceDown /\ r.hung = d.hung
            /\ r.deck = d.deck /\ r.pending = d.pending /\ r.table = {}
            /\ r.discard = IF discarded THEN d.discard \cup TableCards(d) ELSE d.discard
<1> DEFINE discard == IF discarded THEN d.discard \cup TableCards(d) ELSE d.discard
           anyDiscarded == d.anyDiscarded \/ discarded
           attack  == AttackCards(d)
           r       == ClearTable(d, discarded)
<1>1. r = [d EXCEPT !.lastAttack = attack, !.table = {},
                    !.anyDiscarded = anyDiscarded, !.discard = discard]
  BY DEF ClearTable, Deal
<1>2. /\ r.hand = d.hand /\ r.faceDown = d.faceDown /\ r.hung = d.hung
      /\ r.deck = d.deck /\ r.pending = d.pending /\ r.table = {}
      /\ r.discard = discard
  <2> HIDE DEF attack, discard, anyDiscarded, r
  <2> QED
    BY <1>1 DEF Deal
<1> QED
  BY <1>2

\* A beaten table goes to the pile.
LEMMA RoundBeatenConserves ==
  ASSUME NEW d, Running(d), Conserved(d), NEW chooser \in Seats
  PROVE  Kept(RoundBeaten(d, chooser))
<1> DEFINE e == ClearTable(d, TRUE)
<1>1. d \in Deal /\ Running(e)
  BY ClearTableKeeps DEF Running, Sound, WellFormed
<1>2. /\ e.hand = d.hand /\ e.faceDown = d.faceDown /\ e.hung = d.hung
      /\ e.deck = d.deck /\ e.pending = d.pending /\ e.table = {}
      /\ e.discard = d.discard \cup TableCards(d)
  BY <1>1, ClearTableWrites
<1>3. RoundBeaten(d, chooser) = FinishRound(e, FALSE, chooser)
  BY DEF RoundBeaten
<1> HIDE DEF e
<1> QED
  BY <1>1, <1>2, <1>3, DiscardedConserves, FinishRoundConserves

\* A window opens with nothing claimed.
LEMMA OpenHangingWindowConserves ==
  ASSUME NEW d, Running(d), Conserved(d), NEW chooser \in Seats
  PROVE  Kept(OpenHangingWindow(d, chooser))
<1> DEFINE window == [victim |-> d.defender, steps |-> HangingSteps(d, d.defender),
                      stepIndex |-> 1, claims |-> {}, decided |-> {},
                      everyone |-> IsEveryClaimantHanging(d, d.defender)]
           r      == [d EXCEPT !.phase = "HANGING", !.window = window]
<1>1. d \in Deal
  BY DEF Running, Sound, WellFormed
<1>2. window.claims = {}
  OBVIOUS
<1>3. SameCards(d, r) /\ r.window = window
  <2> HIDE DEF window
  <2> QED
    BY <1>1 DEF Deal, SameCards
<1>4. OpenHangingWindow(d, chooser) \in {r, FinishRound(d, TRUE, chooser)}
  BY DEF OpenHangingWindow
<1> HIDE DEF window, r
<1>5. Kept(r)
  BY <1>2, <1>3, SameCardsConserve DEF Kept, ClaimsAreHeld
<1> QED
  BY <1>4, <1>5, FinishRoundConserves

\* The table taken goes to the hand of the defender.
LEMMA CollectTableConserves ==
  ASSUME NEW d, Running(d), Conserved(d), NEW chooser \in Seats
  PROVE  Kept(CollectTable(d, chooser))
<1> DEFINE hand  == [d.hand EXCEPT ![d.defender] = @ \cup TableCards(d)]
           taken == [d EXCEPT !.hand = hand]
           e     == ClearTable(taken, FALSE)
<1>1. d \in Deal /\ d.hand \in [Seats -> SUBSET Card] /\ d.defender \in Seats
  BY DEF Running, Sound, WellFormed, Deal
<1>2. hand \in [Seats -> SUBSET Card]
  <2>1. TableCards(d) \in SUBSET Card
    BY <1>1, TableIsCards
  <2> QED
    BY <1>1, <2>1
<1>3. /\ Running(taken) /\ taken \in Deal
      /\ taken.hand = hand /\ taken.faceDown = d.faceDown /\ taken.hung = d.hung
      /\ taken.deck = d.deck /\ taken.pending = d.pending /\ taken.discard = d.discard
  <2> HIDE DEF hand
  <2>1. Running(taken)
    BY <1>2, HandKeeps
  <2> QED
    BY <1>1, <2>1 DEF Running, Sound, WellFormed, Deal
<1>4. Running(e) /\ e.hand = hand /\ e.table = {} /\ HandsAndTable(d, e)
  <2> HIDE DEF taken, hand
  <2>1. /\ e.hand = taken.hand /\ e.faceDown = taken.faceDown /\ e.hung = taken.hung
        /\ e.deck = taken.deck /\ e.pending = taken.pending /\ e.table = {}
        /\ e.discard = taken.discard
    BY <1>3, ClearTableWrites
  <2>2. Running(e)
    BY <1>3, ClearTableKeeps
  <2> HIDE DEF e
  <2> QED
    BY <1>3, <2>1, <2>2 DEF HandsAndTable
<1>5. CollectTable(d, chooser) = OpenHangingWindow(e, chooser)
  BY DEF CollectTable
<1> HIDE DEF taken, e
<1>6. Conserved(e)
  BY <1>1, <1>4, TakenUpConserves
<1> QED
  BY <1>4, <1>5, <1>6, OpenHangingWindowConserves

-----------------------------------------------------------------------------
\* The moves.

\* A pass moves no card but those of a round it ends.
LEMMA PassedConserves ==
  ASSUME NEW d, Running(d), Conserved(d), NEW s \in Seats, NEW chooser \in Seats
  PROVE  Kept(Passed(d, s, chooser))
<1> DEFINE passed == d.passed \cup {s}
           after  == [d EXCEPT !.passed = passed]
           next   == NextAttacker(after)
           phase  == IF d.phase = "TAKING" THEN "TAKING"
                     ELSE IF Unbeaten(d) # {} THEN "DEFEND" ELSE "ATTACK"
           handed == [after EXCEPT !.right = next, !.phase = phase]
           stays  == [after EXCEPT !.phase = "DEFEND"]
<1>1. d \in Deal
  BY DEF Running, Sound, WellFormed
<1>2. after \in Deal /\ SameFrame(d, after) /\ SameCards(d, after) /\ after.phase = d.phase
  <2> HIDE DEF passed
  <2>1. passed \in SUBSET Seats
    BY <1>1 DEF Deal, passed
  <2> QED
    BY <1>1, <2>1 DEF Deal, SameFrame, SameCards
<1>3. Running(after) /\ Conserved(after)
  <2> HIDE DEF after
  <2> QED
    BY <1>2, FrameKeeps, SameCardsConserve
<1>4. Conserved(handed) /\ handed.phase # "HANGING"
  <2>1. phase # "HANGING"
    OBVIOUS
  <2>2. SameCards(after, handed) /\ handed.phase = phase
    <3> HIDE DEF after, phase, next
    <3> QED
      BY <1>2 DEF Deal, SameCards
  <2> HIDE DEF handed, after, phase
  <2> QED
    BY <1>3, <2>1, <2>2, SameCardsConserve
<1>5. Conserved(stays) /\ stays.phase # "HANGING"
  <2>1. SameCards(after, stays) /\ stays.phase = "DEFEND"
    <3> HIDE DEF after
    <3> QED
      BY <1>2 DEF Deal, SameCards
  <2> HIDE DEF stays, after
  <2> QED
    BY <1>3, <2>1, SameCardsConserve
<1>6. Passed(d, s, chooser)
        \in {handed, CollectTable(after, chooser), stays, RoundBeaten(after, chooser)}
  <2>1. CASE next # None
    BY <1>2, <2>1 DEF Passed
  <2>2. CASE next = None
    BY <2>2 DEF Passed
  <2> QED
    BY <2>1, <2>2
<1> HIDE DEF handed, stays, after
<1> QED
  BY <1>3, <1>4, <1>5, <1>6, NoWindowNoClaims, CollectTableConserves, RoundBeatenConserves

\* A card of the attacker goes from his hand to the table.
LEMMA AttackedConserves ==
  ASSUME NEW d, Running(d), Conserved(d), NEW s \in Seats, NEW c \in d.hand[s],
         NEW chooser \in Seats
  PROVE  Kept(Attacked(d, s, c, chooser))
<1> DEFINE hand  == [d.hand EXCEPT ![s] = @ \ {c}]
           table == d.table \cup {NewSlot(c, s)}
           phase == IF d.phase = "TAKING" THEN "TAKING" ELSE "DEFEND"
           laid  == [d EXCEPT !.hand = hand, !.table = table, !.phase = phase]
<1>1. d \in Deal /\ c \in Card
  BY DEF Running, Sound, WellFormed, Deal
<1>2. hand \in [Seats -> SUBSET Card] /\ table \in SUBSET Slot
  BY <1>1, NewSlotType DEF Deal
<1>3. /\ laid \in Deal /\ SameFrame(d, laid) /\ HandsAndTable(d, laid)
      /\ laid.hand = hand /\ laid.table = table /\ laid.phase # "HANGING"
  <2>1. phase \in Phases /\ phase # "HANGING"
    BY DEF Phases
  <2> HIDE DEF hand, table, phase
  <2> QED
    BY <1>1, <1>2, <2>1 DEF Deal, SameFrame, HandsAndTable
<1>4. Attacked(d, s, c, chooser) \in {laid, Passed(laid, s, chooser)}
  BY DEF Attacked
<1> HIDE DEF laid
<1>5. Running(laid) /\ Conserved(laid)
  BY <1>1, <1>3, FrameKeeps, LaidConserves
<1> QED
  BY <1>3, <1>4, <1>5, NoWindowNoClaims, PassedConserves

\* A card of the defender goes from his hand to the card it beats.
LEMMA DefendedConserves ==
  ASSUME NEW d, Running(d), Conserved(d), NEW s \in Seats, NEW c \in d.hand[s],
         NEW target, \E slot \in Unbeaten(d) : slot.attack = target, NEW chooser \in Seats
  PROVE  Kept(Defended(d, s, c, target, chooser))
<1> DEFINE hand   == [d.hand EXCEPT ![s] = @ \ {c}]
           beaten == BeatenTable(d, s, c, target)
           after  == [d EXCEPT !.hand = hand, !.table = beaten, !.anyBeaten = TRUE]
           open   == [after EXCEPT !.phase = "ATTACK"]
           defend == [after EXCEPT !.phase = "DEFEND"]
           next   == NextAttacker(open)
           handed == [open EXCEPT !.right = next]
<1>1. d \in Deal /\ c \in Card
  BY DEF Running, Sound, WellFormed, Deal
<1>2. hand \in [Seats -> SUBSET Card]
  BY <1>1 DEF Deal
<1>3. beaten \in SUBSET Slot
  <2>1. d.table \in SUBSET Slot
    BY <1>1 DEF Deal
  <2>2. \A slot \in Slot : [slot EXCEPT !.defence = c, !.defenceBy = s] \in Slot
    BY <1>1 DEF Slot
  <2> QED
    BY <2>1, <2>2 DEF BeatenTable
<1>4. /\ after \in Deal /\ SameFrame(d, after) /\ HandsAndTable(d, after)
      /\ after.hand = hand /\ after.table = beaten
  <2> HIDE DEF hand, beaten
  <2> QED
    BY <1>1, <1>2, <1>3 DEF Deal, SameFrame, HandsAndTable
<1>5. \E old \in d.table : \E new :
        /\ old.defence = None /\ new.attack = old.attack /\ new.defence = c
        /\ beaten = (d.table \ {old}) \cup {new}
  BY <1>1, TargetIsBeaten
<1>6. Running(after) /\ Conserved(after)
  <2> HIDE DEF after, beaten
  <2>1. PICK old \in d.table : \E new :
          /\ old.defence = None /\ new.attack = old.attack /\ new.defence = c
          /\ beaten = (d.table \ {old}) \cup {new}
    BY <1>5
  <2>2. PICK new :
          /\ old.defence = None /\ new.attack = old.attack /\ new.defence = c
          /\ beaten = (d.table \ {old}) \cup {new}
    BY <2>1
  <2> QED
    BY <1>1, <1>4, <2>2, FrameKeeps, SlotBeatenConserves
<1>7. /\ open \in Deal /\ SameFrame(after, open) /\ SameCards(after, open)
      /\ open.phase = "ATTACK"
      /\ SameCards(after, defend) /\ defend.phase = "DEFEND"
  <2> HIDE DEF after
  <2> QED
    BY <1>4 DEF Deal, SameFrame, SameCards, Phases
<1>8. /\ Running(open) /\ Conserved(open)
      /\ Conserved(defend) /\ defend.phase # "HANGING"
  <2> HIDE DEF after, open, defend
  <2> QED
    BY <1>6, <1>7, FrameKeeps, SameCardsConserve
<1>9. Conserved(handed) /\ handed.phase # "HANGING"
  <2>1. SameCards(open, handed) /\ handed.phase = "ATTACK"
    <3> HIDE DEF open, next
    <3> QED
      BY <1>7 DEF Deal, SameCards
  <2> HIDE DEF open, handed
  <2> QED
    BY <1>8, <2>1, SameCardsConserve
<1>10. Defended(d, s, c, target, chooser) \in {defend, handed, RoundBeaten(open, chooser)}
  BY DEF Defended, BeatenTable
<1> HIDE DEF open, defend, handed
<1> QED
  BY <1>8, <1>9, <1>10, NoWindowNoClaims, RoundBeatenConserves

\* The card of the transfer joins the attack.
LEMMA TransferredConserves ==
  ASSUME NEW d, Running(d), Conserved(d), NEW s \in Seats, NEW c \in d.hand[s]
  PROVE  Kept(Transferred(d, s, c))
<1> DEFINE hand  == [d.hand EXCEPT ![s] = @ \ {c}]
           table == d.table \cup {NewSlot(c, s)}
           next  == NextActive(d, s)
           r     == Transferred(d, s, c)
<1>1. d \in Deal
  BY DEF Running, Sound, WellFormed
<1>2. r = [d EXCEPT !.hand = hand, !.table = table, !.starter = s, !.right = s,
                    !.defender = next, !.passed = {}, !.phase = "DEFEND"]
  BY DEF Transferred
<1>3. /\ HandsAndTable(d, r) /\ r.hand = hand /\ r.table = table /\ r.phase = "DEFEND"
  <2> HIDE DEF hand, table, next, r
  <2> QED
    BY <1>1, <1>2 DEF Deal, HandsAndTable
<1>4. Kept(r)
  <2> HIDE DEF r
  <2>1. Conserved(r)
    BY <1>1, <1>3, LaidConserves
  <2> QED
    BY <1>3, <2>1, NoWindowNoClaims
<1> QED
  BY <1>4

\* "Take" moves the table at once, or waits.
LEMMA TakenConserves ==
  ASSUME NEW d, Running(d), Conserved(d), NEW chooser \in Seats
  PROVE  Kept(Taken(d, chooser))
<1> DEFINE taking == [d EXCEPT !.phase = "TAKING"]
<1>1. d \in Deal
  BY DEF Running, Sound, WellFormed
<1>2. /\ taking \in Deal /\ SameFrame(d, taking) /\ SameCards(d, taking)
      /\ taking.phase = "TAKING"
  BY <1>1 DEF Deal, SameFrame, SameCards, Phases
<1>3. Taken(d, chooser) \in {taking, CollectTable(taking, chooser)}
  BY DEF Taken
<1> HIDE DEF taking
<1>4. Running(taking) /\ Conserved(taking)
  BY <1>2, FrameKeeps, SameCardsConserve
<1> QED
  BY <1>2, <1>3, <1>4, NoWindowNoClaims, CollectTableConserves

\* A card turned up comes to the hand of its owner, and no claim loses its card.
LEMMA RevealedKeepsCards ==
  ASSUME NEW d, Running(d), Kept(d), NEW s \in Seats, CanPlayFaceDown(d, s)
  PROVE  /\ Kept(Revealed(d, s))
         /\ d.faceDown[s] \in Revealed(d, s).hand[s]
<1> DEFINE hand     == [d.hand EXCEPT ![s] = @ \cup {d.faceDown[s]}]
           faceDown == [d.faceDown EXCEPT ![s] = None]
           r        == Revealed(d, s)
<1>1. d \in Deal /\ d.faceDown[s] # None /\ d.hand \in [Seats -> SUBSET Card]
  BY DEF Running, Sound, WellFormed, CanPlayFaceDown, Deal
<1>2. r = [d EXCEPT !.hand = hand, !.faceDown = faceDown]
  BY DEF Revealed
<1>3. /\ r.hand = hand /\ r.faceDown = faceDown
      /\ r.hung = d.hung /\ r.deck = d.deck /\ r.pending = d.pending /\ r.table = d.table
      /\ r.discard = d.discard /\ r.phase = d.phase /\ r.window = d.window
  <2> HIDE DEF hand, faceDown, r
  <2> QED
    BY <1>1, <1>2 DEF Deal
<1>4. Kept(r) /\ d.faceDown[s] \in r.hand[s]
  <2> HIDE DEF r
  <2>1. Conserved(r)
    BY <1>1, <1>3, RevealedConserves DEF Kept
  <2>2. \A t \in Seats : d.hand[t] \subseteq r.hand[t]
    BY <1>1, <1>3
  <2>3. d \in Deal /\ \A cl \in Claim : cl.seat \in Seats
    BY <1>1 DEF Claim
  <2>4. d.window # None => d.window.claims \in SUBSET Claim
    BY <1>1 DEF Deal, Window
  <2>5. ClaimsAreHeld(r)
    BY <1>3, <2>2, <2>3, <2>4 DEF ClaimsAreHeld, Kept
  <2>6. d.faceDown[s] \in r.hand[s]
    BY <1>1, <1>3
  <2> QED
    BY <2>1, <2>5, <2>6 DEF Kept
<1> QED
  BY <1>4

-----------------------------------------------------------------------------
\* The hanging window.

\* The claimed cards that fly are taken from the hands they are in.
LEMMA HungByConserves ==
  ASSUME NEW d, Running(d), Conserved(d), d.window \in Window,
         NEW claims \in SUBSET d.window.claims,
         \A cl \in d.window.claims : cl.card \in d.hand[cl.seat]
  PROVE  Conserved(HungBy(d, claims))
<1> DEFINE v      == d.window.victim
           jokers == {cl \in claims : IsJoker(cl.card)}
           hand   == [s \in Seats |->
                        d.hand[s] \ {cl.card : cl \in {x \in claims : x.seat = s}}]
           hung   == [d.hung EXCEPT ![v] = @ \cup {cl.card : cl \in claims}]
           level  == [d.level EXCEPT ![v] = @ + 1]
           hanger == [d.jokerHanger EXCEPT ![v] =
                        IF jokers = {} THEN @ ELSE (CHOOSE cl \in jokers : TRUE).seat]
           r      == HungBy(d, claims)
<1>1. d \in Deal /\ v \in Seats /\ claims \in SUBSET Claim
  BY DEF Running, Sound, WellFormed, Window
<1>2. r = [d EXCEPT !.hand = hand, !.hung = hung, !.level = level, !.jokerHanger = hanger]
  BY DEF HungBy
<1>3. /\ r.faceDown = d.faceDown /\ r.deck = d.deck /\ r.table = d.table
      /\ r.pending = d.pending /\ r.discard = d.discard
      /\ r.hand = hand /\ r.hung = hung
  <2> HIDE DEF hand, hung, level, hanger, r
  <2> QED
    BY <1>1, <1>2 DEF Deal
<1>4. Conserved(r)
  <2>1. \A cl \in claims : cl.card \in d.hand[cl.seat]
    OBVIOUS
  <2> HIDE DEF r, v, jokers, level, hanger
  <2>2. /\ r.hand = [s \in Seats |-> d.hand[s] \ {cl.card : cl \in {x \in claims : x.seat = s}}]
        /\ r.hung = [d.hung EXCEPT ![v] = @ \cup {cl.card : cl \in claims}]
    BY <1>3
  <2> HIDE DEF hand, hung
  <2> QED
    BY <1>1, <1>3, <2>1, <2>2, HungConserves
<1> QED
  BY <1>4

\* Another window moves no card.
LEMMA WindowConserves ==
  ASSUME NEW d, Running(d), Conserved(d), NEW window
  PROVE  LET r == [d EXCEPT !.window = window]
         IN Conserved(r) /\ r.window = window /\ r.hand = d.hand /\ r.phase = d.phase
<1> DEFINE r == [d EXCEPT !.window = window]
<1>1. d \in Deal
  BY DEF Running, Sound, WellFormed
<1>2. SameCards(d, r) /\ r.window = window /\ r.hand = d.hand /\ r.phase = d.phase
  BY <1>1 DEF Deal, SameCards
<1> HIDE DEF r
<1>3. Conserved(r)
  BY <1>2, SameCardsConserve
<1> QED
  BY <1>2, <1>3 DEF r

\* The window closes with the end of the round.
LEMMA CloseWindowConserves ==
  ASSUME NEW d, Running(d), Conserved(d), NEW chooser \in Seats
  PROVE  Kept(CloseWindow(d, chooser))
<1> DEFINE closed == [d EXCEPT !.window = None]
<1>1. Running(closed)
  BY WindowKeeps
<1>2. Conserved(closed)
  BY WindowConserves
<1>3. CloseWindow(d, chooser) = FinishRound(closed, TRUE, chooser)
  BY DEF CloseWindow
<1> HIDE DEF closed
<1> QED
  BY <1>1, <1>2, <1>3, FinishRoundConserves

\* The window stays, moves to a step with nothing claimed, or closes.
LEMMA AdvanceWindowConserves ==
  ASSUME NEW d, Running(d), Kept(d), d.phase = "HANGING", d.window \in Window,
         NEW winner, NEW chooser \in Seats
  PROVE  Kept(AdvanceWindow(d, winner, chooser))
<1> DEFINE w      == d.window
           chosen == IF w.everyone \/ Cardinality(w.claims) = 1 THEN w.claims
                     ELSE {cl \in w.claims : cl.seat = winner}
           window == [w EXCEPT !.stepIndex = @ + 1, !.claims = {}, !.decided = {}]
           later  == [d EXCEPT !.window = window]
<1>0. \A cl \in w.claims : cl.card \in d.hand[cl.seat]
  <2>1. d.window # None
    BY NoneAssumption
  <2> QED
    BY <2>1 DEF Kept, ClaimsAreHeld
<1>1. chosen \in SUBSET w.claims /\ w.claims \in SUBSET Claim
  BY DEF Window
<1>2. window.claims = {}
  BY DEF Window
<1>3. Kept(later)
  <2> HIDE DEF window
  <2>1. Conserved(later) /\ later.window = window
    BY WindowConserves DEF Kept
  <2> HIDE DEF later
  <2> QED
    BY <1>2, <2>1 DEF Kept, ClaimsAreHeld
<1>4. Running(HungBy(d, chosen)) /\ Conserved(HungBy(d, chosen))
  <2> HIDE DEF chosen
  <2>1. chosen \in SUBSET Claim
    BY <1>1
  <2> QED
    BY <1>0, <1>1, <2>1, HungByKeeps, HungByConserves DEF Kept
<1>5. AdvanceWindow(d, winner, chooser)
        \in {d, later, CloseWindow(d, chooser), CloseWindow(HungBy(d, chosen), chooser)}
  BY DEF AdvanceWindow
<1> HIDE DEF chosen, later
<1> QED
  BY <1>3, <1>4, <1>5, CloseWindowConserves DEF Kept

\* Only cards of the hand are claimed.
LEMMA DecidedConserves ==
  ASSUME NEW d, Running(d), Kept(d), d.phase = "HANGING", d.window \in Window,
         NEW s \in Seats, NEW cards \in SUBSET d.hand[s]
  PROVE  Kept(Decided(d, s, cards)) /\ Decided(d, s, cards).phase = "HANGING"
<1> DEFINE claims == d.window.claims \cup {[seat |-> s, card |-> c] : c \in cards}
           window == [d.window EXCEPT !.claims  = claims, !.decided = @ \cup {s}]
           r      == [d EXCEPT !.window = window]
<1>1. Decided(d, s, cards) = r
  BY DEF Decided
<1>2. window.claims = claims
  <2> HIDE DEF claims
  <2> QED
    BY DEF Window
<1>3. Conserved(r) /\ r.window = window /\ r.hand = d.hand /\ r.phase = d.phase
  <2> HIDE DEF window
  <2> QED
    BY WindowConserves DEF Kept
<1>4. \A cl \in claims : cl.card \in d.hand[cl.seat]
  <2>1. d.window # None
    BY NoneAssumption
  <2> QED
    BY <2>1 DEF Kept, ClaimsAreHeld
<1> HIDE DEF r, window, claims
<1> QED
  BY <1>1, <1>2, <1>3, <1>4 DEF Kept, ClaimsAreHeld

-----------------------------------------------------------------------------
(***************************************************************************)
(* The inductive invariant of the cards.  That every card is in one place  *)
(* is not inductive by itself: the cards that fly in the hanging window    *)
(* must still be in the hands they were claimed from, or they would be     *)
(* doubled; and a deck with a joker at its bottom must find nobody waiting *)
(* for a suit, or the joker aside would be lost.                           *)
(***************************************************************************)
CardsInv == DealInv /\ Kept(deal)

\* The moves of a round keep the cards.
LEMMA RoundConserves ==
  ASSUME CardsInv, NEW s \in Seats, NEW chooser \in Seats, Round(s, chooser)
  PROVE  Kept(deal')
<1>0. DealInv /\ Kept(deal) /\ Conserved(deal)
  BY DEF CardsInv, Kept
<1>1. CASE \E c \in deal.hand[s] : Attack(s, c, chooser)
  <2>1. PICK c \in deal.hand[s] : Attack(s, c, chooser)
    BY <1>1
  <2>2. Running(deal) /\ deal' = Attacked(deal, s, c, chooser)
    BY <1>0, <2>1, PlayableIsRunning DEF Attack, Playable
  <2> QED
    BY <1>0, <2>2, AttackedConserves
<1>2. CASE \E c \in deal.hand[s] : Transfer(s, c)
  <2>1. PICK c \in deal.hand[s] : Transfer(s, c)
    BY <1>2
  <2>2. Running(deal) /\ deal' = Transferred(deal, s, c)
    BY <1>0, <2>1, PlayableIsRunning DEF Transfer, Playable
  <2> QED
    BY <1>0, <2>2, TransferredConserves
<1>3. CASE \E c \in deal.hand[s] : \E target \in AttackCards(deal) :
             Defend(s, c, target, chooser)
  <2>1. PICK c \in deal.hand[s], target \in AttackCards(deal) : Defend(s, c, target, chooser)
    BY <1>3
  <2>2. /\ Running(deal) /\ deal' = Defended(deal, s, c, target, chooser)
        /\ \E slot \in Unbeaten(deal) : slot.attack = target
    BY <1>0, <2>1, PlayableIsRunning DEF Defend, Playable, CanDefend
  <2> QED
    BY <1>0, <2>2, DefendedConserves
<1>4. CASE Pass(s, chooser)
  <2>1. Running(deal) /\ deal' = Passed(deal, s, chooser)
    BY <1>0, <1>4, PlayableIsRunning DEF Pass, Playable
  <2> QED
    BY <1>0, <2>1, PassedConserves
<1>5. CASE Take(s, chooser)
  <2>1. Running(deal) /\ deal' = Taken(deal, chooser)
    BY <1>0, <1>5, PlayableIsRunning DEF Take, Playable
  <2> QED
    BY <1>0, <2>1, TakenConserves
<1>6. CASE RevealFaceDown(s, chooser)
  <2> DEFINE card == deal.faceDown[s]
             open == Revealed(deal, s)
  <2>1. Running(deal) /\ CanPlayFaceDown(deal, s)
    BY <1>0, <1>6, PlayableIsRunning DEF RevealFaceDown, Playable
  <2>2. Running(open) /\ Kept(open) /\ Conserved(open) /\ card \in open.hand[s]
    BY <1>0, <2>1, RevealedKeeps, RevealedKeepsCards DEF Kept
  <2>3. deal' \in {Attacked(open, s, card, chooser), open}
    BY <1>6 DEF RevealFaceDown
  <2> HIDE DEF open, card
  <2> QED
    BY <2>2, <2>3, AttackedConserves
<1>7. CASE \E target \in Pack : RevealToDefend(s, target, chooser)
  <2> DEFINE card == deal.faceDown[s]
             open == Revealed(deal, s)
  <2>1. PICK target \in Pack : RevealToDefend(s, target, chooser)
    BY <1>7
  <2>2. Running(deal) /\ CanPlayFaceDown(deal, s)
    BY <1>0, <2>1, PlayableIsRunning DEF RevealToDefend, Playable
  <2>3. Running(open) /\ Kept(open) /\ Conserved(open) /\ card \in open.hand[s]
    BY <1>0, <2>2, RevealedKeeps, RevealedKeepsCards DEF Kept
  <2>4. \/ deal' = open
        \/ /\ deal' = Defended(open, s, card, target, chooser)
           /\ \E slot \in Unbeaten(open) : slot.attack = target
    BY <2>1 DEF RevealToDefend, CanDefend
  <2> HIDE DEF open, card
  <2> QED
    BY <2>3, <2>4, DefendedConserves
<1> QED
  BY <1>1, <1>2, <1>3, <1>4, <1>5, <1>6, <1>7 DEF Round

\* So do the decisions in the hanging window.
LEMMA HangingConserves ==
  ASSUME CardsInv, NEW s \in Seats, NEW chooser \in Seats, Hanging(s, chooser)
  PROVE  Kept(deal')
<1>0. DealInv /\ Kept(deal)
  BY DEF CardsInv
<1>1. PICK winner \in Seats :
        \/ \E cards \in SUBSET deal.hand[s] : HangCard(s, cards, winner, chooser)
        \/ HangSkip(s, winner, chooser)
  BY DEF Hanging
<1>2. /\ deal.phase = "HANGING" /\ deal.window # None
      /\ \E cards \in SUBSET deal.hand[s] :
           deal' = AdvanceWindow(Decided(deal, s, cards), winner, chooser)
  BY <1>1 DEF HangCard, HangSkip
<1>3. PICK cards \in SUBSET deal.hand[s] :
        deal' = AdvanceWindow(Decided(deal, s, cards), winner, chooser)
  BY <1>2
<1>4. Running(deal) /\ deal.window \in Window /\ cards \in SUBSET Card
  BY <1>0, <1>2, PlayableIsRunning DEF Deal
<1> DEFINE e == Decided(deal, s, cards)
<1>5. Running(e) /\ e.window \in Window
  BY <1>4, DecidedKeeps
<1>6. Kept(e) /\ e.phase = "HANGING"
  BY <1>0, <1>2, <1>4, DecidedConserves
<1> HIDE DEF e
<1>7. Kept(AdvanceWindow(e, winner, chooser))
  BY <1>5, <1>6, AdvanceWindowConserves
<1> QED
  BY <1>3, <1>7 DEF e

\* Naming the trump moves no card but the one that waited for it.
LEMMA TrumpConserves ==
  ASSUME CardsInv, NEW s \in Seats, Trump(s)
  PROVE  Kept(deal')
<1> PICK suit \in Suits : ChooseTrump(s, suit) \/ ChooseTrumpForHidden(s, suit)
  BY DEF Trump
<1>1. deal \in Deal /\ Conserved(deal)
  BY DEF CardsInv, Kept, DealInv, Sound, WellFormed
<1>2. CASE ChooseTrump(s, suit)
  <2> DEFINE starter == LowestTrumpSeat(deal.hand, suit)
             next    == NextActive(deal, starter)
  <2>1. deal' = [deal EXCEPT !.trump = suit, !.phase = "ATTACK", !.starter = starter,
                             !.right = starter, !.defender = next]
    BY <1>2 DEF ChooseTrump
  <2>2. SameCards(deal, deal') /\ deal'.phase = "ATTACK"
    <3> HIDE DEF starter, next
    <3> QED
      BY <1>1, <2>1 DEF Deal, SameCards
  <2>3. PICK e : e = deal'
    OBVIOUS
  <2>4. Kept(e)
    BY <1>1, <2>2, <2>3, SameCardsConserve, NoWindowNoClaims
  <2> QED
    BY <2>3, <2>4
<1>3. CASE ChooseTrumpForHidden(s, suit)
  <2> DEFINE p    == deal.pending
             hand == [deal.hand EXCEPT ![p.recipient] = @ \cup {p.card}]
  <2>1. deal' = [deal EXCEPT !.trump = suit, !.pending = None, !.phase = "ATTACK",
                             !.hand = hand]
    BY <1>3 DEF ChooseTrumpForHidden
  <2>2. p # None
    BY <1>3 DEF ChooseTrumpForHidden
  <2>3. PICK e : e = deal'
    OBVIOUS
  <2>4. /\ e.faceDown = deal.faceDown /\ e.hung = deal.hung /\ e.deck = deal.deck
        /\ e.table = deal.table /\ e.discard = deal.discard /\ e.pending = None
        /\ e.hand = hand /\ e.phase = "ATTACK"
    <3> HIDE DEF hand
    <3> QED
      BY <1>1, <2>1, <2>3 DEF Deal
  <2>5. Kept(e)
    BY <1>1, <2>2, <2>4, HandedOverConserves, NoWindowNoClaims
  <2> QED
    BY <2>3, <2>5
<1> QED
  BY <1>2, <1>3

\* A card taken back is in the hand again, a card objected to stays where it lies.
LEMMA SecondThoughtsConserve ==
  ASSUME CardsInv, NEW s \in Seats, SecondThoughts(s)
  PROVE  Kept(deal')
<1> PICK slot \in deal.table : \/ RecallAttack(s, slot) \/ RecallDefence(s, slot)
                               \/ PinAttack(s, slot) \/ PinDefence(s, slot)
  BY DEF SecondThoughts
<1>1. /\ deal \in Deal /\ slot \in Slot /\ Conserved(deal) /\ ClaimsAreHeld(deal)
  BY DEF CardsInv, Kept, DealInv, Sound, WellFormed, Deal
<1>2. PICK e : e = deal'
  OBVIOUS
<1>3. CASE RecallAttack(s, slot)
  <2> DEFINE table == deal.table \ {slot}
             hand  == [deal.hand EXCEPT ![s] = @ \cup {slot.attack}]
             phase == IF deal.table = {slot} THEN "ATTACK" ELSE deal.phase
  <2>1. e = [deal EXCEPT !.table = table, !.hand = hand, !.phase = phase]
    BY <1>2, <1>3 DEF RecallAttack
  <2>2. phase # "HANGING" /\ slot.defence = None
    BY <1>3 DEF RecallAttack, IsBeaten
  <2>3. HandsAndTable(deal, e) /\ e.hand = hand /\ e.table = table /\ e.phase = phase
    <3> HIDE DEF table, hand, phase
    <3> QED
      BY <1>1, <2>1 DEF Deal, HandsAndTable
  <2>4. Conserved(e)
    BY <1>1, <2>2, <2>3, AttackRecalledConserves
  <2>5. Kept(e)
    <3> HIDE DEF phase
    <3> QED
      BY <2>2, <2>3, <2>4, NoWindowNoClaims
  <2> QED
    BY <1>2, <2>5
<1>4. CASE RecallDefence(s, slot)
  <2> DEFINE bare  == [slot EXCEPT !.defence = None, !.defenceBy = 0]
             table == (deal.table \ {slot}) \cup {bare}
             hand  == [deal.hand EXCEPT ![s] = @ \cup {slot.defence}]
  <2>1. e = [deal EXCEPT !.table = table, !.hand = hand, !.phase = "DEFEND"]
    BY <1>2, <1>4 DEF RecallDefence
  <2>2. /\ bare.attack = slot.attack /\ bare.defence = None
        /\ slot.defence # None
    BY <1>1, <1>4 DEF RecallDefence, IsBeaten, Slot
  <2>3. HandsAndTable(deal, e) /\ e.hand = hand /\ e.table = table /\ e.phase = "DEFEND"
    <3> HIDE DEF table, hand
    <3> QED
      BY <1>1, <2>1 DEF Deal, HandsAndTable
  <2>4. Conserved(e)
    <3> HIDE DEF bare
    <3> QED
      BY <1>1, <2>2, <2>3, DefenceRecalledConserves
  <2>5. Kept(e)
    BY <2>3, <2>4, NoWindowNoClaims
  <2> QED
    BY <1>2, <2>5
<1>5. ASSUME NEW pinned, pinned.attack = slot.attack, pinned.defence = slot.defence,
             deal' = [deal EXCEPT !.table = (@ \ {slot}) \cup {pinned}]
      PROVE  Kept(deal')
  <2> DEFINE table == (deal.table \ {slot}) \cup {pinned}
  <2>1. e = [deal EXCEPT !.table = table]
    BY <1>2, <1>5
  <2>2. /\ HandsAndTable(deal, e) /\ e.hand = deal.hand /\ e.table = table
        /\ e.phase = deal.phase /\ e.window = deal.window
    <3> HIDE DEF table
    <3> QED
      BY <1>1, <2>1 DEF Deal, HandsAndTable
  <2>3. Conserved(e)
    BY <1>1, <1>5, <2>2, PinnedConserves
  <2>4. Kept(e)
    BY <1>1, <2>2, <2>3 DEF Kept, ClaimsAreHeld
  <2> QED
    BY <1>2, <2>4
<1>6. CASE PinAttack(s, slot)
  <2> DEFINE pinned == [slot EXCEPT !.attackPinned = TRUE]
  <2>1. pinned.attack = slot.attack /\ pinned.defence = slot.defence
    BY <1>1 DEF Slot
  <2>2. deal' = [deal EXCEPT !.table = (@ \ {slot}) \cup {pinned}]
    BY <1>6 DEF PinAttack
  <2> HIDE DEF pinned
  <2> QED
    BY <1>5, <2>1, <2>2
<1>7. CASE PinDefence(s, slot)
  <2> DEFINE pinned == [slot EXCEPT !.defencePinned = TRUE]
  <2>1. pinned.attack = slot.attack /\ pinned.defence = slot.defence
    BY <1>1 DEF Slot
  <2>2. deal' = [deal EXCEPT !.table = (@ \ {slot}) \cup {pinned}]
    BY <1>7 DEF PinDefence
  <2> HIDE DEF pinned
  <2> QED
    BY <1>5, <2>1, <2>2
<1> QED
  BY <1>3, <1>4, <1>6, <1>7

-----------------------------------------------------------------------------
\* The start of the deal.

\* A shuffled pack has each card of the pack once.
LEMMA PackIsShuffled ==
  ASSUME NEW pack \in Shuffles
  PROVE  /\ pack \in Seq(Card) /\ Len(pack) \in Nat /\ DOMAIN pack = 1 .. Len(pack)
         /\ Len(pack) >= N * (DealSize + 1) + 2
         /\ \A j \in 1 .. Len(pack) : pack[j] \in Card
         /\ \A c : c \in Pack <=> \E j \in 1 .. Len(pack) : c = pack[j]
         /\ \A i, j \in 1 .. Len(pack) : pack[i] = pack[j] => i = j
<1>1. /\ pack \in Seq(Pack) /\ pack \in Seq(Card) /\ Len(pack) \in Nat
      /\ Len(pack) = Cardinality(Pack)
      /\ {pack[i] : i \in DOMAIN pack} = Pack
      /\ Len(pack) >= N * (DealSize + 1) + 2
  BY DealAssumption, CardsAssumption, LenProperties
<1>2. DOMAIN pack = 1 .. Len(pack) /\ pack \in [1 .. Len(pack) -> Pack]
  BY <1>1, LenProperties, ElementOfSeq
<1>3. \A c : c \in Pack <=> \E j \in 1 .. Len(pack) : c = pack[j]
  BY <1>1, <1>2
<1>4. pack \in Surjection(1 .. Len(pack), Pack)
  BY <1>2, <1>3 DEF Surjection
<1>5. IsFiniteSet(1 .. Len(pack)) /\ Cardinality(1 .. Len(pack)) = Cardinality(Pack)
  BY <1>1, FS_Interval
<1>6. pack \in Injection(1 .. Len(pack), Pack)
  BY <1>4, <1>5, FS_SurjSameCardinalityImpliesInj
<1>7. \A i, j \in 1 .. Len(pack) : pack[i] = pack[j] => i = j
  BY <1>2, <1>6 DEF Injection, IsInjective
<1> QED
  BY <1>1, <1>2, <1>3, <1>7, ElementOfSeq

\* No position of the pack is dealt twice ...
LEMMA DealtOnce ==
  ASSUME NEW i \in Nat, NEW k \in Nat, NEW s \in Seats, NEW t \in Seats,
         i * N + s + 1 = k * N + t + 1
  PROVE  i = k /\ s = t
<1>1. N \in Nat /\ N * i = i * N /\ N * k = k * N /\ i * N \in Nat /\ k * N \in Nat
  BY CardsAssumption
<1>2. s \in 0 .. N - 1 /\ t \in 0 .. N - 1
  BY DEF Seats
<1>3. ~(i < k)
  <2>1. i < k => N * i + N <= N * k
    BY <1>1, ProductBound
  <2> QED
    BY <1>1, <1>2, <2>1
<1>4. ~(k < i)
  <2>1. k < i => N * k + N <= N * i
    BY <1>1, ProductBound
  <2> QED
    BY <1>1, <1>2, <2>1
<1>5. i = k
  BY <1>3, <1>4
<1> QED
  BY <1>1, <1>2, <1>5

\* ... and each of the first ones goes to a hand.
LEMMA EveryoneIsDealt ==
  ASSUME NEW size \in Nat, NEW j \in 1 .. N * size
  PROVE  \E s \in Seats, i \in 0 .. size - 1 : j = i * N + s + 1
<1>1. N \in Nat /\ N >= 2 /\ N * size \in Nat
  BY CardsAssumption
<1> DEFINE K == {k \in Nat : j <= N * k}
<1>2. K \in SUBSET Nat /\ size \in K
  BY <1>1
<1>3. PICK k \in K : \A n \in K : k <= n
  <2> HIDE DEF K
  <2> QED
    BY <1>2, LeastNatural
<1>4. k \in Nat /\ j <= N * k /\ k <= size /\ N * 0 = 0
  BY <1>1, <1>2, <1>3
<1>5. k # 0
  BY <1>4
<1> DEFINE i == k - 1
<1>6. i \in Nat /\ i \in 0 .. size - 1 /\ N * i \in Nat
  BY <1>1, <1>4, <1>5
<1>7. ~(j <= N * i)
  <2>1. i \in K => k <= i
    BY <1>3
  <2> QED
    BY <1>4, <1>6, <2>1
<1>8. N * k = N * i + N /\ i * N = N * i
  BY <1>1, <1>4
<1> DEFINE s == j - 1 - N * i
<1> HIDE DEF i, K
<1>9. s \in Seats
  BY <1>1, <1>4, <1>6, <1>7, <1>8 DEF Seats
<1>10. j = i * N + s + 1
  BY <1>1, <1>6, <1>8
<1> HIDE DEF s
<1> QED
  BY <1>6, <1>9, <1>10

\* The dealer deals every card of the pack to one place.
LEMMA DealtConserves ==
  ASSUME NEW pack \in Shuffles, NEW levels \in StartLevels, NEW chooser \in Seats
  PROVE  Kept(Dealt(pack, levels, chooser))
<1> DEFINE hand     == [s \in Seats |-> {pack[i * N + s + 1] : i \in 0 .. DealSize - 1}]
           first    == N * (DealSize + 1) + 1
           last     == Len(pack)
           deck     == SubSeq(pack, first, last)
           faceDown == [s \in Seats |-> pack[N * DealSize + s + 1]]
           r        == Dealt(pack, levels, chooser)
<1>1. /\ last \in Nat /\ last >= N * (DealSize + 1) + 2
      /\ \A j \in 1 .. last : pack[j] \in Card
      /\ \A c : c \in Pack <=> \E j \in 1 .. last : c = pack[j]
      /\ \A i, j \in 1 .. last : pack[i] = pack[j] => i = j
  BY PackIsShuffled
<1>2. /\ N \in Nat /\ N >= 2 /\ DealSize \in Nat /\ N * DealSize \in Nat
      /\ DealSize * N = N * DealSize
      /\ N * (DealSize + 1) = N * DealSize + N
  BY CardsAssumption, RulesAssumption
<1>3. /\ r.hand = hand /\ r.faceDown = faceDown /\ r.deck = deck
      /\ r.hung = [s \in Seats |-> {}] /\ r.table = {} /\ r.pending = None
      /\ r.discard = {} /\ r.phase # "HANGING"
  BY DEF Dealt
<1>4. /\ DOMAIN deck = 1 .. last - first + 1
      /\ \A i \in 1 .. last - first + 1 :
           first + i - 1 \in first .. last /\ deck[i] = pack[first + i - 1]
  <2>1. first \in 1 .. last /\ first \in Int /\ last \in Int
    BY <1>1, <1>2
  <2> HIDE DEF first, last
  <2>2. \A j \in first .. last : pack[j] \in Card
    BY <1>1, <2>1
  <2>3. /\ deck \in Seq(Card) /\ Len(deck) = last - first + 1
        /\ \A i \in 1 .. last - first + 1 : deck[i] = pack[first + i - 1]
    BY <1>1, <2>1, <2>2, SubSeqProperties
  <2>4. DOMAIN deck = 1 .. last - first + 1
    BY <2>3, LenProperties
  <2>5. ASSUME NEW i \in 1 .. last - first + 1  PROVE first + i - 1 \in first .. last
    BY <1>1, <2>1
  <2> QED
    BY <2>3, <2>4, <2>5
\* A position of the pack belongs to a hand, to a face-down card or to the deck.
<1>5. ASSUME NEW s \in Seats, NEW i \in 0 .. DealSize - 1
      PROVE  i * N + s + 1 \in 1 .. N * DealSize /\ i \in Nat
  <2>1. N * i \in Nat /\ N * i + N <= N * DealSize /\ i * N = N * i
    BY <1>2, ProductBound
  <2>2. s \in 0 .. N - 1
    BY DEF Seats
  <2> QED
    BY <1>2, <2>1, <2>2
<1>6. ASSUME NEW s \in Seats
      PROVE  N * DealSize + s + 1 \in N * DealSize + 1 .. N * (DealSize + 1)
  BY <1>2 DEF Seats
<1>7. \A j \in 1 .. N * DealSize :
        \E s \in Seats, i \in 0 .. DealSize - 1 : j = i * N + s + 1
  BY <1>2, EveryoneIsDealt
<1>8. \A j \in N * DealSize + 1 .. N * (DealSize + 1) :
        j - N * DealSize - 1 \in Seats /\ j = N * DealSize + (j - N * DealSize - 1) + 1
  BY <1>2 DEF Seats
<1> DEFINE Hand(c) == \E j \in 1 .. N * DealSize : c = pack[j]
           Down(c) == \E j \in N * DealSize + 1 .. N * (DealSize + 1) : c = pack[j]
           Rest(c) == \E j \in first .. last : c = pack[j]
<1>9. ASSUME NEW c \in Card
      PROVE  /\ InHand(r, c) <=> Hand(c)
             /\ IsCovered(r, c) <=> Down(c)
             /\ InDeck(r, c) <=> Rest(c)
             /\ ~IsHung(r, c) /\ ~InAttack(r, c) /\ ~InDefence(r, c)
             /\ ~IsAside(r, c) /\ ~IsGone(r, c)
  <2>1. InHand(r, c) <=> \E s \in Seats, i \in 0 .. DealSize - 1 : c = pack[i * N + s + 1]
    BY <1>3 DEF InHand
  <2>2. InHand(r, c) <=> Hand(c)
    <3>1. ASSUME NEW s \in Seats, NEW i \in 0 .. DealSize - 1, c = pack[i * N + s + 1]
          PROVE  Hand(c)
      BY <1>5, <3>1
    <3>2. ASSUME NEW j \in 1 .. N * DealSize, c = pack[j]
          PROVE  \E s \in Seats, i \in 0 .. DealSize - 1 : c = pack[i * N + s + 1]
      BY <1>7, <3>2
    <3> QED
      BY <2>1, <3>1, <3>2
  <2>3. IsCovered(r, c) <=> Down(c)
    <3>1. ASSUME NEW s \in Seats, c = pack[N * DealSize + s + 1]
          PROVE  Down(c)
      BY <1>6, <3>1
    <3>2. ASSUME NEW j \in N * DealSize + 1 .. N * (DealSize + 1), c = pack[j]
          PROVE  \E s \in Seats : c = pack[N * DealSize + s + 1]
      BY <1>8, <3>2
    <3>3. IsCovered(r, c) <=> \E s \in Seats : c = pack[N * DealSize + s + 1]
      BY <1>3 DEF IsCovered
    <3> QED
      BY <3>1, <3>2, <3>3
  <2>4. InDeck(r, c) <=> Rest(c)
    <3> HIDE DEF first, last, deck
    <3>1. ASSUME NEW i \in 1 .. last - first + 1, c = deck[i]
          PROVE  Rest(c)
      BY <1>4, <3>1
    <3>2. ASSUME NEW j \in first .. last, c = pack[j]
          PROVE  \E i \in 1 .. last - first + 1 : c = deck[i]
      <4>1. first \in Int
        BY <1>2 DEF first
      <4>2. j - first + 1 \in 1 .. last - first + 1 /\ first + (j - first + 1) - 1 = j
        BY <1>1, <4>1
      <4> QED
        BY <1>4, <3>2, <4>2
    <3> QED
      BY <1>3, <1>4, <3>1, <3>2 DEF InDeck
  <2>5. /\ ~IsHung(r, c) /\ ~InAttack(r, c) /\ ~InDefence(r, c)
        /\ ~IsAside(r, c) /\ ~IsGone(r, c)
    BY <1>3 DEF IsHung, InAttack, InDefence, IsAside, IsGone
  <2> QED
    BY <2>2, <2>3, <2>4, <2>5
<1>10. ASSUME NEW c \in Card  PROVE Zones(r, c) = One(c \in Pack)
  <2>1. c \in Pack <=> Hand(c) \/ Down(c) \/ Rest(c)
    <3>1. \A j \in 1 .. last : \/ j \in 1 .. N * DealSize
                               \/ j \in N * DealSize + 1 .. N * (DealSize + 1)
                               \/ j \in first .. last
      BY <1>1, <1>2
    <3>2. /\ \A j \in 1 .. N * DealSize : j \in 1 .. last
          /\ \A j \in N * DealSize + 1 .. N * (DealSize + 1) : j \in 1 .. last
          /\ \A j \in first .. last : j \in 1 .. last
      BY <1>1, <1>2
    <3> HIDE DEF last, first
    <3> QED
      BY <1>1, <3>1, <3>2
  <2>2. ~(Hand(c) /\ Down(c)) /\ ~(Hand(c) /\ Rest(c)) /\ ~(Down(c) /\ Rest(c))
    BY <1>1, <1>2
  <2> HIDE DEF Hand, Down, Rest
  <2> QED
    BY <1>9, <2>1, <2>2 DEF Zones, One
<1>11. HandsApart(r)
  <2> SUFFICES ASSUME NEW s \in Seats, NEW t \in Seats,
                      NEW i \in 0 .. DealSize - 1, NEW k \in 0 .. DealSize - 1,
                      pack[i * N + s + 1] = pack[k * N + t + 1]
               PROVE  s = t
    BY <1>3 DEF HandsApart
  <2>0. \A j \in 1 .. N * DealSize : j \in 1 .. last
    BY <1>1, <1>2
  <2>1. i * N + s + 1 \in 1 .. last /\ k * N + t + 1 \in 1 .. last
    BY <1>5, <2>0
  <2>2. i * N + s + 1 = k * N + t + 1
    BY <1>1, <2>1
  <2> QED
    BY <1>5, <2>2, DealtOnce
<1>12. CoveredApart(r)
  <2> SUFFICES ASSUME NEW s \in Seats, NEW t \in Seats,
                      pack[N * DealSize + s + 1] = pack[N * DealSize + t + 1]
               PROVE  s = t
    BY <1>3 DEF CoveredApart
  <2>1. N * DealSize + s + 1 \in 1 .. last /\ N * DealSize + t + 1 \in 1 .. last
    BY <1>1, <1>2, <1>6
  <2>2. N * DealSize + s + 1 = N * DealSize + t + 1
    BY <1>1, <2>1
  <2> QED
    BY <1>2, <2>2 DEF Seats
<1>13. DeckApart(r)
  <2>1. first \in 1 .. last
    BY <1>1, <1>2
  <2> HIDE DEF first, last, deck, r
  <2> SUFFICES ASSUME NEW i \in 1 .. last - first + 1, NEW k \in 1 .. last - first + 1,
                      deck[i] = deck[k]
               PROVE  i = k
    BY <1>3, <1>4 DEF DeckApart
  <2>2. /\ first + i - 1 \in 1 .. last /\ first + k - 1 \in 1 .. last
        /\ pack[first + i - 1] = pack[first + k - 1]
    BY <1>1, <1>4, <2>1
  <2>3. first + i - 1 = first + k - 1
    BY <1>1, <2>2
  <2> QED
    BY <2>1, <2>3
<1>14. HungApart(r) /\ AttackApart(r) /\ DefenceApart(r)
  BY <1>3 DEF HungApart, AttackApart, DefenceApart
<1>15. Conserved(r) /\ r.phase # "HANGING"
  <2> HIDE DEF r
  <2> QED
    BY <1>3, <1>10, <1>11, <1>12, <1>13, <1>14 DEF Conserved, Apart
<1>16. Kept(r)
  <2> HIDE DEF r
  <2> QED
    BY <1>15, NoWindowNoClaims
<1> QED
  BY <1>16

\* Every deal starts with its cards in one place each, and every command keeps them.
THEOREM CardsInvariant == Spec => []CardsInv
<1>1. Init => CardsInv
  BY DealtIsSound, DealtConserves DEF Init, DealInv, CardsInv
<1>2. CardsInv /\ DealInv' /\ [Next]_vars => CardsInv'
  <2> SUFFICES ASSUME CardsInv, DealInv', [Next]_vars  PROVE Kept(deal)'
    BY DEF CardsInv
  <2>1. CASE Next
    <3>1. PICK s \in Seats :
            \/ \E chooser \in Choosers : Round(s, chooser) \/ Hanging(s, chooser)
            \/ Trump(s)
            \/ SecondThoughts(s)
      BY <2>1 DEF Next
    <3>2. CASE \E chooser \in Choosers : Round(s, chooser) \/ Hanging(s, chooser)
      <4>1. Choosers \in SUBSET Seats
        BY ChoosersAreSeats DEF CardsInv, DealInv
      <4> QED
        BY <3>2, <4>1, RoundConserves, HangingConserves
    <3>3. CASE Trump(s)
      BY <3>3, TrumpConserves
    <3>4. CASE SecondThoughts(s)
      BY <3>4, SecondThoughtsConserve
    <3> QED
      BY <3>1, <3>2, <3>3, <3>4
  <2>2. CASE UNCHANGED vars
    BY <2>2 DEF vars, CardsInv
  <2> QED
    BY <2>1, <2>2
<1> QED
  BY <1>1, <1>2, DealInvariant, PTL DEF Spec

\* No command loses or doubles a card: the hands, the face-down and the hung cards, the
\* deck, the table, the card put aside and the pile hold each card of the pack once.
THEOREM CardsAreConserved == Spec => []EveryCardInOnePlace
<1>1. CardsInv => EveryCardInOnePlace
  <2> SUFFICES ASSUME CardsInv, NEW c \in Pack  PROVE PlacesOf(deal, c) = 1
    BY DEF EveryCardInOnePlace
  <2>1. Conserved(deal) /\ c \in Card
    BY CardsAssumption DEF CardsInv, Kept
  <2>2. Apart(deal) /\ Zones(deal, c) = 1
    BY <2>1 DEF Conserved, One
  <2> QED
    BY <2>1, <2>2, PlacesAreZones
<1> QED
  BY <1>1, CardsInvariant, PTL

-----------------------------------------------------------------------------
(***************************************************************************)
(* What an objection fixes.  A card of the table is known by itself, as no *)
(* other attacking card is the same: so the slot it is in is found again   *)
(* after a step.                                                           *)
(***************************************************************************)

\* A slot that is not beaten has no author of its defence, and no objection to it.
PinsAreOfCards(d) ==
  \A slot \in d.table : slot.defence = None => slot.defenceBy = 0 /\ ~slot.defencePinned

\* What is pinned in the slot is pinned in the table, too.
PinnedIn(slot, table) ==
  /\ slot.attackPinned =>
       \E new \in table : new.attack = slot.attack /\ new.attackPinned
  /\ slot.defencePinned =>
       \E new \in table : /\ new.attack = slot.attack /\ new.defence = slot.defence
                          /\ new.defencePinned

\* The table was cleared, or what was pinned in it is pinned still.
PinsLast(d, e) == e.table # {} => \A slot \in d.table : PinnedIn(slot, e.table)

\* From d to e every pinned card has stayed.
PinsStay(d, e) == PinsLast(d, e) /\ PinsAreOfCards(e)

\* A table that was cleared, or only grew by a card nobody has objected to yet.
LEMMA PinsOfSameTable ==
  ASSUME NEW d, PinsAreOfCards(d), NEW e, e.table \in {d.table, {}}
  PROVE  PinsStay(d, e)
<1>1. \A slot \in d.table : PinnedIn(slot, d.table)
  BY DEF PinnedIn
<1> QED
  BY <1>1 DEF PinsStay, PinsLast, PinsAreOfCards

\* A card more, to which nobody has objected yet.
LEMMA PinsOfLaidTable ==
  ASSUME NEW d, PinsAreOfCards(d), NEW c, NEW s, NEW e,
         e.table \in {d.table \cup {NewSlot(c, s)}, {}}
  PROVE  PinsStay(d, e)
<1>1. \A slot \in d.table : PinnedIn(slot, d.table \cup {NewSlot(c, s)})
  BY DEF PinnedIn
<1>2. NewSlot(c, s).defenceBy = 0 /\ ~NewSlot(c, s).defencePinned
  BY DEF NewSlot
<1> QED
  BY <1>1, <1>2 DEF PinsStay, PinsLast, PinsAreOfCards

\* A slot that changed, but not in what was pinned of it.
LEMMA PinsOfChangedTable ==
  ASSUME NEW d, PinsAreOfCards(d), NEW old \in d.table, NEW new,
         new.attack = old.attack, old.attackPinned => new.attackPinned,
         old.defencePinned => new.defence = old.defence /\ new.defencePinned,
         new.defence = None => new.defenceBy = 0 /\ ~new.defencePinned,
         NEW e, e.table \in {(d.table \ {old}) \cup {new}, {}}
  PROVE  PinsStay(d, e)
<1>1. \A slot \in d.table : PinnedIn(slot, (d.table \ {old}) \cup {new})
  BY DEF PinnedIn
<1> QED
  BY <1>1 DEF PinsStay, PinsLast, PinsAreOfCards

\* The end of a round leaves the table as it is.
LEMMA FinishRoundTable ==
  ASSUME NEW d, Running(d), NEW taken \in BOOLEAN, NEW chooser \in Seats
  PROVE  FinishRound(d, taken, chooser).table = d.table
<1> DEFINE full == Refill(d, chooser)
           left == MarkExits(full)
           over == [left EXCEPT !.phase = "DEAL_OVER"]
           next == StartNextRound(left, taken)
<1>1. Sound(full) /\ full.table = d.table
  BY RefillKeeps, RefillWrites DEF Running, Sound
<1> HIDE DEF full
<1>2. Sound(left) /\ left.table = full.table
  BY <1>1, MarkExitsKeeps, MarkExitsSame DEF Sound, WellFormed, SameCards
<1> HIDE DEF left
<1>3. over.table = left.table /\ next.table = left.table
  BY <1>2, StartNextRoundSame DEF Sound, WellFormed, Deal, SameCards
<1>4. FinishRound(d, taken, chooser) \in {over, next}
  BY DEF FinishRound, full, left
<1> HIDE DEF over, next
<1> QED
  BY <1>1, <1>2, <1>3, <1>4

\* A beaten table is gone ...
LEMMA RoundBeatenTable ==
  ASSUME NEW d, Running(d), NEW chooser \in Seats
  PROVE  RoundBeaten(d, chooser).table = {}
<1> DEFINE e == ClearTable(d, TRUE)
<1>1. Running(e) /\ e.table = {}
  BY ClearTableKeeps, ClearTableWrites DEF Running, Sound, WellFormed
<1>2. RoundBeaten(d, chooser) = FinishRound(e, FALSE, chooser)
  BY DEF RoundBeaten
<1> HIDE DEF e
<1> QED
  BY <1>1, <1>2, FinishRoundTable

\* ... and so is one that was taken.
LEMMA CollectTableTable ==
  ASSUME NEW d, Running(d), NEW chooser \in Seats
  PROVE  CollectTable(d, chooser).table = {}
<1> DEFINE hand  == [d.hand EXCEPT ![d.defender] = @ \cup TableCards(d)]
           taken == [d EXCEPT !.hand = hand]
           e     == ClearTable(taken, FALSE)
           window == [victim |-> e.defender, steps |-> HangingSteps(e, e.defender),
                      stepIndex |-> 1, claims |-> {}, decided |-> {},
                      everyone |-> IsEveryClaimantHanging(e, e.defender)]
           r      == [e EXCEPT !.phase = "HANGING", !.window = window]
<1>1. hand \in [Seats -> SUBSET Card]
  <2>1. TableCards(d) \in SUBSET Card /\ d.hand \in [Seats -> SUBSET Card]
    BY TableIsCards DEF Running, Sound, WellFormed, Deal
  <2> QED
    BY <2>1
<1>2. Running(taken)
  <2> HIDE DEF hand
  <2> QED
    BY <1>1, HandKeeps
<1> HIDE DEF taken
<1>3. Running(e) /\ e.table = {} /\ e \in Deal
  <2>1. Running(e) /\ e.table = {}
    BY <1>2, ClearTableKeeps, ClearTableWrites DEF Running, Sound, WellFormed
  <2> QED
    BY <2>1 DEF Running, Sound, WellFormed
<1>4. CollectTable(d, chooser) = OpenHangingWindow(e, chooser)
  BY DEF CollectTable, taken
<1> HIDE DEF e
<1>5. r.table = {}
  <2> HIDE DEF window
  <2> QED
    BY <1>3 DEF Deal
<1>6. OpenHangingWindow(e, chooser) \in {r, FinishRound(e, TRUE, chooser)}
  BY DEF OpenHangingWindow
<1> HIDE DEF r
<1>7. FinishRound(e, TRUE, chooser).table = {}
  BY <1>3, FinishRoundTable
<1> QED
  BY <1>4, <1>5, <1>6, <1>7

\* A pass leaves the table or ends the round.
LEMMA PassedTable ==
  ASSUME NEW d, Running(d), NEW s \in Seats, NEW chooser \in Seats
  PROVE  Passed(d, s, chooser).table \in {d.table, {}}
<1> DEFINE passed == d.passed \cup {s}
           after  == [d EXCEPT !.passed = passed]
           next   == NextAttacker(after)
           phase  == IF d.phase = "TAKING" THEN "TAKING"
                     ELSE IF Unbeaten(d) # {} THEN "DEFEND" ELSE "ATTACK"
           handed == [after EXCEPT !.right = next, !.phase = phase]
           stays  == [after EXCEPT !.phase = "DEFEND"]
<1>1. d \in Deal
  BY DEF Running, Sound, WellFormed
<1>2. after \in Deal /\ SameFrame(d, after) /\ after.table = d.table /\ after.phase = d.phase
  <2>1. passed \in SUBSET Seats
    BY <1>1 DEF Deal
  <2> HIDE DEF passed
  <2> QED
    BY <1>1, <2>1 DEF Deal, SameFrame
<1>3. handed.table = d.table /\ stays.table = d.table
  <2> HIDE DEF after, phase, next
  <2> QED
    BY <1>2 DEF Deal
<1>4. Passed(d, s, chooser)
        \in {handed, CollectTable(after, chooser), stays, RoundBeaten(after, chooser)}
  <2>1. CASE next # None
    BY <1>2, <2>1 DEF Passed
  <2>2. CASE next = None
    BY <2>2 DEF Passed
  <2> QED
    BY <2>1, <2>2
<1> HIDE DEF handed, stays, after
<1>5. Running(after)
  BY <1>2, FrameKeeps
<1> QED
  BY <1>3, <1>4, <1>5, CollectTableTable, RoundBeatenTable

\* A decision in the window does not touch the table.
LEMMA AdvanceWindowTable ==
  ASSUME NEW d, Running(d), d.window \in Window, NEW winner, NEW chooser \in Seats
  PROVE  AdvanceWindow(d, winner, chooser).table = d.table
<1> DEFINE w      == d.window
           chosen == IF w.everyone \/ Cardinality(w.claims) = 1 THEN w.claims
                     ELSE {cl \in w.claims : cl.seat = winner}
           window == [w EXCEPT !.stepIndex = @ + 1, !.claims = {}, !.decided = {}]
           later  == [d EXCEPT !.window = window]
           hung   == HungBy(d, chosen)
<1>1. d \in Deal
  BY DEF Running, Sound, WellFormed
<1>2. ASSUME NEW e, Running(e)  PROVE CloseWindow(e, chooser).table = e.table
  <2> DEFINE closed == [e EXCEPT !.window = None]
  <2>1. Running(closed) /\ closed.table = e.table
    <3>1. e \in Deal
      BY <1>2 DEF Running, Sound, WellFormed
    <3> QED
      BY <1>2, <3>1, WindowKeeps DEF Deal
  <2>2. CloseWindow(e, chooser) = FinishRound(closed, TRUE, chooser)
    BY DEF CloseWindow
  <2> HIDE DEF closed
  <2> QED
    BY <2>1, <2>2, FinishRoundTable
<1>3. chosen \in SUBSET Claim
  BY DEF Window
<1>4. later.table = d.table
  <2> HIDE DEF window
  <2> QED
    BY <1>1 DEF Deal
<1>5. Running(hung) /\ hung.table = d.table
  <2> HIDE DEF chosen
  <2> DEFINE jokers == {cl \in chosen : IsJoker(cl.card)}
             hand   == [s \in Seats |->
                          d.hand[s] \ {cl.card : cl \in {x \in chosen : x.seat = s}}]
             slots  == [d.hung EXCEPT ![w.victim] = @ \cup {cl.card : cl \in chosen}]
             level  == [d.level EXCEPT ![w.victim] = @ + 1]
             hanger == [d.jokerHanger EXCEPT ![w.victim] =
                          IF jokers = {} THEN @ ELSE (CHOOSE cl \in jokers : TRUE).seat]
  <2>1. hung = [d EXCEPT !.hand = hand, !.hung = slots, !.level = level,
                         !.jokerHanger = hanger]
    BY DEF HungBy
  <2>2. hung.table = d.table
    <3> HIDE DEF hand, slots, level, hanger, hung
    <3> QED
      BY <1>1, <2>1 DEF Deal
  <2> QED
    BY <1>3, <2>2, HungByKeeps
<1>6. AdvanceWindow(d, winner, chooser)
        \in {d, later, CloseWindow(d, chooser), CloseWindow(hung, chooser)}
  BY DEF AdvanceWindow
<1> HIDE DEF chosen, later, hung
<1> QED
  BY <1>2, <1>4, <1>5, <1>6

\* The moves of a round let the pinned cards lie.
LEMMA RoundLetsPinsStay ==
  ASSUME CardsInv, PinsAreOfCards(deal), NEW s \in Seats, NEW chooser \in Seats,
         Round(s, chooser)
  PROVE  PinsStay(deal, deal')
<1>0. DealInv /\ PinsAreOfCards(deal) /\ deal \in Deal /\ None \notin Card
  BY CardsAssumption DEF CardsInv, DealInv, Sound, WellFormed
<1> PICK after : after = deal'
  OBVIOUS
<1> SUFFICES PinsStay(deal, after)
  OBVIOUS
\* A card laid, perhaps after it was turned up, and perhaps with a pass.
<1>1. ASSUME NEW d, Running(d), d.table = deal.table, NEW c \in d.hand[s],
             after = Attacked(d, s, c, chooser)
      PROVE  PinsStay(deal, after)
  <2> DEFINE hand  == [d.hand EXCEPT ![s] = @ \ {c}]
             table == d.table \cup {NewSlot(c, s)}
             phase == IF d.phase = "TAKING" THEN "TAKING" ELSE "DEFEND"
             laid  == [d EXCEPT !.hand = hand, !.table = table, !.phase = phase]
  <2>1. d \in Deal /\ c \in Card
    BY <1>1 DEF Running, Sound, WellFormed, Deal
  <2>2. hand \in [Seats -> SUBSET Card] /\ table \in SUBSET Slot
    BY <2>1, NewSlotType DEF Deal
  <2>3. laid \in Deal /\ SameFrame(d, laid) /\ laid.table = table
    <3>1. phase \in Phases
      BY DEF Phases
    <3> HIDE DEF hand, table, phase
    <3> QED
      BY <2>1, <2>2, <3>1 DEF Deal, SameFrame
  <2>4. after \in {laid, Passed(laid, s, chooser)}
    BY <1>1 DEF Attacked
  <2> HIDE DEF laid
  <2>5. after.table \in {table, {}}
    BY <1>1, <2>3, <2>4, FrameKeeps, PassedTable
  <2> QED
    BY <1>0, <1>1, <2>5, PinsOfLaidTable
\* A card beaten; the slot that was beaten could not be pinned in its defence.
<1>2. ASSUME NEW d, Running(d), d.table = deal.table, Conserved(d), NEW c \in d.hand[s],
             NEW target, \E slot \in Unbeaten(d) : slot.attack = target,
             after = Defended(d, s, c, target, chooser)
      PROVE  PinsStay(deal, after)
  <2> DEFINE hand   == [d.hand EXCEPT ![s] = @ \ {c}]
             beaten == BeatenTable(d, s, c, target)
             played == [d EXCEPT !.hand = hand, !.table = beaten, !.anyBeaten = TRUE]
             open   == [played EXCEPT !.phase = "ATTACK"]
             defend == [played EXCEPT !.phase = "DEFEND"]
             next   == NextAttacker(open)
             handed == [open EXCEPT !.right = next]
  <2>1. d \in Deal /\ c \in Card
    BY <1>2 DEF Running, Sound, WellFormed, Deal
  <2>2. hand \in [Seats -> SUBSET Card]
    BY <2>1 DEF Deal
  <2>3. beaten \in SUBSET Slot
    <3>1. d.table \in SUBSET Slot
      BY <2>1 DEF Deal
    <3>2. \A slot \in Slot : [slot EXCEPT !.defence = c, !.defenceBy = s] \in Slot
      BY <2>1 DEF Slot
    <3> QED
      BY <3>1, <3>2 DEF BeatenTable
  <2>4. played \in Deal /\ SameFrame(d, played) /\ played.table = beaten
    <3> HIDE DEF hand, beaten
    <3> QED
      BY <2>1, <2>2, <2>3 DEF Deal, SameFrame
  <2>5. /\ open \in Deal /\ SameFrame(d, open) /\ open.table = beaten
        /\ defend.table = beaten
    <3> HIDE DEF played, beaten
    <3> QED
      BY <2>4 DEF Deal, SameFrame, Phases
  <2>6. handed.table = beaten
    <3> HIDE DEF open, next, beaten
    <3> QED
      BY <2>5 DEF Deal
  <2>7. after \in {defend, handed, RoundBeaten(open, chooser)}
    BY <1>2 DEF Defended, BeatenTable
  <2> HIDE DEF open, defend, handed
  <2>8. after.table \in {beaten, {}}
    BY <1>2, <2>5, <2>6, <2>7, FrameKeeps, RoundBeatenTable
  <2>9. PICK old \in d.table : old.attack = target /\ old.defence = None
    BY <1>2 DEF Unbeaten, IsBeaten
  <2> DEFINE new == [old EXCEPT !.defence = c, !.defenceBy = s]
  <2>10. /\ new.attack = old.attack /\ new.attackPinned = old.attackPinned
         /\ new.defence = c /\ new.defencePinned = old.defencePinned
    BY <2>1 DEF Deal, Slot
  <2>11. \A slot \in d.table : slot.attack = target <=> slot = old
    BY <1>2, <2>9 DEF Conserved, Apart, AttackApart
  <2>12. beaten = (d.table \ {old}) \cup {new}
    BY <2>11 DEF BeatenTable
  <2> HIDE DEF new, beaten
  <2>13. ~old.defencePinned /\ new.defence # None
    BY <1>0, <1>2, <2>1, <2>9, <2>10 DEF PinsAreOfCards
  <2> QED
    BY <1>0, <1>2, <2>8, <2>9, <2>10, <2>12, <2>13, PinsOfChangedTable
<1>3. ASSUME after.table \in {deal.table, {}}  PROVE PinsStay(deal, after)
  BY <1>0, <1>3, PinsOfSameTable
<1>4. CASE \E c \in deal.hand[s] : Attack(s, c, chooser)
  <2>1. PICK c \in deal.hand[s] : Attack(s, c, chooser)
    BY <1>4
  <2>2. Running(deal) /\ after = Attacked(deal, s, c, chooser)
    BY <1>0, <2>1, PlayableIsRunning DEF Attack, Playable
  <2> QED
    BY <1>1, <2>2
<1>5. CASE \E c \in deal.hand[s] : Transfer(s, c)
  <2>1. PICK c \in deal.hand[s] : Transfer(s, c)
    BY <1>5
  <2>2. deal' = Transferred(deal, s, c)
    BY <2>1 DEF Transfer
  <2> DEFINE hand  == [deal.hand EXCEPT ![s] = @ \ {c}]
             table == deal.table \cup {NewSlot(c, s)}
             next  == NextActive(deal, s)
  <2>3. after = [deal EXCEPT !.hand = hand, !.table = table, !.starter = s, !.right = s,
                             !.defender = next, !.passed = {}, !.phase = "DEFEND"]
    BY <2>2 DEF Transferred
  <2>4. after.table = table
    <3> HIDE DEF hand, table, next
    <3> QED
      BY <1>0, <2>3 DEF Deal
  <2> QED
    BY <1>0, <2>4, PinsOfLaidTable
<1>6. CASE \E c \in deal.hand[s] : \E target \in AttackCards(deal) :
             Defend(s, c, target, chooser)
  <2>1. PICK c \in deal.hand[s], target \in AttackCards(deal) : Defend(s, c, target, chooser)
    BY <1>6
  <2>2. /\ Running(deal) /\ after = Defended(deal, s, c, target, chooser)
        /\ \E slot \in Unbeaten(deal) : slot.attack = target
        /\ Conserved(deal)
    BY <1>0, <2>1, PlayableIsRunning DEF Defend, Playable, CanDefend, CardsInv, Kept
  <2> QED
    BY <1>2, <2>2
<1>7. CASE Pass(s, chooser)
  <2>1. Running(deal) /\ after = Passed(deal, s, chooser)
    BY <1>0, <1>7, PlayableIsRunning DEF Pass, Playable
  <2> QED
    BY <1>3, <2>1, PassedTable
<1>8. CASE Take(s, chooser)
  <2> DEFINE taking == [deal EXCEPT !.phase = "TAKING"]
  <2>1. Running(deal) /\ after \in {taking, CollectTable(taking, chooser)}
    BY <1>0, <1>8, PlayableIsRunning DEF Take, Taken, Playable
  <2>2. taking \in Deal /\ SameFrame(deal, taking) /\ taking.table = deal.table
    BY <1>0 DEF Deal, SameFrame, Phases
  <2> HIDE DEF taking
  <2> QED
    BY <1>3, <2>1, <2>2, FrameKeeps, CollectTableTable
\* A card turned up comes to the hand; the table is the same until it is played.
<1>9. ASSUME Running(deal), CanPlayFaceDown(deal, s)
      PROVE  /\ Running(Revealed(deal, s)) /\ Conserved(Revealed(deal, s))
             /\ Revealed(deal, s).table = deal.table
             /\ deal.faceDown[s] \in Revealed(deal, s).hand[s]
  <2>1. Kept(deal)
    BY DEF CardsInv
  <2>2. /\ Running(Revealed(deal, s)) /\ Kept(Revealed(deal, s))
        /\ deal.faceDown[s] \in Revealed(deal, s).hand[s]
    BY <1>9, <2>1, RevealedKeeps, RevealedKeepsCards
  <2> DEFINE hand     == [deal.hand EXCEPT ![s] = @ \cup {deal.faceDown[s]}]
             faceDown == [deal.faceDown EXCEPT ![s] = None]
  <2>3. Revealed(deal, s) = [deal EXCEPT !.hand = hand, !.faceDown = faceDown]
    BY DEF Revealed
  <2>4. Revealed(deal, s).table = deal.table
    <3> HIDE DEF hand, faceDown
    <3> QED
      BY <1>0, <2>3 DEF Deal
  <2> QED
    BY <2>2, <2>4 DEF Kept
<1>10. CASE RevealFaceDown(s, chooser)
  <2> DEFINE card == deal.faceDown[s]
             open == Revealed(deal, s)
  <2>1. Running(deal) /\ CanPlayFaceDown(deal, s)
    BY <1>0, <1>10, PlayableIsRunning DEF RevealFaceDown, Playable
  <2>2. Running(open) /\ open.table = deal.table /\ card \in open.hand[s]
    BY <1>9, <2>1
  <2>3. after \in {Attacked(open, s, card, chooser), open}
    BY <1>10 DEF RevealFaceDown
  <2> HIDE DEF open, card
  <2> QED
    BY <1>1, <1>3, <2>2, <2>3
<1>11. CASE \E target \in Pack : RevealToDefend(s, target, chooser)
  <2> DEFINE card == deal.faceDown[s]
             open == Revealed(deal, s)
  <2>1. PICK target \in Pack : RevealToDefend(s, target, chooser)
    BY <1>11
  <2>2. Running(deal) /\ CanPlayFaceDown(deal, s)
    BY <1>0, <2>1, PlayableIsRunning DEF RevealToDefend, Playable
  <2>3. /\ Running(open) /\ open.table = deal.table /\ card \in open.hand[s]
        /\ Conserved(open)
    BY <1>9, <2>2
  <2>4. \/ after = open
        \/ /\ after = Defended(open, s, card, target, chooser)
           /\ \E slot \in Unbeaten(open) : slot.attack = target
    BY <2>1 DEF RevealToDefend, CanDefend
  <2> HIDE DEF open, card
  <2> QED
    BY <1>2, <1>3, <2>3, <2>4
<1> QED
  BY <1>4, <1>5, <1>6, <1>7, <1>8, <1>10, <1>11 DEF Round

\* The decisions in the hanging window and the naming of the trump leave the table alone.
LEMMA WindowAndTrumpLetPinsStay ==
  ASSUME CardsInv, PinsAreOfCards(deal), NEW s \in Seats,
         Trump(s) \/ \E chooser \in Seats : Hanging(s, chooser)
  PROVE  PinsStay(deal, deal')
<1>0. DealInv /\ deal \in Deal /\ Kept(deal)
  BY DEF CardsInv, DealInv, Sound, WellFormed
<1> PICK after : after = deal'
  OBVIOUS
<1> SUFFICES after.table = deal.table
  BY PinsOfSameTable
<1>1. CASE \E chooser \in Seats : Hanging(s, chooser)
  <2>1. PICK chooser \in Seats, winner \in Seats :
          \/ \E cards \in SUBSET deal.hand[s] : HangCard(s, cards, winner, chooser)
          \/ HangSkip(s, winner, chooser)
    BY <1>1 DEF Hanging
  <2>2. /\ deal.phase = "HANGING" /\ deal.window # None
        /\ \E cards \in SUBSET deal.hand[s] :
             after = AdvanceWindow(Decided(deal, s, cards), winner, chooser)
    BY <2>1 DEF HangCard, HangSkip
  <2>3. PICK cards \in SUBSET deal.hand[s] :
          after = AdvanceWindow(Decided(deal, s, cards), winner, chooser)
    BY <2>2
  <2>4. Running(deal) /\ deal.window \in Window /\ cards \in SUBSET Card
    BY <1>0, <2>2, PlayableIsRunning DEF Deal
  <2> DEFINE window == [deal.window EXCEPT
                          !.claims  = @ \cup {[seat |-> s, card |-> c] : c \in cards},
                          !.decided = @ \cup {s}]
             e      == Decided(deal, s, cards)
  <2>5. e = [deal EXCEPT !.window = window]
    BY DEF Decided
  <2>6. e.table = deal.table
    <3> HIDE DEF window, e
    <3> QED
      BY <1>0, <2>5 DEF Deal
  <2>7. Running(e) /\ e.window \in Window
    BY <2>4, DecidedKeeps
  <2> HIDE DEF e
  <2>8. AdvanceWindow(e, winner, chooser).table = e.table
    BY <2>7, AdvanceWindowTable
  <2> QED
    BY <2>3, <2>6, <2>8 DEF e
<1>2. CASE Trump(s)
  <2>1. PICK suit \in Suits : ChooseTrump(s, suit) \/ ChooseTrumpForHidden(s, suit)
    BY <1>2 DEF Trump
  <2> DEFINE starter == LowestTrumpSeat(deal.hand, suit)
             next    == NextActive(deal, starter)
             hand    == [deal.hand EXCEPT ![deal.pending.recipient] =
                           @ \cup {deal.pending.card}]
  <2>2. \/ deal' = [deal EXCEPT !.trump = suit, !.phase = "ATTACK", !.starter = starter,
                                !.right = starter, !.defender = next]
        \/ deal' = [deal EXCEPT !.trump = suit, !.pending = None, !.phase = "ATTACK",
                                !.hand = hand]
    BY <2>1 DEF ChooseTrump, ChooseTrumpForHidden
  <2> HIDE DEF starter, next, hand
  <2> QED
    BY <1>0, <2>2 DEF Deal
<1> QED
  BY <1>1, <1>2

\* Only what nobody objected to is taken back.
LEMMA SecondThoughtsLetPinsStay ==
  ASSUME CardsInv, PinsAreOfCards(deal), NEW s \in Seats, SecondThoughts(s)
  PROVE  PinsStay(deal, deal')
<1> PICK slot \in deal.table : \/ RecallAttack(s, slot) \/ RecallDefence(s, slot)
                               \/ PinAttack(s, slot) \/ PinDefence(s, slot)
  BY DEF SecondThoughts
<1>1. /\ deal \in Deal /\ slot \in Slot /\ PinsAreOfCards(deal)
  BY DEF CardsInv, DealInv, Sound, WellFormed, Deal
<1>2. PICK e : e = deal'
  OBVIOUS
<1>3. CASE RecallAttack(s, slot)
  <2> DEFINE table == deal.table \ {slot}
             hand  == [deal.hand EXCEPT ![s] = @ \cup {slot.attack}]
             phase == IF deal.table = {slot} THEN "ATTACK" ELSE deal.phase
  <2>1. e = [deal EXCEPT !.table = table, !.hand = hand, !.phase = phase]
    BY <1>2, <1>3 DEF RecallAttack
  <2>2. e.table = table
    <3> HIDE DEF table, hand, phase
    <3> QED
      BY <1>1, <2>1 DEF Deal
  <2>3. ~slot.attackPinned /\ ~slot.defencePinned
    BY <1>1, <1>3 DEF RecallAttack, IsBeaten, PinsAreOfCards
  <2>4. PinsStay(deal, e)
    BY <1>1, <2>2, <2>3 DEF PinsStay, PinsLast, PinnedIn, PinsAreOfCards
  <2> QED
    BY <1>2, <2>4
<1>4. CASE RecallDefence(s, slot)
  <2> DEFINE bare  == [slot EXCEPT !.defence = None, !.defenceBy = 0]
             table == (deal.table \ {slot}) \cup {bare}
             hand  == [deal.hand EXCEPT ![s] = @ \cup {slot.defence}]
  <2>1. e = [deal EXCEPT !.table = table, !.hand = hand, !.phase = "DEFEND"]
    BY <1>2, <1>4 DEF RecallDefence
  <2>2. e.table = table
    <3> HIDE DEF table, hand
    <3> QED
      BY <1>1, <2>1 DEF Deal
  <2>3. /\ bare.attack = slot.attack /\ bare.attackPinned = slot.attackPinned
        /\ bare.defenceBy = 0
        /\ bare.defencePinned = slot.defencePinned /\ ~slot.defencePinned
    BY <1>1, <1>4 DEF RecallDefence, Slot
  <2> HIDE DEF bare
  <2>4. PinsStay(deal, e)
    BY <1>1, <2>2, <2>3, PinsOfChangedTable
  <2> QED
    BY <1>2, <2>4
<1>5. ASSUME NEW pinned, pinned.attack = slot.attack, pinned.defence = slot.defence,
             slot.attackPinned => pinned.attackPinned,
             slot.defencePinned => pinned.defencePinned,
             pinned.defence = None => pinned.defenceBy = 0 /\ ~pinned.defencePinned,
             deal' = [deal EXCEPT !.table = (@ \ {slot}) \cup {pinned}]
      PROVE  PinsStay(deal, deal')
  <2> DEFINE table == (deal.table \ {slot}) \cup {pinned}
  <2>1. e = [deal EXCEPT !.table = table]
    BY <1>2, <1>5
  <2>2. e.table = table
    <3> HIDE DEF table
    <3> QED
      BY <1>1, <2>1 DEF Deal
  <2>3. PinsStay(deal, e)
    BY <1>1, <1>5, <2>2, PinsOfChangedTable
  <2> QED
    BY <1>2, <2>3
<1>6. CASE PinAttack(s, slot)
  <2> DEFINE pinned == [slot EXCEPT !.attackPinned = TRUE]
  <2>1. /\ pinned.attack = slot.attack /\ pinned.defence = slot.defence
        /\ pinned.attackPinned /\ pinned.defencePinned = slot.defencePinned
        /\ pinned.defenceBy = slot.defenceBy
    BY <1>1 DEF Slot
  <2>2. deal' = [deal EXCEPT !.table = (@ \ {slot}) \cup {pinned}]
    BY <1>6 DEF PinAttack
  <2>3. slot.defence = None => slot.defenceBy = 0 /\ ~slot.defencePinned
    BY <1>1 DEF PinsAreOfCards
  <2> HIDE DEF pinned
  <2> QED
    BY <1>5, <2>1, <2>2, <2>3
<1>7. CASE PinDefence(s, slot)
  <2> DEFINE pinned == [slot EXCEPT !.defencePinned = TRUE]
  <2>1. /\ pinned.attack = slot.attack /\ pinned.defence = slot.defence
        /\ pinned.attackPinned = slot.attackPinned /\ pinned.defencePinned
    BY <1>1 DEF Slot
  <2>2. /\ deal' = [deal EXCEPT !.table = (@ \ {slot}) \cup {pinned}]
        /\ slot.defence # None
    BY <1>7 DEF PinDefence, IsBeaten
  <2> HIDE DEF pinned
  <2> QED
    BY <1>5, <2>1, <2>2
<1> QED
  BY <1>3, <1>4, <1>6, <1>7

\* Every step lets the pinned cards lie.
LEMMA PinsStayForever ==
  ASSUME CardsInv, PinsAreOfCards(deal), [Next]_vars
  PROVE  PinsStay(deal, deal')
<1>1. CASE Next
  <2>1. PICK s \in Seats :
          \/ \E chooser \in Choosers : Round(s, chooser) \/ Hanging(s, chooser)
          \/ Trump(s)
          \/ SecondThoughts(s)
    BY <1>1 DEF Next
  <2>2. CASE \E chooser \in Choosers : Round(s, chooser) \/ Hanging(s, chooser)
    <3>1. Choosers \in SUBSET Seats
      BY ChoosersAreSeats DEF CardsInv, DealInv
    <3> QED
      BY <2>2, <3>1, RoundLetsPinsStay, WindowAndTrumpLetPinsStay
  <2>3. CASE Trump(s)
    BY <2>3, WindowAndTrumpLetPinsStay
  <2>4. CASE SecondThoughts(s)
    BY <2>4, SecondThoughtsLetPinsStay
  <2> QED
    BY <2>1, <2>2, <2>3, <2>4
<1>2. CASE UNCHANGED vars
  BY <1>2, PinsOfSameTable DEF vars
<1> QED
  BY <1>1, <1>2

\* Whoever beats a card is written down with it, and goes when the card is taken back.
LEMMA PinsOfCardsAlways == Spec => []PinsAreOfCards(deal)
<1> DEFINE Pins == PinsAreOfCards(deal)
<1>1. Init => Pins
  BY DEF Init, Dealt, PinsAreOfCards
<1>2. CardsInv /\ Pins /\ [Next]_vars => Pins'
  BY PinsStayForever DEF PinsStay, PinsAreOfCards
<1> HIDE DEF Pins
<1>3. Spec => []Pins
  BY <1>1, <1>2, CardsInvariant, PTL DEF Spec
<1> QED
  BY <1>3 DEF Pins

\* A card somebody objected to stays on the table, in its place and pinned, until the
\* table is cleared: no command takes it back (game_router.go, recall and objection).
THEOREM PinnedCardsStay == Spec => PinnedStays
<1> DEFINE Pins == PinsAreOfCards(deal)
<1>1. CardsInv /\ Pins /\ [Next]_vars => PinsStay(deal, deal')
  BY PinsStayForever
<1>2. PinsStay(deal, deal') =>
        [deal'.table # {} =>
           \A slot \in deal.table :
             /\ slot.attackPinned =>
                  \E new \in deal'.table : new.attack = slot.attack /\ new.attackPinned
             /\ slot.defencePinned =>
                  \E new \in deal'.table :
                    /\ new.attack = slot.attack /\ new.defence = slot.defence
                    /\ new.defencePinned]_vars
  BY DEF PinsStay, PinsLast, PinnedIn
<1>3. Spec => []Pins
  BY PinsOfCardsAlways
<1> HIDE DEF Pins
<1> QED
  BY <1>1, <1>2, <1>3, CardsInvariant, PTL DEF Spec, PinnedStays
=============================================================================
