----------------------------- MODULE DealSnapshot -----------------------------
(***************************************************************************)
(* The deal in the snapshot of a match, and read back from it.             *)
(*                                                                         *)
(* After a restart of the server a match goes on from its last snapshot,   *)
(* and nothing else is known of it.  A field that may be missing (a Go     *)
(* pointer that is written only if it is there) is an empty sequence or a  *)
(* sequence of one; a card is written as the code the clients use.         *)
(***************************************************************************)
EXTENDS DealRules

Optional(value)   == IF value = None THEN << >> ELSE << value >>
OrNone(field)     == IF field = << >> THEN None ELSE field[1]
OrFalse(field)    == field # << >>
OmitIfFalse(flag) == IF flag THEN << TRUE >> ELSE << >>

\* "Joker-1", or the rank and the suit with a dash between them: a joker is told by its prefix.
EncodeCard(c) ==
  IF IsJoker(c) THEN [prefix |-> "Joker", number |-> c.joker]
  ELSE [code |-> <<c.rank, c.suit>>]

DecodeCard(code) ==
  IF "prefix" \in DOMAIN code THEN [joker |-> code.number]
  ELSE [rank |-> code.code[1], suit |-> code.code[2]]

EncodeCards(S)   == {EncodeCard(c) : c \in S}
DecodeCards(S)   == {DecodeCard(code) : code \in S}
EncodeCardOr(c)  == IF c = None THEN << >> ELSE << EncodeCard(c) >>
DecodeCardOr(f)  == IF f = << >> THEN None ELSE DecodeCard(f[1])

-----------------------------------------------------------------------------
EncodeSlot(slot) ==
  [attack        |-> EncodeCard(slot.attack),
   attackBy      |-> slot.attackBy,
   attackPinned  |-> OmitIfFalse(slot.attackPinned),
   defence       |-> EncodeCardOr(slot.defence),
   defenceBy     |-> slot.defenceBy,
   defencePinned |-> OmitIfFalse(slot.defencePinned)]

\* Fault: an objection is forgotten by the restart.
DecodeSlotUnpinned(node) ==
  LET laid == NewSlot(DecodeCard(node.attack), node.attackBy)
  IN IF node.defence = << >> THEN laid
     ELSE [laid EXCEPT !.defence = DecodeCardOr(node.defence), !.defenceBy = node.defenceBy]

\* A slot is laid again, and beaten again if it was: only then the defence has an author.
DecodeSlot(node) ==
  LET laid == [NewSlot(DecodeCard(node.attack), node.attackBy) EXCEPT
                 !.attackPinned = OrFalse(node.attackPinned)]
  IN IF node.defence = << >> THEN laid
     ELSE [laid EXCEPT !.defence       = DecodeCardOr(node.defence),
                       !.defenceBy     = node.defenceBy,
                       !.defencePinned = OrFalse(node.defencePinned)]

EncodePlayer(d, s) ==
  [hand        |-> EncodeCards(d.hand[s]),
   faceDown    |-> EncodeCardOr(d.faceDown[s]),
   inDeal      |-> s \in d.inDeal,
   level       |-> d.level[s],
   hung        |-> EncodeCards(d.hung[s]),
   jokerHanger |-> d.jokerHanger[s]]

EncodeWindow(w) ==
  [w EXCEPT !.claims = {[seat |-> cl.seat, card |-> EncodeCard(cl.card)] : cl \in w.claims}]
DecodeWindow(n) ==
  [n EXCEPT !.claims = {[seat |-> cl.seat, card |-> DecodeCard(cl.card)] : cl \in n.claims}]

EncodePending(p) == [p EXCEPT !.card = EncodeCard(p.card)]
DecodePending(n) == [n EXCEPT !.card = DecodeCard(n.card)]

-----------------------------------------------------------------------------
EncodeDeal(d) ==
  [phase        |-> d.phase,
   trump        |-> Optional(d.trump),
   deck         |-> [j \in DOMAIN d.deck |-> EncodeCard(d.deck[j])],
   players      |-> [s \in Seats |-> EncodePlayer(d, s)],
   table        |-> {EncodeSlot(slot) : slot \in d.table},
   starter      |-> d.starter,
   right        |-> d.right,
   defender     |-> d.defender,
   passed       |-> d.passed,
   exitPlace    |-> d.exitPlace,
   anyBeaten    |-> d.anyBeaten,
   anyDiscarded |-> d.anyDiscarded,
   lastAttack   |-> EncodeCards(d.lastAttack),
   window       |-> IF d.window = None THEN << >> ELSE << EncodeWindow(d.window) >>,
   pending      |-> IF d.pending = None THEN << >> ELSE << EncodePending(d.pending) >>]

\* What has gone to the discarded pile is written nowhere; the model hands it over.
DecodeDeal(node, discard) ==
  [phase        |-> node.phase,
   trump        |-> OrNone(node.trump),
   deck         |-> [j \in DOMAIN node.deck |-> DecodeCard(node.deck[j])],
   hand         |-> [s \in Seats |-> DecodeCards(node.players[s].hand)],
   faceDown     |-> [s \in Seats |-> DecodeCardOr(node.players[s].faceDown)],
   inDeal       |-> {s \in Seats : node.players[s].inDeal},
   level        |-> [s \in Seats |-> node.players[s].level],
   hung         |-> [s \in Seats |-> DecodeCards(node.players[s].hung)],
   jokerHanger  |-> [s \in Seats |-> node.players[s].jokerHanger],
   table        |-> {DecodeSlot(slot) : slot \in node.table},
   starter      |-> node.starter,
   right        |-> node.right,
   defender     |-> node.defender,
   passed       |-> node.passed,
   exitPlace    |-> node.exitPlace,
   anyBeaten    |-> node.anyBeaten,
   anyDiscarded |-> node.anyDiscarded,
   window       |-> IF node.window = << >> THEN None ELSE DecodeWindow(node.window[1]),
   lastAttack   |-> DecodeCards(node.lastAttack),
   pending      |-> IF node.pending = << >> THEN None ELSE DecodePending(node.pending[1]),
   discard      |-> discard]
=============================================================================
