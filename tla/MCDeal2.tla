------------------------------- MODULE MCDeal2 -------------------------------
(***************************************************************************)
(* Two players and the smallest pack that can be dealt to them: a card in  *)
(* hand, a card face down, a trump card and a hidden trump.  Every order   *)
(* of the pack is a deal.                                                  *)
(***************************************************************************)
EXTENDS DealKeepsPromise, TLC

P(r, s) == [rank |-> r, suit |-> s]
J(j)    == [joker |-> j]

\* Two ranks, a card of the protected suit, and both jokers.
MCPack == {P(0, "hearts"), P(1, "hearts"), P(0, "clubs"), P(1, "spades"), J(1), J(2)}

MCShuffles == {s \in [1 .. Cardinality(MCPack) -> MCPack] : {s[i] : i \in DOMAIN s} = MCPack}

\* One rank, then the joker: two tables taken at the wrong moment end a career.
MCScale  == <<0>>
MCLevels == {[s \in Seats |-> NoNaves]}

\* The commands without those of "second thoughts".
Calm == CommandNames \ {"RECALL", "PIN"}
=============================================================================
