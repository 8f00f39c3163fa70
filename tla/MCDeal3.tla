------------------------------- MODULE MCDeal3 -------------------------------
(***************************************************************************)
(* Three players: the second neighbour is a player of his own, attacks can *)
(* be transferred twice and a table ends in a hanging window of several    *)
(* steps.  A few orders of a pack, cut at every place, and a bound on the  *)
(* number of tables that are taken, which alone make a deal long.          *)
(***************************************************************************)
EXTENDS DealKeepsPromise, TLC

CONSTANT MaxTakes   \* how often a table may be taken

VARIABLE takes      \* how often it was

P(r, s) == [rank |-> r, suit |-> s]
J(j)    == [joker |-> j]

Base == << P(0, "hearts"), P(0, "clubs"), P(1, "hearts"), P(1, "clubs"),
           P(0, "spades"), J(1), P(1, "spades"), J(2) >>

Cut(pack, k) == [i \in DOMAIN pack |-> pack[((i + k - 1) % Len(pack)) + 1]]

MCPack     == {Base[i] : i \in DOMAIN Base}
MCShuffles == {Cut(Base, k) : k \in 0 .. 7}
MCScale    == <<0>>
MCLevels   == {[s \in Seats |-> NoNaves], [s \in Seats |-> IF s = 0 THEN NoNaves ELSE 0]}
Calm       == CommandNames \ {"RECALL", "PIN"}

TableTaken == deal.table # {} /\ deal'.table = {} /\ deal'.discard = deal.discard

MCInit == Init /\ takes = 0

MCNext ==
  /\ Next
  /\ takes' = IF TableTaken THEN takes + 1 ELSE takes
  /\ takes' <= MaxTakes

MCSpec == MCInit /\ [][MCNext]_<<deal, takes>>
=============================================================================
