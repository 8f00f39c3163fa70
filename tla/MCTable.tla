------------------------------- MODULE MCTable -------------------------------
(***************************************************************************)
(* A table of two, on bounds that make the interesting cases meet: a       *)
(* second match, a lost connection, an end of the server.                  *)
(***************************************************************************)
EXTENDS TableSafety, TLC

\* Players differ in nothing but their names; used only without liveness.
Alike == Permutations(Players)
=============================================================================
