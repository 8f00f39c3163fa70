--------------------------------- MODULE People ---------------------------------
(***************************************************************************)
(* The people of the services around the game: the lobby, the results and  *)
(* ratings, the friends and the sessions know a user by his identifier     *)
(* only and share no other state than the rows they keep about him.        *)
(***************************************************************************)
EXTENDS Naturals, Integers, FiniteSets, Sequences

CONSTANTS
  Users,     \* users.id
  Nobody,    \* no user
  Calls      \* bound: requests in progress at the same time

ASSUME PeopleAssumption == Nobody \notin Users /\ IsFiniteSet(Users) /\ IsFiniteSet(Calls)

\* Two different users, in both orders.
Pairs == {p \in Users \X Users : p[1] # p[2]}
=============================================================================
