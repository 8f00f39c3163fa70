------------------------------- MODULE MCServices -------------------------------
(***************************************************************************)
(* The match and the services around it.  They share no state but the      *)
(* queue of the notifications, so that each is explored by itself: the     *)
(* focus is on one of them and the others rest.                            *)
(***************************************************************************)
EXTENDS MatchEngine, Lobby, Ratings, Friends, TLC

VARIABLE focus

\* No card is played here; a scale of one step below the joker.
MCPack       == {[rank |-> 0, suit |-> "hearts"]}
MCScaleRanks == <<1>>

Ended(level, degree) == [level |-> level, degree |-> degree]

\* Any two of the players: both lose the game, one of them heavily; or both have a joker or
\* nothing and no degree, which is seen at real tables only.
MCLineUps == {p \in [1..2 -> Users] : p[1] # p[2]}
MCEndings == {<<Ended(1, "ROYAL"), Ended(1, "FAIL")>>, <<Ended(1, "NONE"), Ended(0, "NONE")>>}

MCSymmetry == Permutations(Users) \cup Permutations(TableIds) \cup Permutations(Calls)

\* Bound: the matches are played by the same two.
SameTwo == \A m, n \in MatchIds : games[m].seats = games[n].seats

NothingPlayed ==
  /\ games = << >> /\ status = << >> /\ outcomes = {} /\ history = {}
  /\ standing = [u \in Users |-> NotPlayed]
  /\ jobs = [j \in Calls |-> NoJob] /\ recount = NoRecount /\ done = 0

Init ==
  /\ focus \in {"MATCH", "LOBBY", "RATINGS", "FRIENDS", "NOTIFICATIONS"}
  /\ MatchInit         /\ (focus # "MATCH" => match.deal.stage = "PLAY")
  /\ LobbyInit         /\ (focus # "LOBBY" => seats = {})
  /\ NotificationsInit /\ (focus # "NOTIFICATIONS" => ownerOf = [d \in Devices |-> Nobody])
  /\ FriendsInit       /\ (focus # "FRIENDS" => asked = {})
  /\ IF focus = "RATINGS" THEN RatingsInit /\ SameTwo ELSE NothingPlayed

\* The services, each without the queue.
Step(service, Next, others) == focus = service /\ Next /\ UNCHANGED <<focus, others>>

Next ==
  \/ Step("MATCH", MatchNext, <<lobbyVars, ratingVars, friendVars, notificationVars>>)
  \/ Step("LOBBY", LobbyNext, <<match, ratingVars, friendVars, notificationVars>>)
  \/ Step("RATINGS", RatingsNext, <<match, lobbyVars, friendVars, notificationVars>>)
  \/ Step("FRIENDS", FriendsNext, <<match, lobbyVars, ratingVars>>)
  \/ Step("NOTIFICATIONS", NotificationsNext, <<match, lobbyVars, ratingVars, friendVars>>)

Spec == Init /\ [][Next]_<<focus, match, lobbyVars, ratingVars, friendVars, notificationVars>>
=============================================================================
