--------------------------------- MODULE Friends ---------------------------------
(***************************************************************************)
(* Friends, requests of friendship and invitations to a table.             *)
(*                                                                         *)
(* Two players have one row between them or none.  A call reads the row,   *)
(* decides, and writes in a statement of its own; several calls are in     *)
(* progress at once.  A player is online as long as a socket of his is     *)
(* open, and an invitation goes to all of his sockets, or, if there are    *)
(* none, into the queue of the notifications.                              *)
(***************************************************************************)
EXTENDS Notifications

CONSTANTS
  Tabs,        \* bound: session identifiers of sockets
  MaxRequests  \* bound: calls of a behaviour

ASSUME FriendsAssumption == MaxRequests \in Nat

VARIABLES
  friendships,  \* friendships, by the two players
  channels,     \* Presence.channels
  requests,     \* the calls in progress
  made,         \* bound: how many calls have been made
  asked         \* history: who has ever asked or accepted whom

friendVars == <<friendships, channels, requests, made, asked>>

Couples == {{p[1], p[2]} : p \in Pairs}

NoRow     == [status |-> "NONE", by |-> Nobody]
NoRequest == [op |-> "NONE", user |-> Nobody, friend |-> Nobody, at |-> "DONE", answer |-> "NONE"]

\* Nothing yet, or one has asked another.
FriendsInit ==
  /\ asked \in {{}} \cup {{p} : p \in Pairs}
  /\ friendships = [k \in Couples |->
       IF \E p \in asked : k = {p[1], p[2]}
       THEN [status |-> "PENDING", by |-> (CHOOSE p \in asked : TRUE)[1]] ELSE NoRow]
  /\ channels = [u \in Users |-> {}]
  /\ requests = [c \in Calls |-> NoRequest]
  /\ made = 0

-----------------------------------------------------------------------------
Couple(c) == {requests[c].user, requests[c].friend}
Row(c)    == friendships[Couple(c)]
Writes(c, row) == friendships' = [friendships EXCEPT ![Couple(c)] = row]

CanBeAcceptedByAnybody(row, u) == row.status = "PENDING"

\* The request is accepted by the one who did not send it.
CanBeAcceptedBy(row, u) == row.status = "PENDING" /\ row.by # u

InStep(c, op, place) == requests[c].op = op /\ requests[c].at = place
StepTo(c, place)     == requests' = [requests EXCEPT ![c].at = place]
Replies(c, answer)   == requests' = [requests EXCEPT ![c] = [NoRequest EXCEPT !.answer = answer]]

Ask(c, op, u, v) ==
  /\ requests[c].at = "DONE" /\ made < MaxRequests
  /\ made' = made + 1
  /\ requests' = [requests EXCEPT ![c] = [op |-> op, user |-> u, friend |-> v, at |-> "FIND",
                                          answer |-> "NONE"]]
  /\ asked' = IF op \in {"REQUEST", "ACCEPT"} THEN asked \cup {<<u, v>>} ELSE asked
  /\ UNCHANGED <<friendships, channels>>

\* A request to someone who has asked himself is consent.
RequestFinds(c) ==
  /\ InStep(c, "REQUEST", "FIND")
  /\ CASE Row(c).status = "NONE"                     -> StepTo(c, "INSERT")
       [] Row(c).status = "ACCEPTED"                 -> Replies(c, "ALREADY_FRIENDS")
       [] CanBeAcceptedBy(Row(c), requests[c].user)  -> StepTo(c, "UPDATE")
       [] OTHER                                      -> Replies(c, "REQUEST_ALREADY_SENT")
  /\ UNCHANGED <<friendships, channels, made, asked>>

\* The key of the row is the couple: the second of two inserts fails.
RequestInserts(c) ==
  /\ InStep(c, "REQUEST", "INSERT")
  /\ IF Row(c) = NoRow
     THEN Writes(c, [status |-> "PENDING", by |-> requests[c].user]) /\ Replies(c, "OK")
     ELSE UNCHANGED friendships /\ Replies(c, "REQUEST_ALREADY_SENT")
  /\ UNCHANGED <<channels, made, asked>>

\* Accepting what is accepted already is no error.
AcceptFinds(c) ==
  /\ InStep(c, "ACCEPT", "FIND")
  /\ CASE Row(c).status = "NONE"                     -> Replies(c, "NOT_FRIENDS")
       [] Row(c).status = "ACCEPTED"                 -> Replies(c, "OK")
       [] CanBeAcceptedBy(Row(c), requests[c].user)  -> StepTo(c, "UPDATE")
       [] OTHER                                      -> Replies(c, "NOT_YOUR_REQUEST")
  /\ UNCHANGED <<friendships, channels, made, asked>>

\* The row of the couple is accepted, whoever has asked by now.
Accept(c) ==
  /\ requests[c].at = "UPDATE"
  /\ IF Row(c) = NoRow
     THEN UNCHANGED friendships /\ Replies(c, "NOT_FOUND")
     ELSE Writes(c, [Row(c) EXCEPT !.status = "ACCEPTED"]) /\ Replies(c, "OK")
  /\ UNCHANGED <<channels, made, asked>>

\* To refuse a request and to end a friendship is the same.
RemoveFinds(c) ==
  /\ InStep(c, "REMOVE", "FIND")
  /\ IF Row(c) = NoRow THEN Replies(c, "NOT_FRIENDS") ELSE StepTo(c, "DELETE")
  /\ UNCHANGED <<friendships, channels, made, asked>>

Remove(c) ==
  /\ InStep(c, "REMOVE", "DELETE")
  /\ Writes(c, NoRow) /\ Replies(c, IF Row(c) = NoRow THEN "NOT_FRIENDS" ELSE "OK")
  /\ UNCHANGED <<channels, made, asked>>

-----------------------------------------------------------------------------
\* Sockets and invitations.

Attach(u, tab) ==
  /\ tab \notin UNION {channels[v] : v \in Users}
  /\ channels' = [channels EXCEPT ![u] = @ \cup {tab}]
  /\ UNCHANGED <<friendships, requests, made, asked>>

Detach(u, tab) ==
  /\ tab \in channels[u]
  /\ channels' = [channels EXCEPT ![u] = @ \ {tab}]
  /\ UNCHANGED <<friendships, requests, made, asked>>

IsOnline(u)     == channels[u] # {}
IsFriend(couple) == friendships[couple].status = "ACCEPTED"

\* The table may not exist; only a friend is invited.
InviteAsks(c) ==
  /\ InStep(c, "INVITE", "FIND")
  /\ \/ Replies(c, "TABLE_NOT_FOUND")
     \/ IF IsFriend(Couple(c)) THEN StepTo(c, "SEND") ELSE Replies(c, "NOT_FRIENDS")
  /\ UNCHANGED <<friendships, channels, made, asked>>

\* To the sockets that are open now, or by notification: "it has reached him" is said of the
\* sockets only.
SendTableInvite(c) ==
  /\ InStep(c, "INVITE", "SEND")
  /\ IF IsOnline(requests[c].friend)
     THEN UNCHANGED queue /\ Replies(c, "DELIVERED")
     ELSE Send(requests[c].friend) /\ Replies(c, "NOT_DELIVERED")
  /\ UNCHANGED <<friendships, channels, made, asked>>
  /\ UNCHANGED <<ownerOf, lastNotified, sending, minute, called>>

-----------------------------------------------------------------------------
Proceeds(c) ==
  \/ \E op \in {"REQUEST", "ACCEPT", "REMOVE", "INVITE"}, p \in Pairs : Ask(c, op, p[1], p[2])
  \/ RequestFinds(c) \/ RequestInserts(c)
  \/ AcceptFinds(c) \/ Accept(c)
  \/ RemoveFinds(c) \/ Remove(c)
  \/ InviteAsks(c)

FriendsNext ==
  \/ /\ \/ \E c \in Calls : Proceeds(c)
        \/ \E u \in Users, tab \in Tabs : Attach(u, tab) \/ Detach(u, tab)
     /\ UNCHANGED notificationVars
  \/ \E c \in Calls : SendTableInvite(c)

FriendsSpec == FriendsInit /\ NotificationsInit /\ [][FriendsNext]_<<friendVars, notificationVars>>

-----------------------------------------------------------------------------
(***************************************************************************)
(* Friendship takes two: nobody is anybody's friend, or asks for it, who   *)
(* has not asked or accepted himself, though the row a call has read may   *)
(* be gone, or be another one, when it is written (Request, Accept).       *)
(***************************************************************************)
FriendshipTakesTwo ==
  \A p \in Pairs :
    LET row == friendships[{p[1], p[2]}]
    IN /\ row.status = "ACCEPTED" => p \in asked
       /\ row.status = "PENDING" /\ row.by = p[1] => p \in asked
=============================================================================
