------------------------------ MODULE Notifications ------------------------------
(***************************************************************************)
(* Push notifications: who is called to the table, and how the call gets   *)
(* to his devices.                                                         *)
(*                                                                         *)
(* The tables decide to call (TurnNotifier) and go on at once: the call    *)
(* waits in a bounded queue for the one goroutine that sends (Sender).     *)
(* That one reads the devices of the player when his call has its turn and *)
(* then talks to the push service device by device, while subscriptions    *)
(* come and go.  When the queue is full the call is lost, and the silence  *)
(* after it begins nevertheless.  Time passes in steps of a minute.        *)
(***************************************************************************)
EXTENDS People

CONSTANTS
  Devices,    \* push_subscriptions.endpoint
  QueueSize,  \* queueSize
  QuietFor,   \* TurnNotifier.quietFor
  LastMinute  \* bound: how long the clock runs

ASSUME NotificationsAssumption == QueueSize \in Nat /\ QuietFor \in Nat \ {0} /\ LastMinute \in Nat

VARIABLES
  ownerOf,       \* push_subscriptions, by endpoint
  lastNotified,  \* TurnNotifier.lastNotified
  queue,         \* Sender.queue: whom to notify
  sending,       \* the call being sent, and the devices still to be told
  minute,        \* the clock
  called         \* history: when a player was last called and has not been at the table since

notificationVars == <<ownerOf, lastNotified, queue, sending, minute, called>>

Never == -1
Idle  == [to |-> Nobody, left |-> {}]

NotificationsInit ==
  /\ ownerOf \in [Devices -> Users \cup {Nobody}]
  /\ lastNotified = [u \in Users |-> Never]
  /\ queue = << >> /\ sending = Idle
  /\ minute = 0
  /\ called = [u \in Users |-> Never]

-----------------------------------------------------------------------------
\* Whom to call.

\* A mark that still silences somebody.
Silences(mark) == mark # Never /\ mark + QuietFor > minute

\* Fault: all marks are thrown away, those that silence as well.
AllForgotten(marks) == [u \in Users |-> Never]

\* Marks that silence nobody any more are thrown away.
PruneStale(marks) == [u \in Users |-> IF Silences(marks[u]) THEN marks[u] ELSE Never]

Remember(u) == lastNotified' = [PruneStale(lastNotified) EXCEPT ![u] = minute]

\* Into the queue, or, if it is full, nowhere.
Send(u) == queue' = IF Len(queue) < QueueSize THEN Append(queue, u) ELSE queue

\* It is the turn of a player who is not at the table.  Within the silence he is not called.
TurnOf(u) ==
  /\ ~Silences(lastNotified[u])
  /\ Remember(u) /\ Send(u)
  /\ called' = [called EXCEPT ![u] = minute]
  /\ UNCHANGED <<ownerOf, sending, minute>>

\* The match stands still for want of him: this is said at any time.
PausedFor(u) ==
  /\ Remember(u) /\ Send(u)
  /\ called' = [called EXCEPT ![u] = minute]
  /\ UNCHANGED <<ownerOf, sending, minute>>

Present(u) ==
  /\ lastNotified' = [lastNotified EXCEPT ![u] = Never]
  /\ called' = [called EXCEPT ![u] = Never]
  /\ UNCHANGED <<ownerOf, queue, sending, minute>>

-----------------------------------------------------------------------------
\* The devices.  A device that somebody else signs in with changes its owner.

Subscribe(u, d) ==
  /\ ownerOf' = [ownerOf EXCEPT ![d] = u]
  /\ UNCHANGED <<lastNotified, queue, sending, minute, called>>

\* Only the owner can; that there is nothing to delete is no error.
Unsubscribe(u, d) ==
  /\ ownerOf[d] = u
  /\ ownerOf' = [ownerOf EXCEPT ![d] = Nobody]
  /\ UNCHANGED <<lastNotified, queue, sending, minute, called>>

-----------------------------------------------------------------------------
\* The sender.

\* The devices of the player are read; when that fails the call is dropped.
DeliverAll ==
  /\ sending = Idle /\ queue # << >>
  /\ queue' = Tail(queue)
  /\ LET devices == {d \in Devices : ownerOf[d] = Head(queue)}
     IN sending' \in {Idle, IF devices = {} THEN Idle ELSE [to |-> Head(queue), left |-> devices]}
  /\ UNCHANGED <<ownerOf, lastNotified, minute, called>>

\* One device is told or cannot be reached; one that is gone loses its subscription, whoever
\* owns it by now.
Deliver(d) ==
  /\ d \in sending.left
  /\ sending' = IF sending.left = {d} THEN Idle ELSE [sending EXCEPT !.left = @ \ {d}]
  /\ \/ UNCHANGED ownerOf
     \/ ownerOf' = [ownerOf EXCEPT ![d] = Nobody]
  /\ UNCHANGED <<lastNotified, queue, minute, called>>

Tick ==
  /\ minute < LastMinute
  /\ minute' = minute + 1
  /\ UNCHANGED <<ownerOf, lastNotified, queue, sending, called>>

NotificationsNext ==
  \/ \E u \in Users : TurnOf(u) \/ PausedFor(u) \/ Present(u)
  \/ \E u \in Users, d \in Devices : Subscribe(u, d) \/ Unsubscribe(u, d)
  \/ DeliverAll
  \/ \E d \in Devices : Deliver(d)
  \/ Tick

NotificationsSpec == NotificationsInit /\ [][NotificationsNext]_notificationVars

-----------------------------------------------------------------------------
(***************************************************************************)
(* Who was called is left alone for a while: between two calls of the turn *)
(* either the silence has passed or he was at the table.  The marks of all *)
(* players of all tables are one map, and every call prunes it             *)
(* (TurnNotifier).                                                         *)
(***************************************************************************)
CallsAreSpaced ==
  [][\A u \in Users : TurnOf(u) => called[u] = Never \/ called[u] + QuietFor <= minute]_notificationVars
=============================================================================
