----------------------------- MODULE TableSafety -----------------------------
(***************************************************************************)
(* What a table owes its players: one match at a time, one clock, a log    *)
(* without gaps, a match that is closed once, a turn that moves on.        *)
(***************************************************************************)
EXTENDS GameTable

Session == objects[session]

-----------------------------------------------------------------------------
\* The shape of the state: sessions, timers and jobs belong to objects that exist, objects
\* to matches that exist, and no timer is older than its goroutine.
Timer      == [object : DOMAIN objects, turn : 0 .. MaxTurns, runtime : 1 .. runtime.no, run : Nat]
AbortTimer == [object : DOMAIN objects, runtime : 1 .. runtime.no, no : 1 .. MaxFailures]

TypeOK ==
  /\ \A m \in DOMAIN matches :
       /\ matches[m].status \in {"IN_PROGRESS", "FINISHED", "ABORTED"}
       /\ matches[m].rated \in BOOLEAN
       /\ matches[m].log \subseteq Nat \ {0}
       /\ matches[m].snap # NoSnapshot => matches[m].snap \in [seq : Nat, game : Game]
  /\ occupied \in BOOLEAN
  /\ \A o \in DOMAIN objects :
       objects[o] \in [match : DOMAIN matches, game : Game, seq : Nat, moves : Nat]
  /\ session \in DOMAIN objects \cup {None}
  /\ clock.pending \in Timer \cup {None} /\ clock.paused \in Timer \cup {None}
  /\ clock.ticking \subseteq Timer
  /\ clock.abort \in AbortTimer \cup {None} /\ clock.waiting \subseteq AbortTimer
  /\ \A f \in flying : IF f.kind = "TIMEOUT" THEN f.timer \in Timer ELSE f.timer \in AbortTimer
  /\ Len(queue) <= QueueSize
  /\ \A i \in DOMAIN queue : "object" \in DOMAIN queue[i] => queue[i].object \in DOMAIN objects
  /\ runtime.no \in Nat /\ runtime.loaded \in BOOLEAN
  /\ listeners \cup online \subseteq Players

-----------------------------------------------------------------------------
\* However starts, ends, restarts and crashes follow each other, there is at most one match
\* that is in progress and can be played, that is, has a snapshot to be restored from
\* (MatchService.Start asks Find first; the table is switched last).
AtMostOneMatchIsPlayed ==
  Cardinality({m \in InProgress(matches) : matches[m].snap # NoSnapshot}) <= 1

\* Unless the server ended in the middle of a job, a table that is IN_MATCH has a match in
\* progress: no way of ending a match leaves the table occupied (GameRouter.abortMatch,
\* finishIfOver).
OccupiedTableHasMatch ==
  restarts.inJob = 0 /\ occupied => InProgress(matches) # {}

\* Unless a connection was lost, the session in memory is of a match in progress, and it is
\* the one a restart would restore: memory and database never disagree on what is played
\* (MatchService.Find, Finish, restore).
SessionIsLive ==
  absences = 0 /\ session # None =>
    /\ Session.match \in InProgress(matches)
    /\ Restored(matches).match = Session.match

\* At most one timer runs for the turn of a table, however it is started, paused and
\* resumed, and it is not paused and running at once (TurnClock).
OneTurnClock ==
  /\ Cardinality(clock.ticking) <= 1
  /\ clock.paused # None => clock.pending = None

\* The events of a match are numbered 1, 2, 3... without a gap, over refused moves,
\* restarts and crashes, even when two sessions of one match write (MatchLog.Append).
LogHasNoGaps ==
  \A m \in DOMAIN matches : matches[m].log = 1 .. Cardinality(matches[m].log)

\* What would be restored has been logged: no snapshot is ahead of the log, so nobody can
\* be shown a state whose moves are not in the history (Append before SaveSnapshot).
SnapshotIsLogged ==
  \A m \in DOMAIN matches : matches[m].snap.seq <= Cardinality(matches[m].log)

\* Unless a connection was lost, a rating is backed by the stored final state: whenever the
\* server ends, a match that is rated has been saved as over (execute and applyTimeout save
\* before finishIfOver).  The goroutine of a lost connection may put a match that has been
\* rated meanwhile back into memory, from a snapshot it read before (restore).
RatedIsPlayedOut ==
  absences = 0 =>
    \A m \in DOMAIN matches :
      matches[m].rated => matches[m].snap # NoSnapshot /\ matches[m].snap.game.over

-----------------------------------------------------------------------------
(***************************************************************************)
(* Liveness, under FairSpec.                                               *)
(***************************************************************************)

TurnOf(o, n) == session = o /\ objects[o].game.turn = n /\ ~objects[o].game.over

\* A job, a timer or a callback of a match that is not the one in memory, a lost
\* connection or a restart: each of them can cost a turn its clock.
Disturbed ==
  \/ absences > 0 \/ restarts.all > 0
  \/ \E t \in clock.ticking : t.object # session
  \/ \E f \in flying : f.timer.object # session
  \/ \E i \in DOMAIN queue : queue[i].kind = "TIMEOUT" /\ queue[i].object # session

\* A player who is silent does not hold up the table: a turn whose clock runs, and which the
\* automatic action can end, is over some day (restartTurnClock, applyTimeout).
SilentTurnMovesOn ==
  \A o \in 1 .. MaxMatches, n \in 0 .. MaxTurns - 1 :
    ((\E t \in clock.ticking : t.object = o /\ t.turn = n)
        /\ o \in DOMAIN objects /\ TurnOf(o, n) /\ ~objects[o].game.opening)
      ~> (Disturbed \/ ~(o \in DOMAIN objects /\ TurnOf(o, n)))

-----------------------------------------------------------------------------
(***************************************************************************)
(* What the documentation says and the program does not keep; each of      *)
(* these has a run of its own that shows how it is broken.                 *)
(***************************************************************************)

\* A cancelled match is not rated (GameRouter.leaveMatch).
AbortedIsNeverRated ==
  [][\A m \in DOMAIN matches :
       matches[m].status = "ABORTED" => m \in DOMAIN matches' /\ ~matches'[m].rated]_vars

\* A match is closed exactly once: a finished one is not cancelled later (FinishMatch).
FinishedIsNeverAborted ==
  [][\A m \in DOMAIN matches :
       matches[m].status = "FINISHED" => matches'[m].status # "ABORTED"]_vars

\* After a restart between two jobs the game goes on where it was: the number the session in
\* memory gives to its next event is free in the log (MatchService.restore).
NextNumberIsFree ==
  session # None /\ restarts.inJob = 0 =>
    Session.seq + 1 \notin matches[Session.match].log

\* The wait for a player who is gone ends: somebody comes back or the match is closed, unless
\* the server ends (GameRouter.Disconnect, TurnClock.ScheduleAbort).
AbsenceEndsMatch ==
  (clock.waiting # {} /\ online = {} /\ InProgress(matches) # {})
    ~> (online # {} \/ InProgress(matches) = {} \/ restarts.all > 0)
=============================================================================
