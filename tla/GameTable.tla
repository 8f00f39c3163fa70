------------------------------ MODULE GameTable ------------------------------
(***************************************************************************)
(* One table of the server: the queue its goroutine works off, the timers, *)
(* the sockets that come and go, the match in memory and in the database.  *)
(*                                                                         *)
(* A command of a player, the end of a turn, a lost connection and the end *)
(* of the wait for it all become jobs in the queue of the table; a job is  *)
(* done without interruption by other jobs, but not without a crash: it    *)
(* writes to the database several times, and the server may stop between   *)
(* any two writes.                                                         *)
(*                                                                         *)
(* The game itself is abstracted to what the table asks of it: which turn  *)
(* it is, whether the automatic action would be refused ("opening", see    *)
(* DealTimeouts) and whether the match is over.                            *)
(***************************************************************************)
EXTENDS TurnClock, Sequences, Functions

CONSTANTS
  Players,          \* who plays at this table
  QueueSize,        \* the capacity of the queue of commands
  AutoMove,         \* does the server move for who is silent?
  MaxMovesPerDeal,  \* moves after which a deal counts as stuck
  MaxTurns,         \* bound: moves of a match
  MaxRefusals,      \* bound: refused moves that are written down at this table
  MaxMatches,       \* bound: matches at this table
  MaxPending,       \* bound: jobs waiting when a player sends one more
  MaxFailures       \* bound: connections lost and ends of the server, taken together

ASSUME TableAssumption ==
  /\ IsFiniteSet(Players) /\ Players # {}
  /\ {QueueSize, MaxMovesPerDeal, MaxTurns} \subseteq Nat \ {0}
  /\ {MaxRefusals, MaxMatches, MaxPending, MaxFailures} \subseteq Nat
  /\ AutoMove \in BOOLEAN

VARIABLES
  matches,    \* the matches of this table in the database, oldest first
  occupied,   \* is the table IN_MATCH for the lobby, and not WAITING?
  objects,    \* the sessions this process has made
  session,    \* the one of them the service holds for the table, or None
  clock,      \* see TurnClock
  flying,     \* callbacks of fired timers that have not reached the queue
  queue,      \* the jobs of the table
  runtime,    \* the goroutine of the table: its number, and is it loaded?
  listeners,  \* who is subscribed to the table
  online,     \* who has a connection
  leaving,    \* lost connections the server is still dealing with
  absences,   \* how many were lost
  restarts    \* how often the server ended, and how often in the middle of a job

disk   == <<matches, occupied>>
memory == <<objects, session>>
vars   == <<disk, memory, clock, flying, queue, runtime, listeners, online, leaving,
            absences, restarts>>

Game == [turn : 0 .. MaxTurns, opening : BOOLEAN, over : BOOLEAN]

\* A new match: the trump is known and somebody has to open, or it is still to be named.
FirstStates == {[turn |-> 0, opening |-> o, over |-> FALSE] : o \in BOOLEAN}

\* What a move makes of the game.
Moved(g) ==
  IF g.over THEN {}
  ELSE {[turn |-> g.turn + 1, opening |-> FALSE, over |-> TRUE]}
       \cup {[turn |-> g.turn + 1, opening |-> o, over |-> FALSE]
              : o \in IF g.turn + 1 < MaxTurns THEN BOOLEAN ELSE {}}

\* A match before its first snapshot cannot be restored.
NoSnapshot == [seq |-> -1]
NewMatch   == [status |-> "IN_PROGRESS", rated |-> FALSE, log |-> {}, refused |-> 0,
               snap |-> NoSnapshot]

\* "None" is no number, no session and no timer.
ASSUME NoneAssumption ==
  /\ None \notin Nat
  /\ None \notin [match : Nat, game : Game, seq : Nat, moves : Nat]
  /\ None \notin [object : Nat, turn : Nat, runtime : Nat, run : Nat]

-----------------------------------------------------------------------------
(***************************************************************************)
(* What a job changes, as one value; "trail" has every state of the        *)
(* database that was committed on the way.                                 *)
(***************************************************************************)
World ==
  [matches |-> matches, occupied |-> occupied, objects |-> objects, session |-> session,
   clock |-> clock, listeners |-> listeners, loaded |-> runtime.loaded, trail |-> {disk}]

Commit(w, ms, occ) ==
  [w EXCEPT !.matches = ms, !.occupied = occ, !.trail = @ \cup {<<ms, occ>>}]

InProgress(ms) == {m \in DOMAIN ms : ms[m].status = "IN_PROGRESS"}

\* From the last snapshot of the newest match that is in progress.
Restored(ms) ==
  LET m == CHOOSE m \in InProgress(ms) : \A k \in InProgress(ms) : k <= m
  IN IF InProgress(ms) = {} THEN None
     ELSE IF ms[m].snap = NoSnapshot THEN None
     ELSE [match |-> m, game |-> ms[m].snap.game, seq |-> ms[m].snap.seq, moves |-> 0]

\* A session that is in memory by now is preferred to the one that was read.
Keep(w, read) ==
  IF w.session # None \/ read = None THEN w
  ELSE [w EXCEPT !.objects = Append(@, read), !.session = Len(w.objects) + 1]

Find(w) == Keep(w, Restored(w.matches))

\* A match that is over has no seat on the clock; a table without AutoMove has no clock.
RestartTurnClock(w, o) ==
  IF w.objects[o].game.over \/ ~AutoMove
    THEN [w EXCEPT !.clock = Cancel(@)]
    ELSE [w EXCEPT !.clock = Start(@, [object |-> o, turn |-> w.objects[o].game.turn,
                                       runtime |-> runtime.no, run |-> 0])]

Closed(w, o, status) == [w.matches EXCEPT ![w.objects[o].match].status = status]

\* Fault: the cancelled match leaves the table occupied.
AbortMatchOnly(w, o) ==
  [Commit(w, Closed(w, o, "ABORTED"), w.occupied) EXCEPT !.session = None]

\* Fault: the cancelled match stays in memory.
AbortMatchOnDisk(w, o) ==
  Commit(Commit(w, Closed(w, o, "ABORTED"), w.occupied), Closed(w, o, "ABORTED"), FALSE)

\* Log, memory, table; the status of the match is not asked for.
AbortMatch(w, o) ==
  LET gone == [Commit(w, Closed(w, o, "ABORTED"), w.occupied) EXCEPT !.session = None]
  IN Commit(gone, gone.matches, FALSE)

\* The result and the rating are one transaction, written once for a match.
FinishIfOver(w, o) ==
  LET m      == w.objects[o].match
      result == IF w.matches[m].rated THEN w
                ELSE Commit(w, [Closed(w, o, "FINISHED") EXCEPT ![m].rated = TRUE], w.occupied)
      gone   == [result EXCEPT !.clock = Cancel(@), !.session = None]
  IN IF w.objects[o].game.over THEN Commit(gone, gone.matches, FALSE) ELSE w

AbortIfStuck(w, o) ==
  AbortMatch([w EXCEPT !.clock = CancelAbort(Cancel(@))], o)

\* A number that is in the log is refused by its unique index.
LogEvent(w, o, seq) ==
  Commit(w, [w.matches EXCEPT ![w.objects[o].match].log = @ \cup {seq}], w.occupied)

\* The snapshot of a lower number is written as well, but it is never the latest.
SaveSnapshot(w, o) ==
  LET s == [seq |-> w.objects[o].seq, game |-> w.objects[o].game]
  IN Commit(w, [w.matches EXCEPT ![w.objects[o].match].snap = IF s.seq >= @.seq THEN s ELSE @],
            w.occupied)

\* Fault: the snapshot is written before the log.
RecordSnapshotFirst(w, o) ==
  LET seq    == w.objects[o].seq + 1
      saved  == SaveSnapshot([w EXCEPT !.objects[o].seq = seq], o)
      logged == RestartTurnClock(LogEvent(saved, o, seq), o)
  IN IF seq \in w.matches[w.objects[o].match].log THEN w
     ELSE IF w.objects[o].moves >= MaxMovesPerDeal THEN AbortIfStuck(logged, o)
     ELSE FinishIfOver(logged, o)

\* Fault: the result is written before the state it is the result of.
RecordResultFirst(w, o) ==
  LET seq    == w.objects[o].seq + 1
      logged == RestartTurnClock([LogEvent(w, o, seq) EXCEPT !.objects[o].seq = seq], o)
  IN IF seq \in w.matches[w.objects[o].match].log THEN w
     ELSE IF w.objects[o].moves >= MaxMovesPerDeal THEN AbortIfStuck(SaveSnapshot(logged, o), o)
     ELSE SaveSnapshot(FinishIfOver(logged, o), o)

(***************************************************************************)
(* An accepted move, of a player or of the clock: log, snapshot, clock,    *)
(* then the end of a deal that does not move or of a match that is over.   *)
(* If the log refuses it the state in memory has moved all the same.       *)
(***************************************************************************)
Record(w, o) ==
  LET seq    == w.objects[o].seq + 1
      logged == [LogEvent(w, o, seq) EXCEPT !.objects[o].seq = seq]
      saved  == RestartTurnClock(SaveSnapshot(logged, o), o)
  IN IF seq \in w.matches[w.objects[o].match].log THEN w
     ELSE IF w.objects[o].moves >= MaxMovesPerDeal THEN AbortIfStuck(saved, o)
     ELSE FinishIfOver(saved, o)

Advanced(s, g, n) == [s EXCEPT !.game = g, !.moves = n]

\* The moves are counted per deal, and any move may have begun the next deal.
Applied(w, o) ==
  {Record([w EXCEPT !.objects[o] = Advanced(@, g, n)], o)
     : g \in Moved(w.objects[o].game), n \in {1, w.objects[o].moves + 1}}

Refusals(ms) == FoldFunction(+, 0, [m \in DOMAIN ms |-> ms[m].refused])

\* Fault: the number of a refused move is used up without being written.
RejectedSilently(w, o) == [w EXCEPT !.objects[o].seq = @ + 1]

\* Fault: a command stops the clock before it is judged.
RejectedStopsTheClock(w, o) ==
  LET seq == w.objects[o].seq + 1
  IN [LogEvent([w EXCEPT !.matches[w.objects[o].match].refused = @ + 1], o, seq) EXCEPT
        !.objects[o].seq = seq, !.clock = Cancel(@)]

\* A refused move takes a number in the log as well, whether or not it could be written.
Rejected(w, o) ==
  LET m     == w.objects[o].match
      seq   == w.objects[o].seq + 1
      noted == IF seq \in w.matches[m].log THEN w
               ELSE LogEvent([w EXCEPT !.matches[m].refused = @ + 1], o, seq)
  IN [noted EXCEPT !.objects[o].seq = seq]

\* The last one to go unloads the table, from inside its own goroutine: that one ends here.
Unsubscribe(w, p) ==
  [w EXCEPT !.listeners = @ \ {p}, !.loaded = @ /\ w.listeners \ {p} # {}]

-----------------------------------------------------------------------------
\* The jobs.  Each operator gives the set of possible outcomes.

\* The row of the match, its first snapshot, and only then the table.
Begin(w, p, g) ==
  LET m       == Len(w.matches) + 1
      row     == Commit(w, Append(w.matches, NewMatch), w.occupied)
      snapped == Commit(row, [row.matches EXCEPT ![m].snap = [seq |-> 0, game |-> g]],
                        w.occupied)
      begun   == [Commit(snapped, snapped.matches, TRUE) EXCEPT
                    !.objects = Append(@, [match |-> m, game |-> g, seq |-> 0, moves |-> 0]),
                    !.session = Len(w.objects) + 1,
                    !.listeners = @ \cup {p}]
  IN IF w.occupied THEN snapped ELSE RestartTurnClock(begun, Len(w.objects) + 1)

\* Fault: the service does not look for a match that is running.
StartMatchBlindly(w, p) ==
  {w} \cup {Begin(w, p, g) : g \in IF Len(w.matches) < MaxMatches THEN FirstStates ELSE {}}

\* Who is seated and ready is the lobby's: the start may be refused for that at any time.
StartMatch(w, p) ==
  {w} \cup {Begin(w, p, g) : g \in IF w.session = None /\ Len(w.matches) < MaxMatches
                                     THEN FirstStates ELSE {}}

\* Applied, refused by the rules, or not even a move.
Move(w) ==
  IF w.session = None THEN {w}
  ELSE {w} \cup Applied(w, w.session)
           \cup (IF Refusals(w.matches) < MaxRefusals THEN {Rejected(w, w.session)} ELSE {})

LeaveMatch(w, p) ==
  IF w.session = None THEN w
  ELSE Unsubscribe(AbortMatch([w EXCEPT !.clock = CancelAbort(Cancel(@))], w.session), p)

\* RESYNC and STATE_REQUEST of any player of the match resume it.
Sync(w, p) ==
  IF w.session = None THEN w
  ELSE [w EXCEPT !.listeners = @ \cup {p}, !.clock = Resume(CancelAbort(@))]

PauseMatch(w, o, no) ==
  [w EXCEPT !.clock = ScheduleAbort(Pause(@), [object |-> o, runtime |-> runtime.no, no |-> no])]

\* The session is the one the timer was started with, the turn whatever it is now.
ApplyTimeout(w, o) ==
  IF w.objects[o].game.over \/ w.objects[o].game.opening THEN {w} ELSE Applied(w, o)

Abort(w, o) == AbortMatch([w EXCEPT !.clock = Cancel(@)], o)

Outcomes(job) ==
  CASE job.kind = "START"   -> StartMatch(Find(World), job.by)
    [] job.kind = "MOVE"    -> Move(Find(World))
    [] job.kind = "LEAVE"   -> {LeaveMatch(Find(World), job.by)}
    [] job.kind = "SYNC"    -> {Sync(Find(World), job.by)}
    [] job.kind = "PAUSE"   -> {PauseMatch(World, job.object, job.no)}
    [] job.kind = "OFFLINE" -> {Unsubscribe(World, job.by)}
    [] job.kind = "TIMEOUT" -> ApplyTimeout(World, job.object)
    [] job.kind = "ABORT"   -> {Abort(World, job.object)}

-----------------------------------------------------------------------------
Init ==
  /\ matches = << >> /\ occupied = FALSE
  /\ objects = << >> /\ session = None
  /\ clock = Stopped /\ flying = {}
  /\ queue = << >> /\ runtime = [no |-> 1, loaded |-> TRUE]
  /\ listeners = Players /\ online = Players
  /\ leaving = {} /\ absences = 0
  /\ restarts = [all |-> 0, inJob |-> 0]

\* The goroutine does the next job; with the table unloaded the others are lost.
Work ==
  /\ runtime.loaded /\ queue # << >>
  /\ \E w \in Outcomes(Head(queue)) :
       /\ matches' = w.matches /\ occupied' = w.occupied
       /\ objects' = w.objects /\ session' = w.session
       /\ clock' = w.clock /\ listeners' = w.listeners
       /\ runtime' = [runtime EXCEPT !.loaded = w.loaded]
       /\ queue' = IF w.loaded THEN Tail(queue) ELSE << >>
  /\ UNCHANGED <<flying, online, leaving, absences, restarts>>

\* Fault: a full queue makes the connection wait.
SubmittedAnyhow(job) == Append(queue, job)

\* A full queue refuses.
Submitted(job) == IF Len(queue) < QueueSize THEN Append(queue, job) ELSE queue

\* A command wakes the table up; a refused one has no effect.  Whose move it is, is the
\* engine's to judge.
Command(p, kind) ==
  /\ p \in online
  /\ Len(queue) < MaxPending
  /\ runtime' = IF runtime.loaded THEN runtime ELSE [no |-> runtime.no + 1, loaded |-> TRUE]
  /\ queue' = Submitted([kind |-> kind, by |-> IF kind = "MOVE" THEN None ELSE p])
  /\ UNCHANGED <<disk, memory, clock, flying, listeners, online, leaving, absences, restarts>>

-----------------------------------------------------------------------------
(***************************************************************************)
(* The end of a connection is noticed on the goroutine of the connection:  *)
(* it finds the match, reading it from the database if it has to, makes    *)
(* the match wait for the player, and then makes the table forget him.     *)
(* The table works on, and the player may be back, before any of this.     *)
(***************************************************************************)
Disconnect(p) ==
  /\ p \in online
  /\ absences + restarts.all < MaxFailures
  /\ online' = online \ {p}
  /\ absences' = absences + 1
  /\ leaving' = leaving \cup {[by |-> p, no |-> absences + 1, step |-> "FOUND", object |-> session,
                               read |-> IF session = None THEN Restored(matches) ELSE None]}
  /\ UNCHANGED <<disk, memory, clock, flying, queue, runtime, listeners, restarts>>

DisconnectFromMatch(l) ==
  LET w == Keep(World, l.read)
      o == IF l.object # None THEN l.object ELSE IF l.read # None THEN w.session ELSE None
  IN /\ l \in leaving /\ l.step = "FOUND"
     /\ objects' = w.objects /\ session' = w.session
     /\ queue' = IF o # None /\ runtime.loaded
                   THEN Submitted([kind |-> "PAUSE", object |-> o, no |-> l.no]) ELSE queue
     /\ leaving' = (leaving \ {l}) \cup {[by |-> l.by, no |-> l.no, step |-> "PAUSED"]}
     /\ UNCHANGED <<disk, clock, flying, runtime, listeners, online, absences, restarts>>

DisconnectFromTable(l) ==
  /\ l \in leaving /\ l.step = "PAUSED"
  /\ queue' = IF runtime.loaded THEN Submitted([kind |-> "OFFLINE", by |-> l.by]) ELSE queue
  /\ leaving' = leaving \ {l}
  /\ UNCHANGED <<disk, memory, clock, flying, runtime, listeners, online, absences, restarts>>

Connect(p) ==
  /\ p \notin online
  /\ online' = online \cup {p}
  /\ UNCHANGED <<disk, memory, clock, flying, queue, runtime, listeners, leaving, absences,
                 restarts>>

-----------------------------------------------------------------------------
\* Timers.  A callback runs on a goroutine of its own.

TurnFires(t) ==
  /\ t \in clock.ticking
  /\ clock' = Fire(clock, t)
  /\ flying' = flying \cup {[kind |-> "TIMEOUT", timer |-> t]}
  /\ UNCHANGED <<disk, memory, queue, runtime, listeners, online, leaving, absences, restarts>>

AbortFires(a) ==
  /\ a \in clock.waiting
  /\ clock' = FireAbort(clock, a)
  /\ flying' = flying \cup {[kind |-> "ABORT", timer |-> a]}
  /\ UNCHANGED <<disk, memory, queue, runtime, listeners, online, leaving, absences, restarts>>

\* The callback submits to the goroutine it was made for.
Land(f) ==
  /\ f \in flying
  /\ flying' = flying \ {f}
  /\ clock' = IF f.kind = "TIMEOUT" THEN Forget(clock, f.timer) ELSE ForgetAbort(clock)
  /\ queue' = IF runtime.loaded /\ runtime.no = f.timer.runtime
                THEN Submitted([kind |-> f.kind, object |-> f.timer.object]) ELSE queue
  /\ UNCHANGED <<disk, memory, runtime, listeners, online, leaving, absences, restarts>>

-----------------------------------------------------------------------------
\* The server ends and starts anew: what is in memory is lost.
ServerEnds(inJob) ==
  /\ absences + restarts.all < MaxFailures
  /\ restarts' = [all |-> restarts.all + 1, inJob |-> restarts.inJob + inJob]
  /\ objects' = << >> /\ session' = None
  /\ clock' = Stopped /\ flying' = {}
  /\ queue' = << >> /\ runtime' = [no |-> 1, loaded |-> FALSE]
  /\ listeners' = {} /\ online' = {} /\ leaving' = {}
  /\ UNCHANGED absences

Restart == ServerEnds(0) /\ UNCHANGED disk

\* It ends between two writes of a job.
Crash ==
  /\ runtime.loaded /\ queue # << >>
  /\ ServerEnds(1)
  /\ \E w \in Outcomes(Head(queue)) : \E written \in w.trail :
       matches' = written[1] /\ occupied' = written[2]

Commands == {"START", "MOVE", "LEAVE", "SYNC"}

Next ==
  \/ Work
  \/ \E p \in Players : Disconnect(p) \/ Connect(p)
  \/ \E p \in Players, kind \in Commands : Command(p, kind)
  \/ \E l \in leaving : DisconnectFromMatch(l) \/ DisconnectFromTable(l)
  \/ \E t \in clock.ticking : TurnFires(t)
  \/ \E a \in clock.waiting : AbortFires(a)
  \/ \E f \in flying : Land(f)
  \/ Restart
  \/ Crash

Spec == Init /\ [][Next]_vars

(***************************************************************************)
(* The goroutines work, timers fire and their callbacks reach the queue;   *)
(* nothing is assumed of the players and of the connections.  The first    *)
(* line is weak fairness of Work, with what enables it spelled out.        *)
(***************************************************************************)
HasWork == runtime.loaded /\ queue # << >>

Fairness ==
  /\ []<>~HasWork \/ []<><<Work>>_vars
  /\ WF_vars(\E l \in leaving : DisconnectFromMatch(l) \/ DisconnectFromTable(l))
  /\ WF_vars(\E t \in clock.ticking : TurnFires(t))
  /\ WF_vars(\E a \in clock.waiting : AbortFires(a))
  /\ WF_vars(\E f \in flying : Land(f))

FairSpec == Spec /\ Fairness
=============================================================================
