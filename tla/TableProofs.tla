----------------------------- MODULE TableProofs -----------------------------
(***************************************************************************)
(* What TableSafety claims of the matches, the log, the session in memory  *)
(* and the clock of a table, proved for any number of players, matches,    *)
(* moves, failures and any size of the queue.                              *)
(*                                                                         *)
(* A job writes to the database several times and the server may stop      *)
(* after any of these writes, so what a job keeps is said of its outcome   *)
(* and of every state of the database in its trail: Core(w) is true of the *)
(* world a job begins in, and every operation a job is made of keeps it.   *)
(* Settled(w) is what holds between jobs only.                             *)
(***************************************************************************)
EXTENDS TableSafety, TLAPS, FiniteSetTheorems, SequenceTheorems, WellFoundedInduction

-----------------------------------------------------------------------------
\* The values the state is made of.  A match that is not over has a turn left to be played.
LiveGame == {g \in Game : g.over \/ g.turn < MaxTurns}
Snapshot == [seq : Nat, game : LiveGame]
Row == [status : {"IN_PROGRESS", "FINISHED", "ABORTED"}, rated : BOOLEAN,
        log : SUBSET (Nat \ {0}), refused : Nat, snap : Snapshot \cup {NoSnapshot}]
Object == [match : Nat, game : LiveGame, seq : Nat, moves : Nat]
TurnTimer == [object : Nat, turn : 0 .. MaxTurns, runtime : 1 .. runtime.no, run : Nat]
WaitTimer == [object : Nat, runtime : 1 .. runtime.no, no : 1 .. MaxFailures]
Clock == [pending : TurnTimer \cup {None}, paused : TurnTimer \cup {None},
          ticking : SUBSET TurnTimer, abort : WaitTimer \cup {None}, waiting : SUBSET WaitTimer]
Worlds == [matches : Seq(Row), occupied : BOOLEAN, objects : Seq(Object),
           session : Nat \cup {None}, clock : Clock, listeners : SUBSET Players,
           loaded : BOOLEAN, trail : SUBSET (Seq(Row) \X BOOLEAN)]

-----------------------------------------------------------------------------
(***************************************************************************)
(* The inductive invariant.                                                *)
(***************************************************************************)

\* The log of a match has no gap and covers its snapshot.
Numbered(r) ==
  /\ IsFiniteSet(r.log) /\ r.log = 1 .. Cardinality(r.log)
  /\ 1 .. r.snap.seq \subseteq r.log

\* A rated match is closed, and while no connection was lost it was saved as over.
Rated(r) == r.rated => /\ r.status # "IN_PROGRESS"
                       /\ absences = 0 => r.snap # NoSnapshot /\ r.snap.game.over

\* The matches a restart can restore.
Playable(ms) == {m \in InProgress(ms) : ms[m].snap # NoSnapshot}

\* The database: what a crash left half started is older than the match that is played.
Stored(ms) ==
  /\ \A m \in DOMAIN ms : Numbered(ms[m]) /\ Rated(ms[m])
  /\ \A m \in Playable(ms), k \in InProgress(ms) : k <= m

\* A session is of a match that has a snapshot, and what it has counted is in the log.
Backed(ms, x) ==
  /\ x.match \in DOMAIN ms
  /\ ms[x.match].snap # NoSnapshot
  /\ 1 .. x.seq \subseteq ms[x.match].log

\* A session of a rated match cannot write any more: it is over, or its next number is taken.
Spent(ms, objs) ==
  absences = 0 =>
    \A o \in DOMAIN objs : ms[objs[o].match].rated =>
        objs[o].game.over \/ objs[o].seq + 1 \in ms[objs[o].match].log

\* A timer is of a session that exists, and of a turn it has reached.
Held(t, objs) == t.object \in DOMAIN objs /\ t.turn <= objs[t.object].game.turn

\* A callback on its way is of an earlier run of the timer t, or t itself has fired.
Outrun(t, ticking) ==
  \A f \in flying :
    f.kind = "TIMEOUT" /\ f.timer.object = t.object /\ f.timer.turn = t.turn =>
      f.timer.run \in 0 .. t.run /\ (f.timer.run = t.run => t \notin ticking)

\* What ticks is what is registered, and it is not paused at the same time.
Ticks(c, objs) ==
  /\ c.paused # None => c.pending = None
  /\ \A t \in c.ticking : t = c.pending
  /\ \A t \in {c.pending, c.paused} : t # None => Held(t, objs) /\ Outrun(t, c.ticking)
  /\ c.abort # None => c.abort.object \in DOMAIN objs
  /\ \A a \in c.waiting : a.object \in DOMAIN objs

\* Since the job began no session has gone, and none has gone back a turn.
Grown(objs) ==
  /\ objects \in Seq(Object)
  /\ \A o \in DOMAIN objects : o \in DOMAIN objs /\ objects[o].game.turn <= objs[o].game.turn

\* Since the job began no match, no event and no snapshot has gone.
Extended(ms) ==
  \A m \in DOMAIN matches :
    /\ m \in DOMAIN ms
    /\ matches[m].log \subseteq ms[m].log
    /\ matches[m].snap # NoSnapshot => ms[m].snap # NoSnapshot

\* What every write of a job keeps.
Core(w) ==
  /\ w \in Worlds
  /\ Stored(w.matches)
  /\ \A d \in w.trail : Stored(d[1])
  /\ \A o \in DOMAIN w.objects : Backed(w.matches, w.objects[o])
  /\ Spent(w.matches, w.objects)
  /\ w.session # None => w.session \in DOMAIN w.objects
  /\ Ticks(w.clock, w.objects)
  /\ Grown(w.objects) /\ Extended(w.matches)

\* What a whole job keeps.
Settled(w) ==
  /\ absences = 0 /\ w.session # None => w.objects[w.session].match \in InProgress(w.matches)
  /\ restarts.inJob = 0 /\ w.occupied => InProgress(w.matches) # {}

\* What waits outside: jobs, callbacks on their way, lost connections.
Job == [kind : {"START", "SYNC", "LEAVE", "OFFLINE"}, by : Players]
       \cup [kind : {"MOVE"}, by : {None}]
       \cup [kind : {"TIMEOUT", "ABORT"}, object : DOMAIN objects]
       \cup [kind : {"PAUSE"}, object : DOMAIN objects, no : 1 .. MaxFailures]

\* The runtime: unloaded ones have got their numbers.
RuntimeType == runtime \in [no : Nat \ {0}, loaded : BOOLEAN]

\* A callback on its way is of a session that exists.
Fired(f) ==
  \/ f \in [kind : {"TIMEOUT"}, timer : TurnTimer] /\ Held(f.timer, objects)
  \/ f \in [kind : {"ABORT"}, timer : WaitTimer] /\ f.timer.object \in DOMAIN objects

\* A lost connection: a session it has read was in the log when it was read.
Left(l) ==
  \/ l \in [by : Players, no : 1 .. MaxFailures, step : {"PAUSED"}]
  \/ /\ l \in [by : Players, no : 1 .. MaxFailures, step : {"FOUND"},
               object : DOMAIN objects \cup {None}, read : Object \cup {None}]
     /\ l.read # None => Backed(matches, l.read)

\* The failures, within their bound.
CountersType ==
  /\ restarts \in [all : Nat, inJob : Nat] /\ absences \in Nat
  /\ absences + restarts.all <= MaxFailures

\* All of it.
TableInv ==
  /\ RuntimeType /\ CountersType
  /\ online \subseteq Players
  /\ Core(World) /\ Settled(World)
  /\ \A f \in flying : Fired(f)
  /\ queue \in Seq(Job) /\ Len(queue) <= QueueSize
  /\ \A l \in leaving : Left(l)
  /\ absences = 0 => leaving = {}

\* The part of it the lemmas about moves need.
FlyingHeld ==
  \A f \in flying : f.kind = "TIMEOUT" => f.timer \in TurnTimer /\ Held(f.timer, objects)

-----------------------------------------------------------------------------
\* A move takes the game one turn on, and only a game that is not over (Moved, FirstStates).
LEMMA GameFacts ==
  /\ FirstStates \subseteq LiveGame
  /\ \A g \in FirstStates : g.turn = 0 /\ ~g.over
  /\ \A g \in LiveGame : \A h \in Moved(g) :
       h \in LiveGame /\ h.turn = g.turn + 1 /\ ~g.over
<1>1. MaxTurns \in Nat /\ MaxTurns >= 1
  BY TableAssumption
<1>2. FirstStates \subseteq LiveGame /\ \A g \in FirstStates : g.turn = 0 /\ ~g.over
  <2>1. ASSUME NEW g \in FirstStates
        PROVE  g \in LiveGame /\ g.turn = 0 /\ ~g.over
    <3>1. PICK o \in BOOLEAN : g = [turn |-> 0, opening |-> o, over |-> FALSE]
      BY <2>1 DEF FirstStates
    <3> QED
      BY <1>1, <3>1 DEF LiveGame, Game
  <2> QED
    BY <2>1
<1>3. ASSUME NEW g \in LiveGame, NEW h \in Moved(g)
      PROVE  h \in LiveGame /\ h.turn = g.turn + 1 /\ ~g.over
  <2>1. g \in Game /\ ~g.over /\ g.turn < MaxTurns
    BY <1>3 DEF Moved, LiveGame
  <2>2. CASE h = [turn |-> g.turn + 1, opening |-> FALSE, over |-> TRUE]
    BY <1>1, <2>1, <2>2 DEF LiveGame, Game
  <2>3. CASE /\ g.turn + 1 < MaxTurns
             /\ \E o \in BOOLEAN : h = [turn |-> g.turn + 1, opening |-> o, over |-> FALSE]
    BY <1>1, <2>1, <2>3 DEF LiveGame, Game
  <2> QED
    BY <1>3, <2>1, <2>2, <2>3 DEF Moved
<1> QED
  BY <1>2, <1>3

\* The types of the fields of a session.
LEMMA ObjectFacts ==
  \A x \in Object : /\ x.match \in Nat /\ x.game \in LiveGame /\ x.seq \in Nat /\ x.moves \in Nat
                    /\ x.game.turn \in Nat /\ x.game.turn \in 0 .. MaxTurns
                    /\ x.game.over \in BOOLEAN
BY TableAssumption DEF Object, LiveGame, Game

\* A session whose number or whose game is set anew is a session of the same match.
LEMMA ObjectChanges ==
  ASSUME NEW x \in Object
  PROVE  /\ \A n \in Nat : LET y == [x EXCEPT !.seq = n]
                          IN y \in Object /\ y.match = x.match /\ y.seq = n /\ y.game = x.game
         /\ \A g \in LiveGame, n \in Nat :
              LET y == Advanced(x, g, n)
              IN y \in Object /\ y.match = x.match /\ y.seq = x.seq /\ y.game = g
BY DEF Object, Advanced

\* A row of the database has no snapshot, or one with a number.
LEMMA RowFacts ==
  /\ \A r \in Row : r.snap # NoSnapshot => r.snap \in Snapshot /\ r.snap.seq \in Nat
  /\ NoSnapshot \notin Snapshot /\ NoSnapshot.seq = -1
  /\ NewMatch \in Row
BY DEF Row, Snapshot, NoSnapshot, NewMatch

\* s is the row r after a write: it has lost nothing and was not opened again.
Rewritten(r, s) ==
  /\ s \in Row /\ Numbered(s) /\ Rated(s)
  /\ r.log \subseteq s.log
  /\ (r.snap # NoSnapshot <=> s.snap # NoSnapshot)
  /\ s.status = "IN_PROGRESS" => r.status = "IN_PROGRESS"

\* A row in the place of another one.
LEMMA RowReplaced ==
  ASSUME NEW ms \in Seq(Row), NEW m \in DOMAIN ms, NEW s \in Row
  PROVE  [ms EXCEPT ![m] = s] \in Seq(Row)
OBVIOUS

\* A write that loses nothing keeps what is claimed of the database.
LEMMA WriteStored ==
  ASSUME NEW ms \in Seq(Row), Stored(ms), NEW m \in DOMAIN ms, NEW s, Rewritten(ms[m], s)
  PROVE  LET new == [ms EXCEPT ![m] = s]
         IN new \in Seq(Row) /\ DOMAIN new = DOMAIN ms /\ Stored(new)
<1> DEFINE new == [ms EXCEPT ![m] = s]
<1>1. new \in Seq(Row) /\ DOMAIN new = DOMAIN ms
  BY DEF Rewritten
<1>2. \A k \in DOMAIN ms : new[k] = IF k = m THEN s ELSE ms[k]
  OBVIOUS
<1> HIDE DEF new
<1>3. InProgress(new) \subseteq InProgress(ms) /\ Playable(new) \subseteq Playable(ms)
  BY <1>1, <1>2 DEF InProgress, Playable, Rewritten
<1> QED
  BY <1>1, <1>2, <1>3 DEF Stored, Rewritten, new

\* A commit keeps Core if what it writes backs every session (Commit).
LEMMA CommitKeeps ==
  ASSUME NEW w, Core(w), NEW new \in Seq(Row), Stored(new), NEW occ \in BOOLEAN,
         \A o \in DOMAIN w.objects : Backed(new, w.objects[o]),
         Extended(new), Spent(new, w.objects)
  PROVE  LET e == Commit(w, new, occ)
         IN /\ Core(e)
            /\ e.matches = new /\ e.occupied = occ
            /\ e.objects = w.objects /\ e.session = w.session /\ e.clock = w.clock
<1> DEFINE trail == w.trail \cup {<<new, occ>>}
           e == Commit(w, new, occ)
<1>1. w \in Worlds
  BY DEF Core
<1>2. /\ trail \in SUBSET (Seq(Row) \X BOOLEAN)
      /\ \A d \in trail : Stored(d[1])
  <2>1. w.trail \in SUBSET (Seq(Row) \X BOOLEAN)
    BY <1>1 DEF Worlds
  <2>2. <<new, occ>> \in Seq(Row) \X BOOLEAN /\ <<new, occ>>[1] = new
    OBVIOUS
  <2> QED
    BY <2>1, <2>2 DEF Core
<1> HIDE DEF trail
<1>3. /\ e \in Worlds /\ e.matches = new /\ e.occupied = occ /\ e.objects = w.objects
      /\ e.session = w.session /\ e.clock = w.clock /\ e.trail = trail
  <2>1. e = [w EXCEPT !.matches = new, !.occupied = occ, !.trail = trail]
    BY DEF Commit, trail
  <2> QED
    BY <1>1, <1>2, <2>1 DEF Worlds
<1> QED
  BY <1>2, <1>3 DEF Core

\* From w to e the rows of the matches have become new and the table occ, and nothing else
\* has changed.
Written(w, e, new, occ) ==
  /\ Core(e)
  /\ e.matches = new /\ e.occupied = occ
  /\ e.objects = w.objects /\ e.session = w.session /\ e.clock = w.clock

\* A commit that rewrites the row of one match keeps Core.
LEMMA WriteKeeps ==
  ASSUME NEW w, Core(w), NEW m \in DOMAIN w.matches, NEW s, Rewritten(w.matches[m], s),
         NEW occ \in BOOLEAN, Spent([w.matches EXCEPT ![m] = s], w.objects)
  PROVE  Written(w, Commit(w, [w.matches EXCEPT ![m] = s], occ), [w.matches EXCEPT ![m] = s], occ)
<1> DEFINE new == [w.matches EXCEPT ![m] = s]
<1>1. w.matches \in Seq(Row) /\ Stored(w.matches)
  BY DEF Core, Worlds
<1>2. new \in Seq(Row) /\ DOMAIN new = DOMAIN w.matches /\ Stored(new)
  BY <1>1, WriteStored
<1>3. \A k \in DOMAIN w.matches : new[k] = IF k = m THEN s ELSE w.matches[k]
  OBVIOUS
<1>4. Spent(new, w.objects)
  OBVIOUS
<1> HIDE DEF new
<1>5. \A o \in DOMAIN w.objects : Backed(new, w.objects[o])
  BY <1>2, <1>3 DEF Core, Backed, Rewritten
<1>6. Extended(new)
  BY <1>2, <1>3 DEF Core, Extended, Rewritten
<1>7. LET e == Commit(w, new, occ)
      IN /\ Core(e)
         /\ e.matches = new /\ e.occupied = occ
         /\ e.objects = w.objects /\ e.session = w.session /\ e.clock = w.clock
  BY <1>2, <1>4, <1>5, <1>6, CommitKeeps
<1> QED
  BY <1>7 DEF new, Written

\* A sound clock may take the place of the other one.
LEMMA ClockKeeps ==
  ASSUME NEW w, Core(w), NEW c \in Clock, Ticks(c, w.objects)
  PROVE  LET e == [w EXCEPT !.clock = c]
         IN /\ Core(e) /\ e.clock = c
            /\ e.matches = w.matches /\ e.occupied = w.occupied /\ e.objects = w.objects
            /\ e.session = w.session
<1> DEFINE e == [w EXCEPT !.clock = c]
<1>1. /\ e \in Worlds /\ e.clock = c
      /\ e.matches = w.matches /\ e.occupied = w.occupied /\ e.objects = w.objects
      /\ e.session = w.session /\ e.trail = w.trail
  BY DEF Core, Worlds
<1> QED
  BY <1>1 DEF Core

\* The service may drop its session at any time.
LEMMA SessionOffKeeps ==
  ASSUME NEW w, Core(w)
  PROVE  LET e == [w EXCEPT !.session = None]
         IN /\ Core(e) /\ e.clock = w.clock
            /\ e.matches = w.matches /\ e.occupied = w.occupied /\ e.objects = w.objects
            /\ e.session = None
<1> DEFINE e == [w EXCEPT !.session = None]
<1>1. /\ e \in Worlds /\ e.clock = w.clock
      /\ e.matches = w.matches /\ e.occupied = w.occupied /\ e.objects = w.objects
      /\ e.session = None /\ e.trail = w.trail
  BY DEF Core, Worlds
<1> QED
  BY <1>1 DEF Core

\* Timers stay sound while sessions are added and take turns.
LEMMA TicksKept ==
  ASSUME NEW c, NEW objs, NEW new, Ticks(c, objs),
         \A o \in DOMAIN objs : o \in DOMAIN new /\ objs[o].game.turn <= new[o].game.turn,
         objs \in Seq(Object), new \in Seq(Object), c \in Clock
  PROVE  Ticks(c, new)
<1>1. ASSUME NEW t \in TurnTimer, Held(t, objs)
      PROVE  Held(t, new)
  <2>1. t.turn \in Nat /\ t.object \in DOMAIN objs /\ t.object \in DOMAIN new
    BY <1>1, TableAssumption DEF Held, TurnTimer
  <2>2. objs[t.object] \in Object /\ new[t.object] \in Object
    BY <2>1
  <2>3. objs[t.object].game.turn \in Int /\ new[t.object].game.turn \in Int
    BY <2>2, ObjectFacts
  <2> QED
    BY <1>1, <2>1, <2>3 DEF Held
<1>2. \A t \in {c.pending, c.paused} : t # None => t \in TurnTimer
  BY DEF Clock
<1> QED
  BY <1>1, <1>2 DEF Ticks

\* A session may move on, as far as its log goes.
LEMMA ObjectKeeps ==
  ASSUME NEW w, Core(w), NEW o \in DOMAIN w.objects, NEW x \in Object,
         x.match = w.objects[o].match,
         w.objects[o].game.turn <= x.game.turn,
         1 .. x.seq \subseteq w.matches[x.match].log,
         absences = 0 /\ w.matches[x.match].rated =>
           x.game.over \/ x.seq + 1 \in w.matches[x.match].log
  PROVE  LET e == [w EXCEPT !.objects = [w.objects EXCEPT ![o] = x]]
         IN /\ Core(e) /\ e.objects = [w.objects EXCEPT ![o] = x]
            /\ e.matches = w.matches /\ e.occupied = w.occupied /\ e.clock = w.clock
            /\ e.session = w.session
<1> DEFINE new == [w.objects EXCEPT ![o] = x]
           e == [w EXCEPT !.objects = new]
<1>1. w \in Worlds /\ w.objects \in Seq(Object) /\ w.clock \in Clock
  BY DEF Core, Worlds
<1>2. new \in Seq(Object) /\ DOMAIN new = DOMAIN w.objects
  BY <1>1
<1>3. \A k \in DOMAIN w.objects : new[k] = IF k = o THEN x ELSE w.objects[k]
  OBVIOUS
<1>4. \A k \in DOMAIN w.objects : /\ w.objects[k].game.turn \in Int /\ new[k].game.turn \in Int
                                 /\ w.objects[k].game.turn <= new[k].game.turn
  <2>1. \A k \in DOMAIN w.objects : w.objects[k] \in Object
    BY <1>1
  <2> QED
    BY <1>3, <2>1, ObjectFacts
<1> HIDE DEF new
<1>5. /\ e \in Worlds /\ e.clock = w.clock
      /\ e.matches = w.matches /\ e.occupied = w.occupied /\ e.objects = new
      /\ e.session = w.session /\ e.trail = w.trail
  BY <1>1, <1>2 DEF Worlds
<1>6. \A k \in DOMAIN new : Backed(w.matches, new[k])
  BY <1>2, <1>3 DEF Core, Backed
<1>7. Spent(w.matches, new)
  BY <1>2, <1>3 DEF Core, Spent
<1>8. Ticks(w.clock, new)
  BY <1>1, <1>2, <1>4, TicksKept DEF Core
<1>9. Grown(new)
  <2>1. ASSUME NEW k \in DOMAIN objects
        PROVE  k \in DOMAIN new /\ objects[k].game.turn <= new[k].game.turn
    <3>1. k \in DOMAIN w.objects /\ objects[k].game.turn <= w.objects[k].game.turn
      BY DEF Core, Grown
    <3>2. objects[k] \in Object
      BY DEF Core, Grown
    <3>3. objects[k].game.turn \in Int
      BY <3>2, ObjectFacts
    <3> QED
      BY <1>2, <1>4, <3>1, <3>3
  <2> QED
    BY <2>1 DEF Grown, Core
<1>10. Core(e)
  BY <1>2, <1>5, <1>6, <1>7, <1>8, <1>9 DEF Core
<1> QED
  BY <1>5, <1>10 DEF new

\* e is w with one session more, x, which the service holds now.
Loaded(w, e, x) ==
  /\ Core(e) /\ e.matches = w.matches /\ e.occupied = w.occupied /\ e.clock = w.clock
  /\ e.session = Len(w.objects) + 1 /\ e.session \in DOMAIN e.objects
  /\ e.objects[e.session] = x /\ e.session \notin DOMAIN objects

\* A session that is backed by the database may be put in memory.
LEMMA NewObjectKeeps ==
  ASSUME NEW w, Core(w), NEW x \in Object, Backed(w.matches, x),
         absences = 0 => ~w.matches[x.match].rated
  PROVE  Loaded(w, [w EXCEPT !.objects = Append(@, x), !.session = Len(w.objects) + 1], x)
<1> DEFINE new == Append(w.objects, x)
           n == Len(w.objects) + 1
           e == [w EXCEPT !.objects = new, !.session = n]
<1>1. w \in Worlds /\ w.objects \in Seq(Object) /\ w.clock \in Clock
  BY DEF Core, Worlds
<1>2. /\ new \in Seq(Object) /\ n \in Nat /\ DOMAIN new = 1 .. n /\ DOMAIN w.objects = 1 .. n - 1
      /\ n \notin DOMAIN w.objects /\ n \in DOMAIN new
      /\ DOMAIN new = DOMAIN w.objects \cup {n}
  BY <1>1
<1>3. new[n] = x /\ \A k \in DOMAIN w.objects : new[k] = w.objects[k]
  BY <1>1
<1> HIDE DEF new, n
<1>4. /\ e \in Worlds /\ e.matches = w.matches /\ e.occupied = w.occupied /\ e.clock = w.clock
      /\ e.objects = new /\ e.session = n /\ e.trail = w.trail
  BY <1>1, <1>2 DEF Worlds
<1>5. \A k \in DOMAIN new : Backed(w.matches, new[k])
  BY <1>2, <1>3 DEF Core
<1>6. Spent(w.matches, new)
  BY <1>2, <1>3 DEF Core, Spent
<1>7. \A k \in DOMAIN w.objects : k \in DOMAIN new /\ w.objects[k].game.turn <= new[k].game.turn
  <2>1. \A k \in DOMAIN w.objects : w.objects[k] \in Object
    BY <1>1
  <2> QED
    BY <1>2, <1>3, <2>1, ObjectFacts
<1>8. Ticks(w.clock, new)
  BY <1>1, <1>2, <1>7, TicksKept DEF Core
<1>9. Grown(new) /\ n \notin DOMAIN objects
  BY <1>2, <1>3 DEF Core, Grown
<1>10. Core(e)
  BY <1>2, <1>4, <1>5, <1>6, <1>8, <1>9 DEF Core
<1> HIDE DEF e
<1>11. Loaded(w, e, x)
  BY <1>2, <1>3, <1>4, <1>9, <1>10 DEF Loaded, n
<1> QED
  BY <1>11 DEF new, n, e

\* A set of natural numbers that is not empty has a least one.
LEMMA LeastNumber ==
  ASSUME NEW S \in SUBSET Nat, S # {}
  PROVE  \E m \in S : \A k \in S : m <= k
<1> DEFINE Less == {p \in Nat \X Nat : p[1] < p[2]}
<1>1. IsWellFoundedOn(Less, Nat)
  BY NatLessThanWellFounded, Zenon DEF OpToRel
<1>2. \E m \in S : \A k \in S : ~(<<k, m>> \in Less)
  <2> HIDE DEF Less
  <2> QED
    BY <1>1, WFMin
<1>3. PICK m \in S : \A k \in S : ~(<<k, m>> \in Less)
  BY <1>2
<1>4. \A k \in S : ~(k < m)
  BY <1>3
<1> QED
  BY <1>4

\* Of the matches in progress one is the newest, which Restored takes.
LEMMA NewestExists ==
  ASSUME NEW ms, NEW n \in Nat, DOMAIN ms = 1 .. n, InProgress(ms) # {}
  PROVE  \E m \in InProgress(ms) : \A k \in InProgress(ms) : k <= m
<1> DEFINE S == {n - m : m \in InProgress(ms)}
<1>1. InProgress(ms) \subseteq 1 .. n
  BY DEF InProgress
<1>2. S \in SUBSET Nat /\ S # {}
  BY <1>1
<1>3. PICK m \in S : \A k \in S : m <= k
  <2> HIDE DEF S
  <2> QED
    BY <1>2, LeastNumber
<1>4. PICK p \in InProgress(ms) : m = n - p
  BY <1>3
<1>5. \A k \in InProgress(ms) : n - k \in S
  OBVIOUS
<1>6. ASSUME NEW k \in InProgress(ms)
      PROVE  k <= p
  <2>1. n - p <= n - k
    BY <1>3, <1>4, <1>5
  <2> QED
    BY <1>1, <2>1
<1> QED
  BY <1>6

\* What is restored is the one match that can be played, and the database backs it (Restored).
LEMMA RestoredIs ==
  ASSUME NEW ms \in Seq(Row), Stored(ms)
  PROVE  /\ Restored(ms) \in Object \cup {None}
         /\ Restored(ms) = None => Playable(ms) = {}
         /\ Restored(ms) # None => Restored(ms).match \in Playable(ms) /\ Backed(ms, Restored(ms))
         /\ \A m \in Playable(ms) : Restored(ms) # None /\ Restored(ms).match = m
<1> DEFINE m == CHOOSE m \in InProgress(ms) : \A k \in InProgress(ms) : k <= m
           r == [match |-> m, game |-> ms[m].snap.game, seq |-> ms[m].snap.seq, moves |-> 0]
<1>1. CASE InProgress(ms) = {}
  BY <1>1 DEF Restored, Playable
<1>2. CASE InProgress(ms) # {}
  <2>1. Len(ms) \in Nat /\ DOMAIN ms = 1 .. Len(ms)
    OBVIOUS
  <2>2. m \in InProgress(ms) /\ \A k \in InProgress(ms) : k <= m
    BY <1>2, <2>1, NewestExists
  <2> HIDE DEF m
  <2>3. m \in DOMAIN ms /\ m \in Nat /\ InProgress(ms) \subseteq Nat /\ ms[m] \in Row
    BY <2>1, <2>2 DEF InProgress
  <2>4. \A p \in Playable(ms) : p = m
    BY <2>2, <2>3 DEF Stored, Playable
  <2>5. CASE ms[m].snap = NoSnapshot
    <3>1. Restored(ms) = None
      BY <1>2, <2>5 DEF Restored, m
    <3> QED
      BY <2>4, <2>5, <3>1 DEF Playable
  <2>6. CASE ms[m].snap # NoSnapshot
    <3>1. Restored(ms) = r
      BY <1>2, <2>6 DEF Restored, m
    <3>2. ms[m].snap \in [seq : Nat, game : LiveGame]
      BY <2>3, <2>6 DEF Row, Snapshot
    <3>3. r \in Object /\ r.match = m /\ r.seq = ms[m].snap.seq
      BY <2>3, <3>2 DEF Object
    <3>4. r # None
      BY <3>3, NoneAssumption DEF Object, LiveGame
    <3>5. Backed(ms, r)
      BY <2>3, <2>6, <3>3 DEF Backed, Stored, Numbered
    <3>6. m \in Playable(ms)
      BY <2>2, <2>6 DEF Playable
    <3> QED
      BY <2>4, <3>1, <3>3, <3>4, <3>5, <3>6
  <2> QED
    BY <2>5, <2>6
<1> QED
  BY <1>1, <1>2

\* A session that was read may be kept as long as the database backs it (MatchService.restore).
LEMMA KeepKeeps ==
  ASSUME NEW w, Core(w), Settled(w), NEW read \in Object \cup {None},
         read # None => /\ Backed(w.matches, read)
                        /\ absences = 0 => read.match \in InProgress(w.matches)
  PROVE  LET e == Keep(w, read)
         IN /\ Core(e) /\ Settled(e)
            /\ e.matches = w.matches /\ e.occupied = w.occupied /\ e.clock = w.clock
            /\ read # None => e.session # None
            /\ read = None => e = w
<1>1. CASE w.session # None \/ read = None
  BY <1>1 DEF Keep
<1>2. CASE ~(w.session # None \/ read = None)
  <2> DEFINE e == [w EXCEPT !.objects = Append(@, read), !.session = Len(w.objects) + 1]
  <2>1. Keep(w, read) = e
    BY <1>2 DEF Keep
  <2>2. /\ read \in Object /\ Backed(w.matches, read)
        /\ absences = 0 => read.match \in InProgress(w.matches)
    BY <1>2
  <2>3. absences = 0 => ~w.matches[read.match].rated
    BY <2>2 DEF Core, Stored, Rated, InProgress
  <2>4. Loaded(w, e, read)
    BY <2>2, <2>3, NewObjectKeeps
  <2> HIDE DEF e
  <2>5. Settled(e)
    BY <2>2, <2>4 DEF Settled, Loaded
  <2>6. Len(w.objects) + 1 \in Nat /\ None \notin Nat
    BY NoneAssumption DEF Core, Worlds
  <2> QED
    BY <1>2, <2>1, <2>4, <2>5, <2>6 DEF Loaded
<1> QED
  BY <1>1, <1>2

\* With no session after Find there is no match to be played (MatchService.Find).
LEMMA FindKeeps ==
  ASSUME NEW w, Core(w), Settled(w)
  PROVE  LET e == Find(w)
         IN /\ Core(e) /\ Settled(e)
            /\ e.matches = w.matches /\ e.occupied = w.occupied /\ e.clock = w.clock
            /\ e.session = None => Playable(e.matches) = {}
<1>1. w.matches \in Seq(Row) /\ Stored(w.matches)
  BY DEF Core, Worlds
<1> DEFINE read == Restored(w.matches)
<1>2. /\ read \in Object \cup {None}
      /\ read = None => Playable(w.matches) = {}
      /\ read # None => read.match \in Playable(w.matches) /\ Backed(w.matches, read)
  BY <1>1, RestoredIs
<1> HIDE DEF read
<1>3. read # None => read.match \in InProgress(w.matches)
  BY <1>2 DEF Playable
<1> DEFINE e == Keep(w, read)
<1>4. /\ Core(e) /\ Settled(e)
      /\ e.matches = w.matches /\ e.occupied = w.occupied /\ e.clock = w.clock
      /\ read # None => e.session # None
      /\ read = None => e = w
  BY <1>2, <1>3, KeepKeeps
<1>5. Find(w) = e
  BY DEF Find, read
<1> QED
  BY <1>2, <1>4, <1>5

-----------------------------------------------------------------------------
\* After Cancel no timer of the turn is left.
LEMMA CancelKeeps ==
  ASSUME NEW c \in Clock, NEW objs, Ticks(c, objs)
  PROVE  LET e == Cancel(c)
         IN e \in Clock /\ Ticks(e, objs) /\ e.ticking = {} /\ e.pending = None /\ e.paused = None
<1> DEFINE e == Cancel(c)
           left == c.ticking \ {c.pending}
<1>1. left = {}
  BY DEF Ticks
<1>2. e = [c EXCEPT !.ticking = {}, !.pending = None, !.paused = None]
  BY <1>1 DEF Cancel
<1>3. /\ e \in Clock /\ e.ticking = {} /\ e.pending = None /\ e.paused = None
      /\ e.abort = c.abort /\ e.waiting = c.waiting
  BY <1>2 DEF Clock
<1> QED
  BY <1>3 DEF Ticks

\* CancelAbort leaves the clock of the turn alone.
LEMMA CancelAbortKeeps ==
  ASSUME NEW c \in Clock, NEW objs, Ticks(c, objs)
  PROVE  LET e == CancelAbort(c)
         IN /\ e \in Clock /\ Ticks(e, objs)
            /\ e.ticking = c.ticking /\ e.pending = c.pending /\ e.paused = c.paused
<1> DEFINE e == CancelAbort(c)
           left == c.waiting \ {c.abort}
<1> HIDE DEF left
<1>1. e = [c EXCEPT !.waiting = left, !.abort = None]
  BY DEF CancelAbort, left
<1>2. left \in SUBSET WaitTimer /\ left \subseteq c.waiting
  BY DEF left, Clock
<1>3. /\ e \in Clock /\ e.ticking = c.ticking /\ e.pending = c.pending /\ e.paused = c.paused
      /\ e.abort = None /\ e.waiting = left
  BY <1>1, <1>2 DEF Clock
<1> QED
  BY <1>2, <1>3 DEF Ticks

\* A timer may be started when none runs, with a run no callback on its way has.
LEMMA ScheduleKeeps ==
  ASSUME NEW c \in Clock, NEW objs, Ticks(c, objs), c.ticking = {}, c.paused = None,
         NEW t \in TurnTimer, Held(t, objs),
         \A f \in flying : f.kind = "TIMEOUT" /\ f.timer.object = t.object /\ f.timer.turn = t.turn
                             => f.timer.run \in 0 .. t.run - 1
  PROVE  Schedule(c, t) \in Clock /\ Ticks(Schedule(c, t), objs)
<1> DEFINE e == Schedule(c, t)
           only == {t}
<1>1. e = [c EXCEPT !.pending = t, !.ticking = only]
  BY DEF Schedule
<1>2. only \in SUBSET TurnTimer /\ \A r \in only : r = t
  OBVIOUS
<1> HIDE DEF only, e
<1>3. /\ e \in Clock /\ e.ticking = only /\ e.pending = t /\ e.paused = None
      /\ e.abort = c.abort /\ e.waiting = c.waiting
  BY <1>1, <1>2 DEF Clock
<1>4. Outrun(t, only)
  <2>1. t.run \in Nat
    BY DEF TurnTimer
  <2> QED
    BY <2>1 DEF Outrun
<1>5. Ticks(e, objs)
  BY <1>2, <1>3, <1>4 DEF Ticks
<1> QED
  BY <1>3, <1>5 DEF e

\* A pause keeps the timer that was registered, and stops it.
LEMMA PauseKeeps ==
  ASSUME NEW c \in Clock, NEW objs, Ticks(c, objs)
  PROVE  Pause(c) \in Clock /\ Ticks(Pause(c), objs)
<1>1. CASE c.pending = None
  BY <1>1 DEF Pause
<1>2. CASE c.pending # None
  <2> DEFINE e == Pause(c)
  <2>1. c.ticking \ {c.pending} = {}
    BY DEF Ticks
  <2>2. e = [c EXCEPT !.ticking = {}, !.paused = c.pending, !.pending = None]
    BY <1>2, <2>1 DEF Pause
  <2>3. /\ e \in Clock /\ e.ticking = {} /\ e.pending = None /\ e.paused = c.pending
        /\ e.abort = c.abort /\ e.waiting = c.waiting
    BY <2>2 DEF Clock
  <2> QED
    BY <1>2, <2>3 DEF Ticks, Outrun
<1> QED
  BY <1>1, <1>2

\* A timer that is resumed is a new run, so a callback of the old one cannot be taken for it.
LEMMA ResumeKeeps ==
  ASSUME NEW c \in Clock, NEW objs, Ticks(c, objs)
  PROVE  Resume(c) \in Clock /\ Ticks(Resume(c), objs)
<1>1. CASE c.paused = None
  BY <1>1 DEF Resume
<1>2. CASE c.paused # None
  <2> DEFINE off == [c EXCEPT !.paused = None]
             t == [c.paused EXCEPT !.run = @ + 1]
  <2>1. c.pending = None /\ c.paused \in TurnTimer
    BY <1>2 DEF Ticks, Clock
  <2>2. c.ticking = {}
    <3>1. None \notin TurnTimer
      BY NoneAssumption, TableAssumption DEF TurnTimer
    <3> QED
      BY <2>1, <3>1 DEF Ticks, Clock
  <2>3. /\ off \in Clock /\ off.ticking = {} /\ off.pending = None /\ off.paused = None
        /\ off.abort = c.abort /\ off.waiting = c.waiting
    BY <2>1, <2>2 DEF Clock
  <2>4. Ticks(off, objs)
    BY <2>3 DEF Ticks
  <2>5. /\ t \in TurnTimer /\ t.object = c.paused.object /\ t.turn = c.paused.turn
        /\ t.run = c.paused.run + 1 /\ c.paused.run \in Nat
    BY <2>1 DEF TurnTimer
  <2>6. Held(t, objs)
    BY <1>2, <2>5 DEF Ticks, Held
  <2> HIDE DEF off, t
  <2>7. ASSUME NEW f \in flying,
               f.kind = "TIMEOUT", f.timer.object = t.object, f.timer.turn = t.turn
        PROVE  f.timer.run \in 0 .. t.run - 1
    BY <1>2, <2>5, <2>7 DEF Ticks, Outrun
  <2>8. Schedule(off, t) \in Clock /\ Ticks(Schedule(off, t), objs)
    BY <2>3, <2>4, <2>5, <2>6, <2>7, ScheduleKeeps
  <2> QED
    BY <1>2, <2>8 DEF Resume, off, t
<1> QED
  BY <1>1, <1>2

\* The wait for a player is on for a session that exists.
LEMMA ScheduleAbortKeeps ==
  ASSUME NEW c \in Clock, NEW objs, Ticks(c, objs), NEW a \in WaitTimer, a.object \in DOMAIN objs
  PROVE  ScheduleAbort(c, a) \in Clock /\ Ticks(ScheduleAbort(c, a), objs)
<1> DEFINE off == CancelAbort(c)
           more == off.waiting \cup {a}
           e == [off EXCEPT !.abort = a, !.waiting = more]
<1>1. off \in Clock /\ Ticks(off, objs)
  BY CancelAbortKeeps
<1> HIDE DEF off
<1>2. more \in SUBSET WaitTimer
  BY <1>1 DEF Clock
<1> HIDE DEF more
<1>3. /\ e \in Clock /\ e.ticking = off.ticking /\ e.pending = off.pending /\ e.paused = off.paused
      /\ e.abort = a /\ e.waiting = more
  BY <1>1, <1>2 DEF Clock
<1>4. Ticks(e, objs)
  BY <1>1, <1>3 DEF Ticks, more
<1>5. ScheduleAbort(c, a) = e
  BY DEF ScheduleAbort, off, more
<1> QED
  BY <1>3, <1>4, <1>5

-----------------------------------------------------------------------------
\* No callback on its way is of the turn the session is at.
Fresh(w, o) ==
  \A f \in flying : f.kind = "TIMEOUT" /\ f.timer.object = o
                      => f.timer.turn # w.objects[o].game.turn

\* The clock may be started for a turn no callback is of (GameRouter.restartTurnClock).
LEMMA RestartTurnClockKeeps ==
  ASSUME NEW w, Core(w), NEW o \in DOMAIN w.objects, Fresh(w, o), RuntimeType
  PROVE  LET e == RestartTurnClock(w, o)
         IN /\ Core(e)
            /\ e.matches = w.matches /\ e.occupied = w.occupied /\ e.objects = w.objects
            /\ e.session = w.session
<1> DEFINE t == [object |-> o, turn |-> w.objects[o].game.turn, runtime |-> runtime.no, run |-> 0]
           off == Cancel(w.clock)
           on == Schedule(off, t)
<1>1. w.clock \in Clock /\ Ticks(w.clock, w.objects) /\ w.objects \in Seq(Object)
  BY DEF Core, Worlds
<1>2. off \in Clock /\ Ticks(off, w.objects) /\ off.ticking = {} /\ off.paused = None
  BY <1>1, CancelKeeps
<1> HIDE DEF off
<1>3. /\ t \in TurnTimer /\ Held(t, w.objects) /\ t.object = o /\ t.turn = w.objects[o].game.turn
      /\ t.run = 0
  <2>1. o \in Nat /\ w.objects[o] \in Object
    BY <1>1
  <2>2. w.objects[o].game.turn \in 0 .. MaxTurns /\ w.objects[o].game.turn \in Nat
    BY <2>1, ObjectFacts
  <2>3. runtime.no \in 1 .. runtime.no
    BY DEF RuntimeType
  <2> QED
    BY <2>1, <2>2, <2>3 DEF TurnTimer, Held
<1> HIDE DEF t
<1>4. on \in Clock /\ Ticks(on, w.objects)
  <2>1. \A f \in flying : f.kind = "TIMEOUT" /\ f.timer.object = t.object /\ f.timer.turn = t.turn
                             => f.timer.run \in 0 .. t.run - 1
    BY <1>3 DEF Fresh
  <2> QED
    BY <1>2, <1>3, <2>1, ScheduleKeeps
<1> HIDE DEF on
<1>5. RestartTurnClock(w, o) =
        [w EXCEPT !.clock = IF w.objects[o].game.over \/ ~AutoMove THEN off ELSE on]
  BY DEF RestartTurnClock, off, on, t, Start
<1> QED
  BY <1>2, <1>4, <1>5, ClockKeeps

\* The number that is free is the next one.
LEMMA NextNumber ==
  ASSUME NEW r \in Row, Numbered(r), NEW n \in Nat, 1 .. n \subseteq r.log, n + 1 \notin r.log
  PROVE  r.log = 1 .. n /\ Cardinality(r.log) = n
<1> DEFINE k == Cardinality(r.log)
<1>1. k \in Nat /\ r.log = 1 .. k
  BY FS_CardinalityType DEF Numbered
<1> HIDE DEF k
<1>2. k >= n
  <2>1. CASE n = 0
    BY <1>1, <2>1
  <2>2. CASE n # 0
    <3>1. n \in 1 .. n
      BY <2>2
    <3> QED
      BY <1>1, <3>1
  <2> QED
    BY <2>1, <2>2
<1>3. ~(n + 1 <= k)
  BY <1>1
<1>4. k = n
  BY <1>1, <1>2, <1>3
<1> QED
  BY <1>1, <1>4 DEF k

\* e is w after the event n of the match of o; no other session of it can write its own next.
LoggedUpTo(w, e, o, n) ==
  LET m == w.objects[o].match
  IN /\ Core(e)
     /\ DOMAIN e.matches = DOMAIN w.matches
     /\ e.matches[m].log = 1 .. n /\ e.matches[m].rated = w.matches[m].rated
     /\ e.occupied = w.occupied /\ e.objects = w.objects /\ e.session = w.session
     /\ InProgress(e.matches) = InProgress(w.matches)
     /\ \A k \in DOMAIN w.objects : w.objects[k].match = m => w.objects[k].seq + 1 \in 1 .. n

\* An event with a free number leaves the log without a gap (MatchLog.Append).
LEMMA LogEventKeeps ==
  ASSUME NEW w, Core(w), NEW o \in DOMAIN w.objects, NEW n \in Nat,
         1 .. n \subseteq w.matches[w.objects[o].match].log,
         n + 1 \notin w.matches[w.objects[o].match].log
  PROVE  LoggedUpTo(w, LogEvent(w, o, n + 1), o, n + 1)
<1> DEFINE m == w.objects[o].match
           r == w.matches[m]
           log == 1 .. n + 1
           s == [r EXCEPT !.log = log]
           new == [w.matches EXCEPT ![m] = s]
<1>1. /\ w.matches \in Seq(Row) /\ w.objects \in Seq(Object) /\ m \in DOMAIN w.matches
      /\ Stored(w.matches) /\ w.occupied \in BOOLEAN
  BY DEF Core, Worlds, Backed
<1>2. r \in Row /\ Numbered(r) /\ Rated(r)
  BY <1>1 DEF Stored
<1>3. r.log = 1 .. n
  BY <1>2, NextNumber
<1>4. r.log \cup {n + 1} = log
  BY <1>3
<1>5. /\ IsFiniteSet(log) /\ Cardinality(log) = n + 1
      /\ log \in SUBSET (Nat \ {0}) /\ r.log \subseteq log
  <2>1. IsFiniteSet(log) /\ Cardinality(log) = n + 1
    <3>1. 1 \in Int /\ n + 1 \in Int
      OBVIOUS
    <3> QED
      BY <3>1, FS_Interval
  <2>2. log \in SUBSET (Nat \ {0}) /\ r.log \subseteq log
    BY <1>3
  <2> QED
    BY <2>1, <2>2
<1> HIDE DEF log
<1>6. /\ s \in Row /\ s.log = log /\ s.snap = r.snap /\ s.status = r.status /\ s.rated = r.rated
  BY <1>2, <1>5 DEF Row
<1>7. Rewritten(r, s)
  <2>1. Numbered(s)
    BY <1>2, <1>5, <1>6 DEF Numbered, log
  <2>2. Rated(s)
    BY <1>2, <1>6 DEF Rated
  <2> QED
    BY <1>5, <1>6, <2>1, <2>2 DEF Rewritten
<1> HIDE DEF s
<1>8. /\ DOMAIN new = DOMAIN w.matches
      /\ \A k \in DOMAIN w.matches : new[k] = IF k = m THEN s ELSE w.matches[k]
  BY <1>1
<1>9. InProgress(new) = InProgress(w.matches)
  BY <1>6, <1>8 DEF InProgress
<1>10. Spent(new, w.objects)
  <2>1. \A k \in DOMAIN w.objects : w.objects[k].match \in DOMAIN w.matches
    BY DEF Core, Backed
  <2> HIDE DEF new
  <2> QED
    BY <1>5, <1>6, <1>8, <2>1 DEF Core, Spent
<1>11. ASSUME NEW k \in DOMAIN w.objects, w.objects[k].match = m
       PROVE  w.objects[k].seq + 1 \in 1 .. n + 1
  <2>1. w.objects[k].seq \in Nat /\ 1 .. w.objects[k].seq \subseteq 1 .. n
    BY <1>1, <1>3, <1>11, ObjectFacts DEF Core, Backed
  <2>2. w.objects[k].seq = 0 \/ w.objects[k].seq \in 1 .. w.objects[k].seq
    BY <2>1
  <2> QED
    BY <2>1, <2>2
<1>12. LogEvent(w, o, n + 1) = Commit(w, new, w.occupied)
  BY <1>1, <1>4 DEF LogEvent, s
<1>13. LET e == Commit(w, new, w.occupied)
       IN /\ Core(e)
          /\ e.matches = new
          /\ e.occupied = w.occupied /\ e.objects = w.objects /\ e.session = w.session
          /\ e.clock = w.clock
  <2>1. /\ m \in DOMAIN w.matches /\ w.occupied \in BOOLEAN
        /\ Rewritten(w.matches[m], s) /\ Spent([w.matches EXCEPT ![m] = s], w.objects)
    BY <1>1, <1>7, <1>10
  <2> HIDE DEF m
  <2> QED
    BY <2>1, WriteKeeps DEF Written
<1>14. new[m].log = 1 .. n + 1 /\ new[m].rated = r.rated
  BY <1>1, <1>6, <1>8 DEF log
<1> HIDE DEF new
<1> QED
  BY <1>8, <1>9, <1>11, <1>12, <1>13, <1>14 DEF LoggedUpTo

-----------------------------------------------------------------------------
\* The table may be switched whatever is played.
LEMMA OccupyKeeps ==
  ASSUME NEW w, Core(w), NEW occ \in BOOLEAN
  PROVE  LET e == Commit(w, w.matches, occ)
         IN /\ Core(e)
            /\ e.matches = w.matches /\ e.occupied = occ
            /\ e.objects = w.objects /\ e.session = w.session /\ e.clock = w.clock
<1>1. /\ w.matches \in Seq(Row) /\ Stored(w.matches)
      /\ \A o \in DOMAIN w.objects : Backed(w.matches, w.objects[o])
      /\ Extended(w.matches) /\ Spent(w.matches, w.objects)
  BY DEF Core, Worlds
<1> QED
  BY <1>1, CommitKeeps

\* A match that is cancelled leaves no session and a free table (GameRouter.abortMatch).
LEMMA AbortMatchKeeps ==
  ASSUME NEW w, Core(w), NEW o \in DOMAIN w.objects
  PROVE  LET e == AbortMatch(w, o)
         IN Core(e) /\ Settled(e) /\ e.objects = w.objects
<1> DEFINE m == w.objects[o].match
           r == w.matches[m]
           s == [r EXCEPT !.status = "ABORTED"]
           new == [w.matches EXCEPT ![m] = s]
           closed == Commit(w, new, w.occupied)
           gone == [closed EXCEPT !.session = None]
           e == Commit(gone, gone.matches, FALSE)
<1>1. /\ w.matches \in Seq(Row) /\ m \in DOMAIN w.matches
      /\ Stored(w.matches) /\ w.occupied \in BOOLEAN
  BY DEF Core, Worlds, Backed
<1>2. r \in Row /\ Numbered(r) /\ Rated(r)
  BY <1>1 DEF Stored
<1>3. /\ s \in Row /\ s.log = r.log /\ s.snap = r.snap /\ s.status = "ABORTED" /\ s.rated = r.rated
  BY <1>2 DEF Row
<1>4. Rewritten(r, s)
  BY <1>2, <1>3 DEF Rewritten, Numbered, Rated
<1> HIDE DEF s
<1>5. \A k \in DOMAIN w.matches : new[k] = IF k = m THEN s ELSE w.matches[k]
  BY <1>1
<1>6. Spent(new, w.objects)
  <2>1. \A k \in DOMAIN w.objects : w.objects[k].match \in DOMAIN w.matches
    BY DEF Core, Backed
  <2> HIDE DEF new
  <2> QED
    BY <1>3, <1>5, <2>1 DEF Core, Spent
<1>7. Core(closed) /\ closed.objects = w.objects
  <2>1. /\ m \in DOMAIN w.matches /\ w.occupied \in BOOLEAN
        /\ Rewritten(w.matches[m], s) /\ Spent([w.matches EXCEPT ![m] = s], w.objects)
    BY <1>1, <1>4, <1>6
  <2> HIDE DEF m
  <2> QED
    BY <2>1, WriteKeeps DEF Written
<1>8. AbortMatch(w, o) = e
  BY <1>1 DEF AbortMatch, Closed, s
<1> HIDE DEF closed
<1>9. Core(gone) /\ gone.session = None /\ gone.objects = w.objects
  BY <1>7, SessionOffKeeps
<1> HIDE DEF gone
<1>10. Core(e) /\ e.occupied = FALSE /\ e.session = None /\ e.objects = w.objects
  BY <1>9, OccupyKeeps
<1> QED
  BY <1>8, <1>10 DEF Settled

\* The shorter of two logs has the lower last number.
LEMMA ShorterLog ==
  ASSUME NEW i \in Nat, NEW k \in Nat, 1 .. i \subseteq 1 .. k
  PROVE  i <= k
<1>1. i = 0 \/ i \in 1 .. i
  OBVIOUS
<1> QED
  BY <1>1

\* e is w after the state of o was saved.
Saved(w, e, o) ==
  LET m == w.objects[o].match
  IN /\ Core(e)
     /\ e.matches[m].snap # NoSnapshot /\ e.matches[m].snap.game = w.objects[o].game
     /\ e.matches[m].log = w.matches[m].log
     /\ e.occupied = w.occupied /\ e.objects = w.objects /\ e.session = w.session
     /\ InProgress(e.matches) = InProgress(w.matches)

\* The session that has counted the whole log may save its state (GameRouter.saveSnapshot).
LEMMA SaveSnapshotKeeps ==
  ASSUME NEW w, Core(w), NEW o \in DOMAIN w.objects,
         w.matches[w.objects[o].match].log = 1 .. w.objects[o].seq,
         absences = 0 => ~w.matches[w.objects[o].match].rated
  PROVE  Saved(w, SaveSnapshot(w, o), o)
<1> DEFINE m == w.objects[o].match
           r == w.matches[m]
           snap == [seq |-> w.objects[o].seq, game |-> w.objects[o].game]
           s == [r EXCEPT !.snap = snap]
           new == [w.matches EXCEPT ![m] = s]
           e == Commit(w, new, w.occupied)
<1>1. /\ w.matches \in Seq(Row) /\ w.objects[o] \in Object /\ m \in DOMAIN w.matches
      /\ Stored(w.matches) /\ w.occupied \in BOOLEAN /\ r.snap # NoSnapshot
  BY DEF Core, Worlds, Backed
<1>2. r \in Row /\ Numbered(r) /\ Rated(r)
  BY <1>1 DEF Stored
<1>3. snap \in Snapshot /\ snap.seq = w.objects[o].seq /\ snap.seq \in Nat /\ snap # NoSnapshot
  BY <1>1, ObjectFacts, RowFacts DEF Snapshot
<1>4. snap.seq >= r.snap.seq
  <2> HIDE DEF snap
  <2>1. r.snap.seq \in Nat
    BY <1>1, <1>2, RowFacts
  <2>2. 1 .. r.snap.seq \subseteq 1 .. snap.seq
    BY <1>2, <1>3 DEF Numbered
  <2>3. snap.seq \in Nat
    BY <1>3
  <2>4. r.snap.seq <= snap.seq
    BY <2>1, <2>2, <2>3, ShorterLog
  <2> QED
    BY <2>1, <2>3, <2>4
<1>5. SaveSnapshot(w, o) = e
  BY <1>1, <1>4 DEF SaveSnapshot
<1> HIDE DEF snap
<1>6. /\ s \in Row /\ s.log = r.log /\ s.snap = snap /\ s.status = r.status /\ s.rated = r.rated
  BY <1>2, <1>3 DEF Row
<1>7. Rewritten(r, s)
  <2>1. Numbered(s)
    BY <1>2, <1>3, <1>6 DEF Numbered
  <2>2. Rated(s)
    BY <1>2, <1>6 DEF Rated
  <2> QED
    BY <1>1, <1>3, <1>6, <2>1, <2>2 DEF Rewritten
<1> HIDE DEF s
<1>8. /\ DOMAIN new = DOMAIN w.matches
      /\ \A k \in DOMAIN w.matches : new[k] = IF k = m THEN s ELSE w.matches[k]
  BY <1>1
<1>9. InProgress(new) = InProgress(w.matches)
  BY <1>6, <1>8 DEF InProgress
<1>10. Spent(new, w.objects)
  <2>1. \A k \in DOMAIN w.objects : w.objects[k].match \in DOMAIN w.matches
    BY DEF Core, Backed
  <2> HIDE DEF new
  <2> QED
    BY <1>6, <1>8, <2>1 DEF Core, Spent
<1>11. /\ Core(e) /\ e.matches = new
       /\ e.occupied = w.occupied /\ e.objects = w.objects /\ e.session = w.session
       /\ e.clock = w.clock
  <2>1. /\ m \in DOMAIN w.matches /\ w.occupied \in BOOLEAN
        /\ Rewritten(w.matches[m], s) /\ Spent([w.matches EXCEPT ![m] = s], w.objects)
    BY <1>1, <1>7, <1>10
  <2>2. e = Commit(w, [w.matches EXCEPT ![m] = s], w.occupied)
    OBVIOUS
  <2> HIDE DEF m, e, r
  <2>3. Written(w, Commit(w, [w.matches EXCEPT ![m] = s], w.occupied),
                [w.matches EXCEPT ![m] = s], w.occupied)
    BY <2>1, WriteKeeps
  <2> QED
    BY <2>2, <2>3 DEF Written
<1>12. new[m].snap = snap /\ snap.game = w.objects[o].game /\ new[m].log = r.log
  BY <1>1, <1>6, <1>8 DEF snap
<1> HIDE DEF new, e
<1> QED
  BY <1>3, <1>5, <1>9, <1>11, <1>12 DEF Saved

\* The match may be rated if its state was saved as over and none of its sessions can
\* write (GameRouter.finishIfOver).
LEMMA FinishIfOverKeeps ==
  ASSUME NEW w, Core(w), Settled(w), NEW o \in DOMAIN w.objects,
         w.objects[o].game.over /\ absences = 0 =>
           /\ w.matches[w.objects[o].match].snap # NoSnapshot
           /\ w.matches[w.objects[o].match].snap.game.over
           /\ \A k \in DOMAIN w.objects : w.objects[k].match = w.objects[o].match =>
                w.objects[k].game.over \/ w.objects[k].seq + 1 \in w.matches[w.objects[o].match].log
  PROVE  LET e == FinishIfOver(w, o)
         IN Core(e) /\ Settled(e) /\ e.objects = w.objects
<1> DEFINE m == w.objects[o].match
           r == w.matches[m]
           s == [r EXCEPT !.status = "FINISHED", !.rated = TRUE]
           new == [w.matches EXCEPT ![m] = s]
           written == Commit(w, new, w.occupied)
           result == IF r.rated THEN w ELSE written
           off == Cancel(result.clock)
           still == [result EXCEPT !.clock = off]
           gone == [still EXCEPT !.session = None]
           e == Commit(gone, gone.matches, FALSE)
<1>1. CASE ~w.objects[o].game.over
  BY <1>1 DEF FinishIfOver
<1>2. CASE w.objects[o].game.over
  <2>1. /\ w.matches \in Seq(Row) /\ m \in DOMAIN w.matches
        /\ Stored(w.matches) /\ w.occupied \in BOOLEAN
    BY DEF Core, Worlds, Backed
  <2>2. r \in Row /\ Numbered(r)
    BY <2>1 DEF Stored
  <2>3. /\ s \in Row /\ s.log = r.log /\ s.snap = r.snap /\ s.status = "FINISHED" /\ s.rated = TRUE
    BY <2>2 DEF Row
  <2>4. Rewritten(r, s)
    BY <1>2, <2>2, <2>3 DEF Rewritten, Numbered, Rated
  <2>5. FinishIfOver(w, o) = e
    <3>1. Closed(w, o, "FINISHED") = [w.matches EXCEPT ![m] = [r EXCEPT !.status = "FINISHED"]]
      BY DEF Closed
    <3>2. [Closed(w, o, "FINISHED") EXCEPT ![m].rated = TRUE] = new
      BY <2>1, <3>1
    <3>3. gone = [result EXCEPT !.clock = Cancel(@), !.session = None]
      OBVIOUS
    <3> QED
      BY <1>2, <3>2, <3>3 DEF FinishIfOver
  <2> HIDE DEF s
  <2>6. \A k \in DOMAIN w.matches : new[k] = IF k = m THEN s ELSE w.matches[k]
    BY <2>1
  <2>7. Spent(new, w.objects)
    <3>1. \A k \in DOMAIN w.objects : w.objects[k].match \in DOMAIN w.matches
      BY DEF Core, Backed
    <3> HIDE DEF new
    <3> QED
      BY <1>2, <2>3, <2>6, <3>1 DEF Core, Spent
  <2>8. Core(written) /\ written.objects = w.objects
    <3>1. /\ m \in DOMAIN w.matches /\ w.occupied \in BOOLEAN
          /\ Rewritten(w.matches[m], s) /\ Spent([w.matches EXCEPT ![m] = s], w.objects)
      BY <2>1, <2>4, <2>7
    <3> HIDE DEF m
    <3> QED
      BY <3>1, WriteKeeps DEF Written
  <2> HIDE DEF written
  <2>9. Core(result) /\ result.objects = w.objects
    BY <2>8
  <2> HIDE DEF result
  <2>10. off \in Clock /\ Ticks(off, result.objects)
    BY <2>9, CancelKeeps DEF Core, Worlds
  <2> HIDE DEF off
  <2>11. Core(still) /\ still.objects = w.objects
    BY <2>9, <2>10, ClockKeeps
  <2> HIDE DEF still
  <2>12. Core(gone) /\ gone.session = None /\ gone.objects = w.objects
    BY <2>11, SessionOffKeeps
  <2> HIDE DEF gone
  <2>13. Core(e) /\ e.occupied = FALSE /\ e.session = None /\ e.objects = w.objects
    BY <2>12, OccupyKeeps
  <2> QED
    BY <2>5, <2>13 DEF Settled
<1> QED
  BY <1>1, <1>2

\* The end of a deal that does not move (GameRouter.abortIfStuck).
LEMMA AbortIfStuckKeeps ==
  ASSUME NEW w, Core(w), NEW o \in DOMAIN w.objects
  PROVE  LET e == AbortIfStuck(w, o)
         IN Core(e) /\ Settled(e) /\ e.objects = w.objects
<1> DEFINE off == CancelAbort(Cancel(w.clock))
           still == [w EXCEPT !.clock = off]
<1>1. w.clock \in Clock /\ Ticks(w.clock, w.objects)
  BY DEF Core, Worlds
<1>2. Cancel(w.clock) \in Clock /\ Ticks(Cancel(w.clock), w.objects)
  BY <1>1, CancelKeeps
<1>3. off \in Clock /\ Ticks(off, w.objects)
  BY <1>2, CancelAbortKeeps
<1>4. AbortIfStuck(w, o) = AbortMatch(still, o)
  BY DEF AbortIfStuck
<1> HIDE DEF off
<1>5. Core(still) /\ still.objects = w.objects
  BY <1>3, ClockKeeps
<1> HIDE DEF still
<1> QED
  BY <1>4, <1>5, AbortMatchKeeps

\* An accepted move is logged, saved, and only then rated (GameRouter.execute).
LEMMA RecordKeeps ==
  ASSUME NEW w, Core(w), Settled(w), NEW o \in DOMAIN w.objects, RuntimeType, Fresh(w, o),
         absences = 0 /\ w.matches[w.objects[o].match].rated =>
           w.objects[o].seq + 1 \in w.matches[w.objects[o].match].log
  PROVE  Core(Record(w, o)) /\ Settled(Record(w, o))
<1> DEFINE x == w.objects[o]
           m == x.match
           n == x.seq
           y == [x EXCEPT !.seq = n + 1]
           objs == [w.objects EXCEPT ![o] = y]
           log == LogEvent(w, o, n + 1)
           logged == [log EXCEPT !.objects = [log.objects EXCEPT ![o] = y]]
           stored == SaveSnapshot(logged, o)
           saved == RestartTurnClock(stored, o)
<1>1. /\ w.matches \in Seq(Row) /\ w.objects \in Seq(Object) /\ x \in Object
      /\ m \in DOMAIN w.matches /\ n \in Nat /\ 1 .. n \subseteq w.matches[m].log
  BY ObjectFacts DEF Core, Worlds, Backed
<1>2. CASE n + 1 \in w.matches[m].log
  BY <1>2 DEF Record
<1>3. CASE n + 1 \notin w.matches[m].log
  <2>1. absences = 0 => ~w.matches[m].rated
    BY <1>3
  <2>2. y \in Object /\ y.match = m /\ y.seq = n + 1 /\ y.game = x.game
    <3>1. n + 1 \in Nat
      BY <1>1
    <3> QED
      BY <1>1, <3>1, ObjectChanges
  <2>3. LoggedUpTo(w, log, o, n + 1)
    BY <1>1, <1>3, LogEventKeeps
  <2> HIDE DEF log
  <2>4. /\ Core(log) /\ log.matches[m].log = 1 .. n + 1 /\ log.matches[m].rated = w.matches[m].rated
        /\ log.occupied = w.occupied /\ log.objects = w.objects /\ log.session = w.session
        /\ InProgress(log.matches) = InProgress(w.matches)
        /\ \A k \in DOMAIN w.objects : w.objects[k].match = m => w.objects[k].seq + 1 \in 1 .. n + 1
    BY <2>3 DEF LoggedUpTo
  <2>5. Record(w, o) = IF x.moves >= MaxMovesPerDeal THEN AbortIfStuck(saved, o)
                       ELSE FinishIfOver(saved, o)
    <3>1. logged = [log EXCEPT !.objects[o].seq = n + 1]
      BY <2>4
    <3> QED
      BY <1>3, <3>1 DEF Record, log
  <2> HIDE DEF y
  <2>6. /\ Core(logged) /\ logged.objects = objs
        /\ logged.matches = log.matches /\ logged.occupied = w.occupied
        /\ logged.session = w.session
    <3>1. w.objects[o].game.turn <= y.game.turn
      BY <1>1, <2>2, ObjectFacts
    <3>2. /\ o \in DOMAIN log.objects /\ log.objects[o] = x
          /\ 1 .. y.seq \subseteq log.matches[y.match].log
          /\ absences = 0 => ~log.matches[y.match].rated
      BY <2>1, <2>2, <2>4
    <3> HIDE DEF x
    <3>3. /\ Core(logged) /\ logged.objects = [log.objects EXCEPT ![o] = y]
          /\ logged.matches = log.matches /\ logged.occupied = log.occupied
          /\ logged.session = log.session
      BY <2>2, <2>4, <3>1, <3>2, ObjectKeeps DEF x
    <3> QED
      BY <2>4, <3>3
  <2> HIDE DEF logged
  <2>7. /\ o \in DOMAIN objs /\ objs[o] = y /\ DOMAIN objs = DOMAIN w.objects
        /\ \A k \in DOMAIN w.objects : objs[k].match = w.objects[k].match
        /\ \A k \in DOMAIN w.objects : k # o => objs[k] = w.objects[k]
    BY <1>1, <2>2
  <2> HIDE DEF objs
  <2>8. /\ Core(stored)
        /\ stored.matches[m].snap.game = x.game
        /\ stored.matches[m].snap # NoSnapshot
        /\ stored.matches[m].log = 1 .. n + 1
        /\ stored.occupied = w.occupied /\ stored.objects = objs /\ stored.session = w.session
        /\ InProgress(stored.matches) = InProgress(w.matches)
    <3>1. m \in DOMAIN logged.matches
      BY <2>2, <2>6, <2>7 DEF Core, Backed
    <3>2. o \in DOMAIN logged.objects /\ logged.objects[o] = y /\ y.match = m
      BY <2>2, <2>6, <2>7
    <3>3. logged.matches[m].log = 1 .. y.seq /\ (absences = 0 => ~logged.matches[m].rated)
      BY <2>1, <2>2, <2>4, <2>6
    <3>4. Saved(logged, stored, o)
      BY <2>6, <3>1, <3>2, <3>3, SaveSnapshotKeeps
    <3> HIDE DEF stored
    <3> QED
      BY <2>2, <2>4, <2>6, <2>7, <3>2, <3>3, <3>4 DEF Saved
  <2> HIDE DEF stored
  <2>9. /\ Core(saved) /\ saved.matches = stored.matches /\ saved.occupied = w.occupied
        /\ saved.objects = objs /\ saved.session = w.session
    <3>1. Fresh(stored, o)
      BY <2>2, <2>7, <2>8 DEF Fresh
    <3> QED
      BY <2>7, <2>8, <3>1, RestartTurnClockKeeps
  <2> HIDE DEF saved
  <2>10. Settled(saved)
    <3>1. w.session # None => w.session \in DOMAIN w.objects
      BY DEF Core
    <3> QED
      BY <2>7, <2>8, <2>9, <3>1 DEF Settled
  <2>11. Core(AbortIfStuck(saved, o)) /\ Settled(AbortIfStuck(saved, o))
    BY <2>7, <2>9, AbortIfStuckKeeps
  <2>12. Core(FinishIfOver(saved, o)) /\ Settled(FinishIfOver(saved, o))
    <3>1. saved.objects[o].match = m /\ o \in DOMAIN saved.objects /\ saved.objects[o].game = x.game
      BY <2>2, <2>7, <2>9
    <3>2. x.game.over => saved.matches[m].snap # NoSnapshot /\ saved.matches[m].snap.game.over
      BY <2>8, <2>9
    <3>3. \A k \in DOMAIN saved.objects : saved.objects[k].match = m /\ x.game.over =>
            saved.objects[k].game.over \/ saved.objects[k].seq + 1 \in saved.matches[m].log
      BY <2>2, <2>4, <2>7, <2>8, <2>9
    <3> QED
      BY <2>9, <2>10, <3>1, <3>2, <3>3, FinishIfOverKeeps
  <2> QED
    BY <2>5, <2>11, <2>12
<1> QED
  BY <1>2, <1>3

\* A move of a player or of the clock keeps Core: the turn it leads to has no callback yet.
LEMMA AppliedKeeps ==
  ASSUME NEW w, Core(w), Settled(w), NEW o \in DOMAIN w.objects, RuntimeType, FlyingHeld,
         NEW e \in Applied(w, o)
  PROVE  Core(e) /\ Settled(e)
<1> DEFINE x == w.objects[o]
<1>1. PICK g \in Moved(x.game), n \in {1, x.moves + 1} :
        e = Record([w EXCEPT !.objects[o] = Advanced(@, g, n)], o)
  BY DEF Applied
<1> DEFINE y == Advanced(x, g, n)
           objs == [w.objects EXCEPT ![o] = y]
           moved == [w EXCEPT !.objects = objs]
<1>2. moved = [w EXCEPT !.objects[o] = Advanced(@, g, n)]
  OBVIOUS
<1>3. x \in Object /\ Backed(w.matches, x) /\ w.objects \in Seq(Object)
  BY DEF Core, Worlds
<1>4. g \in LiveGame /\ g.turn = x.game.turn + 1 /\ ~x.game.over /\ x.game.turn \in Nat
  BY <1>3, ObjectFacts, GameFacts
<1>5. y \in Object /\ y.match = x.match /\ y.seq = x.seq /\ y.game = g
  <2>1. n \in Nat
    BY <1>3, ObjectFacts
  <2> QED
    BY <1>3, <1>4, <2>1, ObjectChanges
<1> HIDE DEF y
<1>6. absences = 0 /\ w.matches[x.match].rated => x.seq + 1 \in w.matches[x.match].log
  BY <1>4 DEF Core, Spent
<1>7. /\ Core(moved) /\ moved.objects = objs /\ moved.matches = w.matches
      /\ moved.occupied = w.occupied /\ moved.session = w.session
  BY <1>3, <1>4, <1>5, <1>6, ObjectKeeps DEF Backed
<1> HIDE DEF moved
<1>8. /\ DOMAIN objs = DOMAIN w.objects /\ objs[o] = y
      /\ \A k \in DOMAIN w.objects : objs[k].match = w.objects[k].match
  BY <1>3, <1>5
<1> HIDE DEF objs
<1>9. Settled(moved)
  <2>1. w.session # None => w.session \in DOMAIN w.objects
    BY DEF Core
  <2> QED
    BY <1>7, <1>8, <2>1 DEF Settled
<1>10. Fresh(moved, o)
  <2>1. ASSUME NEW f \in flying, f.kind = "TIMEOUT", f.timer.object = o
        PROVE  f.timer.turn # g.turn
    <3>1. f.timer.turn \in Nat /\ o \in DOMAIN objects /\ f.timer.turn <= objects[o].game.turn
      BY <2>1, TableAssumption DEF FlyingHeld, TurnTimer, Held
    <3>2. objects[o] \in Object /\ objects[o].game.turn <= x.game.turn
      BY <3>1 DEF Core, Grown
    <3>3. objects[o].game.turn \in Nat
      BY <3>2, ObjectFacts
    <3> QED
      BY <1>4, <3>1, <3>2, <3>3
  <2> QED
    BY <1>5, <1>7, <1>8, <2>1 DEF Fresh
<1> QED
  BY <1>1, <1>2, <1>5, <1>6, <1>7, <1>8, <1>9, <1>10, RecordKeeps

\* e is w with the row s for the match m, and with the same matches in progress.
Counted(w, e, m, s) ==
  /\ Core(e) /\ e.matches[m] = s /\ DOMAIN e.matches = DOMAIN w.matches
  /\ e.occupied = w.occupied /\ e.objects = w.objects /\ e.session = w.session
  /\ InProgress(e.matches) = InProgress(w.matches)

\* A refused move may be counted.
LEMMA RefusedKeeps ==
  ASSUME NEW w, Core(w), NEW m \in DOMAIN w.matches, NEW s, Rewritten(w.matches[m], s),
         s.log = w.matches[m].log, s.rated = w.matches[m].rated, s.status = w.matches[m].status
  PROVE  Counted(w, [w EXCEPT !.matches = [w.matches EXCEPT ![m] = s]], m, s)
<1> DEFINE new == [w.matches EXCEPT ![m] = s]
           e == [w EXCEPT !.matches = new]
<1>1. w \in Worlds /\ w.matches \in Seq(Row) /\ Stored(w.matches)
  BY DEF Core, Worlds
<1>2. new \in Seq(Row) /\ DOMAIN new = DOMAIN w.matches /\ Stored(new)
  BY <1>1, WriteStored
<1>3. \A k \in DOMAIN w.matches : new[k] = IF k = m THEN s ELSE w.matches[k]
  OBVIOUS
<1> HIDE DEF new
<1>4. /\ e \in Worlds /\ e.matches = new /\ e.occupied = w.occupied /\ e.objects = w.objects
      /\ e.session = w.session /\ e.clock = w.clock /\ e.trail = w.trail
  BY <1>1, <1>2 DEF Worlds
<1>5. \A o \in DOMAIN w.objects : Backed(new, w.objects[o])
  BY <1>2, <1>3 DEF Core, Backed, Rewritten
<1>6. Extended(new)
  BY <1>2, <1>3 DEF Core, Extended, Rewritten
<1>7. Spent(new, w.objects)
  <2>1. \A k \in DOMAIN w.objects : w.objects[k].match \in DOMAIN w.matches
    BY DEF Core, Backed
  <2> QED
    BY <1>3, <2>1 DEF Core, Spent
<1>8. InProgress(new) = InProgress(w.matches)
  BY <1>2, <1>3 DEF InProgress
<1>9. Core(e)
  BY <1>2, <1>4, <1>5, <1>6, <1>7 DEF Core
<1> HIDE DEF e
<1>10. new[m] = s
  BY <1>3
<1> QED
  BY <1>2, <1>4, <1>8, <1>9, <1>10 DEF new, e, Counted

\* A refused move takes its number in the log and keeps Core (GameRouter.execute).
LEMMA RejectedKeeps ==
  ASSUME NEW w, Core(w), Settled(w), NEW o \in DOMAIN w.objects,
         absences = 0 => w.objects[o].match \in InProgress(w.matches)
  PROVE  Core(Rejected(w, o)) /\ Settled(Rejected(w, o))
<1> DEFINE x == w.objects[o]
           m == x.match
           n == x.seq
           r == w.matches[m]
           s == [r EXCEPT !.refused = @ + 1]
           refused == [w EXCEPT !.matches = [w.matches EXCEPT ![m] = s]]
           noted == IF n + 1 \in r.log THEN w ELSE LogEvent(refused, o, n + 1)
           y == [x EXCEPT !.seq = n + 1]
           objs == [noted.objects EXCEPT ![o] = y]
           e == [noted EXCEPT !.objects = objs]
<1>1. /\ w.matches \in Seq(Row) /\ w.objects \in Seq(Object) /\ x \in Object /\ Stored(w.matches)
      /\ m \in DOMAIN w.matches /\ n \in Nat /\ 1 .. n \subseteq r.log
  BY ObjectFacts DEF Core, Worlds, Backed
<1>2. absences = 0 => ~r.rated
  BY <1>1 DEF Stored, Rated, InProgress
<1>3. /\ r \in Row /\ Numbered(r) /\ Rated(r)
  BY <1>1 DEF Stored
<1>4. /\ s \in Row /\ s.log = r.log /\ s.rated = r.rated /\ s.status = r.status /\ s.snap = r.snap
  <2> HIDE DEF r
  <2>1. r.refused + 1 \in Nat
    BY <1>3 DEF Row
  <2> QED
    BY <1>3, <2>1 DEF Row
<1>5. Rewritten(r, s)
  BY <1>3, <1>4 DEF Rewritten, Numbered, Rated
<1>6. Rejected(w, o) = e
  <2>1. refused = [w EXCEPT !.matches[m].refused = @ + 1]
    OBVIOUS
  <2>2. e = [noted EXCEPT !.objects[o].seq = n + 1]
    <3>1. noted.objects = w.objects
      BY DEF LogEvent, Commit
    <3> QED
      BY <3>1
  <2> QED
    BY <2>1, <2>2 DEF Rejected
<1> HIDE DEF s
<1>7. /\ Core(refused) /\ refused.matches[m] = s /\ DOMAIN refused.matches = DOMAIN w.matches
      /\ refused.occupied = w.occupied /\ refused.objects = w.objects /\ refused.session = w.session
      /\ InProgress(refused.matches) = InProgress(w.matches)
  <2>1. Counted(w, refused, m, s)
    BY <1>1, <1>4, <1>5, RefusedKeeps
  <2> HIDE DEF refused
  <2> QED
    BY <2>1 DEF Counted
<1> HIDE DEF refused
<1>8. /\ Core(noted) /\ noted.objects = w.objects /\ noted.occupied = w.occupied
      /\ noted.session = w.session /\ InProgress(noted.matches) = InProgress(w.matches)
      /\ 1 .. n + 1 \subseteq noted.matches[m].log /\ noted.matches[m].rated = r.rated
  <2>1. CASE n + 1 \in r.log
    <3>1. 1 .. n + 1 \subseteq r.log
      <4> HIDE DEF n, r
      <4> QED
        BY <1>1, <2>1
    <3> QED
      BY <2>1, <3>1
  <2>2. CASE n + 1 \notin r.log
    <3>1. LoggedUpTo(refused, LogEvent(refused, o, n + 1), o, n + 1)
      BY <1>1, <1>4, <1>7, <2>2, LogEventKeeps
    <3>2. noted = LogEvent(refused, o, n + 1)
      BY <2>2
    <3> HIDE DEF noted
    <3> QED
      BY <1>4, <1>7, <3>1, <3>2 DEF LoggedUpTo
  <2> QED
    BY <2>1, <2>2
<1> HIDE DEF noted
<1>9. y \in Object /\ y.match = m /\ y.seq = n + 1 /\ y.game = x.game
  <2>1. n + 1 \in Nat
    BY <1>1
  <2> QED
    BY <1>1, <2>1, ObjectChanges
<1> HIDE DEF y
<1>10. /\ Core(e) /\ e.objects = objs /\ e.matches = noted.matches /\ e.occupied = w.occupied
       /\ e.session = w.session
  <2>1. x.game.turn <= y.game.turn
    BY <1>1, <1>9, ObjectFacts
  <2> QED
    BY <1>2, <1>8, <1>9, <2>1, ObjectKeeps
<1>11. \A k \in DOMAIN w.objects : objs[k].match = w.objects[k].match
  BY <1>1, <1>8, <1>9
<1>12. Settled(e)
  <2>1. w.session # None => w.session \in DOMAIN w.objects
    BY DEF Core
  <2> HIDE DEF e
  <2> QED
    BY <1>8, <1>10, <1>11, <2>1 DEF Settled
<1> QED
  BY <1>6, <1>10, <1>12

-----------------------------------------------------------------------------
\* Who listens has no bearing on what is played.
LEMMA ListenersKeep ==
  ASSUME NEW w, Core(w), Settled(w), NEW L \in SUBSET Players, NEW b \in BOOLEAN
  PROVE  LET e == [w EXCEPT !.listeners = L, !.loaded = b]
         IN Core(e) /\ Settled(e)
<1> DEFINE e == [w EXCEPT !.listeners = L, !.loaded = b]
<1>1. /\ e \in Worlds /\ e.matches = w.matches /\ e.occupied = w.occupied /\ e.objects = w.objects
      /\ e.session = w.session /\ e.clock = w.clock /\ e.trail = w.trail
  BY DEF Core, Worlds
<1> HIDE DEF e
<1>2. Core(e) /\ Settled(e)
  BY <1>1 DEF Core, Settled
<1> QED
  BY <1>2 DEF e

\* A player who goes off line may unload the table, but changes no match.
LEMMA UnsubscribeKeeps ==
  ASSUME NEW w, Core(w), Settled(w), NEW p
  PROVE  Core(Unsubscribe(w, p)) /\ Settled(Unsubscribe(w, p))
<1> DEFINE L == w.listeners \ {p}
           b == w.loaded /\ L # {}
<1>1. L \in SUBSET Players /\ b \in BOOLEAN
  BY DEF Core, Worlds
<1>2. Unsubscribe(w, p) = [w EXCEPT !.listeners = L, !.loaded = b]
  BY DEF Unsubscribe
<1> HIDE DEF L, b
<1>3. LET e == [w EXCEPT !.listeners = L, !.loaded = b]
      IN Core(e) /\ Settled(e)
  BY <1>1, ListenersKeep
<1> QED
  BY <1>2, <1>3

\* A match may begin when none can be played: its row and its first snapshot come before the
\* table, so a crash leaves nothing older that could be played (MatchService.Start).
LEMMA BeginKeeps ==
  ASSUME NEW w, Core(w), Settled(w), w.session = None, Playable(w.matches) = {},
         NEW p \in Players, NEW g \in FirstStates, RuntimeType, FlyingHeld
  PROVE  Core(Begin(w, p, g)) /\ Settled(Begin(w, p, g))
<1> DEFINE m == Len(w.matches) + 1
           ms == Append(w.matches, NewMatch)
           row == Commit(w, ms, w.occupied)
           snap == [seq |-> 0, game |-> g]
           s == [NewMatch EXCEPT !.snap = snap]
           new == [ms EXCEPT ![m] = s]
           snapped == Commit(row, new, w.occupied)
           taken == Commit(snapped, new, TRUE)
           x == [match |-> m, game |-> g, seq |-> 0, moves |-> 0]
           n == Len(w.objects) + 1
           made == [taken EXCEPT !.objects = Append(@, x), !.session = n]
           L == w.listeners \cup {p}
           begun == [made EXCEPT !.listeners = L, !.loaded = w.loaded]
<1>1. /\ w \in Worlds /\ w.matches \in Seq(Row) /\ w.occupied \in BOOLEAN /\ Stored(w.matches)
      /\ w.listeners \in SUBSET Players /\ w.loaded \in BOOLEAN
  BY DEF Core, Worlds
<1>2. g \in LiveGame
  BY GameFacts
<1>3. /\ ms \in Seq(Row) /\ m \in Nat /\ DOMAIN ms = DOMAIN w.matches \cup {m}
      /\ m \notin DOMAIN w.matches /\ ms[m] = NewMatch
      /\ \A k \in DOMAIN w.matches : ms[k] = w.matches[k] /\ k <= m
  BY <1>1, RowFacts
<1>4. /\ snap \in Snapshot /\ snap # NoSnapshot /\ snap.seq = 0
  BY <1>2, RowFacts DEF Snapshot
<1>5. /\ NewMatch.log = {} /\ NewMatch.rated = FALSE /\ NewMatch.status = "IN_PROGRESS"
      /\ NewMatch.snap = NoSnapshot /\ NewMatch \in Row
  BY RowFacts DEF NewMatch
<1>6. /\ s \in Row /\ s.log = {} /\ s.rated = FALSE /\ s.status = "IN_PROGRESS" /\ s.snap = snap
  <2> HIDE DEF snap
  <2> QED
    BY <1>4, <1>5 DEF Row
<1>7. IsFiniteSet({}) /\ Cardinality({}) = 0
  BY FS_EmptySet
<1>8. Numbered(NewMatch) /\ Rated(NewMatch) /\ Numbered(s) /\ Rated(s)
  <2>1. {} = 1 .. 0 /\ 1 .. -1 = {}
    OBVIOUS
  <2>2. NoSnapshot.seq = -1
    BY RowFacts
  <2>3. Numbered(NewMatch)
    BY <1>5, <1>7, <2>1, <2>2 DEF Numbered
  <2>4. Numbered(s)
    <3> HIDE DEF s, snap
    <3> QED
      BY <1>4, <1>6, <1>7, <2>1 DEF Numbered
  <2> QED
    BY <1>5, <1>6, <2>3, <2>4 DEF Rated
<1> HIDE DEF snap, s, ms, m
<1>9. /\ new \in Seq(Row) /\ DOMAIN new = DOMAIN ms /\ new[m] = s
      /\ \A k \in DOMAIN w.matches : new[k] = w.matches[k]
  <2>1. m \in DOMAIN ms
    BY <1>3
  <2>2. DOMAIN new = DOMAIN ms /\ \A k \in DOMAIN ms : new[k] = IF k = m THEN s ELSE ms[k]
    OBVIOUS
  <2>3. new \in Seq(Row)
    BY <1>3, <1>6, <2>1, RowReplaced
  <2> QED
    BY <1>3, <2>1, <2>2, <2>3
<1> HIDE DEF new
<1>10. InProgress(w.matches) \subseteq DOMAIN w.matches
  BY DEF InProgress
<1>11. Stored(ms) /\ Playable(ms) = {}
  <2>1. Playable(ms) = {}
    BY <1>3, <1>5 DEF Playable, InProgress
  <2>2. \A k \in DOMAIN ms : Numbered(ms[k]) /\ Rated(ms[k])
    BY <1>1, <1>3, <1>8 DEF Stored
  <2> QED
    BY <2>1, <2>2 DEF Stored
<1>12. Stored(new) /\ m \in InProgress(new)
  <2>1. Playable(new) = {m} /\ m \in InProgress(new)
    BY <1>3, <1>4, <1>6, <1>9 DEF Playable, InProgress
  <2>2. \A k \in DOMAIN new : Numbered(new[k]) /\ Rated(new[k])
    BY <1>1, <1>3, <1>8, <1>9 DEF Stored
  <2>3. \A k \in InProgress(new) : k <= m
    BY <1>3, <1>9 DEF InProgress
  <2> QED
    BY <2>1, <2>2, <2>3 DEF Stored
<1>13. \A o \in DOMAIN w.objects : w.objects[o].match \in DOMAIN w.matches
  BY DEF Core, Backed
<1>14. /\ \A o \in DOMAIN w.objects : Backed(ms, w.objects[o]) /\ Backed(new, w.objects[o])
       /\ Extended(ms) /\ Extended(new)
  BY <1>3, <1>9 DEF Core, Backed, Extended
<1>15. Spent(ms, w.objects) /\ Spent(new, w.objects)
  BY <1>3, <1>9, <1>13 DEF Core, Spent
<1>16. /\ Core(row) /\ row.matches = ms /\ row.occupied = w.occupied /\ row.objects = w.objects
       /\ row.session = None
  BY <1>1, <1>3, <1>11, <1>14, <1>15, CommitKeeps
<1>17. row.listeners = w.listeners /\ row.loaded = w.loaded
  BY <1>1 DEF Commit, Worlds
<1> HIDE DEF row
<1>18. /\ Core(snapped) /\ snapped.matches = new /\ snapped.occupied = w.occupied
       /\ snapped.objects = w.objects /\ snapped.session = None
  BY <1>1, <1>9, <1>12, <1>14, <1>15, <1>16, CommitKeeps
<1>19. snapped.listeners = w.listeners /\ snapped.loaded = w.loaded
  BY <1>16, <1>17 DEF Commit, Core, Worlds
<1>20. Settled(snapped)
  BY <1>12, <1>18 DEF Settled
<1> HIDE DEF snapped
<1>21. /\ Core(taken) /\ taken.matches = new /\ taken.occupied = TRUE
       /\ taken.objects = w.objects
  BY <1>18, OccupyKeeps
<1>22. taken.listeners = w.listeners /\ taken.loaded = w.loaded
  BY <1>18, <1>19 DEF Commit, Core, Worlds
<1> HIDE DEF taken
<1>23. /\ x \in Object /\ x.match = m /\ x.game = g
       /\ Backed(taken.matches, x) /\ ~taken.matches[m].rated
  <2>1. x \in Object /\ x.match = m /\ x.seq = 0 /\ x.game = g
    BY <1>2, <1>3 DEF Object
  <2> HIDE DEF x
  <2> QED
    BY <1>3, <1>4, <1>6, <1>9, <1>21, <2>1 DEF Backed
<1> HIDE DEF x
<1>24. /\ Core(made) /\ made.matches = new /\ made.occupied = TRUE /\ made.session = n
       /\ n \in DOMAIN made.objects /\ made.objects[n] = x /\ n \notin DOMAIN objects
  <2>1. made = [taken EXCEPT !.objects = Append(@, x), !.session = Len(taken.objects) + 1]
    BY <1>21
  <2>2. n = Len(taken.objects) + 1
    BY <1>21
  <2>3. x.match = m /\ ~taken.matches[x.match].rated
    BY <1>23
  <2>4. Loaded(taken,
               [taken EXCEPT !.objects = Append(@, x), !.session = Len(taken.objects) + 1], x)
    BY <1>21, <1>23, <2>3, NewObjectKeeps
  <2> HIDE DEF n, made
  <2> QED
    BY <1>21, <2>1, <2>2, <2>4 DEF Loaded
<1>25. /\ made.listeners = w.listeners /\ made.loaded = w.loaded
  BY <1>21, <1>22 DEF Core, Worlds
<1>26. Settled(made)
  BY <1>12, <1>23, <1>24 DEF Settled
<1>27. [Commit(snapped, snapped.matches, TRUE) EXCEPT
          !.objects = Append(@, x), !.session = n, !.listeners = @ \cup {p}] = begun
  BY <1>18, <1>21, <1>22, <1>24, <1>25 DEF Core, Worlds, taken
<1> HIDE DEF n
<1>28. Core(begun) /\ Settled(begun)
  BY <1>1, <1>24, <1>26, ListenersKeep
<1>29. /\ begun.objects = made.objects /\ begun.matches = new /\ begun.occupied = TRUE
       /\ begun.session = n
  BY <1>24 DEF Core, Worlds
<1> HIDE DEF begun, made
<1>30. Fresh(begun, n)
  BY <1>24 DEF Fresh, FlyingHeld, Held
<1>31. /\ Core(RestartTurnClock(begun, n)) /\ Settled(RestartTurnClock(begun, n))
  <2> DEFINE e == RestartTurnClock(begun, n)
  <2>1. /\ Core(e) /\ e.matches = begun.matches /\ e.occupied = begun.occupied
        /\ e.objects = begun.objects /\ e.session = begun.session
    BY <1>24, <1>28, <1>29, <1>30, RestartTurnClockKeeps
  <2> HIDE DEF e
  <2>2. Settled(e)
    BY <1>28, <2>1 DEF Settled
  <2> QED
    BY <2>1, <2>2 DEF e
<1>32. Begin(w, p, g) = IF w.occupied THEN snapped ELSE RestartTurnClock(begun, n)
  <2>1. [row.matches EXCEPT ![m].snap = snap] = new
    BY <1>3, <1>16 DEF new, s
  <2> QED
    BY <1>16, <1>27, <2>1 DEF Begin, row, snapped, ms, m, n, x, snap
<1> QED
  BY <1>18, <1>20, <1>31, <1>32

-----------------------------------------------------------------------------
\* START: the service looks for a running match first.
LEMMA StartMatchKeeps ==
  ASSUME NEW w, Core(w), Settled(w), w.session = None => Playable(w.matches) = {},
         NEW p \in Players, RuntimeType, FlyingHeld, NEW e \in StartMatch(w, p)
  PROVE  Core(e) /\ Settled(e)
<1>1. e = w \/ (w.session = None /\ \E g \in FirstStates : e = Begin(w, p, g))
  BY DEF StartMatch
<1> QED
  BY <1>1, BeginKeeps

\* MOVE: applied, refused by the rules, or not even a move.
LEMMA MoveKeeps ==
  ASSUME NEW w, Core(w), Settled(w), RuntimeType, FlyingHeld, NEW e \in Move(w)
  PROVE  Core(e) /\ Settled(e)
<1>1. CASE w.session = None
  BY <1>1 DEF Move
<1>2. CASE w.session # None
  <2>1. w.session \in DOMAIN w.objects
    BY <1>2 DEF Core
  <2>2. absences = 0 => w.objects[w.session].match \in InProgress(w.matches)
    BY <1>2 DEF Settled
  <2>3. e = w \/ e \in Applied(w, w.session) \/ e = Rejected(w, w.session)
    BY <1>2 DEF Move
  <2> QED
    BY <2>1, <2>2, <2>3, AppliedKeeps, RejectedKeeps
<1> QED
  BY <1>1, <1>2

\* LEAVE ends the match like a deal that does not move.
LEMMA LeaveMatchKeeps ==
  ASSUME NEW w, Core(w), Settled(w), NEW p
  PROVE  Core(LeaveMatch(w, p)) /\ Settled(LeaveMatch(w, p))
<1>1. CASE w.session = None
  BY <1>1 DEF LeaveMatch
<1>2. CASE w.session # None
  <2>1. w.session \in DOMAIN w.objects
    BY <1>2 DEF Core
  <2>2. LET e == AbortIfStuck(w, w.session)
        IN Core(e) /\ Settled(e)
    BY <2>1, AbortIfStuckKeeps
  <2>3. LeaveMatch(w, p) = Unsubscribe(AbortIfStuck(w, w.session), p)
    BY <1>2 DEF LeaveMatch, AbortIfStuck
  <2> QED
    BY <2>2, <2>3, UnsubscribeKeeps
<1> QED
  BY <1>1, <1>2

\* SYNC ends the wait and resumes the turn.
LEMMA SyncKeeps ==
  ASSUME NEW w, Core(w), Settled(w), NEW p \in Players
  PROVE  Core(Sync(w, p)) /\ Settled(Sync(w, p))
<1>1. CASE w.session = None
  BY <1>1 DEF Sync
<1>2. CASE w.session # None
  <2> DEFINE c == Resume(CancelAbort(w.clock))
             L == w.listeners \cup {p}
             run == [w EXCEPT !.clock = c]
             e == [run EXCEPT !.listeners = L, !.loaded = run.loaded]
  <2>1. /\ w.clock \in Clock /\ Ticks(w.clock, w.objects)
        /\ w.listeners \in SUBSET Players /\ w \in Worlds
    BY DEF Core, Worlds
  <2>2. CancelAbort(w.clock) \in Clock /\ Ticks(CancelAbort(w.clock), w.objects)
    BY <2>1, CancelAbortKeeps
  <2>3. c \in Clock /\ Ticks(c, w.objects)
    BY <2>2, ResumeKeeps
  <2>4. L \in SUBSET Players
    BY <2>1
  <2>5. Sync(w, p) = e
    BY <1>2, <2>1 DEF Sync, Worlds
  <2> HIDE DEF c, L
  <2>6. /\ Core(run) /\ run.matches = w.matches /\ run.occupied = w.occupied
        /\ run.objects = w.objects
        /\ run.session = w.session
    BY <2>3, ClockKeeps
  <2> HIDE DEF run
  <2>7. Settled(run) /\ run.loaded \in BOOLEAN
    BY <2>6 DEF Settled, Core, Worlds
  <2>8. Core(e) /\ Settled(e)
    BY <2>4, <2>6, <2>7, ListenersKeep
  <2> QED
    BY <2>5, <2>8
<1> QED
  BY <1>1, <1>2

\* PAUSE stops the turn and starts the wait.
LEMMA PauseMatchKeeps ==
  ASSUME NEW w, Core(w), Settled(w), NEW o \in DOMAIN w.objects,
         NEW no \in 1 .. MaxFailures, RuntimeType
  PROVE  Core(PauseMatch(w, o, no)) /\ Settled(PauseMatch(w, o, no))
<1> DEFINE a == [object |-> o, runtime |-> runtime.no, no |-> no]
           c == ScheduleAbort(Pause(w.clock), a)
           e == [w EXCEPT !.clock = c]
<1>1. w.clock \in Clock /\ Ticks(w.clock, w.objects) /\ o \in Nat
  BY DEF Core, Worlds
<1>2. Pause(w.clock) \in Clock /\ Ticks(Pause(w.clock), w.objects)
  BY <1>1, PauseKeeps
<1>3. a \in WaitTimer /\ a.object = o
  <2>1. runtime.no \in 1 .. runtime.no
    BY DEF RuntimeType
  <2> QED
    BY <1>1, <2>1 DEF WaitTimer
<1> HIDE DEF a
<1>4. c \in Clock /\ Ticks(c, w.objects)
  BY <1>2, <1>3, ScheduleAbortKeeps
<1>5. PauseMatch(w, o, no) = e
  BY DEF PauseMatch, a
<1> HIDE DEF c
<1>6. /\ Core(e) /\ e.matches = w.matches /\ e.occupied = w.occupied /\ e.objects = w.objects
      /\ e.session = w.session
  BY <1>4, ClockKeeps
<1> HIDE DEF e
<1> QED
  BY <1>5, <1>6 DEF Settled

\* ABORT, the end of the wait.
LEMMA AbortKeeps ==
  ASSUME NEW w, Core(w), NEW o \in DOMAIN w.objects
  PROVE  Core(Abort(w, o)) /\ Settled(Abort(w, o))
<1> DEFINE c == Cancel(w.clock)
           e == [w EXCEPT !.clock = c]
<1>1. w.clock \in Clock /\ Ticks(w.clock, w.objects)
  BY DEF Core, Worlds
<1>2. c \in Clock /\ Ticks(c, w.objects)
  BY <1>1, CancelKeeps
<1>3. Abort(w, o) = AbortMatch(e, o)
  BY DEF Abort
<1> HIDE DEF c
<1>4. Core(e) /\ e.objects = w.objects
  BY <1>2, ClockKeeps
<1> HIDE DEF e
<1> QED
  BY <1>3, <1>4, AbortMatchKeeps

\* TIMEOUT, the end of a turn, is a move of whatever turn the session is at.
LEMMA TimeoutKeeps ==
  ASSUME NEW w, Core(w), Settled(w), NEW o \in DOMAIN w.objects, RuntimeType, FlyingHeld,
         NEW e \in ApplyTimeout(w, o)
  PROVE  Core(e) /\ Settled(e)
<1>1. e = w \/ e \in Applied(w, o)
  BY DEF ApplyTimeout
<1> QED
  BY <1>1, AppliedKeeps

\* Every job keeps the invariant, whatever its outcome (TableRuntime.loop).
LEMMA OutcomesKeep ==
  ASSUME Core(World), Settled(World), RuntimeType, FlyingHeld,
         NEW job \in Job, NEW w \in Outcomes(job)
  PROVE  Core(w) /\ Settled(w)
<1>1. World.objects = objects
  BY DEF World
<1>2. LET f == Find(World)
      IN Core(f) /\ Settled(f) /\ (f.session = None => Playable(f.matches) = {})
  BY FindKeeps
<1>3. CASE job.kind = "START"
  <2>1. job.by \in Players /\ w \in StartMatch(Find(World), job.by)
    BY <1>3 DEF Outcomes, Job
  <2> QED
    BY <1>2, <2>1, StartMatchKeeps
<1>4. CASE job.kind = "MOVE"
  <2>1. w \in Move(Find(World))
    BY <1>4 DEF Outcomes
  <2> QED
    BY <1>2, <2>1, MoveKeeps
<1>5. CASE job.kind = "LEAVE"
  <2>1. w = LeaveMatch(Find(World), job.by)
    BY <1>5 DEF Outcomes
  <2> QED
    BY <1>2, <2>1, LeaveMatchKeeps
<1>6. CASE job.kind = "SYNC"
  <2>1. job.by \in Players /\ w = Sync(Find(World), job.by)
    BY <1>6 DEF Outcomes, Job
  <2> QED
    BY <1>2, <2>1, SyncKeeps
<1>7. CASE job.kind = "PAUSE"
  <2>1. /\ job.object \in DOMAIN objects /\ job.no \in 1 .. MaxFailures
        /\ w = PauseMatch(World, job.object, job.no)
    BY <1>7 DEF Outcomes, Job
  <2> QED
    BY <1>1, <2>1, PauseMatchKeeps
<1>8. CASE job.kind = "OFFLINE"
  <2>1. w = Unsubscribe(World, job.by)
    BY <1>8 DEF Outcomes
  <2> QED
    BY <2>1, UnsubscribeKeeps
<1>9. CASE job.kind = "TIMEOUT"
  <2>1. job.object \in DOMAIN objects /\ w \in ApplyTimeout(World, job.object)
    BY <1>9 DEF Outcomes, Job
  <2> QED
    BY <1>1, <2>1, TimeoutKeeps
<1>10. CASE job.kind = "ABORT"
  <2>1. job.object \in DOMAIN objects /\ w = Abort(World, job.object)
    BY <1>10 DEF Outcomes, Job
  <2> QED
    BY <1>1, <2>1, AbortKeeps
<1>11. job.kind \in {"START", "MOVE", "LEAVE", "SYNC", "PAUSE", "OFFLINE", "TIMEOUT", "ABORT"}
  BY DEF Job
<1> QED
  BY <1>3, <1>4, <1>5, <1>6, <1>7, <1>8, <1>9, <1>10, <1>11

-----------------------------------------------------------------------------
\* The callbacks on their way are of turns their sessions have reached.
LEMMA FlyingIsHeld ==
  ASSUME \A f \in flying : Fired(f)
  PROVE  FlyingHeld
BY DEF Fired, FlyingHeld

\* A step that ends in the world w keeps the invariant, if the clock is sound with what flies
\* after the step.
LEMMA NextCore ==
  ASSUME NEW w, Core(w), Settled(w), RuntimeType, RuntimeType',
         matches' = w.matches, occupied' = w.occupied, objects' = w.objects, session' = w.session,
         clock' = w.clock, listeners' = w.listeners,
         runtime'.no >= runtime.no,
         absences' = 0 => absences = 0, restarts'.inJob = 0 => restarts.inJob = 0,
         Ticks(w.clock, w.objects)'
  PROVE  Core(World)' /\ Settled(World)'
<1>1. /\ w \in Worlds /\ w.matches \in Seq(Row) /\ w.objects \in Seq(Object) /\ w.clock \in Clock
      /\ w.occupied \in BOOLEAN /\ w.session \in Nat \cup {None} /\ w.listeners \in SUBSET Players
  BY DEF Core, Worlds
<1>2. runtime.no \in Nat /\ runtime'.no \in Nat /\ runtime'.loaded \in BOOLEAN
  BY DEF RuntimeType
<1>3. 1 .. runtime.no \subseteq 1 .. runtime'.no
  BY <1>2
<1>4. TurnTimer \subseteq TurnTimer' /\ WaitTimer \subseteq WaitTimer'
  BY <1>3 DEF TurnTimer, WaitTimer
<1>5. clock' \in Clock'
  BY <1>1, <1>4 DEF Clock
<1>6. Stored(matches)'
  <2>1. \A r \in Row : Rated(r) => Rated(r)'
    BY DEF Rated
  <2> QED
    BY <1>1, <2>1 DEF Core, Stored, Numbered, InProgress, Playable
<1>7. Spent(matches, objects)'
  BY DEF Core, Spent
<1>8. Grown(objects)'
  <2>1. \A o \in DOMAIN w.objects : w.objects[o] \in Object
    BY <1>1
  <2> QED
    BY <1>1, <2>1, ObjectFacts DEF Grown
<1>9. Extended(matches)'
  BY DEF Extended
<1>10. World' \in Worlds'
  <2>1. <<matches', occupied'>> \in Seq(Row) \X BOOLEAN
    BY <1>1
  <2> DEFINE tr == {<<matches', occupied'>>}
  <2>2. tr \in SUBSET (Seq(Row) \X BOOLEAN)
    BY <2>1
  <2>3. World' = [matches |-> matches', occupied |-> occupied', objects |-> objects',
                  session |-> session', clock |-> clock', listeners |-> listeners',
                  loaded |-> runtime'.loaded, trail |-> tr]
    BY DEF World, disk
  <2> HIDE DEF tr
  <2> QED
    BY <1>1, <1>2, <1>5, <2>2, <2>3 DEF Worlds
<1>11. /\ World'.matches = matches' /\ World'.objects = objects' /\ World'.session = session'
       /\ World'.clock = clock' /\ World'.occupied = occupied'
       /\ \A d \in World'.trail : d[1] = matches'
  BY DEF World, disk
<1>12. Core(World)'
  BY <1>6, <1>7, <1>8, <1>9, <1>10, <1>11 DEF Core, Backed
<1>13. Settled(World)'
  BY <1>11 DEF Settled, InProgress
<1> QED
  BY <1>12, <1>13

\* Core holds of a process that has just begun, on any sound database.
LEMMA ClearedCore ==
  ASSUME Stored(matches)', matches' \in Seq(Row), occupied' \in BOOLEAN,
         objects' = << >>, session' = None, clock' = Stopped, flying' = {},
         runtime'.loaded \in BOOLEAN, listeners' \in SUBSET Players
  PROVE  Core(World)'
<1>1. clock' \in Clock'
  BY DEF Clock, Stopped
<1>2. World' \in Worlds'
  <2> DEFINE tr == {<<matches', occupied'>>}
  <2>1. <<matches', occupied'>> \in Seq(Row) \X BOOLEAN
    OBVIOUS
  <2>2. tr \in SUBSET (Seq(Row) \X BOOLEAN)
    BY <2>1
  <2>3. World' = [matches |-> matches', occupied |-> occupied', objects |-> objects',
                  session |-> session', clock |-> clock', listeners |-> listeners',
                  loaded |-> runtime'.loaded, trail |-> tr]
    BY DEF World, disk
  <2>4. objects' \in Seq(Object)
    OBVIOUS
  <2> HIDE DEF tr
  <2> QED
    BY <1>1, <2>2, <2>3, <2>4 DEF Worlds
<1>3. /\ World'.matches = matches' /\ World'.objects = << >> /\ World'.session = None
      /\ World'.clock = Stopped
      /\ \A d \in World'.trail : d[1] = matches'
  BY DEF World, disk
<1>4. Ticks(Stopped, << >>)' /\ Spent(matches, objects)' /\ Grown(objects)' /\ Extended(matches)'
  BY DEF Ticks, Stopped, Spent, Grown, Extended
<1> QED
  BY <1>2, <1>3, <1>4 DEF Core

\* What waits outside the table stays well formed while sessions and rows only grow.
LEMMA Carried ==
  ASSUME NEW w, Core(w), RuntimeType, RuntimeType', matches' = w.matches, objects' = w.objects,
         runtime'.no >= runtime.no
  PROVE  /\ \A f : Fired(f) => Fired(f)'
         /\ Job \subseteq Job'
         /\ \A l : Left(l) => Left(l)'
<1>1. 1 .. runtime.no \subseteq 1 .. runtime'.no
  BY DEF RuntimeType
<1>2. TurnTimer \subseteq TurnTimer' /\ WaitTimer \subseteq WaitTimer'
  BY <1>1 DEF TurnTimer, WaitTimer
<1>3. DOMAIN objects \subseteq DOMAIN objects'
  BY DEF Core, Grown
<1>4. \A o \in DOMAIN objects : /\ objects[o].game.turn \in Int /\ objects'[o].game.turn \in Int
                                /\ objects[o].game.turn <= objects'[o].game.turn
  <2>1. ASSUME NEW o \in DOMAIN objects
        PROVE  objects[o] \in Object /\ objects'[o] \in Object
    BY <1>3 DEF Core, Grown, Worlds
  <2> QED
    BY <2>1, ObjectFacts DEF Core, Grown
<1>5. ASSUME NEW f, Fired(f)
      PROVE  Fired(f)'
  <2>1. CASE f \in [kind : {"TIMEOUT"}, timer : TurnTimer] /\ Held(f.timer, objects)
    <3>1. f.timer \in TurnTimer /\ f.timer.turn \in Int /\ f.timer.object \in DOMAIN objects
      BY <2>1, TableAssumption DEF TurnTimer, Held
    <3>2. f.timer.turn <= objects'[f.timer.object].game.turn
      BY <1>4, <2>1, <3>1 DEF Held
    <3> QED
      BY <1>2, <1>3, <2>1, <3>1, <3>2 DEF Fired, Held
  <2>2. CASE f \in [kind : {"ABORT"}, timer : WaitTimer] /\ f.timer.object \in DOMAIN objects
    BY <1>2, <1>3, <2>2 DEF Fired
  <2> QED
    BY <1>5, <2>1, <2>2 DEF Fired
<1>6. Job \subseteq Job'
  BY <1>3 DEF Job
<1>7. ASSUME NEW x, Backed(matches, x)
      PROVE  Backed(matches', x)
  BY <1>7 DEF Core, Extended, Backed
<1>8. ASSUME NEW l, Left(l)
      PROVE  Left(l)'
  <2>1. CASE l \in [by : Players, no : 1 .. MaxFailures, step : {"PAUSED"}]
    BY <2>1 DEF Left
  <2>2. CASE /\ l \in [by : Players, no : 1 .. MaxFailures, step : {"FOUND"},
                       object : DOMAIN objects \cup {None}, read : Object \cup {None}]
             /\ l.read # None => Backed(matches, l.read)
    BY <1>3, <1>7, <2>2 DEF Left
  <2> QED
    BY <1>8, <2>1, <2>2 DEF Left
<1> QED
  BY <1>5, <1>6, <1>8

\* A queue that takes one job more, or refuses it, is a queue of jobs.
LEMMA SubmittedKeeps ==
  ASSUME NEW S, queue \in Seq(S), Len(queue) <= QueueSize, NEW job \in S
  PROVE  Submitted(job) \in Seq(S) /\ Len(Submitted(job)) <= QueueSize
<1>1. QueueSize \in Nat
  BY TableAssumption
<1> QED
  BY <1>1 DEF Submitted

\* A queue of some jobs is a queue of more jobs.
LEMMA WiderQueue ==
  ASSUME NEW S, NEW T, S \subseteq T, NEW q \in Seq(S)
  PROVE  q \in Seq(T)
OBVIOUS

\* The invariant holds of a table nobody has played at.
LEMMA InitKeeps == Init => TableInv
<1> SUFFICES ASSUME Init PROVE TableInv
  OBVIOUS
<1>1. RuntimeType /\ CountersType /\ online \subseteq Players
  BY TableAssumption DEF Init, RuntimeType, CountersType
<1>2. Core(World)
  <2>1. clock \in Clock
    BY DEF Init, Clock, Stopped
  <2>2. World \in Worlds
    <3> DEFINE tr == {<<matches, occupied>>}
    <3>1. tr \in SUBSET (Seq(Row) \X BOOLEAN)
      <4>1. matches \in Seq(Row)
        BY DEF Init
      <4>2. occupied \in BOOLEAN
        BY DEF Init
      <4> QED
        BY <4>1, <4>2
    <3>2. World = [matches |-> matches, occupied |-> occupied, objects |-> objects,
                   session |-> session, clock |-> clock, listeners |-> listeners,
                   loaded |-> runtime.loaded, trail |-> tr]
      BY DEF World, disk
    <3>3. /\ matches \in Seq(Row) /\ objects \in Seq(Object)
          /\ session = None /\ listeners \in SUBSET Players
      BY DEF Init
    <3> HIDE DEF tr
    <3> QED
      BY <1>1, <2>1, <3>1, <3>2, <3>3 DEF Worlds, RuntimeType, Init
  <2>3. /\ World.matches = << >> /\ World.objects = << >> /\ World.session = None
        /\ World.clock = Stopped
        /\ \A d \in World.trail : d[1] = << >>
    BY DEF Init, World, disk
  <2>4. /\ Stored(<< >>) /\ Ticks(Stopped, << >>) /\ Spent(<< >>, << >>)
        /\ Grown(<< >>) /\ Extended(<< >>)
    BY DEF Init, Stored, Playable, InProgress, Ticks, Stopped, Spent, Grown, Extended
  <2> QED
    BY <2>2, <2>3, <2>4 DEF Core
<1>3. Settled(World)
  BY DEF Init, Settled, World
<1>4. queue \in Seq(Job) /\ Len(queue) <= QueueSize
  BY TableAssumption DEF Init
<1> QED
  BY <1>1, <1>2, <1>3, <1>4 DEF TableInv, Init

-----------------------------------------------------------------------------
\* The goroutine of the table does a job.
LEMMA WorkKeeps == TableInv /\ Work => TableInv'
<1> SUFFICES ASSUME TableInv, Work PROVE TableInv'
  OBVIOUS
<1>1. Head(queue) \in Job /\ Tail(queue) \in Seq(Job) /\ Len(Tail(queue)) <= QueueSize
  BY TableAssumption DEF TableInv, Work
<1>2. PICK w \in Outcomes(Head(queue)) :
        /\ matches' = w.matches /\ occupied' = w.occupied
        /\ objects' = w.objects /\ session' = w.session
        /\ clock' = w.clock /\ listeners' = w.listeners
        /\ runtime' = [runtime EXCEPT !.loaded = w.loaded]
        /\ queue' = IF w.loaded THEN Tail(queue) ELSE << >>
  BY DEF Work
<1>3. Core(w) /\ Settled(w)
  BY <1>1, OutcomesKeep, FlyingIsHeld DEF TableInv
<1>4. RuntimeType /\ RuntimeType' /\ runtime'.no = runtime.no /\ runtime.no \in Nat
  BY <1>2, <1>3 DEF TableInv, RuntimeType, Core, Worlds
<1>5. /\ flying' = flying /\ online' = online /\ leaving' = leaving
      /\ absences' = absences /\ restarts' = restarts
  BY DEF Work
<1>6. Ticks(w.clock, w.objects)'
  BY <1>2, <1>3, <1>5 DEF Core, Ticks, Held, Outrun
<1>7. Core(World)' /\ Settled(World)'
  BY <1>2, <1>3, <1>4, <1>5, <1>6, NextCore
<1>8. /\ \A f : Fired(f) => Fired(f)'
      /\ Job \subseteq Job'
      /\ \A l : Left(l) => Left(l)'
  BY <1>2, <1>3, <1>4, Carried
<1>9. queue' \in Seq(Job') /\ Len(queue') <= QueueSize
  <2>1. queue' \in Seq(Job) /\ Len(queue') <= QueueSize
    BY <1>1, <1>2, TableAssumption
  <2> QED
    BY <1>8, <2>1, WiderQueue
<1> QED
  BY <1>4, <1>5, <1>7, <1>8, <1>9 DEF TableInv, CountersType

\* A step that leaves the matches and the sessions alone.
LEMMA TimerCore ==
  ASSUME TableInv, RuntimeType', runtime'.no >= runtime.no,
         UNCHANGED <<disk, memory>>, listeners' \in SUBSET Players,
         absences' = 0 => absences = 0, restarts' = restarts,
         clock' \in Clock, Ticks(clock', objects), Ticks(clock, objects)'
  PROVE  /\ Core(World)' /\ Settled(World)'
         /\ \A f : Fired(f) => Fired(f)'
         /\ Job \subseteq Job'
         /\ \A l : Left(l) => Left(l)'
<1> DEFINE c == [World EXCEPT !.clock = clock']
<1>1. Core(World) /\ Settled(World) /\ World.objects = objects /\ RuntimeType
  BY DEF TableInv, World
<1>2. /\ Core(c) /\ c.clock = clock'
      /\ c.matches = matches /\ c.occupied = occupied /\ c.objects = objects /\ c.session = session
  <2>1. /\ World.matches = matches /\ World.occupied = occupied /\ World.session = session
    BY DEF World
  <2> QED
    BY <1>1, <2>1, ClockKeeps
<1> HIDE DEF c
<1>3. Settled(c)
  BY <1>1, <1>2 DEF Settled, World
<1>4. PICK w : w = [c EXCEPT !.listeners = listeners', !.loaded = runtime.loaded]
  OBVIOUS
<1>5. Core(w) /\ Settled(w)
  BY <1>1, <1>2, <1>3, <1>4, ListenersKeep DEF RuntimeType
<1>6. /\ w.matches = matches /\ w.occupied = occupied /\ w.objects = objects /\ w.session = session
      /\ w.clock = clock' /\ w.listeners = listeners'
  BY <1>2, <1>4 DEF Core, Worlds
<1>7. matches' = matches /\ occupied' = occupied /\ objects' = objects /\ session' = session
  BY DEF disk, memory
<1>8. Ticks(w.clock, w.objects)'
  BY <1>6, <1>7 DEF Ticks, Held, Outrun
<1>9. Core(World)' /\ Settled(World)'
  BY <1>1, <1>5, <1>6, <1>7, <1>8, NextCore
<1>10. /\ \A f : Fired(f) => Fired(f)'
      /\ Job \subseteq Job'
      /\ \A l : Left(l) => Left(l)'
  BY <1>1, <1>5, <1>6, <1>7, Carried
<1> QED
  BY <1>9, <1>10

\* A step that leaves the clock alone as well.
LEMMA QuietCore ==
  ASSUME TableInv, RuntimeType', runtime'.no >= runtime.no,
         UNCHANGED <<disk, memory, clock, flying>>, listeners' \in SUBSET Players,
         absences' = 0 => absences = 0, restarts' = restarts
  PROVE  /\ Core(World)' /\ Settled(World)'
         /\ \A f : Fired(f) => Fired(f)'
         /\ Job \subseteq Job'
         /\ \A l : Left(l) => Left(l)'
<1>1. clock \in Clock /\ Ticks(clock, objects)
  BY DEF TableInv, Core, Worlds, World
<1>2. Ticks(clock', objects) /\ Ticks(clock, objects)'
  BY <1>1 DEF Ticks, Held, Outrun, memory
<1> QED
  BY <1>1, <1>2, TimerCore

\* A command, which may wake the table up.
LEMMA CommandKeeps ==
  ASSUME TableInv, NEW p \in Players, NEW kind \in Commands, Command(p, kind)
  PROVE  TableInv'
<1> DEFINE job == [kind |-> kind, by |-> IF kind = "MOVE" THEN None ELSE p]
<1>1. job \in Job
  BY DEF Job, Commands
<1>2. queue' \in Seq(Job) /\ Len(queue') <= QueueSize
  BY <1>1, SubmittedKeeps DEF TableInv, Command
<1>3. RuntimeType' /\ runtime'.no >= runtime.no
  BY DEF TableInv, Command, RuntimeType
<1>4. /\ UNCHANGED <<disk, memory, clock, flying, listeners, online, leaving, absences, restarts>>
      /\ listeners \in SUBSET Players
  BY DEF Command, TableInv, Core, Worlds, World
<1>5. /\ Core(World)' /\ Settled(World)'
      /\ \A f : Fired(f) => Fired(f)'
      /\ Job \subseteq Job'
      /\ \A l : Left(l) => Left(l)'
  BY <1>3, <1>4, QuietCore
<1>6. queue' \in Seq(Job')
  BY <1>2, <1>5, WiderQueue
<1> QED
  BY <1>2, <1>3, <1>4, <1>5, <1>6 DEF TableInv, CountersType

\* A connection more.
LEMMA ConnectKeeps ==
  ASSUME TableInv, NEW p \in Players, Connect(p)
  PROVE  TableInv'
<1>1. /\ UNCHANGED <<disk, memory, clock, flying, queue, runtime, listeners, leaving, absences,
                  restarts>>
      /\ listeners \in SUBSET Players /\ online' \subseteq Players
  BY DEF Connect, TableInv, Core, Worlds, World
<1>2. RuntimeType' /\ runtime'.no >= runtime.no
  BY <1>1 DEF TableInv, RuntimeType
<1>3. /\ Core(World)' /\ Settled(World)'
      /\ \A f : Fired(f) => Fired(f)'
      /\ Job \subseteq Job'
      /\ \A l : Left(l) => Left(l)'
  BY <1>1, <1>2, QuietCore
<1>4. queue' \in Seq(Job')
  BY <1>1, <1>3, WiderQueue DEF TableInv
<1> QED
  BY <1>1, <1>2, <1>3, <1>4 DEF TableInv, CountersType

\* The match found when a connection is lost is backed by what is stored.
LEMMA DisconnectKeeps ==
  ASSUME TableInv, NEW p \in Players, Disconnect(p)
  PROVE  TableInv'
<1> DEFINE read == IF session = None THEN Restored(matches) ELSE None
           l == [by |-> p, no |-> absences + 1, step |-> "FOUND", object |-> session, read |-> read]
<1>1. /\ UNCHANGED <<disk, memory, clock, flying, queue, runtime, listeners, restarts>>
      /\ listeners \in SUBSET Players /\ online' \subseteq Players
      /\ absences' = absences + 1 /\ leaving' = leaving \cup {l}
  BY DEF Disconnect, TableInv, Core, Worlds, World
<1>2. RuntimeType' /\ runtime'.no >= runtime.no
  BY <1>1 DEF TableInv, RuntimeType
<1>3. absences \in Nat /\ absences' # 0 /\ CountersType' /\ absences + 1 \in 1 .. MaxFailures
  <2>1. /\ absences \in Nat /\ restarts.all \in Nat /\ MaxFailures \in Nat
        /\ absences + restarts.all < MaxFailures
    BY TableAssumption DEF TableInv, CountersType, Disconnect
  <2> QED
    BY <1>1, <2>1 DEF TableInv, CountersType
<1>4. /\ Core(World)' /\ Settled(World)'
      /\ \A f : Fired(f) => Fired(f)'
      /\ Job \subseteq Job'
      /\ \A k : Left(k) => Left(k)'
  BY <1>1, <1>2, <1>3, QuietCore
<1>5. queue' \in Seq(Job')
  BY <1>1, <1>4, WiderQueue DEF TableInv
<1>6. Left(l)
  <2>1. matches \in Seq(Row) /\ Stored(matches) /\ session \in DOMAIN objects \cup {None}
    BY DEF TableInv, Core, Worlds, World
  <2>2. read \in Object \cup {None} /\ (read # None => Backed(matches, read))
    BY <2>1, RestoredIs
  <2> HIDE DEF read
  <2> QED
    BY <1>3, <2>1, <2>2 DEF Left
<1> QED
  BY <1>1, <1>2, <1>3, <1>4, <1>5, <1>6 DEF TableInv

\* What a lost connection makes of the session and of the queue; the table works on.
LEMMA DisconnectFromMatchKeeps ==
  ASSUME TableInv, NEW l \in leaving, DisconnectFromMatch(l)
  PROVE  TableInv'
<1>1. PICK w : w = Keep(World, l.read)
  OBVIOUS
<1> DEFINE o == IF l.object # None THEN l.object ELSE IF l.read # None THEN w.session ELSE None
           k == [by |-> l.by, no |-> l.no, step |-> "PAUSED"]
           job == [kind |-> "PAUSE", object |-> o, no |-> l.no]
<1>2. /\ l.step = "FOUND" /\ Left(l) /\ absences # 0
      /\ UNCHANGED <<disk, clock, flying, runtime, listeners, online, absences, restarts>>
      /\ objects' = w.objects /\ session' = w.session
      /\ leaving' = (leaving \ {l}) \cup {k}
      /\ queue' = IF o # None /\ runtime.loaded THEN Submitted(job) ELSE queue
  BY <1>1 DEF DisconnectFromMatch, TableInv
<1>3. /\ l.by \in Players /\ l.no \in 1 .. MaxFailures
      /\ l.object \in DOMAIN objects \cup {None} /\ l.read \in Object \cup {None}
      /\ l.read # None => Backed(matches, l.read)
  BY <1>2 DEF Left
<1>4. Core(World) /\ Settled(World) /\ World.matches = matches /\ World.clock = clock
      /\ World.occupied = occupied
  BY DEF TableInv, World
<1>5. /\ Core(w) /\ Settled(w)
      /\ w.matches = matches /\ w.occupied = occupied /\ w.clock = clock
      /\ l.read # None => w.session # None
  BY <1>2, <1>3, <1>4, <1>1, KeepKeeps
<1>6. w.listeners = listeners
  BY <1>1 DEF Keep, World
<1>7. RuntimeType /\ RuntimeType' /\ runtime' = runtime /\ runtime'.no >= runtime.no
  BY <1>2 DEF TableInv, RuntimeType
<1>8. /\ matches' = w.matches /\ occupied' = w.occupied
      /\ clock' = w.clock /\ listeners' = w.listeners
  BY <1>2, <1>5, <1>6 DEF disk
<1>9. Ticks(w.clock, w.objects)'
  BY <1>2, <1>5, <1>8 DEF Core, Ticks, Held, Outrun
<1>10. Core(World)' /\ Settled(World)'
  BY <1>2, <1>5, <1>7, <1>8, <1>9, NextCore
<1>11. /\ \A f : Fired(f) => Fired(f)'
       /\ Job \subseteq Job'
       /\ \A h : Left(h) => Left(h)'
  BY <1>2, <1>5, <1>7, <1>8, Carried
<1>12. queue' \in Seq(Job') /\ Len(queue') <= QueueSize
  <2>1. queue \in Seq(Job') /\ Len(queue) <= QueueSize
    BY <1>11, WiderQueue DEF TableInv
  <2>2. o # None => o \in DOMAIN objects'
    BY <1>2, <1>3, <1>5 DEF Core, Grown
  <2> HIDE DEF o
  <2>3. o # None => job \in Job'
    BY <1>3, <2>2 DEF Job
  <2> HIDE DEF job
  <2> QED
    BY <1>2, <2>1, <2>3, SubmittedKeeps
<1>13. Left(k)'
  BY <1>3 DEF Left
<1> QED
  BY <1>2, <1>7, <1>10, <1>11, <1>12, <1>13 DEF TableInv, CountersType

\* The table forgets a player whose connection is lost.
LEMMA DisconnectFromTableKeeps ==
  ASSUME TableInv, NEW l \in leaving, DisconnectFromTable(l)
  PROVE  TableInv'
<1> DEFINE job == [kind |-> "OFFLINE", by |-> l.by]
<1>1. /\ UNCHANGED <<disk, memory, clock, flying, runtime, listeners, online, absences, restarts>>
      /\ listeners \in SUBSET Players /\ leaving' \subseteq leaving
      /\ queue' = IF runtime.loaded THEN Submitted(job) ELSE queue
  BY DEF DisconnectFromTable, TableInv, Core, Worlds, World
<1>2. job \in Job
  <2>1. l.by \in Players
    BY DEF TableInv, Left
  <2> QED
    BY <2>1 DEF Job
<1>3. queue' \in Seq(Job) /\ Len(queue') <= QueueSize
  BY <1>1, <1>2, SubmittedKeeps DEF TableInv
<1>4. RuntimeType' /\ runtime'.no >= runtime.no
  BY <1>1 DEF TableInv, RuntimeType
<1>5. /\ Core(World)' /\ Settled(World)'
      /\ \A f : Fired(f) => Fired(f)'
      /\ Job \subseteq Job'
      /\ \A h : Left(h) => Left(h)'
  BY <1>1, <1>4, QuietCore
<1>6. queue' \in Seq(Job')
  BY <1>3, <1>5, WiderQueue
<1> QED
  BY <1>1, <1>3, <1>4, <1>5, <1>6 DEF TableInv, CountersType

\* A timer that fires is the one that is registered, and then none is ticking.
LEMMA TurnFiresKeeps ==
  ASSUME TableInv, NEW t \in clock.ticking, TurnFires(t)
  PROVE  TableInv'
<1> DEFINE f == [kind |-> "TIMEOUT", timer |-> t]
           e == Fire(clock, t)
<1>1. /\ UNCHANGED <<disk, memory, queue, runtime, listeners, online, leaving, absences, restarts>>
      /\ listeners \in SUBSET Players /\ clock' = e /\ flying' = flying \cup {f}
  BY DEF TurnFires, TableInv, Core, Worlds, World
<1>2. clock \in Clock /\ Ticks(clock, objects)
  BY DEF TableInv, Core, Worlds, World
<1>3. t \in TurnTimer /\ t = clock.pending /\ t # None /\ clock.paused = None /\ Held(t, objects)
  <2>1. t \in TurnTimer
    BY <1>2 DEF Clock
  <2>2. None \notin TurnTimer
    BY NoneAssumption, TableAssumption DEF TurnTimer
  <2> QED
    BY <1>2, <2>1, <2>2 DEF Ticks
<1>4. /\ e \in Clock /\ e.ticking = {} /\ e.pending = t /\ e.paused = None
      /\ e.abort = clock.abort /\ e.waiting = clock.waiting
  <2>1. clock.ticking \ {t} = {}
    BY <1>2, <1>3 DEF Ticks
  <2>2. e = [clock EXCEPT !.ticking = {}]
    BY <2>1 DEF Fire
  <2> QED
    BY <1>2, <1>3, <2>2 DEF Clock
<1> HIDE DEF e
<1>5. Ticks(e, objects)
  BY <1>2, <1>3, <1>4 DEF Ticks, Outrun
<1>6. Ticks(clock, objects)'
  <2>1. Outrun(t, {})'
    <3>1. t.run \in Nat
      BY <1>3 DEF TurnTimer
    <3>2. \A g \in flying : g.kind = "TIMEOUT" /\ g.timer.object = t.object /\ g.timer.turn = t.turn
                              => g.timer.run \in 0 .. t.run
      BY <1>2, <1>3 DEF Ticks, Outrun
    <3>3. f.timer = t
      OBVIOUS
    <3> HIDE DEF f
    <3> QED
      BY <1>1, <3>1, <3>2, <3>3 DEF Outrun
  <2>2. objects' = objects /\ clock' = e
    BY <1>1 DEF memory
  <2> QED
    BY <1>2, <1>3, <1>4, <2>1, <2>2 DEF Ticks, Held
<1>7. RuntimeType' /\ runtime'.no >= runtime.no /\ TurnTimer' = TurnTimer
  BY <1>1 DEF TableInv, RuntimeType, TurnTimer
<1>8. /\ Core(World)' /\ Settled(World)'
      /\ \A g : Fired(g) => Fired(g)'
      /\ Job \subseteq Job'
      /\ \A l : Left(l) => Left(l)'
  BY <1>1, <1>4, <1>5, <1>6, <1>7, TimerCore
<1>9. queue' \in Seq(Job')
  BY <1>1, <1>8, WiderQueue DEF TableInv
<1>10. Fired(f)
  BY <1>3 DEF Fired
<1> QED
  BY <1>1, <1>7, <1>8, <1>9, <1>10 DEF TableInv, CountersType

\* The wait for a player ends; its callback is on its way.
LEMMA AbortFiresKeeps ==
  ASSUME TableInv, NEW a \in clock.waiting, AbortFires(a)
  PROVE  TableInv'
<1> DEFINE f == [kind |-> "ABORT", timer |-> a]
           e == FireAbort(clock, a)
<1>1. /\ UNCHANGED <<disk, memory, queue, runtime, listeners, online, leaving, absences, restarts>>
      /\ listeners \in SUBSET Players /\ clock' = e /\ flying' = flying \cup {f}
  BY DEF AbortFires, TableInv, Core, Worlds, World
<1>2. clock \in Clock /\ Ticks(clock, objects)
  BY DEF TableInv, Core, Worlds, World
<1>3. a \in WaitTimer /\ a.object \in DOMAIN objects
  BY <1>2 DEF Clock, Ticks
<1>4. /\ e \in Clock /\ e.ticking = clock.ticking /\ e.pending = clock.pending
      /\ e.paused = clock.paused /\ e.abort = clock.abort /\ e.waiting \subseteq clock.waiting
  <2> DEFINE less == clock.waiting \ {a}
  <2>1. less \in SUBSET WaitTimer /\ less \subseteq clock.waiting
    BY <1>2 DEF Clock
  <2>2. e = [clock EXCEPT !.waiting = less]
    BY DEF FireAbort
  <2> HIDE DEF less
  <2> QED
    BY <1>2, <2>1, <2>2 DEF Clock
<1> HIDE DEF e
<1>5. Ticks(e, objects)
  BY <1>2, <1>4 DEF Ticks
<1>6. Ticks(clock, objects)'
  <2>1. \A t, S : Outrun(t, S) => Outrun(t, S)'
    BY <1>1 DEF Outrun
  <2>2. objects' = objects /\ clock' = e
    BY <1>1 DEF memory
  <2> QED
    BY <1>2, <1>4, <2>1, <2>2 DEF Ticks, Held
<1>7. RuntimeType' /\ runtime'.no >= runtime.no
  BY <1>1 DEF TableInv, RuntimeType
<1>8. /\ Core(World)' /\ Settled(World)'
      /\ \A g : Fired(g) => Fired(g)'
      /\ Job \subseteq Job'
      /\ \A l : Left(l) => Left(l)'
  BY <1>1, <1>4, <1>5, <1>6, <1>7, TimerCore
<1>9. queue' \in Seq(Job')
  BY <1>1, <1>8, WiderQueue DEF TableInv
<1>10. Fired(f)
  BY <1>3 DEF Fired
<1> QED
  BY <1>1, <1>7, <1>8, <1>9, <1>10 DEF TableInv, CountersType

\* A callback that lands forgets its timer; if it is the registered one, it has fired and none
\* is ticking.
LEMMA LandKeeps ==
  ASSUME TableInv, NEW f \in flying, Land(f)
  PROVE  TableInv'
<1> DEFINE job == [kind |-> f.kind, object |-> f.timer.object]
<1>1. /\ UNCHANGED <<disk, memory, runtime, listeners, online, leaving, absences, restarts>>
      /\ listeners \in SUBSET Players /\ flying' \subseteq flying
      /\ clock' = IF f.kind = "TIMEOUT" THEN Forget(clock, f.timer) ELSE ForgetAbort(clock)
      /\ queue' = IF runtime.loaded /\ runtime.no = f.timer.runtime THEN Submitted(job) ELSE queue
  BY DEF Land, TableInv, Core, Worlds, World
<1>2. clock \in Clock /\ Ticks(clock, objects)
  BY DEF TableInv, Core, Worlds, World
<1>3. Fired(f)
  BY DEF TableInv
<1>4. clock' \in Clock /\ Ticks(clock', objects)
  <2>1. CASE f.kind = "TIMEOUT"
    <3> DEFINE e == Forget(clock, f.timer)
    <3>1. f.timer \in TurnTimer /\ f.timer # None
      BY <1>3, <2>1, NoneAssumption, TableAssumption DEF Fired, TurnTimer
    <3>2. /\ e \in Clock /\ e.ticking = clock.ticking
          /\ e.pending = IF clock.pending = f.timer THEN None ELSE clock.pending
          /\ e.paused = clock.paused /\ e.abort = clock.abort /\ e.waiting = clock.waiting
      BY <1>2 DEF Forget, Clock
    <3> HIDE DEF e
    <3>3. clock.pending = f.timer => clock.ticking = {}
      BY <1>2, <2>1, <3>1 DEF Ticks, Outrun
    <3>4. Ticks(e, objects)
      BY <1>2, <3>2, <3>3 DEF Ticks
    <3> QED
      BY <1>1, <2>1, <3>2, <3>4 DEF e
  <2>2. CASE f.kind # "TIMEOUT"
    <3> DEFINE e == ForgetAbort(clock)
    <3>1. /\ e \in Clock /\ e.ticking = clock.ticking /\ e.pending = clock.pending
          /\ e.paused = clock.paused /\ e.abort = None /\ e.waiting = clock.waiting
      BY <1>2 DEF ForgetAbort, Clock
    <3> HIDE DEF e
    <3>2. Ticks(e, objects)
      BY <1>2, <3>1 DEF Ticks
    <3> QED
      BY <1>1, <2>2, <3>1, <3>2 DEF e
  <2> QED
    BY <2>1, <2>2
<1>5. Ticks(clock, objects)'
  <2>1. \A t, S : Outrun(t, S) => Outrun(t, S)'
    BY <1>1 DEF Outrun
  <2>2. objects' = objects
    BY <1>1 DEF memory
  <2> QED
    BY <1>4, <2>1, <2>2 DEF Ticks, Held
<1>6. RuntimeType' /\ runtime'.no >= runtime.no
  BY <1>1 DEF TableInv, RuntimeType
<1>7. /\ Core(World)' /\ Settled(World)'
      /\ \A g : Fired(g) => Fired(g)'
      /\ Job \subseteq Job'
      /\ \A l : Left(l) => Left(l)'
  BY <1>1, <1>4, <1>5, <1>6, TimerCore
<1>8. job \in Job
  BY <1>3 DEF Fired, Job, Held
<1>9. queue' \in Seq(Job) /\ Len(queue') <= QueueSize
  <2> HIDE DEF job
  <2> QED
    BY <1>1, <1>8, SubmittedKeeps DEF TableInv
<1>10. queue' \in Seq(Job')
  BY <1>7, <1>9, WiderQueue
<1> QED
  BY <1>1, <1>6, <1>7, <1>9, <1>10 DEF TableInv, CountersType

\* Whatever the database holds when the server ends, the next process starts from it.
LEMMA ServerEndsKeeps ==
  ASSUME TableInv, NEW inJob \in {0, 1}, ServerEnds(inJob), matches' \in Seq(Row), Stored(matches'),
         occupied' \in BOOLEAN, inJob = 0 => UNCHANGED disk
  PROVE  TableInv'
<1>1. /\ restarts' = [all |-> restarts.all + 1, inJob |-> restarts.inJob + inJob]
      /\ objects' = << >> /\ session' = None
      /\ clock' = Stopped /\ flying' = {}
      /\ queue' = << >> /\ runtime' = [no |-> 1, loaded |-> FALSE]
      /\ listeners' = {} /\ online' = {} /\ leaving' = {}
      /\ absences' = absences
  BY DEF ServerEnds
<1>2. CountersType'
  <2>1. /\ absences \in Nat /\ restarts.all \in Nat /\ restarts.inJob \in Nat /\ inJob \in Nat
        /\ absences + restarts.all < MaxFailures /\ MaxFailures \in Nat
    BY TableAssumption DEF TableInv, CountersType, ServerEnds
  <2>2. restarts.all + 1 \in Nat /\ restarts.inJob + inJob \in Nat
        /\ absences + (restarts.all + 1) <= MaxFailures
    BY <2>1
  <2>3. restarts' \in [all : Nat, inJob : Nat] /\ restarts'.all = restarts.all + 1
    BY <1>1, <2>2
  <2> QED
    BY <1>1, <2>1, <2>2, <2>3 DEF CountersType
<1>3. RuntimeType'
  BY <1>1 DEF RuntimeType
<1>4. Stored(matches)'
  BY <1>1 DEF Stored, Rated
<1>5. Core(World)'
  BY <1>1, <1>4, ClearedCore
<1>6. Settled(World)'
  <2>1. restarts'.inJob = 0 => inJob = 0 /\ restarts.inJob = 0
    BY <1>1 DEF TableInv, CountersType
  <2>2. inJob = 0 => matches' = matches /\ occupied' = occupied
    BY DEF disk
  <2> QED
    BY <1>1, <2>1, <2>2 DEF TableInv, Settled, World, InProgress
<1>7. queue' \in Seq(Job') /\ Len(queue') <= QueueSize
  BY <1>1, TableAssumption
<1> QED
  BY <1>1, <1>2, <1>3, <1>5, <1>6, <1>7 DEF TableInv

\* The server ends between two jobs.
LEMMA RestartKeeps == TableInv /\ Restart => TableInv'
<1> SUFFICES ASSUME TableInv, Restart PROVE TableInv'
  OBVIOUS
<1>1. ServerEnds(0) /\ UNCHANGED disk /\ matches' = matches /\ occupied' = occupied
  BY DEF Restart, disk
<1>2. matches \in Seq(Row) /\ Stored(matches) /\ occupied \in BOOLEAN
  BY DEF TableInv, Core, Worlds, World
<1> QED
  BY <1>1, <1>2, ServerEndsKeeps

\* The server ends between two writes of a job: every state in the trail is sound.
LEMMA CrashKeeps == TableInv /\ Crash => TableInv'
<1> SUFFICES ASSUME TableInv, Crash PROVE TableInv'
  OBVIOUS
<1>1. Head(queue) \in Job
  BY DEF TableInv, Crash
<1>2. PICK w \in Outcomes(Head(queue)) : \E written \in w.trail :
        matches' = written[1] /\ occupied' = written[2]
  BY DEF Crash
<1>3. PICK written \in w.trail : matches' = written[1] /\ occupied' = written[2]
  BY <1>2
<1>4. Core(w)
  BY <1>1, OutcomesKeep, FlyingIsHeld DEF TableInv
<1>5. matches' \in Seq(Row) /\ occupied' \in BOOLEAN /\ Stored(matches')
  BY <1>3, <1>4 DEF Core, Worlds
<1> QED
  BY <1>5, ServerEndsKeeps DEF Crash

\* A step of somebody else.
LEMMA StutterKeeps == TableInv /\ UNCHANGED vars => TableInv'
<1> SUFFICES ASSUME TableInv, UNCHANGED vars PROVE TableInv'
  OBVIOUS
<1>1. /\ UNCHANGED <<disk, memory, clock, flying, queue, runtime, listeners, online, leaving,
                  absences, restarts>>
      /\ listeners \in SUBSET Players
  BY DEF vars, TableInv, Core, Worlds, World
<1>2. RuntimeType' /\ runtime'.no >= runtime.no
  BY <1>1 DEF TableInv, RuntimeType
<1>3. /\ Core(World)' /\ Settled(World)'
      /\ \A f : Fired(f) => Fired(f)'
      /\ Job \subseteq Job'
      /\ \A l : Left(l) => Left(l)'
  BY <1>1, <1>2, QuietCore
<1>4. queue' \in Seq(Job')
  BY <1>1, <1>3, WiderQueue DEF TableInv
<1> QED
  BY <1>1, <1>2, <1>3, <1>4 DEF TableInv, CountersType

\* The invariant holds in every state of every behaviour.
THEOREM TableInductive == Spec => []TableInv
<1>1. ASSUME TableInv, Next
      PROVE  TableInv'
  <2>1. CASE Work
    BY <1>1, <2>1, WorkKeeps
  <2>2. ASSUME NEW p \in Players, Disconnect(p)
        PROVE  TableInv'
    BY <1>1, <2>2, DisconnectKeeps
  <2>3. ASSUME NEW p \in Players, Connect(p)
        PROVE  TableInv'
    BY <1>1, <2>3, ConnectKeeps
  <2>4. ASSUME NEW p \in Players, NEW kind \in Commands, Command(p, kind)
        PROVE  TableInv'
    BY <1>1, <2>4, CommandKeeps
  <2>5. ASSUME NEW l \in leaving, DisconnectFromMatch(l)
        PROVE  TableInv'
    BY <1>1, <2>5, DisconnectFromMatchKeeps
  <2>6. ASSUME NEW l \in leaving, DisconnectFromTable(l)
        PROVE  TableInv'
    BY <1>1, <2>6, DisconnectFromTableKeeps
  <2>7. ASSUME NEW t \in clock.ticking, TurnFires(t)
        PROVE  TableInv'
    BY <1>1, <2>7, TurnFiresKeeps
  <2>8. ASSUME NEW a \in clock.waiting, AbortFires(a)
        PROVE  TableInv'
    BY <1>1, <2>8, AbortFiresKeeps
  <2>9. ASSUME NEW f \in flying, Land(f)
        PROVE  TableInv'
    BY <1>1, <2>9, LandKeeps
  <2>10. CASE Restart
    BY <1>1, <2>10, RestartKeeps
  <2>11. CASE Crash
    BY <1>1, <2>11, CrashKeeps
  <2> QED
    BY <1>1, <2>1, <2>2, <2>3, <2>4, <2>5, <2>6, <2>7, <2>8, <2>9, <2>10, <2>11 DEF Next
<1>2. TableInv /\ [Next]_vars => TableInv'
  BY <1>1, StutterKeeps
<1> QED
  BY <1>2, InitKeeps, PTL DEF Spec

-----------------------------------------------------------------------------
\* The types of the state of a table (GameRouter, TurnClock, MatchService).
THEOREM TableTypeOK == Spec => []TypeOK
<1>1. TableInv => TypeOK
  <2> SUFFICES ASSUME TableInv PROVE TypeOK
    OBVIOUS
  <2>1. /\ matches \in Seq(Row) /\ objects \in Seq(Object) /\ occupied \in BOOLEAN
        /\ clock \in Clock /\ listeners \in SUBSET Players
        /\ session # None => session \in DOMAIN objects
        /\ \A o \in DOMAIN objects : objects[o].match \in DOMAIN matches
        /\ Ticks(clock, objects)
    BY DEF TableInv, Core, Worlds, World, Backed
  <2>2. ASSUME NEW m \in DOMAIN matches
        PROVE  /\ matches[m].status \in {"IN_PROGRESS", "FINISHED", "ABORTED"}
               /\ matches[m].rated \in BOOLEAN
               /\ matches[m].log \subseteq Nat \ {0}
               /\ matches[m].snap # NoSnapshot => matches[m].snap \in [seq : Nat, game : Game]
    <3>1. matches[m] \in Row
      BY <2>1
    <3> QED
      BY <3>1 DEF Row, Snapshot, LiveGame
  <2>3. ASSUME NEW o \in DOMAIN objects
        PROVE  objects[o] \in [match : DOMAIN matches, game : Game, seq : Nat, moves : Nat]
    <3>1. objects[o] \in Object
      BY <2>1
    <3> QED
      BY <2>1, <3>1 DEF Object, LiveGame
  <2>4. ASSUME NEW t \in TurnTimer, t.object \in DOMAIN objects
        PROVE  t \in Timer
    BY <2>4 DEF TurnTimer, Timer
  <2>5. ASSUME NEW a \in WaitTimer, a.object \in DOMAIN objects
        PROVE  a \in AbortTimer
    BY <2>5 DEF WaitTimer, AbortTimer
  <2>6. clock.pending \in Timer \cup {None} /\ clock.paused \in Timer \cup {None}
    BY <2>1, <2>4 DEF Clock, Ticks, Held
  <2>7. clock.ticking \subseteq Timer
    <3>1. None \notin TurnTimer
      BY NoneAssumption, TableAssumption DEF TurnTimer
    <3> QED
      BY <2>1, <2>4, <3>1 DEF Clock, Ticks, Held
  <2>8. clock.abort \in AbortTimer \cup {None} /\ clock.waiting \subseteq AbortTimer
    BY <2>1, <2>5 DEF Clock, Ticks
  <2>9. \A f \in flying : IF f.kind = "TIMEOUT" THEN f.timer \in Timer ELSE f.timer \in AbortTimer
    BY <2>4, <2>5 DEF TableInv, Fired, Held
  <2>10. ASSUME NEW i \in DOMAIN queue, "object" \in DOMAIN queue[i]
         PROVE  queue[i].object \in DOMAIN objects
    <3>1. queue[i] \in Job
      BY DEF TableInv
    <3> QED
      BY <2>10, <3>1 DEF Job
  <2> QED
    BY <2>1, <2>2, <2>3, <2>6, <2>7, <2>8, <2>9, <2>10 DEF TypeOK, TableInv, RuntimeType
<1> QED
  BY <1>1, TableInductive, PTL

\* The log of a match has no gap, over refused moves, restarts and crashes (MatchLog.Append).
THEOREM LogsAreNumbered == Spec => []LogHasNoGaps
<1>1. TableInv => LogHasNoGaps
  BY DEF TableInv, Core, World, Stored, Numbered, LogHasNoGaps
<1> QED
  BY <1>1, TableInductive, PTL

\* No snapshot is ahead of the log, wherever the server ends (GameRouter.execute).
THEOREM SnapshotsAreLogged == Spec => []SnapshotIsLogged
<1>1. TableInv => SnapshotIsLogged
  <2> SUFFICES ASSUME TableInv, NEW m \in DOMAIN matches
               PROVE  matches[m].snap.seq <= Cardinality(matches[m].log)
    BY DEF SnapshotIsLogged
  <2>1. matches[m] \in Row /\ Numbered(matches[m])
    BY DEF TableInv, Core, Worlds, World, Stored
  <2>2. Cardinality(matches[m].log) \in Nat
    BY <2>1, FS_CardinalityType DEF Numbered
  <2>3. CASE matches[m].snap = NoSnapshot
    BY <2>2, <2>3, RowFacts
  <2>4. CASE matches[m].snap # NoSnapshot
    BY <2>1, <2>2, <2>4, RowFacts, ShorterLog DEF Numbered
  <2> QED
    BY <2>3, <2>4
<1> QED
  BY <1>1, TableInductive, PTL

\* However starts, ends and crashes follow each other, at most one match can be played
\* (MatchService.Start, Find).
THEOREM OneMatchIsPlayed == Spec => []AtMostOneMatchIsPlayed
<1>1. TableInv => AtMostOneMatchIsPlayed
  <2> SUFFICES ASSUME TableInv PROVE Cardinality(Playable(matches)) <= 1
    BY DEF AtMostOneMatchIsPlayed, Playable
  <2>1. matches \in Seq(Row) /\ Stored(matches)
    BY DEF TableInv, Core, Worlds, World
  <2>2. ASSUME NEW m \in Playable(matches), NEW k \in Playable(matches)
        PROVE  m = k
    <3>1. m \in Nat /\ k \in Nat /\ k <= m /\ m <= k
      BY <2>1 DEF Stored, Playable, InProgress
    <3> QED
      BY <3>1
  <2>3. CASE Playable(matches) = {}
    BY <2>3, FS_EmptySet
  <2>4. CASE Playable(matches) # {}
    <3>1. PICK m : m \in Playable(matches)
      BY <2>4
    <3>2. Playable(matches) = {m}
      BY <2>2, <3>1
    <3> QED
      BY <3>2, FS_Singleton
  <2> QED
    BY <2>3, <2>4
<1> QED
  BY <1>1, TableInductive, PTL

\* At most one timer runs for the turn of a table, and it is not paused as well (TurnClock).
THEOREM OneClockPerTurn == Spec => []OneTurnClock
<1>1. TableInv => OneTurnClock
  <2> SUFFICES ASSUME TableInv PROVE OneTurnClock
    OBVIOUS
  <2>1. Ticks(clock, objects)
    BY DEF TableInv, Core, World
  <2>2. clock.ticking = {} \/ clock.ticking = {clock.pending}
    BY <2>1 DEF Ticks
  <2>3. Cardinality(clock.ticking) <= 1
    <3>1. Cardinality({clock.pending}) = 1
      BY FS_Singleton
    <3>2. CASE clock.ticking = {}
      BY <3>2, FS_EmptySet
    <3>3. CASE clock.ticking = {clock.pending}
      BY <3>1, <3>3
    <3> QED
      BY <2>2, <3>2, <3>3
  <2> QED
    BY <2>1, <2>3 DEF Ticks, OneTurnClock
<1> QED
  BY <1>1, TableInductive, PTL

\* Unless the server ended in the middle of a job, an occupied table has a match in progress
\* (GameRouter.abortMatch, finishIfOver).
THEOREM NoTableIsLeftOccupied == Spec => []OccupiedTableHasMatch
<1>1. TableInv => OccupiedTableHasMatch
  BY DEF TableInv, Settled, World, OccupiedTableHasMatch
<1> QED
  BY <1>1, TableInductive, PTL

\* Unless a connection was lost, the session in memory is of the match a restart would restore
\* (MatchService.Find, restore).
THEOREM LiveSession == Spec => []SessionIsLive
<1>1. TableInv => SessionIsLive
  <2> SUFFICES ASSUME TableInv, absences = 0, session # None
               PROVE  /\ Session.match \in InProgress(matches)
                      /\ Restored(matches).match = Session.match
    BY DEF SessionIsLive
  <2>1. /\ matches \in Seq(Row) /\ Stored(matches)
        /\ session \in DOMAIN objects /\ Backed(matches, Session)
    BY DEF TableInv, Core, Worlds, World, Session
  <2>2. Session.match \in InProgress(matches)
    BY DEF TableInv, Settled, World, Session
  <2>3. Session.match \in Playable(matches)
    BY <2>1, <2>2 DEF Playable, Backed
  <2> QED
    BY <2>1, <2>2, <2>3, RestoredIs
<1> QED
  BY <1>1, TableInductive, PTL

\* Unless a connection was lost, a rated match was saved as over first (GameRouter.execute,
\* finishIfOver).
THEOREM RatedWasPlayedOut == Spec => []RatedIsPlayedOut
<1>1. TableInv => RatedIsPlayedOut
  BY DEF TableInv, Core, World, Stored, Rated, RatedIsPlayedOut
<1> QED
  BY <1>1, TableInductive, PTL
=============================================================================
