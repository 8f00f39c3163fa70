# Verification of the bardak back end

TLA+ models of the Go server of the card game *bardak* (`back-go/`), the TLC
instances that check them, and TLAPS proofs about the deal, the match, the
table, the lobby and the services beside them. The reference is the Go code; the
rules in `planning/` and the tests say what the players were promised, and are
quoted where the code does something else.

- [The system](#the-system): components, state, operations, what is hard
- [The modules](#the-modules): what models what, and the correspondence with the code
- [The runs](#the-runs): what is checked, on which bounds, and why they are enough
- [Fairness](#fairness)
- [What disagrees](#what-disagrees): six findings, and three disagreements that properties state
- [The proofs](#the-proofs): what is proved, from what, by which argument
- [What is not modelled](#what-is-not-modelled)
- [The plan](#the-plan)

Run a model with `tlc -config MCDeal2.cfg MCDeal2`, the proofs with
`tlapm DealEngineProofs.tla`, and so for `DealCardsProofs`, `DealRoundProofs`,
`DealTurnProofs`, `DealPromiseProofs`, `MatchProofs`, `TableProofs` and
`ServicesProofs`.

## The system

Two to five players sit at a table, start a match and play deals until somebody
has had the joker hung on him. A browser talks to the server over one
WebSocket. Everything that happens at one table is serialised through a queue
that one goroutine works off; the game itself is a pure function from a state
and a command to the next state.

```
 socket goroutines ──submit──▶ table runtime (queue, 1 goroutine) ──▶ game router
   handler.go                    runtime.go, registry.go               game_router.go
                                        ▲                               │   │   │
 timer goroutines ──────submit──────────┘                               │   │   │
   turn_clock.go  ◀──────────── start / pause / cancel ─────────────────┘   │   │
                                                                            │   │
            match session ── Match ── Deal engine, rules, scoring ◀─────────┘   │
            match_session.go   domain/game/                                     │
                                                                                ▼
                       match service, log, result, rating, lobby  ──▶  Postgres
                                                                                ▲
 REST handlers (one goroutine per request) ── lobby, friends, offline matches ──┤
 recompute-rating, import-offline (programs beside the server) ─────────────────┘

 game router ── TurnNotifier ──▶ Sender queue (1 goroutine) ──▶ push service
 friends ────── Presence ──▶ open sockets, else the Sender queue
```

| Component | State | Operations | What is hard | What makes it correct |
|---|---|---|---|---|
| Cards (`domain/game/card.go`, `deck.go`, `trump.go`) | none | beating, equal rank, the card that "flies" | the suit no trump beats moves with the trump | who beats whom is a function of the two cards and the trump |
| Rules of moves (`move_rules.go`, `attack_order.go`, `hanging*.go`) | none; they read the deal | may attack, defend, transfer, pass, hang; whose right it is | limits that count cards which come and go | the attack can be answered; the right is never the defender's |
| Deal engine (`deal_engine.go`) | one immutable `DealState` | twelve commands, refill, exits, hanging window, closing a round | long legal sequences; steps inside one command (refill, hidden trump, exits) | no card is lost; there is always a move; the deal ends with one player |
| Timeout policy (`application/timeout_policy.go`) | none | whose turn the clock counts, what it does for him | the action is a command and may be refused | a silent player does not stop the deal |
| Dealer (`dealer.go`) | a seed | shuffling, dealing, up to ten reshuffles | a trump nobody holds | every card dealt once |
| Match and scoring (`match.go`, `scoring.go`) | the deal, levels, results | next deal, levels, the end of the match | the reshuffle after a named trump; clamped levels | levels and the loser follow from the deals |
| Match session (`match_session.go`) | match, number of the last event, moves of the deal, remembered commands | apply, number, remember | window of 200 commands | a repeated command has no second effect |
| Match service and log (`match_service.go`, `match_log.go`) | sessions in memory; rows, events, snapshots | find, start, restore, append, snapshot, finish | several writes without a transaction; a restart between them | log without gaps, snapshot never ahead of it, one match at a table |
| Result and rating (`match_result.go`, `rating.go`) | result rows, Elo | written once, in one transaction | order against the snapshot; a cancelled match | a rating is backed by a played-out match |
| Game router and turn clock (`game_router.go`, `turn_clock.go`) | timers of a table | commands, timeout, pause, resume, leave, abort | timers that fired cannot be taken back; callbacks keep what they captured | one clock per turn; ended matches stay ended |
| Table runtime and registry (`runtime.go`, `registry.go`) | queue, subscribers, which tables are loaded | submit, subscribe, unload | bounded queue; unloading from inside its own goroutine | nothing is handled twice, waits end |
| Sockets and lobby router (`handler.go`, `lobby_router.go`) | connections | connect, read, notice the end | clean-up runs beside the table | an absence is noticed, a return ends it |
| Lobby (`lobby.go`, `repository/table.go`) | tables, seats, readiness | create, join, leave, ready, start, finish, close, current | statements without a transaction over unique indexes; REST calls run beside the queue of the table | one seat for each player; a full table is full; a closed one stays closed; no table is left with nobody at it |
| Result and rating once more (`match_result.go`, `offline_match.go`, `elo.go`, `cmd/recompute-rating`, `cmd/import-offline`) | places, points of the history, ratings | count a match from the table, by hand, by import; recompute all | ratings are read before the transaction; delivered twice; a recomputation beside the running server | counted once for each player; a recomputation keeps the places |
| Friends (`social.go`, `repository/friendship.go`) | one row for two players | request, accept, remove, invite | read, then write: the row may be gone or another one | nobody is a friend who has not agreed |
| Presence (`presence.go`, `server/invites.go`) | open sockets of a player | attach, detach, send an invitation | the last socket closes while an invitation is on its way | an invitation goes to the sockets or into the queue |
| Notifications (`push/turn_notifier.go`, `push/sender.go`) | marks of the silence; a bounded queue; subscriptions | turn, pause, present; subscribe, unsubscribe; deliver | one map for all tables, pruned by each call; devices change owners while a call is sent | calls to a player are spaced |
| Projection (`projection.go`) | none | what a player is shown and offered | everything is computed from the whole deal | nothing hidden is shown; what is legal is offered |
| Snapshot (`state_codec.go`, `card_codec.go`) | none | the deal to JSON and back | a restart knows nothing else | what is read back is what was written |
| Accounts, tickets, history, profile, migrations, configuration, front end, Java back end | their tables | reads and simple writes | little | see *What is not modelled* |

The hard behaviours, one by one with their line, are the list `hazards` of
`PROJECT.json`. In short: **long legal sequences** of commands inside a deal;
**several effects in one command**; **timers** that have fired but not arrived;
**callbacks** that keep a session or a runtime from the past; a **connection
lost** while the table works on; the server **ending** between two jobs or two
writes; a **full queue**; **checks that are stale** when the row they are for is
written; and **liveness** of a game in which every player may fall silent.

## The modules

```
 Cards ◀─ DealRules ◀─ DealEngine ◀─ DealSafety ◀─ DealTimeouts ◀──┐
   ▲         ▲  ▲          ▲ ▲                                     │
   │         │  │          │ └─ Projection ◀─┐                     ├─ MCDeal2
   │         │  └──────────┼── DealSnapshot ◀┴─ DealViews ◀────────┤
   │         │             │                                       └─ DealKeepsPromise ◀─ MCDeal3
   │                                                                     │ INSTANCE
   │                                                                     ▼
   ├──────────────── DealPromise ◀────────────────────────────── PromisedDeal
   │                      ▲
   └───── Scoring ◀─ MatchEngine ◀─ MatchProofs ─▶ Ratings
             ▲            ▲
 People ◀─ Ratings        ├────────────────── MCServices
   ▲                      │
   ├── Lobby ◀────────────┤      Lobby ◀───┬─ ServicesProofs
   └── Notifications ◀─ Friends   Friends ◀─┘

 TurnClock ◀─ GameTable ◀─ TableSafety ◀─┬─ MCTable
                                         └─ TableProofs

 the proofs about a deal, each on the invariant of the one before:
 DealSafety ◀─ DealEngineProofs ◀─ DealCardsProofs ◀─ DealRoundProofs ◀─┬─ DealTurnProofs
                                                                        └─ DealPromiseProofs
 (DealTurnProofs extends DealTimeouts, DealPromiseProofs DealKeepsPromise)
```

### The deal

**`Cards`** — `N` seats, ranks, the pack, the scale of hung cards. A pip is a
record of rank and suit, a joker a number. The program plays with nine ranks
and all four suits; here the pack is a parameter. The suits are fixed, because
spades and clubs have a role in the code (`ProtectedSuit`).

**`DealRules`** — `Deal` is `DealState` with its parts: hands, face-down cards,
hung cards and the table as sets, the deck as a sequence whose last card is the
hidden trump. `exitPlace[s]` is the place of a seat in `ExitOrder`. `discard` is
kept by no variable of the program; it is what the events of beaten rounds
carry away, and without it cards could not be counted. The module has every
query and every `Can...` of the rules under the name of the source.

**`DealEngine`** — first the steps that `deal_engine.go` composes (`Refill`,
`MarkExits`, `FinishRound`, `OpenHangingWindow`, `CloseWindow`, ...) as
operators from a deal to a deal, then one action per command with all it does:
`Attack` of the last card also passes, a pass that ends the round also clears,
refills, lets players leave, draws the hidden trump and starts the next round or
opens the window. A refused command returns the state it got, so it is no step.
Dice (over a hidden joker, over a disputed hanging) are an arbitrary choice,
`chooser` and `winner`. `Init` is any deal of any shuffled pack of `Shuffles`,
with any starter the program could arrive at.

**`DealSafety`** states what must be true of every deal, **`DealTimeouts`**
composes the deal with the turn clock: `SeatOnTheClock`, the command the server
issues (`AutoAction`), fairness of it, and the liveness of a deal.

**`Projection`** is what one player is shown of a deal (`StateProjection.Project`)
and the moves he is offered: candidates built from his own cards and the table,
each tried on the rules (`Accepts`). **`DealSnapshot`** is the deal in the
snapshot of a match and read back: cards as codes, missing fields, a slot laid
and beaten anew. **`DealViews`** states what must be true of both. That nothing
hidden is shown is put as non-interference: exchange all cards a player cannot
see among the places where he cannot see them, and his view, offered moves
included, stays the same.

### The match

**`DealPromise`** is the abstract deal: levels, who hung a joker on whom, who
left in which order, whether there are cards to draw, and how many eights the
last attack had. It says how these may come about, round by round, without a
card being played. **`PromisedDeal`** is the specification made of it, and
**`DealKeepsPromise`** the refinement: `DealEngine`, cards and all, implements
it (`Promised == INSTANCE PromisedDeal WITH ...`, checked by `three_players`).

**`Scoring`** has the four passes of `scoring.go` under the names of the source.
**`MatchEngine`** plays deals that keep the promise, scores them and carries the
levels; so what is checked and proved of a match holds of a match of real deals.
Two kinds of reshuffle are different: the dealer's own, at the start, is part of
`Fresh`; the one of the match, `Reshuffle`, follows a named trump, also the one
named for a hidden joker in the middle of a deal.

### The table

**`TurnClock`** — what `turn_clock.go` registers (`pending`, `paused`, `abort`)
and, apart from it, the timers that really run (`ticking`, `waiting`): a timer
that was forgotten without being stopped would still fire. `Forget` compares the
timer, as the callback of the turn clock does; `ForgetAbort` does not, as the
callback of the abort timer does not.

**`GameTable`** — one table: queue and goroutine, sockets, timers, sessions in
memory, matches in the database.

| Variable | In the program |
|---|---|
| `matches` | rows of the table in `matches`, their numbers in `match_events`, the last snapshot, whether `match_results` has been written |
| `occupied` | status IN_MATCH of the table in the lobby |
| `objects`, `session` | every `MatchSession` made since the server started, and the one `MatchService` holds |
| `clock`, `flying` | `TurnClock`, and callbacks that have fired but not submitted |
| `queue`, `runtime` | channel and goroutine of `TableRuntime`; its number tells an unloaded runtime from the one made after it |
| `listeners`, `online`, `leaving` | subscriptions, open sockets, and the goroutines of sockets that have ended, with what they have read |
| `absences`, `restarts` | counters for the bound and for stating properties |

Sessions are kept after the service forgets them, because callbacks do: a
queued timeout has the session it was made with (`game_router.go:453`), and this
is where two of the findings come from.

`Work` does one job. A job is a value, `World`, that goes through the calls of
the handler; every commit adds the state of the database to `trail`. `Work`
takes the last state; `Crash` takes any state of the trail and loses the memory.
So each handler is written once, and a crash between any two of its writes comes
with it.

| Job | Handler |
|---|---|
| START, MOVE | `GameRouter.execute`, with `MatchService.Start` and `Find` |
| LEAVE, SYNC | `leaveMatch`; RESYNC and STATE_REQUEST |
| PAUSE, OFFLINE | `Disconnect` in the goroutine of the table; `Unsubscribe` |
| TIMEOUT, ABORT | `applyTimeout`; `abort` |

A lost connection takes three steps on a goroutine of its own: the match is
looked for (perhaps read from the database), put into memory and paused, and
then the table forgets the player. The table works on between them.

Abstractions: the match is its turn, whether the automatic action would be
refused (`opening`; unless cards are taken back, `two_players_clock` shows that
this is the only case)
and whether it is over. The batch of events of one move is one number of the
log, which is right because the batch is written in one transaction. Seats and
readiness are the lobby's: START may be refused at any time.

Operators marked `Fault:` are what a plausible mistake would make of the
operator below them. No action uses them; with one put in the place of the right
operator, TLC finds the property broken that is meant to catch it (`mutants` in
`PROJECT.json`).

### The services

They know a player by his identifier (**`People`**) and share no state with the
table but the rows of the database.

**`Lobby`** — `tables` and `seats` are the two database tables, `calls` the
requests in progress. One action is one statement and what the service decides
from its result; `at` is the next statement. `Create`, `Current` and `Close` come
over REST and run beside everything, the others wait in the queue of their table
(`Begin`). The three unique indexes of `table_players` are `SeatConflict`.

**`Ratings`** — a match is counted from the table, by a player who enters it, or
by the import: each reads the ratings one by one and writes in one transaction.
`Load`, `Replay`, `Rewrite` and `FailRecount` are `recompute-rating`, a program
beside the server: it reads the results that were counted, replays them one by
one, the earliest first, and writes ratings, points and places in one
transaction, which a failed statement or a dry run rolls back. A rating is the sequence of the matches it is made of, each with the step it was
counted with: what order and number of matches do to it is kept, how many points
it is worth is not.

**`Notifications`** — marks, queue, the call being sent, owners of the devices,
and a clock of minutes. **`Friends`** — the row of a couple, calls that read and
write it, open sockets, invitations; it extends `Notifications`, because an
invitation to somebody who is away goes into the same queue.

## The runs

A property that fails in the code has a run of its own, in which TLC is expected
to find the violation. State counts are distinct states.

### A deal

| Run | Instance | States | Question |
|---|---|---|---|
| `two_players` | 2 players, 6 cards in every order (720), all commands | 273 858 | Is a card ever lost or doubled? Can a deal that is over be scored? Does a pinned card stay? Is the deal of the snapshot the deal? |
| `two_players_clock` | the same without taking back and pinning, fair clock | 63 160 | Is every round closed, every window resolved, every trump named, although players are silent? When exactly does the clock fail? |
| `three_players` | 3 players, 8 cards in 8 orders, at most 3 tables taken | 54 764 | Roles, the attack limit, the window, exits, whether the player to move can move; what is shown and offered to whom; does the automaton implement `PromisedDeal`? |
| `recall_freezes` | as `two_players` | – | *violation* of `PlayerToMoveCanMove` |

Why these bounds are enough. A deal of `DealSize` 1 has everything a deal of five
has: a card in the hand, a face-down card, a deck with a trump card and a hidden
trump, refilling, exits. With two ranks, suits that include the protected one
and both jokers, all kinds of "beats" occur. The scale has one rank and then the
joker, so two tables taken at the wrong moment finish a player. The limits of an
attack are 1 and 2: the first is reached at once, the second by throwing in.
With two players the second neighbour is the starter, so roles are checked with
three, where the attacker, the second neighbour and the defender differ, a
transfer can be answered by a transfer, and the hanging window has several
steps. `MaxTakes` is the only bound of a counter there: a deal is otherwise
bounded by its cards, but tables can be taken again and again.

`RECALL` and `PIN` are left out where `recall_freezes` would only be found
again, and in the runs about the clock: a player can take a card back and play
it for ever, and neither the code nor the rules limit it.

### A table

| Run | Instance | States | Question |
|---|---|---|---|
| `table` | 2 players, 2 matches of a move each, 1 failure, queue of 2, symmetry | 462 655 | One match at a time? Does the table free itself? Do memory and database agree? One clock? |
| `table_log_and_clock` | 1 match of up to 2 moves, 1 refused move, 1 failure, queue of 4, fair | 526 266 | Is the log without gaps, the snapshot behind it, the rating behind the snapshot, at every crash? Does a silent turn move on? |
| `aborted_rated` | 1 match, no failures, automatic moves on | – | *violation* of `AbortedIsNeverRated` |
| `finished_aborted` | 1 match, 1 lost connection, automatic moves off | – | *violation* of `FinishedIsNeverAborted` |
| `restart_after_refusal` | 1 match, 1 refused move, 1 restart | – | *violation* of `NextNumberIsFree` |
| `everybody_gone` | 1 match, 2 lost connections, fair | – | *violation* of `AbsenceEndsMatch` |

The bounds, each with its place: `MaxMatches` and `MaxTurns` in `StartMatch` and
`Moved`; `MaxRefusals` in `Move`; `MaxPending` (jobs waiting when a player sends
another) in `Command`; `MaxFailures` (lost connections, restarts and crashes
together) in `Disconnect` and `ServerEnds`. `MaxMovesPerDeal` and `QueueSize`
are limits of the program.

Why they are enough. One failure is enough to lose a connection while a job, a
timer or a callback is at any stage, or to end the server between any two writes
of any handler. Two matches are what it takes for something left of the first (a
timer, a callback, a queued job, a session) to meet the second. `MaxPending = 1`
limits only the players: callbacks and lost connections fill the queue further,
and with `QueueSize = 2` they meet its limit. A match of one move can be begun,
played to its end, cancelled, found stuck and restored; two moves are needed to
be silent in one turn and move on to another.

Deadlock is not checked: a deal that is over and a table whose bounds are used
up rightly stop. That a deal which is *not* over has a move is the property
`PlayerToMoveCanMove`, which is stronger than the absence of a deadlock: it asks
for a move of the player on the clock.

### The match and the services

| Run | Instance | States | Question |
|---|---|---|---|
| `services` | matches of 2 deals of 3 players; 3 users, 2 calls at a time, symmetry | 392 930 | Does a match end with who deserves it? Do stale checks seat anybody twice, close or open a table wrongly? Is a match counted once? Can a friendship come about without one of the two? Are calls spaced? |
| `finisher_loses` | as `services` | – | *violation* of `FinisherIsNoLoser` |

The services share nothing but the queue of the notifications, so that the run
explores them one at a time: `focus` is chosen at the start, and only the
service in focus moves. All their interleavings together would show nothing
more, for no property relates two of them and only the queue is read by two.

Bounds and why they are enough. *Match* (`MaxDeals` 2, three players, a scale of
one rank and the joker): every pattern of exits, hangings, rewards and eights of
a deal, followed by another one from the levels it leaves. *Lobby* (two tables of
three seats, two calls at a time, `MaxCalls` 3): the seat of one call may be taken,
its player seated elsewhere, its table closed or put into a match between any two
statements; the third call meets what two have left, and the run starts from an
empty lobby or from one table with any of the players at it. `Attempts` is 2 where
the program has `seatAttempts = 5`, and there is a seat more than both attempts
can see taken: so one call is outrun by the two others, gives up, and tells its
player that a table is full which is not. *Ratings*
(`MatchIds` two, `MaxJobs` three countings or recomputations, newcomers for one
match): a match counted twice at once, another of the same players in between,
a recomputation before, between or after; `Endings` are one in which both lose,
with different degrees, and one with a joker that has no degree, as real tables
have. *Friends* (`MaxRequests` 3): a request, its counterpart and a removal in
any overlap. *Notifications* (a queue of one, silence of two minutes, three
minutes): a full queue, a mark that is pruned, a device that changes its owner
during a delivery. `SameTwo` (the matches of an instance are played by the same
two) is a bound of the run as well.

### The conditions inside the properties

`CountedOnce` does not ask for the number of matches while the last
recomputation that was written had been overtaken by a counting: it writes what
it has read, and that counting is missing from the number until the next
recomputation finds it in the history. Everything else in `CountedOnce` is asked
always. `RecountKeepsPlaces` has the same condition for the number only.
`LosersDeserveIt` asks that a loser did not finish off anybody, but not of the
loser of the deal whose only reward was used up by the step of the lost deal: this
is `finisher_loses`, and the property says that there is no other such case.
`NoDeadTables` is not asked of a table whose last player left by the command
LEAVE: the lobby keeps such tables open on purpose.
`FullOrOutrun` does not say that a table is full when a player is told so: after
`seatAttempts` lost races `Join` (`lobby.go:321-355`) answers `ErrTableFull`, "за
столом нет свободных мест" (`lobby.go:24`), whatever the table looks like by then,
and the run reaches such answers. It says what is true of all of them: the table
is full, or at least `Attempts` calls were answered since this one began.
`MoveWasOffered` leaves out (`NeverOffered`) the moves the engine accepts and the
projection never offers: several cards hung at once, the face-down card turned
up against a card that does not lie there, and taking back and pinning, which
are not played in `three_players` anyway.

`SessionIsLive` is asked only while no connection was lost: the goroutine of a
lost connection reads the match from the database and puts it into memory in a
second step, so a match cancelled in between comes back
(`match_service.go:232`). `RatedIsPlayedOut` is asked under the same condition:
what comes back then may be a match that was finished and rated in the meantime
(`restore`, `match_service.go:234`), although `Find` promises nothing when "there
is no match or it is finished" (`match_service.go:98`). `OccupiedTableHasMatch`
and `NextNumberIsFree` are not asked after a crash in the middle of a job, which
may leave the table occupied and the snapshot behind the log.
`SilentTurnMovesOn` lets go when something of another match, a lost connection or a restart disturbed the turn. These are
weaknesses of the code that the hazards list; the conditions name them instead
of hiding them. `OneTurnClock` is about the clock of the turn only. The wait for
an absent player has a fault of its own: the callback of a wait that has fired
forgets whatever wait is registered (`turn_clock.go:129`), also a newer one,
which the return of the player then cannot stop (`turn_clock.go:135` counts on
it). `ForgetAbort` and `CancelAbort` have it as it is; no run is spent on it,
since `finished_aborted` shows where waits nobody can stop lead.

The following are in the models, but no text of the repository says what ought
to happen, so no property judges them. `closeIfDeserted` may close a table
somebody has joined after its seats were read. The end of a match switches the
table and then clears readiness in two statements; a call
that gets no further than the first leaves everybody ready. Two matches of a player counted at once leave one of the two
ratings, with both counted in the number of matches. Both of two players who
ask each other at the same moment may be told that the request was sent already,
although it waits for their consent (`social.go:187`). A full queue loses a call
and the silence begins all the same. A device that the push service says is gone
loses its subscription even if it has been subscribed again meanwhile. A joker
that waits for a suit is counted among the discarded cards (`discardCount`).

## Fairness

*A deal.* `ClocksRun`: if the engine keeps accepting the automatic action, it is
performed. It is justified where `BARDAK_AUTO_MOVE` is on: `restartTurnClock`
starts a timer after every accepted move, and `applyTimeout` applies the action.
Nothing is assumed of the players. ENABLED is written out
(`AutoActionIsAccepted`), since TLC evaluates it much faster.

*A table.* The goroutine of the table does its next job; a fired timer reaches
its runtime; timers fire; the goroutine of a lost connection finishes. These are
goroutines and `time.AfterFunc` timers that nothing blocks while the server
lives. The fairness of `Work` stops when the table is unloaded. Nothing is
assumed of players, of connections coming back, or of the server starting again.

## What disagrees

| Run | The code | What is promised |
|---|---|---|
| `recall_freezes` | `deal_engine.go:870`: a player who has passed automatically with his last card takes it back, but stays among the passed. On an empty table he can neither attack nor pass, and it is his turn. | `match_test.go:552`: in every phase some command is accepted, "or the match stands dead". |
| `aborted_rated` | `game_router.go:453`: a timeout that was queued before a player left plays the cancelled match on, up to its end, its result and its rating. | `game_router.go:529`: a cancelled match is not rated. |
| `finished_aborted` | `game_router.go:514`: the end of a match leaves the wait for an absent player running; its callback cancels the finished match, and frees the table where the next one may be running. | `match_result.go:82`: a match is closed exactly once. |
| `restart_after_refusal` | `match_service.go:228`: a refused move takes a number of the log but makes no snapshot; after a restart the number is given again and every following move fails on the unique index. | `match_service.go:200`: after a restart players go on from the same place. |
| `everybody_gone` | `registry.go:95`: the last lost connection unloads the table; the callback of the wait finds its runtime closed, and nobody ends the match. | `planning/03-domain-rules.md:1252`: not back in 60 seconds, the match is ABORTED. |
| `finisher_loses` | `scoring.go:319`: a player with the joker who loses the deal as well is a step beyond it; the reward for finishing off another takes off that step only, since levels are cut off at the joker in the last pass (`scoring.go:338`). He is a loser, with the degree of the deal's loser. | `scoring.go:316-318`, `planning/03-domain-rules.md:153-154`: the finisher who has the joker himself gets −1, the joker comes off, and he is no loser. `scoring_test.go:181` tries only one who has not lost the deal. |

`aborted_rated` needs automatic moves, which are off by default; the others happen
with the default configuration.

Where a property that holds speaks of a disagreement, no run shows a violation:

- **The clock at the opening.** `planning/03-domain-rules.md:1227`: when the time is
  out the server performs the most harmless action for the player, for the attacker
  the pass. `timeout_policy.go:53` issues that pass for the starter of a round too,
  who may not pass on an empty table; it is refused, and the clock does not start
  again. `TimeoutFailsExactlyAtTheOpening` says that this happens there always, and
  nowhere else.
- **The hand of the taker.** `move_rules.go:17-19`, `deal_engine.go:389-390` and
  `deal_phase.go:27-29` say that after "take" only the limit of the round restricts
  throwing in, and the taker's hand limits nothing any more. That was the rule before
  2026-08-31: `planning/03-domain-rules.md` §1.4.2 now has both limits hold after
  "take" too, and so does the code (`CanAttack`, `move_rules.go:33-45`). The comments
  are out of date; `AttackCanBeAnswered` states the rule of the code and of §1.4.2.
- **A full table.** `Join` says that no seats are free (`lobby.go:24`, `lobby.go:355`)
  when its attempts are spent, free seats or not: `FullOrOutrun`.

## The proofs

Every theorem is about a specification the runs check, for every value of the
constants that the named assumptions allow; TLC evaluates those assumptions in
the runs of the same modules. The proofs follow one pattern: an inductive
invariant, a lemma for each operator the actions are composed of, one step for
each action, and a last step of temporal logic.

### A deal is well-formed

`DealEngineProofs` proves of the specification `Spec` of `DealEngine`, for every
number of seats from two, every pack, every scale, every limit, and every set of
shuffles and start levels:

| Theorem | States |
|---|---|
| `DealInvariant` | `Spec => []DealInv`, the inductive invariant |
| `TypeCorrect` | `Spec => []TypeOK` |
| `NobodyLeavesEarlyEver` | `Spec => []NobodyLeavesEarly` |
| `HiddenTrumpFindsItsPlayersEver` | `Spec => []HiddenTrumpFindsItsPlayers` |

*Assumptions* of this and the next four modules. Those of the constants:
`CardsAssumption`, `RulesAssumption` and `DealAssumption`, and `NoneAssumption`,
which says that the value standing for Go's nil is none of those that a field
holds otherwise. The one that matters is that a pack is large enough for `N`
hands of `DealSize`, `N` face-down cards, the trump card and the hidden trump;
`dealOnce` and `dealHands` (`dealer.go`) refuse to deal otherwise.

*Why an invariant is needed.* The type alone is not inductive. A round that ends
makes `NextActive` a seat only if somebody is in the deal. `MarkExits` keeps
somebody only if somebody was there: whoever is last of all stays. A hidden
trump that is a joker is put aside with a recipient and a chooser; after the
refill, in the same command, players leave the deal, and both must still be in
it. They are because the deck was not empty *before* this refill: until then
nobody can have turned his face-down card up (`CanPlayFaceDown` asks for an
empty deck), and who has a face-down card does not leave. So

```
DealInv == Sound(deal) /\ Waiting(deal)
  WellFormed   deal \in Deal, somebody is in the deal
  Early        while the deck is not empty: all are in the deal, all face-down
               cards are there, no hidden trump waits       (WellFormed + Early = Sound)
  Waiting      a hidden trump waits only in DICE, for a recipient and a chooser
               who are in the deal
```

*The argument.* The code composes pure functions, and so does the proof. Each
operator from a deal to a deal has a lemma, `...Keeps`: from `Refill` and
`MarkExits` over `FinishRound`, `OpenHangingWindow` and `CloseWindow` to
`Passed`, `Attacked`, `Defended`, `Taken`. Each group of commands has one that
cites them (`RoundKeeps`, `HangingKeeps`, `TrumpKeeps`, `SecondThoughtsKeep`),
and `DealtIsSound` is the initial state. The first section of the module has the
orders of the circle: there is a nearest seat, `NextActive` is in the deal,
`FirstOf` and `LastOf` are members of the set they are asked about.

### No card is lost

`DealCardsProofs`: `CardsInvariant`, `CardsAreConserved`
(`Spec => []EveryCardInOnePlace`) and `PinnedCardsStay` (`Spec => PinnedStays`),
with all commands, taking back and pinning included.

`EveryCardInOnePlace` is a sum over the seats and the places, and a sum over
seats is no help in a proof. `Conserved` says the same without adding: a card is
in exactly one of eight *zones* (hands, face-down, hung, deck, attack, defence,
aside, discard) if it is of the pack, in none otherwise, and no zone holds a card
twice. A command carries some cards from one zone to another; its lemma says
which (`LaidConserves`, `BeatenConserves`, `RefillConserves`, ...). Alone this is
not inductive: when the window closes, cards fly out of the hands of those who
claimed them, perhaps several commands ago. They are still there, which is
`ClaimsAreHeld`.

A pinned card stays because it is known by itself: attacking cards are all
different, so the slot is found again after a step; and what is pinned as a
defence has one (`PinsAreOfCards`).

### Who plays, who waits, who is out

`DealRoundProofs` states the round, phase by phase (`Phased`):

| Theorem | States |
|---|---|
| `RoundInvariant` | `Spec => []RoundInv`, the inductive invariant |
| `RolesStayApart` | `Spec => []RolesAreApart` |
| `ExitsStayInOrder` | `Spec => []ExitsAreInOrder` |
| `WindowStaysSound` | `Spec => []WindowIsSound` |
| `NobodyMovesIntoTheWindow` | `Spec => []NoMoveIntoTheWindow` |
| `OverCanBeScored` | `Spec => []OverMeansScorable` |

What took the work is that a round may close by itself, when nobody can go on,
and that it must not close *over* somebody. `OverMeansScorable` needs a last
attack; the window needs a victim who is in the deal and others to decide. So the
invariant has to know who has run out of cards while the round goes on:

```
Roles      defender next to the starter; the right with the starter or the
           second neighbour; all in the deal
Supplied   who has nothing left to play has played in this round
Defences   beaten cards are the defender's, and none is before the first one
Attackers  before the first beaten card, what lies there is the starter's and the
           second neighbour's, or the defender, who received it by a transfer,
           holds two cards
Turn       who has the right but nothing to attack with laid his last card, and
           nobody has passed
Exits      places are 1, 2, ... without gaps, given once, to those who are out
```

`NobodyIsLeftEmpty` follows: after a closed round, refilled and with the exits
marked, everybody in the deal has a card. Places are ranks in the circle from the
starter, so `ExitsStayInOrder` rests on these being different (`RanksAreDistinct`),
and the neighbours of two and of three players are computed once
(`CircleOfTwo`, `CircleOfThree`).

### There is always a move

`DealTurnProofs`, with the hypothesis `NothingIsTakenBack`
(`"RECALL" \notin PlayerCommands`):

| Theorem | States |
|---|---|
| `TurnInvariant` | `NothingIsTakenBack => (Spec => []TurnInv)` |
| `AttacksCanBeAnswered` | ... `[]AttackCanBeAnswered` |
| `SomebodyCanMove` | ... `[]PlayerToMoveCanMove` |
| `ClockFailsExactlyAtTheOpening` | ... `[]TimeoutFailsExactlyAtTheOpening` |

The hypothesis is no convenience: with cards taken back the theorem is false,
and `recall_freezes` is the counterexample. Everything else the players can do,
pinning included, is in it.

`HeldRight` says that who has the right has not passed, or has it only because
`NextAttacker` finds nobody; and that before the first card of a round nobody has
passed. `Answered` says that the unbeaten cards are no more than the defender has
cards. Both are about the *end* of a command: in the middle of `Attacked` the
right may be with somebody who has just passed automatically. With `Supplied`
the starter of a round has a card; the limit of the attack is at least one, and
the defender has a card too: so the starter can play. In every other situation of
a round the automatic action is accepted; and there, holding something on an empty
table, the starter is always refused the pass. That is the last theorem.

### The promise, the snapshot and the views

`DealPromiseProofs`:

| Theorem | States |
|---|---|
| `DealKeepsItsPromise` | `Spec => KeepsPromise`, the refinement of `PromisedDeal` |
| `SnapshotIsTheDealAlways` | `Spec => []SnapshotIsTheDeal` |
| `NothingHiddenIsShownEver` | `Spec => []NothingHiddenIsShown` |
| `MoveWasOfferedAlways` | `Spec => MoveWasOffered` |

*The snapshot.* A deal is put together from cards, slots, players, a window and a
hidden trump, and each of these has a lemma that it comes back as it was written
(`CardComesBack`, `SlotComesBack`, `WindowComesBack`, ... `DealComesBack`). One
of them has a condition: `DecodeSlot` sets the author and the pin of a defence
only if there is a defence. So a slot without one must have nobody's and no pin,
which is an invariant (`PinsAreOfCards`, of `DealCardsProofs`); taking back a
defence is the command that could have broken it.

*The views.* The run exchanges the hidden cards in one way, in the circle of
their order; the proof allows any exchange that takes no two hidden cards to the
same one (`Turns`): the deal after it looks the same to the player in everything
the projection reads (`ExchangeIsNotSeen`), and from deals that look the same the
same view is made, the offered moves included (`SameMovesOffered`, `SameView`).
This needs that the cards are conserved, for a view counts them: the hidden
cards of a hand are finitely many and stay as many. `CircleTurns` says that the
circle of the run is such an exchange. `MoveWasOfferedAlways` goes through the
commands: each that is accepted, but for those listed in `NeverOffered`, is found
among the candidates of its player.

*The refinement.* `PromiseOf(d)` is what the match sees of a deal. A card laid,
beaten or taken changes nothing of it (`SamePromise`), so such a command is a
stuttering step; a command that closes the round is one step of `RoundEnds`,
although it clears, refills, turns the hidden trump and lets players leave. Both
are `RoundStep`, and every operator from a deal to a deal has a lemma that says so
(`FinishRoundPromise`, `RoundBeatenFollows`, `CollectTableFollows`,
`AttackedFollows`, `HungIsPromising`, ...). `RoundInv` is not enough for two
clauses of the promise: the player who is hung a card, and the one who hangs it on him, must both be in the deal when
the exits are marked. The first is, because he holds the table he took. The
second is, because only those have decided in the window whose step it is, and
these are in the deal. Hence

```
PromiseInv == RoundInv /\ Awaited(deal)
  Awaited     in HANGING the victim has cards, and whoever has decided is one
              whose step it is
```

So what is proved of a match (`MatchProofs`, next) is proved of matches whose
deals are played with cards.

### The match, proved

`MatchProofs` proves of `MatchSpec`, for every number of players, every scale
and every number of deals:

| Theorem | States |
|---|---|
| `MatchInvariant` | `MatchSpec => []MatchInv`, the inductive invariant |
| `NobodyStartsFinishedEver` | `MatchSpec => []NobodyStartsFinished` |
| `LosersDeserveItAlways` | `MatchSpec => []LosersDeserveIt` |
| `HungLevelsAreKeptAlways` | `MatchSpec => HungLevelsAreKept` |

The assumptions are `CardsAssumption` and `MatchAssumption`. The invariant has
to know what a deal remembers: `Fair` says that a joker is hung on exactly those
who have reached the top of the scale, that who is out has a place and who is in
has none, and that one player is left of a deal that is over. It holds of a new
deal only because nobody starts at the top, and that holds only because the four
passes leave nobody there without a degree: deal and match support each other,
so both are in `MatchInv`. Each operator of `DealPromise` has a lemma
(`HungOnKeeps`, `LeftKeeps`, `RoundEndsKeeps`), `NextPromisesKeeps` collects
them, and the passes have theirs: `DegreeTells`, `LoserEarnedIt`,
`LoserFinishedNobody`, `MainLoserIsLeft`, `SummandsAddUp`. `LoserFinishedNobody`
proves that `finisher_loses` is the only exception: with one reward a player is
still at the joker only if he was a step beyond it, that is, if the joker was hung
on him and he lost the deal. The deals of `MatchSpec` are abstract; that the real
ones keep the promise is `DealKeepsItsPromise`.

### The results, proved

The second half of `MatchProofs` proves of `RatingsSpec`, for any number of
players, matches, line-ups, endings, countings at the same time and
recomputations:

| Theorem | States |
|---|---|
| `RatingsInvariant` | `RatingsSpec => []RatingsInv`, the inductive invariant |
| `CountedOnceAlways` | `RatingsSpec => []CountedOnce` |
| `RecountKeepsPlacesAlways` | `RatingsSpec => RecountKeepsPlaces` |

The assumptions are `CardsAssumption`, `PeopleAssumption` and
`RatingsAssumption`. The last says that nobody sits on two seats of a match and
that the ranks of the scale ascend, which `rules_config.go` demands of every
scale; on one that does not, the damage would not follow the levels.

*Places* are found again because what is written is enough: `DamageIsKnown`
(rank and degree give the damage of the level), `PlacesByLevelAreByDamage` (of
two players, the one whose level and degree are worse has the greater damage)
and `PlacesAreFoundAgain`. *Ratings* are safe in spite of stale reads, for
`WriteCount` takes nothing on trust but that what it has read is made of matches
of that player (`Fits`), none of them the one it counts: that match has no point
of his before the transaction. `Belongs` says of a rating what `CountedOnce`
asks. The parts of the invariant are `Tables` (results and history are of the
same matches and players, row by row what the game was), `Standings`, `Jobs`
(what a counting has read fits) and `Recomputation`: what it has loaded is part
of the results, all of them unless it was overtaken (`LoadedOK`), and its ratings
belong to the rows it has made as the real ones do to the history (`AnewOK`).
The last part makes the invariant inductive: `Rewrite` is safe whatever was
counted in between, since rows it does not know stay as they are.

### The table, proved

`TableProofs` proves of `Spec` of `GameTable`, for any number of players,
matches, moves, failures and any size of the queue, from `TableAssumption` and
`NoneAssumption`:

| Theorem | States |
|---|---|
| `TableInductive` | `Spec => []TableInv`, the inductive invariant |
| `TableTypeOK` | `Spec => []TypeOK` |
| `LogsAreNumbered` | `Spec => []LogHasNoGaps` |
| `SnapshotsAreLogged` | `Spec => []SnapshotIsLogged` |
| `OneMatchIsPlayed` | `Spec => []AtMostOneMatchIsPlayed` |
| `OneClockPerTurn` | `Spec => []OneTurnClock` |
| `NoTableIsLeftOccupied` | `Spec => []OccupiedTableHasMatch` |
| `LiveSession` | `Spec => []SessionIsLive` |
| `RatedWasPlayedOut` | `Spec => []RatedIsPlayedOut` |

The server may end between any two writes of a job, so there are two kinds of
facts. `Core(w)` holds of the world after *every* operator of a job, and of every
state of the database in its trail; `Settled(w)` holds only when the job is done.
`Work` needs both, `Crash` the first. The parts:

```
Numbered   the log of a match is 1 .. n, and covers its snapshot
Rated      a rated match is closed; while no connection was lost, saved as over
Stored     of all matches; and one in progress that has a snapshot is the newest
           of those in progress: what a crash left half started is older
Backed     a session is of a match with a snapshot; what it counted is in the log
Spent      a session of a rated match is over, or its next number is taken
Ticks      what runs is what is registered, and not paused at the same time
Outrun     a callback on its way is of an earlier run of the timer, or the timer
           has fired
```

`Spent` is why a rating is backed although `aborted_rated` shows that a cancelled
match is played on: an old session that is still held by a callback may apply its
move, but the number of its event is taken by the one that went on without it,
and the unique index refuses the write. `Outrun` is why one clock runs though
fired timers cannot be taken back: a timer that is started again has a new run.
`CountersType` bounds the failures, and `Left` and `Fired` say what lost
connections and callbacks hold. Each operator of a job has one lemma; actions are
cases of their outcomes.

### The lobby

`ServicesProofs` proves `LobbyInvariant`, `OneSeatEachAlways`,
`ClosedStaysClosedAlways`, `TablesAreTended`, `NoDeadTablesEver`,
`AttemptsArePaid` and `FullOrOutrunAlways` of `LobbySpec`, for any number of
players, tables, seats, attempts and concurrent calls, from
`PeopleAssumption` and `LobbyAssumption`. What makes the first three short is how
little a call may rely on: `Sane` says that its table was opened at some time and
that the number of the seat it is about to take is one of the table. Everything
else a call has read may be stale, and the proof uses none of it; `OneSeatEach`
follows from the unique indexes and `ClosedStaysClosed` from the condition in
`switchStatus`.

`NoDeadTables` says that some call is at work; that this is not inductive is
plain, for the call might forget the table. `Tended` says what it is at work on
(`Works`): it has opened the table and not yet failed to sit down, or it is about
to close it. Each statement hands the table on (`Handed`): a failed join goes by
`Refuse` to `closeIfDeserted`, a seat read a moment too early is a seat taken, and
a stale row is deleted only at a closed table. It holds of tables in a match too,
since a player who opens a table of his own may leave one whose match has started
after his status was read.

`FullOrOutrun` counts: the attempts a call has lost are no more than the calls
that were answered since it began. That is not inductive, for one new row may
spoil what several statements have read. `Loss` says how many attempts a call is
about to lose by what it has read so far: a number that is taken by now, a player
who sits somewhere by now. The invariant is

```
Paid   for every call, the attempts it has lost and its Loss together are at
       most the calls answered since it began
```

Deleting a row makes nobody's loss greater (`FewerSeatsCostNothing`), and a new
row makes it greater by one at most, because the unique indexes leave a player
one seat and a seat one player (`OneSeatCostsOne`, from `OneSeatEach`); the call
that wrote it is answered in the same step, and pays for all the others
(`AnswersAreCounted`, `AnswerPays`). A lost attempt turns a loss into a try.

### Friends and notifications

`ServicesProofs` also proves `FriendsInvariant` and `FriendshipTakesTwoAlways` of
`FriendsSpec`, and `CallsAreSpacedAlways` of `NotificationsSpec`, for any number
of players, calls and devices. A call that has read a row it may accept keeps,
in `Known`, that the other one has asked: this stays true even if the row is
deleted and another one inserted before it writes, since `asked` is history.
For the calls the invariant is `Marked`: who was called and has not been at the
table since is marked with that call, or its silence has passed (`MarkedAlways`);
pruning throws away only marks that no longer silence.

### Only model-checked

*Outside the logic of the prover*: liveness and everything with ENABLED
(`TableIsCleared`, `WindowCloses`, `TrumpIsNamed`, `SilentTurnMovesOn`).
*Induction over data* is avoided: a loop of the code whose result matters to a
property is a sequence of steps in the model (`ReadRating`, `Replay`), not a
fold. Every other invariant and action property of the passing runs is proved.

## What is not modelled

- **Retransmitted commands** (`idempotency.go`), **writes that fail while the
  server lives on**, **two runtimes of one table**, a **slow client** whose
  subscription is closed, **stopping the sender** (`Sender.Stop` closes the
  queue while a table may still send): planned. The model already loses what was
  queued when a table is unloaded.
- **The clock as time.** A running timer may fire at any moment; how much was
  left at a pause makes no difference to the order of events.
- **Elo**: the expected score is floating-point arithmetic. Which matches a
  rating is made of, in which order and with which step, is in the model.
  **Seasons** only label the points of the history.
- **Lists, search, history, profile, statistics** (`rating.go`, `history.go`,
  `profile.go`, the handlers that serve them): they read the database and
  change nothing; the arithmetic of the statistics is sums over rows.
- **Codecs of commands and events**, the filter of private events: conversions
  without control.
- **Accounts, tickets, rate limit**: cryptography, parsing and a counter in
  front of the handlers.
- **Migrations, configuration, wiring**: start-up code.
- **The Java back end** is an earlier implementation kept for rollback, **the
  front end** a client that decides nothing.

## The plan

Done: the deal, its clock, its views and its snapshot; the match, scored, over
an abstract deal that the automaton implements; the table; the lobby, ratings,
friends and notifications; the safety of a deal, a match, its results, a table,
the lobby, the friends and the notifications proved, and the deal proved to keep
its promise, to survive a snapshot and to show nothing that is hidden.

The next module is **`MatchLifecycle`**, the abstract promise of a table
(waiting, playing, finished or cancelled once, rated only when finished), with
`GameTable` shown to implement it as far as the findings allow. After it come
retransmission and the window of remembered commands, failing writes, and the
registry with a second runtime.
