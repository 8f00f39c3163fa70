------------------------------ MODULE TurnClock ------------------------------
(***************************************************************************)
(* The clocks of one table: the clock of the turn, which is paused while a *)
(* player is away, and the wait for the one who is away.                   *)
(*                                                                         *)
(* The program registers a timer in a map and lets it run.  Stopping a     *)
(* timer that has just fired has no effect: its callback is already on its *)
(* way.  So a clock has what is registered ("pending", "paused", "abort")  *)
(* and, apart from it, the timers that really run.  How much time is left  *)
(* is not counted: a running timer may fire at any moment.                 *)
(***************************************************************************)
EXTENDS Integers, FiniteSets

CONSTANT None   \* no timer

Stopped == [pending |-> None, paused |-> None, ticking |-> {},
            abort |-> None, waiting |-> {}]

-----------------------------------------------------------------------------
\* The clock of the turn.  A timer has a number "run": started anew it is another timer.

Schedule(c, t) == [c EXCEPT !.pending = t, !.ticking = @ \cup {t}]

Cancel(c) == [c EXCEPT !.ticking = @ \ {c.pending}, !.pending = None, !.paused = None]

Start(c, t) == Schedule(Cancel(c), t)

Pause(c) ==
  IF c.pending = None THEN c
  ELSE [c EXCEPT !.ticking = @ \ {c.pending}, !.paused = c.pending, !.pending = None]

\* Fault: the pause is remembered after it has ended.
ResumeAgain(c) ==
  IF c.paused = None THEN c
  ELSE Schedule([c EXCEPT !.paused.run = @ + 1], [c.paused EXCEPT !.run = @ + 1])

Resume(c) ==
  IF c.paused = None THEN c
  ELSE Schedule([c EXCEPT !.paused = None], [c.paused EXCEPT !.run = @ + 1])

\* The timer fires; its callback removes it from the map only if it is still the one there.
Fire(c, t)   == [c EXCEPT !.ticking = @ \ {t}]
Forget(c, t) == [c EXCEPT !.pending = IF @ = t THEN None ELSE @]

-----------------------------------------------------------------------------
\* The wait for the one who is away: one timer per table, a new one replaces it.

CancelAbort(c) == [c EXCEPT !.waiting = @ \ {c.abort}, !.abort = None]

ScheduleAbort(c, a) ==
  LET off == CancelAbort(c) IN [off EXCEPT !.abort = a, !.waiting = @ \cup {a}]

\* Here the callback removes whatever is in the map.
FireAbort(c, a) == [c EXCEPT !.waiting = @ \ {a}]
ForgetAbort(c)  == [c EXCEPT !.abort = None]
=============================================================================
