-------------------------------- MODULE Ratings --------------------------------
(***************************************************************************)
(* What a finished match leaves behind: places, a point of the history of  *)
(* the rating for each player, and his rating.                             *)
(*                                                                         *)
(* A match is counted by one of three: the table it was played at, a       *)
(* player who enters a match played at a real table, and the import of the *)
(* old games.  All of them read the ratings statement by statement and     *)
(* write in one transaction at the end.  recompute-rating reads everything *)
(* that was counted and writes it anew, beside the running server.         *)
(*                                                                         *)
(* A rating is known here by the matches it is made of, each with the step *)
(* it was counted with; how many points they are worth is arithmetic.      *)
(***************************************************************************)
EXTENDS Scoring, People

CONSTANTS
  MatchIds,         \* bound: matches.id, in the order of the database
  LineUps,          \* bound: who may have played, seat by seat
  Endings,          \* bound: how a match may have ended, seat by seat
  NewcomerMatches,  \* newcomerMatches
  MaxJobs           \* bound: countings and recomputations of a behaviour

\* Nobody plays on two seats; the ranks of a scale ascend, and are those of the full one.
ASSUME RatingsAssumption ==
  /\ MatchIds \subseteq Nat /\ IsFiniteSet(MatchIds) /\ NewcomerMatches \in Nat /\ MaxJobs \in Nat
  /\ \A l \in LineUps : /\ l \in Seq(Users) /\ Len(l) \in 2..8
                        /\ \A i, j \in DOMAIN l : l[i] = l[j] => i = j
  /\ Endings \subseteq Seq([level : Levels, degree : Degrees])
  /\ \A i, j \in DOMAIN ScaleRanks : i < j => ScaleRanks[i] < ScaleRanks[j]
  /\ \A i \in DOMAIN ScaleRanks : ScaleRanks[i] \in 0..8

VARIABLES
  games,     \* what was played, fixed from the start: before everything else or today
  status,    \* matches.status
  outcomes,  \* match_players, the rows with a place
  history,   \* rating_history
  standing,  \* user_rating
  jobs,      \* countings in progress
  recount,   \* the recomputation in progress
  done       \* bound: countings and recomputations begun

ratingVars == <<games, status, outcomes, history, standing, jobs, recount, done>>

-----------------------------------------------------------------------------
\* The scale of damage, in halves.

DamageByDegree(degree) ==
  CASE degree = "NONE"            -> 20
    [] degree = "FAIL"            -> 22
    [] degree = "SUPER_FAIL"      -> 25
    [] degree = "SUPER_MEGA_FAIL" -> 28
    [] degree = "SUPER_MEGA_SUCK" -> 32
    [] degree = "ROYAL"           -> 36

\* By the rank of the card, not by its place on the scale of the table.
DamageOf(level, degree) ==
  IF level = NoNaves THEN 0
  ELSE IF IsFinished(level) THEN DamageByDegree(degree)
  ELSE 2 * (ScaleRanks[level + 1] + 1)

\* The level as it is written down: the rank, or the joker.
NoCode    == -1
JokerCode == 9
Encoded(level) ==
  IF level = NoNaves THEN NoCode ELSE IF IsFinished(level) THEN JokerCode ELSE ScaleRanks[level + 1]

\* Fault: what was written is taken for an index into the scale.
DamageOfIndex(code, degree) == IF code = JokerCode THEN DamageByDegree(degree) ELSE DamageOf(code, degree)

\* The damage of what was written.
DamageWritten(code, degree) ==
  IF code = NoCode THEN 0 ELSE IF code = JokerCode THEN DamageByDegree(degree) ELSE 2 * (code + 1)

\* Places count those who did better; equals are placed in the order of their seats.
Ranked(seatNos, Better(_, _)) ==
  [i \in seatNos |-> 1 + Cardinality({j \in seatNos : Better(j, i) \/ (~Better(i, j) /\ j < i)})]

\* A match of the table: the lower level, then the lighter degree.
PlacesOf(ending) ==
  Ranked(DOMAIN ending,
         LAMBDA i, j : \/ ending[i].level < ending[j].level
                       \/ /\ ending[i].level = ending[j].level
                          /\ Weight(ending[i].degree) > Weight(ending[j].degree))

\* A match that was entered or imported: the damage.
PlacesByDamage(ending) ==
  Ranked(DOMAIN ending,
         LAMBDA i, j : DamageOf(ending[i].level, ending[i].degree) < DamageOf(ending[j].level, ending[j].degree))

\* The heaviest degree anybody has; the first of equals.
HeaviestLoser(ending) ==
  LET losers == {i \in DOMAIN ending : ending[i].degree # "NONE"}
      heavier(i, j) == Weight(ending[i].degree) < Weight(ending[j].degree)
  IN IF losers = {} THEN 0
     ELSE CHOOSE i \in losers : \A j \in losers : heavier(i, j) \/ (~heavier(j, i) /\ i <= j)

-----------------------------------------------------------------------------
\* The formula.  A newcomer's step is larger.
StepFor(s)        == IF s.played < NewcomerMatches THEN "NEWCOMER" ELSE "REGULAR"
Recalculate(s, m) == Append(s.rating, [match |-> m, step |-> StepFor(s)])

NotPlayed == [rating |-> << >>, played |-> 0]

\* A match at the table ends with a loser, and a joker without a degree is seen at real tables
\* only.
PlayedOnline(ending) ==
  /\ \A i \in DOMAIN ending : IsFinished(ending[i].level) <=> ending[i].degree # "NONE"
  /\ HeaviestLoser(ending) # 0

NoJob == [kind |-> "NONE", match |-> 0, read |-> << >>]

\* What a recomputation has loaded, the matches it has yet to replay, the rows and the ratings it
\* has made anew; whether a counting was written meanwhile, and whether the last recomputation
\* that was written lost one in this way.
NoRecount == [running |-> FALSE, loaded |-> {}, left |-> {}, rows |-> {},
              standing |-> [u \in Users |-> NotPlayed], overtaken |-> FALSE, lost |-> FALSE]

RatingsInit ==
  /\ games \in [MatchIds -> {g \in [kind : {"ONLINE", "OFFLINE", "IMPORT"}, seats : LineUps,
                                     ending : Endings, when : {0, 1}] :
                               /\ Len(g.seats) = Len(g.ending)
                               /\ g.kind = "ONLINE" => PlayedOnline(g.ending) /\ g.when = 1}]
  /\ status = [m \in MatchIds |-> IF games[m].kind = "ONLINE" THEN "IN_PROGRESS" ELSE "NONE"]
  /\ outcomes = {} /\ history = {}
  /\ standing = [u \in Users |-> NotPlayed]
  /\ jobs = [j \in Calls |-> NoJob]
  /\ recount = NoRecount
  /\ done = 0

-----------------------------------------------------------------------------
\* A match is counted.

Counted(m) == \E row \in history : row.match = m

\* FinishMatch asks the history, the import the matches; who enters a match gives it a new id.
Wanted(m) ==
  CASE games[m].kind = "ONLINE"  -> ~Counted(m)
    [] games[m].kind = "OFFLINE" -> status[m] = "NONE" /\ \A j \in Calls : jobs[j].match # m
    [] games[m].kind = "IMPORT"  -> status[m] = "NONE"

BeginCount(j, m) ==
  /\ jobs[j].kind = "NONE" /\ done < MaxJobs /\ Wanted(m)
  /\ jobs' = [jobs EXCEPT ![j] = [kind |-> games[m].kind, match |-> m, read |-> << >>]]
  /\ done' = done + 1
  /\ UNCHANGED <<games, status, outcomes, history, standing, recount>>

\* One after the other, in the order of the seats.
ReadRating(j) ==
  /\ jobs[j].kind # "NONE"
  /\ LET seats == games[jobs[j].match].seats
         n     == Len(jobs[j].read)
     IN /\ n < Len(seats)
        /\ jobs' = [jobs EXCEPT ![j].read = Append(@, standing[seats[n + 1]])]
  /\ UNCHANGED <<games, status, outcomes, history, standing, recount, done>>

Placed(g) == IF g.kind = "ONLINE" THEN PlacesOf(g.ending) ELSE PlacesByDamage(g.ending)

\* The rows of a counting: what was read stands for the rating before it.
RowsOf(job) ==
  LET g      == games[job.match]
      places == Placed(g)
  IN {[match |-> job.match, user |-> g.seats[i], seat |-> i, code |-> Encoded(g.ending[i].level),
       loss |-> g.ending[i].degree, place |-> places[i], before |-> job.read[i].rating,
       after |-> Recalculate(job.read[i], job.match)] : i \in DOMAIN g.seats}

HistoryOf(rows) ==
  {[match |-> r.match, user |-> r.user, before |-> r.before, after |-> r.after, place |-> r.place] : r \in rows}

\* The points of the history that are new.
NewPoints(rows) == {r \in rows : ~\E h \in history : h.match = r.match /\ h.user = r.user}

\* Fault: the rating moves whether or not the point of the history is new.
MovesAnyway(rows) == rows

\* Who has such a point already keeps his rating.
Moves(rows) == NewPoints(rows)

\* One transaction: places, history, ratings, and the end of the match.  The count of matches is
\* added to, the rating replaced.
WriteCount(j) ==
  /\ jobs[j].kind # "NONE" /\ Len(jobs[j].read) = Len(games[jobs[j].match].seats)
  /\ jobs[j].kind = "ONLINE" \/ status[jobs[j].match] = "NONE"
  /\ LET rows  == RowsOf(jobs[j])
         moved == Moves(rows)
     IN /\ outcomes' = {o \in outcomes : ~\E r \in rows : r.match = o.match /\ r.user = o.user} \cup rows
        /\ history' = history \cup HistoryOf(NewPoints(rows))
        /\ standing' = [u \in Users |->
             IF \E r \in moved : r.user = u
             THEN [rating |-> (CHOOSE r \in moved : r.user = u).after, played |-> standing[u].played + 1]
             ELSE standing[u]]
        /\ recount' = [recount EXCEPT !.overtaken = @ \/ recount.running]
  /\ status' = [status EXCEPT ![jobs[j].match] = "FINISHED"]
  /\ jobs' = [jobs EXCEPT ![j] = NoJob]
  /\ UNCHANGED <<games, done>>

\* A statement fails, or the id of the match is taken: nothing is written.
FailCount(j) ==
  /\ jobs[j].kind # "NONE"
  /\ jobs' = [jobs EXCEPT ![j] = NoJob]
  /\ UNCHANGED <<games, status, outcomes, history, standing, recount, done>>

\* Even a match that was counted may be cancelled afterwards.
Abort(m) ==
  /\ games[m].kind = "ONLINE" /\ status[m] # "ABORTED"
  /\ status' = [status EXCEPT ![m] = "ABORTED"]
  /\ UNCHANGED <<games, outcomes, history, standing, jobs, recount, done>>

-----------------------------------------------------------------------------
\* Recomputation.

\* A match counts if the history says so, whatever its status.
Recounted(m) == Counted(m)

\* By the time they ended.
Earlier(m, n) == games[m].when < games[n].when \/ (games[m].when = games[n].when /\ m < n)

Load ==
  /\ ~recount.running /\ done < MaxJobs
  /\ LET loaded == {o \in outcomes : Recounted(o.match)}
     IN recount' = [NoRecount EXCEPT !.running = TRUE, !.loaded = loaded,
                      !.left = {o.match : o \in loaded}, !.lost = recount.lost]
  /\ done' = done + 1
  /\ UNCHANGED <<games, status, outcomes, history, standing, jobs>>

\* The places of a match once more, from what was written about it.
PlacesAnew(rows) ==
  LET row(i) == CHOOSE r \in rows : r.seat = i
      damage(i) == DamageWritten(row(i).code, row(i).loss)
  IN Ranked({r.seat : r \in rows}, LAMBDA i, j : damage(i) < damage(j))

\* The earliest match that is left, in memory and in a transaction nobody else sees.
Replay(m) ==
  /\ recount.running /\ m \in recount.left
  /\ \A n \in recount.left : n = m \/ Earlier(m, n)
  /\ LET rows    == {o \in recount.loaded : o.match = m}
         places  == PlacesAnew(rows)
         now     == recount.standing
         next(u) == Recalculate(now[u], m)
     IN recount' = [recount EXCEPT
          !.left = @ \ {m},
          !.rows = @ \cup {[r EXCEPT !.before = now[r.user].rating, !.after = next(r.user),
                                     !.place = places[r.seat]] : r \in rows},
          !.standing = [u \in Users |-> IF \E r \in rows : r.user = u
                                        THEN [rating |-> next(u), played |-> now[u].played + 1]
                                        ELSE now[u]]]
  /\ UNCHANGED <<games, status, outcomes, history, standing, jobs, done>>

\* The ratings, and the end of the transaction.
Rewrite ==
  /\ recount.running /\ recount.left = {}
  /\ LET same(r, s)   == r.match = s.match /\ r.user = s.user
         known(s)     == \E r \in recount.rows : same(r, s)
         rewritten(s) == CHOOSE r \in recount.rows : same(r, s)
     IN /\ outcomes' = {IF known(o) THEN rewritten(o) ELSE o : o \in outcomes}
        /\ history' = {IF known(h)
                       THEN [h EXCEPT !.before = rewritten(h).before, !.after = rewritten(h).after,
                                      !.place = rewritten(h).place]
                       ELSE h : h \in history}
  /\ standing' = [u \in Users |-> IF recount.standing[u].played = 0 THEN standing[u]
                                  ELSE recount.standing[u]]
  /\ recount' = [NoRecount EXCEPT !.lost = recount.overtaken]
  /\ UNCHANGED <<games, status, jobs, done>>

\* A statement fails, or it was a dry run: the transaction is rolled back.
FailRecount ==
  /\ recount.running
  /\ recount' = [NoRecount EXCEPT !.lost = recount.lost]
  /\ UNCHANGED <<games, status, outcomes, history, standing, jobs, done>>

RatingsNext ==
  \/ \E j \in Calls : \/ \E m \in MatchIds : BeginCount(j, m)
                      \/ ReadRating(j) \/ WriteCount(j) \/ FailCount(j)
  \/ \E m \in MatchIds : Abort(m) \/ Replay(m)
  \/ Load \/ Rewrite \/ FailRecount

RatingsSpec == RatingsInit /\ [][RatingsNext]_ratingVars

-----------------------------------------------------------------------------
(***************************************************************************)
(* A match is counted for a player once, however often it is delivered:    *)
(* his rating holds no match twice, none he has no point for, and is the   *)
(* one after a match of his; the number of matches by which the formula    *)
(* chooses the step is that of his history (writeRating, recompute).  Only *)
(* a recomputation that was overtaken by a counting loses it from this     *)
(* number, until the next one finds it again.                              *)
(***************************************************************************)
CountedOnce ==
  \A u \in Users :
    LET mine == {h \in history : h.user = u}
        made == standing[u].rating
    IN /\ \A i, j \in DOMAIN made : made[i].match = made[j].match => i = j
       /\ {made[i].match : i \in DOMAIN made} \subseteq {h.match : h \in mine}
       /\ mine # {} => \E h \in mine : h.after = made
       /\ ~recount.lost => standing[u].played = Cardinality(mine)

(***************************************************************************)
(* A recomputation changes ratings and nothing else: it finds every match  *)
(* that was counted, whatever has become of it, and gives its players the  *)
(* places they were given then, though it knows no more of the match than  *)
(* the rank that was written down (load, damageOf).                        *)
(***************************************************************************)
RecountKeepsPlaces ==
  [][recount.running /\ ~recount'.running =>
       /\ {[match |-> o.match, user |-> o.user, place |-> o.place] : o \in outcomes}
          = {[match |-> o.match, user |-> o.user, place |-> o.place] : o \in outcomes'}
       /\ ~recount.lost /\ ~recount'.lost => \A u \in Users : standing'[u].played = standing[u].played]_ratingVars
=============================================================================
