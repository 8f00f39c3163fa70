--------------------------------- MODULE Lobby ---------------------------------
(***************************************************************************)
(* The tables of the lobby and who sits at them.                           *)
(*                                                                         *)
(* A call is a sequence of statements on two database tables without a     *)
(* transaction around them: one action below is one statement and what the *)
(* service decides from its result.  The calls of the socket (join, leave, *)
(* ready, and the start and the end of a match) wait in the queue of their *)
(* table; those of the REST interface (create, close, current) run beside  *)
(* them, and a user may have several of them at once.                      *)
(***************************************************************************)
EXTENDS People

CONSTANTS
  TableIds,   \* bound: game_tables.id
  MaxPlayers, \* game_tables.max_players
  Attempts,   \* seatAttempts
  MaxCalls    \* bound: calls of a behaviour

ASSUME LobbyAssumption ==
  MaxPlayers \in 2..5 /\ Attempts \in Nat \ {0} /\ MaxCalls \in Nat /\ Nobody \notin TableIds

VARIABLES
  tables,   \* game_tables
  seats,    \* table_players
  calls,    \* the calls in progress
  begun     \* bound: how many calls have been made

lobbyVars == <<tables, seats, calls, begun>>

Queued == {"JOIN", "LEAVE", "READY", "START", "FINISH"}

NoTable == [status |-> "NONE", host |-> Nobody, left |-> FALSE]
NoCall  == [op |-> "NONE", user |-> Nobody, table |-> Nobody, at |-> "DONE", previous |-> Nobody,
            inMatch |-> FALSE, no |-> 0, tries |-> 0, since |-> 0, answer |-> "NONE"]

\* Nothing yet, or one open table with some players, ready, in the order they came.
Opened(t, host) == [i \in TableIds |-> IF i = t THEN [NoTable EXCEPT !.status = "WAITING", !.host = host]
                                       ELSE NoTable]

LobbyInit ==
  /\ \/ tables = [t \in TableIds |-> NoTable] /\ seats = {}
     \/ \E t \in TableIds, k \in 1..MaxPlayers : \E who \in [0..(k - 1) -> Users] :
          /\ \A i, j \in DOMAIN who : who[i] = who[j] => i = j
          /\ tables = Opened(t, who[0])
          /\ seats = {[table |-> t, user |-> who[i], no |-> i, ready |-> TRUE] : i \in DOMAIN who}
  /\ calls = [c \in Calls |-> NoCall]
  /\ begun = 0

-----------------------------------------------------------------------------
\* What the statements read.

SeatsAt(t)    == {r \in seats : r.table = t}
SeatAt(t, u)  == {r \in seats : r.table = t /\ r.user = u}
SeatOf(u)     == {r \in seats : r.user = u}
Status(t)     == tables[t].status
TakenNos(t)   == {r.no : r \in SeatsAt(t)}
FreeNos(t)    == (0..(MaxPlayers - 1)) \ TakenNos(t)

\* Fault: the number of seats taken, which is a free one only while nobody has left.
NextSeatByCount(t) ==
  IF FreeNos(t) = {} THEN -1 ELSE Cardinality(SeatsAt(t))

\* The least free number, -1 if there is none.
FirstFreeSeat(t) ==
  IF FreeNos(t) = {} THEN -1 ELSE CHOOSE n \in FreeNos(t) : \A m \in FreeNos(t) : n <= m

IsReadyToStart(t) == Cardinality(SeatsAt(t)) >= 2 /\ \A r \in SeatsAt(t) : r.ready

At(c, place)   == calls[c].at = place
GoTo(c, place) == calls' = [calls EXCEPT ![c].at = place]
Answer(c, a)   == calls' = [calls EXCEPT ![c] = [NoCall EXCEPT !.table = calls[c].table, !.answer = a]]

\* History: how many calls have been answered.
Busy     == {c \in Calls : calls[c].at # "DONE"}
Answered == begun - Cardinality(Busy)

KeepTables == UNCHANGED <<tables, begun>>
KeepSeats  == UNCHANGED <<seats, begun>>
OnlyRead   == UNCHANGED <<tables, seats, begun>>

-----------------------------------------------------------------------------
\* A call begins; history: since, how many had been answered by then.

First(op) ==
  CASE op \in {"CURRENT", "CREATE"} -> "SEAT_OF"
    [] op = "CLOSE"                 -> "CLOSE_TABLE"
    [] op = "JOIN"                  -> "JOIN_TABLE"
    [] op = "LEAVE"                 -> "LEAVE_TABLE"
    [] op = "READY"                 -> "SET_READY"
    [] op = "START"                 -> "START_SEATS"
    [] op = "FINISH"                -> "FINISH_SWITCH"

Begin(c, op, u, t) ==
  /\ At(c, "DONE") /\ begun < MaxCalls
  /\ op \in {"CREATE", "CURRENT"} \/ Status(t) # "NONE"
  /\ op \in Queued => \A o \in Calls : calls[o].op \in Queued => calls[o].table # t
  /\ op = "FINISH" => Status(t) = "IN_MATCH"
  /\ begun' = begun + 1
  /\ calls' = [calls EXCEPT ![c] = [NoCall EXCEPT !.op = op, !.user = u, !.at = First(op), !.since = Answered,
                                     !.table = IF op \in {"CREATE", "CURRENT"} THEN Nobody ELSE t]]
  /\ UNCHANGED <<tables, seats>>

-----------------------------------------------------------------------------
\* Where a player sits now: a row at a closed table is stale and is deleted on the spot.

\* Who asked goes on knowing that the player sits nowhere.  Without attempts left the table is
\* full, whatever it looks like.
SeatedNowhere(c) ==
  CASE calls[c].op = "CURRENT" -> Answer(c, "NOWHERE")
    [] calls[c].op = "CREATE" /\ calls[c].table = Nobody -> GoTo(c, "INSERT")
    [] OTHER -> GoTo(c, "SEATS")

ReadSeatOf(c) ==
  /\ At(c, "SEAT_OF")
  /\ IF SeatOf(calls[c].user) = {} THEN SeatedNowhere(c)
     ELSE \E row \in SeatOf(calls[c].user) :
            calls' = [calls EXCEPT ![c].at = "TABLE_OF", ![c].previous = row.table]
  /\ OnlyRead

\* Refused, and a table just created for nothing is taken away again.
Refuse(c, reason) ==
  IF calls[c].op = "CREATE" /\ calls[c].table # Nobody
  THEN calls' = [calls EXCEPT ![c].at = "DESERTED", ![c].previous = calls[c].table,
                              ![c].answer = reason]
  ELSE Answer(c, reason)

SeatedAt(c, t) ==
  CASE calls[c].op = "CURRENT" -> Answer(c, "SEATED")
    [] calls[c].op = "CREATE" /\ calls[c].table = Nobody ->
         IF Status(t) = "IN_MATCH" THEN Answer(c, "MATCH_IN_PROGRESS") ELSE GoTo(c, "LEAVE_TABLE")
    [] OTHER -> IF t = calls[c].table THEN GoTo(c, "SEATS") ELSE Refuse(c, "ALREADY_AT_TABLE")

ReadTableOf(c) ==
  /\ At(c, "TABLE_OF")
  /\ IF Status(calls[c].previous) = "CLOSED" THEN GoTo(c, "UNSEAT") ELSE SeatedAt(c, calls[c].previous)
  /\ OnlyRead

Unseat(c) ==
  /\ At(c, "UNSEAT")
  /\ seats' = seats \ SeatAt(calls[c].previous, calls[c].user)
  /\ SeatedNowhere(c)
  /\ KeepTables

-----------------------------------------------------------------------------
\* Leave, of a player or before he opens a table of his own.

Leaves(c) == IF calls[c].op = "CREATE" THEN calls[c].previous ELSE calls[c].table

LeaveTable(c) ==
  /\ At(c, "LEAVE_TABLE")
  /\ calls' = [calls EXCEPT ![c].at = "LEAVE_SEAT", ![c].inMatch = Status(Leaves(c)) = "IN_MATCH"]
  /\ OnlyRead

HasLeft(c) == IF calls[c].op = "CREATE" THEN GoTo(c, "DESERTED") ELSE Answer(c, "OK")

LeaveSeat(c) ==
  /\ At(c, "LEAVE_SEAT")
  /\ CASE SeatAt(Leaves(c), calls[c].user) = {} -> HasLeft(c)
       [] SeatAt(Leaves(c), calls[c].user) # {} /\ calls[c].inMatch -> Answer(c, "MATCH_IN_PROGRESS")
       [] OTHER -> GoTo(c, "LEAVE_DELETE")
  /\ OnlyRead

\* left: who went last went by a command, which closes nothing.
LeaveDelete(c) ==
  /\ At(c, "LEAVE_DELETE")
  /\ seats' = seats \ SeatAt(Leaves(c), calls[c].user)
  /\ tables' = [tables EXCEPT ![Leaves(c)].left = calls[c].op = "LEAVE"]
  /\ HasLeft(c)
  /\ UNCHANGED begun

\* The table a player left for one of his own, or could not take a seat at, is closed if it is
\* empty.
NextAfterClosing(c) ==
  IF calls[c].table = Nobody THEN GoTo(c, "INSERT") ELSE Answer(c, calls[c].answer)

\* Fault: an empty table is closed before the new one is opened, not after a failed join.
CloseOnlyThePrevious(c) ==
  /\ At(c, "DESERTED")
  /\ IF SeatsAt(calls[c].previous) # {} \/ calls[c].table # Nobody
     THEN NextAfterClosing(c) ELSE GoTo(c, "CLOSE_DESERTED")
  /\ OnlyRead

CloseIfDeserted(c) ==
  /\ At(c, "DESERTED")
  /\ IF SeatsAt(calls[c].previous) # {} THEN NextAfterClosing(c) ELSE GoTo(c, "CLOSE_DESERTED")
  /\ OnlyRead

CloseDeserted(c) ==
  /\ At(c, "CLOSE_DESERTED")
  /\ tables' = [tables EXCEPT ![calls[c].previous].status = "CLOSED"]
  /\ NextAfterClosing(c)
  /\ KeepSeats

-----------------------------------------------------------------------------
\* A new table, and its host sits down at it.
Insert(c, t) ==
  /\ At(c, "INSERT") /\ Status(t) = "NONE"
  /\ tables' = [tables EXCEPT ![t] = [NoTable EXCEPT !.status = "WAITING", !.host = calls[c].user]]
  /\ calls' = [calls EXCEPT ![c].at = "JOIN_TABLE", ![c].table = t]
  /\ KeepSeats

JoinTable(c) ==
  /\ At(c, "JOIN_TABLE")
  /\ IF Status(calls[c].table) = "WAITING" THEN GoTo(c, "JOIN_SEAT") ELSE Refuse(c, "TABLE_NOT_OPEN")
  /\ OnlyRead

JoinSeat(c) ==
  /\ At(c, "JOIN_SEAT")
  /\ IF SeatAt(calls[c].table, calls[c].user) # {} THEN Answer(c, "OK") ELSE GoTo(c, "SEAT_OF")
  /\ OnlyRead

ReadSeats(c) ==
  /\ At(c, "SEATS")
  /\ IF FirstFreeSeat(calls[c].table) = -1 \/ calls[c].tries = Attempts
     THEN Refuse(c, "TABLE_FULL")
     ELSE calls' = [calls EXCEPT ![c].at = "TAKE", ![c].no = FirstFreeSeat(calls[c].table)]
  /\ OnlyRead

\* Fault: before migration V9 a player might have sat at many tables.
SeatConflictBeforeV9(t, u, no) ==
  CASE SeatAt(t, u) # {}      -> "ALREADY_SEATED"
    [] no \in TakenNos(t)     -> "SEAT_TAKEN"
    [] OTHER                  -> "NONE"

\* Which unique index the row violates, in the order the indexes were made.
SeatConflict(t, u, no) ==
  CASE SeatAt(t, u) # {}                                              -> "ALREADY_SEATED"
    [] SeatAt(t, u) = {} /\ no \in TakenNos(t)                        -> "SEAT_TAKEN"
    [] SeatAt(t, u) = {} /\ no \notin TakenNos(t) /\ SeatOf(u) # {}   -> "SEATED_ELSEWHERE"
    [] OTHER                                                          -> "NONE"

InsertSeat(c) ==
  /\ At(c, "TAKE")
  /\ SeatConflict(calls[c].table, calls[c].user, calls[c].no) = "NONE"
  /\ seats' = seats \cup {[table |-> calls[c].table, user |-> calls[c].user, no |-> calls[c].no,
                           ready |-> FALSE]}
  /\ Answer(c, "OK")
  /\ KeepTables

\* The seat was taken in between, the same player sat down by another call, or at another table.
SeatLost(c) ==
  /\ At(c, "TAKE")
  /\ LET conflict == SeatConflict(calls[c].table, calls[c].user, calls[c].no)
     IN /\ conflict # "NONE"
        /\ calls' = [calls EXCEPT ![c].tries = @ + 1,
                       ![c].at = CASE conflict = "SEAT_TAKEN"     -> "SEATS"
                                   [] conflict = "ALREADY_SEATED" -> "SEAT_AGAIN"
                                   [] OTHER                       -> "SEAT_OF"]
  /\ OnlyRead

SeatAgain(c) ==
  /\ At(c, "SEAT_AGAIN")
  /\ IF SeatAt(calls[c].table, calls[c].user) # {} THEN Answer(c, "OK") ELSE Refuse(c, "NOT_FOUND")
  /\ OnlyRead

-----------------------------------------------------------------------------
\* Ready, and the match.
SetReady(c) ==
  /\ At(c, "SET_READY")
  /\ LET mine == SeatAt(calls[c].table, calls[c].user)
     IN /\ \E ready \in BOOLEAN :
             seats' = (seats \ mine) \cup {[r EXCEPT !.ready = ready] : r \in mine}
        /\ Answer(c, IF mine = {} THEN "NOT_AT_TABLE" ELSE "OK")
  /\ KeepTables

StartSeats(c) ==
  /\ At(c, "START_SEATS")
  /\ IF IsReadyToStart(calls[c].table) THEN GoTo(c, "START_SWITCH") ELSE Answer(c, "TABLE_NOT_READY")
  /\ OnlyRead

\* Fault: a table is put into a match whatever its status.
StartFrom(status) == TRUE

\* Only a table that waits is put into a match.
SwitchesToMatch(status) == status = "WAITING"

StartSwitch(c) ==
  /\ At(c, "START_SWITCH")
  /\ IF SwitchesToMatch(Status(calls[c].table))
     THEN /\ tables' = [tables EXCEPT ![calls[c].table].status = "IN_MATCH"]
          /\ Answer(c, "OK")
     ELSE Answer(c, "MATCH_IN_PROGRESS") /\ UNCHANGED tables
  /\ KeepSeats

\* Back into the lobby, and then nobody is ready any more.
FinishSwitch(c) ==
  /\ At(c, "FINISH_SWITCH")
  /\ IF Status(calls[c].table) = "IN_MATCH"
     THEN /\ tables' = [tables EXCEPT ![calls[c].table].status = "WAITING"]
          /\ GoTo(c, "FINISH_RESET")
     ELSE Answer(c, "OK") /\ UNCHANGED tables
  /\ KeepSeats

FinishReset(c) ==
  /\ At(c, "FINISH_RESET")
  /\ seats' = {IF r.table = calls[c].table THEN [r EXCEPT !.ready = FALSE] ELSE r : r \in seats}
  /\ Answer(c, "OK")
  /\ KeepTables

-----------------------------------------------------------------------------
\* Closed by its host.  The seats stay.
CloseTable(c) ==
  /\ At(c, "CLOSE_TABLE")
  /\ CASE tables[calls[c].table].host # calls[c].user -> Answer(c, "NOT_TABLE_HOST")
       [] tables[calls[c].table].host = calls[c].user /\ Status(calls[c].table) = "IN_MATCH" ->
            Answer(c, "MATCH_IN_PROGRESS")
       [] OTHER -> GoTo(c, "CLOSE")
  /\ OnlyRead

Close(c) ==
  /\ At(c, "CLOSE")
  /\ tables' = [tables EXCEPT ![calls[c].table].status = "CLOSED"]
  /\ Answer(c, "OK")
  /\ KeepSeats

-----------------------------------------------------------------------------
Statement(c) ==
  \/ ReadSeatOf(c) \/ ReadTableOf(c) \/ Unseat(c)
  \/ LeaveTable(c) \/ LeaveSeat(c) \/ LeaveDelete(c) \/ CloseIfDeserted(c) \/ CloseDeserted(c)
  \/ \E t \in TableIds : Insert(c, t)
  \/ JoinTable(c) \/ JoinSeat(c) \/ ReadSeats(c) \/ InsertSeat(c) \/ SeatLost(c) \/ SeatAgain(c)
  \/ SetReady(c) \/ StartSeats(c) \/ StartSwitch(c) \/ FinishSwitch(c) \/ FinishReset(c)
  \/ CloseTable(c) \/ Close(c)

LobbyNext ==
  \E c \in Calls :
    \/ Statement(c)
    \/ \E u \in Users, t \in TableIds, op \in Queued \cup {"CREATE", "CURRENT", "CLOSE"} :
         Begin(c, op, u, t)

LobbySpec == LobbyInit /\ [][LobbyNext]_lobbyVars

-----------------------------------------------------------------------------
(***************************************************************************)
(* Nobody sits at two tables and nobody on another's seat, however the     *)
(* checks of two calls interleave: each check may be stale when the row is *)
(* written (InsertSeat, ux_table_players_user).                            *)
(***************************************************************************)
OneSeatEach ==
  /\ \A r \in seats : r.no \in 0..(MaxPlayers - 1) /\ Status(r.table) # "NONE"
  /\ \A r, s \in seats : r # s => r.user # s.user /\ (r.table = s.table => r.no # s.no)

(***************************************************************************)
(* Who is told that a table is full found no free seat there, or lost      *)
(* as many attempts as he had while that many other calls were answered    *)
(* (Join, seatAttempts): lobby.go:355 answers ErrTableFull then although   *)
(* there may be free seats.  What a call has read costs it an attempt only *)
(* if somebody has sat down since, and nobody takes two attempts from it   *)
(* by sitting down once.                                                   *)
(***************************************************************************)
FullOrOutrun ==
  [][\A c \in Calls :
       calls'[c].answer = "TABLE_FULL" /\ calls[c].answer # "TABLE_FULL" =>
         \/ FreeNos(calls[c].table) = {}
         \/ Answered - calls[c].since >= Attempts]_lobbyVars

(***************************************************************************)
(* An open table at which nobody sits is being worked on, or its last      *)
(* player got up by a command: one that was left for another table, or     *)
(* opened by a call whose host could not sit down, is closed               *)
(* (closeIfDeserted).                                                      *)
(***************************************************************************)
NoDeadTables ==
  \A t \in TableIds :
    Status(t) = "WAITING" /\ SeatsAt(t) = {} /\ ~tables[t].left =>
      \E c \in Calls : calls[c].at # "DONE" /\ t \in {calls[c].table, calls[c].previous}

(***************************************************************************)
(* A closed table stays closed: the seats were counted before the host     *)
(* closed it, and the match must not start on it (switchStatus).           *)
(***************************************************************************)
ClosedStaysClosed ==
  [][\A t \in TableIds : Status(t) = "CLOSED" => tables'[t].status = "CLOSED"]_lobbyVars
=============================================================================
