----------------------------- MODULE ServicesProofs -----------------------------
(***************************************************************************)
(* The services around the match, for any number of players, tables,       *)
(* devices and calls in progress.                                          *)
(*                                                                         *)
(* The lobby: nobody sits at two tables, a closed table stays closed and   *)
(* no table stands deserted.  A call is sane if it knows what its next     *)
(* statement relies on; as every check may be stale by then, this is       *)
(* little: that its table was opened at some time, and that the number of  *)
(* the seat is one of the table.  Who is told that a table is full saw it  *)
(* full, or lost his attempts to calls that were answered meanwhile.       *)
(*                                                                         *)
(* Friends and notifications: friendship takes two, and calls to the table *)
(* are spaced.                                                             *)
(***************************************************************************)
EXTENDS Lobby, Friends, TLAPS, FiniteSetTheorems

\* The types of the rows and of the calls.
TableType == [status : {"NONE", "WAITING", "IN_MATCH", "CLOSED"}, host : Users \cup {Nobody}, left : BOOLEAN]

SeatType == [table : TableIds, user : Users, no : Int, ready : BOOLEAN]

\* The statements a call may come to before it has a table.
Homeless ==
  {"SEAT_OF", "TABLE_OF", "UNSEAT", "LEAVE_TABLE", "LEAVE_SEAT", "LEAVE_DELETE", "DESERTED",
   "CLOSE_DESERTED", "INSERT"}

Places ==
  Homeless \cup {"DONE", "JOIN_TABLE", "JOIN_SEAT", "SEATS", "TAKE", "SEAT_AGAIN", "SET_READY",
                 "START_SEATS", "START_SWITCH", "FINISH_SWITCH", "FINISH_RESET", "CLOSE_TABLE", "CLOSE"}

Answers ==
  {"NONE", "OK", "NOWHERE", "SEATED", "MATCH_IN_PROGRESS", "ALREADY_AT_TABLE", "TABLE_NOT_OPEN",
   "TABLE_FULL", "NOT_FOUND", "NOT_AT_TABLE", "TABLE_NOT_READY", "NOT_TABLE_HOST"}

Ops == Queued \cup {"NONE", "CREATE", "CURRENT", "CLOSE"}

CallType ==
  [op : Ops, user : Users \cup {Nobody}, table : TableIds \cup {Nobody}, at : Places,
   previous : TableIds \cup {Nobody}, inMatch : BOOLEAN, no : Int,
   tries : Int, since : Int, answer : Answers]

\* What a call relies on.
Sane(r) ==
  /\ r.table # Nobody => Status(r.table) # "NONE"
  /\ r.at # "DONE" => r.user \in Users
  /\ r.at # "DONE" /\ r.table = Nobody => r.op \in {"CREATE", "CURRENT"} /\ r.at \in Homeless
  /\ r.at = "TAKE" => r.no \in 0..(MaxPlayers - 1)

CallsSane == calls \in [Calls -> CallType] /\ \A c \in Calls : Sane(calls[c])

\* The inductive invariant of seats and calls.
LobbyInv ==
  /\ tables \in [TableIds -> TableType]
  /\ seats \in SUBSET SeatType
  /\ OneSeatEach
  /\ CallsSane
  /\ begun \in Nat

\* No table is forgotten, and none that was closed is opened again.
TablesKept ==
  /\ tables' \in [TableIds -> TableType]
  /\ \A t \in TableIds : /\ tables[t].status # "NONE" => tables'[t].status # "NONE"
                         /\ tables[t].status = "CLOSED" => tables'[t].status = "CLOSED"

-----------------------------------------------------------------------------
\* The tables.

\* One field of one table is changed, and neither a closed table's status nor to "NONE".
LEMMA StatusKept ==
  ASSUME LobbyInv, NEW t \in TableIds, NEW status \in {"WAITING", "IN_MATCH", "CLOSED"},
         tables[t].status = "CLOSED" => status = "CLOSED",
         tables' = [tables EXCEPT ![t].status = status]
  PROVE  TablesKept
<1> DEFINE table == [tables[t] EXCEPT !.status = status]
<1>1. table \in TableType /\ table.status = status
  BY DEF LobbyInv, TableType
<1>2. tables' = [tables EXCEPT ![t] = table]
  OBVIOUS
<1> HIDE DEF table
<1>3. /\ tables' \in [TableIds -> TableType]
      /\ \A u \in TableIds : tables'[u] = IF u = t THEN table ELSE tables[u]
  BY <1>1, <1>2 DEF LobbyInv
<1> QED
  BY <1>1, <1>3 DEF TablesKept

\* No statement forgets a table or opens one that was closed.
LEMMA StatementKeepsTables ==
  ASSUME LobbyInv, NEW c \in Calls, Statement(c)
  PROVE  TablesKept
<1>0. calls[c] \in CallType /\ Sane(calls[c])
  BY DEF LobbyInv, CallsSane
<1>1. CASE UNCHANGED tables
  BY <1>1 DEF LobbyInv, TablesKept
<1>2. CASE LeaveDelete(c)
  <2> DEFINE t == Leaves(c)
             table == [tables[t] EXCEPT !.left = (calls[c].op = "LEAVE")]
  <2>1. tables' = [tables EXCEPT ![t] = table]
    BY <1>2 DEF LeaveDelete
  <2>2. t \in TableIds => table \in TableType /\ table.status = tables[t].status
    BY DEF LobbyInv, TableType
  <2> HIDE DEF t, table
  <2>3. /\ tables' \in [TableIds -> TableType]
        /\ \A u \in TableIds : tables'[u] = IF u = t THEN table ELSE tables[u]
    BY <2>1, <2>2 DEF LobbyInv
  <2> QED
    BY <2>2, <2>3 DEF TablesKept
<1>3. CASE CloseDeserted(c)
  <2>1. tables' = [tables EXCEPT ![calls[c].previous].status = "CLOSED"]
    BY <1>3 DEF CloseDeserted
  <2>2. CASE calls[c].previous \in TableIds
    BY <2>1, <2>2, StatusKept
  <2>3. CASE calls[c].previous \notin TableIds
    <3>1. tables' = tables
      BY <2>1, <2>3 DEF LobbyInv
    <3> QED
      BY <3>1, <1>1
  <2> QED
    BY <2>2, <2>3
<1>4. CASE \E t \in TableIds : Insert(c, t)
  <2>1. PICK t \in TableIds : Insert(c, t)
    BY <1>4
  <2> DEFINE table == [NoTable EXCEPT !.status = "WAITING", !.host = calls[c].user]
  <2>2. tables' = [tables EXCEPT ![t] = table] /\ tables[t].status = "NONE"
    BY <2>1 DEF Insert, Status
  <2>3. table \in TableType /\ table.status = "WAITING"
    BY <1>0 DEF NoTable, TableType, CallType
  <2> HIDE DEF table
  <2>4. /\ tables' \in [TableIds -> TableType]
        /\ \A u \in TableIds : tables'[u] = IF u = t THEN table ELSE tables[u]
    BY <2>2, <2>3 DEF LobbyInv
  <2> QED
    BY <2>2, <2>3, <2>4 DEF TablesKept
<1>5. CASE StartSwitch(c)
  <2>1. calls[c].table \in TableIds
    BY <1>0, <1>5 DEF StartSwitch, At, CallType, Sane, Homeless
  <2>2. CASE SwitchesToMatch(Status(calls[c].table))
    <3>1. tables[calls[c].table].status = "WAITING"
      BY <2>2 DEF SwitchesToMatch, Status
    <3>2. tables' = [tables EXCEPT ![calls[c].table].status = "IN_MATCH"]
      BY <1>5, <2>2 DEF StartSwitch
    <3> QED
      BY <2>1, <3>1, <3>2, StatusKept
  <2>3. CASE ~SwitchesToMatch(Status(calls[c].table))
    BY <1>1, <1>5, <2>3 DEF StartSwitch
  <2> QED
    BY <2>2, <2>3
<1>6. CASE FinishSwitch(c)
  <2>1. calls[c].table \in TableIds
    BY <1>0, <1>6 DEF FinishSwitch, At, CallType, Sane, Homeless
  <2>2. CASE Status(calls[c].table) = "IN_MATCH"
    <3>1. tables[calls[c].table].status = "IN_MATCH"
      BY <2>2 DEF Status
    <3>2. tables' = [tables EXCEPT ![calls[c].table].status = "WAITING"]
      BY <1>6, <2>2 DEF FinishSwitch
    <3> QED
      BY <2>1, <3>1, <3>2, StatusKept
  <2>3. CASE Status(calls[c].table) # "IN_MATCH"
    BY <1>1, <1>6, <2>3 DEF FinishSwitch
  <2> QED
    BY <2>2, <2>3
<1>7. CASE Close(c)
  <2>1. calls[c].table \in TableIds
    BY <1>0, <1>7 DEF Close, At, CallType, Sane, Homeless
  <2> QED
    BY <1>7, <2>1, StatusKept DEF Close
<1> QED
  BY <1>1, <1>2, <1>3, <1>4, <1>5, <1>6, <1>7
  DEF Statement, ReadSeatOf, ReadTableOf, Unseat, LeaveTable, LeaveSeat, CloseIfDeserted, JoinTable,
      JoinSeat, ReadSeats, InsertSeat, SeatLost, SeatAgain, SetReady, StartSeats, FinishReset,
      CloseTable, OnlyRead, KeepTables

-----------------------------------------------------------------------------
\* The calls.

\* One call changes to a sane one while the tables are kept.
LEMMA CallKeeps ==
  ASSUME LobbyInv, TablesKept, NEW c \in Calls, NEW r \in CallType, Sane(r)',
         calls' = [calls EXCEPT ![c] = r]
  PROVE  CallsSane'
<1>1. /\ calls' \in [Calls -> CallType]
      /\ \A d \in Calls : calls'[d] = IF d = c THEN r ELSE calls[d]
  BY DEF LobbyInv, CallsSane
<1>2. \A d \in Calls : Sane(calls[d])'
  <2> SUFFICES ASSUME NEW d \in Calls, d # c  PROVE Sane(calls[d])'
    BY <1>1
  <2>1. calls'[d] = calls[d] /\ calls[d] \in CallType /\ Sane(calls[d])
    BY <1>1 DEF LobbyInv, CallsSane
  <2>2. calls[d].table \in TableIds \cup {Nobody}
    BY <2>1 DEF CallType
  <2> QED
    BY <2>1, <2>2 DEF Sane, TablesKept, Status
<1> QED
  BY <1>1, <1>2 DEF CallsSane

\* A call that is over is one of the calls.
LEMMA NoCallTyped == NoCall \in CallType /\ NoCall.at = "DONE" /\ NoCall.table = Nobody
BY DEF NoCall, CallType, Ops, Places, Answers

\* A call answers; its table is remembered.
LEMMA AnswerKeeps ==
  ASSUME LobbyInv, TablesKept, NEW c \in Calls, NEW a \in Answers, Answer(c, a)
  PROVE  CallsSane'
<1>1. calls[c] \in CallType /\ Sane(calls[c]) /\ calls[c].table \in TableIds \cup {Nobody}
  BY DEF LobbyInv, CallsSane, CallType
<1>2. NoCall \in CallType /\ NoCall.at = "DONE"
  BY NoCallTyped
<1>3. PICK r : r = [NoCall EXCEPT !.table = calls[c].table, !.answer = a]
  OBVIOUS
<1>4. r \in CallType /\ r.at = "DONE" /\ r.table = calls[c].table
  BY <1>1, <1>2, <1>3 DEF CallType
<1>5. calls' = [calls EXCEPT ![c] = r]
  BY <1>3 DEF Answer
<1>6. Sane(r)'
  BY <1>1, <1>4 DEF Sane, TablesKept, Status
<1> QED
  BY <1>4, <1>5, <1>6, CallKeeps

\* A call goes on to its next statement with what it has read.
LEMMA GoesOnKeeps ==
  ASSUME LobbyInv, TablesKept, NEW c \in Calls, calls[c].at # "DONE", NEW r \in CallType,
         r.op = calls[c].op, r.user = calls[c].user, r.table = calls[c].table,
         r.table = Nobody => r.at \in Homeless,
         r.at = "TAKE" => r.no \in 0..(MaxPlayers - 1),
         calls' = [calls EXCEPT ![c] = r]
  PROVE  CallsSane'
<1>1. Sane(calls[c]) /\ calls[c].table \in TableIds \cup {Nobody}
  BY DEF LobbyInv, CallsSane, CallType
<1>2. Sane(r)'
  BY <1>1 DEF Sane, TablesKept, Status
<1> QED
  BY <1>2, CallKeeps

\* A call goes on to its next statement with nothing new read.
LEMMA GoToKeeps ==
  ASSUME LobbyInv, TablesKept, NEW c \in Calls, calls[c].at # "DONE", NEW place \in Places \ {"TAKE"},
         calls[c].table = Nobody => place \in Homeless, GoTo(c, place)
  PROVE  CallsSane'
<1>1. calls[c] \in CallType
  BY DEF LobbyInv, CallsSane
<1>2. PICK r : r = [calls[c] EXCEPT !.at = place]
  OBVIOUS
<1>3. /\ r \in CallType /\ r.at = place /\ r.op = calls[c].op /\ r.user = calls[c].user
      /\ r.table = calls[c].table
  BY <1>1, <1>2 DEF CallType
<1>4. calls' = [calls EXCEPT ![c] = r]
  BY <1>2 DEF GoTo
<1> QED
  BY <1>3, <1>4, GoesOnKeeps

\* Who is found to sit nowhere goes on: to a new table only if he has none.
LEMMA SeatedNowhereKeeps ==
  ASSUME LobbyInv, TablesKept, NEW c \in Calls, calls[c].at # "DONE", SeatedNowhere(c)
  PROVE  CallsSane'
<1>1. Sane(calls[c])
  BY DEF LobbyInv, CallsSane
<1>2. \/ Answer(c, "NOWHERE")
      \/ GoTo(c, "INSERT")
      \/ calls[c].op # "CURRENT" /\ ~(calls[c].op = "CREATE" /\ calls[c].table = Nobody) /\ GoTo(c, "SEATS")
  BY DEF SeatedNowhere
<1>3. GoTo(c, "SEATS") /\ calls[c].op # "CURRENT" /\ ~(calls[c].op = "CREATE" /\ calls[c].table = Nobody)
        => calls[c].table # Nobody
  BY <1>1 DEF Sane
<1> QED
  BY <1>2, <1>3, AnswerKeeps, GoToKeeps DEF Answers, Places, Homeless

\* A refusal answers, or first takes a table away that was created for nothing.
LEMMA RefuseKeeps ==
  ASSUME LobbyInv, TablesKept, NEW c \in Calls, calls[c].at # "DONE", NEW a \in Answers, Refuse(c, a)
  PROVE  CallsSane'
<1>1. CASE Answer(c, a)
  BY <1>1, AnswerKeeps
<1>2. CASE calls' = [calls EXCEPT ![c].at = "DESERTED", ![c].previous = calls[c].table, ![c].answer = a]
  <2>1. calls[c] \in CallType
    BY DEF LobbyInv, CallsSane
  <2>2. PICK r : r = [calls[c] EXCEPT !.at = "DESERTED", !.previous = calls[c].table, !.answer = a]
    OBVIOUS
  <2>3. /\ r \in CallType /\ r.at = "DESERTED" /\ r.op = calls[c].op /\ r.user = calls[c].user
        /\ r.table = calls[c].table
    BY <2>1, <2>2 DEF CallType, Places, Homeless
  <2>4. calls' = [calls EXCEPT ![c] = r]
    BY <1>2, <2>1, <2>2 DEF LobbyInv, CallsSane
  <2> QED
    BY <2>3, <2>4, GoesOnKeeps DEF Homeless
<1> QED
  BY <1>1, <1>2 DEF Refuse

\* How many calls are at work is a number, and so is how many have been answered.
LEMMA AnsweredIsANumber ==
  ASSUME LobbyInv
  PROVE  /\ IsFiniteSet(Busy) /\ Cardinality(Busy) \in Nat
         /\ Answered \in Int
<1>1. IsFiniteSet(Busy)
  BY PeopleAssumption, FS_Subset DEF Busy
<1>2. Cardinality(Busy) \in Nat
  BY <1>1, FS_CardinalityType
<1> QED
  BY <1>1, <1>2 DEF Answered, LobbyInv

\* A call begins: at a table that is there, or with none.
LEMMA BeginKeeps ==
  ASSUME LobbyInv, TablesKept, NEW c \in Calls, NEW u \in Users, NEW t \in TableIds,
         NEW op \in Queued \cup {"CREATE", "CURRENT", "CLOSE"}, Begin(c, op, u, t)
  PROVE  CallsSane'
<1> DEFINE own == IF op \in {"CREATE", "CURRENT"} THEN Nobody ELSE t
<1>1. PICK r : r = [NoCall EXCEPT !.op = op, !.user = u, !.at = First(op), !.since = Answered,
                           !.table = own]
  OBVIOUS
<1>2. calls' = [calls EXCEPT ![c] = r]
  BY <1>1 DEF Begin
<1>3. First(op) \in Places \ {"TAKE", "DONE"} /\ (op \in {"CREATE", "CURRENT"} => First(op) = "SEAT_OF")
  BY DEF First, Places, Homeless, Queued
<1>4. own \in TableIds \cup {Nobody} /\ op \in Ops
  BY DEF Ops
<1> HIDE DEF own
<1>5. r \in CallType /\ r.at = First(op) /\ r.user = u /\ r.op = op /\ r.table = own
  BY <1>1, <1>3, <1>4, NoCallTyped, AnsweredIsANumber DEF CallType
<1>6. op \notin {"CREATE", "CURRENT"} => t # Nobody /\ tables[t].status # "NONE"
  BY LobbyAssumption DEF Begin, Status
<1>7. Sane(r)'
  BY <1>3, <1>5, <1>6 DEF Sane, TablesKept, Status, Homeless, own
<1> QED
  BY <1>2, <1>5, <1>7, CallKeeps

\* A free number is one of the table.
LEMMA FreeSeatIsASeat ==
  ASSUME NEW t, FirstFreeSeat(t) # -1
  PROVE  FirstFreeSeat(t) \in 0..(MaxPlayers - 1)
<1>1. FreeNos(t) # {} /\ FreeNos(t) \subseteq 0..(MaxPlayers - 1)
  BY DEF FirstFreeSeat, FreeNos
<1>2. \E n \in FreeNos(t) : \A m \in FreeNos(t) : n <= m
  BY <1>1, LobbyAssumption
<1>3. FirstFreeSeat(t) \in FreeNos(t)
  BY <1>1, <1>2 DEF FirstFreeSeat
<1> QED
  BY <1>1, <1>3

\* And nobody sits there.
LEMMA FreeSeatIsFree ==
  ASSUME NEW t, FirstFreeSeat(t) # -1
  PROVE  FirstFreeSeat(t) \in Int /\ FirstFreeSeat(t) \notin TakenNos(t)
<1>1. FreeNos(t) # {} /\ FreeNos(t) \subseteq 0..(MaxPlayers - 1)
  BY DEF FirstFreeSeat, FreeNos
<1>2. \E n \in FreeNos(t) : \A m \in FreeNos(t) : n <= m
  BY <1>1, LobbyAssumption
<1>3. FirstFreeSeat(t) \in FreeNos(t)
  BY <1>1, <1>2 DEF FirstFreeSeat
<1> QED
  BY <1>1, <1>3 DEF FreeNos

\* No index is violated by a player who sits nowhere and a number that is free.
LEMMA NoConflict ==
  ASSUME NEW t, NEW u, NEW no, SeatConflict(t, u, no) = "NONE"
  PROVE  SeatOf(u) = {} /\ no \notin TakenNos(t)
<1>1. SeatAt(t, u) = {}
  BY DEF SeatConflict
<1>2. no \notin TakenNos(t)
  BY <1>1 DEF SeatConflict
<1> QED
  BY <1>1, <1>2 DEF SeatConflict

\* After an empty table is closed, or found not to be empty, the call goes on or answers.
LEMMA NextAfterClosingKeeps ==
  ASSUME LobbyInv, TablesKept, NEW c \in Calls, calls[c].at # "DONE", NextAfterClosing(c)
  PROVE  CallsSane'
<1>1. PICK a \in Answers : a = calls[c].answer
  BY DEF LobbyInv, CallsSane, CallType
<1> QED
  BY <1>1, AnswerKeeps, GoToKeeps DEF NextAfterClosing, Places, Homeless

\* After every statement its call knows what the next one relies on, and the others still do.
LEMMA StatementKeepsCalls ==
  ASSUME LobbyInv, NEW c \in Calls, Statement(c)
  PROVE  CallsSane'
<1>0. TablesKept /\ calls[c] \in CallType /\ Sane(calls[c])
  BY StatementKeepsTables DEF LobbyInv, CallsSane
<1>1. CASE ReadSeatOf(c)
  <2>1. CASE SeatOf(calls[c].user) = {}
    BY <1>0, <1>1, <2>1, SeatedNowhereKeeps DEF ReadSeatOf, At
  <2>2. CASE SeatOf(calls[c].user) # {}
    <3>1. PICK row \in SeatOf(calls[c].user) :
            calls' = [calls EXCEPT ![c].at = "TABLE_OF", ![c].previous = row.table]
      BY <1>1, <2>2 DEF ReadSeatOf
    <3>2. row.table \in TableIds
      BY DEF SeatOf, LobbyInv, SeatType
    <3>3. PICK r : r = [calls[c] EXCEPT !.at = "TABLE_OF", !.previous = row.table]
      OBVIOUS
    <3>4. /\ r \in CallType /\ r.at = "TABLE_OF" /\ r.op = calls[c].op /\ r.user = calls[c].user
          /\ r.table = calls[c].table
      BY <1>0, <3>2, <3>3 DEF CallType, Places, Homeless
    <3>5. calls' = [calls EXCEPT ![c] = r]
      BY <3>1, <3>3 DEF LobbyInv, CallsSane
    <3> QED
      BY <1>0, <1>1, <3>4, <3>5, GoesOnKeeps DEF ReadSeatOf, At, Homeless
  <2> QED
    BY <2>1, <2>2
<1>2. CASE ReadTableOf(c)
  <2>1. calls[c].at = "TABLE_OF" /\ (GoTo(c, "UNSEAT") \/ SeatedAt(c, calls[c].previous))
    BY <1>2 DEF ReadTableOf, At
  <2>2. SeatedAt(c, calls[c].previous) =>
          \/ Answer(c, "SEATED") \/ Answer(c, "MATCH_IN_PROGRESS") \/ GoTo(c, "LEAVE_TABLE")
          \/ /\ ~(calls[c].op = "CURRENT") /\ ~(calls[c].op = "CREATE" /\ calls[c].table = Nobody)
             /\ GoTo(c, "SEATS") \/ Refuse(c, "ALREADY_AT_TABLE")
    BY DEF SeatedAt
  <2>3. ~(calls[c].op = "CURRENT") /\ ~(calls[c].op = "CREATE" /\ calls[c].table = Nobody)
          => calls[c].table # Nobody
    BY <1>0, <2>1 DEF Sane
  <2> QED
    BY <1>0, <2>1, <2>2, <2>3, AnswerKeeps, GoToKeeps, RefuseKeeps DEF Answers, Places, Homeless
<1>3. CASE Unseat(c)
  BY <1>0, <1>3, SeatedNowhereKeeps DEF Unseat, At
<1>4. CASE LeaveTable(c)
  <2>1. PICK r : r = [calls[c] EXCEPT !.at = "LEAVE_SEAT", !.inMatch = (Status(Leaves(c)) = "IN_MATCH")]
    OBVIOUS
  <2>2. (Status(Leaves(c)) = "IN_MATCH") \in BOOLEAN
    OBVIOUS
  <2>3. /\ r \in CallType /\ r.at = "LEAVE_SEAT" /\ r.op = calls[c].op /\ r.user = calls[c].user
        /\ r.table = calls[c].table
    BY <1>0, <2>1, <2>2 DEF CallType, Places, Homeless
  <2>4. calls' = [calls EXCEPT ![c] = r]
    BY <1>4, <2>1 DEF LeaveTable, LobbyInv, CallsSane
  <2> QED
    BY <1>0, <1>4, <2>3, <2>4, GoesOnKeeps DEF LeaveTable, At, Homeless
<1>5. CASE LeaveSeat(c)
  <2>1. calls[c].at = "LEAVE_SEAT" /\ (HasLeft(c) \/ Answer(c, "MATCH_IN_PROGRESS") \/ GoTo(c, "LEAVE_DELETE"))
    BY <1>5 DEF LeaveSeat, At
  <2> QED
    BY <1>0, <2>1, AnswerKeeps, GoToKeeps DEF HasLeft, Answers, Places, Homeless
<1>6. CASE LeaveDelete(c)
  <2>1. calls[c].at = "LEAVE_DELETE" /\ HasLeft(c)
    BY <1>6 DEF LeaveDelete, At
  <2> QED
    BY <1>0, <2>1, AnswerKeeps, GoToKeeps DEF HasLeft, Answers, Places, Homeless
<1>7. CASE CloseIfDeserted(c)
  <2>1. calls[c].at = "DESERTED" /\ (NextAfterClosing(c) \/ GoTo(c, "CLOSE_DESERTED"))
    BY <1>7 DEF CloseIfDeserted, At
  <2> QED
    BY <1>0, <2>1, NextAfterClosingKeeps, GoToKeeps DEF Places, Homeless
<1>8. CASE CloseDeserted(c)
  <2>1. calls[c].at = "CLOSE_DESERTED" /\ NextAfterClosing(c)
    BY <1>8 DEF CloseDeserted, At
  <2> QED
    BY <1>0, <2>1, NextAfterClosingKeeps
<1>9. CASE \E t \in TableIds : Insert(c, t)
  <2>1. PICK t \in TableIds : Insert(c, t)
    BY <1>9
  <2>2. PICK r : r = [calls[c] EXCEPT !.at = "JOIN_TABLE", !.table = t]
    OBVIOUS
  <2>3. r \in CallType /\ r.at = "JOIN_TABLE" /\ r.user = calls[c].user /\ r.table = t
    BY <1>0, <2>2 DEF CallType, Places
  <2>4. calls' = [calls EXCEPT ![c] = r]
    BY <2>1, <2>2 DEF Insert, LobbyInv, CallsSane
  <2>5. tables'[t].status = "WAITING" /\ calls[c].user \in Users
    BY <1>0, <2>1 DEF Insert, NoTable, LobbyInv, At, Sane
  <2>6. Sane(r)'
    BY <2>3, <2>5, LobbyAssumption DEF Sane, Status
  <2> QED
    BY <1>0, <2>3, <2>4, <2>6, CallKeeps
<1>10. CASE JoinTable(c)
  <2>1. calls[c].at = "JOIN_TABLE" /\ (GoTo(c, "JOIN_SEAT") \/ Refuse(c, "TABLE_NOT_OPEN"))
    BY <1>10 DEF JoinTable, At
  <2>2. calls[c].table # Nobody
    BY <1>0, <2>1 DEF Sane, Homeless
  <2> QED
    BY <1>0, <2>1, <2>2, GoToKeeps, RefuseKeeps DEF Answers, Places
<1>11. CASE JoinSeat(c)
  <2>1. calls[c].at = "JOIN_SEAT" /\ (Answer(c, "OK") \/ GoTo(c, "SEAT_OF"))
    BY <1>11 DEF JoinSeat, At
  <2> QED
    BY <1>0, <2>1, AnswerKeeps, GoToKeeps DEF Answers, Places, Homeless
<1>12. CASE ReadSeats(c)
  <2>1. calls[c].at = "SEATS" /\ calls[c].table # Nobody
    BY <1>0, <1>12 DEF ReadSeats, At, Sane, Homeless
  <2>2. CASE Refuse(c, "TABLE_FULL")
    BY <1>0, <2>1, <2>2, RefuseKeeps DEF Answers
  <2>3. CASE ~(FirstFreeSeat(calls[c].table) = -1 \/ calls[c].tries = Attempts)
    <3>1. FirstFreeSeat(calls[c].table) \in 0..(MaxPlayers - 1)
      BY <2>3, FreeSeatIsASeat
    <3>2. FirstFreeSeat(calls[c].table) \in Int
      BY <3>1
    <3>3. PICK r : r = [calls[c] EXCEPT !.at = "TAKE", !.no = FirstFreeSeat(calls[c].table)]
      OBVIOUS
    <3>4. /\ r \in CallType /\ r.at = "TAKE" /\ r.op = calls[c].op /\ r.user = calls[c].user
          /\ r.table = calls[c].table /\ r.no = FirstFreeSeat(calls[c].table)
      BY <1>0, <3>2, <3>3 DEF CallType, Places
    <3>5. calls' = [calls EXCEPT ![c] = r]
      BY <1>12, <2>3, <3>3 DEF ReadSeats, LobbyInv, CallsSane
    <3> QED
      BY <1>0, <2>1, <3>1, <3>4, <3>5, GoesOnKeeps
  <2> QED
    BY <1>12, <2>2, <2>3 DEF ReadSeats
<1>13. CASE InsertSeat(c)
  BY <1>0, <1>13, AnswerKeeps DEF InsertSeat, Answers
<1>14. CASE SeatLost(c)
  <2>1. calls[c].at = "TAKE" /\ calls[c].table # Nobody
    BY <1>0, <1>14 DEF SeatLost, At, Sane, Homeless
  <2>2. PICK place \in {"SEATS", "SEAT_AGAIN", "SEAT_OF"} :
          calls' = [calls EXCEPT ![c].tries = @ + 1, ![c].at = place]
    BY <1>14 DEF SeatLost
  <2>3. PICK tries \in Int : tries = calls[c].tries + 1
    BY <1>0 DEF CallType
  <2>4. PICK r : r = [calls[c] EXCEPT !.tries = tries, !.at = place]
    OBVIOUS
  <2>5. /\ r \in CallType /\ r.at = place /\ r.op = calls[c].op /\ r.user = calls[c].user
        /\ r.table = calls[c].table
    BY <1>0, <2>4 DEF CallType, Places, Homeless
  <2>6. calls' = [calls EXCEPT ![c] = r]
    BY <2>2, <2>3, <2>4 DEF LobbyInv, CallsSane
  <2> QED
    BY <1>0, <2>1, <2>5, <2>6, GoesOnKeeps
<1>15. CASE SeatAgain(c)
  <2>1. calls[c].at = "SEAT_AGAIN" /\ (Answer(c, "OK") \/ Refuse(c, "NOT_FOUND"))
    BY <1>15 DEF SeatAgain, At
  <2> QED
    BY <1>0, <2>1, AnswerKeeps, RefuseKeeps DEF Answers
<1>16. CASE SetReady(c)
  <2>1. Answer(c, "NOT_AT_TABLE") \/ Answer(c, "OK")
    BY <1>16 DEF SetReady
  <2> QED
    BY <1>0, <2>1, AnswerKeeps DEF Answers
<1>17. CASE StartSeats(c)
  <2>1. calls[c].at = "START_SEATS" /\ (GoTo(c, "START_SWITCH") \/ Answer(c, "TABLE_NOT_READY"))
    BY <1>17 DEF StartSeats, At
  <2>2. calls[c].table # Nobody
    BY <1>0, <2>1 DEF Sane, Homeless
  <2> QED
    BY <1>0, <2>1, <2>2, AnswerKeeps, GoToKeeps DEF Answers, Places
<1>18. CASE StartSwitch(c)
  <2>1. Answer(c, "OK") \/ Answer(c, "MATCH_IN_PROGRESS")
    BY <1>18 DEF StartSwitch
  <2> QED
    BY <1>0, <2>1, AnswerKeeps DEF Answers
<1>19. CASE FinishSwitch(c)
  <2>1. calls[c].at = "FINISH_SWITCH" /\ (GoTo(c, "FINISH_RESET") \/ Answer(c, "OK"))
    BY <1>19 DEF FinishSwitch, At
  <2>2. calls[c].table # Nobody
    BY <1>0, <2>1 DEF Sane, Homeless
  <2> QED
    BY <1>0, <2>1, <2>2, AnswerKeeps, GoToKeeps DEF Answers, Places
<1>20. CASE FinishReset(c)
  BY <1>0, <1>20, AnswerKeeps DEF FinishReset, Answers
<1>21. CASE CloseTable(c)
  <2>1. /\ calls[c].at = "CLOSE_TABLE"
        /\ Answer(c, "NOT_TABLE_HOST") \/ Answer(c, "MATCH_IN_PROGRESS") \/ GoTo(c, "CLOSE")
    BY <1>21 DEF CloseTable, At
  <2>2. calls[c].table # Nobody
    BY <1>0, <2>1 DEF Sane, Homeless
  <2> QED
    BY <1>0, <2>1, <2>2, AnswerKeeps, GoToKeeps DEF Answers, Places
<1>22. CASE Close(c)
  BY <1>0, <1>22, AnswerKeeps DEF Close, Answers
<1> QED
  BY <1>1, <1>2, <1>3, <1>4, <1>5, <1>6, <1>7, <1>8, <1>9, <1>10, <1>11, <1>12, <1>13, <1>14, <1>15,
     <1>16, <1>17, <1>18, <1>19, <1>20, <1>21, <1>22 DEF Statement

-----------------------------------------------------------------------------
\* The seats.

\* Seats that come from seats that were there, each with its table, its player and its number,
\* collide no more than those did.
LEMMA FewerSeatsKeep ==
  ASSUME LobbyInv, TablesKept, seats' \in SUBSET SeatType,
         \A r \in seats' : \E q \in seats : r.table = q.table /\ r.user = q.user /\ r.no = q.no,
         \A r, s \in seats' : r # s => \E q, p \in seats :
            /\ q # p /\ r.user = q.user /\ s.user = p.user /\ r.no = q.no /\ s.no = p.no
            /\ r.table = q.table /\ s.table = p.table
  PROVE  OneSeatEach'
<1>1. \A r \in seats' : r.no \in 0..(MaxPlayers - 1) /\ Status(r.table)' # "NONE"
  <2> SUFFICES ASSUME NEW r \in seats'  PROVE r.no \in 0..(MaxPlayers - 1) /\ Status(r.table)' # "NONE"
    OBVIOUS
  <2>1. PICK q \in seats : r.table = q.table /\ r.user = q.user /\ r.no = q.no
    OBVIOUS
  <2>2. q.no \in 0..(MaxPlayers - 1) /\ tables[q.table].status # "NONE" /\ q.table \in TableIds
    BY DEF LobbyInv, OneSeatEach, SeatType, Status
  <2> QED
    BY <2>1, <2>2 DEF TablesKept, Status
<1>2. \A r, s \in seats' : r # s => r.user # s.user /\ (r.table = s.table => r.no # s.no)
  BY DEF LobbyInv, OneSeatEach
<1> QED
  BY <1>1, <1>2 DEF OneSeatEach

\* Only one statement adds a row, and only one that collides with none.
LEMMA StatementKeepsSeats ==
  ASSUME LobbyInv, NEW c \in Calls, Statement(c)
  PROVE  seats' \in SUBSET SeatType /\ OneSeatEach'
<1>0. TablesKept /\ calls[c] \in CallType /\ Sane(calls[c])
  BY StatementKeepsTables DEF LobbyInv, CallsSane
<1>1. CASE seats' \subseteq seats
  <2>1. seats' \in SUBSET SeatType
    BY <1>1 DEF LobbyInv
  <2> QED
    BY <1>0, <1>1, <2>1, FewerSeatsKeep
<1>2. CASE InsertSeat(c)
  <2>1. /\ calls[c].user \in Users /\ calls[c].table \in TableIds
        /\ Status(calls[c].table) # "NONE" /\ calls[c].no \in 0..(MaxPlayers - 1)
    BY <1>0, <1>2 DEF InsertSeat, At, Sane, Homeless, CallType
  <2>2. SeatOf(calls[c].user) = {} /\ calls[c].no \notin TakenNos(calls[c].table)
    BY <1>2, NoConflict DEF InsertSeat
  <2>3. PICK row : row = [table |-> calls[c].table, user |-> calls[c].user, no |-> calls[c].no,
                          ready |-> FALSE]
    OBVIOUS
  <2>4. seats' = seats \cup {row} /\ tables' = tables
    BY <1>2, <2>3 DEF InsertSeat, KeepTables
  <2>5. /\ row.user = calls[c].user /\ row.table = calls[c].table /\ row.no = calls[c].no
        /\ row \in SeatType
    <3>1. calls[c].no \in Int
      BY <1>0 DEF CallType
    <3> QED
      BY <2>1, <2>3, <3>1 DEF SeatType
  <2>6. \A r \in seats : r.user # row.user /\ (r.table = row.table => r.no # row.no)
    BY <2>2, <2>5 DEF SeatOf, TakenNos, SeatsAt
  <2>7. \A r \in seats' : r.no \in 0..(MaxPlayers - 1) /\ Status(r.table)' # "NONE"
    BY <2>1, <2>4, <2>5 DEF LobbyInv, OneSeatEach, Status
  <2>8. \A r, s \in seats' : r # s => r.user # s.user /\ (r.table = s.table => r.no # s.no)
    BY <2>4, <2>6 DEF LobbyInv, OneSeatEach
  <2>9. seats' \in SUBSET SeatType
    BY <2>4, <2>5 DEF LobbyInv
  <2> QED
    BY <2>7, <2>8, <2>9 DEF OneSeatEach
<1>3. ASSUME NEW f,
             \A r \in seats : /\ f[r] \in SeatType
                              /\ f[r].table = r.table /\ f[r].user = r.user /\ f[r].no = r.no,
             seats' = {f[r] : r \in seats}
      PROVE  seats' \in SUBSET SeatType /\ OneSeatEach'
  <2>1. seats' \in SUBSET SeatType
    BY <1>3
  <2>2. \A r \in seats' : \E q \in seats : r = f[q] /\ r.table = q.table /\ r.user = q.user /\ r.no = q.no
    BY <1>3
  <2>3. \A r, s \in seats' : r # s => \E q, p \in seats :
          /\ q # p /\ r.user = q.user /\ s.user = p.user /\ r.no = q.no /\ s.no = p.no
          /\ r.table = q.table /\ s.table = p.table
    BY <2>2
  <2> QED
    BY <1>0, <2>1, <2>2, <2>3, FewerSeatsKeep
<1>4. CASE SetReady(c)
  <2> DEFINE mine == SeatAt(calls[c].table, calls[c].user)
  <2>1. PICK ready \in BOOLEAN : seats' = (seats \ mine) \cup {[r EXCEPT !.ready = ready] : r \in mine}
    BY <1>4 DEF SetReady
  <2> DEFINE f == [r \in seats |-> IF r \in mine THEN [r EXCEPT !.ready = ready] ELSE r]
  <2>2. \A r \in seats : /\ f[r] \in SeatType
                         /\ f[r].table = r.table /\ f[r].user = r.user /\ f[r].no = r.no
    BY DEF LobbyInv, SeatType
  <2>3. mine \subseteq seats
    BY DEF SeatAt
  <2> HIDE DEF mine
  <2>4. seats' = {f[r] : r \in seats}
    BY <2>1, <2>3
  <2> HIDE DEF f
  <2> QED
    BY <1>3, <2>2, <2>4
<1>5. CASE FinishReset(c)
  <2> DEFINE f == [r \in seats |-> IF r.table = calls[c].table THEN [r EXCEPT !.ready = FALSE] ELSE r]
  <2>1. \A r \in seats : /\ f[r] \in SeatType
                         /\ f[r].table = r.table /\ f[r].user = r.user /\ f[r].no = r.no
    BY DEF LobbyInv, SeatType
  <2>2. seats' = {f[r] : r \in seats}
    BY <1>5 DEF FinishReset
  <2> HIDE DEF f
  <2> QED
    BY <1>3, <2>1, <2>2
<1> QED
  BY <1>1, <1>2, <1>4, <1>5
  DEF Statement, ReadSeatOf, ReadTableOf, Unseat, LeaveTable, LeaveSeat, LeaveDelete, CloseIfDeserted,
      CloseDeserted, Insert, JoinTable, JoinSeat, ReadSeats, SeatLost, SeatAgain, StartSeats,
      StartSwitch, FinishSwitch, CloseTable, Close, OnlyRead, KeepSeats

-----------------------------------------------------------------------------
\* The theorems.

\* The lobby starts with no table, or with one at which nobody sits twice.
LEMMA LobbyStarts == LobbyInit => LobbyInv
<1> SUFFICES ASSUME LobbyInit  PROVE LobbyInv
  OBVIOUS
<1>1. CallsSane
  <2>1. NoCall.user = Nobody /\ NoCall \in CallType /\ NoCall.at = "DONE" /\ NoCall.table = Nobody
    BY NoCallTyped DEF NoCall
  <2> QED
    BY <2>1 DEF LobbyInit, CallsSane, Sane
<1>2. NoTable \in TableType /\ begun \in Nat
  BY DEF LobbyInit, NoTable, TableType
<1>3. CASE tables = [t \in TableIds |-> NoTable] /\ seats = {}
  BY <1>1, <1>2, <1>3 DEF LobbyInv, OneSeatEach
<1>4. ASSUME NEW t \in TableIds, NEW k \in 1..MaxPlayers, NEW who \in [0..(k - 1) -> Users],
             \A i, j \in DOMAIN who : who[i] = who[j] => i = j, tables = Opened(t, who[0]),
             seats = {[table |-> t, user |-> who[i], no |-> i, ready |-> TRUE] : i \in DOMAIN who}
      PROVE  LobbyInv
  <2>1. DOMAIN who = 0..(k - 1) /\ 0 \in 0..(k - 1) /\ 0..(k - 1) \subseteq 0..(MaxPlayers - 1)
    BY LobbyAssumption
  <2>2. PICK table : table = [NoTable EXCEPT !.status = "WAITING", !.host = who[0]]
    OBVIOUS
  <2>3. table \in TableType /\ table.status = "WAITING"
    BY <2>1, <2>2 DEF NoTable, TableType
  <2>4. tables = [u \in TableIds |-> IF u = t THEN table ELSE NoTable]
    BY <1>4, <2>2 DEF Opened
  <2>5. tables \in [TableIds -> TableType] /\ tables[t].status = "WAITING"
    BY <1>2, <2>3, <2>4
  <2>6. \A r \in seats : \E i \in 0..(k - 1) :
          r = [table |-> t, user |-> who[i], no |-> i, ready |-> TRUE]
    BY <1>4, <2>1
  <2>7. \A r \in seats : /\ r.no \in 0..(k - 1) /\ r.table = t /\ r.user = who[r.no] /\ r.ready
                         /\ r = [table |-> t, user |-> who[r.no], no |-> r.no, ready |-> TRUE]
    BY <2>6
  <2>8. seats \in SUBSET SeatType
    <3> SUFFICES ASSUME NEW r \in seats  PROVE r \in SeatType
      OBVIOUS
    <3>1. PICK i \in 0..(k - 1) : r = [table |-> t, user |-> who[i], no |-> i, ready |-> TRUE]
      BY <2>6
    <3>2. i \in Int /\ who[i] \in Users
      OBVIOUS
    <3> QED
      BY <3>1, <3>2 DEF SeatType
  <2>9. \A r \in seats : r.no \in 0..(MaxPlayers - 1) /\ Status(r.table) # "NONE"
    BY <2>1, <2>5, <2>7 DEF Status
  <2>10. \A r, s \in seats : r # s => r.user # s.user /\ r.no # s.no
    <3> SUFFICES ASSUME NEW r \in seats, NEW s \in seats, r # s  PROVE r.user # s.user /\ r.no # s.no
      OBVIOUS
    <3>1. PICK i \in 0..(k - 1) : r = [table |-> t, user |-> who[i], no |-> i, ready |-> TRUE]
      BY <2>6
    <3>2. PICK j \in 0..(k - 1) : s = [table |-> t, user |-> who[j], no |-> j, ready |-> TRUE]
      BY <2>6
    <3>3. i # j
      BY <3>1, <3>2
    <3>4. who[i] # who[j]
      BY <1>4, <2>1, <3>3
    <3> QED
      BY <3>1, <3>2, <3>3, <3>4
  <2>11. OneSeatEach
    BY <2>9, <2>10 DEF OneSeatEach
  <2> QED
    BY <1>1, <1>2, <2>5, <2>8, <2>11 DEF LobbyInv
<1> QED
  BY <1>3, <1>4 DEF LobbyInit

\* A call that begins changes no table and no seat.
LEMMA BeginKeepsTables ==
  ASSUME LobbyInv, NEW c \in Calls, NEW u, NEW t, NEW op, Begin(c, op, u, t)
  PROVE  TablesKept /\ seats' \in SUBSET SeatType /\ OneSeatEach'
<1>1. tables' = tables /\ seats' = seats
  BY DEF Begin
<1> QED
  BY <1>1 DEF LobbyInv, TablesKept, OneSeatEach, Status

\* Only the beginning of a call counts it.
LEMMA StatementBeginsNothing ==
  ASSUME NEW c \in Calls, Statement(c)
  PROVE  begun' = begun
BY DEF Statement, ReadSeatOf, ReadTableOf, Unseat, LeaveTable, LeaveSeat, LeaveDelete, CloseIfDeserted,
       CloseDeserted, Insert, JoinTable, JoinSeat, ReadSeats, InsertSeat, SeatLost, SeatAgain, SetReady,
       StartSeats, StartSwitch, FinishSwitch, FinishReset, CloseTable, Close, OnlyRead, KeepTables,
       KeepSeats

\* A step of the lobby keeps the invariant and every closed table closed.
LEMMA LobbyStepKeeps == LobbyInv /\ [LobbyNext]_lobbyVars => LobbyInv' /\ TablesKept
<1> SUFFICES ASSUME LobbyInv, [LobbyNext]_lobbyVars  PROVE LobbyInv' /\ TablesKept
  OBVIOUS
<1>1. ASSUME NEW c \in Calls, Statement(c)  PROVE LobbyInv' /\ TablesKept
  BY <1>1, StatementKeepsTables, StatementKeepsCalls, StatementKeepsSeats, StatementBeginsNothing
  DEF LobbyInv, TablesKept
<1>2. ASSUME NEW c \in Calls, NEW u \in Users, NEW t \in TableIds,
             NEW op \in Queued \cup {"CREATE", "CURRENT", "CLOSE"}, Begin(c, op, u, t)
      PROVE  LobbyInv' /\ TablesKept
  <2>1. TablesKept /\ seats' \in SUBSET SeatType /\ OneSeatEach'
    BY <1>2, BeginKeepsTables
  <2>2. begun' \in Nat
    BY <1>2 DEF Begin, LobbyInv
  <2> QED
    BY <1>2, <2>1, <2>2, BeginKeeps DEF LobbyInv, TablesKept
<1>3. CASE UNCHANGED lobbyVars
  <2>1. tables' = tables /\ seats' = seats /\ calls' = calls /\ begun' = begun
    BY <1>3 DEF lobbyVars
  <2> QED
    BY <2>1 DEF LobbyInv, TablesKept, OneSeatEach, CallsSane, Sane, Status
<1> QED
  BY <1>1, <1>2, <1>3 DEF LobbyNext

(***************************************************************************)
(* Every call in progress knows what its next statement relies on, and the *)
(* tables and the seats are what their columns allow.                      *)
(***************************************************************************)
THEOREM LobbyInvariant == LobbySpec => []LobbyInv
<1>1. LobbyInit => LobbyInv
  BY LobbyStarts
<1>2. LobbyInv /\ [LobbyNext]_lobbyVars => LobbyInv'
  BY LobbyStepKeeps
<1> QED
  BY <1>1, <1>2, PTL DEF LobbySpec

(***************************************************************************)
(* Nobody ever sits at two tables or on another's seat, with any number of *)
(* players, tables and calls at once: the checks of a call may be stale,   *)
(* the unique indexes are not (InsertSeat, seatConflict).                  *)
(***************************************************************************)
THEOREM OneSeatEachAlways == LobbySpec => []OneSeatEach
<1>1. LobbyInv => OneSeatEach
  BY DEF LobbyInv
<1> QED
  BY <1>1, LobbyInvariant, PTL

(***************************************************************************)
(* A closed table stays closed, whoever was about to start a match on it   *)
(* or to bring one back into the lobby (switchStatus).                     *)
(***************************************************************************)
THEOREM ClosedStaysClosedAlways == LobbySpec => ClosedStaysClosed
<1>1. LobbyInv /\ [LobbyNext]_lobbyVars =>
        [\A t \in TableIds : Status(t) = "CLOSED" => tables'[t].status = "CLOSED"]_lobbyVars
  BY LobbyStepKeeps DEF TablesKept, Status
<1> QED
  BY <1>1, LobbyInvariant, PTL DEF LobbySpec, ClosedStaysClosed
-----------------------------------------------------------------------------
(***************************************************************************)
(* Tables at which nobody sits.  A table is emptied, or opened, by a call  *)
(* that will close it or take a seat at it; whatever the others do, that   *)
(* call does not forget the table before there is somebody at it.          *)
(***************************************************************************)

\* Open, empty, and not left by a command.
Dead(t) == Status(t) \in {"WAITING", "IN_MATCH"} /\ SeatsAt(t) = {} /\ ~tables[t].left

\* The call will take a seat at the table or close it.
Works(r, t) ==
  \/ /\ r.op = "CREATE" /\ r.table = t
     /\ r.at \in {"JOIN_TABLE", "JOIN_SEAT", "SEAT_OF", "TABLE_OF", "UNSEAT", "SEATS", "TAKE", "SEAT_AGAIN"}
  \/ r.at \in {"DESERTED", "CLOSE_DESERTED"} /\ r.previous = t

\* Who may be at which statement, and what a stale row is.
Purpose(r) ==
  /\ r.at \in {"INSERT", "DESERTED", "CLOSE_DESERTED"} => r.op = "CREATE"
  /\ r.at \in {"LEAVE_TABLE", "LEAVE_SEAT", "LEAVE_DELETE"} => r.op \in {"LEAVE", "CREATE"}
  /\ r.at \in {"TABLE_OF", "UNSEAT"} => r.previous \in TableIds
  /\ r.at = "UNSEAT" => Status(r.previous) = "CLOSED"

Tended ==
  /\ \A c \in Calls : Purpose(calls[c])
  /\ \A t \in TableIds : Dead(t) => \E c \in Calls : Works(calls[c], t)

\* What the call c, going on as r, must see to: no table is forgotten by it, none is emptied
\* or opened without it.
Handed(c, r) ==
  /\ Purpose(r)'
  /\ \A t \in TableIds : Dead(t)' => Works(r, t) \/ (Dead(t) /\ ~Works(calls[c], t))

\* The call goes on and the others stay where they are.
LEMMA HandedTends ==
  ASSUME LobbyInv, TablesKept, Tended, NEW c \in Calls, NEW r,
         calls' = [calls EXCEPT ![c] = r], Handed(c, r)
  PROVE  Tended'
<1>1. \A d \in Calls : calls'[d] = IF d = c THEN r ELSE calls[d]
  BY DEF LobbyInv, CallsSane
<1>2. \A d \in Calls : Purpose(calls[d])'
  <2> SUFFICES ASSUME NEW d \in Calls, d # c  PROVE Purpose(calls[d])'
    BY <1>1 DEF Handed, Purpose
  <2> QED
    BY <1>1 DEF Tended, Purpose, TablesKept, Status
<1>3. \A t \in TableIds : Dead(t)' => \E d \in Calls : Works(calls'[d], t)
  <2> SUFFICES ASSUME NEW t \in TableIds, Dead(t)'  PROVE \E d \in Calls : Works(calls'[d], t)
    OBVIOUS
  <2>1. Works(r, t) \/ (Dead(t) /\ ~Works(calls[c], t))
    BY DEF Handed
  <2>2. CASE Works(r, t)
    BY <1>1, <2>2
  <2>3. CASE Dead(t) /\ ~Works(calls[c], t)
    <3>1. PICK d \in Calls : Works(calls[d], t)
      BY <2>3 DEF Tended
    <3>2. d # c /\ calls'[d] = calls[d]
      BY <1>1, <2>3, <3>1
    <3> QED
      BY <3>1, <3>2
  <2> QED
    BY <2>1, <2>2, <2>3
<1> QED
  BY <1>2, <1>3 DEF Tended, Works

\* A call that answers leaves no table behind.
LEMMA AnswerTends ==
  ASSUME LobbyInv, TablesKept, Tended, NEW c \in Calls, NEW a, Answer(c, a),
         \A t \in TableIds : Dead(t)' => Dead(t) /\ ~Works(calls[c], t)
  PROVE  Tended'
<1>1. PICK r : r = [NoCall EXCEPT !.table = calls[c].table, !.answer = a]
  OBVIOUS
<1>2. r.at = "DONE" /\ calls' = [calls EXCEPT ![c] = r]
  BY <1>1 DEF NoCall, Answer
<1>3. Handed(c, r)
  BY <1>2 DEF Handed, Purpose
<1> QED
  BY <1>2, <1>3, HandedTends

\* A call that goes to another statement with what it has.
LEMMA GoToTends ==
  ASSUME LobbyInv, TablesKept, Tended, NEW c \in Calls, NEW place, GoTo(c, place),
         \A r : /\ r.at = place /\ r.op = calls[c].op
                /\ r.table = calls[c].table /\ r.previous = calls[c].previous
                => Handed(c, r)
  PROVE  Tended'
<1>1. calls[c] \in CallType
  BY DEF LobbyInv, CallsSane
<1>2. PICK r : r = [calls[c] EXCEPT !.at = place]
  OBVIOUS
<1>3. r.at = place /\ r.op = calls[c].op /\ r.table = calls[c].table /\ r.previous = calls[c].previous
  BY <1>1, <1>2 DEF CallType
<1>4. calls' = [calls EXCEPT ![c] = r]
  BY <1>2 DEF GoTo
<1> QED
  BY <1>3, <1>4, HandedTends

\* Tables and seats stay as they are.
LEMMA SameDead ==
  ASSUME tables' = tables, seats' = seats, NEW t
  PROVE  Dead(t)' <=> Dead(t)
BY DEF Dead, Status, SeatsAt

\* A refused call takes its table away first, if it has opened one.
LEMMA RefuseTends ==
  ASSUME LobbyInv, TablesKept, Tended, NEW c \in Calls, NEW a, Refuse(c, a), OnlyRead,
         calls[c].at \notin {"DESERTED", "CLOSE_DESERTED"}
  PROVE  Tended'
<1>0. calls[c] \in CallType /\ tables' = tables /\ seats' = seats
  BY DEF LobbyInv, CallsSane, OnlyRead
<1>1. CASE calls[c].op = "CREATE" /\ calls[c].table # Nobody
  <2>1. PICK r : r = [calls[c] EXCEPT !.at = "DESERTED", !.previous = calls[c].table, !.answer = a]
    OBVIOUS
  <2>2. r.at = "DESERTED" /\ r.op = calls[c].op /\ r.previous = calls[c].table
    BY <1>0, <2>1 DEF CallType
  <2>3. calls' = [calls EXCEPT ![c] = r]
    BY <1>1, <2>1 DEF Refuse, LobbyInv, CallsSane
  <2>4. Handed(c, r)
    BY <1>0, <1>1, <2>2, SameDead DEF Handed, Purpose, Works
  <2> QED
    BY <2>3, <2>4, HandedTends
<1>2. CASE ~(calls[c].op = "CREATE" /\ calls[c].table # Nobody)
  <2>1. Answer(c, a)
    BY <1>2 DEF Refuse
  <2>2. \A t \in TableIds : Dead(t)' => Dead(t) /\ ~Works(calls[c], t)
    BY <1>0, <1>2, SameDead, LobbyAssumption DEF Works
  <2> QED
    BY <2>1, <2>2, AnswerTends
<1> QED
  BY <1>1, <1>2

\* A call whose player sits nowhere goes on to the seats of its table, or to a new table.
LEMMA SeatedNowhereTends ==
  ASSUME LobbyInv, TablesKept, Tended, NEW c \in Calls, SeatedNowhere(c),
         calls[c].at \in {"SEAT_OF", "UNSEAT"},
         \A t \in TableIds : Dead(t)' => Dead(t)
  PROVE  Tended'
<1>1. CASE Answer(c, "NOWHERE") /\ calls[c].op = "CURRENT"
  <2>1. \A t \in TableIds : Dead(t)' => Dead(t) /\ ~Works(calls[c], t)
    BY <1>1 DEF Works
  <2> QED
    BY <1>1, <2>1, AnswerTends
<1>2. CASE GoTo(c, "INSERT") /\ calls[c].op = "CREATE" /\ calls[c].table = Nobody
  <2>1. ASSUME NEW r, r.at = "INSERT", r.op = calls[c].op
        PROVE  Handed(c, r)
    BY <1>2, <2>1, LobbyAssumption DEF Handed, Purpose, Works
  <2> QED
    BY <1>2, <2>1, GoToTends
<1>3. CASE GoTo(c, "SEATS")
  <2>1. ASSUME NEW r, r.at = "SEATS", r.op = calls[c].op, r.table = calls[c].table
        PROVE  Handed(c, r)
    BY <2>1 DEF Handed, Purpose, Works
  <2> QED
    BY <1>3, <2>1, GoToTends
<1> QED
  BY <1>1, <1>2, <1>3 DEF SeatedNowhere

\* The table left behind was closed, or there is somebody at it.
LEMMA NextAfterClosingTends ==
  ASSUME LobbyInv, TablesKept, Tended, NEW c \in Calls, NextAfterClosing(c),
         calls[c].at \in {"DESERTED", "CLOSE_DESERTED"},
         \A t \in TableIds : Dead(t)' => Dead(t) /\ t # calls[c].previous
  PROVE  Tended'
<1>1. calls[c].op = "CREATE"
  BY DEF Tended, Purpose
<1>2. CASE GoTo(c, "INSERT")
  <2>1. ASSUME NEW r, r.at = "INSERT", r.op = calls[c].op
        PROVE  Handed(c, r)
    BY <1>1, <2>1 DEF Handed, Purpose, Works
  <2> QED
    BY <1>2, <2>1, GoToTends
<1>3. CASE Answer(c, calls[c].answer)
  <2>1. \A t \in TableIds : Dead(t)' => Dead(t) /\ ~Works(calls[c], t)
    BY DEF Works
  <2> QED
    BY <1>3, <2>1, AnswerTends
<1> QED
  BY <1>2, <1>3 DEF NextAfterClosing

\* The statements that look for the seat of a player.
LEMMA LookingTends ==
  ASSUME LobbyInv, TablesKept, Tended, NEW c \in Calls,
         ReadSeatOf(c) \/ ReadTableOf(c) \/ Unseat(c)
  PROVE  Tended'
<1>0. calls[c] \in CallType
  BY DEF LobbyInv, CallsSane
<1>1. CASE ReadSeatOf(c)
  <2>0. tables' = tables /\ seats' = seats /\ calls[c].at = "SEAT_OF"
    BY <1>1 DEF ReadSeatOf, OnlyRead, At
  <2>1. CASE SeatOf(calls[c].user) = {}
    BY <1>1, <2>0, <2>1, SameDead, SeatedNowhereTends DEF ReadSeatOf
  <2>2. CASE SeatOf(calls[c].user) # {}
    <3>1. PICK row \in SeatOf(calls[c].user) :
            calls' = [calls EXCEPT ![c].at = "TABLE_OF", ![c].previous = row.table]
      BY <1>1, <2>2 DEF ReadSeatOf
    <3>2. row.table \in TableIds
      BY DEF SeatOf, LobbyInv, SeatType
    <3>3. PICK r : r = [calls[c] EXCEPT !.at = "TABLE_OF", !.previous = row.table]
      OBVIOUS
    <3>4. /\ r.at = "TABLE_OF" /\ r.op = calls[c].op /\ r.table = calls[c].table
          /\ r.previous = row.table
      BY <1>0, <3>3 DEF CallType
    <3>5. calls' = [calls EXCEPT ![c] = r]
      BY <3>1, <3>3 DEF LobbyInv, CallsSane
    <3>6. Handed(c, r)
      BY <2>0, <3>2, <3>4, SameDead DEF Handed, Purpose, Works
    <3> QED
      BY <3>5, <3>6, HandedTends
  <2> QED
    BY <2>1, <2>2
<1>2. CASE ReadTableOf(c)
  <2>0. /\ tables' = tables /\ seats' = seats /\ calls[c].at = "TABLE_OF" /\ OnlyRead
        /\ calls[c].previous \in TableIds
    BY <1>2 DEF ReadTableOf, OnlyRead, At, Tended, Purpose
  <2>1. CASE Status(calls[c].previous) = "CLOSED"
    <3>1. ASSUME NEW r, r.at = "UNSEAT", r.op = calls[c].op, r.table = calls[c].table,
                 r.previous = calls[c].previous
          PROVE  Handed(c, r)
      <4>1. Purpose(r)'
        BY <2>0, <2>1, <3>1 DEF Purpose, Status
      <4> QED
        BY <2>0, <3>1, <4>1, SameDead DEF Handed, Works
    <3> QED
      BY <1>2, <2>1, <3>1, GoToTends DEF ReadTableOf
  <2>2. CASE SeatedAt(c, calls[c].previous)
    <3>1. CASE /\ calls[c].op = "CURRENT" \/ (calls[c].op = "CREATE" /\ calls[c].table = Nobody)
               /\ Answer(c, "SEATED") \/ Answer(c, "MATCH_IN_PROGRESS")
      <4>1. \A t \in TableIds : Dead(t)' => Dead(t) /\ ~Works(calls[c], t)
        BY <2>0, <3>1, SameDead, LobbyAssumption DEF Works
      <4> QED
        BY <3>1, <4>1, AnswerTends
    <3>2. CASE calls[c].op = "CREATE" /\ calls[c].table = Nobody /\ GoTo(c, "LEAVE_TABLE")
      <4>1. ASSUME NEW r, r.at = "LEAVE_TABLE", r.op = calls[c].op
            PROVE  Handed(c, r)
        BY <2>0, <3>2, <4>1, SameDead, LobbyAssumption DEF Handed, Purpose, Works
      <4> QED
        BY <3>2, <4>1, GoToTends
    <3>3. CASE GoTo(c, "SEATS")
      <4>1. ASSUME NEW r, r.at = "SEATS", r.op = calls[c].op, r.table = calls[c].table
            PROVE  Handed(c, r)
        BY <2>0, <4>1, SameDead DEF Handed, Purpose, Works
      <4> QED
        BY <3>3, <4>1, GoToTends
    <3>4. CASE Refuse(c, "ALREADY_AT_TABLE")
      BY <2>0, <3>4, RefuseTends
    <3> QED
      BY <2>2, <3>1, <3>2, <3>3, <3>4 DEF SeatedAt
  <2> QED
    BY <1>2, <2>1, <2>2 DEF ReadTableOf
<1>3. CASE Unseat(c)
  <2>1. calls[c].at = "UNSEAT" /\ tables' = tables /\ SeatedNowhere(c)
        /\ seats' = seats \ SeatAt(calls[c].previous, calls[c].user)
    BY <1>3 DEF Unseat, At, KeepTables
  <2>2. Status(calls[c].previous) = "CLOSED"
    BY <2>1 DEF Tended, Purpose
  <2>3. \A t \in TableIds : Dead(t)' => Dead(t)
    <3> SUFFICES ASSUME NEW t \in TableIds, Dead(t)'  PROVE Dead(t)
      OBVIOUS
    <3>1. Status(t) \in {"WAITING", "IN_MATCH"} /\ t # calls[c].previous
      BY <2>1, <2>2 DEF Dead, Status
    <3>2. SeatsAt(t)' = SeatsAt(t)
      BY <2>1, <3>1 DEF SeatsAt, SeatAt
    <3> QED
      BY <2>1, <3>1, <3>2 DEF Dead
  <2> QED
    BY <2>1, <2>3, SeatedNowhereTends
<1> QED
  BY <1>1, <1>2, <1>3

\* The statements of leaving.
LEMMA LeavingTends ==
  ASSUME LobbyInv, TablesKept, Tended, NEW c \in Calls,
         LeaveTable(c) \/ LeaveSeat(c) \/ LeaveDelete(c)
  PROVE  Tended'
<1>0. /\ calls[c] \in CallType
      /\ calls[c].at \in {"LEAVE_TABLE", "LEAVE_SEAT", "LEAVE_DELETE"}
      /\ calls[c].op \in {"LEAVE", "CREATE"}
      /\ \A t : ~Works(calls[c], t)
  BY DEF LobbyInv, CallsSane, LeaveTable, LeaveSeat, LeaveDelete, At, Tended, Purpose, Works
<1>1. CASE LeaveTable(c)
  <2>1. PICK r : r = [calls[c] EXCEPT !.at = "LEAVE_SEAT", !.inMatch = (Status(Leaves(c)) = "IN_MATCH")]
    OBVIOUS
  <2>2. r.at = "LEAVE_SEAT" /\ r.op = calls[c].op
    BY <1>0, <2>1 DEF CallType
  <2>3. calls' = [calls EXCEPT ![c] = r]
    BY <1>1, <2>1 DEF LeaveTable, LobbyInv, CallsSane
  <2>4. tables' = tables /\ seats' = seats
    BY <1>1 DEF LeaveTable, OnlyRead
  <2>5. Handed(c, r)
    BY <1>0, <2>2, <2>4, SameDead DEF Handed, Purpose
  <2> QED
    BY <2>3, <2>5, HandedTends
<1>2. ASSUME NEW place \in {"DESERTED", "LEAVE_DELETE"}, GoTo(c, place),
             place = "DESERTED" => calls[c].op = "CREATE",
             \A t \in TableIds : Dead(t)' =>
                Dead(t) \/ (place = "DESERTED" /\ t = calls[c].previous)
      PROVE  Tended'
  <2>1. ASSUME NEW r, r.at = place, r.op = calls[c].op, r.previous = calls[c].previous
        PROVE  Handed(c, r)
    BY <1>0, <1>2, <2>1 DEF Handed, Purpose, Works
  <2> QED
    BY <1>2, <2>1, GoToTends
<1>3. CASE LeaveSeat(c)
  <2>1. \A t \in TableIds : Dead(t)' => Dead(t)
    BY <1>3, SameDead DEF LeaveSeat, OnlyRead
  <2>2. \/ GoTo(c, "DESERTED") /\ calls[c].op = "CREATE"
        \/ Answer(c, "OK") \/ Answer(c, "MATCH_IN_PROGRESS")
        \/ GoTo(c, "LEAVE_DELETE")
    BY <1>3 DEF LeaveSeat, HasLeft
  <2> QED
    BY <1>0, <1>2, <2>1, <2>2, AnswerTends
<1>4. CASE LeaveDelete(c)
  <2> DEFINE t0 == Leaves(c)
             gone == (calls[c].op = "LEAVE")
  <2>1. /\ tables' = [tables EXCEPT ![t0].left = gone]
        /\ seats' = seats \ SeatAt(t0, calls[c].user)
        /\ HasLeft(c)
    BY <1>4 DEF LeaveDelete
  <2>2. \A t \in TableIds \ {t0} : Dead(t)' => Dead(t)
    <3> HIDE DEF t0, gone
    <3> TAKE t \in TableIds \ {t0}
    <3>1. tables'[t] = tables[t]
      BY <2>1 DEF LobbyInv
    <3>2. SeatsAt(t)' = SeatsAt(t)
      BY <2>1 DEF SeatsAt, SeatAt
    <3> QED
      BY <3>1, <3>2 DEF Dead, Status
  <2>3. CASE calls[c].op = "CREATE"
    <3>1. t0 = calls[c].previous /\ GoTo(c, "DESERTED")
      BY <2>1, <2>3 DEF Leaves, HasLeft
    <3> QED
      BY <1>2, <2>2, <2>3, <3>1
  <2>4. CASE calls[c].op = "LEAVE"
    <3>1. Answer(c, "OK") /\ gone
      BY <2>1, <2>4 DEF HasLeft
    <3>2. ASSUME t0 \in TableIds  PROVE tables'[t0].left
      <4>1. tables[t0] \in TableType
        BY <3>2 DEF LobbyInv
      <4>2. tables'[t0] = [tables[t0] EXCEPT !.left = gone]
        BY <2>1, <3>2 DEF LobbyInv
      <4> QED
        BY <3>1, <4>1, <4>2 DEF TableType
    <3>3. \A t \in TableIds : Dead(t)' => Dead(t) /\ ~Works(calls[c], t)
      <4> HIDE DEF t0
      <4> TAKE t \in TableIds
      <4>1. t = t0 => ~Dead(t)'
        BY <3>2 DEF Dead
      <4> QED
        BY <1>0, <2>2, <4>1
    <3> QED
      BY <3>1, <3>3, AnswerTends
  <2> QED
    BY <1>0, <2>3, <2>4
<1> QED
  BY <1>1, <1>3, <1>4

\* The statements that close what was left behind.
LEMMA ClosingTends ==
  ASSUME LobbyInv, TablesKept, Tended, NEW c \in Calls,
         CloseIfDeserted(c) \/ CloseDeserted(c)
  PROVE  Tended'
<1>0. calls[c] \in CallType
  BY DEF LobbyInv, CallsSane
<1>1. CASE CloseIfDeserted(c)
  <2>0. tables' = tables /\ seats' = seats /\ calls[c].at = "DESERTED"
    BY <1>1 DEF CloseIfDeserted, OnlyRead, At
  <2>1. CASE SeatsAt(calls[c].previous) # {}
    <3>1. \A t \in TableIds : Dead(t)' => Dead(t) /\ t # calls[c].previous
      BY <2>0, <2>1, SameDead DEF Dead
    <3> QED
      BY <1>1, <2>0, <2>1, <3>1, NextAfterClosingTends DEF CloseIfDeserted
  <2>2. CASE SeatsAt(calls[c].previous) = {}
    <3>1. ASSUME NEW r, r.at = "CLOSE_DESERTED", r.op = calls[c].op,
                 r.previous = calls[c].previous
          PROVE  Handed(c, r)
      BY <2>0, <3>1, SameDead DEF Handed, Purpose, Works, Tended
    <3> QED
      BY <1>1, <2>2, <3>1, GoToTends DEF CloseIfDeserted
  <2> QED
    BY <2>1, <2>2
<1>2. CASE CloseDeserted(c)
  <2>0. /\ tables' = [tables EXCEPT ![calls[c].previous].status = "CLOSED"] /\ seats' = seats
        /\ calls[c].at = "CLOSE_DESERTED" /\ NextAfterClosing(c)
    BY <1>2 DEF CloseDeserted, KeepSeats, At
  <2>1. \A t \in TableIds : Dead(t)' => Dead(t) /\ t # calls[c].previous
    <3> SUFFICES ASSUME NEW t \in TableIds, Dead(t)'
                 PROVE  Dead(t) /\ t # calls[c].previous
      OBVIOUS
    <3>1. CASE t = calls[c].previous
      <4>1. tables'[t] = [tables[t] EXCEPT !.status = "CLOSED"] /\ tables[t] \in TableType
        BY <2>0, <3>1 DEF LobbyInv
      <4>2. tables'[t].status = "CLOSED"
        BY <4>1 DEF TableType
      <4> QED
        BY <4>2 DEF Dead, Status
    <3>2. CASE t # calls[c].previous
      <4>1. tables'[t] = tables[t]
        BY <2>0, <3>2 DEF LobbyInv
      <4> QED
        BY <2>0, <3>2, <4>1 DEF Dead, Status, SeatsAt
    <3> QED
      BY <3>1, <3>2
  <2> QED
    BY <2>0, <2>1, NextAfterClosingTends
<1> QED
  BY <1>1, <1>2

\* A new table is in the hands of the call that opened it.
LEMMA InsertTends ==
  ASSUME LobbyInv, TablesKept, Tended, NEW c \in Calls, NEW t \in TableIds, Insert(c, t)
  PROVE  Tended'
<1>0. /\ calls[c] \in CallType /\ calls[c].at = "INSERT" /\ calls[c].op = "CREATE"
      /\ \A u : ~Works(calls[c], u)
  BY DEF LobbyInv, CallsSane, Insert, At, Tended, Purpose, Works
<1>1. PICK r : r = [calls[c] EXCEPT !.at = "JOIN_TABLE", !.table = t]
  OBVIOUS
<1>2. r.at = "JOIN_TABLE" /\ r.op = "CREATE" /\ r.table = t
  BY <1>0, <1>1 DEF CallType
<1>3. calls' = [calls EXCEPT ![c] = r]
  BY <1>1 DEF Insert, LobbyInv, CallsSane
<1>4. \A u \in TableIds \ {t} : tables'[u] = tables[u]
  BY DEF Insert, LobbyInv
<1>5. seats' = seats
  BY DEF Insert, KeepSeats
<1>6. \A u \in TableIds \ {t} : Dead(u)' => Dead(u)
  BY <1>4, <1>5 DEF Dead, Status, SeatsAt
<1>7. Handed(c, r)
  BY <1>0, <1>2, <1>6 DEF Handed, Purpose, Works
<1> QED
  BY <1>3, <1>7, HandedTends

\* The statements of taking a seat: the table is not forgotten before somebody sits at it.
LEMMA JoiningTends ==
  ASSUME LobbyInv, TablesKept, Tended, NEW c \in Calls,
         \/ JoinTable(c) \/ JoinSeat(c) \/ ReadSeats(c) \/ InsertSeat(c) \/ SeatLost(c)
         \/ SeatAgain(c)
  PROVE  Tended'
<1>0. calls[c] \in CallType
  BY DEF LobbyInv, CallsSane
<1>1. ASSUME NEW place \in {"JOIN_SEAT", "SEAT_OF"}, GoTo(c, place), OnlyRead,
             calls[c].at \in {"JOIN_TABLE", "JOIN_SEAT"}
      PROVE  Tended'
  <2>1. ASSUME NEW r, r.at = place, r.op = calls[c].op, r.table = calls[c].table
        PROVE  Handed(c, r)
    BY <1>1, <2>1, SameDead DEF Handed, Purpose, Works, OnlyRead
  <2> QED
    BY <1>1, <2>1, GoToTends
<1>2. ASSUME SeatAt(calls[c].table, calls[c].user) # {}, Answer(c, "OK"), OnlyRead,
             calls[c].at \in {"JOIN_SEAT", "SEAT_AGAIN"}
      PROVE  Tended'
  <2>1. SeatsAt(calls[c].table) # {}
    BY <1>2 DEF SeatAt, SeatsAt
  <2>2. \A t \in TableIds : Dead(t)' => Dead(t) /\ ~Works(calls[c], t)
    BY <1>2, <2>1, SameDead DEF Dead, Works, OnlyRead
  <2> QED
    BY <1>2, <2>2, AnswerTends
<1>3. CASE JoinTable(c)
  <2>1. /\ calls[c].at = "JOIN_TABLE" /\ OnlyRead
        /\ GoTo(c, "JOIN_SEAT") \/ Refuse(c, "TABLE_NOT_OPEN")
    BY <1>3 DEF JoinTable, At
  <2> QED
    BY <1>1, <2>1, RefuseTends
<1>4. CASE JoinSeat(c)
  <2>1. /\ calls[c].at = "JOIN_SEAT" /\ OnlyRead
        /\ \/ SeatAt(calls[c].table, calls[c].user) # {} /\ Answer(c, "OK")
           \/ GoTo(c, "SEAT_OF")
    BY <1>4 DEF JoinSeat, At
  <2> QED
    BY <1>1, <1>2, <2>1
<1>5. CASE SeatAgain(c)
  <2>1. /\ calls[c].at = "SEAT_AGAIN" /\ OnlyRead
        /\ \/ SeatAt(calls[c].table, calls[c].user) # {} /\ Answer(c, "OK")
           \/ Refuse(c, "NOT_FOUND")
    BY <1>5 DEF SeatAgain, At
  <2> QED
    BY <1>2, <2>1, RefuseTends
<1>6. CASE ReadSeats(c)
  <2>0. calls[c].at = "SEATS" /\ OnlyRead
    BY <1>6 DEF ReadSeats, At
  <2>1. CASE Refuse(c, "TABLE_FULL")
    BY <2>0, <2>1, RefuseTends
  <2>2. CASE calls' = [calls EXCEPT ![c].at = "TAKE", ![c].no = FirstFreeSeat(calls[c].table)]
    <3>1. PICK r : r = [calls[c] EXCEPT !.at = "TAKE", !.no = FirstFreeSeat(calls[c].table)]
      OBVIOUS
    <3>2. r.at = "TAKE" /\ r.op = calls[c].op /\ r.table = calls[c].table
      BY <1>0, <3>1 DEF CallType
    <3>3. calls' = [calls EXCEPT ![c] = r]
      BY <2>2, <3>1 DEF LobbyInv, CallsSane
    <3>4. Handed(c, r)
      BY <2>0, <3>2, SameDead DEF Handed, Purpose, Works, OnlyRead
    <3> QED
      BY <3>3, <3>4, HandedTends
  <2> QED
    BY <1>6, <2>1, <2>2 DEF ReadSeats
<1>7. CASE SeatLost(c)
  <2>0. calls[c].at = "TAKE" /\ OnlyRead
    BY <1>7 DEF SeatLost, At
  <2>1. PICK place \in {"SEATS", "SEAT_AGAIN", "SEAT_OF"} :
          calls' = [calls EXCEPT ![c].tries = @ + 1, ![c].at = place]
    BY <1>7 DEF SeatLost
  <2>2. PICK r : r = [calls[c] EXCEPT !.tries = @ + 1, !.at = place]
    OBVIOUS
  <2>3. r.at = place /\ r.op = calls[c].op /\ r.table = calls[c].table
    BY <1>0, <2>2 DEF CallType
  <2>4. calls' = [calls EXCEPT ![c] = r]
    BY <2>1, <2>2 DEF LobbyInv, CallsSane
  <2>5. Handed(c, r)
    BY <2>0, <2>3, SameDead DEF Handed, Purpose, Works, OnlyRead
  <2> QED
    BY <2>4, <2>5, HandedTends
<1>8. CASE InsertSeat(c)
  <2>0. calls[c].at = "TAKE" /\ tables' = tables /\ Answer(c, "OK")
    BY <1>8 DEF InsertSeat, At, KeepTables
  <2>1. PICK row : row = [table |-> calls[c].table, user |-> calls[c].user, no |-> calls[c].no,
                          ready |-> FALSE]
    OBVIOUS
  <2>2. seats' = seats \cup {row} /\ row.table = calls[c].table
    BY <1>8, <2>1 DEF InsertSeat
  <2>3. \A t : SeatsAt(t) \subseteq SeatsAt(t)'
    BY <2>2 DEF SeatsAt
  <2>4. \A t \in TableIds : Dead(t)' => Dead(t) /\ ~Works(calls[c], t)
    <3> SUFFICES ASSUME NEW t \in TableIds, Dead(t)'  PROVE Dead(t) /\ ~Works(calls[c], t)
      OBVIOUS
    <3>1. SeatsAt(t)' = {} /\ SeatsAt(t) = {}
      BY <2>3 DEF Dead
    <3>2. Dead(t)
      BY <2>0, <3>1 DEF Dead, Status
    <3>3. ~Works(calls[c], t)
      <4> SUFFICES ASSUME Works(calls[c], t)  PROVE FALSE
        OBVIOUS
      <4>1. t = calls[c].table
        BY <2>0 DEF Works
      <4>2. PICK e : e = calls[c].table
        OBVIOUS
      <4>3. \E r \in seats' : r.table = e
        BY <2>2, <4>2
      <4>4. ~ \E r \in seats' : r.table = t
        BY <3>1 DEF SeatsAt
      <4> QED
        BY <4>1, <4>2, <4>3, <4>4
    <3> QED
      BY <3>2, <3>3
  <2> QED
    BY <2>0, <2>4, AnswerTends
<1> QED
  BY <1>3, <1>4, <1>5, <1>6, <1>7, <1>8

\* The other statements come from calls that have no empty table in their hands, and neither
\* empty one nor open one.
LEMMA OthersTend ==
  ASSUME LobbyInv, TablesKept, Tended, NEW c \in Calls,
         \/ SetReady(c) \/ StartSeats(c) \/ StartSwitch(c) \/ FinishSwitch(c) \/ FinishReset(c)
         \/ CloseTable(c) \/ Close(c)
  PROVE  Tended'
<1>0. /\ calls[c] \in CallType
      /\ calls[c].at \in {"SET_READY", "START_SEATS", "START_SWITCH", "FINISH_SWITCH", "FINISH_RESET",
                          "CLOSE_TABLE", "CLOSE"}
  BY DEF LobbyInv, CallsSane, SetReady, StartSeats, StartSwitch, FinishSwitch, FinishReset, CloseTable,
         Close, At
<1>1. \A t : ~Works(calls[c], t)
  BY <1>0 DEF Works
<1>2. \/ \E a \in Answers : Answer(c, a)
      \/ \E place \in {"START_SWITCH", "FINISH_RESET", "CLOSE"} : GoTo(c, place)
  BY DEF SetReady, StartSeats, StartSwitch, FinishSwitch, FinishReset, CloseTable, Close, Answers
<1>3. ASSUME \A t \in TableIds : Dead(t)' => Dead(t)  PROVE Tended'
  <2>1. ASSUME NEW place \in {"START_SWITCH", "FINISH_RESET", "CLOSE"}, GoTo(c, place)  PROVE Tended'
    <3>1. ASSUME NEW r, r.at = place  PROVE Handed(c, r)
      BY <1>1, <1>3, <2>1, <3>1 DEF Handed, Purpose
    <3> QED
      BY <2>1, <3>1, GoToTends
  <2> QED
    BY <1>1, <1>2, <1>3, <2>1, AnswerTends
<1>4. ASSUME \A t : SeatsAt(t)' = {} => SeatsAt(t) = {},
             \A t \in TableIds : /\ Status(t)' \in {"WAITING", "IN_MATCH"} => Status(t) \in {"WAITING", "IN_MATCH"}
                                 /\ tables'[t].left = tables[t].left
      PROVE  Tended'
  BY <1>3, <1>4 DEF Dead
<1>5. ASSUME NEW status \in {"WAITING", "IN_MATCH", "CLOSED"}, NEW t \in TableIds, seats' = seats,
             tables' = [tables EXCEPT ![t].status = status],
             Status(t) \in {"WAITING", "IN_MATCH"} \/ status = "CLOSED"
      PROVE  Tended'
  <2>1. \A u \in TableIds : /\ u # t => tables'[u] = tables[u]
                            /\ tables[u] \in TableType
    BY <1>5 DEF LobbyInv
  <2>2. tables'[t] = [tables[t] EXCEPT !.status = status]
    BY <1>5 DEF LobbyInv
  <2>3. tables'[t].status = status /\ tables'[t].left = tables[t].left
    BY <2>1, <2>2 DEF TableType
  <2>4. \A u : SeatsAt(u)' = SeatsAt(u)
    BY <1>5 DEF SeatsAt
  <2> QED
    BY <1>4, <1>5, <2>1, <2>3, <2>4 DEF Status
<1>6. CASE tables' = tables /\ \A t : SeatsAt(t)' = {} => SeatsAt(t) = {}
  BY <1>4, <1>6 DEF Status
<1>7. CASE seats' = seats /\ tables' = tables
  BY <1>6, <1>7 DEF SeatsAt
<1>8. CASE StartSwitch(c)
  <2>1. calls[c].table \in TableIds /\ seats' = seats
    BY <1>0, <1>8 DEF StartSwitch, At, CallType, Sane, Homeless, LobbyInv, CallsSane, KeepSeats
  <2> QED
    BY <1>5, <1>7, <1>8, <2>1 DEF StartSwitch, SwitchesToMatch
<1>9. CASE FinishSwitch(c)
  <2>1. calls[c].table \in TableIds /\ seats' = seats
    BY <1>0, <1>9 DEF FinishSwitch, At, CallType, Sane, Homeless, LobbyInv, CallsSane, KeepSeats
  <2> QED
    BY <1>5, <1>7, <1>9, <2>1 DEF FinishSwitch
<1>10. CASE Close(c)
  <2>1. calls[c].table \in TableIds /\ seats' = seats
    BY <1>0, <1>10 DEF Close, At, CallType, Sane, Homeless, LobbyInv, CallsSane, KeepSeats
  <2> QED
    BY <1>5, <1>10, <2>1 DEF Close
<1>11. ASSUME NEW f, \A r \in seats : f[r].table = r.table, seats' = {f[r] : r \in seats},
              tables' = tables
       PROVE  Tended'
  <2>1. \A t : SeatsAt(t)' = {} => SeatsAt(t) = {}
    BY <1>11 DEF SeatsAt
  <2> QED
    BY <1>6, <1>11, <2>1
<1>12. CASE SetReady(c)
  <2> DEFINE mine == SeatAt(calls[c].table, calls[c].user)
  <2>1. PICK ready \in BOOLEAN : seats' = (seats \ mine) \cup {[r EXCEPT !.ready = ready] : r \in mine}
    BY <1>12 DEF SetReady
  <2> DEFINE f == [r \in seats |-> IF r \in mine THEN [r EXCEPT !.ready = ready] ELSE r]
  <2>2. \A r \in seats : f[r].table = r.table
    BY DEF LobbyInv, SeatType
  <2>3. mine \subseteq seats
    BY DEF SeatAt
  <2> HIDE DEF mine
  <2>4. seats' = {f[r] : r \in seats}
    BY <2>1, <2>3
  <2>5. tables' = tables
    BY <1>12 DEF SetReady, KeepTables
  <2> HIDE DEF f
  <2> QED
    BY <1>11, <2>2, <2>4, <2>5
<1>13. CASE FinishReset(c)
  <2> DEFINE f == [r \in seats |-> IF r.table = calls[c].table THEN [r EXCEPT !.ready = FALSE] ELSE r]
  <2>1. \A r \in seats : f[r].table = r.table
    BY DEF LobbyInv, SeatType
  <2>2. seats' = {f[r] : r \in seats} /\ tables' = tables
    BY <1>13 DEF FinishReset, KeepTables
  <2> HIDE DEF f
  <2> QED
    BY <1>11, <2>1, <2>2
<1>14. CASE StartSeats(c) \/ CloseTable(c)
  BY <1>7, <1>14 DEF StartSeats, CloseTable, OnlyRead
<1> QED
  BY <1>8, <1>9, <1>10, <1>12, <1>13, <1>14

\* A call that begins has no table in its hands yet.
LEMMA BeginTends ==
  ASSUME LobbyInv, TablesKept, Tended, NEW c \in Calls, NEW u \in Users, NEW t \in TableIds,
         NEW op \in Queued \cup {"CREATE", "CURRENT", "CLOSE"}, Begin(c, op, u, t)
  PROVE  Tended'
<1> DEFINE own == IF op \in {"CREATE", "CURRENT"} THEN Nobody ELSE t
<1>1. PICK r : r = [NoCall EXCEPT !.op = op, !.user = u, !.at = First(op), !.since = Answered,
                           !.table = own]
  OBVIOUS
<1>2. calls' = [calls EXCEPT ![c] = r]
  BY <1>1 DEF Begin
<1>3. r.op = op /\ r.at = First(op)
  BY <1>1 DEF NoCall
<1>4. Purpose(r)'
  BY <1>3 DEF Purpose, First, Queued
<1>5. tables' = tables /\ seats' = seats /\ calls[c].at = "DONE"
  BY DEF Begin, At
<1>6. Handed(c, r)
  BY <1>4, <1>5, SameDead DEF Handed, Works
<1> QED
  BY <1>2, <1>6, HandedTends

\* The lobby starts with a host at his table.
LEMMA LobbyStartsTended == LobbyInit => Tended
<1> SUFFICES ASSUME LobbyInit  PROVE Tended
  OBVIOUS
<1>1. \A c \in Calls : calls[c].at = "DONE"
  BY DEF LobbyInit, NoCall
<1>2. \A c \in Calls : Purpose(calls[c])
  BY <1>1 DEF Purpose
<1>3. \A t \in TableIds : ~Dead(t)
  <2>1. CASE tables = [t \in TableIds |-> NoTable]
    BY <2>1 DEF Dead, Status, NoTable
  <2>2. ASSUME NEW t \in TableIds, NEW k \in 1..MaxPlayers, NEW who \in [0..(k - 1) -> Users],
               tables = Opened(t, who[0]),
               seats = {[table |-> t, user |-> who[i], no |-> i, ready |-> TRUE] : i \in DOMAIN who}
        PROVE  \A u \in TableIds : ~Dead(u)
    <3>1. 0 \in DOMAIN who
      BY LobbyAssumption
    <3>2. PICK row : row = [table |-> t, user |-> who[0], no |-> 0, ready |-> TRUE]
      OBVIOUS
    <3>3. row \in seats /\ row.table = t
      BY <2>2, <3>1, <3>2
    <3>4. SeatsAt(t) # {}
      BY <3>3 DEF SeatsAt
    <3>5. \A u \in TableIds \ {t} : tables[u] = NoTable
      BY <2>2 DEF Opened
    <3>6. \A u \in TableIds \ {t} : ~Dead(u)
      BY <3>5 DEF Dead, Status, NoTable
    <3> QED
      BY <3>4, <3>6 DEF Dead
  <2> QED
    BY <2>1, <2>2 DEF LobbyInit
<1> QED
  BY <1>2, <1>3 DEF Tended

\* Every open table at which nobody sits, and that was not left by a command, is in the hands
\* of a call that will take a seat at it or close it.
THEOREM TablesAreTended == LobbySpec => []Tended
<1>1. LobbyInit => Tended
  BY LobbyStartsTended
<1>2. LobbyInv /\ Tended /\ [LobbyNext]_lobbyVars => Tended'
  <2> SUFFICES ASSUME LobbyInv, Tended, [LobbyNext]_lobbyVars  PROVE Tended'
    OBVIOUS
  <2>1. TablesKept
    BY LobbyStepKeeps
  <2>2. ASSUME NEW c \in Calls, Statement(c)  PROVE Tended'
    BY <2>1, <2>2, LookingTends, LeavingTends, ClosingTends, InsertTends, JoiningTends, OthersTend
    DEF Statement
  <2>3. ASSUME NEW c \in Calls, NEW u \in Users, NEW t \in TableIds,
               NEW op \in Queued \cup {"CREATE", "CURRENT", "CLOSE"}, Begin(c, op, u, t)
        PROVE  Tended'
    BY <2>1, <2>3, BeginTends
  <2>4. CASE UNCHANGED lobbyVars
    BY <2>4 DEF lobbyVars, Tended, Purpose, Dead, Status, SeatsAt, Works
  <2> QED
    BY <2>2, <2>3, <2>4 DEF LobbyNext
<1> QED
  BY <1>1, <1>2, LobbyInvariant, PTL DEF LobbySpec

(***************************************************************************)
(* No table is left open with nobody at it: one that a player left for a   *)
(* table of his own, or opened and could not sit down at, is closed, with  *)
(* any number of calls in between (closeIfDeserted).                       *)
(***************************************************************************)
THEOREM NoDeadTablesEver == LobbySpec => []NoDeadTables
<1>1. Tended => NoDeadTables
  <2> SUFFICES ASSUME Tended, NEW t \in TableIds,
                      Status(t) = "WAITING" /\ SeatsAt(t) = {} /\ ~tables[t].left
               PROVE  \E c \in Calls : calls[c].at # "DONE" /\ t \in {calls[c].table, calls[c].previous}
    BY DEF NoDeadTables
  <2>1. PICK c \in Calls : Works(calls[c], t)
    BY DEF Tended, Dead
  <2> QED
    BY <2>1 DEF Works
<1> QED
  BY <1>1, TablesAreTended, PTL

-----------------------------------------------------------------------------
(***************************************************************************)
(* Attempts.  What a call has read costs it an attempt only if somebody    *)
(* sits down between the reading and the writing.  Loss says how many      *)
(* attempts a call is about to lose by what it has read so far; sitting    *)
(* down adds at most one to it and ends a call, so that every attempt lost *)
(* is paid for by a call that was answered.                                *)
(***************************************************************************)

Bit(b) == IF b THEN 1 ELSE 0

Elsewhere(u, t) == \E q \in SeatOf(u) : q.table # t

Loss(r) ==
  CASE r.at = "SEAT_OF"  -> Bit(SeatAt(r.table, r.user) # {})
    [] r.at = "TABLE_OF" -> Bit(r.previous = r.table \/ Elsewhere(r.user, r.previous))
    [] r.at = "UNSEAT"   -> Bit(Elsewhere(r.user, r.previous))
    [] r.at = "SEATS"    -> Bit(SeatOf(r.user) # {})
    [] r.at = "TAKE"     -> Bit(SeatOf(r.user) # {})
                            + Bit(SeatAt(r.table, r.user) = {} /\ r.no \in TakenNos(r.table))
    [] OTHER             -> 0

\* The statements at which nothing read can cost an attempt.
Safe == Places \ {"SEAT_OF", "TABLE_OF", "UNSEAT", "SEATS", "TAKE"}

Paid ==
  /\ Cardinality(Busy) <= begun
  /\ \A c \in Calls : calls[c].tries + Loss(calls[c]) <= Answered - calls[c].since

\* A loss is a small number.
LEMMA LossIsSmall ==
  ASSUME NEW r \in CallType
  PROVE  /\ Loss(r) \in 0..2 /\ Loss(r)' \in 0..2
         /\ r.at \in Safe => Loss(r) = 0 /\ Loss(r)' = 0
         /\ r.at # "TAKE" => Loss(r) \in 0..1 /\ Loss(r)' \in 0..1
BY DEF Loss, Bit, Safe

\* Without a new row no call is worse off: a player has one seat, and who loses it cannot be
\* refused for it.
LEMMA FewerSeatsCostNothing ==
  ASSUME LobbyInv,
         \A r \in seats' : \E q \in seats : r.table = q.table /\ r.user = q.user /\ r.no = q.no
  PROVE  \A r \in CallType : Loss(r)' <= Loss(r)
<1> SUFFICES ASSUME NEW r \in CallType  PROVE Loss(r)' <= Loss(r)
  OBVIOUS
<1>1. SeatAt(r.table, r.user)' # {} => SeatAt(r.table, r.user) # {}
  BY DEF SeatAt
<1>2. SeatOf(r.user)' # {} => SeatOf(r.user) # {}
  BY DEF SeatOf
<1>3. Elsewhere(r.user, r.previous)' => Elsewhere(r.user, r.previous)
  BY DEF Elsewhere, SeatOf
<1>4. (r.no \in TakenNos(r.table))' => r.no \in TakenNos(r.table)
  BY DEF TakenNos, SeatsAt
<1>5. SeatAt(r.table, r.user) # {} => SeatOf(r.user) # {}
  BY DEF SeatAt, SeatOf
<1>6. SeatAt(r.table, r.user) # {} /\ SeatOf(r.user)' # {} => SeatAt(r.table, r.user)' # {}
  <2> SUFFICES ASSUME NEW p \in SeatAt(r.table, r.user), NEW n \in SeatOf(r.user)'
               PROVE  SeatAt(r.table, r.user)' # {}
    OBVIOUS
  <2>1. PICK q \in seats : n.table = q.table /\ n.user = q.user
    BY DEF SeatOf
  <2>2. p \in seats /\ p.table = r.table /\ p.user = r.user /\ n \in seats' /\ n.user = r.user
    BY DEF SeatAt, SeatOf
  <2>3. p = q
    BY <2>1, <2>2 DEF LobbyInv, OneSeatEach
  <2> QED
    BY <2>1, <2>2, <2>3 DEF SeatAt
<1> QED
  BY <1>1, <1>2, <1>3, <1>4, <1>5, <1>6 DEF Loss, Bit

\* One new row, of a player who sat nowhere and on a seat that was free, costs one attempt.
LEMMA OneSeatCostsOne ==
  ASSUME LobbyInv, NEW row, seats' = seats \cup {row},
         SeatOf(row.user) = {}, row.no \notin TakenNos(row.table)
  PROVE  \A r \in CallType : Loss(r)' <= Loss(r) + 1
<1> SUFFICES ASSUME NEW r \in CallType  PROVE Loss(r)' <= Loss(r) + 1
  OBVIOUS
<1>1. CASE r.at # "TAKE"
  BY <1>1, LossIsSmall
<1>2. CASE r.at = "TAKE" /\ row.user = r.user
  <2>1. SeatOf(r.user) = {} /\ SeatAt(r.table, r.user) = {} /\ SeatOf(r.user)' # {}
    BY <1>2 DEF SeatOf, SeatAt
  <2>2. CASE row.table = r.table
    <3>1. SeatAt(r.table, r.user)' # {}
      BY <1>2, <2>2 DEF SeatAt
    <3> QED
      BY <1>2, <2>1, <3>1 DEF Loss, Bit
  <2>3. CASE row.table # r.table
    <3>1. (r.no \in TakenNos(r.table))' => r.no \in TakenNos(r.table)
      BY <2>3 DEF TakenNos, SeatsAt
    <3> QED
      BY <1>2, <2>1, <3>1 DEF Loss, Bit
  <2> QED
    BY <2>2, <2>3
<1>3. CASE r.at = "TAKE" /\ row.user # r.user
  <2>1. SeatOf(r.user)' = SeatOf(r.user) /\ SeatAt(r.table, r.user)' = SeatAt(r.table, r.user)
    BY <1>3 DEF SeatOf, SeatAt
  <2> QED
    BY <1>3, <2>1 DEF Loss, Bit
<1> QED
  BY <1>1, <1>2, <1>3

\* The call goes on as r: if that is the end of it, one more has been answered.
LEMMA AnswersAreCounted ==
  ASSUME LobbyInv, NEW c \in Calls, calls[c].at # "DONE", NEW r,
         calls' = [calls EXCEPT ![c] = r], begun' = begun
  PROVE  /\ Answered' = Answered + Bit(r.at = "DONE")
         /\ Cardinality(Busy)' <= Cardinality(Busy) /\ Cardinality(Busy)' \in Nat
<1>1. \A d \in Calls : calls'[d] = IF d = c THEN r ELSE calls[d]
  BY DEF LobbyInv, CallsSane
<1>2. IsFiniteSet(Busy) /\ Cardinality(Busy) \in Nat
  BY AnsweredIsANumber
<1>3. CASE r.at = "DONE"
  <2>1. Busy' = Busy \ {c} /\ c \in Busy
    BY <1>1, <1>3 DEF Busy
  <2>2. Cardinality(Busy \ {c}) = Cardinality(Busy) - 1 /\ Cardinality(Busy \ {c}) \in Nat
    BY <1>2, <2>1, FS_RemoveElement, FS_CardinalityType
  <2> QED
    BY <1>2, <1>3, <2>1, <2>2 DEF Answered, Bit, LobbyInv
<1>4. CASE r.at # "DONE"
  <2>1. Busy' = Busy
    BY <1>1, <1>4 DEF Busy
  <2> QED
    BY <1>2, <1>4, <2>1 DEF Answered, Bit, LobbyInv
<1> QED
  BY <1>3, <1>4

\* The call goes on as r and pays for what it costs the others.
LEMMA GoesOnPays ==
  ASSUME LobbyInv, Paid, NEW c \in Calls, calls[c].at # "DONE", NEW r \in CallType,
         calls' = [calls EXCEPT ![c] = r], begun' = begun,
         \A q \in CallType : Loss(q)' <= Loss(q) + Bit(r.at = "DONE"),
         \/ r.at = "DONE" /\ r.tries = 0 /\ r.since = 0
         \/ r.since = calls[c].since /\ r.tries + Loss(r)' <= calls[c].tries + Loss(calls[c])
  PROVE  Paid'
<1>1. /\ \A d \in Calls : calls[d] \in CallType
      /\ \A d \in Calls : calls'[d] = IF d = c THEN r ELSE calls[d]
  BY DEF LobbyInv, CallsSane
<1>2. /\ Answered' = Answered + Bit(r.at = "DONE") /\ Answered \in Int
      /\ Cardinality(Busy)' <= Cardinality(Busy)
      /\ Cardinality(Busy)' \in Nat /\ Cardinality(Busy) \in Nat
  BY AnswersAreCounted, AnsweredIsANumber
<1>3. Cardinality(Busy)' <= begun'
  BY <1>2 DEF Paid, LobbyInv
<1>4. Answered' >= Answered /\ Answered >= 0 /\ Answered' \in Int
  BY <1>2 DEF Bit, Answered, Paid, LobbyInv
<1>5. ASSUME NEW d \in Calls
      PROVE  (calls[d].tries + Loss(calls[d]) <= Answered - calls[d].since)'
  <2>1. PICK q \in CallType : q = calls'[d]
    BY <1>1
  <2>2. Loss(calls[d])' = Loss(q)'
    BY <2>1 DEF Loss, SeatAt, SeatOf, Elsewhere, TakenNos, SeatsAt
  <2>3. q.tries \in Int /\ q.since \in Int /\ Loss(q) \in Int /\ Loss(q)' \in Int
    BY LossIsSmall DEF CallType
  <2>4. q.tries + Loss(q)' <= Answered' - q.since
    <3>1. CASE d # c
      <4>1. q = calls[d]
        BY <1>1, <2>1, <3>1
      <4>2. q.tries + Loss(q) <= Answered - q.since
        BY <4>1 DEF Paid
      <4>3. Loss(q)' <= Loss(q) + Bit(r.at = "DONE")
        OBVIOUS
      <4> QED
        BY <1>2, <2>3, <4>2, <4>3 DEF Bit
    <3>2. CASE d = c /\ r.at = "DONE" /\ r.tries = 0 /\ r.since = 0
      <4>1. q = r /\ Loss(q)' = 0
        BY <1>1, <2>1, <3>2, LossIsSmall DEF Safe, Places
      <4> QED
        BY <1>2, <1>4, <3>2, <4>1
    <3>3. CASE d = c /\ r.since = calls[c].since /\ r.tries + Loss(r)' <= calls[c].tries + Loss(calls[c])
      <4>1. q = r
        BY <1>1, <2>1, <3>3
      <4>2. calls[c].tries + Loss(calls[c]) <= Answered - calls[c].since
        BY DEF Paid
      <4>3. calls[c].tries \in Int /\ Loss(calls[c]) \in Int
        BY <1>1, LossIsSmall DEF CallType
      <4> QED
        BY <1>2, <1>4, <2>3, <3>3, <4>1, <4>2, <4>3
    <3> QED
      BY <3>1, <3>2, <3>3
  <2> QED
    BY <2>1, <2>2, <2>4
<1> QED
  BY <1>3, <1>5 DEF Paid

\* A call that answers after nothing was read against it, or after sitting down.
LEMMA AnswerPays ==
  ASSUME LobbyInv, Paid, NEW c \in Calls, calls[c].at # "DONE", NEW a \in Answers, Answer(c, a),
         begun' = begun, \A q \in CallType : Loss(q)' <= Loss(q) + 1
  PROVE  Paid'
<1>1. PICK r : r = [NoCall EXCEPT !.table = calls[c].table, !.answer = a]
  OBVIOUS
<1>2. calls' = [calls EXCEPT ![c] = r] /\ calls[c].table \in TableIds \cup {Nobody}
  BY <1>1 DEF Answer, LobbyInv, CallsSane, CallType
<1>3. r \in CallType /\ r.at = "DONE" /\ r.tries = 0 /\ r.since = 0
  BY <1>1, <1>2, NoCallTyped DEF NoCall, CallType
<1>4. Bit(r.at = "DONE") = 1
  BY <1>3 DEF Bit
<1> QED
  BY <1>2, <1>3, <1>4, GoesOnPays

\* A call that goes to another statement with what it has, and is no worse off there.
LEMMA GoToPays ==
  ASSUME LobbyInv, Paid, NEW c \in Calls, calls[c].at # "DONE",
         NEW place \in Places \ {"DONE"}, GoTo(c, place), begun' = begun,
         \A q \in CallType : Loss(q)' <= Loss(q),
         \A r \in CallType :
           r.at = place /\ r.user = calls[c].user /\ r.table = calls[c].table
             /\ r.previous = calls[c].previous => Loss(r)' <= Loss(calls[c])
  PROVE  Paid'
<1>1. calls[c] \in CallType
  BY DEF LobbyInv, CallsSane
<1>2. PICK r : r = [calls[c] EXCEPT !.at = place]
  OBVIOUS
<1>3. /\ r \in CallType /\ r.at = place /\ r.user = calls[c].user /\ r.table = calls[c].table
      /\ r.previous = calls[c].previous /\ r.tries = calls[c].tries /\ r.since = calls[c].since
  BY <1>1, <1>2 DEF CallType
<1>4. calls' = [calls EXCEPT ![c] = r]
  BY <1>2 DEF GoTo
<1>5. Loss(r)' <= Loss(calls[c]) /\ Loss(r)' \in Int /\ Loss(calls[c]) \in Int /\ r.tries \in Int
  BY <1>1, <1>3, LossIsSmall DEF CallType
<1>6. r.tries + Loss(r)' <= calls[c].tries + Loss(calls[c]) /\ Bit(r.at = "DONE") = 0
  BY <1>3, <1>5 DEF Bit
<1>7. \A q \in CallType : Loss(q)' <= Loss(q) + Bit(r.at = "DONE")
  BY <1>6, LossIsSmall
<1> QED
  BY <1>3, <1>4, <1>6, <1>7, GoesOnPays

\* At a safe statement nothing can be lost any more.
LEMMA GoToSafetyPays ==
  ASSUME LobbyInv, Paid, NEW c \in Calls, calls[c].at # "DONE",
         NEW place \in Safe \ {"DONE"}, GoTo(c, place), begun' = begun,
         \A q \in CallType : Loss(q)' <= Loss(q)
  PROVE  Paid'
<1>1. \A r \in CallType : r.at = place => Loss(r)' <= Loss(calls[c])
  BY LossIsSmall DEF LobbyInv, CallsSane
<1> QED
  BY <1>1, GoToPays DEF Safe

\* What nobody sat down for, nobody lost.
LEMMA SameSeatsCostNothing ==
  ASSUME LobbyInv, seats' = seats
  PROVE  \A q \in CallType : Loss(q)' <= Loss(q)
BY FewerSeatsCostNothing

LEMMA NothingIsLessThanOne ==
  ASSUME \A q \in CallType : Loss(q)' <= Loss(q)
  PROVE  \A q \in CallType : Loss(q)' <= Loss(q) + 1
BY LossIsSmall

\* A call that is refused answers, or takes its table away first.
LEMMA RefusePays ==
  ASSUME LobbyInv, Paid, NEW c \in Calls, calls[c].at # "DONE", NEW a \in Answers, Refuse(c, a), OnlyRead
  PROVE  Paid'
<1>0. begun' = begun /\ \A q \in CallType : Loss(q)' <= Loss(q)
  BY SameSeatsCostNothing DEF OnlyRead
<1>1. CASE Answer(c, a)
  BY <1>0, <1>1, AnswerPays, NothingIsLessThanOne
<1>2. CASE calls' = [calls EXCEPT ![c].at = "DESERTED", ![c].previous = calls[c].table, ![c].answer = a]
  <2>1. calls[c] \in CallType
    BY DEF LobbyInv, CallsSane
  <2>2. PICK r : r = [calls[c] EXCEPT !.at = "DESERTED", !.previous = calls[c].table, !.answer = a]
    OBVIOUS
  <2>3. /\ r \in CallType /\ r.at = "DESERTED"
        /\ r.tries = calls[c].tries /\ r.since = calls[c].since
    BY <2>1, <2>2 DEF CallType, Places, Homeless
  <2>4. calls' = [calls EXCEPT ![c] = r]
    BY <1>2, <2>1, <2>2 DEF LobbyInv, CallsSane
  <2>5. Bit(r.at = "DONE") = 0 /\ Loss(r)' = 0 /\ Loss(calls[c]) >= 0
    BY <2>1, <2>3, LossIsSmall DEF Bit, Safe, Places, Homeless
  <2>6. r.tries + Loss(r)' <= calls[c].tries + Loss(calls[c])
    BY <2>1, <2>3, <2>5, LossIsSmall DEF CallType
  <2>7. \A q \in CallType : Loss(q)' <= Loss(q) + Bit(r.at = "DONE")
    BY <1>0, <2>5, LossIsSmall
  <2> QED
    BY <1>0, <2>3, <2>4, <2>6, <2>7, GoesOnPays
<1> QED
  BY <1>1, <1>2 DEF Refuse

\* Who is found to sit nowhere has lost nothing yet.
LEMMA SeatedNowherePays ==
  ASSUME LobbyInv, Paid, NEW c \in Calls, calls[c].at # "DONE", SeatedNowhere(c), begun' = begun,
         \A q \in CallType : Loss(q)' <= Loss(q),
         NEW u, u = calls[c].user, SeatOf(u)' # {} => Loss(calls[c]) = 1
  PROVE  Paid'
<1>1. CASE Answer(c, "NOWHERE")
  BY <1>1, AnswerPays, NothingIsLessThanOne DEF Answers
<1>2. CASE GoTo(c, "INSERT")
  BY <1>2, GoToSafetyPays DEF Safe, Places, Homeless
<1>3. CASE GoTo(c, "SEATS")
  <2>1. \A r \in CallType : r.at = "SEATS" /\ r.user = calls[c].user => Loss(r)' <= Loss(calls[c])
    <3> SUFFICES ASSUME NEW r \in CallType, r.at = "SEATS", r.user = calls[c].user
                 PROVE  Loss(r)' <= Loss(calls[c])
      OBVIOUS
    <3>1. Loss(calls[c]) \in 0..2
      BY LossIsSmall DEF LobbyInv, CallsSane
    <3>2. Loss(r)' = Bit(SeatOf(u)' # {})
      BY DEF Loss, SeatOf, Bit
    <3> QED
      BY <3>1, <3>2 DEF Bit
  <2> QED
    BY <1>3, <2>1, GoToPays DEF Places
<1> QED
  BY <1>1, <1>2, <1>3 DEF SeatedNowhere

\* The statements that look for the seat of a player.
LEMMA LookingPays ==
  ASSUME LobbyInv, Paid, NEW c \in Calls, ReadSeatOf(c) \/ ReadTableOf(c) \/ Unseat(c)
  PROVE  Paid'
<1>0. calls[c] \in CallType
  BY DEF LobbyInv, CallsSane
<1>1. CASE ReadSeatOf(c)
  <2>0. calls[c].at = "SEAT_OF" /\ begun' = begun /\ seats' = seats
    BY <1>1 DEF ReadSeatOf, OnlyRead, At
  <2>1. \A q \in CallType : Loss(q)' <= Loss(q)
    BY <2>0, SameSeatsCostNothing
  <2>2. CASE SeatOf(calls[c].user) = {}
    <3>1. PICK u : u = calls[c].user
      OBVIOUS
    <3>2. SeatOf(u)' = {}
      BY <2>0, <2>2, <3>1 DEF SeatOf
    <3> QED
      BY <1>1, <2>0, <2>1, <2>2, <3>1, <3>2, SeatedNowherePays DEF ReadSeatOf
  <2>3. CASE SeatOf(calls[c].user) # {}
    <3>1. PICK row \in SeatOf(calls[c].user) :
            calls' = [calls EXCEPT ![c].at = "TABLE_OF", ![c].previous = row.table]
      BY <1>1, <2>3 DEF ReadSeatOf
    <3>2. row.table \in TableIds /\ row \in seats /\ row.user = calls[c].user
      BY <3>1 DEF SeatOf, LobbyInv, SeatType
    <3>3. PICK r : r = [calls[c] EXCEPT !.at = "TABLE_OF", !.previous = row.table]
      OBVIOUS
    <3>4. /\ r \in CallType /\ r.at = "TABLE_OF" /\ r.user = calls[c].user /\ r.table = calls[c].table
          /\ r.previous = row.table /\ r.tries = calls[c].tries /\ r.since = calls[c].since
      BY <1>0, <3>2, <3>3 DEF CallType, Places, Homeless
    <3>5. calls' = [calls EXCEPT ![c] = r]
      BY <3>1, <3>3 DEF LobbyInv, CallsSane
    <3>6. ~Elsewhere(r.user, r.previous)
      BY <3>2, <3>4 DEF Elsewhere, SeatOf, LobbyInv, OneSeatEach
    <3>7. r.previous = r.table => SeatAt(calls[c].table, calls[c].user) # {}
      BY <3>2, <3>4 DEF SeatAt
    <3>8. Loss(r) <= Loss(calls[c])
      BY <2>0, <3>4, <3>6, <3>7 DEF Loss, Bit
    <3>9. Bit(r.at = "DONE") = 0 /\ r.tries + Loss(r)' <= calls[c].tries + Loss(calls[c])
      BY <1>0, <2>1, <3>4, <3>8, LossIsSmall DEF Bit, CallType
    <3>10. \A q \in CallType : Loss(q)' <= Loss(q) + Bit(r.at = "DONE")
      BY <2>1, <3>9, LossIsSmall
    <3> QED
      BY <2>0, <3>4, <3>5, <3>9, <3>10, GoesOnPays
  <2> QED
    BY <2>2, <2>3
<1>2. CASE ReadTableOf(c)
  <2>0. calls[c].at = "TABLE_OF" /\ begun' = begun /\ seats' = seats /\ OnlyRead
    BY <1>2 DEF ReadTableOf, OnlyRead, At
  <2>1. \A q \in CallType : Loss(q)' <= Loss(q)
    BY <2>0, SameSeatsCostNothing
  <2>2. CASE GoTo(c, "UNSEAT")
    <3>1. ASSUME NEW r \in CallType, r.at = "UNSEAT", r.user = calls[c].user,
                 r.previous = calls[c].previous
          PROVE  Loss(r)' <= Loss(calls[c])
      <4>1. Loss(r) <= Loss(calls[c])
        BY <2>0, <3>1 DEF Loss, Bit
      <4> QED
        BY <1>0, <2>1, <4>1, LossIsSmall
    <3> QED
      BY <2>0, <2>1, <2>2, <3>1, GoToPays DEF Places, Homeless
  <2>3. CASE calls[c].previous = calls[c].table /\ GoTo(c, "SEATS")
    <3>1. Loss(calls[c]) = 1
      BY <2>0, <2>3 DEF Loss, Bit
    <3>2. \A r \in CallType : r.at = "SEATS" => Loss(r)' <= Loss(calls[c])
      BY <3>1, LossIsSmall
    <3> QED
      BY <2>0, <2>1, <2>3, <3>2, GoToPays DEF Places
  <2>4. CASE GoTo(c, "LEAVE_TABLE")
    BY <2>0, <2>1, <2>4, GoToSafetyPays DEF Safe, Places, Homeless
  <2>5. CASE Refuse(c, "ALREADY_AT_TABLE")
    BY <2>0, <2>5, RefusePays DEF Answers
  <2>6. CASE Answer(c, "SEATED") \/ Answer(c, "MATCH_IN_PROGRESS")
    BY <2>0, <2>1, <2>6, AnswerPays, NothingIsLessThanOne DEF Answers
  <2> QED
    BY <1>2, <2>2, <2>3, <2>4, <2>5, <2>6 DEF ReadTableOf, SeatedAt
<1>3. CASE Unseat(c)
  <2>1. PICK u : u = calls[c].user
    OBVIOUS
  <2>2. /\ calls[c].at = "UNSEAT" /\ begun' = begun
        /\ seats' = seats \ SeatAt(calls[c].previous, u)
    BY <1>3, <2>1 DEF Unseat, KeepTables, At
  <2>3. \A q \in CallType : Loss(q)' <= Loss(q)
    BY <2>2, FewerSeatsCostNothing
  <2>4. SeatOf(u)' # {} => Elsewhere(u, calls[c].previous)
    BY <2>2 DEF SeatOf, SeatAt, Elsewhere
  <2>5. SeatOf(u)' # {} => Loss(calls[c]) = 1
    BY <2>1, <2>2, <2>4 DEF Loss, Bit
  <2> QED
    BY <1>3, <2>1, <2>2, <2>3, <2>5, SeatedNowherePays DEF Unseat
<1> QED
  BY <1>1, <1>2, <1>3

\* The statements that take a seat.
LEMMA JoiningPays ==
  ASSUME LobbyInv, Paid, NEW c \in Calls,
         JoinSeat(c) \/ ReadSeats(c) \/ InsertSeat(c) \/ SeatLost(c) \/ SeatAgain(c)
  PROVE  Paid'
<1>0. calls[c] \in CallType
  BY DEF LobbyInv, CallsSane
<1>1. ASSUME OnlyRead
      PROVE  seats' = seats /\ begun' = begun /\ \A q \in CallType : Loss(q)' <= Loss(q)
  BY <1>1, SameSeatsCostNothing DEF OnlyRead
<1>2. CASE JoinSeat(c)
  <2>0. calls[c].at = "JOIN_SEAT" /\ OnlyRead
    BY <1>2 DEF JoinSeat, At
  <2>1. CASE Answer(c, "OK")
    BY <1>1, <2>0, <2>1, AnswerPays, NothingIsLessThanOne DEF Answers
  <2>2. CASE GoTo(c, "SEAT_OF") /\ SeatAt(calls[c].table, calls[c].user) = {}
    <3>1. ASSUME NEW r \in CallType, r.at = "SEAT_OF", r.user = calls[c].user, r.table = calls[c].table
          PROVE  Loss(r)' <= Loss(calls[c])
      <4>1. Loss(r) = 0
        BY <2>2, <3>1 DEF Loss, Bit
      <4> QED
        BY <1>0, <1>1, <2>0, <4>1, LossIsSmall
    <3> QED
      BY <1>1, <2>0, <2>2, <3>1, GoToPays DEF Places, Homeless
  <2> QED
    BY <1>2, <2>1, <2>2 DEF JoinSeat
<1>3. CASE ReadSeats(c)
  <2>0. calls[c].at = "SEATS" /\ OnlyRead
    BY <1>3 DEF ReadSeats, At
  <2>1. CASE Refuse(c, "TABLE_FULL")
    BY <2>0, <2>1, RefusePays DEF Answers
  <2>2. CASE /\ FirstFreeSeat(calls[c].table) # -1
             /\ calls' = [calls EXCEPT ![c].at = "TAKE", ![c].no = FirstFreeSeat(calls[c].table)]
    <3>1. PICK n : n = FirstFreeSeat(calls[c].table)
      OBVIOUS
    <3>2. n \in Int /\ n \notin TakenNos(calls[c].table)
      BY <2>2, <3>1, FreeSeatIsFree
    <3>3. PICK r : r = [calls[c] EXCEPT !.at = "TAKE", !.no = n]
      OBVIOUS
    <3>4. /\ r \in CallType /\ r.at = "TAKE" /\ r.user = calls[c].user /\ r.table = calls[c].table
          /\ r.no = n /\ r.tries = calls[c].tries /\ r.since = calls[c].since
      BY <1>0, <3>2, <3>3 DEF CallType, Places
    <3>5. calls' = [calls EXCEPT ![c] = r]
      BY <2>2, <3>1, <3>3 DEF LobbyInv, CallsSane
    <3>6. Loss(r) = Loss(calls[c])
      BY <2>0, <3>2, <3>4 DEF Loss, Bit
    <3>7. Bit(r.at = "DONE") = 0 /\ r.tries + Loss(r)' <= calls[c].tries + Loss(calls[c])
      BY <1>0, <1>1, <2>0, <3>4, <3>6, LossIsSmall DEF Bit, CallType
    <3>8. \A q \in CallType : Loss(q)' <= Loss(q) + Bit(r.at = "DONE")
      BY <1>1, <2>0, <3>7, LossIsSmall
    <3> QED
      BY <1>1, <2>0, <3>4, <3>5, <3>7, <3>8, GoesOnPays
  <2> QED
    BY <1>3, <2>1, <2>2 DEF ReadSeats
<1>4. CASE InsertSeat(c)
  <2>1. SeatOf(calls[c].user) = {} /\ calls[c].no \notin TakenNos(calls[c].table)
    BY <1>4, NoConflict DEF InsertSeat
  <2>2. PICK row : row = [table |-> calls[c].table, user |-> calls[c].user, no |-> calls[c].no,
                          ready |-> FALSE]
    OBVIOUS
  <2>3. row.table = calls[c].table /\ row.user = calls[c].user /\ row.no = calls[c].no
    BY <2>2
  <2>4. seats' = seats \cup {row} /\ begun' = begun /\ calls[c].at = "TAKE" /\ Answer(c, "OK")
    BY <1>4, <2>2 DEF InsertSeat, KeepTables, At
  <2>5. \A q \in CallType : Loss(q)' <= Loss(q) + 1
    BY <2>1, <2>3, <2>4, OneSeatCostsOne
  <2> QED
    BY <2>4, <2>5, AnswerPays DEF Answers
<1>5. CASE SeatLost(c)
  <2>1. PICK conflict : conflict = SeatConflict(calls[c].table, calls[c].user, calls[c].no)
    OBVIOUS
  <2>2. /\ calls[c].at = "TAKE" /\ OnlyRead /\ conflict # "NONE"
        /\ calls' = [calls EXCEPT ![c].tries = @ + 1,
                       ![c].at = CASE conflict = "SEAT_TAKEN"     -> "SEATS"
                                   [] conflict = "ALREADY_SEATED" -> "SEAT_AGAIN"
                                   [] OTHER                       -> "SEAT_OF"]
    BY <1>5, <2>1 DEF SeatLost, At
  <2>3. PICK place : place = CASE conflict = "SEAT_TAKEN"     -> "SEATS"
                               [] conflict = "ALREADY_SEATED" -> "SEAT_AGAIN"
                               [] OTHER                       -> "SEAT_OF"
    OBVIOUS
  <2>4. place \in {"SEATS", "SEAT_AGAIN", "SEAT_OF"}
    BY <2>3
  <2>5. PICK r : r = [calls[c] EXCEPT !.tries = @ + 1, !.at = place]
    OBVIOUS
  <2>6. /\ r \in CallType /\ r.at = place /\ r.user = calls[c].user /\ r.table = calls[c].table
        /\ r.tries = calls[c].tries + 1 /\ r.since = calls[c].since
    <3>1. calls[c].tries + 1 \in Int /\ place \in Places
      BY <1>0, <2>4 DEF CallType, Places, Homeless
    <3> QED
      BY <1>0, <2>5, <3>1 DEF CallType
  <2>7. calls' = [calls EXCEPT ![c] = r]
    BY <2>2, <2>3, <2>5 DEF LobbyInv, CallsSane
  <2>8. Loss(r) + 1 <= Loss(calls[c])
    <3>1. CASE conflict = "ALREADY_SEATED"
      <4>1. SeatOf(calls[c].user) # {}
        BY <2>1, <3>1 DEF SeatConflict, SeatAt, SeatOf
      <4>2. Loss(calls[c]) >= 1
        BY <2>2, <4>1 DEF Loss, Bit
      <4> QED
        BY <1>0, <2>3, <2>6, <3>1, <4>2, LossIsSmall DEF Safe, Places, Homeless
    <3>2. CASE conflict = "SEAT_TAKEN"
      <4>1. SeatAt(calls[c].table, calls[c].user) = {} /\ calls[c].no \in TakenNos(calls[c].table)
        BY <2>1, <3>2 DEF SeatConflict
      <4>2. Loss(calls[c]) = Bit(SeatOf(calls[c].user) # {}) + 1
        BY <2>2, <4>1 DEF Loss, Bit
      <4>3. Loss(r) = Bit(SeatOf(calls[c].user) # {})
        BY <2>3, <2>6, <3>2 DEF Loss
      <4> QED
        BY <4>2, <4>3 DEF Bit
    <3>3. CASE conflict \notin {"ALREADY_SEATED", "SEAT_TAKEN"}
      <4>1. SeatAt(calls[c].table, calls[c].user) = {} /\ SeatOf(calls[c].user) # {}
        BY <2>1, <2>2, <3>3 DEF SeatConflict
      <4>2. Loss(calls[c]) >= 1
        BY <2>2, <4>1 DEF Loss, Bit
      <4>3. Loss(r) = 0
        BY <2>3, <2>6, <3>3, <4>1 DEF Loss, Bit
      <4> QED
        BY <1>0, <4>2, <4>3, LossIsSmall
    <3> QED
      BY <3>1, <3>2, <3>3
  <2>9. Bit(r.at = "DONE") = 0 /\ r.tries + Loss(r)' <= calls[c].tries + Loss(calls[c])
    BY <1>0, <1>1, <2>2, <2>4, <2>6, <2>8, LossIsSmall DEF Bit, CallType
  <2>10. \A q \in CallType : Loss(q)' <= Loss(q) + Bit(r.at = "DONE")
    BY <1>1, <2>2, <2>9, LossIsSmall
  <2> QED
    BY <1>1, <2>2, <2>6, <2>7, <2>9, <2>10, GoesOnPays
<1>6. CASE SeatAgain(c)
  <2>0. calls[c].at = "SEAT_AGAIN" /\ OnlyRead
    BY <1>6 DEF SeatAgain, At
  <2> QED
    BY <1>1, <1>6, <2>0, AnswerPays, RefusePays, NothingIsLessThanOne DEF SeatAgain, Answers
<1> QED
  BY <1>2, <1>3, <1>4, <1>5, <1>6

\* The statements that leave, close and open tables, and those of the match.  None of them
\* adds a row, and after them the call answers or is at a safe statement.
LEMMA OthersPay ==
  ASSUME LobbyInv, Paid, NEW c \in Calls,
         \/ LeaveTable(c) \/ LeaveSeat(c) \/ LeaveDelete(c) \/ CloseIfDeserted(c) \/ CloseDeserted(c)
         \/ \E t \in TableIds : Insert(c, t)
         \/ JoinTable(c) \/ SetReady(c) \/ StartSeats(c) \/ StartSwitch(c)
         \/ FinishSwitch(c) \/ FinishReset(c) \/ CloseTable(c) \/ Close(c)
  PROVE  Paid'
<1>0. calls[c] \in CallType
  BY DEF LobbyInv, CallsSane
<1>1. ASSUME seats' \subseteq seats  PROVE \A q \in CallType : Loss(q)' <= Loss(q)
  BY <1>1, FewerSeatsCostNothing
<1>2. ASSUME seats' \subseteq seats, begun' = begun, calls[c].at # "DONE", NEW a \in Answers, Answer(c, a)
      PROVE  Paid'
  BY <1>1, <1>2, AnswerPays, NothingIsLessThanOne
<1>3. ASSUME seats' \subseteq seats, begun' = begun, calls[c].at # "DONE",
             NEW place \in Safe \ {"DONE"}, GoTo(c, place)
      PROVE  Paid'
  BY <1>1, <1>3, GoToSafetyPays
<1>4. ASSUME NEW r \in CallType, r.at \in Safe \ {"DONE"}, calls' = [calls EXCEPT ![c] = r],
             r.tries = calls[c].tries, r.since = calls[c].since,
             seats' = seats, begun' = begun, calls[c].at # "DONE"
      PROVE  Paid'
  <2>1. Bit(r.at = "DONE") = 0 /\ r.tries + Loss(r)' <= calls[c].tries + Loss(calls[c])
    BY <1>0, <1>4, LossIsSmall DEF Bit, CallType
  <2>2. \A q \in CallType : Loss(q)' <= Loss(q) + Bit(r.at = "DONE")
    BY <1>1, <1>4, <2>1, LossIsSmall
  <2> QED
    BY <1>4, <2>1, <2>2, GoesOnPays
<1>5. CASE LeaveTable(c)
  <2>1. PICK r : r = [calls[c] EXCEPT !.at = "LEAVE_SEAT", !.inMatch = (Status(Leaves(c)) = "IN_MATCH")]
    OBVIOUS
  <2>2. (Status(Leaves(c)) = "IN_MATCH") \in BOOLEAN
    OBVIOUS
  <2>3. r \in CallType /\ r.at = "LEAVE_SEAT" /\ r.tries = calls[c].tries /\ r.since = calls[c].since
    BY <1>0, <2>1, <2>2 DEF CallType, Places, Homeless
  <2>4. calls' = [calls EXCEPT ![c] = r] /\ seats' = seats /\ begun' = begun /\ calls[c].at # "DONE"
    BY <1>5, <2>1 DEF LeaveTable, At, OnlyRead, LobbyInv, CallsSane
  <2> QED
    BY <1>4, <2>3, <2>4 DEF Safe, Places, Homeless
<1>6. CASE LeaveSeat(c)
  <2>1. /\ HasLeft(c) \/ Answer(c, "MATCH_IN_PROGRESS") \/ GoTo(c, "LEAVE_DELETE")
        /\ seats' \subseteq seats /\ begun' = begun /\ calls[c].at # "DONE"
    BY <1>6 DEF LeaveSeat, At, OnlyRead
  <2> QED
    BY <1>2, <1>3, <2>1 DEF HasLeft, Safe, Places, Homeless, Answers
<1>7. CASE LeaveDelete(c)
  <2>1. HasLeft(c) /\ seats' \subseteq seats /\ begun' = begun /\ calls[c].at # "DONE"
    BY <1>7 DEF LeaveDelete, At
  <2> QED
    BY <1>2, <1>3, <2>1 DEF HasLeft, Safe, Places, Homeless, Answers
<1>8. CASE CloseIfDeserted(c) \/ CloseDeserted(c)
  <2>1. /\ NextAfterClosing(c) \/ GoTo(c, "CLOSE_DESERTED")
        /\ seats' \subseteq seats /\ begun' = begun /\ calls[c].at # "DONE"
    BY <1>8 DEF CloseIfDeserted, CloseDeserted, At, OnlyRead, KeepSeats
  <2>2. PICK a \in Answers : a = calls[c].answer
    BY <1>0 DEF CallType
  <2> QED
    BY <1>2, <1>3, <2>1, <2>2 DEF NextAfterClosing, Safe, Places, Homeless
<1>9. CASE \E t \in TableIds : Insert(c, t)
  <2>1. PICK t \in TableIds : Insert(c, t)
    BY <1>9
  <2>2. PICK r : r = [calls[c] EXCEPT !.at = "JOIN_TABLE", !.table = t]
    OBVIOUS
  <2>3. r \in CallType /\ r.at = "JOIN_TABLE" /\ r.tries = calls[c].tries /\ r.since = calls[c].since
    BY <1>0, <2>2 DEF CallType, Places
  <2>4. calls' = [calls EXCEPT ![c] = r] /\ seats' = seats /\ begun' = begun /\ calls[c].at # "DONE"
    BY <2>1, <2>2 DEF Insert, KeepSeats, At, LobbyInv, CallsSane
  <2> QED
    BY <1>4, <2>3, <2>4 DEF Safe, Places
<1>10. CASE JoinTable(c)
  <2>1. /\ GoTo(c, "JOIN_SEAT") \/ Refuse(c, "TABLE_NOT_OPEN")
        /\ OnlyRead /\ seats' \subseteq seats /\ begun' = begun /\ calls[c].at # "DONE"
    BY <1>10 DEF JoinTable, At, OnlyRead
  <2> QED
    BY <1>3, <2>1, RefusePays DEF Safe, Places, Homeless, Answers
<1>11. ASSUME NEW f,
              \A r \in seats : f[r].table = r.table /\ f[r].user = r.user /\ f[r].no = r.no,
              seats' = {f[r] : r \in seats}
       PROVE  \A q \in CallType : Loss(q)' <= Loss(q)
  <2>1. \A r \in seats' : \E q \in seats : r.table = q.table /\ r.user = q.user /\ r.no = q.no
    BY <1>11
  <2> QED
    BY <2>1, FewerSeatsCostNothing
<1>12. CASE SetReady(c)
  <2> DEFINE mine == SeatAt(calls[c].table, calls[c].user)
  <2>1. PICK ready \in BOOLEAN : seats' = (seats \ mine) \cup {[r EXCEPT !.ready = ready] : r \in mine}
    BY <1>12 DEF SetReady
  <2> DEFINE f == [r \in seats |-> IF r \in mine THEN [r EXCEPT !.ready = ready] ELSE r]
  <2>2. \A r \in seats : f[r].table = r.table /\ f[r].user = r.user /\ f[r].no = r.no
    BY DEF LobbyInv, SeatType
  <2>3. mine \subseteq seats
    BY DEF SeatAt
  <2>4. /\ Answer(c, "OK") \/ Answer(c, "NOT_AT_TABLE")
        /\ begun' = begun /\ calls[c].at # "DONE"
    BY <1>12 DEF SetReady, KeepTables, At
  <2> HIDE DEF mine
  <2>5. seats' = {f[r] : r \in seats}
    BY <2>1, <2>3
  <2> HIDE DEF f
  <2>6. \A q \in CallType : Loss(q)' <= Loss(q)
    BY <1>11, <2>2, <2>5
  <2> QED
    BY <2>4, <2>6, AnswerPays, NothingIsLessThanOne DEF Answers
<1>13. CASE FinishReset(c)
  <2> DEFINE f == [r \in seats |-> IF r.table = calls[c].table THEN [r EXCEPT !.ready = FALSE] ELSE r]
  <2>1. \A r \in seats : f[r].table = r.table /\ f[r].user = r.user /\ f[r].no = r.no
    BY DEF LobbyInv, SeatType
  <2>2. seats' = {f[r] : r \in seats}
    BY <1>13 DEF FinishReset
  <2>3. Answer(c, "OK") /\ begun' = begun /\ calls[c].at # "DONE"
    BY <1>13 DEF FinishReset, KeepTables, At
  <2> HIDE DEF f
  <2>4. \A q \in CallType : Loss(q)' <= Loss(q)
    BY <1>11, <2>1, <2>2
  <2> QED
    BY <2>3, <2>4, AnswerPays, NothingIsLessThanOne DEF Answers
<1>14. CASE StartSeats(c)
  <2>1. /\ GoTo(c, "START_SWITCH") \/ Answer(c, "TABLE_NOT_READY")
        /\ seats' \subseteq seats /\ begun' = begun /\ calls[c].at # "DONE"
    BY <1>14 DEF StartSeats, At, OnlyRead
  <2> QED
    BY <1>2, <1>3, <2>1 DEF Safe, Places, Homeless, Answers
<1>15. CASE StartSwitch(c) \/ FinishSwitch(c)
  <2>1. /\ GoTo(c, "FINISH_RESET") \/ Answer(c, "OK") \/ Answer(c, "MATCH_IN_PROGRESS")
        /\ seats' \subseteq seats /\ begun' = begun /\ calls[c].at # "DONE"
    BY <1>15 DEF StartSwitch, FinishSwitch, At, KeepSeats
  <2> QED
    BY <1>2, <1>3, <2>1 DEF Safe, Places, Homeless, Answers
<1>16. CASE CloseTable(c) \/ Close(c)
  <2>1. /\ \/ GoTo(c, "CLOSE") \/ Answer(c, "NOT_TABLE_HOST") \/ Answer(c, "OK")
           \/ Answer(c, "MATCH_IN_PROGRESS")
        /\ seats' \subseteq seats /\ begun' = begun /\ calls[c].at # "DONE"
    BY <1>16 DEF CloseTable, Close, At, OnlyRead, KeepSeats
  <2> QED
    BY <1>2, <1>3, <2>1 DEF Safe, Places, Homeless, Answers
<1> QED
  BY <1>5, <1>6, <1>7, <1>8, <1>9, <1>10, <1>12, <1>13, <1>14, <1>15, <1>16

\* A call that begins has lost nothing, and knows how many were answered before it.
LEMMA BeginPays ==
  ASSUME LobbyInv, Paid, NEW c \in Calls, NEW u \in Users, NEW t \in TableIds,
         NEW op \in Queued \cup {"CREATE", "CURRENT", "CLOSE"}, Begin(c, op, u, t)
  PROVE  Paid'
<1> DEFINE own == IF op \in {"CREATE", "CURRENT"} THEN Nobody ELSE t
<1>1. PICK r : r = [NoCall EXCEPT !.op = op, !.user = u, !.at = First(op), !.since = Answered,
                           !.table = own]
  OBVIOUS
<1>2. /\ calls' = [calls EXCEPT ![c] = r] /\ calls[c].at = "DONE" /\ begun' = begun + 1
      /\ seats' = seats
  BY <1>1 DEF Begin, At
<1>3. First(op) \in Places /\ (op \in {"CREATE", "CURRENT"} => First(op) = "SEAT_OF")
      /\ (op \notin {"CREATE", "CURRENT"} => First(op) \in Safe \ {"DONE"})
  BY DEF First, Safe, Places, Homeless, Queued
<1>4. own \in TableIds \cup {Nobody} /\ op \in Ops
  BY DEF Ops
<1>5. /\ r \in CallType /\ r.at = First(op) /\ r.table = own /\ r.tries = 0
      /\ r.since = Answered
  BY <1>1, <1>3, <1>4, NoCallTyped, AnsweredIsANumber DEF CallType, NoCall
<1>6. Loss(r)' = 0
  <2>1. CASE op \in {"CREATE", "CURRENT"}
    <3>1. SeatAt(Nobody, r.user)' = {}
      BY <1>2, LobbyAssumption DEF SeatAt, LobbyInv, SeatType
    <3> QED
      BY <1>3, <1>5, <2>1, <3>1 DEF Loss, Bit, SeatAt
  <2>2. CASE op \notin {"CREATE", "CURRENT"}
    BY <1>3, <1>5, <2>2, LossIsSmall
  <2> QED
    BY <2>1, <2>2
<1>7. \A q \in CallType : Loss(q)' <= Loss(q)
  BY <1>2, SameSeatsCostNothing
<1>8. /\ \A d \in Calls : calls[d] \in CallType
      /\ \A d \in Calls : calls'[d] = IF d = c THEN r ELSE calls[d]
  BY <1>2 DEF LobbyInv, CallsSane
<1>9. IsFiniteSet(Busy) /\ Cardinality(Busy) \in Nat /\ Answered \in Int
  BY AnsweredIsANumber
<1>10. Cardinality(Busy)' = Cardinality(Busy) + 1
  <2>1. r.at # "DONE"
    BY <1>3, <1>5 DEF Safe
  <2>2. Busy' = Busy \cup {c} /\ c \notin Busy
    BY <1>2, <1>8, <2>1 DEF Busy
  <2> QED
    BY <1>9, <2>2, FS_AddElement
<1>11. Answered' = Answered /\ Cardinality(Busy)' <= begun'
  BY <1>2, <1>9, <1>10 DEF Answered, Paid, LobbyInv
<1>12. ASSUME NEW d \in Calls
       PROVE  (calls[d].tries + Loss(calls[d]) <= Answered - calls[d].since)'
  <2>1. PICK q \in CallType : q = calls'[d]
    BY <1>5, <1>8
  <2>2. Loss(calls[d])' = Loss(q)'
    BY <2>1 DEF Loss, SeatAt, SeatOf, Elsewhere, TakenNos, SeatsAt
  <2>3. q.tries + Loss(q)' <= Answered - q.since
    <3>1. CASE d # c
      <4>1. q.tries + Loss(q) <= Answered - q.since
        BY <1>8, <2>1, <3>1 DEF Paid
      <4>2. Loss(q)' <= Loss(q)
        BY <1>7
      <4>3. q.tries \in Int /\ q.since \in Int /\ Loss(q) \in Int /\ Loss(q)' \in Int
        BY LossIsSmall DEF CallType
      <4> QED
        BY <1>9, <4>1, <4>2, <4>3
    <3>2. CASE d = c
      <4>1. q = r /\ Loss(q)' = 0
        BY <1>6, <1>8, <2>1, <3>2
      <4> QED
        BY <1>5, <1>9, <4>1
    <3> QED
      BY <3>1, <3>2
  <2> QED
    BY <1>11, <2>1, <2>2, <2>3
<1> QED
  BY <1>11, <1>12 DEF Paid

\* At the start nobody has lost anything, and nobody has been answered.
LEMMA LobbyStartsPaid == LobbyInit => Paid
<1> SUFFICES ASSUME LobbyInit  PROVE Paid
  OBVIOUS
<1>1. \A c \in Calls : calls[c] = NoCall
  BY DEF LobbyInit
<1>2. Busy = {}
  BY <1>1, NoCallTyped DEF Busy
<1>3. Cardinality(Busy) = 0 /\ begun = 0
  BY <1>2, FS_EmptySet DEF LobbyInit
<1>4. Loss(NoCall) = 0
  BY NoCallTyped, LossIsSmall DEF Safe, Places
<1>5. NoCall.tries = 0 /\ NoCall.since = 0
  BY DEF NoCall
<1> QED
  BY <1>1, <1>3, <1>4, <1>5 DEF Paid, Answered

\* Every attempt a call has lost, or is about to lose, was paid for by a call that was
\* answered since it began.
THEOREM AttemptsArePaid == LobbySpec => []Paid
<1>1. LobbyInit => Paid
  BY LobbyStartsPaid
<1>2. LobbyInv /\ Paid /\ [LobbyNext]_lobbyVars => Paid'
  <2> SUFFICES ASSUME LobbyInv, Paid, [LobbyNext]_lobbyVars  PROVE Paid'
    OBVIOUS
  <2>1. ASSUME NEW c \in Calls, Statement(c)  PROVE Paid'
    BY <2>1, LookingPays, JoiningPays, OthersPay DEF Statement
  <2>2. ASSUME NEW c \in Calls, NEW u \in Users, NEW t \in TableIds,
               NEW op \in Queued \cup {"CREATE", "CURRENT", "CLOSE"}, Begin(c, op, u, t)
        PROVE  Paid'
    BY <2>2, BeginPays
  <2>3. CASE UNCHANGED lobbyVars
    BY <2>3 DEF lobbyVars, Paid, Busy, Answered, Loss, SeatAt, SeatOf, Elsewhere, TakenNos, SeatsAt
  <2> QED
    BY <2>1, <2>2, <2>3 DEF LobbyNext
<1> QED
  BY <1>1, <1>2, LobbyInvariant, PTL DEF LobbySpec

\* Only the statement that reads the seats tells a player that the table is full; what was told
\* before stands until the call is over.
LEMMA OnlyReadSeatsTells ==
  ASSUME calls \in [Calls -> CallType], NEW c \in Calls, NEW d \in Calls, Statement(d),
         calls'[c].answer = "TABLE_FULL", calls[c].answer # "TABLE_FULL"
  PROVE  d = c /\ ReadSeats(c)
<1>0. /\ calls[c] \in CallType /\ calls[d] \in CallType /\ NoCall.answer = "NONE"
      /\ \A e \in Calls : DOMAIN calls[e] = DOMAIN NoCall
      /\ DOMAIN NoCall = {"op", "user", "table", "at", "previous", "inMatch", "no", "tries", "since", "answer"}
  BY DEF NoCall, CallType
<1>2. ASSUME NEW place, GoTo(d, place)  PROVE FALSE
  BY <1>2 DEF GoTo, CallType
<1>3. ASSUME NEW a, a # "TABLE_FULL", Answer(d, a)  PROVE FALSE
  BY <1>0, <1>3 DEF Answer, CallType, NoCall
<1>4. ASSUME NEW a, a # "TABLE_FULL", Refuse(d, a)  PROVE FALSE
  BY <1>0, <1>3, <1>4 DEF Refuse, CallType
<1>5. ASSUME SeatedNowhere(d)  PROVE FALSE
  BY <1>2, <1>3, <1>5 DEF SeatedNowhere
<1>6. ASSUME NEW t, SeatedAt(d, t)  PROVE FALSE
  BY <1>2, <1>3, <1>4, <1>6 DEF SeatedAt
<1>7. ASSUME HasLeft(d)  PROVE FALSE
  BY <1>2, <1>3, <1>7 DEF HasLeft
<1>8. ASSUME NextAfterClosing(d)  PROVE FALSE
  <2>1. Answer(d, calls[d].answer)
    BY <1>2, <1>8 DEF NextAfterClosing
  <2>2. calls[d].answer = "TABLE_FULL"
    BY <1>3, <2>1
  <2> QED
    BY <1>0, <2>1, <2>2 DEF Answer, CallType
<1>9. ~(ReadSeatOf(d) \/ ReadTableOf(d) \/ Unseat(d))
  BY <1>0, <1>2, <1>5, <1>6 DEF ReadSeatOf, ReadTableOf, Unseat, CallType
<1>10. ~(LeaveTable(d) \/ LeaveSeat(d) \/ LeaveDelete(d))
  BY <1>0, <1>2, <1>3, <1>7 DEF LeaveTable, LeaveSeat, LeaveDelete, CallType
<1>11. ~(CloseIfDeserted(d) \/ CloseDeserted(d) \/ \E t \in TableIds : Insert(d, t))
  BY <1>0, <1>2, <1>8 DEF CloseIfDeserted, CloseDeserted, Insert, CallType
<1>12. ~(JoinTable(d) \/ JoinSeat(d) \/ SeatAgain(d))
  BY <1>2, <1>3, <1>4 DEF JoinTable, JoinSeat, SeatAgain
<1>13. ~(InsertSeat(d) \/ SeatLost(d))
  BY <1>0, <1>3 DEF InsertSeat, SeatLost, CallType
<1>14. ~(SetReady(d) \/ StartSeats(d) \/ StartSwitch(d) \/ FinishSwitch(d) \/ FinishReset(d))
  BY <1>2, <1>3 DEF SetReady, StartSeats, StartSwitch, FinishSwitch, FinishReset
<1>15. ~(CloseTable(d) \/ Close(d))
  BY <1>2, <1>3 DEF CloseTable, Close
<1>16. ReadSeats(d)
  BY <1>9, <1>10, <1>11, <1>12, <1>13, <1>14, <1>15 DEF Statement
<1>17. d = c
  BY <1>0, <1>16 DEF ReadSeats, Refuse, Answer, CallType
<1> QED
  BY <1>16, <1>17

\* It tells him so when there is no free seat, or no attempt left.
LEMMA ReadSeatsRefuses ==
  ASSUME calls \in [Calls -> CallType], NEW c \in Calls, ReadSeats(c),
         calls'[c].answer = "TABLE_FULL", calls[c].answer # "TABLE_FULL"
  PROVE  FirstFreeSeat(calls[c].table) = -1 \/ calls[c].tries = Attempts
BY DEF ReadSeats, CallType

\* No number is found only if none is free.
LEMMA NoSeatIsFree ==
  ASSUME NEW t, FirstFreeSeat(t) = -1  PROVE FreeNos(t) = {}
<1> SUFFICES ASSUME FreeNos(t) # {}  PROVE FALSE
  OBVIOUS
<1>1. FreeNos(t) \subseteq 0..(MaxPlayers - 1)
  BY DEF FreeNos
<1>2. \E n \in FreeNos(t) : \A m \in FreeNos(t) : n <= m
  BY <1>1, LobbyAssumption
<1>3. FirstFreeSeat(t) \in FreeNos(t)
  BY <1>2 DEF FirstFreeSeat
<1> QED
  BY <1>1, <1>3

(***************************************************************************)
(* Who is told that a table is full saw it full, or as many calls as he    *)
(* had attempts were answered while his own was at work, with any number   *)
(* of players, seats, attempts and calls at once (Join, seatAttempts).     *)
(***************************************************************************)
THEOREM FullOrOutrunAlways == LobbySpec => FullOrOutrun
<1>1. LobbyInv /\ Paid /\ [LobbyNext]_lobbyVars =>
        [\A c \in Calls :
           calls'[c].answer = "TABLE_FULL" /\ calls[c].answer # "TABLE_FULL" =>
             \/ FreeNos(calls[c].table) = {}
             \/ Answered - calls[c].since >= Attempts]_lobbyVars
  <2> SUFFICES ASSUME LobbyInv, Paid, LobbyNext, NEW c \in Calls,
                      calls'[c].answer = "TABLE_FULL", calls[c].answer # "TABLE_FULL"
               PROVE  FreeNos(calls[c].table) = {} \/ Answered - calls[c].since >= Attempts
    OBVIOUS
  <2>0. calls[c] \in CallType /\ calls \in [Calls -> CallType]
    BY DEF LobbyInv, CallsSane
  <2>1. ~\E d \in Calls, u \in Users, t \in TableIds, op \in Queued \cup {"CREATE", "CURRENT", "CLOSE"} :
            Begin(d, op, u, t)
    <3> SUFFICES ASSUME NEW d \in Calls, NEW u, NEW t, NEW op, Begin(d, op, u, t)  PROVE FALSE
      OBVIOUS
    <3>1. PICK own : calls' = [calls EXCEPT ![d] =
                       [NoCall EXCEPT !.op = op, !.user = u, !.at = First(op), !.since = Answered,
                                      !.table = own]]
      BY DEF Begin
    <3>2. calls'[c] = calls[c] \/ calls'[c].answer = "NONE"
      BY <2>0, <3>1 DEF NoCall
    <3> QED
      BY <3>2
  <2>2. PICK d \in Calls : Statement(d)
    BY <2>1 DEF LobbyNext
  <2>3. ReadSeats(c)
    BY <2>0, <2>2, OnlyReadSeatsTells
  <2>4. FirstFreeSeat(calls[c].table) = -1 \/ calls[c].tries = Attempts
    BY <2>0, <2>3, ReadSeatsRefuses
  <2>5. CASE FirstFreeSeat(calls[c].table) = -1
    BY <2>5, NoSeatIsFree
  <2>6. CASE calls[c].tries = Attempts
    <3>1. calls[c].tries + Loss(calls[c]) <= Answered - calls[c].since
      BY DEF Paid
    <3> QED
      BY <2>0, <2>6, <3>1, LossIsSmall, AnsweredIsANumber DEF CallType
  <2> QED
    BY <2>4, <2>5, <2>6
<1> QED
  BY <1>1, LobbyInvariant, AttemptsArePaid, PTL DEF LobbySpec, FullOrOutrun

-----------------------------------------------------------------------------
\* Friends and notifications.

\* The type of a row, of an answer and of a call.
Rows ==
  [status : {"NONE", "PENDING", "ACCEPTED"}, by : Users \cup {Nobody}]

FriendAnswers ==
  {"NONE", "OK", "ALREADY_FRIENDS", "REQUEST_ALREADY_SENT", "NOT_FRIENDS", "NOT_YOUR_REQUEST",
   "NOT_FOUND", "TABLE_NOT_FOUND", "DELIVERED", "NOT_DELIVERED"}

Requests ==
  [op : {"NONE", "REQUEST", "ACCEPT", "REMOVE", "INVITE"},
   user : Users \cup {Nobody}, friend : Users \cup {Nobody},
   at : {"DONE", "FIND", "INSERT", "UPDATE", "DELETE", "SEND"},
   answer : FriendAnswers]

\* A row is backed by who has asked: the one who asks, and both when it is accepted.
Consented ==
  \A u, v \in Users : u # v =>
    LET row == friendships[{u, v}]
    IN /\ row.status = "PENDING" => row.by \in {u, v} /\ (row.by = u => <<u, v>> \in asked)
       /\ row.status = "ACCEPTED" => <<u, v>> \in asked

\* What a call in progress knows: that its user has asked, and before it accepts a row, that
\* the other one has, too.
Known(r) ==
  r.at # "DONE" =>
    /\ r.user \in Users /\ r.friend \in Users /\ r.user # r.friend
    /\ r.at \in {"INSERT", "UPDATE"} => r.op \in {"REQUEST", "ACCEPT"}
    /\ r.op \in {"REQUEST", "ACCEPT"} => <<r.user, r.friend>> \in asked
    /\ r.at = "UPDATE" => <<r.friend, r.user>> \in asked

\* The inductive invariant: the types, consent behind every row, and what each call knows.
FriendsInv ==
  /\ friendships \in [Couples -> Rows]
  /\ requests \in [Calls -> Requests]
  /\ Consented
  /\ \A c \in Calls : Known(requests[c])

-----------------------------------------------------------------------------
\* The couple of two different players is a key of the table.
LEMMA CoupleIsKey ==
  ASSUME NEW u \in Users, NEW v \in Users, u # v
  PROVE  {u, v} \in Couples
<1>1. <<u, v>> \in Pairs
  BY DEF Pairs
<1>2. {u, v} = {<<u, v>>[1], <<u, v>>[2]}
  OBVIOUS
<1> QED
  BY <1>1, <1>2 DEF Couples

\* A call that answers, or goes on to a statement that needs no consent of the other, knows
\* what it knew.
LEMMA RepliesKeeps ==
  ASSUME NEW c \in Calls, NEW answer \in FriendAnswers, FriendsInv,
         Replies(c, answer), UNCHANGED <<friendships, asked>>
  PROVE  FriendsInv'
<1>1. [NoRequest EXCEPT !.answer = answer] \in Requests
  BY DEF NoRequest, Requests
<1>2. requests' \in [Calls -> Requests]
  BY <1>1 DEF FriendsInv, Replies
<1>3. \A d \in Calls : requests'[d] = IF d = c THEN [NoRequest EXCEPT !.answer = answer] ELSE requests[d]
  BY DEF FriendsInv, Replies
<1>4. [NoRequest EXCEPT !.answer = answer].at = "DONE"
  BY DEF NoRequest
<1>5. \A d \in Calls : Known(requests[d])'
  BY <1>3, <1>4 DEF FriendsInv, Known
<1> QED
  BY <1>2, <1>5 DEF FriendsInv, Consented

\* A call that goes on to write: who is about to accept a row has found the other one's request.
LEMMA StepKeeps ==
  ASSUME NEW c \in Calls, NEW place \in {"INSERT", "UPDATE", "DELETE", "SEND"}, FriendsInv,
         StepTo(c, place), UNCHANGED <<friendships, asked>>,
         requests[c].at # "DONE",
         place \in {"INSERT", "UPDATE"} => requests[c].op \in {"REQUEST", "ACCEPT"},
         place = "UPDATE" => <<requests[c].friend, requests[c].user>> \in asked
  PROVE  FriendsInv'
<1>0. requests[c] \in Requests
  BY DEF FriendsInv
<1> DEFINE stepped == [requests[c] EXCEPT !.at = place]
<1>1. /\ stepped \in Requests /\ stepped.at = place /\ stepped.op = requests[c].op
      /\ stepped.user = requests[c].user /\ stepped.friend = requests[c].friend
  BY <1>0 DEF Requests
<1>3. requests' = [requests EXCEPT ![c] = stepped]
  BY DEF StepTo
<1> HIDE DEF stepped
<1>2. requests' \in [Calls -> Requests]
  BY <1>1, <1>3 DEF FriendsInv
<1>4. \A d \in Calls : requests'[d] = IF d = c THEN stepped ELSE requests[d]
  BY <1>3 DEF FriendsInv
<1>5. Known(requests[c])
  BY DEF FriendsInv
<1>6. \A d \in Calls : Known(requests[d])'
  BY <1>1, <1>4, <1>5 DEF FriendsInv, Known
<1> QED
  BY <1>2, <1>6 DEF FriendsInv, Consented

\* Who may accept a row accepts that of the other one.
LEMMA AcceptsTheOther ==
  ASSUME NEW c \in Calls, FriendsInv, requests[c].at # "DONE",
         CanBeAcceptedBy(Row(c), requests[c].user)
  PROVE  <<requests[c].friend, requests[c].user>> \in asked
<1> DEFINE u == requests[c].user
           v == requests[c].friend
<1>1. u \in Users /\ v \in Users /\ u # v
  BY DEF FriendsInv, Known
<1>2. Row(c) = friendships[{u, v}] /\ {u, v} = {v, u}
  BY DEF Row, Couple
<1>3. Row(c).by = v
  BY <1>1, <1>2 DEF FriendsInv, Consented, CanBeAcceptedBy
<1>4. friendships[{v, u}].status = "PENDING" /\ friendships[{v, u}].by = v
  BY <1>2, <1>3 DEF CanBeAcceptedBy
<1> QED
  BY <1>1, <1>4 DEF FriendsInv, Consented

\* A call that writes the row of its couple, with consent, and answers.
LEMMA WritesKeeps ==
  ASSUME NEW c \in Calls, NEW row \in Rows, NEW answer \in FriendAnswers, FriendsInv,
         requests[c].at # "DONE",
         Writes(c, row), Replies(c, answer), UNCHANGED asked,
         row.status = "PENDING" =>
           \/ row.by = requests[c].user /\ <<requests[c].user, requests[c].friend>> \in asked
           \/ row.by = requests[c].friend /\ <<requests[c].friend, requests[c].user>> \in asked,
         row.status = "ACCEPTED" => /\ <<requests[c].user, requests[c].friend>> \in asked
                                    /\ <<requests[c].friend, requests[c].user>> \in asked
  PROVE  FriendsInv'
<1> DEFINE x == requests[c].user
           y == requests[c].friend
<1>1. x \in Users /\ y \in Users /\ x # y
  BY DEF FriendsInv, Known
<1>2. {x, y} \in Couples
  BY <1>1, CoupleIsKey
<1>3. /\ friendships' \in [Couples -> Rows]
      /\ \A k \in Couples : friendships'[k] = IF k = {x, y} THEN row ELSE friendships[k]
  BY <1>2 DEF Writes, Couple, FriendsInv
<1>4. Consented'
  <2> SUFFICES ASSUME NEW u \in Users, NEW v \in Users, u # v
               PROVE  /\ friendships'[{u, v}].status = "PENDING" =>
                           /\ friendships'[{u, v}].by \in {u, v}
                           /\ friendships'[{u, v}].by = u => <<u, v>> \in asked
                      /\ friendships'[{u, v}].status = "ACCEPTED" => <<u, v>> \in asked
    BY DEF Consented
  <2>1. {u, v} \in Couples
    BY CoupleIsKey
  <2>2. CASE {u, v} = {x, y}
    <3>1. (u = x /\ v = y) \/ (u = y /\ v = x)
      BY <2>2
    <3>2. friendships'[{u, v}] = row
      BY <1>3, <2>1, <2>2
    <3> QED
      BY <1>1, <3>1, <3>2
  <2>3. CASE {u, v} # {x, y}
    <3>1. friendships'[{u, v}] = friendships[{u, v}]
      BY <1>3, <2>1, <2>3
    <3> QED
      BY <3>1 DEF FriendsInv, Consented
  <2> QED
    BY <2>2, <2>3
<1>5. [NoRequest EXCEPT !.answer = answer] \in Requests
  BY DEF NoRequest, Requests
<1>6. requests' \in [Calls -> Requests]
  BY <1>5 DEF FriendsInv, Replies
<1>7. \A d \in Calls : requests'[d] = IF d = c THEN [NoRequest EXCEPT !.answer = answer] ELSE requests[d]
  BY DEF FriendsInv, Replies
<1>8. [NoRequest EXCEPT !.answer = answer].at = "DONE"
  BY DEF NoRequest
<1>9. \A d \in Calls : Known(requests[d])'
  BY <1>7, <1>8 DEF FriendsInv, Known
<1> QED
  BY <1>3, <1>4, <1>6, <1>9 DEF FriendsInv

\* A call begins: from now on its user has asked, if that is what he does.
LEMMA AskKeeps ==
  ASSUME NEW c \in Calls, NEW op \in {"REQUEST", "ACCEPT", "REMOVE", "INVITE"}, NEW p \in Pairs,
         FriendsInv, Ask(c, op, p[1], p[2])
  PROVE  FriendsInv'
<1>1. p[1] \in Users /\ p[2] \in Users /\ p[1] # p[2]
  BY DEF Pairs
<1> DEFINE fresh == [op |-> op, user |-> p[1], friend |-> p[2], at |-> "FIND", answer |-> "NONE"]
<1>2. /\ fresh \in Requests /\ fresh.op = op /\ fresh.user = p[1] /\ fresh.friend = p[2]
      /\ fresh.at = "FIND"
  BY <1>1 DEF Requests, FriendAnswers
<1>3. requests' = [requests EXCEPT ![c] = fresh]
  BY DEF Ask
<1> HIDE DEF fresh
<1>4. asked \subseteq asked' /\ (op \in {"REQUEST", "ACCEPT"} => <<p[1], p[2]>> \in asked')
  BY DEF Ask
<1>5. /\ requests' \in [Calls -> Requests]
      /\ \A d \in Calls : requests'[d] = IF d = c THEN fresh ELSE requests[d]
  BY <1>2, <1>3 DEF FriendsInv
<1>6. \A d \in Calls : Known(requests[d])'
  BY <1>1, <1>2, <1>4, <1>5 DEF FriendsInv, Known
<1>7. Consented' /\ friendships' = friendships
  BY <1>4 DEF FriendsInv, Consented, Ask
<1> QED
  BY <1>5, <1>6, <1>7 DEF FriendsInv

-----------------------------------------------------------------------------
\* One statement of a call, of those that read and those that write.
LEMMA ProceedsKeeps ==
  ASSUME NEW c \in Calls, FriendsInv, Proceeds(c)
  PROVE  FriendsInv'
<1>0. /\ NoRow \in Rows /\ requests[c] \in Requests /\ Known(requests[c])
      /\ requests[c].at # "DONE" => Couple(c) \in Couples
      /\ requests[c].at # "DONE" => Row(c) \in Rows
  BY CoupleIsKey DEF NoRow, Rows, FriendsInv, Known, Couple, Row
<1>1. CASE \E op \in {"REQUEST", "ACCEPT", "REMOVE", "INVITE"}, p \in Pairs : Ask(c, op, p[1], p[2])
  BY <1>1, AskKeeps
<1>2. CASE RequestFinds(c)
  <2>1. requests[c].at = "FIND" /\ requests[c].op = "REQUEST" /\ UNCHANGED <<friendships, asked>>
    BY <1>2 DEF RequestFinds, InStep
  <2>2. \/ StepTo(c, "INSERT")
        \/ Replies(c, "ALREADY_FRIENDS")
        \/ StepTo(c, "UPDATE") /\ CanBeAcceptedBy(Row(c), requests[c].user)
        \/ Replies(c, "REQUEST_ALREADY_SENT")
    BY <1>2 DEF RequestFinds
  <2> QED
    BY <2>1, <2>2, RepliesKeeps, StepKeeps, AcceptsTheOther DEF FriendAnswers
<1>3. CASE RequestInserts(c)
  <2>1. requests[c].at = "INSERT" /\ UNCHANGED asked
    BY <1>3 DEF RequestInserts, InStep
  <2> DEFINE row == [status |-> "PENDING", by |-> requests[c].user]
  <2>2. row \in Rows /\ row.status = "PENDING" /\ row.by = requests[c].user
    BY <1>0, <2>1 DEF Rows, Known
  <2>3. <<requests[c].user, requests[c].friend>> \in asked
    BY <1>0, <2>1 DEF Known
  <2>4. CASE Writes(c, row) /\ Replies(c, "OK")
    <3> HIDE DEF row
    <3> QED
      BY <2>1, <2>2, <2>3, <2>4, WritesKeeps DEF FriendAnswers
  <2>5. CASE UNCHANGED friendships /\ Replies(c, "REQUEST_ALREADY_SENT")
    BY <2>1, <2>5, RepliesKeeps DEF FriendAnswers
  <2> QED
    BY <1>3, <2>4, <2>5 DEF RequestInserts
<1>4. CASE AcceptFinds(c)
  <2>1. requests[c].at = "FIND" /\ requests[c].op = "ACCEPT" /\ UNCHANGED <<friendships, asked>>
    BY <1>4 DEF AcceptFinds, InStep
  <2>2. \/ Replies(c, "NOT_FRIENDS")
        \/ Replies(c, "OK")
        \/ StepTo(c, "UPDATE") /\ CanBeAcceptedBy(Row(c), requests[c].user)
        \/ Replies(c, "NOT_YOUR_REQUEST")
    BY <1>4 DEF AcceptFinds
  <2> QED
    BY <2>1, <2>2, RepliesKeeps, StepKeeps, AcceptsTheOther DEF FriendAnswers
<1>5. CASE Accept(c)
  <2>1. requests[c].at = "UPDATE" /\ UNCHANGED asked
    BY <1>5 DEF Accept
  <2> DEFINE row == [Row(c) EXCEPT !.status = "ACCEPTED"]
  <2>2. row \in Rows /\ row.status = "ACCEPTED"
    BY <1>0, <2>1 DEF Rows
  <2>3. /\ <<requests[c].user, requests[c].friend>> \in asked
        /\ <<requests[c].friend, requests[c].user>> \in asked
    BY <1>0, <2>1 DEF Known
  <2>4. CASE Writes(c, row) /\ Replies(c, "OK")
    <3> HIDE DEF row
    <3> QED
      BY <2>1, <2>2, <2>3, <2>4, WritesKeeps DEF FriendAnswers
  <2>5. CASE UNCHANGED friendships /\ Replies(c, "NOT_FOUND")
    BY <2>1, <2>5, RepliesKeeps DEF FriendAnswers
  <2> QED
    BY <1>5, <2>4, <2>5 DEF Accept
<1>6. CASE RemoveFinds(c)
  BY <1>6, RepliesKeeps, StepKeeps DEF RemoveFinds, InStep, FriendAnswers
<1>7. CASE Remove(c)
  <2>1. requests[c].at = "DELETE" /\ UNCHANGED asked /\ Writes(c, NoRow)
    BY <1>7 DEF Remove, InStep
  <2>2. NoRow.status = "NONE"
    BY DEF NoRow
  <2>3. Replies(c, "NOT_FRIENDS") \/ Replies(c, "OK")
    BY <1>7 DEF Remove
  <2> QED
    BY <1>0, <2>1, <2>2, <2>3, WritesKeeps DEF FriendAnswers
<1>8. CASE InviteAsks(c)
  <2>1. requests[c].at = "FIND" /\ UNCHANGED <<friendships, asked>>
    BY <1>8 DEF InviteAsks, InStep
  <2>2. Replies(c, "TABLE_NOT_FOUND") \/ StepTo(c, "SEND") \/ Replies(c, "NOT_FRIENDS")
    BY <1>8 DEF InviteAsks
  <2> QED
    BY <2>1, <2>2, RepliesKeeps, StepKeeps DEF FriendAnswers
<1> QED
  BY <1>1, <1>2, <1>3, <1>4, <1>5, <1>6, <1>7, <1>8 DEF Proceeds

\* Friends.FriendsInit: a request that is there has been made.
LEMMA InitIsConsented == FriendsInit => FriendsInv
<1> SUFFICES ASSUME FriendsInit  PROVE FriendsInv
  OBVIOUS
<1>1. requests \in [Calls -> Requests] /\ \A c \in Calls : Known(requests[c])
  BY DEF FriendsInit, NoRequest, Requests, Known, FriendAnswers
<1>2. CASE asked = {}
  <2>1. friendships = [k \in Couples |-> NoRow]
    BY <1>2 DEF FriendsInit
  <2> QED
    BY <1>1, <2>1, CoupleIsKey DEF FriendsInv, Consented, Rows, NoRow
<1>3. CASE \E p \in Pairs : asked = {p}
  <2>1. PICK p \in Pairs : asked = {p}
    BY <1>3
  <2>2. p \in Users \X Users /\ p[1] # p[2] /\ p = <<p[1], p[2]>>
    BY DEF Pairs
  <2>3. (CHOOSE q \in asked : TRUE) = p
    BY <2>1
  <2>4. friendships = [k \in Couples |-> IF k = {p[1], p[2]}
                                         THEN [status |-> "PENDING", by |-> p[1]] ELSE NoRow]
    BY <2>1, <2>3 DEF FriendsInit
  <2>5. friendships \in [Couples -> Rows]
    BY <2>2, <2>4 DEF Rows, NoRow
  <2>6. Consented
    <3> SUFFICES ASSUME NEW u \in Users, NEW v \in Users, u # v
                 PROVE  /\ friendships[{u, v}].status = "PENDING" =>
                             /\ friendships[{u, v}].by \in {u, v}
                             /\ friendships[{u, v}].by = u => <<u, v>> \in asked
                        /\ friendships[{u, v}].status = "ACCEPTED" => <<u, v>> \in asked
      BY DEF Consented
    <3>1. {u, v} \in Couples
      BY CoupleIsKey
    <3>2. CASE {u, v} = {p[1], p[2]}
      <4>1. (u = p[1] /\ v = p[2]) \/ (u = p[2] /\ v = p[1])
        BY <3>2
      <4>2. friendships[{u, v}].status = "PENDING" /\ friendships[{u, v}].by = p[1]
        BY <2>4, <3>1, <3>2
      <4> QED
        BY <2>1, <2>2, <4>1, <4>2
    <3>3. CASE {u, v} # {p[1], p[2]}
      BY <2>4, <3>1, <3>3 DEF NoRow
    <3> QED
      BY <3>2, <3>3
  <2> QED
    BY <1>1, <2>5, <2>6 DEF FriendsInv
<1> QED
  BY <1>2, <1>3 DEF FriendsInit

-----------------------------------------------------------------------------
\* The inductive invariant: every row is backed by the players who have asked, and every call
\* by what it has read (FriendService.Request, Accept).
THEOREM FriendsInvariant == FriendsSpec => []FriendsInv
<1>1. FriendsInit => FriendsInv
  BY InitIsConsented
<1>2. FriendsInv /\ [FriendsNext]_<<friendVars, notificationVars>> => FriendsInv'
  <2> SUFFICES ASSUME FriendsInv, [FriendsNext]_<<friendVars, notificationVars>>
               PROVE  FriendsInv'
    OBVIOUS
  <2>1. CASE \E c \in Calls : Proceeds(c)
    BY <2>1, ProceedsKeeps
  <2>2. CASE \E u \in Users, tab \in Tabs : Attach(u, tab) \/ Detach(u, tab)
    <3>1. UNCHANGED <<friendships, requests, asked>>
      BY <2>2 DEF Attach, Detach
    <3> QED
      BY <3>1 DEF FriendsInv, Consented, Known
  <2>3. CASE \E c \in Calls : SendTableInvite(c)
    BY <2>3, RepliesKeeps DEF SendTableInvite, InStep, FriendAnswers
  <2>4. CASE UNCHANGED <<friendVars, notificationVars>>
    <3>1. UNCHANGED <<friendships, requests, asked>>
      BY <2>4 DEF friendVars
    <3> QED
      BY <3>1 DEF FriendsInv, Consented, Known
  <2> QED
    BY <2>1, <2>2, <2>3, <2>4 DEF FriendsNext
<1> QED
  BY <1>1, <1>2, PTL DEF FriendsSpec

\* However the calls interleave, nobody is anybody's friend who has not asked or accepted
\* himself, though a row may be another one when it is written (Friendships.Accept).
THEOREM FriendshipTakesTwoAlways == FriendsSpec => []FriendshipTakesTwo
<1>1. FriendsInv => FriendshipTakesTwo
  <2> SUFFICES ASSUME FriendsInv, NEW p \in Pairs
               PROVE  /\ friendships[{p[1], p[2]}].status = "ACCEPTED" => p \in asked
                      /\ friendships[{p[1], p[2]}].status = "PENDING"
                           /\ friendships[{p[1], p[2]}].by = p[1] => p \in asked
    BY DEF FriendshipTakesTwo
  <2>1. p[1] \in Users /\ p[2] \in Users /\ p[1] # p[2] /\ p = <<p[1], p[2]>>
    BY DEF Pairs
  <2> QED
    BY <2>1 DEF FriendsInv, Consented
<1> QED
  BY <1>1, FriendsInvariant, PTL

-----------------------------------------------------------------------------
\* Who was called and has not been at the table since is silenced until the silence is over:
\* the pruning of somebody else's call never takes a mark that still silences.
Marked ==
  /\ minute \in Nat
  /\ called \in [Users -> Nat \cup {Never}] /\ lastNotified \in [Users -> Nat \cup {Never}]
  /\ \A u \in Users : called[u] # Never => lastNotified[u] = called[u] \/ called[u] + QuietFor <= minute

\* The marks after a call are the new one and those that still silence.
LEMMA RememberKeeps ==
  ASSUME Marked, NEW u \in Users, Remember(u), called' = [called EXCEPT ![u] = minute],
         UNCHANGED minute
  PROVE  Marked'
<1>1. /\ lastNotified' \in [Users -> Nat \cup {Never}]
      /\ \A v \in Users : lastNotified'[v] = IF v = u THEN minute ELSE
                            IF Silences(lastNotified[v]) THEN lastNotified[v] ELSE Never
  BY DEF Marked, Remember, PruneStale
<1>2. called' \in [Users -> Nat \cup {Never}]
  BY DEF Marked
<1>3. \A v \in Users : called'[v] # Never =>
        lastNotified'[v] = called'[v] \/ called'[v] + QuietFor <= minute'
  <2> SUFFICES ASSUME NEW v \in Users, called'[v] # Never
               PROVE  lastNotified'[v] = called'[v] \/ called'[v] + QuietFor <= minute'
    OBVIOUS
  <2>1. CASE v = u
    BY <1>1, <2>1 DEF Marked
  <2>2. CASE v # u
    BY <1>1, <2>2, NotificationsAssumption DEF Marked, Silences, Never
  <2> QED
    BY <2>1, <2>2
<1> QED
  BY <1>1, <1>2, <1>3 DEF Marked

\* A player who was called and has not been at the table since is marked with that call, or its
\* silence has passed: throwing stale marks away loses nothing (TurnNotifier.pruneStale).
THEOREM MarkedAlways == NotificationsSpec => []Marked
<1>1. NotificationsInit => Marked
  BY DEF NotificationsInit, Marked, Never
<1>2. Marked /\ [NotificationsNext]_notificationVars => Marked'
  <2> SUFFICES ASSUME Marked, [NotificationsNext]_notificationVars  PROVE Marked'
    OBVIOUS
  <2>1. ASSUME NEW u \in Users, TurnOf(u) \/ PausedFor(u)  PROVE Marked'
    <3>1. Remember(u) /\ called' = [called EXCEPT ![u] = minute] /\ UNCHANGED minute
      BY <2>1 DEF TurnOf, PausedFor
    <3> QED
      BY <3>1, RememberKeeps
  <2>2. ASSUME NEW u \in Users, Present(u)  PROVE Marked'
    BY <2>2 DEF Present, Marked, Never
  <2>3. CASE Tick
    BY <2>3, NotificationsAssumption DEF Tick, Marked, Never
  <2>4. CASE UNCHANGED <<lastNotified, minute, called>>
    BY <2>4 DEF Marked
  <2> QED
    BY <2>1, <2>2, <2>3, <2>4
    DEF NotificationsNext, Subscribe, Unsubscribe, DeliverAll, Deliver, notificationVars
<1> QED
  BY <1>1, <1>2, PTL DEF NotificationsSpec

\* Between two calls of the turn the silence has passed or the player was at the table,
\* whatever other tables call in between (TurnNotifier.TurnOf).
THEOREM CallsAreSpacedAlways == NotificationsSpec => CallsAreSpaced
<1>1. Marked => [\A u \in Users : TurnOf(u) => called[u] = Never \/ called[u] + QuietFor <= minute]_notificationVars
  <2> SUFFICES ASSUME Marked, NEW u \in Users, TurnOf(u)
               PROVE  called[u] = Never \/ called[u] + QuietFor <= minute
    OBVIOUS
  <2> QED
    BY NotificationsAssumption DEF TurnOf, Silences, Marked, Never
<1> QED
  BY <1>1, MarkedAlways, PTL DEF CallsAreSpaced
=============================================================================
