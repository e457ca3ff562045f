-------------------------- MODULE WorkItemStoreProofs --------------------------
(***************************************************************************)
(* What holds of the shared connection for any number of calls and cards:  *)
(* an open transaction always has a call that will close it, or a call     *)
(* that was cancelled and left it open.                                    *)
(***************************************************************************)
EXTENDS WorkItemStore, TLAPS

(* Where the calls are, as far as the transaction depends on it.           *)
PointsOK ==
    /\ at \in [Calls -> Points]
    /\ out \in [Calls -> Outcomes]
    /\ \A c \in Calls : out[c] = "cancelled" => at[c] = "done"

(* An open transaction has an owner, and there is nothing uncommitted      *)
(* without one.                                                            *)
OwnedTransaction ==
    /\ open \in BOOLEAN
    /\ ~open => conn = disk
    /\ open => \E c \in Calls : at[c] \in Pending \/ out[c] = "cancelled"

ConnectionInv == PointsOK /\ OwnedTransaction

(* Every action keeps the calls where calls can be.                        *)
LEMMA PointsStep ==
  ASSUME PointsOK, [Next]_vars
  PROVE  PointsOK'
<1>. USE DEF PointsOK, Points, Outcomes, Query, Execute, CommitAll, Goto, Proceed, Begin, Return, Finish
<1>1. ASSUME NEW c \in Calls, UpdateGet(c) PROVE PointsOK'
  BY <1>1 DEF UpdateGet
<1>2. ASSUME NEW c \in Calls, MarkerGet(c) PROVE PointsOK'
  BY <1>2 DEF MarkerGet
<1>3. ASSUME NEW c \in Calls, SaveGet(c) PROVE PointsOK'
  BY <1>3 DEF SaveGet
<1>4. ASSUME NEW c \in Calls, SaveWrite(c) PROVE PointsOK'
  BY <1>4 DEF SaveWrite
<1>5. ASSUME NEW c \in Calls, SaveCommit(c) PROVE PointsOK'
  BY <1>5 DEF SaveCommit
<1>6. ASSUME NEW c \in Calls, InsertGet(c) PROVE PointsOK'
  BY <1>6 DEF InsertGet
<1>7. ASSUME NEW c \in Calls, InsertWrite(c) PROVE PointsOK'
  BY <1>7 DEF InsertWrite
<1>8. ASSUME NEW c \in Calls, InsertCommit(c) PROVE PointsOK'
  BY <1>8 DEF InsertCommit
<1>9. ASSUME NEW c \in Calls, ClaimWrite(c) PROVE PointsOK'
  BY <1>9 DEF ClaimWrite
<1>10. ASSUME NEW c \in Calls, ClaimCommit(c) PROVE PointsOK'
  BY <1>10 DEF ClaimCommit
<1>11. ASSUME NEW c \in Calls, ClaimRead(c) PROVE PointsOK'
  BY <1>11 DEF ClaimRead
<1>12. ASSUME NEW c \in Calls, VerdictBegin(c) PROVE PointsOK'
  BY <1>12 DEF VerdictBegin
<1>13. ASSUME NEW c \in Calls, VerdictGet(c) PROVE PointsOK'
  BY <1>13 DEF VerdictGet
<1>14. ASSUME NEW c \in Calls, VerdictWrite(c) PROVE PointsOK'
  BY <1>14 DEF VerdictWrite
<1>15. ASSUME NEW c \in Calls, VerdictCommit(c) PROVE PointsOK'
  BY <1>15 DEF VerdictCommit
<1>16. ASSUME NEW c \in Calls, VerdictRead(c) PROVE PointsOK'
  BY <1>16 DEF VerdictRead
<1>17. ASSUME NEW c \in Calls, ReportWrite(c) PROVE PointsOK'
  BY <1>17 DEF ReportWrite
<1>18. ASSUME NEW c \in Calls, ReopenGet(c) PROVE PointsOK'
  BY <1>18 DEF ReopenGet
<1>19. ASSUME NEW c \in Calls, ReopenWrite(c) PROVE PointsOK'
  BY <1>19 DEF ReopenWrite
<1>20. ASSUME NEW c \in Calls, QueueBegin(c) PROVE PointsOK'
  BY <1>20 DEF QueueBegin
<1>21. ASSUME NEW c \in Calls, QueueRead(c) PROVE PointsOK'
  BY <1>21 DEF QueueRead
<1>22. ASSUME NEW c \in Calls, QueueWrite(c) PROVE PointsOK'
  BY <1>22 DEF QueueWrite
<1>23. ASSUME NEW c \in Calls, MirrorWrite(c) PROVE PointsOK'
  BY <1>23 DEF MirrorWrite
<1>24. ASSUME NEW c \in Calls, QueueCommit(c) PROVE PointsOK'
  BY <1>24 DEF QueueCommit
<1>25. ASSUME NEW c \in Calls, QueueRollback(c) PROVE PointsOK'
  BY <1>25 DEF QueueRollback
<1>26. ASSUME NEW c \in Calls, SessionGet(c) PROVE PointsOK'
  BY <1>26 DEF SessionGet
<1>27. ASSUME NEW c \in Calls, SessionWrite(c) PROVE PointsOK'
  BY <1>27 DEF SessionWrite
<1>28. ASSUME NEW c \in Calls, SessionCommit(c) PROVE PointsOK'
  BY <1>28 DEF SessionCommit, Commit
<1>29. ASSUME NEW c \in Calls, SessionMirror(c) PROVE PointsOK'
  BY <1>29 DEF SessionMirror
<1>30. ASSUME NEW c \in Calls, Cancel(c) PROVE PointsOK'
  BY <1>30 DEF Cancel
<1>31. CASE UNCHANGED vars
  BY <1>31 DEF vars
<1>. QED
  BY <1>1, <1>2, <1>3, <1>4, <1>5, <1>6, <1>7, <1>8, <1>9, <1>10, <1>11, <1>12, <1>13, <1>14,
     <1>15, <1>16, <1>17, <1>18, <1>19, <1>20, <1>21, <1>22, <1>23, <1>24, <1>25, <1>26, <1>27,
     <1>28, <1>29, <1>30, <1>31 DEF Next, Step

(* A step that leaves the transaction open leaves it to somebody.          *)
LEMMA TransactionStep ==
  ASSUME PointsOK, OwnedTransaction, [Next]_vars
  PROVE  OwnedTransaction'
<1>. USE DEF PointsOK, Points, Outcomes, Pending, OwnedTransaction, Query, Execute, CommitAll, Goto,
         Proceed, Begin, Return, Finish
<1>1. ASSUME NEW c \in Calls, UpdateGet(c) PROVE OwnedTransaction'
  BY <1>1 DEF UpdateGet
<1>2. ASSUME NEW c \in Calls, MarkerGet(c) PROVE OwnedTransaction'
  BY <1>2 DEF MarkerGet
<1>3. ASSUME NEW c \in Calls, SaveGet(c) PROVE OwnedTransaction'
  BY <1>3 DEF SaveGet
<1>4. ASSUME NEW c \in Calls, SaveWrite(c) PROVE OwnedTransaction'
  BY <1>4 DEF SaveWrite
<1>5. ASSUME NEW c \in Calls, SaveCommit(c) PROVE OwnedTransaction'
  BY <1>5 DEF SaveCommit
<1>6. ASSUME NEW c \in Calls, InsertGet(c) PROVE OwnedTransaction'
  BY <1>6 DEF InsertGet
<1>7. ASSUME NEW c \in Calls, InsertWrite(c) PROVE OwnedTransaction'
  BY <1>7 DEF InsertWrite
<1>8. ASSUME NEW c \in Calls, InsertCommit(c) PROVE OwnedTransaction'
  BY <1>8 DEF InsertCommit
<1>9. ASSUME NEW c \in Calls, ClaimWrite(c) PROVE OwnedTransaction'
  BY <1>9 DEF ClaimWrite
<1>10. ASSUME NEW c \in Calls, ClaimCommit(c) PROVE OwnedTransaction'
  BY <1>10 DEF ClaimCommit
<1>11. ASSUME NEW c \in Calls, ClaimRead(c) PROVE OwnedTransaction'
  BY <1>11 DEF ClaimRead
<1>12. ASSUME NEW c \in Calls, VerdictBegin(c) PROVE OwnedTransaction'
  BY <1>12 DEF VerdictBegin
<1>13. ASSUME NEW c \in Calls, VerdictGet(c) PROVE OwnedTransaction'
  BY <1>13 DEF VerdictGet
<1>14. ASSUME NEW c \in Calls, VerdictWrite(c) PROVE OwnedTransaction'
  BY <1>14 DEF VerdictWrite
<1>15. ASSUME NEW c \in Calls, VerdictCommit(c) PROVE OwnedTransaction'
  BY <1>15 DEF VerdictCommit
<1>16. ASSUME NEW c \in Calls, VerdictRead(c) PROVE OwnedTransaction'
  BY <1>16 DEF VerdictRead
<1>17. ASSUME NEW c \in Calls, ReportWrite(c) PROVE OwnedTransaction'
  BY <1>17 DEF ReportWrite
<1>18. ASSUME NEW c \in Calls, ReopenGet(c) PROVE OwnedTransaction'
  BY <1>18 DEF ReopenGet
<1>19. ASSUME NEW c \in Calls, ReopenWrite(c) PROVE OwnedTransaction'
  BY <1>19 DEF ReopenWrite
<1>20. ASSUME NEW c \in Calls, QueueBegin(c) PROVE OwnedTransaction'
  BY <1>20 DEF QueueBegin
<1>21. ASSUME NEW c \in Calls, QueueRead(c) PROVE OwnedTransaction'
  BY <1>21 DEF QueueRead
<1>22. ASSUME NEW c \in Calls, QueueWrite(c) PROVE OwnedTransaction'
  BY <1>22 DEF QueueWrite
<1>23. ASSUME NEW c \in Calls, MirrorWrite(c) PROVE OwnedTransaction'
  BY <1>23 DEF MirrorWrite
<1>24. ASSUME NEW c \in Calls, QueueCommit(c) PROVE OwnedTransaction'
  BY <1>24 DEF QueueCommit
<1>25. ASSUME NEW c \in Calls, QueueRollback(c) PROVE OwnedTransaction'
  BY <1>25 DEF QueueRollback
<1>26. ASSUME NEW c \in Calls, SessionGet(c) PROVE OwnedTransaction'
  BY <1>26 DEF SessionGet
<1>27. ASSUME NEW c \in Calls, SessionWrite(c) PROVE OwnedTransaction'
  BY <1>27 DEF SessionWrite
<1>28. ASSUME NEW c \in Calls, SessionCommit(c) PROVE OwnedTransaction'
  BY <1>28 DEF SessionCommit, Commit
<1>29. ASSUME NEW c \in Calls, SessionMirror(c) PROVE OwnedTransaction'
  BY <1>29 DEF SessionMirror
<1>30. ASSUME NEW c \in Calls, Cancel(c) PROVE OwnedTransaction'
  BY <1>30 DEF Cancel
<1>31. CASE UNCHANGED vars
  BY <1>31 DEF vars
<1>. QED
  BY <1>1, <1>2, <1>3, <1>4, <1>5, <1>6, <1>7, <1>8, <1>9, <1>10, <1>11, <1>12, <1>13, <1>14,
     <1>15, <1>16, <1>17, <1>18, <1>19, <1>20, <1>21, <1>22, <1>23, <1>24, <1>25, <1>26, <1>27,
     <1>28, <1>29, <1>30, <1>31 DEF Next, Step

(* An open transaction belongs to a call that will close it or to one that *)
(* was cancelled: the strengthening of QuietConnectionIsClean.             *)
THEOREM TransactionsAreOwned == Spec => []ConnectionInv
<1>1. Init => ConnectionInv
  BY DEF Init, ConnectionInv, PointsOK, OwnedTransaction, Points, Outcomes
<1>2. ConnectionInv /\ [Next]_vars => ConnectionInv'
  BY PointsStep, TransactionStep DEF ConnectionInv
<1>. QED
  BY <1>1, <1>2, PTL DEF Spec

(* On a connection on which no call is between a statement and its commit  *)
(* nothing is uncommitted, unless a call was cancelled (store.py:2783).    *)
THEOREM QuietConnections == Spec => []QuietConnectionIsClean
<1>1. ConnectionInv => QuietConnectionIsClean
  BY DEF ConnectionInv, OwnedTransaction, QuietConnectionIsClean
<1>. QED
  BY <1>1, TransactionsAreOwned, PTL
-----------------------------------------------------------------------------
(* Types.                                                                  *)

(* TypeOK, with the attempts a verdict has left when it reads or writes.   *)
ConnTypes == conn \in Databases /\ disk \in Databases /\ open \in BOOLEAN

CallTypes ==
    /\ at \in [Calls -> Points]
    /\ out \in [Calls -> Outcomes]
    /\ call \in [Calls -> CallStates]

AttemptsLeft ==
    \A c \in Calls : at[c] \in {"verdictGet", "verdictWrite"} => call[c].tries < Attempts

TypeInv == ConnTypes /\ CallTypes /\ AttemptsLeft /\ clock \in Nat

(* A card of the board and the copy of one that is not there.              *)
LEMMA RowsTyped ==
  /\ Blank \in Rows
  /\ NoRow \notin Rows
  /\ NoRow.rev = 0 /\ NoRow.notes = {} /\ NoRow.marked = FALSE /\ NoRow.phase = "absent"
<1>. QED
  BY DEF Blank, NoRow, Rows, Phase

(* A call that has not begun.                                              *)
LEMMA NoCallTyped ==
  /\ NoCall \in CallStates
  /\ NoCall.snap = NoRow /\ NoCall.queue = <<>> /\ NoCall.tries = 0 /\ NoCall.hits = 0
<1>1. (CHOOSE i \in Items : TRUE) \in Items
  BY StoreAssumption
<1>. QED
  BY <1>1 DEF NoCall, CallStates, Phase, Attempts

(* Writing a row leaves a database, and the other rows as they were.       *)
LEMMA SetRowTyped ==
  ASSUME conn \in Databases, NEW i \in Items, NEW row \in Rows \cup {NoRow}
  PROVE  /\ SetRow(i, row) \in Databases
         /\ SetRow(i, row).row[i] = row
         /\ \A j \in Items : j # i => SetRow(i, row).row[j] = conn.row[j]
         /\ SetRow(i, row).queue = conn.queue
<1>. QED
  BY DEF SetRow, Databases

(* Writing a queue leaves a database, and the rows as they were.           *)
LEMMA SetQueueTyped ==
  ASSUME conn \in Databases, NEW q \in Seq(Items), NEW t \in Tables
  PROVE  /\ [conn EXCEPT !.queue[t] = q] \in Databases
         /\ [conn EXCEPT !.queue[t] = q].row = conn.row
         /\ [conn EXCEPT !.queue[t] = q].queue[t] = q
         /\ \A u \in Tables : u # t => [conn EXCEPT !.queue[t] = q].queue[u] = conn.queue[u]
<1>. QED
  BY DEF Databases

(* Counting a report leaves a database.                                    *)
LEMMA SetReportTyped ==
  ASSUME conn \in Databases, NEW i \in Items
  PROVE  /\ [conn EXCEPT !.report[i] = @ + 1] \in Databases
         /\ [conn EXCEPT !.report[i] = @ + 1].row = conn.row
         /\ [conn EXCEPT !.report[i] = @ + 1].queue = conn.queue
<1>1. conn.report[i] + 1 \in Nat
  BY DEF Databases
<1>. QED
  BY <1>1 DEF Databases

(* What an update makes of a row is a row.                                 *)
LEMMA EditedTyped ==
  ASSUME NEW c \in Calls, NEW row \in Rows, NEW edit \in {"note", "hold", "mark"} \cup Targets
  PROVE  Edited(c, row, edit) \in Rows
<1>1. edit \in {"note", "hold", "mark"} \cup Phase
  BY StoreAssumption
<1>. QED
  BY <1>1 DEF Edited, Rows

(* A call that goes on is where calls can be and holds what calls hold.    *)
LEMMA ProceedTyped ==
  ASSUME CallTypes, NEW c \in Calls, NEW point \in Points, NEW held \in CallStates,
         Proceed(c, point, held)
  PROVE  /\ CallTypes'
         /\ at'[c] = point /\ call'[c] = held
         /\ \A d \in Calls : d # c => at'[d] = at[d] /\ call'[d] = call[d]
<1>. QED
  BY DEF CallTypes, Proceed

(* So is one that begins with a copy of a row ...                          *)
LEMMA BeginTyped ==
  ASSUME CallTypes, NEW c \in Calls, NEW point \in Points, NEW i \in Items,
         NEW op \in {"update", "unmark", "insert", "report", "reopen", "enqueue", "dequeue"},
         NEW snap \in Rows \cup {NoRow}, Begin(c, op, i, point, snap)
  PROVE  /\ CallTypes'
         /\ at'[c] = point /\ call'[c].i = i /\ call'[c].snap = snap /\ call'[c].queue = <<>>
         /\ \A d \in Calls : d # c => at'[d] = at[d] /\ call'[d] = call[d]
<1>. DEFINE held == [NoCall EXCEPT !.op = op, !.i = i, !.snap = snap]
<1>1. held \in CallStates
  BY NoCallTyped DEF CallStates
<1>2. held.i = i /\ held.snap = snap /\ held.queue = <<>>
  BY NoCallTyped DEF CallStates
<1>3. Proceed(c, point, held)
  BY DEF Begin
<1>. HIDE DEF held
<1>. QED
  BY <1>1, <1>2, <1>3, ProceedTyped

(* ... and one that ends, whatever it ended with.                          *)
LEMMA FinishTyped ==
  ASSUME CallTypes, NEW c \in Calls, NEW i \in Items, NEW result \in Outcomes,
         NEW op \in {"none", "update", "unmark", "insert", "claim", "verdict",
                     "report", "reopen", "enqueue", "dequeue", "session"},
         Finish(c, op, i, result)
  PROVE  /\ CallTypes'
         /\ at'[c] = "done" /\ call'[c].i = i /\ call'[c].snap = NoRow /\ call'[c].queue = <<>>
         /\ \A d \in Calls : d # c => at'[d] = at[d] /\ call'[d] = call[d]
<1>1. /\ [NoCall EXCEPT !.op = op, !.i = i] \in CallStates
      /\ [NoCall EXCEPT !.op = op, !.i = i].i = i
      /\ [NoCall EXCEPT !.op = op, !.i = i].snap = NoRow
      /\ [NoCall EXCEPT !.op = op, !.i = i].queue = <<>>
  BY NoCallTyped DEF CallStates
<1>. QED
  BY <1>1 DEF CallTypes, Finish, Points

(* A call returns to its caller.                                           *)
LEMMA ReturnTyped ==
  ASSUME CallTypes, NEW c \in Calls, NEW result \in Outcomes, Return(c, result)
  PROVE  /\ CallTypes'
         /\ at'[c] = "done" /\ call'[c].i = call[c].i
         /\ call'[c].snap = NoRow /\ call'[c].queue = <<>>
         /\ \A d \in Calls : d # c => at'[d] = at[d] /\ call'[d] = call[d]
<1>1. /\ call[c].i \in Items
      /\ call[c].op \in {"none", "update", "unmark", "insert", "claim", "verdict",
                         "report", "reopen", "enqueue", "dequeue", "session"}
  BY DEF CallTypes, CallStates
<1>. QED
  BY <1>1, FinishTyped DEF Return

(* A call goes on with what it already held.                               *)
LEMMA GotoTyped ==
  ASSUME CallTypes, NEW c \in Calls, NEW point \in Points, Goto(c, point)
  PROVE  /\ CallTypes'
         /\ at'[c] = point
         /\ \A d \in Calls : call'[d] = call[d] /\ (d # c => at'[d] = at[d])
<1>1. call[c] \in CallStates
  BY DEF CallTypes
<1>. QED
  BY <1>1, ProceedTyped DEF Goto

(* Statements that read, that write a database, and that commit.           *)
LEMMA QueryTyped ==
  ASSUME ConnTypes, Query
  PROVE  ConnTypes' /\ conn' = conn /\ disk' = disk
<1>. QED
  BY DEF ConnTypes, Query

LEMMA ExecuteTyped ==
  ASSUME ConnTypes, NEW db \in Databases, Execute(db)
  PROVE  ConnTypes' /\ conn' = db /\ disk' = disk
<1>. QED
  BY DEF ConnTypes, Execute

LEMMA CommitTyped ==
  ASSUME ConnTypes, CommitAll
  PROVE  ConnTypes' /\ conn' = conn /\ disk' = conn
<1>. QED
  BY DEF ConnTypes, CommitAll

(* What a call holds, part by part.                                        *)
LEMMA HeldTyped ==
  ASSUME CallTypes, NEW c \in Calls
  PROVE  /\ call[c] \in CallStates /\ call[c].i \in Items
         /\ call[c].snap \in Rows \cup {NoRow} /\ call[c].to \in Phase
         /\ call[c].queue \in Seq(Items) /\ call[c].tries \in 0..Attempts
<1>. QED
  BY DEF CallTypes, CallStates

(* What the connection holds, part by part.                                *)
LEMMA ConnTyped ==
  ASSUME conn \in Databases
  PROVE  /\ \A i \in Items : conn.row[i] \in Rows \cup {NoRow}
         /\ \A i \in Items : conn.row[i] # NoRow => conn.row[i] \in Rows
         /\ Queue \in Seq(Items)
<1>. QED
  BY DEF Databases, Queue, Tables

(* What a statement of c does to the rows and the queues.  A row is new in *)
(* at most one place: stamped with the time, in the table or in the copy.  *)
OldRows(c) ==
    \A i \in Items :
       \/ conn'.row[i] \in {conn.row[i], disk.row[i]}
       \/ i = call[c].i /\ conn'.row[i] = call[c].snap

NewRows(c) ==
    \A i \in Items :
       \/ conn'.row[i] \in {conn.row[i], disk.row[i]}
       \/ clock' = clock + 1 /\ conn'.row[i].rev = clock + 1

OldCopy(c) ==
    \/ call'[c].snap = NoRow
    \/ call'[c].i = call[c].i /\ call'[c].snap = call[c].snap
    \/ /\ call'[c].snap.rev = conn.row[call'[c].i].rev
       /\ call'[c].snap.notes = conn.row[call'[c].i].notes

NewCopy(c) == clock' = clock + 1 /\ call'[c].snap.rev = clock + 1

RowEffect(c) ==
    /\ \A i \in Items : disk'.row[i] \in {disk.row[i], conn.row[i]}
    /\ \/ OldRows(c) /\ (OldCopy(c) \/ NewCopy(c))
       \/ NewRows(c) /\ OldCopy(c)
    /\ clock' \in {clock, clock + 1}

QueueEffect(c) ==
    /\ \A t \in Tables :
          /\ conn'.queue[t] \in {conn.queue[t], disk.queue[t], call[c].queue}
          /\ disk'.queue[t] \in {disk.queue[t], conn.queue[t]}
    /\ \/ call'[c].queue \in {<<>>, call[c].queue, Queue}
       \/ Queue # <<>> /\ call'[c].queue = Tail(Queue)
       \/ /\ call[c].i \notin {Queue[k] : k \in DOMAIN Queue}
          /\ call'[c].queue = Append(Queue, call[c].i)

Effect(c) ==
    /\ \A d \in Calls : d # c => call'[d] = call[d]
    /\ RowEffect(c)
    /\ QueueEffect(c)

(* Every statement leaves every part of the state in its type, and does to *)
(* rows and queues what Effect says.                                       *)
LEMMA CallStep ==
  ASSUME TypeInv, NEW c \in Calls, Step(c)
  PROVE  TypeInv' /\ Effect(c)
<1>1. CASE UpdateGet(c)
  <2>1. /\ ConnTypes' /\ conn' = conn /\ disk' = disk
        /\ clock' = clock + 1 /\ clock' \in Nat
    BY <1>1, QueryTyped DEF UpdateGet, TypeInv
  <2>2. PICK i \in Items, edit \in {"note", "hold", "mark"} \cup Targets :
           LET new == Edited(c, conn.row[i], edit) IN
           IF Present(i) /\ Legal(conn.row[i].phase, new.phase)
           THEN Begin(c, "update", i, "save", [new EXCEPT !.rev = clock + 1])
           ELSE Finish(c, "update", i, IF Present(i) THEN "raised" ELSE "refused")
    BY <1>1 DEF UpdateGet
  <2>3. CASE Present(i) /\ Begin(c, "update", i, "save", [Edited(c, conn.row[i], edit) EXCEPT !.rev = clock + 1])
    <3>1. conn.row[i] \in Rows
      BY <2>3, ConnTyped DEF Present, TypeInv, ConnTypes
    <3>. DEFINE row == [Edited(c, conn.row[i], edit) EXCEPT !.rev = clock + 1]
    <3>2. row \in Rows /\ row.rev = clock + 1
      BY <3>1, <2>1, EditedTyped DEF Rows
    <3>3. Begin(c, "update", i, "save", row)
      BY <2>3
    <3>. HIDE DEF row
    <3>4. TypeInv'
      BY <2>1, <3>2, <3>3, BeginTyped DEF TypeInv, AttemptsLeft, Points
    <3>5. Effect(c)
      BY <2>1, <3>2, <3>3, BeginTyped DEF TypeInv, Points, Effect, RowEffect, QueueEffect,
         OldRows, NewRows, OldCopy, NewCopy
    <3>. QED
      BY <3>4, <3>5
  <2>4. CASE Finish(c, "update", i, IF Present(i) THEN "raised" ELSE "refused")
    <3>1. PICK result \in Outcomes : Finish(c, "update", i, result)
      BY <2>4 DEF Outcomes
    <3>2. TypeInv'
      BY <2>1, <3>1, FinishTyped DEF TypeInv, AttemptsLeft
    <3>3. Effect(c)
      BY <2>1, <3>1, FinishTyped DEF TypeInv, Effect, RowEffect, QueueEffect, OldRows, NewRows,
         OldCopy, NewCopy
    <3>. QED
      BY <3>2, <3>3
  <2>. QED
    BY <2>2, <2>3, <2>4
<1>2. CASE MarkerGet(c)
  <2>1. PICK i \in Items :
           /\ conn.row[i].marked
           /\ Begin(c, "unmark", i, "save", [conn.row[i] EXCEPT !.marked = FALSE])
    BY <1>2 DEF MarkerGet
  <2>2. conn.row[i] \in Rows
    BY <2>1, ConnTyped, RowsTyped DEF TypeInv, ConnTypes
  <2>. DEFINE row == [conn.row[i] EXCEPT !.marked = FALSE]
  <2>3. row \in Rows /\ row.rev = conn.row[i].rev /\ row.notes = conn.row[i].notes
    BY <2>2 DEF Rows
  <2>4. Begin(c, "unmark", i, "save", row)
    BY <2>1
  <2>5. ConnTypes' /\ conn' = conn /\ disk' = disk /\ clock' = clock
    BY <1>2, QueryTyped DEF MarkerGet, TypeInv
  <2>. HIDE DEF row
  <2>6. TypeInv'
    BY <2>3, <2>4, <2>5, BeginTyped DEF TypeInv, AttemptsLeft, Points
  <2>7. Effect(c)
    BY <2>3, <2>4, <2>5, BeginTyped, HeldTyped DEF TypeInv, AttemptsLeft, Points, Effect,
       RowEffect, QueueEffect, OldRows, NewRows, OldCopy, NewCopy
  <2>. QED
    BY <2>6, <2>7
<1>3. CASE SaveGet(c)
  <2>1. TypeInv'
    BY <1>3, QueryTyped, ReturnTyped, GotoTyped DEF SaveGet, TypeInv, AttemptsLeft, Points,
       Outcomes
  <2>2. Effect(c)
    BY <1>3, QueryTyped, ReturnTyped, GotoTyped, HeldTyped DEF SaveGet, TypeInv, AttemptsLeft,
       Points, Outcomes, Effect, RowEffect, QueueEffect, OldRows, NewRows, OldCopy, NewCopy
  <2>. QED
    BY <2>1, <2>2
<1>4. CASE SaveWrite(c)
  <2>1. TypeInv'
    BY <1>4, ExecuteTyped, GotoTyped, SetRowTyped, HeldTyped DEF SaveWrite, ConnTypes, TypeInv,
       AttemptsLeft, Points, Outcomes
  <2>2. Effect(c)
    BY <1>4, ExecuteTyped, GotoTyped, SetRowTyped, HeldTyped DEF SaveWrite, ConnTypes, TypeInv,
       AttemptsLeft, Points, Outcomes, Effect, RowEffect, QueueEffect, OldRows, NewRows,
       OldCopy, NewCopy
  <2>. QED
    BY <2>1, <2>2
<1>5. CASE SaveCommit(c)
  <2>1. TypeInv'
    BY <1>5, CommitTyped, ReturnTyped DEF SaveCommit, TypeInv, AttemptsLeft, Points, Outcomes
  <2>2. Effect(c)
    BY <1>5, CommitTyped, ReturnTyped, HeldTyped DEF SaveCommit, TypeInv, AttemptsLeft, Points,
       Outcomes, Effect, RowEffect, QueueEffect, OldRows, NewRows, OldCopy, NewCopy
  <2>. QED
    BY <2>1, <2>2
<1>6. CASE InsertGet(c)
  <2>1. /\ ConnTypes' /\ conn' = conn /\ disk' = disk
        /\ clock' = clock + 1 /\ clock' \in Nat
    BY <1>6, QueryTyped DEF InsertGet, TypeInv
  <2>2. PICK i \in Items : \/ Finish(c, "insert", i, "refused")
                          \/ Begin(c, "insert", i, "insert", [Blank EXCEPT !.rev = clock + 1])
    BY <1>6 DEF InsertGet
  <2>. DEFINE row == [Blank EXCEPT !.rev = clock + 1]
  <2>3. row \in Rows /\ row.rev = clock + 1
    BY <2>1, RowsTyped DEF Rows
  <2>4. Finish(c, "insert", i, "refused") \/ Begin(c, "insert", i, "insert", row)
    BY <2>2
  <2>. HIDE DEF row
  <2>5. TypeInv'
    BY <2>1, <2>3, <2>4, BeginTyped, FinishTyped DEF TypeInv, AttemptsLeft, Points, Outcomes
  <2>6. Effect(c)
    BY <2>1, <2>3, <2>4, BeginTyped, FinishTyped, HeldTyped DEF TypeInv, AttemptsLeft, Points,
       Outcomes, Effect, RowEffect, QueueEffect, OldRows, NewRows, OldCopy, NewCopy
  <2>. QED
    BY <2>5, <2>6
<1>7. CASE InsertWrite(c)
  <2>. DEFINE i == call[c].i
             db == IF Present(i) THEN conn ELSE SetRow(i, call[c].snap)
             held == [call[c] EXCEPT !.hits = IF Present(i) THEN 0 ELSE 1]
  <2>1. /\ db \in Databases /\ db.queue = conn.queue
        /\ \A j \in Items : db.row[j] = conn.row[j] \/ (j = i /\ db.row[j] = call[c].snap)
    <3>1. CASE Present(i)
      <4>1. db = conn
        BY <3>1
      <4>. HIDE DEF db
      <4>. QED
        BY <4>1 DEF TypeInv, ConnTypes
    <3>2. CASE ~Present(i)
      <4>1. db = SetRow(i, call[c].snap)
        BY <3>2
      <4>2. conn \in Databases /\ i \in Items /\ call[c].snap \in Rows \cup {NoRow}
        BY HeldTyped DEF TypeInv, ConnTypes
      <4>. HIDE DEF db, i
      <4>. QED
        BY <4>1, <4>2, SetRowTyped
    <3>. QED
      BY <3>1, <3>2
  <2>2. /\ held \in CallStates
        /\ held.i = call[c].i /\ held.snap = call[c].snap /\ held.queue = call[c].queue
    BY HeldTyped DEF TypeInv, CallStates
  <2>3. Execute(db) /\ Proceed(c, "insertCommit", held) /\ clock' = clock
    BY <1>7 DEF InsertWrite
  <2>. HIDE DEF db, held
  <2>4. TypeInv'
    BY <2>1, <2>2, <2>3, ExecuteTyped, ProceedTyped DEF TypeInv, AttemptsLeft, Points
  <2>5. Effect(c)
    BY <2>1, <2>2, <2>3, ExecuteTyped, ProceedTyped, HeldTyped DEF TypeInv, AttemptsLeft,
       Points, Effect, RowEffect, QueueEffect, OldRows, NewRows, OldCopy, NewCopy
  <2>. QED
    BY <2>4, <2>5
<1>8. CASE InsertCommit(c)
  <2>1. TypeInv'
    BY <1>8, CommitTyped, ReturnTyped DEF InsertCommit, TypeInv, AttemptsLeft, Points, Outcomes
  <2>2. Effect(c)
    BY <1>8, CommitTyped, ReturnTyped, HeldTyped DEF InsertCommit, TypeInv, AttemptsLeft,
       Points, Outcomes, Effect, RowEffect, QueueEffect, OldRows, NewRows, OldCopy, NewCopy
  <2>. QED
    BY <2>1, <2>2
<1>9. CASE ClaimWrite(c)
  <2>1. PICK i \in Items, from \in RUNNABLE_PHASES \cup IN_PROGRESS_PHASES :
           LET hit == Present(i) /\ Claimable(conn.row[i], from) IN
           /\ from \in Targets
           /\ Execute(IF hit
                      THEN SetRow(i, [conn.row[i] EXCEPT !.phase = "RUNNING",
                                          !.claimant = c, !.rev = clock + 1])
                      ELSE conn)
           /\ Proceed(c, "claimCommit", [NoCall EXCEPT !.op = "claim", !.i = i,
                                             !.hits = IF hit THEN 1 ELSE 0])
    BY <1>9 DEF ClaimWrite
  <2>. DEFINE hit == Present(i) /\ Claimable(conn.row[i], from)
             db == IF hit
                   THEN SetRow(i, [conn.row[i] EXCEPT !.phase = "RUNNING",
                                       !.claimant = c, !.rev = clock + 1])
                   ELSE conn
             held == [NoCall EXCEPT !.op = "claim", !.i = i, !.hits = IF hit THEN 1 ELSE 0]
  <2>2. clock' = clock + 1 /\ clock' \in Nat
    BY <1>9 DEF ClaimWrite, TypeInv
  <2>3. /\ db \in Databases /\ db.queue = conn.queue
        /\ \A j \in Items : db.row[j] = conn.row[j] \/ db.row[j].rev = clock + 1
    <3>1. CASE hit
      <4>1. conn.row[i] \in Rows
        BY <3>1, ConnTyped DEF Present, TypeInv, ConnTypes
      <4>. DEFINE row == [conn.row[i] EXCEPT !.phase = "RUNNING", !.claimant = c, !.rev = clock + 1]
      <4>2. row \in Rows /\ row.rev = clock + 1
        BY <4>1, <2>2 DEF Rows, Phase
      <4>3. db = SetRow(i, row)
        BY <3>1
      <4>. HIDE DEF row, db
      <4>. QED
        BY <4>2, <4>3, SetRowTyped DEF TypeInv, ConnTypes
    <3>2. CASE ~hit
      BY <3>2 DEF TypeInv, ConnTypes
    <3>. QED
      BY <3>1, <3>2
  <2>4. held \in CallStates /\ held.snap = NoRow /\ held.queue = <<>>
    <3>. HIDE DEF hit
    <3>. QED
      BY NoCallTyped DEF CallStates
  <2>5. Execute(db) /\ Proceed(c, "claimCommit", held)
    BY <2>1
  <2>. HIDE DEF db, held
  <2>6. TypeInv'
    BY <2>2, <2>3, <2>4, <2>5, ExecuteTyped, ProceedTyped DEF TypeInv, AttemptsLeft, Points
  <2>7. Effect(c)
    BY <2>2, <2>3, <2>4, <2>5, ExecuteTyped, ProceedTyped, HeldTyped DEF TypeInv, AttemptsLeft,
       Points, Effect, RowEffect, QueueEffect, OldRows, NewRows, OldCopy, NewCopy
  <2>. QED
    BY <2>6, <2>7
<1>10. CASE ClaimCommit(c)
  <2>1. TypeInv'
    BY <1>10, CommitTyped, ReturnTyped, GotoTyped DEF ClaimCommit, TypeInv, AttemptsLeft,
       Points, Outcomes
  <2>2. Effect(c)
    BY <1>10, CommitTyped, ReturnTyped, GotoTyped, HeldTyped DEF ClaimCommit, TypeInv,
       AttemptsLeft, Points, Outcomes, Effect, RowEffect, QueueEffect, OldRows, NewRows,
       OldCopy, NewCopy
  <2>. QED
    BY <2>1, <2>2
<1>11. CASE ClaimRead(c)
  <2>1. TypeInv'
    BY <1>11, QueryTyped, ReturnTyped DEF ClaimRead, TypeInv, AttemptsLeft, Points, Outcomes
  <2>2. Effect(c)
    BY <1>11, QueryTyped, ReturnTyped, HeldTyped DEF ClaimRead, TypeInv, AttemptsLeft, Points,
       Outcomes, Effect, RowEffect, QueueEffect, OldRows, NewRows, OldCopy, NewCopy
  <2>. QED
    BY <2>1, <2>2
<1>12. CASE VerdictBegin(c)
  <2>1. PICK i \in Items, to \in {"APPROVED", "READY_FOR_REWORK"} : \E src \in 0..conn.report[i] :
           Proceed(c, "verdictGet", [NoCall EXCEPT !.op = "verdict", !.i = i, !.to = to, !.src = src])
    BY <1>12 DEF VerdictBegin
  <2>2. PICK src \in 0..conn.report[i] :
           Proceed(c, "verdictGet", [NoCall EXCEPT !.op = "verdict", !.i = i, !.to = to, !.src = src])
    BY <2>1
  <2>. DEFINE held == [NoCall EXCEPT !.op = "verdict", !.i = i, !.to = to, !.src = src]
  <2>3. src \in Nat /\ to \in Phase
    BY DEF TypeInv, ConnTypes, Databases, Phase
  <2>4. held \in CallStates /\ held.tries = 0 /\ held.snap = NoRow /\ held.queue = <<>>
    BY <2>3, NoCallTyped DEF CallStates
  <2>5. Proceed(c, "verdictGet", held)
    BY <2>2
  <2>. HIDE DEF held
  <2>6. TypeInv'
    BY <1>12, <2>4, <2>5, QueryTyped, ProceedTyped DEF VerdictBegin, TypeInv, AttemptsLeft,
       Points, Attempts
  <2>7. Effect(c)
    BY <1>12, <2>4, <2>5, QueryTyped, ProceedTyped, HeldTyped DEF VerdictBegin, TypeInv,
       AttemptsLeft, Points, Attempts, Effect, RowEffect, QueueEffect, OldRows, NewRows,
       OldCopy, NewCopy
  <2>. QED
    BY <2>6, <2>7
<1>13. CASE VerdictGet(c)
  <2>. DEFINE held == [call[c] EXCEPT !.snap = conn.row[call[c].i]]
  <2>1. /\ held \in CallStates /\ held.tries = call[c].tries
        /\ held.i = call[c].i /\ held.snap = conn.row[held.i] /\ held.queue = call[c].queue
    BY HeldTyped, ConnTyped DEF TypeInv, ConnTypes, CallStates
  <2>2. \/ Proceed(c, "verdictWrite", held)
        \/ Return(c, "refused")
    BY <1>13 DEF VerdictGet
  <2>3. /\ at[c] = "verdictGet" /\ clock' = clock
        /\ ConnTypes' /\ conn' = conn /\ disk' = disk
    BY <1>13, QueryTyped DEF VerdictGet, TypeInv
  <2>. HIDE DEF held
  <2>4. TypeInv'
    BY <2>1, <2>2, <2>3, ProceedTyped, ReturnTyped DEF TypeInv, AttemptsLeft, Points, Outcomes
  <2>5. Effect(c)
    BY <2>1, <2>2, <2>3, ProceedTyped, ReturnTyped, HeldTyped DEF TypeInv, AttemptsLeft, Points,
       Outcomes, Effect, RowEffect, QueueEffect, OldRows, NewRows, OldCopy, NewCopy
  <2>. QED
    BY <2>4, <2>5
<1>14. CASE VerdictWrite(c)
  <2>. DEFINE row == [call[c].snap EXCEPT !.phase = call[c].to, !.notes = @ \cup {c}, !.rev = clock + 1]
             db == IF VerdictHits(c) THEN SetRow(call[c].i, row) ELSE conn
             held == [call[c] EXCEPT !.tries = @ + 1, !.hits = IF VerdictHits(c) THEN 1 ELSE 0]
  <2>1. clock' = clock + 1 /\ clock' \in Nat /\ at[c] = "verdictWrite"
    BY <1>14 DEF VerdictWrite, TypeInv
  <2>2. row \in Rows /\ row.rev = clock + 1
    BY <2>1, HeldTyped DEF TypeInv, Rows, NoRow, Blank
  <2>3. /\ db \in Databases /\ db.queue = conn.queue
        /\ \A j \in Items : db.row[j] = conn.row[j] \/ db.row[j].rev = clock + 1
    <3>. HIDE DEF row
    <3>. QED
      BY <2>2, HeldTyped, SetRowTyped DEF TypeInv, ConnTypes
  <2>4. call[c].tries + 1 \in 0..Attempts
    BY <2>1, HeldTyped DEF TypeInv, AttemptsLeft, Attempts
  <2>5. /\ held \in CallStates
        /\ held.i = call[c].i /\ held.snap = call[c].snap /\ held.queue = call[c].queue
    BY <2>4, HeldTyped DEF TypeInv, CallStates
  <2>6. Execute(db) /\ Proceed(c, "verdictCommit", held)
    BY <1>14 DEF VerdictWrite
  <2>. HIDE DEF db, held
  <2>7. TypeInv'
    BY <2>1, <2>3, <2>5, <2>6, ExecuteTyped, ProceedTyped DEF TypeInv, AttemptsLeft, Points
  <2>8. Effect(c)
    BY <2>1, <2>3, <2>5, <2>6, ExecuteTyped, ProceedTyped, HeldTyped DEF TypeInv, AttemptsLeft,
       Points, Effect, RowEffect, QueueEffect, OldRows, NewRows, OldCopy, NewCopy
  <2>. QED
    BY <2>7, <2>8
<1>15. CASE VerdictCommit(c)
  <2>1. TypeInv'
    BY <1>15, CommitTyped, GotoTyped, ReturnTyped DEF VerdictCommit, TypeInv, AttemptsLeft,
       Points, Outcomes
  <2>2. Effect(c)
    BY <1>15, CommitTyped, GotoTyped, ReturnTyped, HeldTyped DEF VerdictCommit, TypeInv,
       AttemptsLeft, Points, Outcomes, Effect, RowEffect, QueueEffect, OldRows, NewRows,
       OldCopy, NewCopy
  <2>. QED
    BY <2>1, <2>2
<1>16. CASE VerdictRead(c)
  <2>1. TypeInv'
    BY <1>16, QueryTyped, ReturnTyped DEF VerdictRead, TypeInv, AttemptsLeft, Points, Outcomes
  <2>2. Effect(c)
    BY <1>16, QueryTyped, ReturnTyped, HeldTyped DEF VerdictRead, TypeInv, AttemptsLeft, Points,
       Outcomes, Effect, RowEffect, QueueEffect, OldRows, NewRows, OldCopy, NewCopy
  <2>. QED
    BY <2>1, <2>2
<1>17. CASE ReportWrite(c)
  <2>1. PICK i \in Items : /\ Execute([conn EXCEPT !.report[i] = @ + 1])
                          /\ Begin(c, "report", i, "commit", NoRow)
    BY <1>17 DEF ReportWrite
  <2>2. ConnTypes' /\ conn'.row = conn.row /\ conn'.queue = conn.queue /\ disk' = disk
    <3>. DEFINE db == [conn EXCEPT !.report[i] = @ + 1]
    <3>1. db \in Databases /\ db.row = conn.row /\ db.queue = conn.queue
      BY SetReportTyped DEF TypeInv, ConnTypes
    <3>2. Execute(db)
      BY <2>1
    <3>. HIDE DEF db
    <3>. QED
      BY <3>1, <3>2, ExecuteTyped DEF TypeInv
  <2>3. TypeInv'
    BY <1>17, <2>1, <2>2, BeginTyped DEF ReportWrite, TypeInv, AttemptsLeft, Points
  <2>4. Effect(c)
    BY <1>17, <2>1, <2>2, BeginTyped, HeldTyped DEF ReportWrite, TypeInv, AttemptsLeft, Points,
       Effect, RowEffect, QueueEffect, OldRows, NewRows, OldCopy, NewCopy
  <2>. QED
    BY <2>3, <2>4
<1>18. CASE ReopenGet(c)
  <2>1. PICK i \in Items, to \in RUNNABLE_PHASES \cap Targets :
           /\ Present(i)
           /\ \/ Begin(c, "reopen", i, "reopenWrite",
                       [conn.row[i] EXCEPT !.phase = to, !.claimant = Nobody,
                            !.notes = @ \cup {c}, !.rev = clock + 1])
              \/ Finish(c, "reopen", i, "raised")
    BY <1>18 DEF ReopenGet
  <2>2. /\ ConnTypes' /\ conn' = conn /\ disk' = disk
        /\ clock' = clock + 1 /\ clock' \in Nat
    BY <1>18, QueryTyped DEF ReopenGet, TypeInv
  <2>3. conn.row[i] \in Rows
    BY <2>1, ConnTyped DEF Present, TypeInv, ConnTypes
  <2>. DEFINE row == [conn.row[i] EXCEPT !.phase = to, !.claimant = Nobody,
                          !.notes = @ \cup {c}, !.rev = clock + 1]
  <2>4. row \in Rows /\ row.rev = clock + 1
    BY <2>2, <2>3 DEF Rows, RUNNABLE_PHASES, Phase
  <2>5. Begin(c, "reopen", i, "reopenWrite", row) \/ Finish(c, "reopen", i, "raised")
    BY <2>1
  <2>. HIDE DEF row
  <2>6. TypeInv'
    BY <2>2, <2>4, <2>5, BeginTyped, FinishTyped DEF TypeInv, AttemptsLeft, Points, Outcomes
  <2>7. Effect(c)
    BY <2>2, <2>4, <2>5, BeginTyped, FinishTyped, HeldTyped DEF TypeInv, AttemptsLeft, Points,
       Outcomes, Effect, RowEffect, QueueEffect, OldRows, NewRows, OldCopy, NewCopy
  <2>. QED
    BY <2>6, <2>7
<1>19. CASE ReopenWrite(c)
  <2>1. TypeInv'
    BY <1>19, ExecuteTyped, GotoTyped, SetRowTyped, HeldTyped DEF ReopenWrite, ConnTypes,
       TypeInv, AttemptsLeft, Points, Outcomes
  <2>2. Effect(c)
    BY <1>19, ExecuteTyped, GotoTyped, SetRowTyped, HeldTyped DEF ReopenWrite, ConnTypes,
       TypeInv, AttemptsLeft, Points, Outcomes, Effect, RowEffect, QueueEffect, OldRows,
       NewRows, OldCopy, NewCopy
  <2>. QED
    BY <2>1, <2>2
<1>20. CASE QueueBegin(c)
  <2>1. PICK op \in {"enqueue", "dequeue"}, i \in Items :
           IF open
           THEN Finish(c, op, i, "raised") /\ Query
           ELSE Begin(c, op, i, "queueRead", NoRow) /\ Execute(conn)
    BY <1>20 DEF QueueBegin
  <2>2. ConnTypes' /\ conn' = conn /\ disk' = disk /\ clock' = clock
    BY <1>20, <2>1, QueryTyped, ExecuteTyped DEF QueueBegin, TypeInv, ConnTypes
  <2>3. TypeInv'
    BY <2>1, <2>2, BeginTyped, FinishTyped DEF TypeInv, AttemptsLeft, Points, Outcomes
  <2>4. Effect(c)
    BY <2>1, <2>2, BeginTyped, FinishTyped, HeldTyped DEF TypeInv, AttemptsLeft, Points,
       Outcomes, Effect, RowEffect, QueueEffect, OldRows, NewRows, OldCopy, NewCopy
  <2>. QED
    BY <2>3, <2>4
<1>21. CASE QueueRead(c)
  <2>1. \/ /\ call[c].i \notin {Queue[k] : k \in DOMAIN Queue}
           /\ Proceed(c, "queueWrite", [call[c] EXCEPT !.queue = Append(Queue, call[c].i)])
        \/ Queue # <<>> /\ Proceed(c, "queueWrite", [call[c] EXCEPT !.queue = Tail(Queue)])
        \/ Goto(c, "rollback")
    BY <1>21 DEF QueueRead
  <2>2. Append(Queue, call[c].i) \in Seq(Items) /\ (Queue # <<>> => Tail(Queue) \in Seq(Items))
    BY ConnTyped, HeldTyped DEF TypeInv, ConnTypes
  <2>3. ConnTypes' /\ conn' = conn /\ disk' = disk /\ clock' = clock
    BY <1>21, QueryTyped DEF QueueRead, TypeInv
  <2>4. ASSUME NEW q \in Seq(Items), Proceed(c, "queueWrite", [call[c] EXCEPT !.queue = q]),
               \/ Queue # <<>> /\ q = Tail(Queue)
               \/ /\ call[c].i \notin {Queue[k] : k \in DOMAIN Queue}
                  /\ q = Append(Queue, call[c].i)
        PROVE  TypeInv' /\ Effect(c)
    <3>. DEFINE held == [call[c] EXCEPT !.queue = q]
    <3>1. /\ held \in CallStates
          /\ held.i = call[c].i /\ held.snap = call[c].snap /\ held.queue = q
      BY HeldTyped DEF TypeInv, CallStates
    <3>2. Proceed(c, "queueWrite", held)
      BY <2>4
    <3>. HIDE DEF held
    <3>3. TypeInv'
      BY <2>3, <3>1, <3>2, ProceedTyped DEF TypeInv, AttemptsLeft, Points
    <3>4. Effect(c)
      BY <2>3, <2>4, <3>1, <3>2, ProceedTyped DEF TypeInv, Points, Effect, RowEffect,
         QueueEffect, OldRows, NewRows, OldCopy, NewCopy
    <3>. QED
      BY <3>3, <3>4
  <2>5. CASE Goto(c, "rollback")
    <3>1. TypeInv'
      BY <2>3, <2>5, GotoTyped DEF TypeInv, AttemptsLeft, Points
    <3>2. Effect(c)
      BY <2>3, <2>5, GotoTyped DEF TypeInv, Points, Effect, RowEffect, QueueEffect, OldRows,
         NewRows, OldCopy, NewCopy
    <3>. QED
      BY <3>1, <3>2
  <2>. QED
    BY <2>1, <2>2, <2>4, <2>5
<1>22. CASE QueueWrite(c)
  <2>. DEFINE db == [conn EXCEPT !.queue["role_runtime_sessions"] = call[c].queue]
  <2>1. /\ db \in Databases /\ db.row = conn.row
        /\ \A t \in Tables : db.queue[t] \in {conn.queue[t], call[c].queue}
    BY SetQueueTyped, HeldTyped DEF TypeInv, ConnTypes, Tables
  <2>2. Execute(db) /\ clock' = clock /\ \E point \in Points \ {"verdictGet", "verdictWrite"} : Goto(c, point)
    BY <1>22 DEF QueueWrite, Points
  <2>. HIDE DEF db
  <2>3. TypeInv'
    BY <2>1, <2>2, ExecuteTyped, GotoTyped DEF TypeInv, AttemptsLeft
  <2>4. Effect(c)
    BY <2>1, <2>2, ExecuteTyped, GotoTyped, HeldTyped DEF TypeInv, AttemptsLeft, Effect,
       RowEffect, QueueEffect, OldRows, NewRows, OldCopy, NewCopy
  <2>. QED
    BY <2>3, <2>4
<1>23. CASE MirrorWrite(c)
  <2>. DEFINE db == [conn EXCEPT !.queue["delegation_role_sessions"] = call[c].queue]
  <2>1. /\ db \in Databases /\ db.row = conn.row
        /\ \A t \in Tables : db.queue[t] \in {conn.queue[t], call[c].queue}
    BY SetQueueTyped, HeldTyped DEF TypeInv, ConnTypes, Tables
  <2>2. Execute(db) /\ clock' = clock /\ \E point \in Points \ {"verdictGet", "verdictWrite"} : Goto(c, point)
    BY <1>23 DEF MirrorWrite, Points
  <2>. HIDE DEF db
  <2>3. TypeInv'
    BY <2>1, <2>2, ExecuteTyped, GotoTyped DEF TypeInv, AttemptsLeft
  <2>4. Effect(c)
    BY <2>1, <2>2, ExecuteTyped, GotoTyped, HeldTyped DEF TypeInv, AttemptsLeft, Effect,
       RowEffect, QueueEffect, OldRows, NewRows, OldCopy, NewCopy
  <2>. QED
    BY <2>3, <2>4
<1>24. CASE QueueCommit(c)
  <2>1. TypeInv'
    BY <1>24, CommitTyped, ReturnTyped DEF QueueCommit, TypeInv, AttemptsLeft, Points, Outcomes
  <2>2. Effect(c)
    BY <1>24, CommitTyped, ReturnTyped, HeldTyped DEF QueueCommit, TypeInv, AttemptsLeft,
       Points, Outcomes, Effect, RowEffect, QueueEffect, OldRows, NewRows, OldCopy, NewCopy
  <2>. QED
    BY <2>1, <2>2
<1>25. CASE QueueRollback(c)
  <2>1. ConnTypes'
    BY <1>25 DEF QueueRollback, TypeInv, ConnTypes
  <2>2. TypeInv'
    BY <1>25, <2>1, ReturnTyped DEF QueueRollback, TypeInv, AttemptsLeft, Outcomes
  <2>3. Effect(c)
    BY <1>25, <2>1, ReturnTyped, HeldTyped DEF QueueRollback, TypeInv, AttemptsLeft, Outcomes,
       Effect, RowEffect, QueueEffect, OldRows, NewRows, OldCopy, NewCopy
  <2>. QED
    BY <2>2, <2>3
<1>26. CASE SessionGet(c)
  <2>. DEFINE held == [NoCall EXCEPT !.op = "session", !.queue = Queue]
  <2>1. held \in CallStates /\ held.snap = NoRow /\ held.queue = Queue
    BY ConnTyped, NoCallTyped DEF TypeInv, ConnTypes, CallStates
  <2>2. Proceed(c, "sessionWrite", held) /\ ConnTypes' /\ conn' = conn /\ disk' = disk /\ clock' = clock
    BY <1>26, QueryTyped DEF SessionGet, TypeInv
  <2>. HIDE DEF held
  <2>3. TypeInv'
    BY <2>1, <2>2, ProceedTyped DEF TypeInv, AttemptsLeft, Points
  <2>4. Effect(c)
    BY <2>1, <2>2, ProceedTyped, HeldTyped DEF TypeInv, AttemptsLeft, Points, Effect, RowEffect,
       QueueEffect, OldRows, NewRows, OldCopy, NewCopy
  <2>. QED
    BY <2>3, <2>4
<1>27. CASE SessionWrite(c)
  <2>. DEFINE db == [conn EXCEPT !.queue["role_runtime_sessions"] = call[c].queue]
  <2>1. /\ db \in Databases /\ db.row = conn.row
        /\ \A t \in Tables : db.queue[t] \in {conn.queue[t], call[c].queue}
    BY SetQueueTyped, HeldTyped DEF TypeInv, ConnTypes, Tables
  <2>2. Execute(db) /\ clock' = clock /\ \E point \in Points \ {"verdictGet", "verdictWrite"} : Goto(c, point)
    BY <1>27 DEF SessionWrite, Points
  <2>. HIDE DEF db
  <2>3. TypeInv'
    BY <2>1, <2>2, ExecuteTyped, GotoTyped DEF TypeInv, AttemptsLeft
  <2>4. Effect(c)
    BY <2>1, <2>2, ExecuteTyped, GotoTyped, HeldTyped DEF TypeInv, AttemptsLeft, Effect,
       RowEffect, QueueEffect, OldRows, NewRows, OldCopy, NewCopy
  <2>. QED
    BY <2>3, <2>4
<1>28. CASE SessionCommit(c)
  <2>1. TypeInv'
    BY <1>28, CommitTyped, GotoTyped DEF SessionCommit, Commit, TypeInv, AttemptsLeft, Points,
       Outcomes
  <2>2. Effect(c)
    BY <1>28, CommitTyped, GotoTyped, HeldTyped DEF SessionCommit, Commit, TypeInv,
       AttemptsLeft, Points, Outcomes, Effect, RowEffect, QueueEffect, OldRows, NewRows,
       OldCopy, NewCopy
  <2>. QED
    BY <2>1, <2>2
<1>29. CASE SessionMirror(c)
  <2>. DEFINE db == [conn EXCEPT !.queue["delegation_role_sessions"] = call[c].queue]
  <2>1. /\ db \in Databases /\ db.row = conn.row
        /\ \A t \in Tables : db.queue[t] \in {conn.queue[t], call[c].queue}
    BY SetQueueTyped, HeldTyped DEF TypeInv, ConnTypes, Tables
  <2>2. Execute(db) /\ clock' = clock /\ \E point \in Points \ {"verdictGet", "verdictWrite"} : Goto(c, point)
    BY <1>29 DEF SessionMirror, Points
  <2>. HIDE DEF db
  <2>3. TypeInv'
    BY <2>1, <2>2, ExecuteTyped, GotoTyped DEF TypeInv, AttemptsLeft
  <2>4. Effect(c)
    BY <2>1, <2>2, ExecuteTyped, GotoTyped, HeldTyped DEF TypeInv, AttemptsLeft, Effect,
       RowEffect, QueueEffect, OldRows, NewRows, OldCopy, NewCopy
  <2>. QED
    BY <2>3, <2>4
<1>30. CASE Cancel(c)
  <2>1. TypeInv'
    BY <1>30, QueryTyped, ReturnTyped DEF Cancel, TypeInv, AttemptsLeft, Points, Outcomes
  <2>2. Effect(c)
    BY <1>30, QueryTyped, ReturnTyped, HeldTyped DEF Cancel, TypeInv, AttemptsLeft, Points,
       Outcomes, Effect, RowEffect, QueueEffect, OldRows, NewRows, OldCopy, NewCopy
  <2>. QED
    BY <2>1, <2>2
<1>. QED
  BY <1>1, <1>2, <1>3, <1>4, <1>5, <1>6, <1>7, <1>8, <1>9, <1>10, <1>11, <1>12, <1>13, <1>14,
     <1>15, <1>16, <1>17, <1>18, <1>19, <1>20, <1>21, <1>22, <1>23, <1>24, <1>25, <1>26, <1>27,
     <1>28, <1>29, <1>30 DEF Step

(* A board at rest is a database, nobody has written on its cards yet, and *)
(* its queues hold at most one card.                                       *)
LEMMA BoardsTyped ==
  \A board \in Boards :
     /\ board \in Databases
     /\ \A i \in Items : board.row[i].rev = 0 /\ board.row[i].notes = {}
     /\ \A t \in Tables : board.queue[t] = <<>> \/ \E i \in Items : board.queue[t] = <<i>>
<1>. DEFINE Resting(p, m) == [Blank EXCEPT !.phase = p, !.marked = m]
           R == {NoRow} \cup {Resting(p, m) : p \in Targets, m \in BOOLEAN}
           Q == {[t \in Tables |-> q] : q \in {<<>>} \cup {<<i>> : i \in Items}}
           AtRest(db) == \A i \in Items :
               db.row[i].marked =>
                  /\ db.row[i].phase \in RUNNABLE_PHASES
                  /\ db.queue["role_runtime_sessions"] = <<i>>
<1>1. \A r \in R : r \in Rows \cup {NoRow} /\ r.rev = 0 /\ r.notes = {}
  <2>1. \A p \in Targets, m \in BOOLEAN :
           /\ Resting(p, m) \in Rows
           /\ Resting(p, m).rev = 0 /\ Resting(p, m).notes = {}
    BY RowsTyped, StoreAssumption DEF Rows, Blank
  <2>. HIDE DEF Resting
  <2>2. \A r \in {Resting(p, m) : p \in Targets, m \in BOOLEAN} : r \in Rows /\ r.rev = 0 /\ r.notes = {}
    BY <2>1
  <2>. QED
    BY <2>2, RowsTyped
<1>2. \A f \in Q : /\ f \in [Tables -> Seq(Items)]
                  /\ \A t \in Tables : f[t] = <<>> \/ \E i \in Items : f[t] = <<i>>
  <2>1. <<>> \in Seq(Items) /\ \A i \in Items : <<i>> \in Seq(Items)
    OBVIOUS
  <2>2. \A q \in {<<>>} \cup {<<i>> : i \in Items} :
           q \in Seq(Items) /\ (q = <<>> \/ \E i \in Items : q = <<i>>)
    BY <2>1, Zenon
  <2>. QED
    BY <2>2
<1>3. Boards = {db \in [row : [Items -> R], report : [Items -> {0}], queue : Q] : AtRest(db)}
  BY DEF Boards
<1>. HIDE DEF R, Q, AtRest
<1>. QED
  BY <1>1, <1>2, <1>3 DEF Databases

(* Types are kept, and with them the attempts a verdict has left.          *)
THEOREM TypesHold == Spec => []TypeInv
<1>1. Init => TypeInv
  <2>. SUFFICES ASSUME Init PROVE TypeInv
    OBVIOUS
  <2>1. conn \in Databases /\ disk \in Databases
    BY BoardsTyped DEF Init
  <2>. QED
    BY <2>1, NoCallTyped DEF Init, TypeInv, ConnTypes, CallTypes, AttemptsLeft, Points, Outcomes
<1>2. TypeInv /\ [Next]_vars => TypeInv'
  <2>1. CASE UNCHANGED vars
    BY <2>1 DEF vars, TypeInv, ConnTypes, CallTypes, AttemptsLeft
  <2>. QED
    BY <2>1, CallStep DEF Next
<1>. QED
  BY <1>1, <1>2, PTL DEF Spec

(* The databases, what every call holds and the clock keep their types.    *)
THEOREM TypeCorrect == Spec => []TypeOK
<1>1. TypeInv => TypeOK
  BY DEF TypeInv, ConnTypes, CallTypes, TypeOK
<1>. QED
  BY <1>1, TypesHold, PTL

-----------------------------------------------------------------------------
(* The pending queue is a set in FIFO order.                               *)

Distinct(q) == \A j, k \in DOMAIN q : q[j] = q[k] => j = k

(* QueueIsASet, of the committed tables too, and of every copy a call will *)
(* write.                                                                  *)
QueuesAreDistinct ==
    /\ \A t \in Tables : Distinct(conn.queue[t]) /\ Distinct(disk.queue[t])
    /\ \A c \in Calls : Distinct(call[c].queue)

(* Taking from the front and adding what is not listed keep the set.       *)
LEMMA DistinctQueues ==
  ASSUME NEW q \in Seq(Items), Distinct(q)
  PROVE  /\ q # <<>> => Distinct(Tail(q))
         /\ \A i \in Items : i \notin {q[k] : k \in DOMAIN q} => Distinct(Append(q, i))
<1>1. ASSUME q # <<>> PROVE Distinct(Tail(q))
  <2>1. SUFFICES ASSUME NEW j \in DOMAIN Tail(q), NEW k \in DOMAIN Tail(q), Tail(q)[j] = Tail(q)[k]
                 PROVE  j = k
    BY DEF Distinct
  <2>2. /\ j \in Nat /\ k \in Nat
        /\ j + 1 \in DOMAIN q /\ Tail(q)[j] = q[j + 1]
        /\ k + 1 \in DOMAIN q /\ Tail(q)[k] = q[k + 1]
    BY <1>1
  <2>. QED
    BY <2>1, <2>2 DEF Distinct
<1>2. ASSUME NEW i \in Items, i \notin {q[k] : k \in DOMAIN q} PROVE Distinct(Append(q, i))
  <2>1. SUFFICES ASSUME NEW j \in DOMAIN Append(q, i), NEW k \in DOMAIN Append(q, i),
                        Append(q, i)[j] = Append(q, i)[k]
                 PROVE  j = k
    BY DEF Distinct
  <2>2. \A m \in DOMAIN Append(q, i) :
           \/ m \in DOMAIN q /\ Append(q, i)[m] = q[m]
           \/ m = Len(q) + 1 /\ Append(q, i)[m] = i
    OBVIOUS
  <2>. QED
    BY <1>2, <2>1, <2>2 DEF Distinct
<1>. QED
  BY <1>1, <1>2

(* What a call writes to a queue is the queue it read, or that queue with  *)
(* one card taken or one unlisted card added.                              *)
LEMMA QueueStep ==
  ASSUME TypeInv, QueuesAreDistinct, [Next]_vars
  PROVE  QueuesAreDistinct'
<1>1. ASSUME NEW c \in Calls, Step(c) PROVE QueuesAreDistinct'
  <2>1. Effect(c)
    BY <1>1, CallStep
  <2>2. \A t \in Tables : Distinct(conn.queue[t])' /\ Distinct(disk.queue[t])'
    BY <2>1 DEF Effect, QueueEffect, QueuesAreDistinct, Distinct
  <2>3. Distinct(call[c].queue)'
    <3>1. Queue \in Seq(Items) /\ Distinct(Queue) /\ call[c].i \in Items
      BY ConnTyped, HeldTyped DEF TypeInv, ConnTypes, QueuesAreDistinct, Queue, Tables
    <3>2. /\ Distinct(<<>>) /\ Distinct(call[c].queue)
          /\ Queue # <<>> => Distinct(Tail(Queue))
          /\ call[c].i \notin {Queue[k] : k \in DOMAIN Queue} => Distinct(Append(Queue, call[c].i))
      <4>1. Distinct(<<>>) /\ Distinct(call[c].queue)
        BY DEF QueuesAreDistinct, Distinct
      <4>. QED
        BY <3>1, <4>1, DistinctQueues
    <3>3. \E q : q = call'[c].queue /\ Distinct(q)
      BY <2>1, <3>1, <3>2 DEF Effect, QueueEffect
    <3>. QED
      BY <3>3 DEF Distinct
  <2>4. \A d \in Calls : d # c => Distinct(call[d].queue)'
    BY <2>1 DEF Effect, QueuesAreDistinct, Distinct
  <2>. QED
    BY <2>2, <2>3, <2>4 DEF QueuesAreDistinct
<1>2. CASE UNCHANGED vars
  BY <1>2 DEF vars, QueuesAreDistinct, Distinct
<1>. QED
  BY <1>1, <1>2 DEF Next

(* "a set-in-FIFO-order, not a bag": whatever enqueues, dequeues and whole *)
(* saves of the session do to each other, no card is listed twice.         *)
THEOREM QueuesAreSets == Spec => []QueueIsASet
<1>1. Init => QueuesAreDistinct
  <2>. SUFFICES ASSUME Init PROVE QueuesAreDistinct
    OBVIOUS
  <2>1. \A t \in Tables : conn.queue[t] = <<>> \/ \E i \in Items : conn.queue[t] = <<i>>
    BY BoardsTyped DEF Init
  <2>2. Distinct(<<>>) /\ \A i \in Items : Distinct(<<i>>)
    BY DEF Distinct
  <2>. QED
    BY <2>1, <2>2, NoCallTyped DEF Init, QueuesAreDistinct
<1>2. TypeInv /\ TypeInv' /\ QueuesAreDistinct /\ [Next]_vars => QueuesAreDistinct'
  BY QueueStep
<1>3. QueuesAreDistinct => QueueIsASet
  BY DEF QueuesAreDistinct, QueueIsASet, Distinct
<1>. QED
  BY <1>1, <1>2, <1>3, TypesHold, PTL DEF Spec

-----------------------------------------------------------------------------
(* The compare-and-swap of a verdict.                                      *)

(* The versions of a card: the row, the committed row, and every copy of   *)
(* it a call has read or is about to write.                                *)
Version(i, v) ==
    \/ v \in {conn.row[i], disk.row[i], NoRow}
    \/ \E c \in Calls : call[c].i = i /\ call[c].snap = v

(* updated_at names what a card says: two versions of one card with the    *)
(* same updated_at carry the same notes, and none is from the future.      *)
RevisionsNameNotes ==
    \A i \in Items : \A u, v :
       Version(i, u) /\ Version(i, v) =>
          /\ u.rev \in 0..clock
          /\ u.rev = v.rev => u.notes = v.notes

(* A step makes at most one version of a card that says something new, and *)
(* stamps it with the time; the others were there before, or differ from   *)
(* one that was only in the marker.                                        *)
LEMMA VersionStep ==
  ASSUME TypeInv, NEW c \in Calls, Step(c), NEW i \in Items
  PROVE  \E new : \A v : Version(i, v)' =>
            \/ \E u : Version(i, u) /\ u.rev = v.rev /\ u.notes = v.notes
            \/ clock' = clock + 1 /\ v.rev = clock + 1 /\ v = new
<1>. DEFINE Old(v) == \E u : Version(i, u) /\ u.rev = v.rev /\ u.notes = v.notes
<1>1. Effect(c)
  BY CallStep
<1>2. \A v : Version(i, v) => Old(v)
  OBVIOUS
<1>3. /\ Version(i, conn.row[i]) /\ Version(i, disk.row[i]) /\ Version(i, NoRow)
      /\ \A d \in Calls : call[d].i = i => Version(i, call[d].snap)
  BY DEF Version
<1>4. Old(disk'.row[i])
  BY <1>1, <1>2, <1>3 DEF Effect, RowEffect
<1>5. \A d \in Calls : d # c /\ call'[d].i = i => Old(call'[d].snap)
  BY <1>1, <1>2, <1>3 DEF Effect
<1>6. ASSUME OldCopy(c), call'[c].i = i PROVE Old(call'[c].snap)
  BY <1>2, <1>3, <1>6 DEF OldCopy
<1>7. CASE OldRows(c) /\ (OldCopy(c) \/ NewCopy(c))
  <2>1. Old(conn'.row[i])
    BY <1>2, <1>3, <1>7 DEF OldRows
  <2>2. \A v : Version(i, v)' => Old(v) \/ (clock' = clock + 1 /\ v.rev = clock + 1 /\ v = call'[c].snap)
    BY <1>2, <1>3, <1>4, <1>5, <1>6, <1>7, <2>1 DEF Version, NewCopy
  <2>. QED
    BY <2>2
<1>8. CASE NewRows(c) /\ OldCopy(c)
  <2>1. Old(conn'.row[i]) \/ (clock' = clock + 1 /\ conn'.row[i].rev = clock + 1)
    BY <1>2, <1>3, <1>8 DEF NewRows
  <2>2. \A v : Version(i, v)' => Old(v) \/ (clock' = clock + 1 /\ v.rev = clock + 1 /\ v = conn'.row[i])
    BY <1>2, <1>3, <1>4, <1>5, <1>6, <1>8, <2>1 DEF Version
  <2>. QED
    BY <2>2
<1>. QED
  BY <1>1, <1>7, <1>8 DEF Effect, RowEffect

LEMMA RevisionStep ==
  ASSUME TypeInv, RevisionsNameNotes, [Next]_vars
  PROVE  RevisionsNameNotes'
<1>1. ASSUME NEW c \in Calls, Step(c) PROVE RevisionsNameNotes'
  <2>. SUFFICES ASSUME NEW i \in Items, NEW v, NEW w, Version(i, v)', Version(i, w)'
                PROVE  v.rev \in 0..clock' /\ (v.rev = w.rev => v.notes = w.notes)
    BY DEF RevisionsNameNotes
  <2>1. clock \in Nat /\ clock' \in {clock, clock + 1}
    BY <1>1, CallStep DEF TypeInv, Effect, RowEffect
  <2>2. PICK new : \A x : Version(i, x)' =>
            \/ \E u : Version(i, u) /\ u.rev = x.rev /\ u.notes = x.notes
            \/ clock' = clock + 1 /\ x.rev = clock + 1 /\ x = new
    BY <1>1, VersionStep
  <2>3. \A x : Version(i, x)' =>
            \/ \E u : Version(i, u) /\ u.rev = x.rev /\ u.notes = x.notes /\ u.rev \in 0..clock
            \/ clock' = clock + 1 /\ x.rev = clock + 1 /\ x = new
    BY <2>2 DEF RevisionsNameNotes
  <2>4. \A t, u : Version(i, t) /\ Version(i, u) /\ t.rev = u.rev => t.notes = u.notes
    BY DEF RevisionsNameNotes
  <2>5. v.rev \in 0..clock'
    BY <2>1, <2>3
  <2>6. v.rev = w.rev => v.notes = w.notes
    BY <2>1, <2>3, <2>4
  <2>. QED
    BY <2>5, <2>6
<1>2. CASE UNCHANGED vars
  BY <1>2 DEF vars, RevisionsNameNotes, Version
<1>. QED
  BY <1>1, <1>2 DEF Next

(* The revisions of every card name what it says.                          *)
THEOREM RevisionsHold == Spec => []RevisionsNameNotes
<1>1. Init => RevisionsNameNotes
  <2>. SUFFICES ASSUME Init PROVE RevisionsNameNotes
    OBVIOUS
  <2>1. \A i \in Items : /\ conn.row[i].rev = 0 /\ conn.row[i].notes = {}
                         /\ disk.row[i] = conn.row[i]
    BY BoardsTyped DEF Init
  <2>2. \A i \in Items : \A v : Version(i, v) => v.rev = 0 /\ v.notes = {}
    BY <2>1, RowsTyped, NoCallTyped DEF Init, Version
  <2>3. clock = 0
    BY DEF Init
  <2>. QED
    BY <2>2, <2>3 DEF RevisionsNameNotes
<1>2. TypeInv /\ RevisionsNameNotes /\ [Next]_vars => RevisionsNameNotes'
  BY RevisionStep
<1>. QED
  BY <1>1, <1>2, TypesHold, PTL DEF Spec

(* "a few retries preserve unrelated same-phase updates": the row a verdict*)
(* overwrites says what the row it read said, so no note is dropped.       *)
THEOREM VerdictsKeepNotes == Spec => VerdictKeepsNotes
<1>. DEFINE Keeps == \A c \in Calls : VerdictWrite(c) =>
                       \A i \in Items : conn.row[i].notes \subseteq conn'.row[i].notes
<1>1. TypeInv /\ RevisionsNameNotes => Keeps
  <2>. SUFFICES ASSUME TypeInv, RevisionsNameNotes, NEW c \in Calls, VerdictWrite(c), NEW i \in Items
                PROVE  conn.row[i].notes \subseteq conn'.row[i].notes
    OBVIOUS
  <2>1. CASE VerdictHits(c)
    <3>. DEFINE row == [call[c].snap EXCEPT !.phase = call[c].to, !.notes = @ \cup {c}, !.rev = clock + 1]
    <3>1. conn' = SetRow(call[c].i, row)
      BY <2>1 DEF VerdictWrite, Execute
    <3>2. call[c].i \in Items /\ call[c].snap \in Rows \cup {NoRow} /\ call[c].to \in Phase
      BY HeldTyped DEF TypeInv
    <3>3. row \in Rows /\ row.notes = call[c].snap.notes \cup {c}
      <4>1. clock + 1 \in Nat
        BY DEF TypeInv
      <4>. QED
        BY <3>2, <4>1 DEF Rows, NoRow, Blank
    <3>4. Version(call[c].i, conn.row[call[c].i]) /\ Version(call[c].i, call[c].snap)
      BY DEF Version
    <3>5. conn.row[call[c].i].notes = call[c].snap.notes
      BY <2>1, <3>2, <3>4 DEF VerdictHits, RevisionsNameNotes
    <3>. HIDE DEF row
    <3>. QED
      BY <3>1, <3>2, <3>3, <3>5, SetRowTyped DEF TypeInv, ConnTypes
  <2>2. CASE ~VerdictHits(c)
    BY <2>2 DEF VerdictWrite, Execute
  <2>. QED
    BY <2>1, <2>2
<1>2. TypeInv /\ RevisionsNameNotes /\ [Next]_vars => [Keeps]_vars
  BY <1>1
<1>. QED
  BY <1>2, TypesHold, RevisionsHold, PTL DEF Spec, VerdictKeepsNotes

(* "without overwriting a concurrent claim": an insert-if-absent that finds*)
(* the card leaves it alone.                                               *)
THEOREM InsertsKeepCards == Spec => InsertKeepsCards
<1>. DEFINE Keeps == \A c \in Calls, i \in Items :
                       InsertWrite(c) /\ Present(i) => conn'.row[i] = conn.row[i]
<1>1. TypeInv => Keeps
  <2>. SUFFICES ASSUME TypeInv, NEW c \in Calls, NEW i \in Items, InsertWrite(c), Present(i)
                PROVE  conn'.row[i] = conn.row[i]
    OBVIOUS
  <2>1. conn' = conn \/ (i # call[c].i /\ conn' = SetRow(call[c].i, call[c].snap))
    BY DEF InsertWrite, Execute
  <2>2. call[c].i \in Items /\ call[c].snap \in Rows \cup {NoRow}
    BY HeldTyped DEF TypeInv
  <2>. QED
    BY <2>1, <2>2, SetRowTyped DEF TypeInv, ConnTypes
<1>2. TypeInv /\ [Next]_vars => [Keeps]_vars
  BY <1>1
<1>. QED
  BY <1>2, TypesHold, PTL DEF Spec, InsertKeepsCards
=============================================================================
