---------------------------- MODULE WorkItemStore ----------------------------
(***************************************************************************)
(* The board's store: one SQLite connection that every coroutine shares.   *)
(*                                                                         *)
(* A store call is a list of statements with an await between any two, so  *)
(* the statements of concurrent calls interleave on the one connection.    *)
(* The transaction belongs to the connection, not to the call: the first   *)
(* DML statement opens it, whoever commits commits what everybody wrote,   *)
(* and whoever rolls back discards what everybody wrote.  A step below is  *)
(* one statement (with the Python that runs before the next await).        *)
(***************************************************************************)
EXTENDS WorkItemPhase, Naturals, Sequences

CONSTANTS
    Calls,      \* the store calls of the run; each is made once (bound)
    Items,      \* the cards
    Targets,    \* the phases that callers move a card to
    Nobody      \* no claim

ASSUME StoreAssumption ==
    /\ Items # {}
    /\ Targets \subseteq Phase
    /\ Nobody \notin Calls

VARIABLES
    conn,       \* the database as the connection sees it
    disk,       \* the database as it was last committed
    open,       \* a transaction is open on the connection
    at,         \* the statement each call sends next
    out,        \* how each call ended
    call,       \* what each call holds
    clock       \* datetime.now(), the source of updated_at

calls == <<at, out, call>>
vars  == <<conn, disk, open, at, out, call, clock>>

-----------------------------------------------------------------------------
(* Rows, and the databases made of them.                                   *)

(* claimant stands for the claim columns and their copies in the metadata. *)
Rows == [phase : Phase, claimant : Calls \cup {Nobody}, held : BOOLEAN,
         marked : BOOLEAN, notes : SUBSET Calls, rev : Nat]

Blank == [phase |-> "READY", claimant |-> Nobody, held |-> FALSE,
          marked |-> FALSE, notes |-> {}, rev |-> 0]

NoRow == [Blank EXCEPT !.phase = "absent"]

Tables == {"role_runtime_sessions", "delegation_role_sessions"}

Databases == [row    : [Items -> Rows \cup {NoRow}],
              report : [Items -> Nat],
              queue  : [Tables -> Seq(Items)]]

Present(i) == conn.row[i] # NoRow

Queue == conn.queue["role_runtime_sessions"]

Outcomes == {"none", "saved", "refused", "raised", "cancelled", "won",
             "applied", "enqueued"}

NoCall == [op |-> "none", i |-> CHOOSE i \in Items : TRUE,
           snap |-> NoRow, to |-> "READY", src |-> 0, queue |-> <<>>,
           hits |-> 0, tries |-> 0]

Points == {"idle", "save", "write", "commit", "insert", "insertCommit",
           "claimCommit", "claimRead", "verdictGet", "verdictWrite",
           "verdictCommit", "verdictRead", "reopenWrite", "queueRead",
           "queueWrite", "mirrorWrite", "queueCommit", "rollback",
           "sessionWrite", "sessionCommit", "sessionMirror", "done"}

(* Points with a statement behind them that is not committed yet.          *)
Pending == {"commit", "insertCommit", "claimCommit", "verdictCommit",
            "queueRead", "queueWrite", "mirrorWrite", "queueCommit",
            "rollback", "sessionCommit"}

-----------------------------------------------------------------------------
(* What a statement does to the connection.                                *)

Query == UNCHANGED <<conn, disk, open>>

Execute(db) ==
    /\ conn' = db
    /\ open' = TRUE
    /\ UNCHANGED disk

CommitAll ==
    /\ disk' = conn
    /\ open' = FALSE
    /\ UNCHANGED conn

SetRow(i, row) == [conn EXCEPT !.row[i] = row]

(* The call goes on with what it holds.                                    *)
Proceed(c, point, held) ==
    /\ at' = [at EXCEPT ![c] = point]
    /\ call' = [call EXCEPT ![c] = held]
    /\ UNCHANGED out

Goto(c, point) == Proceed(c, point, call[c])

(* A call returns; what it read is gone.                                   *)
Finish(c, op, i, result) ==
    /\ at' = [at EXCEPT ![c] = "done"]
    /\ out' = [out EXCEPT ![c] = result]
    /\ call' = [call EXCEPT ![c] = [NoCall EXCEPT !.op = op, !.i = i]]

Return(c, result) == Finish(c, call[c].op, call[c].i, result)

Begin(c, op, i, point, snap) ==
    Proceed(c, point, [NoCall EXCEPT !.op = op, !.i = i, !.snap = snap])

Commit(c, from, to) ==
    /\ at[c] = from
    /\ CommitAll
    /\ Goto(c, to)
    /\ UNCHANGED clock

-----------------------------------------------------------------------------
(* update_delegation_work_item: read the row, change the copy, save it.    *)

(* A note in the metadata, a durable hold that releases the claim (Stop),  *)
(* the enqueue hook's marker, or a new phase.                              *)
Edited(c, row, edit) ==
    CASE edit = "note" -> [row EXCEPT !.notes = @ \cup {c}]
      [] edit = "hold" -> [row EXCEPT !.held = TRUE, !.claimant = Nobody]
      [] edit = "mark" -> [row EXCEPT !.marked = TRUE]
      [] OTHER         -> [row EXCEPT !.phase = edit]

UpdateGet(c) ==
    /\ at[c] = "idle"
    /\ Query
    /\ clock' = clock + 1
    /\ \E i \in Items, edit \in {"note", "hold", "mark"} \cup Targets :
          LET new == Edited(c, conn.row[i], edit) IN
          IF Present(i) /\ Legal(conn.row[i].phase, new.phase)
          THEN Begin(c, "update", i, "save", [new EXCEPT !.rev = clock + 1])
          ELSE Finish(c, "update", i, IF Present(i) THEN "raised" ELSE "refused")

(* _clear_queued_marker on an item of a list loaded earlier: the same save *)
(* with the updated_at the item was loaded with.                           *)
MarkerGet(c) ==
    /\ at[c] = "idle"
    /\ Query
    /\ \E i \in Items :
          /\ conn.row[i].marked
          /\ Begin(c, "unmark", i, "save", [conn.row[i] EXCEPT !.marked = FALSE])
    /\ UNCHANGED clock

(* _write_delegation_work_item reads the row again and validates the step  *)
(* from what it reads to the copy; then it writes the whole copy.          *)
SaveGet(c) ==
    /\ at[c] = "save"
    /\ Query
    /\ LET existing == conn.row[call[c].i] IN
       IF existing = NoRow \/ Legal(existing.phase, call[c].snap.phase)
       THEN Goto(c, "write")
       ELSE Return(c, "raised")
    /\ UNCHANGED clock

SaveWrite(c) ==
    /\ at[c] = "write"
    /\ Execute(SetRow(call[c].i, call[c].snap))
    /\ Goto(c, "commit")
    /\ UNCHANGED clock

SaveCommit(c) ==
    /\ at[c] = "commit"
    /\ CommitAll
    /\ Return(c, "saved")
    /\ UNCHANGED clock

-----------------------------------------------------------------------------
(* insert_delegation_work_item_if_absent: ON CONFLICT DO NOTHING.          *)

InsertGet(c) ==
    /\ at[c] = "idle"
    /\ Query
    /\ \E i \in Items :
          IF Present(i)
          THEN Finish(c, "insert", i, "refused")
          ELSE Begin(c, "insert", i, "insert", [Blank EXCEPT !.rev = clock + 1])
    /\ clock' = clock + 1

(* Mutant: the conflict clause of save_delegation_work_item, DO UPDATE.    *)
InsertWriteOver(c) ==
    /\ at[c] = "insert"
    /\ Execute(SetRow(call[c].i, call[c].snap))
    /\ Proceed(c, "insertCommit", [call[c] EXCEPT !.hits = 1])
    /\ UNCHANGED clock

InsertWrite(c) ==
    /\ at[c] = "insert"
    /\ LET i == call[c].i IN
       /\ Execute(IF Present(i) THEN conn ELSE SetRow(i, call[c].snap))
       /\ Proceed(c, "insertCommit", [call[c] EXCEPT !.hits = IF Present(i) THEN 0 ELSE 1])
    /\ UNCHANGED clock

InsertCommit(c) ==
    /\ at[c] = "insertCommit"
    /\ CommitAll
    /\ Return(c, IF call[c].hits = 1 THEN "saved" ELSE "refused")
    /\ UNCHANGED clock

-----------------------------------------------------------------------------
(* claim_delegation_work_item_if_dispatchable: one guarded UPDATE, then    *)
(* the row is read back.                                                   *)

Claimable(row, from) ==
    /\ row.phase = from
    /\ row.claimant = Nobody
    /\ ~row.held
    /\ ~row.marked

ClaimWrite(c) ==
    /\ at[c] = "idle"
    /\ clock' = clock + 1
    /\ \E i \in Items, from \in RUNNABLE_PHASES \cup IN_PROGRESS_PHASES :
          LET hit == Present(i) /\ Claimable(conn.row[i], from) IN
          /\ from \in Targets
          /\ Execute(IF hit
                     THEN SetRow(i, [conn.row[i] EXCEPT !.phase = "RUNNING",
                                         !.claimant = c, !.rev = clock + 1])
                     ELSE conn)
          /\ Proceed(c, "claimCommit", [NoCall EXCEPT !.op = "claim", !.i = i,
                                            !.hits = IF hit THEN 1 ELSE 0])

ClaimCommit(c) ==
    /\ at[c] = "claimCommit"
    /\ CommitAll
    /\ IF call[c].hits = 0 THEN Return(c, "refused") ELSE Goto(c, "claimRead")
    /\ UNCHANGED clock

ClaimRead(c) ==
    /\ at[c] = "claimRead"
    /\ Query
    /\ LET row == conn.row[call[c].i] IN
       Return(c, IF /\ row.phase = "RUNNING"
                    /\ row.claimant = c
                    /\ ~row.held
                    /\ ~row.marked
                 THEN "won" ELSE "refused")
    /\ UNCHANGED clock

-----------------------------------------------------------------------------
(* apply_delegation_review_resolution: three attempts of read, guarded     *)
(* UPDATE on phase, updated_at and latest applied report, commit.          *)

(* The verdict on a report that was applied at some time.                  *)
VerdictBegin(c) ==
    /\ at[c] = "idle"
    /\ \E i \in Items, to \in {"APPROVED", "READY_FOR_REWORK"} :
          \E src \in 0..conn.report[i] :
             /\ Present(i)
             /\ Proceed(c, "verdictGet", [NoCall EXCEPT !.op = "verdict", !.i = i,
                                              !.to = to, !.src = src])
    /\ Query
    /\ UNCHANGED clock

VerdictGet(c) ==
    /\ at[c] = "verdictGet"
    /\ Query
    /\ LET row == conn.row[call[c].i] IN
       IF row.phase = "AWAITING_MANAGER_REVIEW"
       THEN Proceed(c, "verdictWrite", [call[c] EXCEPT !.snap = row])
       ELSE Return(c, "refused")
    /\ UNCHANGED clock

(* Mutant: the update is not conditional on updated_at.                    *)
VerdictHitsAnyRevision(c) ==
    LET row == conn.row[call[c].i] IN
    /\ row.phase = "AWAITING_MANAGER_REVIEW"
    /\ conn.report[call[c].i] = call[c].src

VerdictHits(c) ==
    LET row == conn.row[call[c].i] IN
    /\ row.phase = "AWAITING_MANAGER_REVIEW"
    /\ row.rev = call[c].snap.rev
    /\ conn.report[call[c].i] = call[c].src

(* Phase and the merged copy of the metadata are written; the copy carries *)
(* the notes, the marker and the hold of the row that was read.            *)
VerdictWrite(c) ==
    /\ at[c] = "verdictWrite"
    /\ clock' = clock + 1
    /\ Execute(IF VerdictHits(c)
               THEN SetRow(call[c].i, [call[c].snap EXCEPT !.phase = call[c].to,
                                           !.notes = @ \cup {c}, !.rev = clock + 1])
               ELSE conn)
    /\ Proceed(c, "verdictCommit", [call[c] EXCEPT !.tries = @ + 1,
                                        !.hits = IF VerdictHits(c) THEN 1 ELSE 0])

Attempts == 3

(* Mutant: the attempts are counted one too far.                           *)
VerdictCommitOnceMore(c) ==
    /\ at[c] = "verdictCommit"
    /\ CommitAll
    /\ \/ /\ call[c].hits = 1
          /\ Goto(c, "verdictRead")
       \/ /\ call[c].hits = 0
          /\ call[c].tries <= Attempts
          /\ Goto(c, "verdictGet")
    /\ UNCHANGED clock

VerdictCommit(c) ==
    /\ at[c] = "verdictCommit"
    /\ CommitAll
    /\ \/ /\ call[c].hits = 1
          /\ Goto(c, "verdictRead")
       \/ /\ call[c].hits = 0
          /\ call[c].tries < Attempts
          /\ Goto(c, "verdictGet")
       \/ /\ call[c].hits = 0
          /\ call[c].tries = Attempts
          /\ Return(c, "refused")
    /\ UNCHANGED clock

(* The row is read back, but only its absence would refuse.                *)
VerdictRead(c) ==
    /\ at[c] = "verdictRead"
    /\ Query
    /\ Return(c, "applied")
    /\ UNCHANGED clock

(* A report card of the card is applied: the latest report changes.        *)
ReportWrite(c) ==
    /\ at[c] = "idle"
    /\ \E i \in Items :
          /\ conn.row[i].phase = "AWAITING_MANAGER_REVIEW"
          /\ Execute([conn EXCEPT !.report[i] = @ + 1])
          /\ Begin(c, "report", i, "commit", NoRow)
    /\ UNCHANGED clock

(* reopen_approved_delegation_work_item_for_rework: no second read, and    *)
(* the UPDATE has no predicate on what was read.                           *)
ReopenGet(c) ==
    /\ at[c] = "idle"
    /\ Query
    /\ clock' = clock + 1
    /\ \E i \in Items, to \in RUNNABLE_PHASES \cap Targets :
          /\ Present(i)
          /\ IF conn.row[i].phase = "APPROVED"
             THEN Begin(c, "reopen", i, "reopenWrite",
                        [conn.row[i] EXCEPT !.phase = to, !.claimant = Nobody,
                             !.notes = @ \cup {c}, !.rev = clock + 1])
             ELSE Finish(c, "reopen", i, "raised")

ReopenWrite(c) ==
    /\ at[c] = "reopenWrite"
    /\ Execute(SetRow(call[c].i, call[c].snap))
    /\ Goto(c, "commit")
    /\ UNCHANGED clock

-----------------------------------------------------------------------------
(* enqueue_ and dequeue_pending_work_item: BEGIN IMMEDIATE, read the list, *)
(* write it to both tables, commit - on the connection everybody shares.   *)

QueueBegin(c) ==
    /\ at[c] = "idle"
    /\ \E op \in {"enqueue", "dequeue"}, i \in Items :
          IF open      \* cannot start a transaction within a transaction
          THEN /\ Finish(c, op, i, "raised")
               /\ Query
          ELSE /\ Begin(c, op, i, "queueRead", NoRow)
               /\ Execute(conn)
    /\ UNCHANGED clock

(* Mutant: the queue is a bag.                                             *)
QueueReadBag(c) ==
    /\ at[c] = "queueRead"
    /\ Query
    /\ CASE call[c].op = "enqueue" ->
              Proceed(c, "queueWrite", [call[c] EXCEPT !.queue = Append(Queue, call[c].i)])
         [] call[c].op = "dequeue" /\ Queue # <<>> ->
              Proceed(c, "queueWrite", [call[c] EXCEPT !.queue = Tail(Queue)])
         [] OTHER -> Goto(c, "rollback")
    /\ UNCHANGED clock

QueueRead(c) ==
    /\ at[c] = "queueRead"
    /\ Query
    /\ LET listed == call[c].i \in {Queue[k] : k \in DOMAIN Queue} IN
       CASE call[c].op = "enqueue" /\ ~listed ->
              Proceed(c, "queueWrite", [call[c] EXCEPT !.queue = Append(Queue, call[c].i)])
         [] call[c].op = "dequeue" /\ Queue # <<>> ->
              Proceed(c, "queueWrite", [call[c] EXCEPT !.queue = Tail(Queue)])
         [] OTHER -> Goto(c, "rollback")
    /\ UNCHANGED clock

QueueWrite(c) ==
    /\ at[c] = "queueWrite"
    /\ Execute([conn EXCEPT !.queue["role_runtime_sessions"] = call[c].queue])
    /\ Goto(c, "mirrorWrite")
    /\ UNCHANGED clock

MirrorWrite(c) ==
    /\ at[c] = "mirrorWrite"
    /\ Execute([conn EXCEPT !.queue["delegation_role_sessions"] = call[c].queue])
    /\ Goto(c, "queueCommit")
    /\ UNCHANGED clock

QueueCommit(c) ==
    /\ at[c] = "queueCommit"
    /\ CommitAll
    /\ Return(c, IF call[c].op = "enqueue" THEN "enqueued" ELSE "saved")
    /\ UNCHANGED clock

(* Mutant: the early return forgets the transaction it has begun.          *)
QueueRollbackForgotten(c) ==
    /\ at[c] = "rollback"
    /\ Query
    /\ Return(c, "refused")
    /\ UNCHANGED clock

(* Nothing to do: ROLLBACK, which discards what others wrote meanwhile and *)
(* raises (twice) when somebody committed the transaction.                 *)
QueueRollback(c) ==
    /\ at[c] = "rollback"
    /\ conn' = IF open THEN disk ELSE conn
    /\ open' = FALSE
    /\ UNCHANGED disk
    /\ Return(c, IF open THEN "refused" ELSE "raised")
    /\ UNCHANGED clock

(* update_delegation_role_session: read the session, write the whole copy, *)
(* queue included, to one table and then to the other.                     *)
SessionGet(c) ==
    /\ at[c] = "idle"
    /\ Query
    /\ Proceed(c, "sessionWrite", [NoCall EXCEPT !.op = "session", !.queue = Queue])
    /\ UNCHANGED clock

SessionWrite(c) ==
    /\ at[c] = "sessionWrite"
    /\ Execute([conn EXCEPT !.queue["role_runtime_sessions"] = call[c].queue])
    /\ Goto(c, "sessionCommit")
    /\ UNCHANGED clock

SessionCommit(c) == Commit(c, "sessionCommit", "sessionMirror")

SessionMirror(c) ==
    /\ at[c] = "sessionMirror"
    /\ Execute([conn EXCEPT !.queue["delegation_role_sessions"] = call[c].queue])
    /\ Goto(c, "commit")
    /\ UNCHANGED clock

-----------------------------------------------------------------------------
(* The coroutine of a call is cancelled at an await (Stop cancels turns):  *)
(* the statement it sent has run, `except Exception` does not see it.      *)
Cancel(c) ==
    /\ at[c] \notin {"idle", "done"}
    /\ Query
    /\ Return(c, "cancelled")
    /\ UNCHANGED clock

Step(c) ==
    \/ UpdateGet(c)    \/ MarkerGet(c)    \/ SaveGet(c)       \/ SaveWrite(c)
    \/ SaveCommit(c)   \/ InsertGet(c)    \/ InsertWrite(c)   \/ InsertCommit(c)
    \/ ClaimWrite(c)   \/ ClaimCommit(c)  \/ ClaimRead(c)     \/ VerdictBegin(c)
    \/ VerdictGet(c)   \/ VerdictWrite(c) \/ VerdictCommit(c) \/ VerdictRead(c)
    \/ ReportWrite(c)  \/ ReopenGet(c)    \/ ReopenWrite(c)   \/ QueueBegin(c)
    \/ QueueRead(c)    \/ QueueWrite(c)   \/ MirrorWrite(c)   \/ QueueCommit(c)
    \/ QueueRollback(c) \/ SessionGet(c)  \/ SessionWrite(c)  \/ SessionCommit(c)
    \/ SessionMirror(c) \/ Cancel(c)

Next == \E c \in Calls : Step(c)

(* A board at rest: a held or marked card is unclaimed, a marked card is   *)
(* in the queue, and both tables agree.                                    *)
Boards ==
    {db \in [row    : [Items -> {NoRow} \cup
                         {[Blank EXCEPT !.phase = p, !.marked = m] :
                             p \in Targets, m \in BOOLEAN}],
             report : [Items -> {0}],
             queue  : {[t \in Tables |-> q] : q \in {<<>>} \cup {<<i>> : i \in Items}}] :
        \A i \in Items :
           db.row[i].marked =>
              /\ db.row[i].phase \in RUNNABLE_PHASES
              /\ db.queue["role_runtime_sessions"] = <<i>>}

Init ==
    /\ conn \in Boards
    /\ disk = conn
    /\ open = FALSE
    /\ at = [c \in Calls |-> "idle"]
    /\ out = [c \in Calls |-> "none"]
    /\ call = [c \in Calls |-> NoCall]
    /\ clock = 0

Spec == Init /\ [][Next]_vars

-----------------------------------------------------------------------------
(* Properties.                                                             *)

CallStates == [op : {"none", "update", "unmark", "insert", "claim", "verdict",
                     "report", "reopen", "enqueue", "dequeue", "session"},
               i : Items, snap : Rows \cup {NoRow}, to : Phase,
               src : Nat, queue : Seq(Items), hits : {0, 1},
               tries : 0..Attempts]

TypeOK ==
    /\ conn \in Databases
    /\ disk \in Databases
    /\ open \in BOOLEAN
    /\ at \in [Calls -> Points]
    /\ out \in [Calls -> Outcomes]
    /\ call \in [Calls -> CallStates]
    /\ clock \in Nat

(* Whatever the calls did to each other, a connection on which no call is  *)
(* between a statement and its commit has nothing uncommitted: what the    *)
(* board reads then survives a crash, and the next BEGIN IMMEDIATE works.  *)
(* Only a call cancelled in the middle leaves a transaction behind         *)
(* (`except Exception`, store.py:2783, does not roll a cancelled one back).*)
QuietConnectionIsClean ==
    (\A c \in Calls : at[c] \notin Pending /\ out[c] # "cancelled")
       => ~open /\ conn = disk

(* "a few retries preserve unrelated same-phase updates": a verdict never  *)
(* drops a note another call wrote to the card since the verdict read it.  *)
VerdictKeepsNotes ==
    [][\A c \in Calls : VerdictWrite(c) =>
          \A i \in Items : conn.row[i].notes \subseteq conn'.row[i].notes]_vars

(* "without overwriting a concurrent claim": a card that is already there  *)
(* when an insert-if-absent lands is left as it is.                        *)
InsertKeepsCards ==
    [][\A c \in Calls, i \in Items :
          InsertWrite(c) /\ Present(i) => conn'.row[i] = conn.row[i]]_vars

(* "a set-in-FIFO-order, not a bag": no interleaving of enqueues, dequeues *)
(* and whole-session saves puts a card in the queue twice.                 *)
QueueIsASet ==
    \A t \in Tables : \A j, k \in DOMAIN conn.queue[t] :
       conn.queue[t][j] = conn.queue[t][k] => j = k

(* "so two concurrent dispatcher ticks cannot clobber each other's append":*)
(* while nobody takes from the queue and nobody saves the whole session, a *)
(* card whose enqueue returned True is in the queue (store.py:2735).       *)
AppendsSurvive ==
    \A c \in Calls :
       /\ out[c] = "enqueued"
       /\ \A d \in Calls : call[d].op \notin {"dequeue", "session"}
       => \E k \in DOMAIN Queue : Queue[k] = call[c].i

(* "there is no way to write an invalid phase by accident": the phase of a *)
(* stored card moves along the table, or by the reopening of approved work.*)
PhaseWritesAreLegal ==
    [][\A c \in Calls : SaveWrite(c) =>
          LET i == call[c].i IN
          Present(i) => Legal(conn.row[i].phase, conn'.row[i].phase)]_vars
=============================================================================
