# PysdnOPC: a verification project for the delegation board and its controller

PysdnOPC runs a "company" of LLM agents. Work is cut into cards (delegation
work items); a manager's turn delegates cards to workers and parks; the runtime
claims cards, runs a turn for each, routes their results to review, and keeps a
dependency frontier that wakes a parent when its children are approved or have
settled with failures. Everything runs as coroutines of one asyncio event loop
over one SQLite connection, so each `await` of the store is a place where any
other coroutine may move the same cards. That is what this project models, and,
inside a turn, the loop of the native agent with its tool calls and its history.

## Inventory

| part (under `src/opc/`) | state it keeps | operations | interacts with | what is hard |
|---|---|---|---|---|
| phase table (`core/models.py`, `layer2_organization/phase.py`) | none | `validate_transition`, phase groups | every phase write | which stale writes it lets through (FAILED -> READY) |
| dependency frontier (`work_item_transition.py`, `phase_hooks.py`) | `dependency_settlement`, synthesis flags, `_REFRESH_IN_FLIGHT` | `refresh_dependents_for_run`, doomed fixpoint, cascade, transition hooks | store; started by turns, verdicts, ticks | several passes in flight, each writing from its own snapshot |
| claim lease (`_store_work_items.py`, `company_runtime.py`) | claim columns and their metadata mirrors | claim CAS, release, startup sweep | dispatcher, frontier, suspend | two copies of one fact, cleared by different code |
| dispatcher and turns (`_company_executor_dispatch.py`) | in-memory member sessions, wake event | claim, run, park, complete, spawn delivery, tick | everything | decisions read before an await and written after it |
| manager tools (`layer4_tools/collaboration.py`) | dependency lists of a parent | delegate, modify, delete, release | store, wake event | edits of a board that is running |
| review chain (`_company_executor_review.py`) | hidden report and review cards, verdicts | materialise review, apply verdict, rework, escalate | store CAS (three attempts) | late and repeated verdicts, rework budget |
| human decisions (`engine/_core.py`, `_checkpoints.py`) | human-wait checkpoints | accept, follow up | board | an answer to what has moved on |
| suspend / resume / crash (`engine/_core.py`, `plugins/office_ui/_ws_company.py`) | checkpoint, `dispatch_hold`, controller state | checkpoint, hold, cancel, restore, startup sweep | board, turns | turns write while the board is being suspended |
| work item store (`database/_store_work_items.py`) | rows | full-row update, CAS, event log | all | read-modify-write beside compare-and-set |
| role serial queue (`phase_hooks.py`, `company_runtime.py`, `database/store.py`) | focus and pending queue of a session, `queued_behind_session` | enqueue, dequeue, reconcile | claim filter | check of the focus, then enqueue |
| active task runs (`core/active_task_runs.py`) | attempts, hand-off counts, admission flag | register, reserve, revoke, close and wait | shutdown, UI router | a shutdown barrier against late registrations |
| task table and locks (`database/_store_tasks.py`, `heartbeat.py`) | execution lock, checkout | acquire with steal, release, checkout | executor | unconditional release after a steal |
| comms, mailbox, meetings | messages, read marks | send, deliver, read, reactivate | turns | order and loss between read and archive |
| approval, budget guards | policies, requests; spent sums | classify, ask; pre and post call | tools, LLM | check-then-act of concurrent calls |
| native runtime (`layer3_agent/runtime_v2/`, `llm/provider.py`) | history, transcript, early and batched tool runs, retry counters | bootstrap, context pipeline, stream, collect, execute, record | tools, memory, provider | tools that start before the answer is complete; a transcript written part by part |
| adapters, tools, memory, perception, org, recruiter, config, UI, CLI, provider | mostly external state or text | | | process and network I/O, out of reach of a model |

What makes each of the modelled parts correct:

* table: the only way out of a terminal phase is the retry of a failed card;
* lease: at most one turn per card; a turn's lease is withdrawn only after the
  card is held;
* frontier: closed cards stay closed, a released card is not sent back, a failure
  never wedges a parent, an accepted failure closes the stuck work behind it, a
  cascade leaves running work alone;
* turns: no card is approved over children it has not heard of;
* intake: one delivery card per intake;
* recovery: resume restores what the stop interrupted, never less;
* controller: one request resumes a scope at a time, lifted holds have an owner,
  the shutdown knows every live scope before it cancels, and it ends.

* store: what is quiet is committed; an insert or a verdict overwrites nobody;
* role queue: one turn per role, a parked role still reviews, no runnable card is
  forgotten;
* review chain: a verdict is journalled before it counts, is about the latest
  report, is never replayed, and every delivery is decided;
* native turn: every request is a sequence a provider accepts, a result stays with
  its call, a write runs alone, what was recorded in full survives a resume.

The hazards, one by one with their lines and the properties that cover them, are
in `PROJECT.json` under `hazards`; those with an empty list of properties say why.

## Modules

**`WorkItemPhase`**: the phases, their groups, `ALLOWED_TRANSITIONS` and
`Legal` (`validate_transition`; writing the same phase is always accepted).

**`TurnLease`**: the abstract promise about turns, with three variables: which
items are leased, worked on, frozen. A lease is withdrawn under a worker only by
freezing the item or by stopping everybody. It is the abstract specification
`DependencyFrontier` is shown to implement, and stands for no code of its own.

**`DependencyFrontier`**: one run's board and everybody who moves its cards.

| state | in the code |
|---|---|
| `phase`, `deps` | `DelegationWorkItem.phase`, metadata `dependency_work_item_ids` |
| `stamp` | metadata `dependency_settlement`: `over` is failed, cancelled and stuck together, `stuck` the open part, `cascaded` is `cascaded_at` |
| `synth`, `delegator`, `pend` | `synthesis_turn_started` with `work_kind`, `last_delegated_by_seat_id`, `delegated_children_pending` |
| `rework`, `reworks` | `rework_feedback`; the number of returns, which bounds the model |
| `claimed`, `mirror` | column `claimed_by_role_runtime_session_id`; its copies in the metadata |
| `turn` | where the coroutine of the card is: claimed, working, or holding the outcome it has computed and not yet written |
| `pass` | the refresh passes in flight: snapshot decisions, cards left to write, cascades left to do |
| `run`, `hold`, `saved` | the controller, `dispatch_hold`, the phases in the suspend checkpoint |

| actions | code |
|---|---|
| `Claim`, `TurnStart`, `TurnFail`, `TurnBlocked` | `_work_item_is_runnable`, the claim CAS, `_run_work_item` |
| `Delegate`, `ManagerRelease` | `delegate_work`, `release_manager_work_items` |
| `TurnFinish`, `ParkWrite`, `ParkSettledWrite`, `SpawnDelivery`, `CloseIntake`, `DoneWrite` | `_park_for_delegated_children`, `_spawn_delivery_card_after_intake`, `_apply_done_transition`: the read and the write are separate steps, as there are awaits between them |
| `ReviewVerdict`, `ReviewCardCloses`, `HumanApprove`, `HumanFollowUp` | the review's compare-and-set with the reviewer's second refresh (`again`), the hidden cards' closings, the acceptance and the follow-up of a delivery |
| `BeginPass`, `PassCard`, `EndScan`, `CascadeCancel`, `CascadeStamp`, `EndPass` | `refresh_dependents_for_run`: one read of the run, one write per card, then one write per cancellation |
| `TickRelease`, `TickSettle` | `_refresh_ready_work_items` |
| `Stop`, `HoldCard`, `Halt`, `Crash`, `ResumeCard`, `Restart` | checkpoint, hold, cancellation of the coroutines; death of the process with the startup sweep; restoration |

A phase write that lands in `_DEPENDENT_REFRESH_TARGETS` starts a pass, awaited
by its writer (`Notify`); an approving reviewer runs a second one; a pass's own writes do not (the `ContextVar` guard). A
turn's write with an illegal target is dropped without an error, as
`transition_work_item_from_task` does, and a pass swallows the exception.

**`ActiveTaskRuns`**: the registry of live executions, the Continue requests that
come to the controller, and Stop and shutdown, which take a running scope away
from its scheduler. It shares no state with the board: a scope's cards are
`hold` and `loose`, its checkpoint `ckpt`. A step is what a coroutine does between
two awaits that matter.

| state | in the code |
|---|---|
| `refs`, `attempts` | `_handoff_refs`, `_attempts`; a token is `<<request, turn>>`, turn 0 the scheduler |
| `route`, `job` | where the coroutines of `_route_message` and `_process_company_suspend_reply` are |
| `reply`, `lock` | `_company_suspend_reply_locks`, `scope_lock` |
| `cancelled` | jobs with a cancellation they have not answered |
| `ckpt`, `hold`, `loose` | the suspend checkpoint's status, `dispatch_hold` on the cards the last suspension saw, a card delegated since |
| `stop`, `sd`, `snap`, `todo` | `_company_stop_finalize_tasks`; where `shutdown` is, the scopes it has listed, those to be checkpointed |

| actions | code |
|---|---|
| `Accept`, `CheckTarget`, `Reject`, `Track`, `Leave` | `_route_message` around `_handle_session_resume`: reserve, read the checkpoint, turn away or start the job with a reference of its own, release |
| `ClaimCheckpoint`, `Register`, `LiftHolds`, `Complete` | `_handoff_company_suspend_checkpoint`, `_complete_company_suspend_checkpoint_resume` |
| `SpawnTurn`, `Delegate`, `EndTurn` | `_claim_and_create_work_item_tasks`, a turn's `delegate_work`, `unregister` |
| `Unwind`, `Unwound`, `Restore`, `Abandon`, `Fail` | cancellation and failure: the turns end, the holds come back (shielded after a cancellation, dropped by a cancellation after a failure), the driver lets go |
| `Close`, `CutShort`, `DoneCallback` | the finally clause of the job, the callback of `_track` |
| `StopRequest`, `StopHold`, `StopPublish`, `StopCancelled` | `_handle_session_stop`, `_finalize_company_runtime_stop` |
| `ShutClose`, `Drained`, `PrepareScope`, `Down` | `WSHandler.shutdown` with `prepare_active_company_runtimes_for_shutdown` |

`register` refuses a request without reservation or driver once admission is
closed. That branch is no action: `ClaimedIsAdmitted` shows that nobody who is not
cancelled reaches it, and `DriverInv` that a scheduler's turns have their driver.

**`WorkItemStore`**: the store's calls statement by statement, on the one aiosqlite
connection all coroutines share. A transaction belongs to the connection: the first
DML statement opens it, whoever commits commits what everybody wrote, whoever rolls
back discards it. It shares no state with the board above, whose steps are its calls.

| state | in the code |
|---|---|
| `conn`, `disk`, `open` | the database as the connection reads it, as it was last committed, an open transaction |
| `at`, `call`, `out` | where each call is between two awaits, what it holds (row read, list read, attempts), how it ended |
| `clock` | `datetime.now()`, source of `updated_at` (`rev`) |

| actions | code |
|---|---|
| `UpdateGet`, `MarkerGet`, `SaveGet`, `SaveWrite`, `SaveCommit` | `update_delegation_work_item`, `_clear_queued_marker`, `_write_delegation_work_item`: two reads, the second only validates the phase, then the whole row |
| `InsertGet`, `InsertWrite`, `InsertCommit` | `insert_delegation_work_item_if_absent` (ON CONFLICT DO NOTHING) |
| `ClaimWrite`, `ClaimCommit`, `ClaimRead` | `claim_delegation_work_item_if_dispatchable` |
| `VerdictBegin` ... `VerdictRead`, `ReportWrite`, `ReopenGet`, `ReopenWrite` | `apply_delegation_review_resolution` with its three attempts, the report it compares with, the reopening of approved work |
| `QueueBegin`, `QueueRead`, `QueueWrite`, `MirrorWrite`, `QueueCommit`, `QueueRollback` | `enqueue_`, `dequeue_pending_work_item`: BEGIN IMMEDIATE, two tables, COMMIT or ROLLBACK |
| `SessionGet`, `SessionWrite`, `SessionCommit`, `SessionMirror` | `update_delegation_role_session` |
| `Cancel` | cancellation at any await; the statement already sent has run |

**`RoleSerialQueue`**: one role session and its cards. A step is what a coroutine
does around one store call; the calls are whole.

| state | in the code |
|---|---|
| `row` | phase, claim (`copy`: only the metadata mirror is left), `queued_behind_session` of each card |
| `sess`, `mem`, `prev` | the session's row; the dispatcher's copy with the member session; `_review_preempt_prev_work_item_id` |
| `runq` | `role_queues`, in memory |
| `tick`, `turn` | where the dispatcher's loop and each card's coroutine are |
| `hook`, `rec` | enqueue hooks and reconciles in flight, with the rows they have read |

| actions | code |
|---|---|
| `TickSync`, `TickLoad`, `TickReload`, `TickPlan`, `TickPick`, `TickClaim`, `TickStart` | one pass of the main loop: `refresh_inbox_state`, load, `_reconcile_role_serial_queues`, `enqueue_runnable_work_items` with `_rehydrate_parked_member_sessions`, `claim_runnable_tasks` |
| `RecLoadSessions`, `RecLoadItems`, `RecClear`, `RecSave` | `reconcile_role_serial_queues`, also run by the terminal hook |
| `TermList`, `TermClear`, `HookRead`, `HookAppend`, `HookMark` | `clear_session_focus_on_terminal_hook`, `enqueue_session_work_on_runnable_hook` |
| `TurnEnds`, `ReviewEnds`, `Harvest`, `Complete`, `CloseReview` | outcome write, exception handling, `complete_claim`, closing of the review card |
| `Release`, `Approve`, `Return`, `Withdraw`, `Wake`, `Resume` | what the board does to the role's cards; stop and resume |

**`ReviewChain`**: one delivered card, its hidden report and review cards, the three
kinds of coroutine that move them. In `DependencyFrontier` all of it is the step
`ReviewVerdict`.

| state | in the code |
|---|---|
| `board.child` | the delivered card with its cached counters and `review_resolution_applied_work_item_id` (`stamp`) |
| `board.reports`, `board.reviews` | the hidden cards by attempt (the id is derived from it); `source` is the report a review is about, `verdict` and `state` are the journalled resolution |
| `at` | where the worker's turn, each task of the manager's seat and the tick are, with what they have read |

| actions | code |
|---|---|
| `EnsureReport`, `AddReport`, `CountReport`, `EnsureReview`, `Supersede`, `AddReview`, `CountReview` | `_ensure_report_`, `_ensure_review_work_item_for_work_item` |
| `Deliver`, `ReportEnds`, `AcceptReport`, `RefuseReport`, `ReportFails` | `_apply_done_transition`, `_apply_report_done_transition`, a failed report turn |
| `ReviewEnds`, `ReviewFails`, `FinalizeFailed`, `CloseMoot`, `Retry`, `CountRetry`, `PersistVerdict` | `_finalize_review_work_item`, `_retry_verdict_parse_failed`, `_persist_terminal_review_resolution` |
| `Check`, `Cas`, `CasLost`, `Recheck`, `MarkStale`, `MarkApplied` | `_apply_review_resolution` |
| `Reconcile`, `ClaimForWorker`, `ClaimForManager`, `TickEnds` | `_reconcile_missing_review_chain`, the tick's claims |
| `Outage`, `Withdraw` | crash or stop with the startup sweep; a cascade or a manager cancels the card |

**`NativeTurn`**: the turns of one session, one after the other: the loop of
`runtime.py` with the tool executor, the planner, the sanitizer of the provider layer
and the transcript. On the board a whole turn is `TurnStart` and an outcome.

| state | in the code |
|---|---|
| `messages`, `base` | the history in memory, `base_prefix_len`; a message is its role, its calls or the call it answers, never its text |
| `transcript`, `memory` | the session's persisted messages by parts; whether a session memory exists |
| `calls`, `early`, `stale` | `tool_call_chunks`, `early_tool_runs`, those whose call has changed since they were started |
| `run`, `todo`, `batch`, `at` | the execution of each call, `remaining_calls`, the batch being executed, the call the loop has come to |
| `iter`, `retries` | the iteration; overflow, feedback and context-reset retries |

| actions | code |
|---|---|
| `Boot`, `Resume`, `Stop` | `_bootstrap_messages`, `_restore_transcript_messages`, `_seed_user_turn`; cancellation or death of the process |
| `Begin`, `OutOfIterations` | prefetch, inbox notice, `_apply_context_pipeline` (snip, session memory, artifacts, dedupe, downgrade); the iteration limit |
| `NextCall`, `MoreArguments`, `StreamEnds` | the stream with `_maybe_start_streaming_tool_calls` |
| `Overflow`, `ProtocolRecovered`, `ProtocolFailed`, `StreamFailed` | the `except` clause: compaction, `_recover_tool_protocol_stream_error`, truncation, the error fed back |
| `SayTurn`, `SayCall`, `Remember`, `Finish` | `_persist_assistant_turn`, the background session memory, the answer without calls |
| `AwaitEarly`, `AwaitCancelled`, `LeaveForLater`, `Collected` | `_collect_execution_results` |
| `NextBatch`, `Enter`, `ToolEnds` | `partition`, `execute`, `_run_parallel`, `_run_one` |
| `Pause`, `Executed`, `RecordOutput`, `RecordResult` | `_handle_pause_or_peer_wait`, the results one by one with the two writes of `_persist_tool_result` |

**`MCDependencyFrontier`**, **`MCActiveTaskRuns`**, **`MCWorkItemStore`**,
**`MCRoleSerialQueue`**, **`MCReviewChain`**, **`MCNativeTurn`**: the instances of the runs. **`TurnLeaseProofs`**,
**`DependencyFrontierProofs`**, **`ActiveTaskRunsProofs`**, **`WorkItemStoreProofs`**,
**`RoleSerialQueueProofs`**, **`ReviewChainProofs`**, **`NativeTurnProofs`**: the theorems.
**`SequenceFilter`** holds the filter two modules use, as a recursive function;
**`SequenceLemmas`** what their proofs need of sequences and of recursive functions.

Operators named as a mutant in their comment (`ParkedCandidate`,
`ValidatesSnapshot`, ...) are deliberately wrong variants of the definition that
follows them. Each property of a passing run is known to fail when its variant
replaces the definition; they are no part of the specification.

### Abstractions

* One store call that reads and writes a row is one step. Their inner awaits are
  the subject of `WorkItemStore`.
* `Delegate` writes the child and the parent's list in one step.
* The hidden report and review cards are one verdict, and refreshes that may come
  at any moment of the review (`ReviewCardCloses`): they are cards of the run, and
  their closing starts a pass like any other. Past the rework cap a rejection
  approves, so `MaxReworks` stands for the cap as well as for a bound.
* An intake that a pass has sent to WAITING_FOR_CHILDREN is closed by two writes in
  a row, which are one step.
* On the board every card has its own role session, so the serial queue never delays
  a claim; `RoleSerialQueue` has one role with several cards.
* `WorkItemStore` keeps of a row what the calls tell apart: phase, claimant (columns
  and mirrors as one), hold, marker, the set of metadata notes, `updated_at`. A clock
  that never stands still stands for `datetime.now()`.
* `RoleSerialQueue` has one session and stores whole calls; a card's own turn ends in
  one write. Messages, background cards and synthetic inbox turns are left out.
* `ReviewChain` merges metadata of the delivered card atomically (row-level races are
  `WorkItemStore`'s), one repair per tick stands for the code's two, and the retry
  counter an approved review card carries is left out. A lost compare-and-set is a
  fault, like an outage, a failed turn or a withdrawal, and `MaxFaults` bounds them
  together; `MaxRaces` bounds the steps of others between the tick's load and the
  last write of its repair.
* `NativeTurn` decides freely where the code estimates tokens, predicts permissions
  or compares texts: whether the history is pressed, which earlier reads start, whether
  a repeated call asks the same. Failures of a tool are told apart only where they
  stop the rest of a batch. Shortening a text (tool-result budget, microcompaction)
  changes no structure and is left out; so are subagents and the verification gate's
  extra turns. The resume envelope artifact is always present, as in the code.
* The turn's coroutine counts as over when it starts the pass its last write
  triggers: the pass itself goes on as a process of its own.
* Deletion of cards and pruning of dead dependency ids are not modelled.
* A crash holds every open card, a card in review too; resume restores the same
  phase, so only the hold differs.
* `ActiveTaskRuns` has Continue requests only; a plain message registers in the same
  way but has no checkpoint to restore. A coroutine that is ready but has not
  started counts as started: Stop waits for several awaits of its own before it
  cancels, so only a shutdown meets one. `execute` registers the driver twice,
  one inside the other; the model has the outer one. Engines of other projects
  list their scopes with the controller's.
* A "resuming" that a cancellation leaves in the store at the claiming write, or a
  restoration that a shutdown drops, is repaired by the next start
  (`_reconcile_company_runtime_state`: pending, all cards held). That is why the
  two properties about owners end with the controller.
* The order of the cancellations of a cascade is open (the code sorts random ids);
  owners and cards of a scan are taken in the order of creation.

## Runs

Deadlock is not checked on the boards: a run stops when its cards are terminal,
parked on a person, or the controller is stopped or down. In `native_turn` it is: an
ended turn rests, and the last turn is never stopped, so a loop that waited for ever
would be a deadlock.

| run | board and bounds | shows |
|---|---|---|
| `manager_board` | top manager and two workers; two passes, one rework per card, one failure, one outage; passes symmetric; 1.6 million states | types, one lease per turn (invariant and refinement), closed cards stay closed, nothing approved over open work |
| `intake_board` | intake, two workers (one released by hand), delivery card; two passes, one rework, one failure, no outage, blocked exit NEEDS_ATTENTION; fair; 128 thousand states | only a pass undoes a doom: nobody starts a card over work that cannot finish; failures wake the card that decides on them; an accepted failure's stuck work closes |
| `woken_parent` | manager board, one pass, nothing fails | finding 1 |
| `lost_wakeup` | the same | finding 2 |
| `racing_continues` | two requests for one scope, two turns, two failures; fair; 40 thousand states | admission, drain and snapshot, exclusive resumption, owners of lifted holds and of a resuming checkpoint, the shutdown ends |
| `store_calls` | three interchangeable calls of any kind on one card, phases READY, RUNNING, AWAITING_MANAGER_REVIEW, APPROVED; 2.1 million states | types; a quiet connection is clean; verdicts keep notes, inserts keep cards, the queue is a set |
| `lost_append` | three calls, two cards | finding 3 |
| `role_queue` | one card that may park and be returned, one review card that may be withdrawn, one stop and resume; fair; 156 thousand states | one turn per role; a parked role reviews; nothing is forgotten |
| `stale_marker` | work cards only, no outage | finding 4 |
| `review_chain` | one rework, one parse retry, one fault, one race, one task of the manager; fair; 523 thousand states | journal, history, latest report, replay, decision |
| `twin_chain` | no rework, retry or fault, three races | finding 5 |
| `native_turn` | two answers of two calls, two iterations, one resume, one retry of each kind, one prefetch or notice, a snip after five messages that keeps two; deadlock checked; 1.4 million states | requests and repaired histories are well formed, a prefix of up to four messages stays plain, results keep their calls, writes run alone, complete blocks survive |

Bounds. Two workers give siblings that close in either order and a dependency
between them; four cards give a failed, a stuck, a deciding and a roll-up card
at once. Two passes are enough for an old pass to write over a newer one;
`Notify` waits while both are busy, so a third pass is delayed, never dropped.
One failure and one outage are enough because each property is about what one
of them leaves behind; that several compose is left to the theorems. The bounds
are the constants `N`, `Passes`, `MaxReworks`, `MaxFailures`, `MaxOutages`.
In `ActiveTaskRuns` two requests are enough for every race over a scope (a third
is turned away like the second), one may come after the other is done with, and
two failures let both of them fail; scopes share nothing but `shutdown`, whose
loop over several scopes is in the theorems.
In `WorkItemStore` three calls let two race while a third commits or rolls back under
them, or a verdict lose its attempts; one card suffices because calls on different
cards share only the transaction. In `RoleSerialQueue` one card occupies the seat
while the other is queued, marked, or preempts it; a third only lengthens the queue.
In `ReviewChain` one rework gives two deliveries, so that a verdict on the first can
meet the second; one parse retry gives a superseded and a repeated review.
In `NativeTurn` two calls give a read beside a read, a read beside a write and either
order; two answers give a block behind a block; a snip after five messages that
keeps two can cut through a block (the code: 40 and 12); one resume meets a transcript
that stopped at any part.
`SoftEdges` and `InfoEdges` exist in the model and are empty in these runs.

Fairness. The event loop runs every ready coroutine and the dispatcher ticks on
a timer, hence weak fairness of a claim, of a turn's steps (bounded by
`work_item_timeout`), of a pass's steps, and of the tick. A review is a turn of
the runtime, hence weak fairness of a verdict. Nothing is owed by a person, by
the manager's choice to delegate or to release, or by an outage; `Fairness` has no
conjunct for these. In `ActiveTaskRuns` the steps that take a scope lock are
strongly fair, because `asyncio.Lock` serves its waiters in order while a scheduler
takes it again and again; the other steps of coroutines are weakly fair, turns end
(a cancelled one at once), and nobody owes a message, a failure, a Stop or a
shutdown. In `RoleSerialQueue` the loop polls (weak fairness of the tick and of its
reconcile) and the coroutines of turns and hooks run to their end; approval, return,
wake and withdrawal are owed by nobody. In `ReviewChain` the worker's turn, each task
and the tick are weakly fair: a turn answers, fails, or is timed out.

### Findings

1. *A woken parent is not picked up again.* The wake clears the claim's columns and
   not the metadata mirrors, and the claim demands both be empty. The docstring and
   a test promise a clean re-pick (`work_item_transition.py:797-799`,
   `tests/test_wake_and_delivery.py:110`; the test reads the columns only). A card
   returned for rework waits for the same reason: a verdict leaves claim and mirrors
   (`ReturnedIsReworked`, refuted on the same board with one rework).
2. *A wakeup is lost when the last child is approved while its manager parks.* The
   tick helps settled failures, not approved children.
3. *An enqueue that returned True is rolled back* by another enqueue's early return,
   on the connection they share.
4. *A stale marker's clean-up overwrites a running card* with the unclaimed row it
   read before the claim; the turn's outcome is then illegal and the card FAILED.
5. *Two report cards for one delivery*: the tick's list is older than the worker's
   insert and its attempt counter newer, so the id that should coincide differs.
   Two reviews of one report then exist, and the stamp on the card, which is to make
   the projection idempotent, only remembers one of them: with two tasks, two faults
   and three races an older twin is projected again, and the tick replays the younger
   verdict a second time. The proof attempt of `ReplaysAreSafe` led there; the property
   now excepts a twin that decided in between, and without twins nothing is replayed.

Findings 1 and 2 need nothing unusual. `LiveTurnKeepsClaim` says what the stale
mirrors of finding 1 are good for: they are all that keeps a second turn off a
card whose column a pass has cleared. A repair has to keep that.

### Further observations

These definitions are stated in the modules, and TLC refutes them in a run of their
own with the constants given; they are kept out of the list above because each needs an outage or
a second pass at one precise await, or harms less.

* `CascadeSparesLiveTurns` (intake board, one pass, one failure): a cascade cancels a
  running card from the snapshot of its pass.
* `OneDeliveryPerIntake` (two deliveries, one outage): a crash between spawning the
  delivery and closing the intake yields two.
* `ReleasedStaysReleased` (intake board, one failure, one outage): resume undoes a
  triage release written after the checkpoint's read.
* `ClaimsOverSettledWork` (two passes, one failure): an old pass reopens a failure
  others were released over, through FAILED -> READY. `OnlyRevivalsMislead`: nothing
  but such a pass refutes it.
* `ApprovesOverSettledWork` has two conditions, and without either it is refuted; with
  both it is still refuted on a board of three levels. Without
  the one that no failure has been reopened: an old pass reopens a child's failure after
  the parent's turn finished over it (four cards, two failures, three passes, one outage).
  Without the one that managers delegate no roll-up cards, which `delegate_work` allows
  (`collaboration.py:1791`): a manager released over a failure delegates a roll-up card
  behind the failed one and finishes, because that card is doomed; a pass then releases
  the roll-up card over the same failure, and the manager is approved over work still to
  be done (`manager_board` with `RollupCards = {3}`, one pass, no rework). On three
  levels (six cards, 1 over 2, 3, 4 and 4 over 5, 6; two passes, two failures, one
  crash; a behaviour of 68 steps, replayed with TLC): two passes have decided to wake 1
  out of WAITING_FOR_CHILDREN, under its live turn, over a failed and an approved child,
  and one has done so. 1 delegates 4, and 4 delegates 5; a pass finds both RUNNING over
  unfinished work and sends them back, and when 5 is approved another wakes 4 to
  synthesize, again under its live turn; that turn delegates 6, and a pass sends 4 to
  WAITING_DEPENDENCIES. 6 fails, so that 4 is
  doomed; the old pass sets 1 running, whose turn finishes over 4; a pass releases 4,
  which owns a synthesis, over the failure of 6; and 1 is approved over it. In each case
  the write that does the harm is a pass that takes a card out of the doomed set, which
  is what `OnlyRevivalsUnsettle` says of every case.
* `NoTurnAfterCheckpoint` (one request for each of two scopes): a checkpointed scope
  starts a turn while the shutdown checkpoints the next one.
* `ReplyLockHasOwner` (two requests for one scope, one turn, no failure): the clean-up of
  a Continue awaits its progress write before it pops the reply lock
  (`_ws_company.py:1274-1276`) and may be cancelled there by Stop; no later Continue of
  that scope is accepted.
* `PhaseWritesAreLegal` (three calls, one card): a row changed between the validating
  read and the whole-row write moves along no edge of the table.
* `QueuedCardStaysQueued` (two work cards): the tick saves the session from memory over
  an append made since; the next reconcile repairs it, which is what `WorkIsTaken` shows.

Of the native turn, seen in runs or in the code:

* `RequestsAreWellFormed` rests on `PrefixIsPlain` (What is proved), and a long prefix
  is not plain. Every prefetched context that is put in moves `base_prefix_len`
  (`runtime.py:1466-1480`), and every iteration starts another; when the dedupe of the
  next iteration (`runtime.py:1391-1405`) merges it with an equal neighbour, the length is
  not taken back. After three equal ones the sixth message of the prefix is a call
  (`MaxNotices = 4`, `MaxIterations = 6`, one call an answer, no snip); after six the
  seventh is put between a call and its result and the request is refused (nine
  iterations, `MaxNotices = 8`, `SnipTrigger = 40`, `SnipTail = 12`, `MemoryAfter = 50`).
* A recovered protocol error ends the turn as a cancellation when the retry asks a call
  again that had been started early: the cancelled run is still listed, and awaiting it
  (`runtime.py:1588`) raises (`AwaitCancelled`).
* The task may leave the request: the resume artifacts and the session memory go in
  front without moving `base_prefix_len`, so a later snip keeps `messages[:base]`
  without the user message.
* `max_parallel_read_tools` does not bound the reads: each early read is executed by a
  call of `execute` of its own, with a semaphore of its own.
* An overflow retry goes on without cancelling the early reads; a pause drops the
  executed results of its answer, which a resumed turn runs again; a read asked after a
  write runs before it when it was started early.

Read in the code and not checked: the parse-retry budget is per card and never reset,
so a later delivery may find it spent; a comment says a rejection past the cap goes to
a human (`phase.py:282-284`), the code approves (`_company_executor_review.py:1813-1825`);
a claim refused at its own re-read, because a marker came in between, leaves the card
RUNNING and claimed until the next sweep.

## What is proved

For every board, number of passes and bound (`BoardAssumption`,
`EngineAssumption` are the only assumptions):

* `TypeCorrect`: `TypeOK` is inductive, one lemma per group of actions.
* `ClosedCardsAreFinal`: every write goes through `Legal`, whose table has no
  edge out of APPROVED and CANCELLED (`ClosedIsFinal`); the writes that do not
  consult the table are guarded by the phase they leave, or create a card that was
  absent (`NextNewIsAbsent`). Needs `TypeOK` and nothing else.
* `LeaseInvariant`: `LeaseInv` is `TypeOK`, `LiveTurnKeepsClaim` and
  `StoppedIsQuiet` (a stopped run has no turn). The last is the strengthening:
  `ResumeCard` clears a mirror and a hold at once, and keeps
  `LiveTurnKeepsClaim` only because no turn is alive then. `TurnsKeepTheirClaim`
  follows.
* `TurnsImplementLease`: under `LeaseInv`, every step maps to a step of
  `TurnLease` or a stutter: a claim to `Take`, the end of a turn to `Leave`,
  `HoldCard` to `Freeze`, `Halt` and `Crash` to `StopAll`, `ResumeCard` to `Thaw`.
* `OnlyPassesUndoDoom`: `FrontierInv` adds to the types that a pass stamps a card only
  with failures it has found (`PlansFit`) and that a claimed card was stamped or has all
  its hard dependencies approved until its turn starts (`ClaimedOver`). `Doomed` is
  stated as a least set, so that two facts carry the proof: it is closed
  (`DoomedIsClosed`) and who is in it is dead or blocked by it (`DoomedUnfolds`).
  `DoomStands` follows a least set over a step: it keeps every card that stays dead, or
  stays idle, unstamped and no less blocked. Who writes which field of a card is settled
  once, in one lemma per field (`PhaseWriter`, `StampWriter`, `DepsWriter`, ...), so that
  a doomed card is followed by the few steps that can write it: a claim, a turn's start
  and a resume would need an approved or stamped dependency, and what remains is a pass.
* `OnlyRevivalsUnsettle`: an implication, `Spec /\ [][PassesReviveNoAwaited]_vars =>`
  `ApprovesOverSettledWork`, for every board, and without the two conditions that
  property has (`SettledApprovals`). `FinishedOver` says that whoever is done, under
  review or saved under review (a resume restores that phase) has only approved or doomed
  dependencies; it is inductive as long as no pass takes a card that another one waits
  for out of the doomed set. `TurnsFit` says what it needs of turns: a card with a turn is
  not under review, only an intake hands over, a card saved under review has no turn. The
  hypothesis is no formality: without it the property fails, in the three ways listed
  under Further observations, and by `OnlyPassesUndoDoom` no other step can break it.
* `OnlyRevivalsMislead`: under the same hypothesis, `ClaimsOverSettledWork`, which no run
  checks because it fails without it (Further observations). `StampsHold` says that what
  a card was released over, and what a pass has decided to release it over, is doomed and
  stays so; that is why a claim may trust a stamp without reading the dependencies again.
* `FlatApprovalsAreSettled`: `FlatBoard => (Spec => ApprovesOverSettledWork)` has no
  hypothesis on behaviours. A board is flat when whom a card delegates to delegates no
  further and waits for hard dependencies only, and there are no roll-up cards; the board
  of `manager_board` is one. `LeafFits`: such a card starts over approved work, so that it
  never parks, never synthesizes and is never released over failures; a pass that takes it
  up leaves it waiting. The other way out of the doomed set is a reopened failure, which
  `FailuresStand` counts: there are at most as many failed cards as failed turns
  (`FewFailures`), so that when the counts agree, they agreed before and no failed card
  was reopened in between (`FewFailuresStep`).
* `LeaseCoversWork`: in `TurnLease`, unfrozen work is leased.

For every set of requests, scopes and turns and any number of failures
(`RunsAssumption`: requests have scopes, no turn is the driver):

* `RegistryInvariant` is inductive and layered, one lemma per layer with a step per
  action. `ReplyInv`: a live job holds its scope's reply lock, alone. `HandoffInv`:
  a request that has not registered and is not cancelled has a reference beside
  its route's, and exists only while the controller is up, because `ShutClose`
  cancels everybody with a reservation; registered jobs have none. `TypeOK` needs
  it (a reservation has two references at most). `DriverInv`: a scheduler has its
  attempt, so that a turn started after the drain belongs to a listed scope.
  `LockInv`: a job that claims or lifts has the scope lock, a Stop that has put
  the holds has it too, so that cancellation never meets a job between claim
  and schedule while the controller is up, and a failed job is cancelled by Stop
  only over holds.
* From it: `TypeCorrect`, `SnapshotIsComplete`, `ClaimedRequestsRegister`,
  `ResumesExcludeEachOther`, `ReleasedScopesAreOwned`, `ResumingScopesAreOwned`,
  that is, every invariant `racing_continues` checks.

For any calls, cards and target phases (`StoreAssumption`):

* `TransactionsAreOwned`: `ConnectionInv` is inductive: without an open transaction
  nothing is uncommitted, and an open one has a call between its statement and its
  commit, or a cancelled call to blame. `QuietConnections` follows.
* `TypeCorrect` and `QueuesAreSets`, from `TypeInv`: what a call holds at each await is
  what its next statement needs (a row between a read and a write, a queue it has read
  without the card it is about to append), every queue a call or a table holds is
  injective, and so is every queue that can be rolled back to.
* `RevisionsHold`: `RevisionsNameNotes` says that two versions of a card with the same
  `updated_at`, on the connection, on disk or in the hands of a call, carry the same
  notes. A compare-and-set on `updated_at` is only as good as this: a rollback brings an
  old version back, and a late save writes one. `VerdictsKeepNotes` follows, an action
  property; `InsertsKeepCards` needs the types only.

For any number of cards, of reviews and parking cards among them, of returns and
outages (`RoleAssumption`):

* `SeatInvariant`: `SeatInv` says that a turn in progress holds the session in memory,
  and that a tick that is picking or claiming finds it free of one. The second half is
  the strengthening: admission is checked several awaits before the turn starts.
  `RoleIsSerial` follows.
* `TypeCorrect`, from `TypesHold`: whichever stale copy of the session is saved last,
  the pending queue, its copy in memory and the run queue hold each card at most once
  (so their lengths are bounded by the number of cards), and what a reconcile holds at
  each step (`Prepared`) is a list of such sessions.

For any tasks of the manager, reworks, retries, faults and races (`ChainAssumption`):

* `ChainHolds`: `ChainInv` is inductive, with a lemma per action. A coroutine keeps what
  it has read across its awaits, so the invariant says for every place of a coroutine
  what of it still holds of the board (`Fits`, `Holds`): the cards it names exist, the
  source of a review it inserts is an accepted report, the verdict it journals is not
  yet there. `OneHolder`: two tasks never hold one review. `StampsAdvance`: no verdict
  that has been consumed is about a later report than the stamp. `TickIsAlone`: while
  the tick replays a verdict the worker cannot deliver, so the card it found undecided
  is still the same delivery.
* From it: `TypeCorrect`, `StampsAreJournalled`, `HistoryHolds`, `LatestReportDecides`,
  `ReplaysHold`, that is, every safety property `review_chain` checks.

For any number of calls, any limits and any order of stream, errors and ends
(`TurnAssumption`):

* `WritesRunAlone`: `RunInv` is inductive, with a lemma per stage of the loop. While
  the answer streams and is collected only early reads run; collecting leaves none
  behind it that runs, so that the first batch starts over nothing; what runs in a batch
  is of the batch, which is one call or all reads. `UnsafeRunsAlone` follows.
* `TypeCorrect`: `TurnInv` adds the budgets (`Counts`) and the marks into the answer
  (`Marks`): calls are left over only between collecting and the last batch, so that an
  answer asked anew after an error meets none, and the place in the answer is in it
  while results are recorded.
* `AnswersStayWithTheirCalls`: `AnswersInv` adds what the history and the transcript are.
  The transcript (`Recorded`): calls carry the number of their turn and their place,
  later turns have higher numbers, and an answer stands behind the full answers of the
  calls before it. This is what makes the guess of a resume harmless: an output names
  only its tool, so the restoration gives it to the first unanswered call of that tool;
  in a transcript of this shape that is its own call or one of an earlier block
  (`ClaimIsNotOfTheBlock`). The second case happens, and the result then stands under a
  foreign id; but only under one nobody waits for any more (`Past`, `Shadowed`), which
  the dedupe keeps so and the sanitizer drops (`SanitizedIsOwn`). The restored history,
  and every step of the pipeline that shapes it afterwards, is a sequence of messages
  that show a call its own result or none (`Own`). It fails without the sanitizer, and
  when the second part of a result is matched by name as well.
* `AnsweredBlocksStay`, over the same invariant: the message of an answer that was written
  in full is in every history a resume rebuilds. The proof follows a message and the
  answers behind it (`Opened`, then `Closed`) through the folds. In the restoration an
  output of the block, which names only its tool, always finds a call to claim, because
  its own is still free, so it stays an answer and does not end the block as text; the
  result behind it carries its own id (`FullAnswerOpens`). The dedupe removes equal
  neighbours only, and the sanitizer holds the block back and lets it through with its
  last answer, whatever stands in between that answers an older call (`SanitizedHoldsClosed`).
* `RepairsStayWellFormed`: what the sanitizer makes of any sequence of messages is one a
  provider accepts (`SanitizedIsWellFormed`), so that a resumed history and one cut back
  after an error are. While calls are open, the block it holds back is the message that
  asks and answers to the calls that are not open any more, one to each (`HoldsBlock`);
  it is let through when none is open.
* `RequestsStayWellFormed`: while `PrefixIsPlain`, every request is well formed, whatever
  was snipped, fed back, prefetched or resumed. `RequestInv` says for every place of the
  loop which calls still wait behind the last message (`Standing`): none when the loop
  thinks, those not answered yet while results are recorded. A snip may cut between a
  call and its answers; what it leaves is a history that begins with answers nobody asks
  for (`Beheaded`), which the memory, the artifact and the dedupe keep so and the last
  step of the pipeline makes text of. A prefetch is put in before the last message of
  the prefix, and an insertion is harmless where no call waits, hence the hypothesis.
* `ShortPrefixStaysPlain` discharges it for a prefix of up to four messages, and
  `RequestsOfShortPrefixes` puts the two together. `OpeningInv` says how a history begins:
  the prompt, then system messages of which no two neighbours are equal as far as the
  prefix counts them. That they differ is what keeps the dedupe from pulling a block into
  the prefix, and it is what has to be carried through every step: a merge may only
  happen where a message of the prefix or the artifact moves up behind it (`Firm`).

What a recursive definition computes for every input is out of the prover's reach as an
induction over data; these definitions are functions on `0..n`, and `SequenceLemmas`
proves once that such a function exists and that what holds of its first value and is
handed on holds of all (`FoldExists`, `UpTo`, an induction on a set of numbers).

Only model-checked: a prefix of five messages, plain in every exploration, while one of
six need not be (Further observations); `ApprovesOverSettledWork` of a board that is not
flat, where only the implication above is proved and the property itself can fail; and
the liveness properties, which are beyond the prover.

## Plan

Done: `WorkItemPhase`, `TurnLease`, `DependencyFrontier`, `ActiveTaskRuns`,
`WorkItemStore`, `RoleSerialQueue`, `ReviewChain`, `NativeTurn`, their runs and the theorems above.
Left, in this order:

1. `ManagerBoard`: modify, delete, reopen and pruning, on the board; soft and
   informational edges in a run.
2. Proofs: the boards of three levels on which no child synthesizes behind its manager's
   back; the order of the answers through a resume, which `WellFormed` leaves open.
3. Human-wait checkpoints; the mailbox; plain messages in `ActiveTaskRuns`.
4. Subagents and the permission prompts of `NativeTurn`.

## Not modelled

Components with status `not_modelled` in `PROJECT.json` carry the reason there. In
short: text (planning, prompts, parsing, memory, configuration), external
processes and networks (provider, adapters, shell, browser, channels), user
interfaces, which only start the requests modelled here, and code without callers
(task locks, the LLM layer's budget guard).
