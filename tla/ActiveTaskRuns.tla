--------------------------- MODULE ActiveTaskRuns ---------------------------
(***************************************************************************)
(* The controller's registry of live executions, the Continue requests     *)
(* that come to it, and the two things that take a running scope away from *)
(* its scheduler: a user's Stop and the shutdown of the controller.        *)
(*                                                                         *)
(* A request is a WebSocket message handled by a coroutine (its route),    *)
(* which starts a background coroutine (its job).  The job claims the      *)
(* suspended scope's checkpoint, registers itself as the scope's driver,   *)
(* lifts the holds and schedules turns.  Everything runs on one event loop,*)
(* so a step is what a coroutine does between two awaits that matter.      *)
(***************************************************************************)
EXTENDS Naturals, FiniteSets

CONSTANTS
    Requests,      \* the Continue messages clients may send
    Scopes,        \* the runtime sessions that are suspended at the start
    ScopeOf,       \* the runtime session a request is about
    Turns,         \* the turns a driver may have alive at a time
    MaxFailures    \* bound: exceptions raised by the store

ASSUME RunsAssumption ==
    /\ ScopeOf \in [Requests -> Scopes]
    /\ Turns \subseteq Nat \ {0}
    /\ MaxFailures \in Nat

VARIABLES
    refs,       \* _handoff_refs: references to a pending reservation, 0 if none
    attempts,   \* _attempts: the tokens of live executions, <<request, turn>>
    route,      \* the coroutine of _route_message
    job,        \* the coroutine of _process_company_suspend_reply
    reply,      \* requests whose lock is in _company_suspend_reply_locks
    cancelled,  \* jobs with a cancellation they have not answered yet
    lock,       \* scope_lock
    ckpt,       \* status of the scope's suspend checkpoint
    hold,       \* dispatch_hold on the cards the last suspension saw
    loose,      \* a card was delegated that no suspension has seen
    stop,       \* _company_stop_finalize_tasks
    sd,         \* where WSHandler.shutdown is
    snap,       \* scopes active_task_ids reported to the shutdown
    todo,       \* scopes of snap still to be checkpointed
    failures

registry == <<refs, attempts>>
ingress  == <<route, job, reply, cancelled>>
durable  == <<ckpt, hold, loose>>
shutdown == <<sd, snap, todo>>
vars == <<registry, ingress, lock, durable, stop, shutdown, failures>>

(* The token of the scheduler itself, beside those of its turns.           *)
Driver == 0
Attempts == Requests \X (Turns \cup {Driver})

TypeOK ==
    /\ refs \in [Requests -> 0..2]
    /\ attempts \subseteq Attempts
    /\ route \in [Requests -> {"absent", "running", "checked", "leaving", "done"}]
    /\ job \in [Requests -> {"absent", "routing", "marked", "opened", "driving",
                             "unwinding", "restoring", "failing", "closing",
                             "ended", "gone"}]
    /\ reply \subseteq Requests
    /\ cancelled \subseteq Requests
    /\ lock \in [Scopes -> {"free", "request", "stop"}]
    /\ ckpt \in [Scopes -> {"pending", "resuming", "resolved"}]
    /\ hold \in [Scopes -> BOOLEAN]
    /\ loose \in [Scopes -> BOOLEAN]
    /\ stop \in [Scopes -> {"none", "waiting", "held"}]
    /\ sd \in {"up", "draining", "preparing", "cancelling", "down"}
    /\ snap \subseteq Scopes
    /\ todo \subseteq Scopes
    /\ failures \in 0..MaxFailures

-----------------------------------------------------------------------------
(* _admission_closed and _shutting_down are set in one synchronous block.  *)
Closed == sd # "up"

Alive(r) == job[r] \notin {"absent", "ended", "gone"}
AliveJobs == {r \in Requests : Alive(r)}
Routing(r) == route[r] \in {"running", "checked", "leaving"}
HasDriver(r) == <<r, Driver>> \in attempts
TurnsOf(r) == {a \in attempts : a[1] = r /\ a[2] # Driver}
Attempted == {ScopeOf[a[1]] : a \in attempts}

(* Mutant of Released: the reference count of an unknown token.            *)
UncheckedRelease(r) == refs[r] - 1

(* release_handoff: a token that was settled or revoked is not counted down.*)
Released(r) == IF refs[r] = 0 THEN 0 ELSE refs[r] - 1

(* register's admission test for a request without a driver.               *)
Admitted(r) == ~Closed \/ refs[r] > 0

Init ==
    /\ refs = [r \in Requests |-> 0]
    /\ attempts = {}
    /\ route = [r \in Requests |-> "absent"]
    /\ job = [r \in Requests |-> "absent"]
    /\ reply = {}
    /\ cancelled = {}
    /\ lock = [s \in Scopes |-> "free"]
    /\ ckpt = [s \in Scopes |-> "pending"]
    /\ hold = [s \in Scopes |-> TRUE]
    /\ loose = [s \in Scopes |-> FALSE]
    /\ stop = [s \in Scopes |-> "none"]
    /\ sd = "up"
    /\ snap = {}
    /\ todo = {}
    /\ failures = 0

-----------------------------------------------------------------------------
(* The route of a request.                                                 *)

(* Mutant of Accept: reserve_handoff does not look at the admission flag.  *)
LateAccept(r) ==
    /\ route[r] = "absent"
    /\ refs' = [refs EXCEPT ![r] = 1]
    /\ route' = [route EXCEPT ![r] = "running"]
    /\ UNCHANGED <<attempts, job, reply, cancelled, lock, durable, stop,
                   shutdown, failures>>

Accept(r) ==
    /\ route[r] = "absent"
    /\ ~Closed
    /\ refs' = [refs EXCEPT ![r] = 1]
    /\ route' = [route EXCEPT ![r] = "running"]
    /\ UNCHANGED <<attempts, job, reply, cancelled, lock, durable, stop,
                   shutdown, failures>>

(* The target's checkpoint is read before the awaits that precede Track.   *)
CheckTarget(r) ==
    /\ route[r] = "running"
    /\ route' = [route EXCEPT ![r] = IF ckpt[ScopeOf[r]] = "pending"
                                     THEN "checked" ELSE "leaving"]
    /\ UNCHANGED <<registry, job, reply, cancelled, lock, durable, stop,
                   shutdown, failures>>

InProgress(r) == \E q \in reply : ScopeOf[q] = ScopeOf[r]

(* A second Continue of the scope is turned away and gives its reservation *)
(* up at once; one that waited too long for a Stop is turned away as well. *)
Reject(r) ==
    /\ route[r] = "checked"
    /\ InProgress(r) \/ stop[ScopeOf[r]] # "none"
    /\ refs' = IF stop[ScopeOf[r]] = "none"
               THEN [refs EXCEPT ![r] = Released(r)] ELSE refs
    /\ route' = [route EXCEPT ![r] = "leaving"]
    /\ UNCHANGED <<attempts, job, reply, cancelled, lock, durable, stop,
                   shutdown, failures>>

(* Mutant of Track: the reply lock of the scope is not looked at.          *)
TrackTwice(r) ==
    /\ route[r] = "checked"
    /\ stop[ScopeOf[r]] = "none"
    /\ reply' = reply \cup {r}
    /\ refs' = [refs EXCEPT ![r] = IF @ = 0 THEN 0 ELSE @ + 1]
    /\ job' = [job EXCEPT ![r] = "routing"]
    /\ route' = [route EXCEPT ![r] = "leaving"]
    /\ UNCHANGED <<attempts, cancelled, lock, durable, stop, shutdown, failures>>

(* _track_session: the job holds a reference of its own.                   *)
Track(r) ==
    /\ route[r] = "checked"
    /\ ~InProgress(r)
    /\ stop[ScopeOf[r]] = "none"
    /\ reply' = reply \cup {r}
    /\ refs' = [refs EXCEPT ![r] = IF @ = 0 THEN 0 ELSE @ + 1]
    /\ job' = [job EXCEPT ![r] = "routing"]
    /\ route' = [route EXCEPT ![r] = "leaving"]
    /\ UNCHANGED <<attempts, cancelled, lock, durable, stop, shutdown, failures>>

Leave(r) ==
    /\ route[r] = "leaving"
    /\ route' = [route EXCEPT ![r] = "done"]
    /\ refs' = [refs EXCEPT ![r] = Released(r)]
    /\ UNCHANGED <<attempts, job, reply, cancelled, lock, durable, stop,
                   shutdown, failures>>

-----------------------------------------------------------------------------
(* The job of a request.                                                   *)

Goes(r, from, to) ==
    /\ job[r] = from
    /\ job' = [job EXCEPT ![r] = to]

Runs(r) == r \notin cancelled

(* Under the scope lock the checkpoint goes from pending to resuming, or   *)
(* somebody else was faster and the request has nothing to do.             *)
ClaimCheckpoint(r) ==
    LET s == ScopeOf[r] IN
    /\ Runs(r)
    /\ lock[s] = "free"
    /\ \/ /\ ckpt[s] = "pending"
          /\ Goes(r, "routing", "marked")
          /\ ckpt' = [ckpt EXCEPT ![s] = "resuming"]
          /\ lock' = [lock EXCEPT ![s] = "request"]
       \/ /\ ckpt[s] # "pending"
          /\ Goes(r, "routing", "closing")
          /\ UNCHANGED <<ckpt, lock>>
    /\ UNCHANGED <<registry, route, reply, cancelled, hold, loose, stop,
                   shutdown, failures>>

(* The first registration settles the reservation, however many hold it.   *)
Register(r) ==
    /\ Runs(r)
    /\ Admitted(r)
    /\ Goes(r, "marked", "opened")
    /\ attempts' = attempts \cup {<<r, Driver>>}
    /\ refs' = [refs EXCEPT ![r] = 0]
    /\ UNCHANGED <<route, reply, cancelled, lock, durable, stop, shutdown,
                   failures>>

(* The holds are lifted under the lock, then the scheduler starts.         *)
LiftHolds(r) ==
    LET s == ScopeOf[r] IN
    /\ Runs(r)
    /\ Goes(r, "opened", "driving")
    /\ hold' = [hold EXCEPT ![s] = FALSE]
    /\ lock' = [lock EXCEPT ![s] = "free"]
    /\ UNCHANGED <<registry, route, reply, cancelled, ckpt, loose, stop,
                   shutdown, failures>>

(* A card is claimed and its coroutine registered inside the scope lock.   *)
(* A held card cannot be claimed; the driver's token admits the turn.      *)
SpawnTurn(r, t) ==
    LET s == ScopeOf[r] IN
    /\ Runs(r)
    /\ job[r] = "driving"
    /\ lock[s] = "free"
    /\ ~hold[s] \/ loose[s]
    /\ HasDriver(r) \/ Admitted(r)
    /\ <<r, t>> \notin attempts
    /\ attempts' = attempts \cup {<<r, t>>}
    /\ loose' = [loose EXCEPT ![s] = @ /\ ~hold[s]]
    /\ UNCHANGED <<refs, ingress, lock, ckpt, hold, stop, shutdown, failures>>

(* A turn that is still running delegates a card.                          *)
Delegate(r, t) ==
    LET s == ScopeOf[r] IN
    /\ Runs(r)
    /\ <<r, t>> \in attempts
    /\ ~loose[s]
    /\ loose' = [loose EXCEPT ![s] = TRUE]
    /\ UNCHANGED <<registry, ingress, lock, ckpt, hold, stop, shutdown, failures>>

(* unregister, in the finally clause of the turn.                          *)
EndTurn(r, t) ==
    /\ <<r, t>> \in attempts
    /\ attempts' = attempts \ {<<r, t>>}
    /\ UNCHANGED <<refs, ingress, lock, durable, stop, shutdown, failures>>

(* The scheduler ran out of work.  If the checkpoint is not its own any    *)
(* more the resume has failed and is restored.                             *)
Complete(r) ==
    LET s == ScopeOf[r] IN
    /\ Runs(r)
    /\ TurnsOf(r) = {}
    /\ lock[s] = "free"
    /\ \/ /\ ckpt[s] = "resuming"
          /\ Goes(r, "driving", "closing")
          /\ ckpt' = [ckpt EXCEPT ![s] = "resolved"]
          /\ loose' = [loose EXCEPT ![s] = FALSE]
          /\ attempts' = attempts \ {<<r, Driver>>}
       \/ /\ ckpt[s] # "resuming"
          /\ Goes(r, "driving", "failing")
          /\ UNCHANGED <<ckpt, loose, attempts>>
    /\ UNCHANGED <<refs, route, reply, cancelled, lock, hold, stop, shutdown,
                   failures>>

(* The cancelled scheduler cancels its turns and waits for them.           *)
Unwind(r) ==
    /\ r \in cancelled
    /\ Goes(r, "driving", "unwinding")
    /\ UNCHANGED <<registry, route, reply, cancelled, lock, durable, stop,
                   shutdown, failures>>

Unwound(r) ==
    /\ TurnsOf(r) = {}
    /\ Goes(r, "unwinding", IF r \in cancelled THEN "restoring" ELSE "failing")
    /\ UNCHANGED <<registry, route, reply, cancelled, lock, durable, stop,
                   shutdown, failures>>

(* Mutant of Restore: the checkpoint is pending again, the holds stay      *)
(* lifted.                                                                 *)
RestoreStatusOnly(r) ==
    LET s == ScopeOf[r] IN
    /\ lock[s] = "free"
    /\ \/ Goes(r, "restoring", "closing")
       \/ Goes(r, "failing", "closing") /\ Runs(r)
    /\ cancelled' = cancelled \ {r}
    /\ ckpt' = [ckpt EXCEPT ![s] = IF @ = "resuming" THEN "pending" ELSE @]
    /\ attempts' = attempts \ {<<r, Driver>>}
    /\ UNCHANGED <<refs, route, reply, lock, hold, loose, stop, shutdown, failures>>

(* The restoration: holds on the cards known at the resume, then resuming  *)
(* goes back to pending; only then does the driver let go.  After a        *)
(* cancellation it is shielded from the next one, after a failure not.     *)
Restore(r) ==
    LET s == ScopeOf[r] IN
    /\ lock[s] = "free"
    /\ \/ Goes(r, "restoring", "closing")
       \/ Goes(r, "failing", "closing") /\ Runs(r)
    /\ cancelled' = cancelled \ {r}
    /\ hold' = [hold EXCEPT ![s] = @ \/ ckpt[s] # "resolved"]
    /\ ckpt' = [ckpt EXCEPT ![s] = IF @ = "resuming" THEN "pending" ELSE @]
    /\ attempts' = attempts \ {<<r, Driver>>}
    /\ UNCHANGED <<refs, route, reply, lock, loose, stop, shutdown, failures>>

(* Before it has claimed the checkpoint a cancelled job has nothing to     *)
(* restore; when the cancellation meets the claiming write itself, the     *)
(* write is in the store and the job does not know it.  A restoration      *)
(* after a failure is dropped.                                             *)
Abandon(r) ==
    LET s == ScopeOf[r] IN
    /\ r \in cancelled
    /\ cancelled' = cancelled \ {r}
    /\ \/ Goes(r, "routing", "closing") /\ UNCHANGED <<attempts, lock>>
       \/ /\ Goes(r, "marked", "closing")
          /\ lock' = [lock EXCEPT ![s] = "free"]
          /\ UNCHANGED attempts
       \/ /\ Goes(r, "failing", "closing")
          /\ attempts' = attempts \ {<<r, Driver>>}
          /\ UNCHANGED lock
    /\ UNCHANGED <<refs, route, reply, durable, stop, shutdown, failures>>

(* Mutant of Fail: what fails before the scheduler starts is not restored. *)
FailUnrestored(r) ==
    LET s == ScopeOf[r] IN
    /\ Runs(r)
    /\ failures < MaxFailures
    /\ failures' = failures + 1
    /\ \/ Goes(r, "routing", "closing") /\ UNCHANGED <<attempts, lock>>
       \/ /\ Goes(r, "opened", "closing")
          /\ lock' = [lock EXCEPT ![s] = "free"]
          /\ attempts' = attempts \ {<<r, Driver>>}
       \/ Goes(r, "driving", "unwinding") /\ UNCHANGED <<attempts, lock>>
    /\ UNCHANGED <<refs, route, reply, cancelled, ckpt, hold, loose, stop, shutdown>>

(* An exception: before the claim, while the holds are being lifted (some  *)
(* may be), or in the scheduler, which lets its turns finish first.        *)
Fail(r) ==
    LET s == ScopeOf[r] IN
    /\ Runs(r)
    /\ failures < MaxFailures
    /\ failures' = failures + 1
    /\ \/ Goes(r, "routing", "closing") /\ UNCHANGED <<attempts, lock, hold>>
       \/ /\ Goes(r, "opened", "failing")
          /\ lock' = [lock EXCEPT ![s] = "free"]
          /\ hold' \in {hold, [hold EXCEPT ![s] = FALSE]}
          /\ attempts' = attempts \ {<<r, Driver>>}
       \/ Goes(r, "driving", "unwinding") /\ UNCHANGED <<attempts, lock, hold>>
    /\ UNCHANGED <<refs, route, reply, cancelled, ckpt, loose, stop, shutdown>>

(* The finally clause takes the reply lock out of the dictionary.          *)
Close(r) ==
    /\ Goes(r, "closing", "ended")
    /\ reply' = reply \ {r}
    /\ UNCHANGED <<registry, route, cancelled, lock, durable, stop, shutdown,
                   failures>>

(* The clause awaits the writing of the progress before it comes to the    *)
(* lock: a cancellation that meets it there leaves the lock behind.        *)
CutShort(r) ==
    /\ r \in cancelled
    /\ Goes(r, "closing", "ended")
    /\ UNCHANGED <<registry, route, reply, cancelled, lock, durable, stop,
                   shutdown, failures>>

(* Mutant of DoneCallback: the reference of a job is never given back.     *)
DoneRetaining(r) ==
    /\ Goes(r, "ended", "gone")
    /\ UNCHANGED <<registry, route, reply, cancelled, lock, durable, stop,
                   shutdown, failures>>

(* The done callback of the job gives its reference back.                  *)
DoneCallback(r) ==
    /\ Goes(r, "ended", "gone")
    /\ refs' = [refs EXCEPT ![r] = Released(r)]
    /\ UNCHANGED <<attempts, route, reply, cancelled, lock, durable, stop,
                   shutdown, failures>>

-----------------------------------------------------------------------------
(* A user's Stop.                                                          *)

StopRequest(s) ==
    /\ ~Closed
    /\ stop[s] = "none"
    /\ ckpt[s] # "pending"
    /\ stop' = [stop EXCEPT ![s] = "waiting"]
    /\ UNCHANGED <<registry, ingress, lock, durable, shutdown, failures>>

Stopping == sd \notin {"cancelling", "down"}

(* Holds first: a pending checkpoint is an invitation to continue.         *)
StopHold(s) ==
    /\ Stopping
    /\ stop[s] = "waiting"
    /\ lock[s] = "free"
    /\ stop' = [stop EXCEPT ![s] = "held"]
    /\ lock' = [lock EXCEPT ![s] = "stop"]
    /\ hold' = [hold EXCEPT ![s] = TRUE]
    /\ loose' = [loose EXCEPT ![s] = FALSE]
    /\ UNCHANGED <<registry, ingress, ckpt, shutdown, failures>>

(* The checkpoint is published, and the session's jobs are cancelled       *)
(* before anybody else gets a turn.                                        *)
StopPublish(s) ==
    /\ Stopping
    /\ stop[s] = "held"
    /\ stop' = [stop EXCEPT ![s] = "none"]
    /\ lock' = [lock EXCEPT ![s] = "free"]
    /\ ckpt' = [ckpt EXCEPT ![s] = "pending"]
    /\ cancelled' = cancelled \cup {r \in AliveJobs : ScopeOf[r] = s}
    /\ UNCHANGED <<registry, route, job, reply, hold, loose, shutdown, failures>>

(* The finalizer is a tracked task, cancelled with the others.             *)
StopCancelled(s) ==
    /\ sd = "cancelling"
    /\ stop[s] # "none"
    /\ stop' = [stop EXCEPT ![s] = "none"]
    /\ lock' = [lock EXCEPT ![s] = IF stop[s] = "held" THEN "free" ELSE @]
    /\ UNCHANGED <<registry, ingress, durable, shutdown, failures>>

-----------------------------------------------------------------------------
(* WSHandler.shutdown.                                                     *)

(* An accepted request whose route or job is not done yet.                 *)
Pending(r) == refs[r] > 0 /\ (Routing(r) \/ Alive(r))

(* The end of the drain.  Without an await in between the live scopes are  *)
(* listed, and when there is none every execution is cancelled.            *)
TakeSnapshot(c) ==
    /\ snap' = Attempted
    /\ todo' = Attempted
    /\ IF Attempted = {}
       THEN sd' = "cancelling" /\ cancelled' = c \cup AliveJobs
       ELSE sd' = "preparing" /\ cancelled' = c

(* Mutant of ShutClose: reservations are revoked and nobody is cancelled.  *)
CloseRevokesOnly ==
    LET pending == {r \in Requests : Pending(r)} IN
    /\ sd = "up"
    /\ refs' = [r \in Requests |-> IF r \in pending THEN 0 ELSE refs[r]]
    /\ route' = [r \in Requests |-> IF r \in pending /\ Routing(r)
                                    THEN "leaving" ELSE route[r]]
    /\ IF \E r \in Requests : refs'[r] > 0
       THEN sd' = "draining" /\ UNCHANGED <<cancelled, snap, todo>>
       ELSE TakeSnapshot(cancelled)
    /\ UNCHANGED <<attempts, job, reply, lock, durable, stop, failures>>

(* Admission is closed, the requests that have not registered yet are      *)
(* cancelled and lose their reservation.                                   *)
ShutClose ==
    LET pending == {r \in Requests : Pending(r)}
        c == cancelled \cup {r \in pending : Alive(r)}
    IN
    /\ sd = "up"
    /\ refs' = [r \in Requests |-> IF r \in pending THEN 0 ELSE refs[r]]
    /\ route' = [r \in Requests |-> IF r \in pending /\ Routing(r)
                                    THEN "leaving" ELSE route[r]]
    /\ IF \E r \in Requests : refs'[r] > 0
       THEN sd' = "draining" /\ cancelled' = c /\ UNCHANGED <<snap, todo>>
       ELSE TakeSnapshot(c)
    /\ UNCHANGED <<attempts, job, reply, lock, durable, stop, failures>>

Drained ==
    /\ sd = "draining"
    /\ \A r \in Requests : refs[r] = 0
    /\ TakeSnapshot(cancelled)
    /\ UNCHANGED <<registry, route, job, reply, lock, durable, stop, failures>>

(* One scope after the other, each under its lock.  The last one is        *)
(* followed by the cancellations before any coroutine gets a turn.         *)
PrepareScope(s) ==
    /\ sd = "preparing"
    /\ s \in todo
    /\ lock[s] = "free"
    /\ ckpt' = [ckpt EXCEPT ![s] = "pending"]
    /\ hold' = [hold EXCEPT ![s] = TRUE]
    /\ loose' = [loose EXCEPT ![s] = FALSE]
    /\ todo' = todo \ {s}
    /\ IF todo = {s}
       THEN sd' = "cancelling" /\ cancelled' = cancelled \cup AliveJobs
       ELSE UNCHANGED <<sd, cancelled>>
    /\ UNCHANGED <<registry, route, job, reply, lock, stop, snap, failures>>

Down ==
    /\ sd = "cancelling"
    /\ AliveJobs = {}
    /\ sd' = "down"
    /\ UNCHANGED <<registry, ingress, lock, durable, stop, snap, todo, failures>>

-----------------------------------------------------------------------------
RouteStep(r) == CheckTarget(r) \/ Reject(r) \/ Track(r) \/ Leave(r)

LocalStep(r) == Register(r) \/ LiftHolds(r) \/ Unwind(r) \/ Unwound(r)
                \/ Abandon(r) \/ Close(r) \/ CutShort(r) \/ DoneCallback(r)

LockStep(r) == ClaimCheckpoint(r) \/ Complete(r) \/ Restore(r)

TurnStep(r, t) == SpawnTurn(r, t) \/ Delegate(r, t) \/ EndTurn(r, t)

StopStep(s) == StopRequest(s) \/ StopHold(s) \/ StopPublish(s) \/ StopCancelled(s)

ShutdownStep == ShutClose \/ Drained \/ Down \/ \E s \in Scopes : PrepareScope(s)

Next ==
    \/ \E r \in Requests : Accept(r) \/ RouteStep(r) \/ LocalStep(r)
                            \/ LockStep(r) \/ Fail(r)
    \/ \E r \in Requests, t \in Turns : TurnStep(r, t)
    \/ \E s \in Scopes : StopStep(s)
    \/ ShutdownStep

Spec == Init /\ [][Next]_vars

(* The event loop runs what is ready; asyncio.Lock serves its waiters in   *)
(* order, so whoever waits for a scope lock again and again gets it.  No   *)
(* message, failure, stop or shutdown has to come.                         *)
Fairness ==
    /\ \A r \in Requests : /\ WF_vars(RouteStep(r))
                           /\ WF_vars(LocalStep(r))
                           /\ SF_vars(LockStep(r))
    /\ \A r \in Requests, t \in Turns : WF_vars(EndTurn(r, t))
    /\ \A s \in Scopes : /\ SF_vars(StopHold(s))
                         /\ WF_vars(StopPublish(s) \/ StopCancelled(s))
                         /\ SF_vars(PrepareScope(s))
    /\ WF_vars(Drained \/ Down)

FairSpec == Spec /\ Fairness

-----------------------------------------------------------------------------
(* The coroutines that have a scope's checkpoint in hand, and those that   *)
(* are entitled to run its cards.                                          *)
Opened == {"opened", "driving", "unwinding", "restoring", "failing"}
Engaged == Opened \cup {"marked"}
InHand(s, states) == \E r \in Requests : ScopeOf[r] = s /\ job[r] \in states

(* What the shutdown lists when the drain ends are all the scopes that     *)
(* will ever run: nothing registers a new one behind its back              *)
(* (close_admission_and_wait_for_handoffs, register).                      *)
SnapshotCoversAttempts ==
    sd \in {"preparing", "cancelling", "down"} => Attempted \subseteq snap

(* A job that has written "resuming" and not been cancelled is admitted:   *)
(* its reservation outlives the route that made it, so that register's     *)
(* refusal cannot strike between the claim of the checkpoint and the       *)
(* driver's attempt (_acquire_company_executor_driver_ownership).          *)
ClaimedIsAdmitted ==
    \A r \in Requests : job[r] = "marked" /\ Runs(r) => Admitted(r)

(* Cards without a hold have a driver who runs them or puts the holds      *)
(* back, until the shutdown cancels everybody; what is left then is held   *)
(* again by the next start (_reconcile_company_runtime_state).             *)
ReleasedWorkIsOwned ==
    \A s \in Scopes :
        /\ sd \in {"up", "draining", "preparing"}
        /\ ~hold[s]
        /\ ckpt[s] # "resolved"
        => InHand(s, Opened)

(* Two requests never resume the same scope at a time: the second Continue *)
(* is turned away or finds the checkpoint taken until the first, and its   *)
(* restoration, is over (_company_suspend_reply_locks, the scope lock).    *)
OneResumePerScope ==
    \A q, r \in Requests :
        /\ ScopeOf[q] = ScopeOf[r]
        /\ job[q] \in Engaged
        /\ job[r] \in Engaged
        => q = r

(* While the controller is up a checkpoint is "resuming" only in the hands *)
(* of a job, so that no scope is left that nobody resumes or may resume.   *)
ResumingIsOwned ==
    \A s \in Scopes : sd = "up" /\ ckpt[s] = "resuming" => InHand(s, Engaged)

(* shutdown waits for hand-offs, for scope locks and for the cancelled     *)
(* executions, and none of them waits for it.                              *)
ShutdownCompletes == sd # "up" ~> sd = "down"

(* A Continue is turned away because "this company runtime is already      *)
(* being resumed by another request" only while such a request is alive    *)
(* (_route_company_suspend_reply_if_pending, _handle_session_resume).      *)
ReplyLockHasOwner == sd = "up" => \A r \in reply : Alive(r)

(* "No execution coroutine may get another scheduling turn after its       *)
(* checkpoint/holds are durable" (WSHandler.shutdown).                     *)
NoTurnAfterCheckpoint ==
    [][sd = "preparing" =>
         \A s \in snap \ todo : {a \in attempts' : ScopeOf[a[1]] = s} \subseteq attempts]_vars

=============================================================================
