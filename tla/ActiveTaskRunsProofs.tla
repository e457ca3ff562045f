------------------------ MODULE ActiveTaskRunsProofs ------------------------
(***************************************************************************)
(* What holds of the registry for every set of requests, scopes and turns  *)
(* and any number of failures.  The invariant has layers: the Continue     *)
(* requests of a scope exclude each other; a reservation lasts until it is *)
(* settled, so that nothing registers after the drain; and the scope lock  *)
(* orders those who lift the holds and those who put them back.            *)
(***************************************************************************)
EXTENDS ActiveTaskRuns, TLAPS

-----------------------------------------------------------------------------
(* A live job holds the reply lock of its scope, and it is the only one.   *)
ReplyInv ==
    /\ \A r \in Requests : Alive(r) => r \in reply
    /\ \A q, r \in reply : ScopeOf[q] = ScopeOf[r] => q = r

(* A request that has not registered and is not cancelled has a reference  *)
(* of its own beside its route's, and there is none once admission closed. *)
HandoffInv ==
    /\ \A r \in Requests :
        /\ route[r] = "absent" => job[r] = "absent"
        /\ route[r] \in {"running", "checked"} =>
             job[r] = "absent" /\ refs[r] = 1 /\ sd = "up"
        /\ job[r] \in {"routing", "marked"} /\ Runs(r) =>
             sd = "up" /\ refs[r] > 0 /\ (route[r] = "leaving" => refs[r] = 2)
        /\ job[r] \in Opened => refs[r] = 0
    /\ sd \in {"preparing", "cancelling", "down"} => \A r \in Requests : refs[r] = 0

(* Turns start under their driver, and the snapshot knows all drivers.     *)
DriverInv ==
    /\ \A r \in Requests : job[r] \in {"opened", "driving"} => HasDriver(r)
    /\ SnapshotCoversAttempts

(* Who holds the scope lock, and what a stopped failure leaves behind.     *)
LockInv ==
    /\ \A r \in Requests :
        /\ job[r] \in {"marked", "opened"} => lock[ScopeOf[r]] = "request"
        /\ sd = "up" /\ job[r] = "marked" => Runs(r)
        /\ job[r] = "failing" /\ ~Runs(r) /\ sd \in {"up", "draining", "preparing"} =>
             hold[ScopeOf[r]] /\ ckpt[ScopeOf[r]] # "resuming"
    /\ \A s \in Scopes : stop[s] = "held" => lock[s] = "stop" /\ hold[s]

(* Every action keeps the types.                                           *)
LEMMA TypeStep ==
  ASSUME TypeOK, HandoffInv, [Next]_vars
  PROVE  TypeOK'
<1>. USE RunsAssumption
       DEF TypeOK, HandoffInv, Driver, Attempts,
           registry, ingress, durable, shutdown
<1>1. ASSUME NEW r \in Requests, Accept(r) PROVE TypeOK'
  BY <1>1 DEF Accept, Closed
<1>2. ASSUME NEW r \in Requests, CheckTarget(r) PROVE TypeOK'
  BY <1>2 DEF CheckTarget
<1>3. ASSUME NEW r \in Requests, Reject(r) PROVE TypeOK'
  BY <1>3 DEF Reject, InProgress, Released
<1>4. ASSUME NEW r \in Requests, Track(r) PROVE TypeOK'
  BY <1>4 DEF Track, InProgress
<1>5. ASSUME NEW r \in Requests, Leave(r) PROVE TypeOK'
  BY <1>5 DEF Leave, Released
<1>6. ASSUME NEW r \in Requests, Register(r) PROVE TypeOK'
  BY <1>6 DEF Register, Goes, Runs, Admitted
<1>7. ASSUME NEW r \in Requests, LiftHolds(r) PROVE TypeOK'
  BY <1>7 DEF LiftHolds, Goes, Runs
<1>8. ASSUME NEW r \in Requests, Unwind(r) PROVE TypeOK'
  BY <1>8 DEF Unwind, Goes
<1>9. ASSUME NEW r \in Requests, Unwound(r) PROVE TypeOK'
  BY <1>9 DEF Unwound, Goes, TurnsOf
<1>10. ASSUME NEW r \in Requests, Abandon(r) PROVE TypeOK'
  BY <1>10 DEF Abandon, Goes
<1>11. ASSUME NEW r \in Requests, Close(r) PROVE TypeOK'
  BY <1>11 DEF Close, Goes
<1>12. ASSUME NEW r \in Requests, CutShort(r) PROVE TypeOK'
  BY <1>12 DEF CutShort, Goes
<1>13. ASSUME NEW r \in Requests, DoneCallback(r) PROVE TypeOK'
  BY <1>13 DEF DoneCallback, Goes, Released
<1>14. ASSUME NEW r \in Requests, ClaimCheckpoint(r) PROVE TypeOK'
  BY <1>14 DEF ClaimCheckpoint, Goes, Runs
<1>15. ASSUME NEW r \in Requests, Complete(r) PROVE TypeOK'
  <2>1. job' \in [Requests -> {"absent", "routing", "marked", "opened", "driving",
                              "unwinding", "restoring", "failing", "closing",
                              "ended", "gone"}]
    BY <1>15 DEF Complete, Goes
  <2>2. /\ ckpt' \in [Scopes -> {"pending", "resuming", "resolved"}]
        /\ loose' \in [Scopes -> BOOLEAN]
        /\ attempts' \subseteq attempts
    <3>1. CASE ckpt[ScopeOf[r]] = "resuming"
      <4>1. /\ ckpt' = [ckpt EXCEPT ![ScopeOf[r]] = "resolved"]
            /\ loose' = [loose EXCEPT ![ScopeOf[r]] = FALSE]
            /\ attempts' = attempts \ {<<r, Driver>>}
        BY <1>15, <3>1, Zenon DEF Complete
      <4>. QED
        BY <4>1
    <3>2. CASE ckpt[ScopeOf[r]] # "resuming"
      BY <1>15, <3>2 DEF Complete
    <3>. QED
      BY <3>1, <3>2
  <2>. QED
    BY <1>15, <2>1, <2>2 DEF Complete
<1>16. ASSUME NEW r \in Requests, Restore(r) PROVE TypeOK'
  BY <1>16 DEF Restore, Goes, Runs
<1>17. ASSUME NEW r \in Requests, Fail(r) PROVE TypeOK'
  <2>1. job' \in [Requests -> {"absent", "routing", "marked", "opened", "driving",
                              "unwinding", "restoring", "failing", "closing",
                              "ended", "gone"}]
    BY <1>17 DEF Fail, Goes
  <2>2. /\ lock' \in [Scopes -> {"free", "request", "stop"}]
        /\ hold' \in [Scopes -> BOOLEAN]
        /\ attempts' \subseteq attempts
    <3>1. CASE job[r] # "opened"
      BY <1>17, <3>1 DEF Fail, Goes
    <3>2. CASE job[r] = "opened"
      <4>1. /\ lock' = [lock EXCEPT ![ScopeOf[r]] = "free"]
            /\ hold' = hold \/ hold' = [hold EXCEPT ![ScopeOf[r]] = FALSE]
            /\ attempts' = attempts \ {<<r, Driver>>}
        BY <1>17, <3>2 DEF Fail, Goes
      <4>. QED
        BY <4>1
    <3>. QED
      BY <3>1, <3>2
  <2>3. failures' \in 0..MaxFailures
    BY <1>17 DEF Fail
  <2>. QED
    BY <1>17, <2>1, <2>2, <2>3 DEF Fail
<1>18. ASSUME NEW r \in Requests, NEW t \in Turns, SpawnTurn(r, t) PROVE TypeOK'
  BY <1>18 DEF SpawnTurn, Runs, HasDriver, Admitted
<1>19. ASSUME NEW r \in Requests, NEW t \in Turns, Delegate(r, t) PROVE TypeOK'
  BY <1>19 DEF Delegate, Runs
<1>20. ASSUME NEW r \in Requests, NEW t \in Turns, EndTurn(r, t) PROVE TypeOK'
  BY <1>20 DEF EndTurn
<1>21. ASSUME NEW s \in Scopes, StopRequest(s) PROVE TypeOK'
  BY <1>21 DEF StopRequest
<1>22. ASSUME NEW s \in Scopes, StopHold(s) PROVE TypeOK'
  BY <1>22 DEF StopHold, Stopping
<1>23. ASSUME NEW s \in Scopes, StopPublish(s) PROVE TypeOK'
  BY <1>23 DEF StopPublish, Stopping, AliveJobs
<1>24. ASSUME NEW s \in Scopes, StopCancelled(s) PROVE TypeOK'
  BY <1>24 DEF StopCancelled
<1>25. ASSUME NEW s \in Scopes, PrepareScope(s) PROVE TypeOK'
  BY <1>25 DEF PrepareScope, AliveJobs
<1>26. ASSUME ShutClose PROVE TypeOK'
  <2>1. Attempted \subseteq Scopes
    BY DEF Attempted
  <2>2. /\ refs' \in [Requests -> 0..2]
        /\ route' \in [Requests -> {"absent", "running", "checked", "leaving", "done"}]
    BY <1>26 DEF ShutClose
  <2>. QED
    BY <1>26, <2>1, <2>2 DEF ShutClose, TakeSnapshot, AliveJobs
<1>27. ASSUME Drained PROVE TypeOK'
  <2>1. Attempted \subseteq Scopes
    BY DEF Attempted
  <2>. QED
    BY <1>27, <2>1 DEF Drained, TakeSnapshot, AliveJobs
<1>28. ASSUME Down PROVE TypeOK'
  BY <1>28 DEF Down
<1>29. CASE UNCHANGED vars
  BY <1>29 DEF vars
<1>. QED
  BY <1>1, <1>2, <1>3, <1>4, <1>5, <1>6, <1>7, <1>8, <1>9, <1>10, <1>11, <1>12, <1>13, <1>14, <1>15, <1>16, <1>17, <1>18, <1>19, <1>20, <1>21, <1>22, <1>23, <1>24, <1>25, <1>26, <1>27, <1>28, <1>29
     DEF Next, RouteStep, LocalStep, LockStep, TurnStep, StopStep, ShutdownStep

(* The reply lock is taken by one request of a scope and given up last.    *)
LEMMA ReplyStep ==
  ASSUME TypeOK, ReplyInv, [Next]_vars
  PROVE  ReplyInv'
<1>. USE RunsAssumption
       DEF TypeOK, ReplyInv, Alive,
           registry, ingress, durable, shutdown
<1>1. ASSUME NEW r \in Requests, Accept(r) PROVE ReplyInv'
  BY <1>1 DEF Accept, Closed
<1>2. ASSUME NEW r \in Requests, CheckTarget(r) PROVE ReplyInv'
  BY <1>2 DEF CheckTarget
<1>3. ASSUME NEW r \in Requests, Reject(r) PROVE ReplyInv'
  BY <1>3 DEF Reject, InProgress, Released
<1>4. ASSUME NEW r \in Requests, Track(r) PROVE ReplyInv'
  BY <1>4 DEF Track, InProgress
<1>5. ASSUME NEW r \in Requests, Leave(r) PROVE ReplyInv'
  BY <1>5 DEF Leave, Released
<1>6. ASSUME NEW r \in Requests, Register(r) PROVE ReplyInv'
  BY <1>6 DEF Register, Goes, Runs, Admitted, Attempts
<1>7. ASSUME NEW r \in Requests, LiftHolds(r) PROVE ReplyInv'
  BY <1>7 DEF LiftHolds, Goes, Runs
<1>8. ASSUME NEW r \in Requests, Unwind(r) PROVE ReplyInv'
  BY <1>8 DEF Unwind, Goes
<1>9. ASSUME NEW r \in Requests, Unwound(r) PROVE ReplyInv'
  BY <1>9 DEF Unwound, Goes, TurnsOf
<1>10. ASSUME NEW r \in Requests, Abandon(r) PROVE ReplyInv'
  BY <1>10 DEF Abandon, Goes
<1>11. ASSUME NEW r \in Requests, Close(r) PROVE ReplyInv'
  BY <1>11 DEF Close, Goes
<1>12. ASSUME NEW r \in Requests, CutShort(r) PROVE ReplyInv'
  BY <1>12 DEF CutShort, Goes
<1>13. ASSUME NEW r \in Requests, DoneCallback(r) PROVE ReplyInv'
  BY <1>13 DEF DoneCallback, Goes, Released
<1>14. ASSUME NEW r \in Requests, ClaimCheckpoint(r) PROVE ReplyInv'
  BY <1>14 DEF ClaimCheckpoint, Goes, Runs
<1>15. ASSUME NEW r \in Requests, Complete(r) PROVE ReplyInv'
  BY <1>15 DEF Complete, Goes, Runs, TurnsOf
<1>16. ASSUME NEW r \in Requests, Restore(r) PROVE ReplyInv'
  BY <1>16 DEF Restore, Goes, Runs
<1>17. ASSUME NEW r \in Requests, Fail(r) PROVE ReplyInv'
  BY <1>17 DEF Fail, Goes, Runs
<1>18. ASSUME NEW r \in Requests, NEW t \in Turns, SpawnTurn(r, t) PROVE ReplyInv'
  BY <1>18 DEF SpawnTurn, Runs, HasDriver, Admitted
<1>19. ASSUME NEW r \in Requests, NEW t \in Turns, Delegate(r, t) PROVE ReplyInv'
  BY <1>19 DEF Delegate, Runs
<1>20. ASSUME NEW r \in Requests, NEW t \in Turns, EndTurn(r, t) PROVE ReplyInv'
  BY <1>20 DEF EndTurn
<1>21. ASSUME NEW s \in Scopes, StopRequest(s) PROVE ReplyInv'
  BY <1>21 DEF StopRequest
<1>22. ASSUME NEW s \in Scopes, StopHold(s) PROVE ReplyInv'
  BY <1>22 DEF StopHold, Stopping
<1>23. ASSUME NEW s \in Scopes, StopPublish(s) PROVE ReplyInv'
  BY <1>23 DEF StopPublish, Stopping, AliveJobs
<1>24. ASSUME NEW s \in Scopes, StopCancelled(s) PROVE ReplyInv'
  BY <1>24 DEF StopCancelled
<1>25. ASSUME NEW s \in Scopes, PrepareScope(s) PROVE ReplyInv'
  BY <1>25 DEF PrepareScope, AliveJobs
<1>26. ASSUME ShutClose PROVE ReplyInv'
  BY <1>26 DEF ShutClose, Pending, Routing, TakeSnapshot, AliveJobs, Attempted
<1>27. ASSUME Drained PROVE ReplyInv'
  BY <1>27 DEF Drained, TakeSnapshot, AliveJobs, Attempted
<1>28. ASSUME Down PROVE ReplyInv'
  BY <1>28 DEF Down
<1>29. CASE UNCHANGED vars
  BY <1>29 DEF vars
<1>. QED
  BY <1>1, <1>2, <1>3, <1>4, <1>5, <1>6, <1>7, <1>8, <1>9, <1>10, <1>11, <1>12, <1>13, <1>14, <1>15, <1>16, <1>17, <1>18, <1>19, <1>20, <1>21, <1>22, <1>23, <1>24, <1>25, <1>26, <1>27, <1>28, <1>29
     DEF Next, RouteStep, LocalStep, LockStep, TurnStep, StopStep, ShutdownStep

(* References come and go with the route, the job and the registration.    *)
LEMMA HandoffStep ==
  ASSUME TypeOK, HandoffInv, [Next]_vars
  PROVE  HandoffInv'
<1>. USE RunsAssumption
       DEF TypeOK, HandoffInv, Runs, Opened,
           registry, ingress, durable, shutdown
<1>1. ASSUME NEW r \in Requests, Accept(r) PROVE HandoffInv'
  BY <1>1 DEF Accept, Closed
<1>2. ASSUME NEW r \in Requests, CheckTarget(r) PROVE HandoffInv'
  BY <1>2 DEF CheckTarget
<1>3. ASSUME NEW r \in Requests, Reject(r) PROVE HandoffInv'
  BY <1>3 DEF Reject, InProgress, Released
<1>4. ASSUME NEW r \in Requests, Track(r) PROVE HandoffInv'
  BY <1>4 DEF Track, InProgress
<1>5. ASSUME NEW r \in Requests, Leave(r) PROVE HandoffInv'
  BY <1>5 DEF Leave, Released
<1>6. ASSUME NEW r \in Requests, Register(r) PROVE HandoffInv'
  BY <1>6 DEF Register, Goes, Admitted, Attempts
<1>7. ASSUME NEW r \in Requests, LiftHolds(r) PROVE HandoffInv'
  BY <1>7 DEF LiftHolds, Goes
<1>8. ASSUME NEW r \in Requests, Unwind(r) PROVE HandoffInv'
  BY <1>8 DEF Unwind, Goes
<1>9. ASSUME NEW r \in Requests, Unwound(r) PROVE HandoffInv'
  BY <1>9 DEF Unwound, Goes, TurnsOf
<1>10. ASSUME NEW r \in Requests, Abandon(r) PROVE HandoffInv'
  BY <1>10 DEF Abandon, Goes
<1>11. ASSUME NEW r \in Requests, Close(r) PROVE HandoffInv'
  BY <1>11 DEF Close, Goes
<1>12. ASSUME NEW r \in Requests, CutShort(r) PROVE HandoffInv'
  BY <1>12 DEF CutShort, Goes
<1>13. ASSUME NEW r \in Requests, DoneCallback(r) PROVE HandoffInv'
  BY <1>13 DEF DoneCallback, Goes, Released
<1>14. ASSUME NEW r \in Requests, ClaimCheckpoint(r) PROVE HandoffInv'
  BY <1>14 DEF ClaimCheckpoint, Goes
<1>15. ASSUME NEW r \in Requests, Complete(r) PROVE HandoffInv'
  BY <1>15 DEF Complete, Goes, TurnsOf
<1>16. ASSUME NEW r \in Requests, Restore(r) PROVE HandoffInv'
  BY <1>16 DEF Restore, Goes
<1>17. ASSUME NEW r \in Requests, Fail(r) PROVE HandoffInv'
  BY <1>17 DEF Fail, Goes
<1>18. ASSUME NEW r \in Requests, NEW t \in Turns, SpawnTurn(r, t) PROVE HandoffInv'
  BY <1>18 DEF SpawnTurn, HasDriver, Admitted
<1>19. ASSUME NEW r \in Requests, NEW t \in Turns, Delegate(r, t) PROVE HandoffInv'
  BY <1>19 DEF Delegate
<1>20. ASSUME NEW r \in Requests, NEW t \in Turns, EndTurn(r, t) PROVE HandoffInv'
  BY <1>20 DEF EndTurn
<1>21. ASSUME NEW s \in Scopes, StopRequest(s) PROVE HandoffInv'
  BY <1>21 DEF StopRequest
<1>22. ASSUME NEW s \in Scopes, StopHold(s) PROVE HandoffInv'
  BY <1>22 DEF StopHold, Stopping
<1>23. ASSUME NEW s \in Scopes, StopPublish(s) PROVE HandoffInv'
  BY <1>23 DEF StopPublish, Stopping, AliveJobs
<1>24. ASSUME NEW s \in Scopes, StopCancelled(s) PROVE HandoffInv'
  BY <1>24 DEF StopCancelled
<1>25. ASSUME NEW s \in Scopes, PrepareScope(s) PROVE HandoffInv'
  BY <1>25 DEF PrepareScope, AliveJobs
<1>26. ASSUME ShutClose PROVE HandoffInv'
  <2>1. \A r \in Requests : refs'[r] = IF Pending(r) THEN 0 ELSE refs[r]
    BY <1>26 DEF ShutClose
  <2>2. \A r \in Requests : route'[r] = IF Pending(r) /\ Routing(r)
                                      THEN "leaving" ELSE route[r]
    BY <1>26 DEF ShutClose
  <2>3. \A r \in Requests : Pending(r) /\ Alive(r) => r \in cancelled'
    BY <1>26 DEF ShutClose, TakeSnapshot
  <2>4. /\ job' = job
        /\ sd' \in {"preparing", "cancelling"} => \A r \in Requests : refs'[r] = 0
        /\ cancelled \subseteq cancelled'
    <3>1. \A r \in Requests : refs'[r] \in 0..2
      BY <2>1
    <3>. QED
      BY <1>26, <3>1 DEF ShutClose, TakeSnapshot
  <2>5. sd' \in {"draining", "preparing", "cancelling"}
    BY <1>26 DEF ShutClose, TakeSnapshot
  <2>. QED
    BY <2>1, <2>2, <2>3, <2>4, <2>5 DEF Pending, Routing, Alive
<1>27. ASSUME Drained PROVE HandoffInv'
  BY <1>27 DEF Drained, TakeSnapshot, AliveJobs, Attempted
<1>28. ASSUME Down PROVE HandoffInv'
  BY <1>28 DEF Down
<1>29. CASE UNCHANGED vars
  BY <1>29 DEF vars
<1>. QED
  BY <1>1, <1>2, <1>3, <1>4, <1>5, <1>6, <1>7, <1>8, <1>9, <1>10, <1>11, <1>12, <1>13, <1>14, <1>15, <1>16, <1>17, <1>18, <1>19, <1>20, <1>21, <1>22, <1>23, <1>24, <1>25, <1>26, <1>27, <1>28, <1>29
     DEF Next, RouteStep, LocalStep, LockStep, TurnStep, StopStep, ShutdownStep

(* Only a request that registers before the drain ends brings a new scope. *)
LEMMA DriverStep ==
  ASSUME TypeOK, HandoffInv, DriverInv, [Next]_vars
  PROVE  DriverInv'
<1>. USE RunsAssumption
       DEF TypeOK, HandoffInv, DriverInv, SnapshotCoversAttempts, Attempted, Driver, Attempts, HasDriver, Runs,
           registry, ingress, durable, shutdown
<1>1. ASSUME NEW r \in Requests, Accept(r) PROVE DriverInv'
  BY <1>1 DEF Accept, Closed
<1>2. ASSUME NEW r \in Requests, CheckTarget(r) PROVE DriverInv'
  BY <1>2 DEF CheckTarget
<1>3. ASSUME NEW r \in Requests, Reject(r) PROVE DriverInv'
  BY <1>3 DEF Reject, InProgress, Released
<1>4. ASSUME NEW r \in Requests, Track(r) PROVE DriverInv'
  BY <1>4 DEF Track, InProgress
<1>5. ASSUME NEW r \in Requests, Leave(r) PROVE DriverInv'
  BY <1>5 DEF Leave, Released
<1>6. ASSUME NEW r \in Requests, Register(r) PROVE DriverInv'
  BY <1>6 DEF Register, Goes, Admitted
<1>7. ASSUME NEW r \in Requests, LiftHolds(r) PROVE DriverInv'
  BY <1>7 DEF LiftHolds, Goes
<1>8. ASSUME NEW r \in Requests, Unwind(r) PROVE DriverInv'
  BY <1>8 DEF Unwind, Goes
<1>9. ASSUME NEW r \in Requests, Unwound(r) PROVE DriverInv'
  BY <1>9 DEF Unwound, Goes, TurnsOf
<1>10. ASSUME NEW r \in Requests, Abandon(r) PROVE DriverInv'
  BY <1>10 DEF Abandon, Goes
<1>11. ASSUME NEW r \in Requests, Close(r) PROVE DriverInv'
  BY <1>11 DEF Close, Goes
<1>12. ASSUME NEW r \in Requests, CutShort(r) PROVE DriverInv'
  BY <1>12 DEF CutShort, Goes
<1>13. ASSUME NEW r \in Requests, DoneCallback(r) PROVE DriverInv'
  BY <1>13 DEF DoneCallback, Goes, Released
<1>14. ASSUME NEW r \in Requests, ClaimCheckpoint(r) PROVE DriverInv'
  BY <1>14 DEF ClaimCheckpoint, Goes
<1>15. ASSUME NEW r \in Requests, Complete(r) PROVE DriverInv'
  BY <1>15 DEF Complete, Goes, TurnsOf
<1>16. ASSUME NEW r \in Requests, Restore(r) PROVE DriverInv'
  BY <1>16 DEF Restore, Goes
<1>17. ASSUME NEW r \in Requests, Fail(r) PROVE DriverInv'
  BY <1>17 DEF Fail, Goes
<1>18. ASSUME NEW r \in Requests, NEW t \in Turns, SpawnTurn(r, t) PROVE DriverInv'
  BY <1>18 DEF SpawnTurn, Admitted
<1>19. ASSUME NEW r \in Requests, NEW t \in Turns, Delegate(r, t) PROVE DriverInv'
  BY <1>19 DEF Delegate
<1>20. ASSUME NEW r \in Requests, NEW t \in Turns, EndTurn(r, t) PROVE DriverInv'
  BY <1>20 DEF EndTurn
<1>21. ASSUME NEW s \in Scopes, StopRequest(s) PROVE DriverInv'
  BY <1>21 DEF StopRequest
<1>22. ASSUME NEW s \in Scopes, StopHold(s) PROVE DriverInv'
  BY <1>22 DEF StopHold, Stopping
<1>23. ASSUME NEW s \in Scopes, StopPublish(s) PROVE DriverInv'
  BY <1>23 DEF StopPublish, Stopping, AliveJobs
<1>24. ASSUME NEW s \in Scopes, StopCancelled(s) PROVE DriverInv'
  BY <1>24 DEF StopCancelled
<1>25. ASSUME NEW s \in Scopes, PrepareScope(s) PROVE DriverInv'
  BY <1>25 DEF PrepareScope, AliveJobs
<1>26. ASSUME ShutClose PROVE DriverInv'
  BY <1>26 DEF ShutClose, Pending, Routing, TakeSnapshot, AliveJobs
<1>27. ASSUME Drained PROVE DriverInv'
  BY <1>27 DEF Drained, TakeSnapshot, AliveJobs
<1>28. ASSUME Down PROVE DriverInv'
  BY <1>28 DEF Down
<1>29. CASE UNCHANGED vars
  BY <1>29 DEF vars
<1>. QED
  BY <1>1, <1>2, <1>3, <1>4, <1>5, <1>6, <1>7, <1>8, <1>9, <1>10, <1>11, <1>12, <1>13, <1>14, <1>15, <1>16, <1>17, <1>18, <1>19, <1>20, <1>21, <1>22, <1>23, <1>24, <1>25, <1>26, <1>27, <1>28, <1>29
     DEF Next, RouteStep, LocalStep, LockStep, TurnStep, StopStep, ShutdownStep

(* The lock, the holds and the cancellations move together.                *)
LEMMA LockStepKeeps ==
  ASSUME TypeOK, ReplyInv, HandoffInv, LockInv, [Next]_vars
  PROVE  LockInv'
<1>. USE RunsAssumption
       DEF TypeOK, ReplyInv, HandoffInv, LockInv, Runs, Alive, Opened,
           registry, ingress, durable, shutdown
<1>1. ASSUME NEW r \in Requests, Accept(r) PROVE LockInv'
  BY <1>1 DEF Accept, Closed
<1>2. ASSUME NEW r \in Requests, CheckTarget(r) PROVE LockInv'
  BY <1>2 DEF CheckTarget
<1>3. ASSUME NEW r \in Requests, Reject(r) PROVE LockInv'
  BY <1>3 DEF Reject, InProgress, Released
<1>4. ASSUME NEW r \in Requests, Track(r) PROVE LockInv'
  BY <1>4 DEF Track, InProgress
<1>5. ASSUME NEW r \in Requests, Leave(r) PROVE LockInv'
  BY <1>5 DEF Leave, Released
<1>6. ASSUME NEW r \in Requests, Register(r) PROVE LockInv'
  BY <1>6 DEF Register, Goes, Admitted, Attempts
<1>7. ASSUME NEW r \in Requests, LiftHolds(r) PROVE LockInv'
  BY <1>7 DEF LiftHolds, Goes
<1>8. ASSUME NEW r \in Requests, Unwind(r) PROVE LockInv'
  BY <1>8 DEF Unwind, Goes
<1>9. ASSUME NEW r \in Requests, Unwound(r) PROVE LockInv'
  BY <1>9 DEF Unwound, Goes, TurnsOf
<1>10. ASSUME NEW r \in Requests, Abandon(r) PROVE LockInv'
  BY <1>10 DEF Abandon, Goes
<1>11. ASSUME NEW r \in Requests, Close(r) PROVE LockInv'
  BY <1>11 DEF Close, Goes
<1>12. ASSUME NEW r \in Requests, CutShort(r) PROVE LockInv'
  BY <1>12 DEF CutShort, Goes
<1>13. ASSUME NEW r \in Requests, DoneCallback(r) PROVE LockInv'
  BY <1>13 DEF DoneCallback, Goes, Released
<1>14. ASSUME NEW r \in Requests, ClaimCheckpoint(r) PROVE LockInv'
  BY <1>14 DEF ClaimCheckpoint, Goes
<1>15. ASSUME NEW r \in Requests, Complete(r) PROVE LockInv'
  BY <1>15 DEF Complete, Goes, TurnsOf
<1>16. ASSUME NEW r \in Requests, Restore(r) PROVE LockInv'
  BY <1>16 DEF Restore, Goes
<1>17. ASSUME NEW r \in Requests, Fail(r) PROVE LockInv'
  BY <1>17 DEF Fail, Goes
<1>18. ASSUME NEW r \in Requests, NEW t \in Turns, SpawnTurn(r, t) PROVE LockInv'
  BY <1>18 DEF SpawnTurn, HasDriver, Admitted
<1>19. ASSUME NEW r \in Requests, NEW t \in Turns, Delegate(r, t) PROVE LockInv'
  BY <1>19 DEF Delegate
<1>20. ASSUME NEW r \in Requests, NEW t \in Turns, EndTurn(r, t) PROVE LockInv'
  BY <1>20 DEF EndTurn
<1>21. ASSUME NEW s \in Scopes, StopRequest(s) PROVE LockInv'
  BY <1>21 DEF StopRequest
<1>22. ASSUME NEW s \in Scopes, StopHold(s) PROVE LockInv'
  BY <1>22 DEF StopHold, Stopping
<1>23. ASSUME NEW s \in Scopes, StopPublish(s) PROVE LockInv'
  BY <1>23 DEF StopPublish, Stopping, AliveJobs
<1>24. ASSUME NEW s \in Scopes, StopCancelled(s) PROVE LockInv'
  BY <1>24 DEF StopCancelled
<1>25. ASSUME NEW s \in Scopes, PrepareScope(s) PROVE LockInv'
  BY <1>25 DEF PrepareScope, AliveJobs
<1>26. ASSUME ShutClose PROVE LockInv'
  BY <1>26 DEF ShutClose, Pending, Routing, TakeSnapshot, AliveJobs, Attempted
<1>27. ASSUME Drained PROVE LockInv'
  BY <1>27 DEF Drained, TakeSnapshot, AliveJobs, Attempted
<1>28. ASSUME Down PROVE LockInv'
  BY <1>28 DEF Down
<1>29. CASE UNCHANGED vars
  BY <1>29 DEF vars
<1>. QED
  BY <1>1, <1>2, <1>3, <1>4, <1>5, <1>6, <1>7, <1>8, <1>9, <1>10, <1>11, <1>12, <1>13, <1>14, <1>15, <1>16, <1>17, <1>18, <1>19, <1>20, <1>21, <1>22, <1>23, <1>24, <1>25, <1>26, <1>27, <1>28, <1>29
     DEF Next, RouteStep, LocalStep, LockStep, TurnStep, StopStep, ShutdownStep

(* Whoever leaves a scope with lifted holds has closed it or put them back.*)
LEMMA OwnershipStep ==
  ASSUME TypeOK, ReplyInv, HandoffInv, LockInv, ReleasedWorkIsOwned, [Next]_vars
  PROVE  ReleasedWorkIsOwned'
<1>. USE RunsAssumption
       DEF TypeOK, ReplyInv, HandoffInv, LockInv, ReleasedWorkIsOwned, InHand, Opened, Runs, Alive,
           registry, ingress, durable, shutdown
<1>1. ASSUME NEW r \in Requests, Accept(r) PROVE ReleasedWorkIsOwned'
  BY <1>1 DEF Accept, Closed
<1>2. ASSUME NEW r \in Requests, CheckTarget(r) PROVE ReleasedWorkIsOwned'
  BY <1>2 DEF CheckTarget
<1>3. ASSUME NEW r \in Requests, Reject(r) PROVE ReleasedWorkIsOwned'
  BY <1>3 DEF Reject, InProgress, Released
<1>4. ASSUME NEW r \in Requests, Track(r) PROVE ReleasedWorkIsOwned'
  BY <1>4 DEF Track, InProgress
<1>5. ASSUME NEW r \in Requests, Leave(r) PROVE ReleasedWorkIsOwned'
  BY <1>5 DEF Leave, Released
<1>6. ASSUME NEW r \in Requests, Register(r) PROVE ReleasedWorkIsOwned'
  BY <1>6 DEF Register, Goes, Admitted, Attempts
<1>7. ASSUME NEW r \in Requests, LiftHolds(r) PROVE ReleasedWorkIsOwned'
  BY <1>7 DEF LiftHolds, Goes
<1>8. ASSUME NEW r \in Requests, Unwind(r) PROVE ReleasedWorkIsOwned'
  BY <1>8 DEF Unwind, Goes
<1>9. ASSUME NEW r \in Requests, Unwound(r) PROVE ReleasedWorkIsOwned'
  BY <1>9 DEF Unwound, Goes, TurnsOf
<1>10. ASSUME NEW r \in Requests, Abandon(r) PROVE ReleasedWorkIsOwned'
  BY <1>10 DEF Abandon, Goes
<1>11. ASSUME NEW r \in Requests, Close(r) PROVE ReleasedWorkIsOwned'
  BY <1>11 DEF Close, Goes
<1>12. ASSUME NEW r \in Requests, CutShort(r) PROVE ReleasedWorkIsOwned'
  BY <1>12 DEF CutShort, Goes
<1>13. ASSUME NEW r \in Requests, DoneCallback(r) PROVE ReleasedWorkIsOwned'
  BY <1>13 DEF DoneCallback, Goes, Released
<1>14. ASSUME NEW r \in Requests, ClaimCheckpoint(r) PROVE ReleasedWorkIsOwned'
  BY <1>14 DEF ClaimCheckpoint, Goes
<1>15. ASSUME NEW r \in Requests, Complete(r) PROVE ReleasedWorkIsOwned'
  BY <1>15 DEF Complete, Goes, TurnsOf
<1>16. ASSUME NEW r \in Requests, Restore(r) PROVE ReleasedWorkIsOwned'
  <2>1. \A s \in Scopes : s # ScopeOf[r] => hold'[s] = hold[s] /\ ckpt'[s] = ckpt[s]
    BY <1>16 DEF Restore
  <2>2. hold'[ScopeOf[r]] \/ ckpt'[ScopeOf[r]] = "resolved"
    BY <1>16 DEF Restore
  <2>3. \A q \in Requests : q # r => job'[q] = job[q]
    BY <1>16 DEF Restore, Goes
  <2>. QED
    BY <1>16, <2>1, <2>2, <2>3 DEF Restore
<1>17. ASSUME NEW r \in Requests, Fail(r) PROVE ReleasedWorkIsOwned'
  BY <1>17 DEF Fail, Goes
<1>18. ASSUME NEW r \in Requests, NEW t \in Turns, SpawnTurn(r, t) PROVE ReleasedWorkIsOwned'
  BY <1>18 DEF SpawnTurn, HasDriver, Admitted
<1>19. ASSUME NEW r \in Requests, NEW t \in Turns, Delegate(r, t) PROVE ReleasedWorkIsOwned'
  BY <1>19 DEF Delegate
<1>20. ASSUME NEW r \in Requests, NEW t \in Turns, EndTurn(r, t) PROVE ReleasedWorkIsOwned'
  BY <1>20 DEF EndTurn
<1>21. ASSUME NEW s \in Scopes, StopRequest(s) PROVE ReleasedWorkIsOwned'
  BY <1>21 DEF StopRequest
<1>22. ASSUME NEW s \in Scopes, StopHold(s) PROVE ReleasedWorkIsOwned'
  BY <1>22 DEF StopHold, Stopping
<1>23. ASSUME NEW s \in Scopes, StopPublish(s) PROVE ReleasedWorkIsOwned'
  BY <1>23 DEF StopPublish, Stopping, AliveJobs
<1>24. ASSUME NEW s \in Scopes, StopCancelled(s) PROVE ReleasedWorkIsOwned'
  BY <1>24 DEF StopCancelled
<1>25. ASSUME NEW s \in Scopes, PrepareScope(s) PROVE ReleasedWorkIsOwned'
  BY <1>25 DEF PrepareScope, AliveJobs
<1>26. ASSUME ShutClose PROVE ReleasedWorkIsOwned'
  BY <1>26 DEF ShutClose, Pending, Routing, TakeSnapshot, AliveJobs, Attempted
<1>27. ASSUME Drained PROVE ReleasedWorkIsOwned'
  BY <1>27 DEF Drained, TakeSnapshot, AliveJobs, Attempted
<1>28. ASSUME Down PROVE ReleasedWorkIsOwned'
  BY <1>28 DEF Down
<1>29. CASE UNCHANGED vars
  BY <1>29 DEF vars
<1>. QED
  BY <1>1, <1>2, <1>3, <1>4, <1>5, <1>6, <1>7, <1>8, <1>9, <1>10, <1>11, <1>12, <1>13, <1>14, <1>15, <1>16, <1>17, <1>18, <1>19, <1>20, <1>21, <1>22, <1>23, <1>24, <1>25, <1>26, <1>27, <1>28, <1>29
     DEF Next, RouteStep, LocalStep, LockStep, TurnStep, StopStep, ShutdownStep

(* Whoever leaves a checkpoint that is resuming has resolved or restored it.*)
LEMMA ResumingStep ==
  ASSUME TypeOK, ReplyInv, HandoffInv, LockInv, ResumingIsOwned, [Next]_vars
  PROVE  ResumingIsOwned'
<1>. USE RunsAssumption
       DEF TypeOK, ReplyInv, HandoffInv, LockInv, ResumingIsOwned, InHand, Engaged, Opened, Runs, Alive,
           registry, ingress, durable, shutdown
<1>1. ASSUME NEW r \in Requests, Accept(r) PROVE ResumingIsOwned'
  BY <1>1 DEF Accept, Closed
<1>2. ASSUME NEW r \in Requests, CheckTarget(r) PROVE ResumingIsOwned'
  BY <1>2 DEF CheckTarget
<1>3. ASSUME NEW r \in Requests, Reject(r) PROVE ResumingIsOwned'
  BY <1>3 DEF Reject, InProgress, Released
<1>4. ASSUME NEW r \in Requests, Track(r) PROVE ResumingIsOwned'
  BY <1>4 DEF Track, InProgress
<1>5. ASSUME NEW r \in Requests, Leave(r) PROVE ResumingIsOwned'
  BY <1>5 DEF Leave, Released
<1>6. ASSUME NEW r \in Requests, Register(r) PROVE ResumingIsOwned'
  BY <1>6 DEF Register, Goes, Admitted, Attempts
<1>7. ASSUME NEW r \in Requests, LiftHolds(r) PROVE ResumingIsOwned'
  BY <1>7 DEF LiftHolds, Goes
<1>8. ASSUME NEW r \in Requests, Unwind(r) PROVE ResumingIsOwned'
  BY <1>8 DEF Unwind, Goes
<1>9. ASSUME NEW r \in Requests, Unwound(r) PROVE ResumingIsOwned'
  BY <1>9 DEF Unwound, Goes, TurnsOf
<1>10. ASSUME NEW r \in Requests, Abandon(r) PROVE ResumingIsOwned'
  BY <1>10 DEF Abandon, Goes
<1>11. ASSUME NEW r \in Requests, Close(r) PROVE ResumingIsOwned'
  BY <1>11 DEF Close, Goes
<1>12. ASSUME NEW r \in Requests, CutShort(r) PROVE ResumingIsOwned'
  BY <1>12 DEF CutShort, Goes
<1>13. ASSUME NEW r \in Requests, DoneCallback(r) PROVE ResumingIsOwned'
  BY <1>13 DEF DoneCallback, Goes, Released
<1>14. ASSUME NEW r \in Requests, ClaimCheckpoint(r) PROVE ResumingIsOwned'
  BY <1>14 DEF ClaimCheckpoint, Goes
<1>15. ASSUME NEW r \in Requests, Complete(r) PROVE ResumingIsOwned'
  BY <1>15 DEF Complete, Goes, TurnsOf
<1>16. ASSUME NEW r \in Requests, Restore(r) PROVE ResumingIsOwned'
  BY <1>16 DEF Restore, Goes
<1>17. ASSUME NEW r \in Requests, Fail(r) PROVE ResumingIsOwned'
  BY <1>17 DEF Fail, Goes
<1>18. ASSUME NEW r \in Requests, NEW t \in Turns, SpawnTurn(r, t) PROVE ResumingIsOwned'
  BY <1>18 DEF SpawnTurn, HasDriver, Admitted
<1>19. ASSUME NEW r \in Requests, NEW t \in Turns, Delegate(r, t) PROVE ResumingIsOwned'
  BY <1>19 DEF Delegate
<1>20. ASSUME NEW r \in Requests, NEW t \in Turns, EndTurn(r, t) PROVE ResumingIsOwned'
  BY <1>20 DEF EndTurn
<1>21. ASSUME NEW s \in Scopes, StopRequest(s) PROVE ResumingIsOwned'
  BY <1>21 DEF StopRequest
<1>22. ASSUME NEW s \in Scopes, StopHold(s) PROVE ResumingIsOwned'
  BY <1>22 DEF StopHold, Stopping
<1>23. ASSUME NEW s \in Scopes, StopPublish(s) PROVE ResumingIsOwned'
  BY <1>23 DEF StopPublish, Stopping, AliveJobs
<1>24. ASSUME NEW s \in Scopes, StopCancelled(s) PROVE ResumingIsOwned'
  BY <1>24 DEF StopCancelled
<1>25. ASSUME NEW s \in Scopes, PrepareScope(s) PROVE ResumingIsOwned'
  BY <1>25 DEF PrepareScope, AliveJobs
<1>26. ASSUME ShutClose PROVE ResumingIsOwned'
  BY <1>26 DEF ShutClose, Pending, Routing, TakeSnapshot, AliveJobs, Attempted
<1>27. ASSUME Drained PROVE ResumingIsOwned'
  BY <1>27 DEF Drained, TakeSnapshot, AliveJobs, Attempted
<1>28. ASSUME Down PROVE ResumingIsOwned'
  BY <1>28 DEF Down
<1>29. CASE UNCHANGED vars
  BY <1>29 DEF vars
<1>. QED
  BY <1>1, <1>2, <1>3, <1>4, <1>5, <1>6, <1>7, <1>8, <1>9, <1>10, <1>11, <1>12, <1>13, <1>14, <1>15, <1>16, <1>17, <1>18, <1>19, <1>20, <1>21, <1>22, <1>23, <1>24, <1>25, <1>26, <1>27, <1>28, <1>29
     DEF Next, RouteStep, LocalStep, LockStep, TurnStep, StopStep, ShutdownStep

-----------------------------------------------------------------------------
RunsInv ==
    /\ TypeOK
    /\ ReplyInv
    /\ HandoffInv
    /\ DriverInv
    /\ LockInv
    /\ ReleasedWorkIsOwned
    /\ ResumingIsOwned

(* The layers together are an inductive invariant of the registry, the     *)
(* Continue requests, Stop and the shutdown.                               *)
THEOREM RegistryInvariant == Spec => []RunsInv
<1>1. Init => RunsInv
  BY RunsAssumption
     DEF Init, RunsInv, TypeOK, Attempts, ReplyInv, HandoffInv, DriverInv, LockInv,
         Alive, Runs, Opened, SnapshotCoversAttempts, ReleasedWorkIsOwned,
         ResumingIsOwned
<1>2. RunsInv /\ [Next]_vars => RunsInv'
  BY TypeStep, ReplyStep, HandoffStep, DriverStep, LockStepKeeps, OwnershipStep,
     ResumingStep
     DEF RunsInv
<1>. QED
  BY <1>1, <1>2, PTL DEF Spec

(* Every reachable state is well typed; in particular a reservation has at *)
(* most the references of its route and of its job.                        *)
THEOREM TypeCorrect == Spec => []TypeOK
<1>1. RunsInv => TypeOK
  BY DEF RunsInv
<1>. QED
  BY <1>1, RegistryInvariant, PTL

(* After the drain every live execution belongs to a scope the shutdown    *)
(* knows, whatever requests were under way when admission closed.          *)
THEOREM SnapshotIsComplete == Spec => []SnapshotCoversAttempts
<1>1. RunsInv => SnapshotCoversAttempts
  BY DEF RunsInv, DriverInv
<1>. QED
  BY <1>1, RegistryInvariant, PTL

(* register never refuses a request that has claimed a checkpoint and has  *)
(* not been cancelled.                                                     *)
THEOREM ClaimedRequestsRegister == Spec => []ClaimedIsAdmitted
<1>1. RunsInv => ClaimedIsAdmitted
  BY DEF RunsInv, HandoffInv, ClaimedIsAdmitted, Admitted
<1>. QED
  BY <1>1, RegistryInvariant, PTL

(* At most one request at a time has a scope's checkpoint in hand, across  *)
(* Stop, cancellation and failure.                                         *)
THEOREM ResumesExcludeEachOther == Spec => []OneResumePerScope
<1>1. RunsInv => OneResumePerScope
  BY DEF RunsInv, ReplyInv, OneResumePerScope, Engaged, Opened, Alive
<1>. QED
  BY <1>1, RegistryInvariant, PTL

(* A scope whose holds are lifted has a driver, or somebody who is putting *)
(* them back, until the shutdown cancels its executions.                   *)
THEOREM ReleasedScopesAreOwned == Spec => []ReleasedWorkIsOwned
<1>1. RunsInv => ReleasedWorkIsOwned
  BY DEF RunsInv
<1>. QED
  BY <1>1, RegistryInvariant, PTL

(* While the controller is up no checkpoint is left "resuming" without a   *)
(* request that resumes it.                                                *)
THEOREM ResumingScopesAreOwned == Spec => []ResumingIsOwned
<1>1. RunsInv => ResumingIsOwned
  BY DEF RunsInv
<1>. QED
  BY <1>1, RegistryInvariant, PTL

=============================================================================
