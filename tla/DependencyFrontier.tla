------------------------- MODULE DependencyFrontier -------------------------
(***************************************************************************)
(* The cards of one delegation run and the frontier that wakes them.       *)
(*                                                                         *)
(* A manager turn delegates child cards and parks; workers claim and run   *)
(* the children; every child that closes starts a refresh pass that        *)
(* re-evaluates every card against its dependencies, wakes parents, settles*)
(* failures and cascades cancellations.  The turns, the passes, the        *)
(* dispatcher tick and the suspend / resume of the run are coroutines of   *)
(* one event loop: a step of this specification is what one of them does   *)
(* between two awaits of the store, so a pass writes card by card from the *)
(* decisions it took on its snapshot while turns move the same cards.      *)
(***************************************************************************)
EXTENDS WorkItemPhase, Naturals, FiniteSets

CONSTANTS
    N,               \* cards the run may create; card i is created before i + 1
    Crew,            \* [Cards -> SUBSET Cards]: the cards a card's turn may delegate
    RollupCards,     \* kind in _SETTLEMENT_ROLLUP_KINDS
    HumanCards,      \* delivery cards whose result a human must accept
    IntakeCards,     \* kind intake: closed as soon as the work is delegated
    DeliveryOf,      \* [IntakeCards -> SUBSET RollupCards]: delivery cards it may spawn
    TopCards,        \* no agent manager above to review the result
    ManualCards,     \* delegated with a release_policy other than auto
    SoftEdges,       \* <<card, dependency>> pairs of class soft
    InfoEdges,       \* <<card, dependency>> pairs of class info
    Passes,          \* refresh passes that may be in flight at once (bound)
    BlockedOutcomes, \* phases a turn may end blocked in
    MaxReworks,      \* review and human returns per card (bound)
    MaxFailures,     \* turns of the run that may time out or crash (bound)
    MaxOutages       \* suspensions and crashes of the run (bound)

Cards == 1..N

ASSUME BoardAssumption ==
    /\ N \in Nat \ {0}
    /\ Crew \in [Cards -> SUBSET Cards]
    /\ RollupCards \subseteq Cards
    /\ HumanCards \subseteq RollupCards
    /\ IntakeCards \subseteq Cards
    /\ DeliveryOf \in [IntakeCards -> SUBSET RollupCards]
    /\ TopCards \subseteq Cards
    /\ ManualCards \subseteq Cards
    /\ SoftEdges \subseteq Cards \X Cards
    /\ InfoEdges \subseteq Cards \X Cards

ASSUME EngineAssumption ==
    /\ IsFiniteSet(Passes)
    /\ BlockedOutcomes \subseteq {"WAITING_FOR_PEER", "NEEDS_ATTENTION"}
    /\ MaxReworks \in Nat
    /\ MaxFailures \in Nat
    /\ MaxOutages \in Nat

VARIABLES
    phase,      \* the card's phase, or "absent" before it is created
    deps,       \* dependency_work_item_ids
    stamp,      \* dependency_settlement: the failures a card was released over
    synth,      \* synthesis_turn_started (and work_kind = synthesize)
    delegator,  \* last_delegated_by_seat_id is set
    pend,       \* delegated_children_pending
    rework,     \* rework_feedback is not empty
    reworks,    \* how often the card was returned
    claimed,    \* the claimed_by_role_runtime_session_id column is set
    mirror,     \* its copy in the metadata (claimed_by_role_session_id) is set
    turn,       \* where the coroutine running the card is
    failures,   \* turns that timed out or crashed
    pass,       \* the refresh passes in flight
    run,        \* the run's controller
    hold,       \* dispatch_hold is set
    saved,      \* the phases in the suspend checkpoint
    outages     \* suspensions and crashes so far

card    == <<phase, deps, stamp, synth, delegator, pend, rework, reworks>>
claim   == <<claimed, mirror>>
engine  == <<run, hold, saved, outages>>
vars    == <<phase, deps, stamp, synth, delegator, pend, rework, reworks,
             claimed, mirror, turn, failures, pass, run, hold, saved, outages>>

-----------------------------------------------------------------------------
(* Types and null records.                                                 *)

CardPhase == Phase \cup {"absent"}

Stamps == [over : SUBSET Cards, stuck : SUBSET Cards, cascaded : BOOLEAN]

NoStamp == [over |-> {}, stuck |-> {}, cascaded |-> FALSE]

(* A turn is claimed, then running ("dispatched" once it has delegated in  *)
(* this turn), then holds the outcome it computed and has yet to write.    *)
TurnStates ==
    {"none", "claimed", "working", "dispatched", "intake", "park", "repark",
     "parkSettled", "done", "doneDispatched"}

Decisions == [from : CardPhase, to : CardPhase, synth : BOOLEAN,
              stamp : Stamps, unpend : BOOLEAN]

NoDecision == [from |-> "absent", to |-> "absent", synth |-> FALSE,
               stamp |-> NoStamp, unpend |-> FALSE]

PassStates == [st     : {"idle", "due", "scan", "cascade"},
               plan   : [Cards -> Decisions],
               todo   : SUBSET Cards,
               owners : SUBSET Cards,
               cancel : [Cards -> SUBSET Cards],
               spoilt : BOOLEAN,
               again  : BOOLEAN]

IdlePass == [st |-> "idle", plan |-> [i \in Cards |-> NoDecision], todo |-> {},
             owners |-> {}, cancel |-> [i \in Cards |-> {}], spoilt |-> FALSE,
             again |-> FALSE]

TypeOK ==
    /\ phase \in [Cards -> CardPhase]
    /\ deps \in [Cards -> SUBSET Cards]
    /\ stamp \in [Cards -> Stamps]
    /\ synth \in [Cards -> BOOLEAN]
    /\ delegator \in [Cards -> BOOLEAN]
    /\ pend \in [Cards -> BOOLEAN]
    /\ rework \in [Cards -> BOOLEAN]
    /\ reworks \in [Cards -> 0..MaxReworks]
    /\ claimed \in [Cards -> BOOLEAN]
    /\ mirror \in [Cards -> BOOLEAN]
    /\ turn \in [Cards -> TurnStates]
    /\ failures \in 0..MaxFailures
    /\ pass \in [Passes -> PassStates]
    /\ run \in {"live", "stopping", "stopped"}
    /\ hold \in [Cards -> BOOLEAN]
    /\ saved \in [Cards -> CardPhase]
    /\ outages \in 0..MaxOutages

Exists(i) == phase[i] # "absent"

-----------------------------------------------------------------------------
(* What the frontier computes from a snapshot of the run.                  *)

Stamped(i) == stamp[i].over # {}

Hard(i, d) == <<i, d>> \notin SoftEdges \cup InfoEdges

Dead == {i \in Cards : phase[i] \in {"FAILED", "CANCELLED"}}

BlockedBy(i, S) ==
    /\ phase[i] \in {"QUEUED", "WAITING_DEPENDENCIES", "READY"}
    /\ ~Stamped(i)
    /\ \E d \in deps[i] \cap S : Hard(i, d) /\ phase[d] # "APPROVED"

(* Cards that can never reach APPROVED on their own: the least set that    *)
(* holds the dead cards and every idle card hard-blocked by one it holds.  *)
Doomed ==
    {i \in Cards :
        \A S \in SUBSET Cards :
            (Dead \subseteq S /\ \A j \in Cards : BlockedBy(j, S) => j \in S)
                => i \in S}

AllApproved(i) == \A d \in deps[i] : phase[d] = "APPROVED"

StuckDeps(i) == (deps[i] \cap Doomed) \ Dead

SettledWithFailures(i) ==
    /\ ~AllApproved(i)
    /\ deps[i] \cap (Dead \cup Doomed) # {}
    /\ \A d \in deps[i] : \/ phase[d] \in DONE_PHASES
                          \/ d \in Doomed
                          \/ <<i, d>> \in InfoEdges

Rollup(i) == i \in RollupCards \/ synth[i]

AwaitsSettlement(i) ==
    \/ phase[i] = "WAITING_FOR_CHILDREN"
    \/ phase[i] = "WAITING_DEPENDENCIES" /\ Rollup(i)

(* Mutant: the roll-up cards are forgotten.                                *)
ParkedCandidate(i) ==
    \/ phase[i] = "WAITING_FOR_CHILDREN"
    \/ phase[i] \in {"READY", "READY_FOR_REWORK", "RUNNING"} /\ Stamped(i)

ReleaseCandidate(i) ==
    \/ AwaitsSettlement(i)
    \/ phase[i] \in {"READY", "READY_FOR_REWORK", "RUNNING"} /\ Stamped(i)

EntersSynthesis(i) ==
    /\ phase[i] = "WAITING_FOR_CHILDREN"
    /\ deps[i] # {}
    /\ ~synth[i]
    /\ i \notin RollupCards \cup IntakeCards
    /\ pend[i] \/ delegator[i]

ReleasePhase(i) == IF rework[i] THEN "READY_FOR_REWORK" ELSE "READY"

Settles(i) == SettledWithFailures(i) /\ ReleaseCandidate(i)

(* The phase a pass wants card i in: wake it when its dependencies are     *)
(* approved or settled, send it (back) to waiting when they are not.       *)
TargetPhase(i) ==
    IF AllApproved(i) \/ Settles(i)
    THEN CASE EntersSynthesis(i)                   -> "READY"
           [] phase[i] = "WAITING_DEPENDENCIES"    -> ReleasePhase(i)
           [] phase[i] = "WAITING_FOR_CHILDREN"
                /\ ~EntersSynthesis(i)             -> "RUNNING"
           [] OTHER                                -> phase[i]
    ELSE CASE phase[i] = "READY"                   -> "WAITING_DEPENDENCIES"
           [] phase[i] = "RUNNING"                 -> "WAITING_FOR_CHILDREN"
           [] OTHER                                -> phase[i]

Decision(i) ==
    LET moves   == TargetPhase(i) # phase[i]
        settles == moves /\ ~AllApproved(i) /\ Settles(i)
    IN  [from   |-> phase[i],
         to     |-> TargetPhase(i),
         synth  |-> moves /\ EntersSynthesis(i),
         stamp  |-> IF settles
                    THEN [over     |-> deps[i] \cap (Dead \cup Doomed),
                          stuck    |-> StuckDeps(i),
                          cascaded |-> FALSE]
                    ELSE NoStamp,
         unpend |-> pend[i] /\ (AllApproved(i) \/ settles)]

HasDecision(i) ==
    Exists(i) /\ deps[i] # {} /\ (TargetPhase(i) # phase[i] \/ Decision(i).unpend)

(* The cascade of an approved triage card: the stuck cards it was released *)
(* over and what hard-depends on them inside the doomed set.               *)
CascadeOwners ==
    {i \in Cards : phase[i] = "APPROVED" /\ Stamped(i) /\ ~stamp[i].cascaded}

Covered(a) ==
    {i \in Cards :
        \A S \in SUBSET Cards :
            (/\ stamp[a].stuck \subseteq S
             /\ \A j \in Doomed : (\E d \in deps[j] \cap S : Hard(j, d)) => j \in S)
                => i \in S}

CascadeCancels(a) == {i \in Covered(a) \cap Doomed : phase[i] \notin DONE_PHASES}

(* Mutant: a dependency that has closed, however, is one to start over.    *)
ClosedDepAllowsClaim(i, d) ==
    \/ d \in stamp[i].over
    \/ <<i, d>> \in InfoEdges
    \/ <<i, d>> \in SoftEdges /\ phase[d] \in DONE_PHASES \cup IN_PROGRESS_PHASES
    \/ phase[d] \in DONE_PHASES

(* The dispatcher's view: what a card may be claimed over.                 *)
DepAllowsClaim(i, d) ==
    \/ d \in stamp[i].over
    \/ <<i, d>> \in InfoEdges
    \/ <<i, d>> \in SoftEdges /\ phase[d] \in DONE_PHASES \cup IN_PROGRESS_PHASES
    \/ phase[d] = "APPROVED"

HasPendingSettlement ==
    \E i \in Cards : deps[i] # {} /\ AwaitsSettlement(i) /\ SettledWithFailures(i)

-----------------------------------------------------------------------------
(* Hooks: a phase write landing in one of DependentRefreshTargets makes    *)
(* its writer await a refresh pass (Notify); a pass's own writes do not,   *)
(* the pass of that run being in flight.                                   *)

StartPass ==
    \E k \in Passes : /\ pass[k].st = "idle"
                      /\ pass' = [pass EXCEPT ![k].st = "due"]

(* An approving reviewer refreshes once more after the hook's pass.        *)
StartPassTwice ==
    \E k \in Passes : /\ pass[k].st = "idle"
                      /\ pass' = [pass EXCEPT ![k].st = "due", ![k].again = TRUE]

Notify(i, to) ==
    IF phase[i] # to /\ to \in DependentRefreshTargets
    THEN StartPass
    ELSE UNCHANGED pass

(* A turn's phase write: an illegal target is dropped without an error.    *)
WriteOrKeep(i, to) ==
    IF Legal(phase[i], to)
    THEN phase' = [phase EXCEPT ![i] = to] /\ Notify(i, to)
    ELSE UNCHANGED <<phase, pass>>

SetTurn(i, t) == turn' = [turn EXCEPT ![i] = t]

-----------------------------------------------------------------------------
Init ==
    /\ phase = [i \in Cards |-> IF i = 1 THEN "READY" ELSE "absent"]
    /\ deps = [i \in Cards |-> {}]
    /\ stamp = [i \in Cards |-> NoStamp]
    /\ synth = [i \in Cards |-> FALSE]
    /\ delegator = [i \in Cards |-> FALSE]
    /\ pend = [i \in Cards |-> FALSE]
    /\ rework = [i \in Cards |-> FALSE]
    /\ reworks = [i \in Cards |-> 0]
    /\ claimed = [i \in Cards |-> FALSE]
    /\ mirror = [i \in Cards |-> FALSE]
    /\ turn = [i \in Cards |-> "none"]
    /\ failures = 0
    /\ pass = [k \in Passes |-> IdlePass]
    /\ run = "live"
    /\ hold = [i \in Cards |-> FALSE]
    /\ saved = [i \in Cards |-> "absent"]
    /\ outages = 0

-----------------------------------------------------------------------------
(* The dispatcher and the turns.                                           *)

(* The durable claim: the dispatcher's runnability check followed by the   *)
(* compare-and-set, which wants the column and its metadata mirror empty.  *)
Claim(i) ==
    /\ run = "live"
    /\ turn[i] = "none"
    /\ phase[i] \in RUNNABLE_PHASES \cup IN_PROGRESS_PHASES
    /\ ~hold[i] /\ ~claimed[i] /\ ~mirror[i]
    /\ \A d \in deps[i] : DepAllowsClaim(i, d)
    /\ phase' = [phase EXCEPT ![i] = "RUNNING"]
    /\ claimed' = [claimed EXCEPT ![i] = TRUE]
    /\ mirror' = [mirror EXCEPT ![i] = TRUE]
    /\ SetTurn(i, "claimed")
    /\ UNCHANGED <<deps, stamp, synth, delegator, pend, rework, reworks,
                   failures, pass, engine>>

TurnStart(i) ==
    /\ turn[i] = "claimed"
    /\ WriteOrKeep(i, "RUNNING")
    /\ SetTurn(i, "working")
    /\ UNCHANGED <<deps, stamp, synth, delegator, pend, rework, reworks,
                   claim, failures, engine>>

Working(i) == turn[i] \in {"working", "dispatched"}

(* The cards of the run are read back in the order they were created in.   *)
NextNew(c, S) ==
    /\ c \in S
    /\ \A j \in Cards : j >= c => ~Exists(j)
    /\ \A j \in S : j < c => Exists(j)

(* delegate_work: the next card of the board, after any of its siblings.   *)
Delegate(m, c, after) ==
    /\ Working(m)
    /\ NextNew(c, Crew[m])
    /\ after \subseteq deps[m]
    /\ phase' = [phase EXCEPT ![c] =
                    IF c \in ManualCards THEN "QUEUED"
                    ELSE IF after # {} THEN "WAITING_DEPENDENCIES"
                    ELSE "READY"]
    /\ deps' = [deps EXCEPT ![c] = after, ![m] = @ \cup {c}]
    /\ delegator' = [delegator EXCEPT ![m] = TRUE]
    /\ SetTurn(m, "dispatched")
    /\ UNCHANGED <<stamp, synth, pend, rework, reworks, claim, failures, pass,
                   engine>>

(* release_manager_work_items, for one card of the manager's board.        *)
ManagerRelease(m, i) ==
    /\ Working(m)
    /\ i \in deps[m]
    /\ phase[i] = "QUEUED"
    /\ phase' = [phase EXCEPT ![i] = "READY"]
    /\ UNCHANGED <<deps, stamp, synth, delegator, pend, rework, reworks, claim,
                   turn, failures, pass, engine>>

(* A timed-out or crashed turn.  The claim of a closed card is kept.       *)
TurnFail(i) ==
    /\ Working(i)
    /\ failures < MaxFailures
    /\ failures' = failures + 1
    /\ WriteOrKeep(i, "FAILED")
    /\ SetTurn(i, "none")
    /\ UNCHANGED <<deps, stamp, synth, delegator, pend, rework, reworks, claim,
                   engine>>

TurnBlocked(i, to) ==
    /\ Working(i)
    /\ WriteOrKeep(i, to)
    /\ SetTurn(i, "none")
    /\ UNCHANGED <<deps, stamp, synth, delegator, pend, rework, reworks, claim,
                   failures, engine>>

(* Mutant: work that is already in review counts as finished.              *)
PendingWork(i) ==
    {d \in deps[i] : phase[d] \notin DONE_PHASES \cup IN_REVIEW_PHASES /\ d \notin Doomed}

(* The agent's turn is over: what it leaves pending is read here, and the  *)
(* park or the completion it leads to is written by a later step.          *)
Pending(i) == {d \in deps[i] : phase[d] \notin DONE_PHASES /\ d \notin Doomed}

DoneState(i) == IF turn[i] = "dispatched" THEN "doneDispatched" ELSE "done"

Outcome(i) ==
    IF deps[i] = {} THEN DoneState(i)
    ELSE IF Pending(i) # {}
         THEN IF synth[i] \/ Stamped(i) THEN "repark" ELSE "park"
         ELSE IF AllApproved(i) \/ Stamped(i) THEN DoneState(i) ELSE "parkSettled"

TurnFinish(i) ==
    /\ Working(i)
    /\ i \notin IntakeCards \/ deps[i] = {}
    /\ SetTurn(i, Outcome(i))
    /\ UNCHANGED <<card, claim, failures, pass, engine>>

(* An intake card that delegated hands over to a delivery card with the    *)
(* same dependencies, then closes.                                         *)
SpawnDelivery(i, c) ==
    /\ Working(i)
    /\ i \in IntakeCards
    /\ deps[i] # {}
    /\ NextNew(c, DeliveryOf[i])
    /\ phase' = [phase EXCEPT ![c] = "WAITING_DEPENDENCIES"]
    /\ deps' = [deps EXCEPT ![c] = deps[i]]
    /\ SetTurn(i, "intake")
    /\ UNCHANGED <<stamp, synth, delegator, pend, rework, reworks, claim,
                   failures, pass, engine>>

CloseIntake(i) ==
    /\ turn[i] = "intake"
    /\ SetTurn(i, "none")
    /\ LET from == IF phase[i] = "WAITING_FOR_CHILDREN" THEN "RUNNING" ELSE phase[i]
       IN  IF Legal(from, "APPROVED")
           THEN /\ phase' = [phase EXCEPT ![i] = "APPROVED"]
                /\ pend' = [pend EXCEPT ![i] = FALSE]
                /\ claimed' = [claimed EXCEPT ![i] = FALSE]
                /\ Notify(i, "APPROVED")
           ELSE /\ phase' = [phase EXCEPT ![i] = from]
                /\ UNCHANGED <<pend, claimed, pass>>
    /\ UNCHANGED <<deps, stamp, synth, delegator, rework, reworks, mirror,
                   failures, engine>>

(* _park_for_delegated_children, its write.                                *)
ParkWrite(i) ==
    /\ turn[i] \in {"park", "repark"}
    /\ SetTurn(i, "none")
    /\ IF Legal(phase[i], "WAITING_FOR_CHILDREN")
       THEN /\ phase' = [phase EXCEPT ![i] = "WAITING_FOR_CHILDREN"]
            /\ pend' = [pend EXCEPT ![i] = TRUE]
            /\ IF turn[i] = "repark"
               THEN /\ synth' = [synth EXCEPT ![i] = FALSE]
                    /\ stamp' = [stamp EXCEPT ![i] = NoStamp]
               ELSE UNCHANGED <<synth, stamp>>
       ELSE UNCHANGED <<phase, pend, synth, stamp>>
    /\ UNCHANGED <<deps, delegator, rework, reworks, claim, failures, pass, engine>>

(* Parking over children that have already settled refreshes at once.      *)
ParkSettledWrite(i) ==
    /\ turn[i] = "parkSettled"
    /\ SetTurn(i, "none")
    /\ IF Legal(phase[i], "WAITING_FOR_CHILDREN")
       THEN /\ phase' = [phase EXCEPT ![i] = "WAITING_FOR_CHILDREN"]
            /\ pend' = [pend EXCEPT ![i] = TRUE]
       ELSE UNCHANGED <<phase, pend>>
    /\ StartPass
    /\ UNCHANGED <<deps, stamp, synth, delegator, rework, reworks, claim,
                   failures, engine>>

DoneTarget(i) ==
    IF i \in HumanCards THEN "AWAITING_HUMAN"
    ELSE IF Rollup(i) \/ i \in TopCards \/ turn[i] = "doneDispatched"
         THEN "APPROVED"
         ELSE "AWAITING_MANAGER_REVIEW"

(* _apply_done_transition.                                                 *)
DoneWrite(i) ==
    /\ turn[i] \in {"done", "doneDispatched"}
    /\ WriteOrKeep(i, DoneTarget(i))
    /\ SetTurn(i, "none")
    /\ UNCHANGED <<deps, stamp, synth, delegator, pend, rework, reworks, claim,
                   failures, engine>>

-----------------------------------------------------------------------------
(* Verdicts on a finished card.                                            *)

(* Mutant: the rework budget is not consulted.                             *)
UnboundedVerdict(i, to) ==
    /\ run # "stopped"
    /\ phase[i] = "AWAITING_MANAGER_REVIEW"
    /\ phase' = [phase EXCEPT ![i] = to]
    /\ rework' = [rework EXCEPT ![i] = (to = "READY_FOR_REWORK")]
    /\ reworks' = [reworks EXCEPT ![i] =
                      IF to = "READY_FOR_REWORK" THEN @ + 1 ELSE @]
    /\ IF to = "APPROVED" THEN StartPassTwice ELSE Notify(i, to)
    /\ UNCHANGED <<deps, stamp, synth, delegator, pend, claim, turn, failures,
                   engine>>

(* _finalize_review_work_item through the store's compare-and-set.  Past   *)
(* the rework cap a rejection approves.                                    *)
ReviewVerdict(i, to) ==
    /\ run # "stopped"
    /\ phase[i] = "AWAITING_MANAGER_REVIEW"
    /\ to = "READY_FOR_REWORK" => reworks[i] < MaxReworks
    /\ phase' = [phase EXCEPT ![i] = to]
    /\ rework' = [rework EXCEPT ![i] = (to = "READY_FOR_REWORK")]
    /\ reworks' = [reworks EXCEPT ![i] =
                      IF to = "READY_FOR_REWORK" THEN @ + 1 ELSE @]
    /\ IF to = "APPROVED" THEN StartPassTwice ELSE Notify(i, to)
    /\ UNCHANGED <<deps, stamp, synth, delegator, pend, claim, turn, failures,
                   engine>>

(* The hidden report and review cards of a card under review close with a  *)
(* refresh of their own.                                                   *)
ReviewCardCloses(i) ==
    /\ run # "stopped"
    /\ phase[i] = "AWAITING_MANAGER_REVIEW"
    /\ StartPass
    /\ UNCHANGED <<card, claim, turn, failures, engine>>

HumanApprove(i) ==
    /\ phase[i] = "AWAITING_HUMAN"
    /\ phase' = [phase EXCEPT ![i] = "APPROVED"]
    /\ Notify(i, "APPROVED")
    /\ UNCHANGED <<deps, stamp, synth, delegator, pend, rework, reworks, claim,
                   turn, failures, engine>>

(* A user follow-up on the delivered result, routed to its final decider.  *)
HumanFollowUp(i) ==
    /\ phase[i] = "AWAITING_HUMAN"
    /\ reworks[i] < MaxReworks
    /\ phase' = [phase EXCEPT ![i] = "READY_FOR_REWORK"]
    /\ reworks' = [reworks EXCEPT ![i] = @ + 1]
    /\ pend' = [pend EXCEPT ![i] = FALSE]
    /\ claimed' = [claimed EXCEPT ![i] = FALSE]
    /\ Notify(i, "READY_FOR_REWORK")
    /\ UNCHANGED <<deps, stamp, synth, delegator, rework, mirror, turn, failures,
                   engine>>

-----------------------------------------------------------------------------
(* A refresh pass: one read of the run, then one write per card from the   *)
(* decisions taken on it, then the cascades.                               *)

BeginPass(k) ==
    /\ pass[k].st = "due"
    /\ pass' = [pass EXCEPT ![k] =
                  [st     |-> "scan",
                   plan   |-> [i \in Cards |->
                                 IF HasDecision(i) THEN Decision(i) ELSE NoDecision],
                   todo   |-> {i \in Cards : HasDecision(i)},
                   owners |-> CascadeOwners,
                   cancel |-> [a \in Cards |->
                                 IF a \in CascadeOwners THEN CascadeCancels(a) ELSE {}],
                   spoilt |-> FALSE,
                   again  |-> pass[k].again]]
    /\ UNCHANGED <<card, claim, turn, failures, engine>>

First(S) == CHOOSE i \in S : \A j \in S : i <= j

(* Mutant: a wake releases the whole claim, mirror included, at once.      *)
WakeReleasesMirror(k) ==
    /\ pass[k].st = "scan"
    /\ pass[k].todo # {}
    /\ LET i == First(pass[k].todo)
           d == pass[k].plan[i]
           wakes == d.from # d.to /\ d.from = "WAITING_FOR_CHILDREN"
       IN  /\ Legal(phase[i], d.to)
           /\ pass' = [pass EXCEPT ![k].todo = @ \ {i}, ![k].plan[i] = NoDecision]
           /\ phase' = [phase EXCEPT ![i] = d.to]
           /\ claimed' = [claimed EXCEPT ![i] = @ /\ ~wakes]
           /\ mirror' = [mirror EXCEPT ![i] = @ /\ ~wakes]
    /\ UNCHANGED <<deps, stamp, synth, delegator, pend, rework, reworks, turn,
                   failures, engine>>

(* Mutant: the transition is validated against the phase the pass read.    *)
ValidatesSnapshot(k) ==
    /\ pass[k].st = "scan"
    /\ pass[k].todo # {}
    /\ LET i == First(pass[k].todo)
           d == pass[k].plan[i]
       IN  /\ Legal(d.from, d.to)
           /\ pass' = [pass EXCEPT ![k].todo = @ \ {i}, ![k].plan[i] = NoDecision]
           /\ phase' = [phase EXCEPT ![i] = IF d.from # d.to THEN d.to ELSE @]
           /\ synth' = [synth EXCEPT ![i] = @ \/ d.synth]
           /\ stamp' = [stamp EXCEPT ![i] = IF d.stamp # NoStamp THEN d.stamp ELSE @]
    /\ UNCHANGED <<deps, delegator, pend, rework, reworks, claim, turn, failures,
                   engine>>

(* One card of the scan.  An illegal write is logged and swallowed.  A     *)
(* card woken out of WAITING_FOR_CHILDREN loses the claim's column.        *)
PassCard(k) ==
    /\ pass[k].st = "scan"
    /\ pass[k].todo # {}
    /\ LET i == First(pass[k].todo)
           d == pass[k].plan[i]
           moves == d.from # d.to
       IN  /\ pass' = [pass EXCEPT ![k].todo = @ \ {i},
                                   ![k].plan[i] = NoDecision]
           /\ IF moves /\ ~Legal(phase[i], d.to)
              THEN UNCHANGED <<phase, synth, stamp, pend, claimed>>
              ELSE /\ phase' = [phase EXCEPT ![i] = IF moves THEN d.to ELSE @]
                   /\ synth' = [synth EXCEPT ![i] = @ \/ d.synth]
                   /\ stamp' = [stamp EXCEPT ![i] =
                                  IF d.stamp # NoStamp THEN d.stamp ELSE @]
                   /\ pend' = [pend EXCEPT ![i] = @ /\ ~d.unpend]
                   /\ claimed' = [claimed EXCEPT ![i] =
                                    @ /\ ~(moves /\ d.from = "WAITING_FOR_CHILDREN")]
    /\ UNCHANGED <<deps, delegator, rework, reworks, mirror, turn, failures, engine>>

EndScan(k) ==
    /\ pass[k].st = "scan"
    /\ pass[k].todo = {}
    /\ pass' = [pass EXCEPT ![k].st = "cascade"]
    /\ UNCHANGED <<card, claim, turn, failures, engine>>

(* One cancellation of the first owner's cascade, in the order of the ids  *)
(* (random), with its claim released; an illegal one is swallowed and      *)
(* spoils the owner's cascade.                                             *)
CascadeCancel(k) ==
    /\ pass[k].st = "cascade"
    /\ pass[k].owners # {}
    /\ LET a == First(pass[k].owners)
       IN  \E i \in pass[k].cancel[a] :
             IF Legal(phase[i], "CANCELLED")
             THEN /\ phase' = [phase EXCEPT ![i] = "CANCELLED"]
                  /\ claimed' = [claimed EXCEPT ![i] = FALSE]
                  /\ pass' = [pass EXCEPT ![k].cancel[a] = @ \ {i}]
             ELSE /\ UNCHANGED <<phase, claimed>>
                  /\ pass' = [pass EXCEPT ![k].cancel[a] = @ \ {i},
                                          ![k].spoilt = TRUE]
    /\ UNCHANGED <<deps, stamp, synth, delegator, pend, rework, reworks, mirror,
                   turn, failures, engine>>

(* cascaded_at is stamped only when every cancellation went through.       *)
CascadeStamp(k) ==
    /\ pass[k].st = "cascade"
    /\ pass[k].owners # {}
    /\ LET a == First(pass[k].owners)
       IN  /\ pass[k].cancel[a] = {}
           /\ stamp' = [stamp EXCEPT ![a].cascaded = @ \/ ~pass[k].spoilt]
           /\ pass' = [pass EXCEPT ![k].owners = @ \ {a}, ![k].spoilt = FALSE]
    /\ UNCHANGED <<phase, deps, synth, delegator, pend, rework, reworks, claim,
                   turn, failures, engine>>

EndPass(k) ==
    /\ pass[k].st = "cascade"
    /\ pass[k].owners = {}
    /\ pass' = [pass EXCEPT ![k] =
                  IF pass[k].again THEN [IdlePass EXCEPT !.st = "due"] ELSE IdlePass]
    /\ UNCHANGED <<card, claim, turn, failures, engine>>

PassStep(k) ==
    \/ BeginPass(k)
    \/ PassCard(k)
    \/ EndScan(k)
    \/ CascadeCancel(k)
    \/ CascadeStamp(k)
    \/ EndPass(k)

-----------------------------------------------------------------------------
(* The dispatcher tick, _refresh_ready_work_items.                         *)

DepSatisfied(i, d) ==
    \/ <<i, d>> \in InfoEdges
    \/ <<i, d>> \in SoftEdges /\ phase[d] \in DONE_PHASES \cup IN_PROGRESS_PHASES
    \/ phase[d] = "APPROVED"

TickRelease(i) ==
    /\ run = "live"
    /\ phase[i] = "WAITING_DEPENDENCIES"
    /\ \A d \in deps[i] : DepSatisfied(i, d)
    /\ Legal(phase[i], ReleasePhase(i))
    /\ phase' = [phase EXCEPT ![i] = ReleasePhase(i)]
    /\ Notify(i, ReleasePhase(i))
    /\ UNCHANGED <<deps, stamp, synth, delegator, pend, rework, reworks, claim,
                   turn, failures, engine>>

TickSettle ==
    /\ run = "live"
    /\ HasPendingSettlement
    /\ StartPass
    /\ UNCHANGED <<card, claim, turn, failures, engine>>

-----------------------------------------------------------------------------
(* Suspending and resuming the run.  The checkpoint's phases are read      *)
(* first, then every open card is held and its claim cleared, and only     *)
(* then are the coroutines cancelled: turns still write in between.        *)

Stop ==
    /\ run = "live"
    /\ outages < MaxOutages
    /\ run' = "stopping"
    /\ saved' = phase
    /\ outages' = outages + 1
    /\ UNCHANGED <<card, claim, turn, failures, pass, hold>>

(* Mutant: the claim is cleared before the hold is written.                *)
ClearBeforeHold(i) ==
    /\ run = "stopping"
    /\ saved[i] # "absent"
    /\ phase[i] \notin DONE_PHASES
    /\ ~hold[i]
    /\ claimed' = [claimed EXCEPT ![i] = FALSE]
    /\ mirror' = [mirror EXCEPT ![i] = FALSE]
    /\ UNCHANGED <<card, turn, failures, pass, run, hold, saved, outages>>

HoldCard(i) ==
    /\ run = "stopping"
    /\ saved[i] # "absent"
    /\ phase[i] \notin DONE_PHASES
    /\ ~hold[i]
    /\ hold' = [hold EXCEPT ![i] = TRUE]
    /\ claimed' = [claimed EXCEPT ![i] = FALSE]
    /\ mirror' = [mirror EXCEPT ![i] = FALSE]
    /\ UNCHANGED <<card, turn, failures, pass, run, saved, outages>>

(* The coroutines are cancelled; a pass dies with the coroutine awaiting it.*)
Halt(alive) ==
    /\ run = "stopping"
    /\ \A i \in Cards : saved[i] # "absent" /\ phase[i] \notin DONE_PHASES => hold[i]
    /\ run' = "stopped"
    /\ turn' = [i \in Cards |-> "none"]
    /\ pass' = [k \in Passes |-> IF k \in alive THEN pass[k] ELSE IdlePass]
    /\ UNCHANGED <<card, claim, failures, hold, saved, outages>>

(* The process dies; the next one sweeps the stale claims and suspends     *)
(* every open card until the user resumes the run.                         *)
Crash ==
    /\ run # "stopped"
    /\ outages < MaxOutages
    /\ run' = "stopped"
    /\ outages' = outages + 1
    /\ turn' = [i \in Cards |-> "none"]
    /\ pass' = [k \in Passes |-> IdlePass]
    /\ saved' = phase
    /\ hold' = [i \in Cards |-> Exists(i) /\ phase[i] \notin DONE_PHASES]
    /\ claimed' = [i \in Cards |-> claimed[i] /\ phase[i] \in DONE_PHASES]
    /\ mirror' = [i \in Cards |-> mirror[i] /\ phase[i] \in DONE_PHASES]
    /\ UNCHANGED <<card, failures>>

ResumePhase(i) ==
    LET original  == saved[i]
        satisfied == \A d \in deps[i] : DepAllowsClaim(i, d)
    IN  IF original \in DONE_PHASES THEN phase[i]
        ELSE IF original \in IN_REVIEW_PHASES \cup {"WAITING_DEPENDENCIES"} THEN original
        ELSE IF satisfied THEN IF original = "QUEUED" THEN "READY" ELSE original
        ELSE IF original = "RUNNING" THEN "WAITING_FOR_CHILDREN"
        ELSE IF original \in TODO_PHASES THEN "WAITING_DEPENDENCIES"
        ELSE original

(* An illegal restoration falls back to clearing the hold.                 *)
ResumeCard(i) ==
    /\ run = "stopped"
    /\ hold[i]
    /\ phase[i] \notin DONE_PHASES
    /\ hold' = [hold EXCEPT ![i] = FALSE]
    /\ claimed' = [claimed EXCEPT ![i] = FALSE]
    /\ mirror' = [mirror EXCEPT ![i] = @ /\ ~Legal(phase[i], ResumePhase(i))]
    /\ WriteOrKeep(i, ResumePhase(i))
    /\ UNCHANGED <<deps, stamp, synth, delegator, pend, rework, reworks, turn,
                   failures, run, saved, outages>>

Restart ==
    /\ run = "stopped"
    /\ \A i \in Cards : hold[i] => phase[i] \in DONE_PHASES
    /\ run' = "live"
    /\ saved' = [i \in Cards |-> "absent"]
    /\ UNCHANGED <<card, claim, turn, failures, pass, hold, outages>>

-----------------------------------------------------------------------------
TurnStep(i) ==
    \/ TurnStart(i)
    \/ TurnFail(i)
    \/ TurnFinish(i)
    \/ \E c \in Cards : SpawnDelivery(i, c)
    \/ CloseIntake(i)
    \/ ParkWrite(i)
    \/ ParkSettledWrite(i)
    \/ DoneWrite(i)
    \/ \E to \in BlockedOutcomes : TurnBlocked(i, to)

ManagerStep(m) ==
    \/ \E c \in Cards : \E after \in SUBSET deps[m] : Delegate(m, c, after)
    \/ \E i \in Cards : ManagerRelease(m, i)

Reviewed(i) == \E to \in {"APPROVED", "READY_FOR_REWORK"} : ReviewVerdict(i, to)

VerdictStep(i) ==
    \/ Reviewed(i)
    \/ ReviewCardCloses(i)
    \/ HumanApprove(i)
    \/ HumanFollowUp(i)

TickStep ==
    \/ TickSettle
    \/ \E i \in Cards : TickRelease(i)

OutageStep ==
    \/ Stop
    \/ \E i \in Cards : HoldCard(i)
    \/ \E alive \in SUBSET Passes : Halt(alive)
    \/ Crash
    \/ \E i \in Cards : ResumeCard(i)
    \/ Restart

Next ==
    \/ \E i \in Cards : Claim(i)
    \/ \E i \in Cards : TurnStep(i)
    \/ \E i \in Cards : ManagerStep(i)
    \/ \E i \in Cards : VerdictStep(i)
    \/ \E k \in Passes : PassStep(k)
    \/ TickStep
    \/ OutageStep

Spec == Init /\ [][Next]_vars

(***************************************************************************)
(* Scheduling.  The event loop runs every ready coroutine, the dispatcher  *)
(* ticks on a timer, turns are bounded by work_item_timeout and a pass is  *)
(* awaited by its writer; people, managers and outages owe nothing.        *)
(***************************************************************************)
Fairness ==
    /\ \A i \in Cards : /\ WF_vars(Claim(i))
                        /\ WF_vars(TurnStep(i))
                        /\ WF_vars(TickRelease(i))
                        /\ WF_vars(Reviewed(i))
    /\ \A k \in Passes : WF_vars(PassStep(k))
    /\ WF_vars(TickSettle)

FairSpec == Spec /\ Fairness

-----------------------------------------------------------------------------
(* Safety.                                                                 *)

(* A running turn keeps the metadata mirror of its claim although passes   *)
(* clear the claim's column under it: the compare-and-set alone keeps a    *)
(* second turn off the card until the card is held for a suspension.       *)
LiveTurnKeepsClaim ==
    \A i \in Cards : turn[i] # "none" /\ ~hold[i] => mirror[i]

(* The cards implement the lease the board promises (TurnLease): the       *)
(* mirror is the lease, a turn is its worker and a held card is frozen.    *)
Lease == INSTANCE TurnLease
            WITH Items  <- Cards,
                 lease  <- {i \in Cards : mirror[i]},
                 worker <- {i \in Cards : turn[i] # "none"},
                 frozen <- {i \in Cards : hold[i]}

TurnsHoldLeases == Lease!Spec

(* An approved or cancelled card is never reopened, although passes and    *)
(* resumes write phases they computed from old snapshots.                  *)
ClosedCardsStayClosed ==
    [][\A i \in Cards :
          phase[i] \in {"APPROVED", "CANCELLED"} => phase'[i] = phase[i]]_vars

(* Every turn that failed has left a card that is still failed: no stale   *)
(* pass has put one back to READY over the retry edge.                     *)
FailuresStand == Cardinality({i \in Cards : phase[i] = "FAILED"}) = failures

(* No card is approved over work it was not told about: at that moment     *)
(* every dependency is closed, doomed or among the failures the card was   *)
(* released over.  Park and completion act on what the turn read before an *)
(* await, and this must survive it.  Passes that take a card out of the    *)
(* doomed set are beyond it: one that reopens a failure under a finished   *)
(* card, one that releases a delegated roll-up card, and, on a board of    *)
(* three levels, one that releases a child that synthesizes.               *)
ApprovesOverSettledWork ==
    [][\A i \in Cards \ IntakeCards :
          FailuresStand /\ RollupCards = {} /\ phase[i] # "APPROVED" /\ phase'[i] = "APPROVED" =>
              \A d \in deps[i] : \/ phase[d] \in DONE_PHASES
                                 \/ d \in Doomed \cup stamp[i].over]_vars

(* Only a pass takes cards out of the doomed set, by its own write of one  *)
(* of them.  A claim, a turn, the tick, a verdict and a resume leave every *)
(* card doomed that is, whatever they decided on and however old it is.    *)
DoomIsKept ==
    [][\/ Doomed \subseteq Doomed'
       \/ \E k \in Passes : PassCard(k) /\ First(pass[k].todo) \in Doomed \ Doomed']_vars

(* A card is claimed only when each hard dependency is approved now or can *)
(* never be: a settlement stamp must not outlive the settlement it records.*)
ClaimsOverSettledWork ==
    [][\A i \in Cards :
          turn[i] = "none" /\ turn'[i] = "claimed" =>
             \A d \in deps[i] : Hard(i, d) =>
                 phase[d] = "APPROVED" \/ d \in Dead \cup Doomed]_vars

(* The settlement cascade, which works from an old snapshot, never cancels *)
(* a card whose turn is running.                                           *)
CascadeSparesLiveTurns ==
    [][\A i \in Cards :
          phase[i] # "CANCELLED" /\ phase'[i] = "CANCELLED" => turn[i] = "none"]_vars

(* A card released over failures is not sent back to wait for them, unless *)
(* its own turn parks again ("would oscillate a released triage card       *)
(* straight back into the deadlock").                                      *)
ReleasedStaysReleased ==
    [][\A i \in Cards :
          /\ Stamped(i) /\ SettledWithFailures(i)
          /\ phase[i] \in {"READY", "READY_FOR_REWORK", "RUNNING"}
          /\ phase'[i] \in {"WAITING_DEPENDENCIES", "WAITING_FOR_CHILDREN"}
          => turn[i] = "repark"]_vars

(* An intake hands over to one delivery card, whatever interrupts it.      *)
OneDeliveryPerIntake ==
    \A i \in IntakeCards : Cardinality({c \in DeliveryOf[i] : Exists(c)}) <= 1

(* Liveness.                                                               *)

(* A card that owns the decision over settled failures is woken: a single  *)
(* failure can never wedge it in a waiting phase.                          *)
SettledFailureWakes ==
    \A i \in Cards : []<>~(AwaitsSettlement(i) /\ SettledWithFailures(i))

(* Once a triage card is approved (for good, then), the stuck work it was  *)
(* released over reaches a terminal phase, so that the run can finalize.   *)
CascadeCompletes ==
    \A i \in Cards :
        []<>(phase[i] = "APPROVED" /\ Stamped(i) =>
                /\ stamp[i].cascaded
                /\ \A d \in stamp[i].stuck : phase[d] \in DONE_PHASES)

(* A parent whose children are all approved does not stay parked.          *)
ApprovedChildrenWakeParent ==
    \A i \in Cards :
        (phase[i] = "WAITING_FOR_CHILDREN" /\ AllApproved(i))
            ~> (phase[i] # "WAITING_FOR_CHILDREN")

(* A parent the frontier woke is picked up again by the dispatcher.        *)
ReleasedParentIsRepicked ==
    \A i \in Cards :
        (phase[i] = "READY" /\ synth[i] /\ ~hold[i]) ~> (phase[i] # "READY")

(* A card its manager has returned is worked on again: "so the rework turn *)
(* starts without waiting for the next gather batch".                      *)
ReturnedIsReworked ==
    \A i \in Cards :
        (phase[i] = "READY_FOR_REWORK" /\ ~hold[i])
            ~> (phase[i] # "READY_FOR_REWORK")
=============================================================================
