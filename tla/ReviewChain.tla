----------------------------- MODULE ReviewChain -----------------------------
(***************************************************************************)
(* How a delivered card is decided: the worker writes a report on a hidden *)
(* card, its manager reviews the report on another hidden card, and the    *)
(* verdict, journalled on the review card, is projected onto the delivered *)
(* card.                                                                   *)
(*                                                                         *)
(* Three kinds of coroutine move the chain: the worker's turn, the tasks   *)
(* of the manager's review turns (a verdict is applied after the seat has  *)
(* been given up), and the dispatcher's tick, which repairs what is        *)
(* missing from the board as it loaded it earlier.  A step is what a       *)
(* coroutine does from one store call to the next.                         *)
(***************************************************************************)
EXTENDS WorkItemPhase, Integers, Sequences, FiniteSetsExt

CONSTANTS
    Tasks,          \* tasks of the manager's seat alive at a time (bound)
    ReworkCap,      \* max_review_reworks
    ParseRetries,   \* MAX_VERDICT_PARSE_RETRIES
    MaxFaults,      \* outages, failed turns, lost writes, withdrawals (bound)
    MaxRaces        \* steps of others between a load and its repair (bound)

ASSUME ChainAssumption ==
    /\ ReworkCap \in Nat /\ ParseRetries \in Nat
    /\ MaxFaults \in Nat /\ MaxRaces \in Nat
    /\ Tasks \cap {"worker", "tick"} = {}

VARIABLES
    board,      \* the delivered card, its reports and its reviews, durable
    at,         \* where each coroutine is, with what it has read
    faults,     \* faults so far
    races       \* races of the repairs so far

vars == <<board, at, faults, races>>

Coroutines == {"worker", "tick"} \cup Tasks

-----------------------------------------------------------------------------
(* The cards.                                                              *)

(* stamp is review_resolution_applied_work_item_id; reports, reviews and   *)
(* retries cache the number of cards and of unparseable verdicts.          *)
Children == [phase : Phase, claimed : BOOLEAN, stamp : Nat, reports : Nat,
             reviews : Nat, retries : 0..ParseRetries, reworks : 0..ReworkCap]

Reports == [phase : Phase, claimed : BOOLEAN,
            outcome : {"none", "applied", "refused"}]

(* A verdict is the target phase and the count of reworks to write with it.*)
NoVerdict == [phase |-> "none", reworks |-> 0]

Verdicts == [phase : {"APPROVED", "READY_FOR_REWORK"}, reworks : 0..ReworkCap]

Reviews == [phase : Phase, claimed : BOOLEAN, source : Nat,
            outcome : {"none", "unparseable", "superseded", "moot", "decided"},
            verdict : Verdicts \cup {NoVerdict},
            state : {"none", "pending", "applied", "stale"}]

Boards == [child : Children, reports : Seq(Reports), reviews : Seq(Reviews)]

NewChild == [phase |-> "READY", claimed |-> FALSE, stamp |-> 0, reports |-> 0,
             reviews |-> 0, retries |-> 0, reworks |-> 0]

EmptyBoard == [child |-> NewChild, reports |-> <<>>, reviews |-> <<>>]

Points == {"idle", "claim", "turn", "accept", "refuse",
           "report", "addReport", "countReport",
           "review", "supersede", "addReview", "countReview",
           "failed", "closeMoot", "retry", "countRetry", "persist",
           "check", "cas", "recheck", "markStale", "markApplied"}

(* card, source and attempt are what a helper works on; for the tick they  *)
(* come from the board as it was loaded.                                   *)
Places == [pc : Points, card : Nat, source : Nat, attempt : Nat,
           verdict : Verdicts \cup {NoVerdict}]

Nowhere == [pc |-> "idle", card |-> 0, source |-> 0, attempt |-> 0,
            verdict |-> NoVerdict]

Last(ks) == Max(ks \cup {0})

(* Mutant: a failed card taken for an open one.                            *)
ActiveUnlessApproved(cards) == {k \in DOMAIN cards : cards[k].phase # "APPROVED"}

Active(cards) == {k \in DOMAIN cards : cards[k].phase \notin DONE_PHASES}

Claimable(card) ==
    card.phase \in RUNNABLE_PHASES \cup IN_PROGRESS_PHASES /\ ~card.claimed

Awaits(b) == b.child.phase = "AWAITING_MANAGER_REVIEW"

(* The latest report that was accepted: what a verdict has to be about.    *)
LatestReport(b) ==
    Last({k \in DOMAIN b.reports : /\ b.reports[k].phase \in DONE_PHASES
                                   /\ b.reports[k].outcome = "applied"})

Linked(b, s) == {k \in DOMAIN b.reviews : b.reviews[k].source = s}

Closed(review, phase, outcome) ==
    [review EXCEPT !.phase = phase, !.outcome = outcome, !.claimed = FALSE]

-----------------------------------------------------------------------------
(* Where a coroutine goes next.                                            *)

Move(p, place) == at' = [at EXCEPT ![p] = place]

Goto(p, pc) == Move(p, [at[p] EXCEPT !.pc = pc])

(* A helper returns to the end of its turn or task, or to the tick's claims*)
Return(p) == Move(p, [Nowhere EXCEPT !.pc = IF p = "tick" THEN "claim" ELSE "idle"])

-----------------------------------------------------------------------------
(* _ensure_report_work_item_for_work_item.  The delivered card is read     *)
(* afresh, with the counter it caches; the tick has listed the cards before*)
(* and has found none active.                                              *)
EnsureReport(p) ==
    /\ at[p].pc = "report"
    /\ LET listed == IF p = "tick" THEN at[p].attempt ELSE Len(board.reports)
           busy   == p # "tick" /\ Active(board.reports) \cup Active(board.reviews) # {}
       IN  IF ~Awaits(board) \/ busy
           THEN Return(p)
           ELSE Move(p, [at[p] EXCEPT !.pc = "addReport",
                                      !.attempt = Max({board.child.reports, listed}) + 1])
    /\ UNCHANGED <<board, faults>>

(* The id of a card is its attempt: a card that is there already is kept.  *)
AddReport(p) ==
    /\ at[p].pc = "addReport"
    /\ LET k == at[p].attempt IN
       IF k > Len(board.reports)
       THEN /\ board' = [board EXCEPT !.reports = Append(@,
                            [phase |-> "READY", claimed |-> FALSE, outcome |-> "none"])]
            /\ Goto(p, "countReport")
       ELSE /\ UNCHANGED board
            /\ IF board.reports[k].phase \in DONE_PHASES THEN Return(p)
                                                        ELSE Goto(p, "countReport")
    /\ UNCHANGED faults

CountReport(p) ==
    /\ at[p].pc = "countReport"
    /\ board' = [board EXCEPT !.child.reports = at[p].attempt]
    /\ Return(p)
    /\ UNCHANGED faults

(* _ensure_review_work_item_for_work_item, for the report at[p].source.    *)
EnsureReview(p) ==
    /\ at[p].pc = "review"
    /\ LET listed == IF p = "tick" THEN at[p].attempt ELSE Len(board.reviews)
           k      == IF p = "tick" THEN at[p].card ELSE Last(Active(board.reviews))
           busy   == p # "tick" /\ Active(board.reports) # {}
       IN  IF ~Awaits(board) \/ busy \/ (k # 0 /\ board.reviews[k].source = at[p].source)
           THEN Return(p)
           ELSE Move(p, [at[p] EXCEPT !.pc = IF k = 0 THEN "addReview" ELSE "supersede",
                                      !.card = k,
                                      !.attempt = Max({board.child.reviews, listed}) + 1])
    /\ UNCHANGED <<board, faults>>

(* The review of an older report is closed, unless it has been meanwhile.  *)
Supersede(p) ==
    /\ at[p].pc = "supersede"
    /\ LET k == at[p].card IN
       IF Legal(board.reviews[k].phase, "CANCELLED")
       THEN /\ board' = [board EXCEPT !.reviews[k] = Closed(@, "CANCELLED", "superseded")]
            /\ Goto(p, "addReview")
       ELSE /\ board' = [board EXCEPT !.reviews[k].claimed = FALSE]
            /\ Return(p)
    /\ UNCHANGED faults

AddReview(p) ==
    /\ at[p].pc = "addReview"
    /\ LET k == at[p].attempt IN
       IF k > Len(board.reviews)
       THEN /\ board' = [board EXCEPT !.reviews = Append(@,
                            [phase |-> "READY", claimed |-> FALSE, source |-> at[p].source,
                             outcome |-> "none", verdict |-> NoVerdict, state |-> "none"])]
            /\ Goto(p, "countReview")
       ELSE /\ UNCHANGED board
            /\ IF board.reviews[k].phase \in DONE_PHASES THEN Return(p)
                                                        ELSE Goto(p, "countReview")
    /\ UNCHANGED faults

CountReview(p) ==
    /\ at[p].pc = "countReview"
    /\ board' = [board EXCEPT !.child.reviews = at[p].attempt]
    /\ Return(p)
    /\ UNCHANGED faults

-----------------------------------------------------------------------------
(* _apply_review_resolution, of the review at[p].card.                     *)

(* Mutant: the phase alone.                                                *)
StaleByPhase(k) == ~Awaits(board)

(* The delivered card has moved on, or a newer report has been accepted.   *)
Stale(k) == ~Awaits(board) \/ board.reviews[k].source # LatestReport(board)

Check(p) ==
    /\ at[p].pc = "check"
    /\ IF Stale(at[p].card) THEN Goto(p, "markStale")
       ELSE IF board.child.stamp = at[p].card THEN Return(p)
       ELSE Goto(p, "cas")
    /\ UNCHANGED <<board, faults>>

(* Mutant: without the stamp.                                              *)
ProjectedUnstamped(k) ==
    [board.child EXCEPT !.phase   = board.reviews[k].verdict.phase,
                        !.reworks = board.reviews[k].verdict.reworks]

(* The delivered card with a verdict projected onto it, if the phase and   *)
(* the report are still those the verdict is about.                        *)
Projected(k) ==
    [board.child EXCEPT !.phase   = board.reviews[k].verdict.phase,
                        !.reworks = board.reviews[k].verdict.reworks,
                        !.stamp   = k]

Cas(p) ==
    /\ at[p].pc = "cas"
    /\ IF Stale(at[p].card)
       THEN Goto(p, "recheck") /\ UNCHANGED board
       ELSE /\ board' = [board EXCEPT !.child = Projected(at[p].card)]
            /\ Goto(p, "markApplied")
    /\ UNCHANGED faults

(* Three compare-and-sets in a row lose to other writes of the card.       *)
CasLost(p) ==
    /\ at[p].pc = "cas"
    /\ faults < MaxFaults
    /\ faults' = faults + 1
    /\ Goto(p, "recheck")
    /\ UNCHANGED board

Recheck(p) ==
    /\ at[p].pc = "recheck"
    /\ IF Stale(at[p].card) THEN Goto(p, "markStale") ELSE Return(p)
    /\ UNCHANGED <<board, faults>>

MarkStale(p) ==
    /\ at[p].pc = "markStale"
    /\ board' = [board EXCEPT !.reviews[at[p].card].state = "stale",
                              !.reviews[at[p].card].outcome = "moot"]
    /\ Return(p)
    /\ UNCHANGED faults

MarkApplied(p) ==
    /\ at[p].pc = "markApplied"
    /\ board' = [board EXCEPT !.reviews[at[p].card].state = "applied"]
    /\ Return(p)
    /\ UNCHANGED faults

-----------------------------------------------------------------------------
(* The worker's seat: turns of the card and of its reports.                *)

(* _apply_done_transition.                                                 *)
Deliver ==
    /\ at["worker"].pc = "turn" /\ at["worker"].card = 0
    /\ board' = [board EXCEPT !.child.phase = "AWAITING_MANAGER_REVIEW"]
    /\ Goto("worker", "report")
    /\ UNCHANGED faults

(* _apply_report_done_transition: the delivered card is read, the report   *)
(* is closed with its text, and the review is asked for.                   *)
ReportEnds ==
    /\ at["worker"].pc = "turn" /\ at["worker"].card # 0
    /\ Goto("worker", IF Awaits(board) THEN "accept" ELSE "refuse")
    /\ UNCHANGED <<board, faults>>

ReportFails ==
    /\ at["worker"].pc = "turn" /\ at["worker"].card # 0
    /\ faults < MaxFaults
    /\ faults' = faults + 1
    /\ board' = [board EXCEPT !.reports[at["worker"].card].phase = "FAILED"]
    /\ Return("worker")

AcceptReport ==
    /\ at["worker"].pc = "accept"
    /\ LET k == at["worker"].card IN
       /\ board' = [board EXCEPT !.reports[k].phase = "APPROVED",
                                 !.reports[k].outcome = "applied",
                                 !.reports[k].claimed = FALSE]
       /\ Move("worker", [Nowhere EXCEPT !.pc = "review", !.source = k])
    /\ UNCHANGED faults

RefuseReport ==
    /\ at["worker"].pc = "refuse"
    /\ LET k == at["worker"].card IN
       board' = [board EXCEPT !.reports[k].phase = "APPROVED",
                              !.reports[k].outcome = "refused",
                              !.reports[k].claimed = FALSE]
    /\ Return("worker")
    /\ UNCHANGED faults

-----------------------------------------------------------------------------
(* The manager's seat: review turns, and their verdicts.                   *)

(* _durable_review_parse_retry_count: of the card, whatever the delivery.  *)
Unparseable ==
    Max({board.child.retries,
         Cardinality({k \in DOMAIN board.reviews :
                         board.reviews[k].outcome = "unparseable"})})

Approval(reworks) == [phase |-> "APPROVED", reworks |-> reworks]

(* Mutant: without the cap.                                                *)
RulingUncapped(answer) ==
    IF answer # "reject" THEN Approval(0)
    ELSE [phase |-> "READY_FOR_REWORK", reworks |-> board.child.reworks + 1]

(* Past the cap a rejection approves; so does a reviewer nobody can parse. *)
(* An approval starts the count of reworks anew.                           *)
Ruling(answer) ==
    LET reworks == board.child.reworks IN
    IF answer = "approve" THEN Approval(0)
    ELSE IF answer = "unclear" \/ reworks >= ReworkCap THEN Approval(reworks)
    ELSE [phase |-> "READY_FOR_REWORK", reworks |-> reworks + 1]

(* _finalize_review_work_item: the delivered card is read, and it is       *)
(* decided what to write.                                                  *)
Finalize(t, answer) ==
    LET place == [Nowhere EXCEPT !.card = at[t].card] IN
    Move(t, IF ~Awaits(board) THEN [place EXCEPT !.pc = "closeMoot"]
            ELSE IF answer = "unclear" /\ Unparseable < ParseRetries
            THEN [place EXCEPT !.pc = "retry", !.attempt = Unparseable + 1]
            ELSE [place EXCEPT !.pc = "persist", !.verdict = Ruling(answer)])

(* complete_claim has freed the seat when the answer is finalized.         *)
ReviewEnds(t) ==
    /\ at[t].pc = "turn"
    /\ \E answer \in {"approve", "reject", "unclear"} : Finalize(t, answer)
    /\ UNCHANGED <<board, faults>>

(* A turn that raised fails its card, then is finalized without an answer. *)
ReviewFails(t) ==
    /\ at[t].pc = "turn"
    /\ faults < MaxFaults
    /\ faults' = faults + 1
    /\ board' = IF Legal(board.reviews[at[t].card].phase, "FAILED")
                THEN [board EXCEPT !.reviews[at[t].card].phase = "FAILED"]
                ELSE board
    /\ Goto(t, "failed")

FinalizeFailed(t) ==
    /\ at[t].pc = "failed"
    /\ Finalize(t, "unclear")
    /\ UNCHANGED <<board, faults>>

(* Mutant: over a card that was closed meanwhile.                          *)
PersistAnyway(t, phase, review, next) ==
    board' = [board EXCEPT !.reviews[at[t].card] = review] /\ next

(* _persist_terminal_review_card: the card is closed, or its claim dropped *)
(* when the write is refused.                                              *)
Persist(t, phase, review, next) ==
    LET k == at[t].card IN
    IF Legal(board.reviews[k].phase, phase)
    THEN board' = [board EXCEPT !.reviews[k] = review] /\ next
    ELSE board' = [board EXCEPT !.reviews[k].claimed = FALSE] /\ Return(t)

CloseMoot(t) ==
    /\ at[t].pc = "closeMoot"
    /\ Persist(t, "APPROVED", Closed(board.reviews[at[t].card], "APPROVED", "moot"), Return(t))
    /\ UNCHANGED faults

(* _retry_verdict_parse_failed.                                            *)
Retry(t) ==
    /\ at[t].pc = "retry"
    /\ Persist(t, "CANCELLED",
               Closed(board.reviews[at[t].card], "CANCELLED", "unparseable"),
               Goto(t, "countRetry"))
    /\ UNCHANGED faults

CountRetry(t) ==
    /\ at[t].pc = "countRetry"
    /\ board' = [board EXCEPT !.child.retries = at[t].attempt]
    /\ Move(t, [Nowhere EXCEPT !.pc = "review",
                               !.source = board.reviews[at[t].card].source])
    /\ UNCHANGED faults

(* Mutant: the verdict is noted, and the card is left open.                *)
PersistVerdictOpen(t) ==
    /\ at[t].pc = "persist"
    /\ board' = [board EXCEPT !.reviews[at[t].card].verdict = at[t].verdict,
                              !.reviews[at[t].card].state = "pending"]
    /\ Move(t, [at[t] EXCEPT !.pc = "check", !.verdict = NoVerdict])
    /\ UNCHANGED faults

(* The verdict is journalled before it is projected.                       *)
PersistVerdict(t) ==
    /\ at[t].pc = "persist"
    /\ Persist(t, "APPROVED",
               [Closed(board.reviews[at[t].card], "APPROVED", "decided")
                   EXCEPT !.verdict = at[t].verdict, !.state = "pending"],
               Move(t, [at[t] EXCEPT !.pc = "check", !.verdict = NoVerdict]))
    /\ UNCHANGED faults

-----------------------------------------------------------------------------
(* The dispatcher's tick.                                                  *)

(* A review whose journalled verdict has not reached the delivered card.   *)
Unprojected(r) ==
    /\ r # 0
    /\ board.reviews[r].verdict # NoVerdict
    /\ board.reviews[r].state # "stale"
    /\ board.child.stamp # r

(* _reconcile_missing_review_chain: the board is loaded, and what is done  *)
(* about it in the steps that follow is decided on what was loaded.        *)
Reconcile ==
    LET s     == LatestReport(board)
        r     == IF s = 0 THEN 0 ELSE Last(Linked(board, s))
        a     == Last(Active(board.reviews))
        leave == [Nowhere EXCEPT !.pc = "claim"]
    IN
    /\ at["tick"].pc = "idle"
    /\ Move("tick",
         IF ~Awaits(board) \/ Active(board.reports) # {} THEN leave
         ELSE IF Unprojected(r)
              THEN [Nowhere EXCEPT !.pc = "check", !.card = r]
         ELSE IF a # 0 /\ (s = 0 \/ board.reviews[a].source = s) THEN leave
         ELSE IF s # 0 /\ (r = 0 \/ board.reviews[r].outcome = "unparseable")
              THEN [Nowhere EXCEPT !.pc = "review", !.source = s, !.card = a,
                                   !.attempt = Len(board.reviews)]
         ELSE IF a # 0 THEN leave
         ELSE [Nowhere EXCEPT !.pc = "report", !.attempt = Len(board.reports)])
    /\ UNCHANGED <<board, faults>>

(* A free seat takes a card that can be claimed: the worker's its card or  *)
(* a report of it, the manager's a review.                                 *)
ClaimCard ==
    /\ Claimable(board.child)
    /\ board' = [board EXCEPT !.child.phase = "RUNNING", !.child.claimed = TRUE]
    /\ Move("worker", [Nowhere EXCEPT !.pc = "turn"])

ClaimReport(k) ==
    /\ Claimable(board.reports[k])
    /\ board' = [board EXCEPT !.reports[k].phase = "RUNNING", !.reports[k].claimed = TRUE]
    /\ Move("worker", [Nowhere EXCEPT !.pc = "turn", !.card = k])

ClaimReview(k, t) ==
    /\ Claimable(board.reviews[k])
    /\ board' = [board EXCEPT !.reviews[k].phase = "RUNNING", !.reviews[k].claimed = TRUE]
    /\ Move(t, [Nowhere EXCEPT !.pc = "turn", !.card = k])

ClaimForWorker ==
    /\ at["tick"].pc = "claim" /\ at["worker"].pc = "idle"
    /\ ClaimCard \/ \E k \in DOMAIN board.reports : ClaimReport(k)
    /\ UNCHANGED faults

ClaimForManager ==
    /\ at["tick"].pc = "claim" /\ \A t \in Tasks : at[t].pc # "turn"
    /\ \E k \in DOMAIN board.reviews, t \in Tasks :
          at[t].pc = "idle" /\ ClaimReview(k, t)
    /\ UNCHANGED faults

TickEnds ==
    /\ at["tick"].pc = "claim"
    /\ at["worker"].pc = "idle" =>
          /\ ~Claimable(board.child)
          /\ \A k \in DOMAIN board.reports : ~Claimable(board.reports[k])
    /\ \/ \E t \in Tasks : at[t].pc = "turn"
       \/ \A t \in Tasks : at[t].pc # "idle"
       \/ \A k \in DOMAIN board.reviews : ~Claimable(board.reviews[k])
    /\ Move("tick", Nowhere)
    /\ UNCHANGED <<board, faults>>

-----------------------------------------------------------------------------
(* What happens to the chain from outside.                                 *)

(* A crash, or a Stop and its Continue: the coroutines are gone, and the   *)
(* claims of open cards are cleared before anything runs again.            *)
Outage ==
    /\ faults < MaxFaults
    /\ faults' = faults + 1
    /\ at' = [p \in Coroutines |-> Nowhere]
    /\ board' = [child   |-> [board.child EXCEPT !.claimed = FALSE],
                 reports |-> [k \in DOMAIN board.reports |->
                                 [board.reports[k] EXCEPT !.claimed = FALSE]],
                 reviews |-> [k \in DOMAIN board.reviews |->
                                 [board.reviews[k] EXCEPT !.claimed = FALSE]]]

(* The manager, or a cascade, cancels the delivered card.                  *)
Withdraw ==
    /\ Awaits(board)
    /\ faults < MaxFaults
    /\ faults' = faults + 1
    /\ board' = [board EXCEPT !.child.phase = "CANCELLED"]
    /\ UNCHANGED at

-----------------------------------------------------------------------------
Init ==
    /\ board = EmptyBoard
    /\ at = [p \in Coroutines |-> Nowhere]
    /\ faults = 0
    /\ races = 0

Helpers(p) ==
    \/ EnsureReport(p) \/ AddReport(p) \/ CountReport(p)
    \/ EnsureReview(p) \/ Supersede(p) \/ AddReview(p) \/ CountReview(p)
    \/ Check(p) \/ Cas(p) \/ CasLost(p) \/ Recheck(p) \/ MarkStale(p) \/ MarkApplied(p)

(* While the tick repairs what it has loaded, others go on: a race.        *)
Race ==
    IF at["tick"].pc \in {"idle", "claim"}
    THEN UNCHANGED races
    ELSE races < MaxRaces /\ races' = races + 1

WorkerStep ==
    /\ \/ Deliver \/ ReportEnds \/ ReportFails
       \/ AcceptReport \/ RefuseReport \/ Helpers("worker")
    /\ Race

TaskStep(t) ==
    /\ \/ ReviewEnds(t) \/ ReviewFails(t) \/ FinalizeFailed(t) \/ CloseMoot(t)
       \/ Retry(t) \/ CountRetry(t) \/ PersistVerdict(t) \/ Helpers(t)
    /\ Race

TickStep ==
    /\ Reconcile \/ ClaimForWorker \/ ClaimForManager \/ TickEnds \/ Helpers("tick")
    /\ UNCHANGED races

Next ==
    \/ WorkerStep
    \/ \E t \in Tasks : TaskStep(t)
    \/ TickStep
    \/ (Outage \/ Withdraw) /\ UNCHANGED races

Spec == Init /\ [][Next]_vars

(* The event loop runs every coroutine that can go on, and a turn ends: it *)
(* answers, fails or is timed out.                                         *)
Fairness == WF_vars(WorkerStep) /\ WF_vars(TickStep) /\ \A t \in Tasks : WF_vars(TaskStep(t))

FairSpec == Spec /\ Fairness

-----------------------------------------------------------------------------
TypeOK ==
    /\ board \in Boards
    /\ at \in [Coroutines -> Places]
    /\ faults \in 0..MaxFaults /\ races \in 0..MaxRaces

(* A verdict that has reached the delivered card is journalled on a closed *)
(* review card, so it outlives a crash right after it.                     *)
VerdictsAreJournalled ==
    LET k == board.child.stamp IN
    k # 0 => /\ k \in DOMAIN board.reviews
             /\ board.reviews[k].phase = "APPROVED"
             /\ board.reviews[k].verdict # NoVerdict

(* A hidden card that was closed is history: it is not reopened, and its   *)
(* verdict is not rewritten.                                               *)
HistoryIsKept ==
    [][/\ \A k \in DOMAIN board.reports :
             board.reports[k].phase \in DONE_PHASES
                => board'.reports[k].phase = board.reports[k].phase
       /\ \A k \in DOMAIN board.reviews :
             board.reviews[k].phase \in DONE_PHASES
                => /\ board'.reviews[k].phase = board.reviews[k].phase
                   /\ board'.reviews[k].verdict = board.reviews[k].verdict]_vars

(* Coroutine p projects the verdict of a review onto the delivered card.   *)
Decides(p) ==
    at[p].pc = "cas" /\ at'[p] # at[p] /\ board'.child.phase # board.child.phase

(* A verdict is projected only while its report is the one accepted last.  *)
VerdictsUseLatestReport ==
    [][\A p \in Coroutines :
          Decides(p) => board.reviews[at[p].card].source = LatestReport(board)]_vars

(* The replay of a journalled verdict by the tick, after a crash or a lost *)
(* compare-and-set, never decides a delivery with the verdict that decided *)
(* the last one, nor with one that was consumed before, unless the verdict *)
(* that decided the last delivery is its twin: of the same report, which   *)
(* was reviewed twice.                                                     *)
ReplaysAreSafe ==
    [][LET r == at["tick"].card
           k == board.child.stamp
       IN  Decides("tick") =>
             /\ k # r
             /\ board.reviews[r].state = "applied"
                  => k # 0 /\ board.reviews[k].source = board.reviews[r].source]_vars

(* Every delivery is decided, whatever is lost on the way.                 *)
DeliveriesAreDecided == Awaits(board) ~> ~Awaits(board)

(* "Converge every passive review parent to one report/review chain."      *)
(* Does not hold.                                                          *)
OneChain ==
    /\ Cardinality(Active(board.reports)) <= 1
    /\ Cardinality(Active(board.reviews)) <= 1
=============================================================================
