----------------------- MODULE DependencyFrontierProofs -----------------------
(***************************************************************************)
(* What holds of the dependency frontier for every board, every number of  *)
(* concurrent passes and every bound.                                      *)
(***************************************************************************)
EXTENDS DependencyFrontier, FiniteSetTheorems, TLAPS

-----------------------------------------------------------------------------
(* The transition table.                                                   *)

(* Every edge of the table leads to a phase of the lifecycle.              *)
LEMMA TableStaysInPhase ==
    ASSUME NEW p \in Phase
    PROVE  ALLOWED_TRANSITIONS(p) \subseteq Phase
  BY DEF ALLOWED_TRANSITIONS, OwnEdges, Phase, IN_REVIEW_PHASES, IN_PROGRESS_PHASES,
         DONE_PHASES, UNIVERSAL_EXITS, RECOVERY_EXITS

(* APPROVED and CANCELLED have no edge at all: a legal write keeps them.   *)
LEMMA ClosedIsFinal ==
    ASSUME NEW p \in {"APPROVED", "CANCELLED"}, NEW q, Legal(p, q)
    PROVE  q = p
  BY DEF Legal, ALLOWED_TRANSITIONS, OwnEdges, DONE_PHASES, IN_PROGRESS_PHASES,
         IN_REVIEW_PHASES

(* The only way out of a terminal phase is the retry of a failed card.     *)
LEMMA OnlyRetryReopens ==
    ASSUME NEW p \in DONE_PHASES, NEW q, Legal(p, q), q # p
    PROVE  p = "FAILED" /\ q = "READY"
  BY DEF Legal, ALLOWED_TRANSITIONS, OwnEdges, DONE_PHASES, IN_PROGRESS_PHASES,
         IN_REVIEW_PHASES

-----------------------------------------------------------------------------
(* Type correctness.                                                       *)

LEMMA NoStampType == NoStamp \in Stamps
  BY DEF NoStamp, Stamps

(* What a pass decides from a snapshot is a well-formed decision.          *)
LEMMA DecisionType ==
    ASSUME TypeOK, NEW i \in Cards
    PROVE  Decision(i) \in Decisions
  <1>1. TargetPhase(i) \in CardPhase
    BY DEF TypeOK, TargetPhase, ReleasePhase, CardPhase, Phase
  <1>2. phase[i] \in CardPhase
    BY DEF TypeOK
  <1>3. [over |-> deps[i] \cap (Dead \cup Doomed), stuck |-> StuckDeps(i),
         cascaded |-> FALSE] \in Stamps
    BY DEF TypeOK, Stamps, StuckDeps
  <1> QED
    BY <1>1, <1>2, <1>3, NoStampType DEF Decision, Decisions

LEMMA IdlePassType == IdlePass \in PassStates
  BY DEF IdlePass, PassStates, NoDecision, Decisions, CardPhase, NoStamp, Stamps

(* Starting a pass, directly or through a hook, keeps the passes typed.    *)
LEMMA StartPassType ==
    ASSUME TypeOK, StartPass
    PROVE  pass' \in [Passes -> PassStates]
  <1>1. PICK k \in Passes : pass' = [pass EXCEPT ![k].st = "due"]
    BY DEF StartPass
  <1>2. pass[k] \in PassStates
    BY DEF TypeOK
  <1>3. [pass[k] EXCEPT !.st = "due"] \in PassStates
    BY <1>2 DEF PassStates
  <1> QED
    BY <1>1, <1>3 DEF TypeOK

LEMMA StartPassTwiceType ==
    ASSUME TypeOK, StartPassTwice
    PROVE  pass' \in [Passes -> PassStates]
  <1>1. PICK k \in Passes : pass' = [pass EXCEPT ![k].st = "due", ![k].again = TRUE]
    BY DEF StartPassTwice
  <1>2. pass[k] \in PassStates
    BY DEF TypeOK
  <1>3. [pass[k] EXCEPT !.st = "due", !.again = TRUE] \in PassStates
    BY <1>2 DEF PassStates
  <1> QED
    BY <1>1, <1>3 DEF TypeOK

LEMMA NotifyType ==
    ASSUME TypeOK, NEW i, NEW to, Notify(i, to)
    PROVE  pass' \in [Passes -> PassStates]
  BY StartPassType DEF Notify, TypeOK

LEMMA WriteOrKeepType ==
    ASSUME TypeOK, NEW i \in Cards, NEW to \in Phase, WriteOrKeep(i, to)
    PROVE  /\ phase' \in [Cards -> CardPhase]
           /\ pass' \in [Passes -> PassStates]
  BY NotifyType DEF WriteOrKeep, TypeOK, CardPhase

LEMMA InitType == Init => TypeOK
  BY BoardAssumption, EngineAssumption, IdlePassType
     DEF Init, TypeOK, CardPhase, Phase, Stamps, NoStamp, TurnStates

LEMMA ClaimType == ASSUME TypeOK, NEW i \in Cards, Claim(i) PROVE TypeOK'
  BY DEF TypeOK, Claim, SetTurn, TurnStates, CardPhase, Phase, engine

LEMMA TurnStepType == ASSUME TypeOK, NEW i \in Cards, TurnStep(i) PROVE TypeOK'
  <1>1. CASE TurnStart(i)
    <2>1. "RUNNING" \in Phase  BY DEF Phase
    <2>2. phase' \in [Cards -> CardPhase] /\ pass' \in [Passes -> PassStates]
      BY <1>1, <2>1, WriteOrKeepType DEF TurnStart
    <2> QED
      BY <1>1, <2>2 DEF TypeOK, TurnStart, SetTurn, TurnStates, claim, engine
  <1>2. CASE TurnFail(i)
    <2>1. "FAILED" \in Phase  BY DEF Phase
    <2>2. phase' \in [Cards -> CardPhase] /\ pass' \in [Passes -> PassStates]
      BY <1>2, <2>1, WriteOrKeepType DEF TurnFail
    <2>3. failures' \in 0..MaxFailures
      BY <1>2, EngineAssumption DEF TypeOK, TurnFail
    <2> QED
      BY <1>2, <2>2, <2>3 DEF TypeOK, TurnFail, SetTurn, TurnStates, claim, engine
  <1>3. CASE TurnFinish(i)
    <2>1. Outcome(i) \in TurnStates
      BY DEF Outcome, DoneState, TurnStates
    <2> QED
      BY <1>3, <2>1 DEF TypeOK, TurnFinish, SetTurn, card, claim, engine
  <1>4. CASE \E c \in Cards : SpawnDelivery(i, c)
    BY <1>4 DEF TypeOK, SpawnDelivery, SetTurn, TurnStates, CardPhase, Phase, claim, engine
  <1>5. CASE CloseIntake(i)
    <2>1. pass' \in [Passes -> PassStates]
      BY <1>5, NotifyType DEF CloseIntake, TypeOK
    <2>2. phase' \in [Cards -> CardPhase]
      BY <1>5 DEF CloseIntake, TypeOK, CardPhase, Phase
    <2>3. pend' \in [Cards -> BOOLEAN] /\ claimed' \in [Cards -> BOOLEAN]
      BY <1>5 DEF CloseIntake, TypeOK
    <2> QED
      BY <1>5, <2>1, <2>2, <2>3 DEF TypeOK, CloseIntake, SetTurn, TurnStates, engine
  <1>6. CASE ParkWrite(i)
    <2>1. phase' \in [Cards -> CardPhase] /\ pend' \in [Cards -> BOOLEAN]
      BY <1>6 DEF ParkWrite, TypeOK, CardPhase, Phase
    <2>2. synth' \in [Cards -> BOOLEAN] /\ stamp' \in [Cards -> Stamps]
      BY <1>6, NoStampType DEF ParkWrite, TypeOK
    <2> QED
      BY <1>6, <2>1, <2>2 DEF TypeOK, ParkWrite, SetTurn, TurnStates, claim, engine
  <1>7. CASE ParkSettledWrite(i)
    <2>1. pass' \in [Passes -> PassStates]
      BY <1>7, StartPassType DEF ParkSettledWrite
    <2>2. phase' \in [Cards -> CardPhase] /\ pend' \in [Cards -> BOOLEAN]
      BY <1>7 DEF ParkSettledWrite, TypeOK, CardPhase, Phase
    <2> QED
      BY <1>7, <2>1, <2>2 DEF TypeOK, ParkSettledWrite, SetTurn, TurnStates, claim, engine
  <1>8. CASE DoneWrite(i)
    <2>1. DoneTarget(i) \in Phase  BY DEF DoneTarget, Phase
    <2>2. phase' \in [Cards -> CardPhase] /\ pass' \in [Passes -> PassStates]
      BY <1>8, <2>1, WriteOrKeepType DEF DoneWrite
    <2> QED
      BY <1>8, <2>2 DEF TypeOK, DoneWrite, SetTurn, TurnStates, claim, engine
  <1>9. CASE \E to \in BlockedOutcomes : TurnBlocked(i, to)
    <2>1. PICK to \in BlockedOutcomes : TurnBlocked(i, to)
      BY <1>9
    <2>2. to \in Phase
      BY EngineAssumption DEF Phase
    <2>3. phase' \in [Cards -> CardPhase] /\ pass' \in [Passes -> PassStates]
      BY <2>1, <2>2, WriteOrKeepType DEF TurnBlocked
    <2> QED
      BY <2>1, <2>3 DEF TypeOK, TurnBlocked, SetTurn, TurnStates, claim, engine
  <1> QED
    BY <1>1, <1>2, <1>3, <1>4, <1>5, <1>6, <1>7, <1>8, <1>9 DEF TurnStep

LEMMA ManagerStepType == ASSUME TypeOK, NEW m \in Cards, ManagerStep(m) PROVE TypeOK'
  <1>1. ASSUME NEW c \in Cards, NEW after \in SUBSET deps[m], Delegate(m, c, after)
        PROVE  TypeOK'
    <2>1. after \subseteq Cards  BY DEF TypeOK
    <2>2. phase' \in [Cards -> CardPhase]
      BY <1>1 DEF TypeOK, Delegate, CardPhase, Phase
    <2>3. deps' \in [Cards -> SUBSET Cards]
      BY <1>1, <2>1 DEF TypeOK, Delegate
    <2> QED
      BY <1>1, <2>2, <2>3 DEF TypeOK, Delegate, SetTurn, TurnStates, claim, engine
  <1>2. ASSUME NEW i \in Cards, ManagerRelease(m, i)
        PROVE  TypeOK'
    BY <1>2 DEF TypeOK, ManagerRelease, CardPhase, Phase, claim, engine
  <1> QED
    BY <1>1, <1>2 DEF ManagerStep

LEMMA VerdictStepType == ASSUME TypeOK, NEW i \in Cards, VerdictStep(i) PROVE TypeOK'
  <1>1. ASSUME NEW to \in {"APPROVED", "READY_FOR_REWORK"}, ReviewVerdict(i, to)
        PROVE  TypeOK'
    <2>1. pass' \in [Passes -> PassStates]
      BY <1>1, NotifyType, StartPassTwiceType DEF ReviewVerdict
    <2>2. reworks' \in [Cards -> 0..MaxReworks]
      BY <1>1, EngineAssumption DEF TypeOK, ReviewVerdict
    <2>3. phase' \in [Cards -> CardPhase] /\ rework' \in [Cards -> BOOLEAN]
      BY <1>1 DEF TypeOK, ReviewVerdict, CardPhase, Phase
    <2> QED
      BY <1>1, <2>1, <2>2, <2>3 DEF TypeOK, ReviewVerdict, claim, engine
  <1>2. CASE HumanApprove(i)
    <2>1. pass' \in [Passes -> PassStates]
      BY <1>2, NotifyType DEF HumanApprove
    <2> QED
      BY <1>2, <2>1 DEF TypeOK, HumanApprove, CardPhase, Phase, claim, engine
  <1>3. CASE HumanFollowUp(i)
    <2>1. pass' \in [Passes -> PassStates]
      BY <1>3, NotifyType DEF HumanFollowUp
    <2>2. reworks' \in [Cards -> 0..MaxReworks]
      BY <1>3, EngineAssumption DEF TypeOK, HumanFollowUp
    <2> QED
      BY <1>3, <2>1, <2>2 DEF TypeOK, HumanFollowUp, CardPhase, Phase, engine
  <1>4. CASE ReviewCardCloses(i)
    BY <1>4, StartPassType DEF TypeOK, ReviewCardCloses, card, claim, engine
  <1> QED
    BY <1>1, <1>2, <1>3, <1>4 DEF VerdictStep, Reviewed

LEMMA PassStepType == ASSUME TypeOK, NEW k \in Passes, PassStep(k) PROVE TypeOK'
  <1>k. pass[k] \in PassStates
    BY DEF TypeOK
  <1>1. CASE BeginPass(k)
    <2> DEFINE plan   == [i \in Cards |-> IF HasDecision(i) THEN Decision(i) ELSE NoDecision]
               todo   == {i \in Cards : HasDecision(i)}
               cancel == [a \in Cards |->
                            IF a \in CascadeOwners THEN CascadeCancels(a) ELSE {}]
    <2>1. plan \in [Cards -> Decisions]
      BY DecisionType, NoStampType DEF NoDecision, Decisions, CardPhase
    <2>2. CascadeOwners \in SUBSET Cards /\ todo \in SUBSET Cards
      BY DEF CascadeOwners
    <2>3. cancel \in [Cards -> SUBSET Cards]
      BY DEF CascadeCancels, Covered
    <2>4. [st |-> "scan", plan |-> plan, todo |-> todo, owners |-> CascadeOwners,
           cancel |-> cancel, spoilt |-> FALSE, again |-> pass[k].again] \in PassStates
      BY <1>k, <2>1, <2>2, <2>3 DEF PassStates
    <2>5. pass' = [pass EXCEPT ![k] =
                     [st |-> "scan", plan |-> plan, todo |-> todo,
                      owners |-> CascadeOwners, cancel |-> cancel, spoilt |-> FALSE,
                      again |-> pass[k].again]]
      BY <1>1 DEF BeginPass
    <2>6. pass' \in [Passes -> PassStates]
      BY <2>4, <2>5 DEF TypeOK
    <2> QED
      BY <1>1, <2>6 DEF BeginPass, TypeOK, card, claim, engine
  <1>2. CASE PassCard(k)
    <2> DEFINE i == First(pass[k].todo)
               d == pass[k].plan[i]
    <2>1. pass' = [pass EXCEPT ![k].todo = @ \ {i}, ![k].plan[i] = NoDecision]
      BY <1>2 DEF PassCard
    <2>2. NoDecision \in Decisions
      BY NoStampType DEF NoDecision, Decisions, CardPhase
    <2>3. [pass[k] EXCEPT !.todo = @ \ {i}, !.plan[i] = NoDecision] \in PassStates
      BY <1>k, <2>2 DEF PassStates
    <2>4. pass' \in [Passes -> PassStates]
      BY <2>1, <2>3 DEF TypeOK
    <2>5. CASE i \in Cards
      <3>1. d \in Decisions
        BY <1>k, <2>5 DEF PassStates
      <3>2. phase' \in [Cards -> CardPhase]
        BY <1>2, <2>5, <3>1 DEF PassCard, TypeOK, Decisions
      <3>3. synth' \in [Cards -> BOOLEAN] /\ pend' \in [Cards -> BOOLEAN]
        BY <1>2, <2>5, <3>1 DEF PassCard, TypeOK, Decisions
      <3>4. stamp' \in [Cards -> Stamps]
        BY <1>2, <2>5, <3>1 DEF PassCard, TypeOK, Decisions
      <3>5. claimed' \in [Cards -> BOOLEAN]
        BY <1>2, <2>5, <3>1 DEF PassCard, TypeOK
      <3> QED
        BY <1>2, <2>4, <3>2, <3>3, <3>4, <3>5 DEF PassCard, TypeOK, engine
    <2>6. CASE i \notin Cards
      <3>1. /\ phase' \in [Cards -> CardPhase]
            /\ synth' \in [Cards -> BOOLEAN]
            /\ stamp' \in [Cards -> Stamps]
            /\ pend' \in [Cards -> BOOLEAN]
            /\ claimed' \in [Cards -> BOOLEAN]
        BY <1>2, <2>6 DEF PassCard, TypeOK
      <3> QED
        BY <1>2, <2>4, <3>1 DEF PassCard, TypeOK, engine
    <2> QED
      BY <2>5, <2>6
  <1>3. CASE EndScan(k)
    <2>1. [pass[k] EXCEPT !.st = "cascade"] \in PassStates
      BY <1>k DEF PassStates
    <2>2. pass' \in [Passes -> PassStates]
      BY <1>3, <2>1 DEF EndScan, TypeOK
    <2> QED
      BY <1>3, <2>2 DEF EndScan, TypeOK, card, claim, engine
  <1>4. CASE CascadeCancel(k)
    <2> DEFINE a == First(pass[k].owners)
    <2>1. PICK i \in pass[k].cancel[a] :
             IF Legal(phase[i], "CANCELLED")
             THEN /\ phase' = [phase EXCEPT ![i] = "CANCELLED"]
                  /\ claimed' = [claimed EXCEPT ![i] = FALSE]
                  /\ pass' = [pass EXCEPT ![k].cancel[a] = @ \ {i}]
             ELSE /\ UNCHANGED <<phase, claimed>>
                  /\ pass' = [pass EXCEPT ![k].cancel[a] = @ \ {i},
                                          ![k].spoilt = TRUE]
      BY <1>4 DEF CascadeCancel
    <2>2. [pass[k] EXCEPT !.cancel[a] = @ \ {i}] \in PassStates
      BY <1>k DEF PassStates
    <2>3. [pass[k] EXCEPT !.cancel[a] = @ \ {i}, !.spoilt = TRUE] \in PassStates
      BY <1>k DEF PassStates
    <2>4. pass' \in [Passes -> PassStates]
      BY <2>1, <2>2, <2>3 DEF TypeOK
    <2>5. phase' \in [Cards -> CardPhase] /\ claimed' \in [Cards -> BOOLEAN]
      BY <2>1 DEF TypeOK, CardPhase, Phase
    <2> QED
      BY <1>4, <2>4, <2>5 DEF CascadeCancel, TypeOK, engine
  <1>5. CASE CascadeStamp(k)
    <2> DEFINE a == First(pass[k].owners)
    <2>1. [pass[k] EXCEPT !.owners = @ \ {a}, !.spoilt = FALSE] \in PassStates
      BY <1>k DEF PassStates
    <2>2. pass' \in [Passes -> PassStates]
      BY <1>5, <2>1 DEF CascadeStamp, TypeOK
    <2>3. PICK c \in BOOLEAN : stamp' = [stamp EXCEPT ![a].cascaded = c]
      <3>1. stamp' = [stamp EXCEPT ![a].cascaded = @ \/ ~pass[k].spoilt]
        BY <1>5 DEF CascadeStamp
      <3>2. (stamp[a].cascaded \/ ~pass[k].spoilt) \in BOOLEAN
        OBVIOUS
      <3> QED
        BY <3>1, <3>2
    <2>4. \A s \in Stamps : [s EXCEPT !.cascaded = c] \in Stamps
      BY DEF Stamps
    <2>5. stamp' \in [Cards -> Stamps]
      BY <2>3, <2>4 DEF TypeOK
    <2> QED
      BY <1>5, <2>2, <2>5 DEF CascadeStamp, TypeOK, claim, engine
  <1>6. CASE EndPass(k)
    <2>1. [IdlePass EXCEPT !.st = "due"] \in PassStates
      BY IdlePassType DEF PassStates
    <2>2. pass' \in [Passes -> PassStates]
      BY <1>6, <2>1, IdlePassType DEF EndPass, TypeOK
    <2> QED
      BY <1>6, <2>2 DEF EndPass, TypeOK, card, claim, engine
  <1> QED
    BY <1>1, <1>2, <1>3, <1>4, <1>5, <1>6 DEF PassStep

LEMMA TickStepType == ASSUME TypeOK, TickStep PROVE TypeOK'
  <1>1. CASE TickSettle
    BY <1>1, StartPassType DEF TickSettle, TypeOK, card, claim, engine
  <1>2. ASSUME NEW i \in Cards, TickRelease(i)
        PROVE  TypeOK'
    <2>1. pass' \in [Passes -> PassStates]
      BY <1>2, NotifyType DEF TickRelease
    <2>2. phase' \in [Cards -> CardPhase]
      BY <1>2 DEF TickRelease, ReleasePhase, TypeOK, CardPhase, Phase
    <2> QED
      BY <1>2, <2>1, <2>2 DEF TickRelease, TypeOK, claim, engine
  <1> QED
    BY <1>1, <1>2 DEF TickStep

LEMMA OutageStepType == ASSUME TypeOK, OutageStep PROVE TypeOK'
  <1>1. CASE Stop
    BY <1>1, EngineAssumption DEF Stop, TypeOK, card, claim
  <1>2. ASSUME NEW i \in Cards, HoldCard(i)
        PROVE  TypeOK'
    BY <1>2 DEF HoldCard, TypeOK, card
  <1>3. ASSUME NEW alive \in SUBSET Passes, Halt(alive)
        PROVE  TypeOK'
    <2>1. pass' \in [Passes -> PassStates]
      BY <1>3, IdlePassType DEF Halt, TypeOK
    <2> QED
      BY <1>3, <2>1 DEF Halt, TypeOK, TurnStates, card, claim
  <1>4. CASE Crash
    <2>1. pass' \in [Passes -> PassStates]
      BY <1>4, IdlePassType DEF Crash
    <2>2. outages' \in 0..MaxOutages
      BY <1>4, EngineAssumption DEF Crash, TypeOK
    <2>3. /\ hold' \in [Cards -> BOOLEAN]
          /\ claimed' \in [Cards -> BOOLEAN]
          /\ mirror' \in [Cards -> BOOLEAN]
      BY <1>4 DEF Crash, TypeOK, Exists
    <2> QED
      BY <1>4, <2>1, <2>2, <2>3 DEF Crash, TypeOK, TurnStates, card
  <1>5. ASSUME NEW i \in Cards, ResumeCard(i)
        PROVE  TypeOK'
    <2>1. ResumePhase(i) \in CardPhase
      BY DEF ResumePhase, TypeOK, CardPhase, Phase
    <2>2. phase' \in [Cards -> CardPhase] /\ pass' \in [Passes -> PassStates]
      BY <1>5, <2>1, NotifyType DEF ResumeCard, WriteOrKeep, TypeOK
    <2>3. mirror' \in [Cards -> BOOLEAN]
      BY <1>5 DEF ResumeCard, TypeOK
    <2> QED
      BY <1>5, <2>2, <2>3 DEF ResumeCard, TypeOK
  <1>6. CASE Restart
    BY <1>6 DEF Restart, TypeOK, CardPhase, card, claim
  <1> QED
    BY <1>1, <1>2, <1>3, <1>4, <1>5, <1>6 DEF OutageStep

(* Every state of every run is well formed: what the hooks, the passes and *)
(* the resume compute from snapshots stays within the lifecycle's phases.  *)
THEOREM TypeCorrect == Spec => []TypeOK
  <1>1. Init => TypeOK
    BY InitType
  <1>2. TypeOK /\ [Next]_vars => TypeOK'
    <2> SUFFICES ASSUME TypeOK, [Next]_vars
                 PROVE  TypeOK'
      OBVIOUS
    <2>1. CASE Next
      BY <2>1, ClaimType, TurnStepType, ManagerStepType, VerdictStepType,
         PassStepType, TickStepType, OutageStepType DEF Next
    <2>2. CASE UNCHANGED vars
      BY <2>2 DEF vars, TypeOK
    <2> QED
      BY <2>1, <2>2
  <1> QED
    BY <1>1, <1>2, PTL DEF Spec

-----------------------------------------------------------------------------
(* Closed cards.                                                           *)

Closed == {"APPROVED", "CANCELLED"}

KeepsClosed == \A j \in Cards : phase[j] \in Closed => phase'[j] = phase[j]

(* A write to one card that is a legal transition reopens nothing.         *)
LEMMA LegalWriteKeepsClosed ==
    ASSUME TypeOK, NEW i, NEW to, Legal(phase[i], to),
           phase' = [phase EXCEPT ![i] = to]
    PROVE  KeepsClosed
  BY ClosedIsFinal DEF KeepsClosed, Closed, TypeOK

LEMMA WriteOrKeepKeepsClosed ==
    ASSUME TypeOK, NEW i, NEW to, WriteOrKeep(i, to)
    PROVE  KeepsClosed
  BY LegalWriteKeepsClosed DEF WriteOrKeep, KeepsClosed

(* A write to a card that is open reopens nothing, whatever it writes.     *)
LEMMA OpenWriteKeepsClosed ==
    ASSUME TypeOK, NEW i, NEW to, phase[i] \notin Closed,
           phase' = [phase EXCEPT ![i] = to]
    PROVE  KeepsClosed
  BY DEF KeepsClosed, TypeOK

(* The card a turn creates did not exist.                                  *)
LEMMA NextNewIsAbsent ==
    ASSUME NEW c \in Cards, NEW S, NextNew(c, S)
    PROVE  phase[c] = "absent"
  <1>1. c \in Nat /\ c >= c
    BY BoardAssumption DEF Cards
  <1> QED
    BY <1>1 DEF NextNew, Exists

LEMMA NextKeepsClosed == TypeOK /\ [Next]_vars => KeepsClosed
  <1> SUFFICES ASSUME TypeOK, [Next]_vars
               PROVE  KeepsClosed
    OBVIOUS
  <1> USE DEF Closed
  <1>1. ASSUME NEW i \in Cards, Claim(i)
        PROVE  KeepsClosed
    BY <1>1, OpenWriteKeepsClosed DEF Claim, RUNNABLE_PHASES, IN_PROGRESS_PHASES
  <1>2. ASSUME NEW i \in Cards, TurnStep(i)
        PROVE  KeepsClosed
    <2>1. CASE TurnStart(i)
      BY <2>1, WriteOrKeepKeepsClosed DEF TurnStart
    <2>2. CASE TurnFail(i)
      BY <2>2, WriteOrKeepKeepsClosed DEF TurnFail
    <2>3. CASE TurnFinish(i)
      BY <2>3 DEF TurnFinish, card, KeepsClosed
    <2>4. ASSUME NEW c \in Cards, SpawnDelivery(i, c)
          PROVE  KeepsClosed
      BY <2>4, NextNewIsAbsent, OpenWriteKeepsClosed DEF SpawnDelivery
    <2>5. CASE CloseIntake(i)
      <3> DEFINE from == IF phase[i] = "WAITING_FOR_CHILDREN" THEN "RUNNING" ELSE phase[i]
      <3>1. CASE Legal(from, "APPROVED")
        <4>1. phase' = [phase EXCEPT ![i] = "APPROVED"]
          BY <2>5, <3>1 DEF CloseIntake
        <4>2. phase[i] = "WAITING_FOR_CHILDREN" \/ Legal(phase[i], "APPROVED")
          BY <3>1
        <4> QED
          BY <4>1, <4>2, LegalWriteKeepsClosed, OpenWriteKeepsClosed
      <3>2. CASE ~Legal(from, "APPROVED")
        <4>1. phase' = [phase EXCEPT ![i] = from]
          BY <2>5, <3>2 DEF CloseIntake
        <4>2. phase[i] = "WAITING_FOR_CHILDREN" \/ from = phase[i]
          OBVIOUS
        <4> QED
          BY <4>1, <4>2, LegalWriteKeepsClosed, OpenWriteKeepsClosed DEF Legal
      <3> QED
        BY <3>1, <3>2
    <2>6. CASE ParkWrite(i)
      BY <2>6, LegalWriteKeepsClosed DEF ParkWrite, KeepsClosed
    <2>7. CASE ParkSettledWrite(i)
      BY <2>7, LegalWriteKeepsClosed DEF ParkSettledWrite, KeepsClosed
    <2>8. CASE DoneWrite(i)
      BY <2>8, WriteOrKeepKeepsClosed DEF DoneWrite
    <2>9. ASSUME NEW to \in BlockedOutcomes, TurnBlocked(i, to)
          PROVE  KeepsClosed
      BY <2>9, WriteOrKeepKeepsClosed DEF TurnBlocked
    <2> QED
      BY <1>2, <2>1, <2>2, <2>3, <2>4, <2>5, <2>6, <2>7, <2>8, <2>9 DEF TurnStep
  <1>3. ASSUME NEW m \in Cards, ManagerStep(m)
        PROVE  KeepsClosed
    <2>1. ASSUME NEW c \in Cards, NEW after \in SUBSET deps[m], Delegate(m, c, after)
          PROVE  KeepsClosed
      <3>1. phase[c] = "absent"
        BY <2>1, NextNewIsAbsent DEF Delegate
      <3> QED
        BY <2>1, <3>1, OpenWriteKeepsClosed DEF Delegate
    <2>2. ASSUME NEW i \in Cards, ManagerRelease(m, i)
          PROVE  KeepsClosed
      BY <2>2, OpenWriteKeepsClosed DEF ManagerRelease
    <2> QED
      BY <1>3, <2>1, <2>2 DEF ManagerStep
  <1>4. ASSUME NEW i \in Cards, VerdictStep(i)
        PROVE  KeepsClosed
    BY <1>4, OpenWriteKeepsClosed
       DEF VerdictStep, Reviewed, ReviewVerdict, ReviewCardCloses, HumanApprove,
           HumanFollowUp, KeepsClosed, card
  <1>5. ASSUME NEW k \in Passes, PassStep(k)
        PROVE  KeepsClosed
    <2>1. CASE PassCard(k)
      <3> DEFINE i == First(pass[k].todo)
                 d == pass[k].plan[i]
      <3>1. CASE d.from # d.to /\ ~Legal(phase[i], d.to)
        BY <2>1, <3>1 DEF PassCard, KeepsClosed
      <3>2. CASE d.from # d.to /\ Legal(phase[i], d.to)
        <4>1. phase' = [phase EXCEPT ![i] = d.to]
          BY <2>1, <3>2 DEF PassCard
        <4> QED
          BY <3>2, <4>1, LegalWriteKeepsClosed
      <3>3. CASE d.from = d.to
        <4>1. phase' = phase
          BY <2>1, <3>3 DEF PassCard, TypeOK
        <4> QED
          BY <4>1 DEF KeepsClosed
      <3> QED
        BY <3>1, <3>2, <3>3
    <2>2. CASE CascadeCancel(k)
      BY <2>2, LegalWriteKeepsClosed DEF CascadeCancel, KeepsClosed
    <2>3. CASE BeginPass(k) \/ EndScan(k) \/ CascadeStamp(k) \/ EndPass(k)
      BY <2>3 DEF BeginPass, EndScan, CascadeStamp, EndPass, card, KeepsClosed
    <2> QED
      BY <1>5, <2>1, <2>2, <2>3 DEF PassStep
  <1>6. CASE TickStep
    BY <1>6, OpenWriteKeepsClosed DEF TickStep, TickSettle, TickRelease, card, KeepsClosed
  <1>7. CASE OutageStep
    <2>1. ASSUME NEW i \in Cards, ResumeCard(i)
          PROVE  KeepsClosed
      BY <2>1, WriteOrKeepKeepsClosed DEF ResumeCard
    <2>2. CASE Stop \/ (\E i \in Cards : HoldCard(i))
                 \/ (\E alive \in SUBSET Passes : Halt(alive)) \/ Crash \/ Restart
      BY <2>2 DEF Stop, HoldCard, Halt, Crash, Restart, card, KeepsClosed
    <2> QED
      BY <1>7, <2>1, <2>2 DEF OutageStep
  <1>8. CASE UNCHANGED vars
    BY <1>8 DEF vars, KeepsClosed
  <1> QED
    BY <1>1, <1>2, <1>3, <1>4, <1>5, <1>6, <1>7, <1>8 DEF Next

(* No interleaving of turns, passes with stale decisions, verdicts, ticks  *)
(* and resumes ever moves a card that was approved or cancelled.           *)
THEOREM ClosedCardsAreFinal == Spec => ClosedCardsStayClosed
  <1>1. TypeOK /\ [Next]_vars =>
          [\A i \in Cards :
              phase[i] \in {"APPROVED", "CANCELLED"} => phase'[i] = phase[i]]_vars
    BY NextKeepsClosed DEF KeepsClosed, Closed
  <1> QED
    BY <1>1, TypeCorrect, PTL DEF Spec, ClosedCardsStayClosed

-----------------------------------------------------------------------------
(* The claim of a running turn.                                            *)

(* The claim is lost under a turn only by a hold, and a hold is only taken *)
(* back when the coroutines are gone: LiveTurnKeepsClaim needs the second. *)
StoppedIsQuiet == run = "stopped" => \A i \in Cards : turn[i] = "none"

LeaseInv ==
    /\ TypeOK
    /\ StoppedIsQuiet
    /\ LiveTurnKeepsClaim

(* What a step that starts no turn does: turns may only end, mirrors and   *)
(* holds stay.                                                             *)
TurnsOnlyEnd ==
    /\ \A i \in Cards : turn'[i] # "none" => turn[i] # "none"
    /\ UNCHANGED <<mirror, hold, run>>

LEMMA TurnsOnlyEndKeepsLease ==
    ASSUME StoppedIsQuiet, LiveTurnKeepsClaim, TurnsOnlyEnd
    PROVE  StoppedIsQuiet' /\ LiveTurnKeepsClaim'
  BY DEF StoppedIsQuiet, LiveTurnKeepsClaim, TurnsOnlyEnd

(* Everything but a claim and an outage is such a step.                    *)
LEMMA OrdinaryStepsOnlyEndTurns ==
    ASSUME TypeOK,
           \/ \E i \in Cards : TurnStep(i) \/ ManagerStep(i) \/ VerdictStep(i)
           \/ \E k \in Passes : PassStep(k)
           \/ TickStep
    PROVE  TurnsOnlyEnd
  <1> USE DEF TurnsOnlyEnd
  <1>1. ASSUME NEW i \in Cards, TurnStep(i)
        PROVE  TurnsOnlyEnd
    <2>1. turn[i] # "none"
      BY <1>1 DEF TurnStep, TurnStart, TurnFail, TurnFinish, SpawnDelivery,
                  CloseIntake, ParkWrite, ParkSettledWrite, DoneWrite, TurnBlocked, Working
    <2>2. \A j \in Cards \ {i} : turn'[j] = turn[j]
      BY <1>1 DEF TurnStep, TurnStart, TurnFail, TurnFinish, SpawnDelivery,
                  CloseIntake, ParkWrite, ParkSettledWrite, DoneWrite, TurnBlocked,
                  SetTurn, TypeOK
    <2>3. UNCHANGED <<mirror, hold, run>>
      BY <1>1 DEF TurnStep, TurnStart, TurnFail, TurnFinish, SpawnDelivery,
                  CloseIntake, ParkWrite, ParkSettledWrite, DoneWrite, TurnBlocked,
                  claim, engine
    <2> QED
      BY <2>1, <2>2, <2>3
  <1>2. ASSUME NEW m \in Cards, ManagerStep(m)
        PROVE  TurnsOnlyEnd
    BY <1>2 DEF ManagerStep, Delegate, ManagerRelease, Working, SetTurn, TypeOK,
                claim, engine
  <1>3. ASSUME NEW i \in Cards, VerdictStep(i)
        PROVE  TurnsOnlyEnd
    BY <1>3 DEF VerdictStep, Reviewed, ReviewVerdict, ReviewCardCloses, HumanApprove,
                HumanFollowUp, claim, engine
  <1>4. ASSUME NEW k \in Passes, PassStep(k)
        PROVE  TurnsOnlyEnd
    BY <1>4 DEF PassStep, BeginPass, PassCard, EndScan, CascadeCancel, CascadeStamp,
                EndPass, claim, engine
  <1>5. CASE TickStep
    BY <1>5 DEF TickStep, TickSettle, TickRelease, claim, engine
  <1> QED
    BY <1>1, <1>2, <1>3, <1>4, <1>5

LEMMA OutageKeepsLease ==
    ASSUME LeaseInv, OutageStep
    PROVE  StoppedIsQuiet' /\ LiveTurnKeepsClaim'
  <1> USE DEF LeaseInv, StoppedIsQuiet, LiveTurnKeepsClaim
  <1>1. CASE Stop
    BY <1>1 DEF Stop, claim
  <1>2. ASSUME NEW i \in Cards, HoldCard(i)
        PROVE  StoppedIsQuiet' /\ LiveTurnKeepsClaim'
    BY <1>2 DEF HoldCard, TypeOK
  <1>3. CASE Crash \/ \E alive \in SUBSET Passes : Halt(alive)
    <2>1. \A i \in Cards : turn'[i] = "none"
      BY <1>3 DEF Crash, Halt
    <2> QED
      BY <2>1
  <1>4. ASSUME NEW i \in Cards, ResumeCard(i)
        PROVE  StoppedIsQuiet' /\ LiveTurnKeepsClaim'
    <2>1. \A j \in Cards : turn'[j] = "none"
      BY <1>4 DEF ResumeCard
    <2> QED
      BY <2>1
  <1>5. CASE Restart
    BY <1>5 DEF Restart, claim
  <1> QED
    BY <1>1, <1>2, <1>3, <1>4, <1>5 DEF OutageStep

LEMMA ClaimKeepsLease ==
    ASSUME LeaseInv, NEW i \in Cards, Claim(i)
    PROVE  StoppedIsQuiet' /\ LiveTurnKeepsClaim'
  BY DEF LeaseInv, TypeOK, StoppedIsQuiet, LiveTurnKeepsClaim, Claim, SetTurn, engine

THEOREM LeaseInvariant == Spec => []LeaseInv
  <1>1. Init => LeaseInv
    BY InitType DEF Init, LeaseInv, StoppedIsQuiet, LiveTurnKeepsClaim
  <1>2. LeaseInv /\ TypeOK' /\ [Next]_vars => LeaseInv'
    <2> SUFFICES ASSUME LeaseInv, TypeOK', [Next]_vars
                 PROVE  StoppedIsQuiet' /\ LiveTurnKeepsClaim'
      BY DEF LeaseInv
    <2>1. ASSUME NEW i \in Cards, Claim(i)
          PROVE  StoppedIsQuiet' /\ LiveTurnKeepsClaim'
      BY <2>1, ClaimKeepsLease
    <2>2. CASE OutageStep
      BY <2>2, OutageKeepsLease
    <2>3. CASE \/ \E i \in Cards : TurnStep(i) \/ ManagerStep(i) \/ VerdictStep(i)
               \/ \E k \in Passes : PassStep(k)
               \/ TickStep
      BY <2>3, OrdinaryStepsOnlyEndTurns, TurnsOnlyEndKeepsLease DEF LeaseInv
    <2>4. CASE UNCHANGED vars
      BY <2>4 DEF vars, LeaseInv, StoppedIsQuiet, LiveTurnKeepsClaim
    <2> QED
      BY <2>1, <2>2, <2>3, <2>4 DEF Next
  <1> QED
    BY <1>1, <1>2, TypeCorrect, PTL DEF Spec

(* Whatever passes, verdicts and suspensions do around it, a turn that is  *)
(* not held runs under the mirror that keeps other claimants off its card. *)
THEOREM TurnsKeepTheirClaim == Spec => []LiveTurnKeepsClaim
  BY LeaseInvariant, PTL DEF LeaseInv

-----------------------------------------------------------------------------
(* The refinement: mirrors are leases, turns workers, holds frozen cards.  *)

leases  == {i \in Cards : mirror[i]}
workers == {i \in Cards : turn[i] # "none"}
held    == {i \in Cards : hold[i]}

LeaseUnchanged == UNCHANGED <<leases, workers, held>>

LEMMA LeaseInit == Init => Lease!Init
  BY DEF Init, Lease!Init

LEMMA ClaimTakesLease ==
    ASSUME LeaseInv, NEW i \in Cards, Claim(i)
    PROVE  Lease!Take(i)
  BY DEF LeaseInv, TypeOK, Claim, SetTurn, engine, Lease!Take

(* A step that only ends the turn of one card is a worker leaving it, or   *)
(* nothing at all.                                                         *)
LEMMA EndedTurnLeaves ==
    ASSUME TypeOK, NEW i \in Cards, NEW t \in TurnStates, turn[i] # "none",
           turn' = [turn EXCEPT ![i] = t], UNCHANGED <<mirror, hold>>
    PROVE  Lease!Leave(i) \/ LeaseUnchanged
  <1>1. CASE t = "none"
    BY <1>1 DEF TypeOK, Lease!Leave
  <1>2. CASE t # "none"
    BY <1>2 DEF TypeOK, LeaseUnchanged, leases, workers, held
  <1> QED
    BY <1>1, <1>2

LEMMA TurnStepLease ==
    ASSUME TypeOK, NEW i \in Cards, TurnStep(i) \/ ManagerStep(i)
    PROVE  Lease!Leave(i) \/ LeaseUnchanged
  <1>1. CASE TurnStep(i)
    <2>1. turn[i] # "none"
      BY <1>1 DEF TurnStep, TurnStart, TurnFail, TurnFinish, SpawnDelivery,
                  CloseIntake, ParkWrite, ParkSettledWrite, DoneWrite, TurnBlocked, Working
    <2>2. \E t \in TurnStates : turn' = [turn EXCEPT ![i] = t]
      BY <1>1 DEF TurnStep, TurnStart, TurnFail, TurnFinish, SpawnDelivery,
                  CloseIntake, ParkWrite, ParkSettledWrite, DoneWrite, TurnBlocked,
                  SetTurn, TurnStates, Outcome, DoneState
    <2>3. UNCHANGED <<mirror, hold>>
      BY <1>1 DEF TurnStep, TurnStart, TurnFail, TurnFinish, SpawnDelivery,
                  CloseIntake, ParkWrite, ParkSettledWrite, DoneWrite, TurnBlocked,
                  claim, engine
    <2> QED
      BY <2>1, <2>2, <2>3, EndedTurnLeaves
  <1>2. CASE ManagerStep(i)
    <2>1. ASSUME NEW c \in Cards, NEW after \in SUBSET deps[i], Delegate(i, c, after)
          PROVE  Lease!Leave(i) \/ LeaseUnchanged
      BY <2>1, EndedTurnLeaves DEF Delegate, Working, SetTurn, TurnStates, claim, engine
    <2>2. ASSUME NEW j \in Cards, ManagerRelease(i, j)
          PROVE  LeaseUnchanged
      BY <2>2 DEF ManagerRelease, claim, engine, LeaseUnchanged, leases, workers, held
    <2> QED
      BY <1>2, <2>1, <2>2 DEF ManagerStep
  <1> QED
    BY <1>1, <1>2

LEMMA QuietStepsLease ==
    ASSUME TypeOK,
           \/ \E i \in Cards : VerdictStep(i)
           \/ \E k \in Passes : PassStep(k)
           \/ TickStep \/ Stop \/ Restart
           \/ UNCHANGED vars
    PROVE  LeaseUnchanged
  <1>1. UNCHANGED <<mirror, turn, hold>>
    BY DEF VerdictStep, Reviewed, ReviewVerdict, ReviewCardCloses, HumanApprove,
           HumanFollowUp, PassStep, BeginPass, PassCard, EndScan, CascadeCancel, CascadeStamp,
           EndPass,
           TickStep, TickSettle, TickRelease, Stop, Restart, vars, claim, engine
  <1> QED
    BY <1>1 DEF LeaseUnchanged, leases, workers, held

LEMMA OutageLease ==
    ASSUME LeaseInv, OutageStep
    PROVE  Lease!Next \/ LeaseUnchanged
  <1> USE DEF LeaseInv, TypeOK
  <1>1. ASSUME NEW i \in Cards, HoldCard(i)
        PROVE  Lease!Freeze(i)
    BY <1>1 DEF HoldCard, Lease!Freeze
  <1>2. ASSUME NEW alive \in SUBSET Passes, Halt(alive)
        PROVE  Lease!StopAll
    BY <1>2 DEF Halt, claim, Lease!StopAll
  <1>3. CASE Crash
    <2>1. \A i \in Cards : turn'[i] = "none"
      BY <1>3 DEF Crash
    <2>2. \A i \in Cards : mirror'[i] => mirror[i]
      BY <1>3 DEF Crash
    <2>3. Lease!StopAll
      BY <2>1, <2>2 DEF Lease!StopAll
    <2> QED
      BY <2>3 DEF Lease!Next
  <1>4. ASSUME NEW i \in Cards, ResumeCard(i)
        PROVE  Lease!Thaw(i)
    <2>1. workers = {}
      BY <1>4 DEF ResumeCard, StoppedIsQuiet, workers
    <2>2. turn' = turn
      BY <1>4 DEF ResumeCard
    <2>3. /\ hold[i]
          /\ hold' = [hold EXCEPT ![i] = FALSE]
      BY <1>4 DEF ResumeCard
    <2>4. mirror' = mirror \/ mirror' = [mirror EXCEPT ![i] = FALSE]
      BY <1>4 DEF ResumeCard
    <2> QED
      BY <2>1, <2>2, <2>3, <2>4 DEF Lease!Thaw, workers
  <1>5. CASE Stop \/ Restart
    BY <1>5, QuietStepsLease
  <1> QED
    BY <1>1, <1>2, <1>3, <1>4, <1>5 DEF OutageStep, Lease!Next

LEMMA LeaseStep == LeaseInv /\ [Next]_vars => Lease!Next \/ LeaseUnchanged
  <1> SUFFICES ASSUME LeaseInv, [Next]_vars
               PROVE  Lease!Next \/ LeaseUnchanged
    OBVIOUS
  <1> USE DEF LeaseInv
  <1>1. ASSUME NEW i \in Cards, Claim(i)
        PROVE  Lease!Next
    BY <1>1, ClaimTakesLease DEF Lease!Next
  <1>2. ASSUME NEW i \in Cards, TurnStep(i) \/ ManagerStep(i)
        PROVE  Lease!Next \/ LeaseUnchanged
    BY <1>2, TurnStepLease DEF Lease!Next
  <1>3. CASE \/ \E i \in Cards : VerdictStep(i)
             \/ \E k \in Passes : PassStep(k)
             \/ TickStep \/ UNCHANGED vars
    BY <1>3, QuietStepsLease
  <1>4. CASE OutageStep
    BY <1>4, OutageLease
  <1> QED
    BY <1>1, <1>2, <1>3, <1>4 DEF Next

(* The cards of a run, with their claims, mirrors and holds, implement the *)
(* lease: nobody works on a card without it, and no claim is withdrawn     *)
(* from a turn except by a hold.                                           *)
THEOREM TurnsImplementLease == Spec => TurnsHoldLeases
  <1>1. LeaseInv /\ [Next]_vars => [Lease!Next]_(Lease!vars)
    BY LeaseStep DEF LeaseUnchanged, leases, workers, held, Lease!vars
  <1> QED
    BY <1>1, LeaseInit, LeaseInvariant, PTL DEF Spec, TurnsHoldLeases, Lease!Spec

-----------------------------------------------------------------------------
(* Writers: whose step it is that changes a field of a card.               *)

(* Who writes what of a card: the turn of the card itself, the manager who *)
(* creates or releases it, a verdict on it, a pass that has it as its next *)
(* one, the tick, or its resume.                                           *)
Created(i) ==
    \E m \in Cards : \/ \E after \in SUBSET deps[m] : Delegate(m, i, after)
                     \/ SpawnDelivery(m, i)

Passed(k, i) == PassCard(k) /\ i = First(pass[k].todo)

(* A phase that changes is written by one of these.                        *)
LEMMA PhaseWriter ==
    ASSUME TypeOK, [Next]_vars, NEW i \in Cards, phase'[i] # phase[i]
    PROVE  \/ Claim(i) \/ TurnStep(i) \/ VerdictStep(i) \/ TickRelease(i) \/ ResumeCard(i)
           \/ Created(i) \/ \E m \in Cards : ManagerRelease(m, i)
           \/ \E k \in Passes : Passed(k, i)
           \/ phase'[i] = "CANCELLED" /\ Legal(phase[i], "CANCELLED")
  <1> DEFINE Goal == \/ Claim(i) \/ TurnStep(i) \/ VerdictStep(i) \/ TickRelease(i)
                     \/ ResumeCard(i)
                     \/ Created(i) \/ \E m \in Cards : ManagerRelease(m, i)
                     \/ \E k \in Passes : Passed(k, i)
                     \/ phase'[i] = "CANCELLED" /\ Legal(phase[i], "CANCELLED")
  <1> SUFFICES Goal
    OBVIOUS
  <1>0. phase \in [Cards -> CardPhase]
    BY DEF TypeOK
  <1>1. ASSUME NEW j \in Cards, NEW to, WriteOrKeep(j, to)
        PROVE  j = i
    BY <1>0, <1>1 DEF WriteOrKeep
  <1>2. ASSUME NEW j \in Cards, Claim(j)
        PROVE  Goal
    <2>1. j = i
      BY <1>0, <1>2 DEF Claim
    <2> QED
      BY <1>2, <2>1
  <1>3. ASSUME NEW j \in Cards, TurnStep(j)
        PROVE  Goal
    <2>1. CASE \E c \in Cards : SpawnDelivery(j, c)
      <3>1. PICK c \in Cards : SpawnDelivery(j, c)
        BY <2>1
      <3>2. c = i
        BY <1>0, <3>1 DEF SpawnDelivery
      <3> QED
        BY <3>1, <3>2 DEF Created
    <2>2. CASE TurnStart(j) \/ TurnFail(j) \/ DoneWrite(j)
      <3>1. j = i
        BY <1>1, <2>2 DEF TurnStart, TurnFail, DoneWrite
      <3> QED
        BY <1>3, <3>1
    <2>3. CASE TurnFinish(j)
      BY <2>3 DEF TurnFinish, card
    <2>4. CASE CloseIntake(j)
      <3>1. j = i
        BY <1>0, <2>4 DEF CloseIntake
      <3> QED
        BY <1>3, <3>1
    <2>5. CASE ParkWrite(j) \/ ParkSettledWrite(j)
      <3>1. j = i
        BY <1>0, <2>5 DEF ParkWrite, ParkSettledWrite
      <3> QED
        BY <1>3, <3>1
    <2>6. CASE \E to \in BlockedOutcomes : TurnBlocked(j, to)
      <3>1. j = i
        BY <1>1, <2>6 DEF TurnBlocked
      <3> QED
        BY <1>3, <3>1
    <2> HIDE DEF Goal
    <2> QED
      BY <1>3, <2>1, <2>2, <2>3, <2>4, <2>5, <2>6 DEF TurnStep
  <1>4. ASSUME NEW m \in Cards, ManagerStep(m)
        PROVE  Goal
    <2>1. ASSUME NEW c \in Cards, NEW after \in SUBSET deps[m], Delegate(m, c, after)
          PROVE  Goal
      <3>1. c = i
        BY <1>0, <2>1 DEF Delegate
      <3> QED
        BY <2>1, <3>1 DEF Created
    <2>2. ASSUME NEW j \in Cards, ManagerRelease(m, j)
          PROVE  Goal
      <3>1. j = i
        BY <1>0, <2>2 DEF ManagerRelease
      <3> QED
        BY <2>2, <3>1
    <2> HIDE DEF Goal
    <2> QED
      BY <1>4, <2>1, <2>2 DEF ManagerStep
  <1>5. ASSUME NEW j \in Cards, VerdictStep(j)
        PROVE  Goal
    <2>1. j = i
      BY <1>0, <1>5 DEF VerdictStep, Reviewed, ReviewVerdict, ReviewCardCloses, HumanApprove,
                        HumanFollowUp, card
    <2> QED
      BY <1>5, <2>1
  <1>6. ASSUME NEW k \in Passes, PassStep(k)
        PROVE  Goal
    <2>1. CASE PassCard(k)
      <3>1. i = First(pass[k].todo)
        BY <1>0, <2>1 DEF PassCard
      <3> QED
        BY <2>1, <3>1 DEF Passed
    <2>2. CASE CascadeCancel(k)
      <3>1. phase'[i] = "CANCELLED" /\ Legal(phase[i], "CANCELLED")
        BY <1>0, <2>2 DEF CascadeCancel
      <3> QED
        BY <3>1
    <2>3. CASE BeginPass(k) \/ EndScan(k) \/ CascadeStamp(k) \/ EndPass(k)
      BY <2>3 DEF BeginPass, EndScan, CascadeStamp, EndPass, card
    <2> HIDE DEF Goal
    <2> QED
      BY <1>6, <2>1, <2>2, <2>3 DEF PassStep
  <1>7. CASE TickStep
    <2>1. CASE TickSettle
      BY <2>1 DEF TickSettle, card
    <2>2. ASSUME NEW j \in Cards, TickRelease(j)
          PROVE  Goal
      <3>1. j = i
        BY <1>0, <2>2 DEF TickRelease
      <3> QED
        BY <2>2, <3>1
    <2> HIDE DEF Goal
    <2> QED
      BY <1>7, <2>1, <2>2 DEF TickStep
  <1>8. CASE OutageStep
    <2>1. ASSUME NEW j \in Cards, ResumeCard(j)
          PROVE  Goal
      <3>1. j = i
        BY <1>1, <2>1 DEF ResumeCard
      <3> QED
        BY <2>1, <3>1
    <2>2. CASE Stop \/ (\E j \in Cards : HoldCard(j))
                 \/ (\E alive \in SUBSET Passes : Halt(alive)) \/ Crash \/ Restart
      BY <2>2 DEF Stop, HoldCard, Halt, Crash, Restart, card
    <2> HIDE DEF Goal
    <2> QED
      BY <1>8, <2>1, <2>2 DEF OutageStep
  <1>9. CASE UNCHANGED vars
    BY <1>9 DEF vars
  <1> HIDE DEF Goal
  <1> QED
    BY <1>2, <1>3, <1>4, <1>5, <1>6, <1>7, <1>8, <1>9 DEF Next

(* The failures a card is released over are written by a pass, and         *)
(* forgotten by its own turn when that parks again.                        *)
LEMMA StampWriter ==
    ASSUME TypeOK, [Next]_vars, NEW i \in Cards, stamp'[i].over # stamp[i].over
    PROVE  \/ /\ turn[i] = "repark" /\ Legal(phase[i], "WAITING_FOR_CHILDREN")
              /\ stamp'[i] = NoStamp
           \/ \E k \in Passes : /\ Passed(k, i) /\ pass[k].plan[i].stamp # NoStamp
                                /\ stamp'[i] = pass[k].plan[i].stamp
  <1>0. stamp \in [Cards -> Stamps]
    BY DEF TypeOK
  <1>1. ASSUME NEW j \in Cards, ParkWrite(j)
        PROVE  /\ turn[i] = "repark" /\ Legal(phase[i], "WAITING_FOR_CHILDREN")
               /\ stamp'[i] = NoStamp
    BY <1>0, <1>1 DEF ParkWrite
  <1>2. ASSUME NEW k \in Passes, PassCard(k)
        PROVE  \E q \in Passes : /\ Passed(q, i) /\ pass[q].plan[i].stamp # NoStamp
                                 /\ stamp'[i] = pass[q].plan[i].stamp
    BY <1>0, <1>2 DEF PassCard, Passed
  <1>3. ASSUME NEW k \in Passes, CascadeStamp(k)
        PROVE  FALSE
    <2>1. PICK a, v : stamp' = [stamp EXCEPT ![a].cascaded = v]
      BY <1>3 DEF CascadeStamp
    <2> QED
      BY <1>0, <2>1 DEF Stamps
  <1>4. CASE \E j \in Cards : Claim(j) \/ ManagerStep(j) \/ VerdictStep(j)
    BY <1>4 DEF Claim, ManagerStep, Delegate, ManagerRelease, VerdictStep, Reviewed,
                ReviewVerdict, ReviewCardCloses, HumanApprove, HumanFollowUp, card
  <1>5. ASSUME NEW j \in Cards, TurnStep(j), ~ParkWrite(j)
        PROVE  FALSE
    BY <1>5 DEF TurnStep, TurnStart, TurnFail, TurnFinish, SpawnDelivery, CloseIntake,
                ParkSettledWrite, DoneWrite, TurnBlocked, card
  <1>6. ASSUME NEW k \in Passes, PassStep(k), ~PassCard(k), ~CascadeStamp(k)
        PROVE  FALSE
    BY <1>6 DEF PassStep, BeginPass, EndScan, CascadeCancel, EndPass, card
  <1>7. CASE TickStep \/ OutageStep
    BY <1>7 DEF TickStep, TickSettle, TickRelease, OutageStep, Stop, HoldCard, Halt, Crash,
                ResumeCard, Restart, card
  <1>8. CASE UNCHANGED vars
    BY <1>8 DEF vars
  <1> QED
    BY <1>1, <1>2, <1>3, <1>4, <1>5, <1>6, <1>7, <1>8 DEF Next

(* The dependencies of a card that exists only grow, by what its own turn  *)
(* delegates.                                                              *)
LEMMA DepsWriter ==
    ASSUME TypeOK, [Next]_vars, NEW i \in Cards, deps'[i] # deps[i]
    PROVE  \/ /\ Working(i) /\ turn'[i] = "dispatched"
              /\ \E c \in Crew[i] : deps'[i] = deps[i] \cup {c}
           \/ phase[i] = "absent" /\ Created(i)
  <1>0. deps \in [Cards -> SUBSET Cards] /\ turn \in [Cards -> TurnStates]
    BY DEF TypeOK
  <1>1. ASSUME NEW m \in Cards, NEW c \in Cards, NEW after \in SUBSET deps[m],
               Delegate(m, c, after)
        PROVE  \/ /\ Working(i) /\ turn'[i] = "dispatched"
                  /\ \E e \in Crew[i] : deps'[i] = deps[i] \cup {e}
               \/ phase[i] = "absent" /\ Created(i)
    <2>1. phase[c] = "absent" /\ c \in Crew[m] /\ Working(m) /\ turn'[m] = "dispatched"
      BY <1>0, <1>1, NextNewIsAbsent DEF Delegate, NextNew, SetTurn
    <2>2. deps' = [deps EXCEPT ![c] = after, ![m] = @ \cup {c}]
      BY <1>1 DEF Delegate
    <2>3. CASE i = m /\ i # c
      BY <1>0, <2>1, <2>2, <2>3
    <2>4. CASE i = c
      BY <1>1, <2>1, <2>4 DEF Created
    <2>5. CASE i # m /\ i # c
      BY <1>0, <2>2, <2>5
    <2> QED
      BY <2>3, <2>4, <2>5
  <1>2. ASSUME NEW j \in Cards, NEW c \in Cards, SpawnDelivery(j, c)
        PROVE  phase[i] = "absent" /\ Created(i)
    <2>1. i = c
      BY <1>0, <1>2 DEF SpawnDelivery
    <2> QED
      BY <1>2, <2>1, NextNewIsAbsent DEF SpawnDelivery, Created
  <1>3. CASE \E j \in Cards : \/ Claim(j) \/ VerdictStep(j)
                              \/ \E c \in Cards : ManagerRelease(j, c)
    BY <1>3 DEF Claim, ManagerRelease, VerdictStep, Reviewed, ReviewVerdict,
                ReviewCardCloses, HumanApprove, HumanFollowUp, card
  <1>4. ASSUME NEW j \in Cards, TurnStep(j), \A c \in Cards : ~SpawnDelivery(j, c)
        PROVE  FALSE
    BY <1>4 DEF TurnStep, TurnStart, TurnFail, TurnFinish, CloseIntake, ParkWrite,
                ParkSettledWrite, DoneWrite, TurnBlocked, card
  <1>5. ASSUME NEW k \in Passes, PassStep(k)
        PROVE  FALSE
    BY <1>5 DEF PassStep, BeginPass, PassCard, EndScan, CascadeCancel, CascadeStamp,
                EndPass, card
  <1>6. CASE TickStep \/ OutageStep
    BY <1>6 DEF TickStep, TickSettle, TickRelease, OutageStep, Stop, HoldCard, Halt, Crash,
                ResumeCard, Restart, card
  <1>7. CASE UNCHANGED vars
    BY <1>7 DEF vars
  <1> QED
    BY <1>1, <1>2, <1>3, <1>4, <1>5, <1>6, <1>7 DEF Next, ManagerStep

-----------------------------------------------------------------------------
(* The doomed set.                                                         *)

(* The phases of a card that waits to be claimed for the first time, or    *)
(* again: only such a card can be doomed without being dead.               *)
Idling == {"QUEUED", "WAITING_DEPENDENCIES", "READY"}

(* The doomed set is closed: it holds the dead cards and whom they block.  *)
LEMMA DoomedIsClosed ==
    /\ Dead \subseteq Doomed
    /\ \A i \in Cards : BlockedBy(i, Doomed) => i \in Doomed
  <1>1. Dead \subseteq Cards
    BY DEF Dead
  <1>2. ASSUME NEW i \in Cards, BlockedBy(i, Doomed), NEW S \in SUBSET Cards,
               Dead \subseteq S, \A j \in Cards : BlockedBy(j, S) => j \in S
        PROVE  i \in S
    <2>1. Doomed \subseteq S
      BY <1>2 DEF Doomed
    <2>2. BlockedBy(i, S)
      BY <1>2, <2>1 DEF BlockedBy
    <2> QED
      BY <1>2, <2>2
  <1> QED
    BY <1>1, <1>2 DEF Doomed

LEMMA DoomedStaysClosed == (\A i \in Cards : BlockedBy(i, Doomed) => i \in Doomed)'
  BY DoomedIsClosed, PTL

(* It is the least such set: who is in it is dead or blocked by it.        *)
LEMMA DoomedUnfolds ==
    ASSUME NEW i \in Doomed
    PROVE  i \in Cards /\ (i \in Dead \/ BlockedBy(i, Doomed))
  <1> DEFINE S == {j \in Cards : j \in Dead \/ BlockedBy(j, Doomed)}
  <1>1. S \subseteq Doomed
    BY DoomedIsClosed
  <1>2. Dead \subseteq S
    BY DEF Dead
  <1>3. ASSUME NEW j \in Cards, BlockedBy(j, S)
        PROVE  j \in S
    BY <1>1, <1>3 DEF BlockedBy
  <1>4. i \in Cards /\ S \in SUBSET Cards
    BY DEF Doomed
  <1>5. i \in S
    <2> HIDE DEF S
    <2> QED
      BY <1>2, <1>3, <1>4 DEF Doomed
  <1> QED
    BY <1>5

(* Among cards that wait for nobody else, doom stands through a step that  *)
(* leaves each of them doomed itself, or idle and as blocked as it was.    *)
LEMMA DoomStands ==
    ASSUME NEW W \in SUBSET Cards, \A i \in W : deps[i] \subseteq W,
           \A i \in W \cap Doomed :
              \/ i \in Doomed'
              \/ /\ i \notin Dead /\ phase'[i] \in Idling /\ ~Stamped(i)'
                 /\ deps[i] \subseteq deps'[i],
           \A i \in Doomed : phase'[i] # "APPROVED"
    PROVE  W \cap Doomed \subseteq Doomed'
  <1> DEFINE U == {i \in Doomed : i \in W => i \in Doomed'}
  <1>1. U \in SUBSET Cards
    BY DEF Doomed
  <1>2. Dead \subseteq U
    BY DoomedIsClosed
  <1>3. ASSUME NEW i \in Cards, BlockedBy(i, U)
        PROVE  i \in U
    <2>1. PICK d \in deps[i] \cap U : Hard(i, d)
      BY <1>3 DEF BlockedBy
    <2>2. i \in Doomed
      BY <1>3, DoomedIsClosed DEF BlockedBy
    <2>3. ASSUME i \in W
          PROVE  i \in Doomed'
      <3>1. CASE i \in Doomed'
        BY <3>1
      <3>2. CASE phase'[i] \in Idling /\ ~Stamped(i)' /\ deps[i] \subseteq deps'[i]
        <4>1. d \in Doomed' /\ phase'[d] # "APPROVED"
          BY <2>1, <2>3
        <4>2. BlockedBy(i, Doomed)'
          BY <2>1, <3>2, <4>1 DEF BlockedBy, Idling
        <4> QED
          BY <1>3, <4>2, DoomedStaysClosed
      <3> QED
        BY <2>2, <2>3, <3>1, <3>2
    <2> QED
      BY <2>2, <2>3
  <1>4. Doomed \subseteq U
    <2> HIDE DEF U
    <2> QED
      BY <1>1, <1>2, <1>3 DEF Doomed
  <1> QED
    BY <1>4

(* A card that idles goes on idling, ends, or starts to run.               *)
LEMMA IdlingMoves ==
    ASSUME TypeOK, [Next]_vars, NEW i \in Cards, phase[i] \in Idling
    PROVE  \/ phase'[i] \in Idling \cup {"FAILED", "CANCELLED"}
           \/ phase[i] = "READY" /\ phase'[i] = "RUNNING"
  <1> USE DEF Idling
  <1>0. phase \in [Cards -> CardPhase]
    BY DEF TypeOK
  <1> SUFFICES ASSUME phase'[i] # phase[i]
               PROVE  \/ phase'[i] \in Idling \cup {"FAILED", "CANCELLED"}
                      \/ phase[i] = "READY" /\ phase'[i] = "RUNNING"
    OBVIOUS
  <1>1. ASSUME NEW to, Legal(phase[i], to)
        PROVE  \/ to \in Idling \cup {"FAILED", "CANCELLED"}
               \/ phase[i] = "READY" /\ to = "RUNNING"
    BY <1>1 DEF Legal, ALLOWED_TRANSITIONS, OwnEdges, DONE_PHASES, IN_PROGRESS_PHASES,
                IN_REVIEW_PHASES, UNIVERSAL_EXITS
  <1>2. ASSUME NEW to, WriteOrKeep(i, to)
        PROVE  Legal(phase[i], phase'[i])
    BY <1>0, <1>2 DEF WriteOrKeep
  <1>3. CASE Claim(i)
    BY <1>0, <1>3 DEF Claim, RUNNABLE_PHASES, IN_PROGRESS_PHASES
  <1>4. CASE TurnStep(i)
    <2>1. CASE TurnStart(i) \/ TurnFail(i) \/ DoneWrite(i)
                 \/ \E to \in BlockedOutcomes : TurnBlocked(i, to)
      <3>1. Legal(phase[i], phase'[i])
        BY <1>2, <2>1 DEF TurnStart, TurnFail, DoneWrite, TurnBlocked
      <3> QED
        BY <1>1, <3>1
    <2>2. CASE TurnFinish(i)
      BY <2>2 DEF TurnFinish, card
    <2>3. CASE \E c \in Cards : SpawnDelivery(i, c)
      <3>1. PICK c \in Cards : SpawnDelivery(i, c)
        BY <2>3
      <3>2. c = i /\ phase[c] = "absent"
        BY <1>0, <3>1, NextNewIsAbsent DEF SpawnDelivery
      <3> QED
        BY <3>2
    <2>4. CASE CloseIntake(i)
      <3>1. Legal(phase[i], phase'[i])
        BY <1>0, <2>4 DEF CloseIntake, Legal
      <3> QED
        BY <1>1, <3>1
    <2>5. CASE ParkWrite(i) \/ ParkSettledWrite(i)
      <3>1. Legal(phase[i], phase'[i])
        BY <1>0, <2>5 DEF ParkWrite, ParkSettledWrite
      <3> QED
        BY <1>1, <3>1
    <2> QED
      BY <1>4, <2>1, <2>2, <2>3, <2>4, <2>5 DEF TurnStep
  <1>5. CASE VerdictStep(i)
    BY <1>5 DEF VerdictStep, Reviewed, ReviewVerdict, ReviewCardCloses, HumanApprove,
                HumanFollowUp, card
  <1>6. CASE TickRelease(i) \/ ResumeCard(i)
    <2>1. Legal(phase[i], phase'[i])
      BY <1>0, <1>2, <1>6 DEF TickRelease, ResumeCard
    <2> QED
      BY <1>1, <2>1
  <1>7. CASE Created(i) \/ \E m \in Cards : ManagerRelease(m, i)
    BY <1>0, <1>7, NextNewIsAbsent DEF Created, Delegate, SpawnDelivery, ManagerRelease
  <1>8. ASSUME NEW k \in Passes, Passed(k, i)
        PROVE  Legal(phase[i], phase'[i])
    BY <1>0, <1>8 DEF Passed, PassCard, Legal
  <1>9. CASE phase'[i] = "CANCELLED"
    BY <1>9
  <1> QED
    BY <1>1, <1>3, <1>4, <1>5, <1>6, <1>7, <1>8, <1>9, PhaseWriter

-----------------------------------------------------------------------------
(* What passes plan and what claims rest on.                               *)

(* What a pass plans for a card is what it planned, nothing, or what it    *)
(* has just read off the run.                                              *)
LEMMA PlanWriter ==
    ASSUME TypeOK, [Next]_vars, NEW k \in Passes, NEW i \in Cards
    PROVE  pass'[k].plan[i] \in {pass[k].plan[i], NoDecision, Decision(i)}
  <1> DEFINE Goal == pass'[k].plan[i] \in {pass[k].plan[i], NoDecision, Decision(i)}
  <1> SUFFICES Goal
    OBVIOUS
  <1>0. pass \in [Passes -> PassStates]
    BY DEF TypeOK
  <1>1. pass[k] \in PassStates
    BY <1>0
  <1>2. CASE UNCHANGED pass
    BY <1>2
  <1>3. CASE StartPass \/ StartPassTwice
    <2>1. ASSUME NEW q \in Passes,
                 \/ pass' = [pass EXCEPT ![q].st = "due"]
                 \/ pass' = [pass EXCEPT ![q].st = "due", ![q].again = TRUE]
          PROVE  pass'[k].plan = pass[k].plan
      BY <1>0, <1>1, <2>1 DEF PassStates
    <2>2. pass'[k].plan = pass[k].plan
      BY <1>3, <2>1 DEF StartPass, StartPassTwice
    <2> QED
      BY <2>2
  <1>4. ASSUME NEW j, NEW to, WriteOrKeep(j, to) \/ Notify(j, to)
        PROVE  Goal
    <2>1. UNCHANGED pass \/ StartPass
      BY <1>4 DEF WriteOrKeep, Notify
    <2> HIDE DEF Goal
    <2> QED
      BY <1>2, <1>3, <2>1
  <1>5. ASSUME NEW j \in Cards, TurnStep(j)
        PROVE  Goal
    <2>1. CASE CloseIntake(j)
      <3>1. UNCHANGED pass \/ Notify(j, "APPROVED")
        BY <2>1 DEF CloseIntake
      <3> HIDE DEF Goal
      <3> QED
        BY <1>2, <1>4, <3>1
    <2> HIDE DEF Goal
    <2> QED
      BY <1>2, <1>3, <1>4, <1>5, <2>1 DEF TurnStep, TurnStart, TurnFail, TurnFinish,
         SpawnDelivery,
         ParkWrite, ParkSettledWrite, DoneWrite, TurnBlocked
  <1>6. ASSUME NEW j \in Cards, Claim(j) \/ ManagerStep(j)
        PROVE  UNCHANGED pass
    BY <1>6 DEF Claim, ManagerStep, Delegate, ManagerRelease
  <1>7. ASSUME NEW j \in Cards, VerdictStep(j)
        PROVE  Goal
    <2>1. \/ StartPass \/ StartPassTwice
          \/ \E to : Notify(j, to)
      BY <1>7 DEF VerdictStep, Reviewed, ReviewVerdict, ReviewCardCloses, HumanApprove,
                  HumanFollowUp
    <2> HIDE DEF Goal
    <2> QED
      BY <1>3, <1>4, <2>1
  <1>8. ASSUME NEW q \in Passes, PassStep(q)
        PROVE  Goal
    <2>0. pass[q] \in PassStates
      BY <1>0
    <2>1. CASE BeginPass(q)
      <3>1. pass'[k] = pass[k] \/ pass'[k].plan[i] \in {NoDecision, Decision(i)}
        BY <1>0, <2>1 DEF BeginPass
      <3> QED
        BY <3>1
    <2>2. CASE PassCard(q)
      <3>1. PICK j, t : pass' = [pass EXCEPT ![q].todo = t, ![q].plan[j] = NoDecision]
        BY <2>2 DEF PassCard
      <3> QED
        BY <1>0, <1>1, <2>0, <3>1 DEF PassStates
    <2>3. CASE EndScan(q)
      <3>1. pass'[k].plan = pass[k].plan
        BY <1>0, <1>1, <2>0, <2>3 DEF EndScan, PassStates
      <3> QED
        BY <3>1
    <2>4. CASE CascadeCancel(q)
      <3>1. PICK a, c : \/ pass' = [pass EXCEPT ![q].cancel[a] = c]
                        \/ pass' = [pass EXCEPT ![q].cancel[a] = c, ![q].spoilt = TRUE]
        BY <2>4 DEF CascadeCancel
      <3>2. PICK e : pass' = [pass EXCEPT ![q] = e] /\ e.plan = pass[q].plan
        <4>1. CASE pass' = [pass EXCEPT ![q].cancel[a] = c]
          <5> DEFINE e == [pass[q] EXCEPT !.cancel[a] = c]
          <5>1. pass' = [pass EXCEPT ![q] = e]
            BY <4>1
          <5>2. e.plan = pass[q].plan
            BY <2>0 DEF PassStates
          <5> QED
            BY <5>1, <5>2
        <4>2. CASE pass' = [pass EXCEPT ![q].cancel[a] = c, ![q].spoilt = TRUE]
          <5> DEFINE e == [pass[q] EXCEPT !.cancel[a] = c, !.spoilt = TRUE]
          <5>1. pass' = [pass EXCEPT ![q] = e]
            BY <4>2
          <5>2. e.plan = pass[q].plan
            BY <2>0 DEF PassStates
          <5> QED
            BY <5>1, <5>2
        <4> QED
          BY <3>1, <4>1, <4>2
      <3> QED
        BY <1>0, <3>2
    <2>5. CASE CascadeStamp(q)
      <3>1. PICK o : pass' = [pass EXCEPT ![q].owners = o, ![q].spoilt = FALSE]
        BY <2>5 DEF CascadeStamp
      <3>2. pass'[k].plan = pass[k].plan
        BY <1>0, <1>1, <2>0, <3>1 DEF PassStates
      <3> QED
        BY <3>2
    <2>6. CASE EndPass(q)
      <3>1. pass'[k] = pass[k] \/ pass'[k].plan[i] = NoDecision
        BY <1>0, <2>6 DEF EndPass, IdlePass
      <3> QED
        BY <3>1
    <2> HIDE DEF Goal
    <2> QED
      BY <1>8, <2>1, <2>2, <2>3, <2>4, <2>5, <2>6 DEF PassStep
  <1>9. CASE TickStep
    <2> HIDE DEF Goal
    <2> QED
      BY <1>3, <1>4, <1>9 DEF TickStep, TickSettle, TickRelease
  <1>10. CASE OutageStep
    <2>1. ASSUME NEW alive \in SUBSET Passes, Halt(alive)
          PROVE  Goal
      <3>1. pass'[k] \in {pass[k], IdlePass}
        BY <2>1 DEF Halt
      <3> QED
        BY <3>1 DEF IdlePass
    <2>2. CASE Crash
      BY <2>2 DEF Crash, IdlePass
    <2>3. CASE Stop \/ (\E j \in Cards : HoldCard(j)) \/ Restart
      BY <2>3 DEF Stop, HoldCard, Restart
    <2> HIDE DEF Goal
    <2> QED
      BY <1>4, <1>10, <2>1, <2>2, <2>3 DEF OutageStep, ResumeCard
  <1>11. CASE UNCHANGED vars
    BY <1>11 DEF vars
  <1> HIDE DEF Goal
  <1> QED
    BY <1>2, <1>5, <1>6, <1>7, <1>8, <1>9, <1>10, <1>11 DEF Next

(* A pass moves cards to be worked on or to wait, and it stamps a card     *)
(* only with failures it has found.                                        *)
Woken == {"READY", "READY_FOR_REWORK", "RUNNING", "WAITING_DEPENDENCIES",
          "WAITING_FOR_CHILDREN"}

PlansFit ==
    \A k \in Passes, i \in Cards :
        /\ pass[k].plan[i].to \in Woken \cup {pass[k].plan[i].from}
        /\ pass[k].plan[i].stamp = NoStamp \/ pass[k].plan[i].stamp.over # {}

LEMMA DecisionFits ==
    ASSUME NEW i \in Cards
    PROVE  /\ Decision(i).to \in Woken \cup {Decision(i).from}
           /\ Decision(i).stamp = NoStamp \/ Decision(i).stamp.over # {}
  <1>1. TargetPhase(i) \in Woken \cup {phase[i]}
    BY DEF TargetPhase, ReleasePhase, Woken
  <1>2. Settles(i) => deps[i] \cap (Dead \cup Doomed) # {}
    BY DEF Settles, SettledWithFailures
  <1> QED
    BY <1>1, <1>2 DEF Decision

(* A claimed card has been released over failures, or all it must wait for *)
(* is approved.                                                            *)
ClaimedOver ==
    \A i \in Cards :
        turn[i] = "claimed" =>
            /\ Exists(i)
            /\ Stamped(i) \/ \A d \in deps[i] : Hard(i, d) => phase[d] = "APPROVED"

LEMMA Claims ==
    ASSUME TypeOK, [Next]_vars, NEW i \in Cards, turn[i] # "claimed", turn'[i] = "claimed"
    PROVE  Claim(i)
  <1>0. turn \in [Cards -> TurnStates]
    BY DEF TypeOK
  <1>1. ASSUME NEW j \in Cards, Claim(j)
        PROVE  Claim(i)
    <2>1. j = i
      BY <1>0, <1>1 DEF Claim, SetTurn
    <2> QED
      BY <1>1, <2>1
  <1>2. ASSUME NEW j \in Cards, TurnStep(j)
        PROVE  FALSE
    BY <1>0, <1>2 DEF TurnStep, TurnStart, TurnFail, TurnFinish, SpawnDelivery, CloseIntake,
                ParkWrite, ParkSettledWrite, DoneWrite, TurnBlocked, SetTurn, Outcome, DoneState
  <1>3. ASSUME NEW j \in Cards, ManagerStep(j) \/ VerdictStep(j)
        PROVE  FALSE
    BY <1>0, <1>3 DEF ManagerStep, Delegate, ManagerRelease, VerdictStep, Reviewed,
                ReviewVerdict, ReviewCardCloses, HumanApprove, HumanFollowUp, SetTurn
  <1>4. ASSUME NEW k \in Passes, PassStep(k)
        PROVE  FALSE
    BY <1>4 DEF PassStep, BeginPass, PassCard, EndScan, CascadeCancel, CascadeStamp, EndPass
  <1>5. ~TickStep /\ ~OutageStep
    BY DEF TickStep, TickSettle, TickRelease, OutageStep, Stop, HoldCard, Halt, Crash,
           ResumeCard, Restart
  <1> QED
    BY <1>1, <1>2, <1>3, <1>4, <1>5 DEF Next, vars

(* A card that exists goes on existing.                                    *)
LEMMA CardsStay ==
    ASSUME TypeOK, [Next]_vars, NEW i \in Cards, Exists(i)
    PROVE  Exists(i)'
  <1>0. phase \in [Cards -> CardPhase]
    BY DEF TypeOK
  <1> SUFFICES ASSUME phase'[i] # phase[i]
               PROVE  phase'[i] # "absent"
    BY DEF Exists
  <1>1. ASSUME NEW p, Legal(p, "absent")
        PROVE  p = "absent"
    BY <1>1 DEF Legal, ALLOWED_TRANSITIONS, OwnEdges, DONE_PHASES, IN_PROGRESS_PHASES,
                IN_REVIEW_PHASES, UNIVERSAL_EXITS, RECOVERY_EXITS
  <1>2. ASSUME NEW to, WriteOrKeep(i, to)
        PROVE  phase'[i] # "absent"
    BY <1>0, <1>1, <1>2 DEF WriteOrKeep, Exists
  <1>3. CASE Claim(i)
    BY <1>0, <1>3 DEF Claim
  <1>4. CASE TurnStep(i)
    <2>1. CASE TurnStart(i) \/ TurnFail(i) \/ DoneWrite(i)
                 \/ \E to \in BlockedOutcomes : TurnBlocked(i, to)
      BY <1>2, <2>1 DEF TurnStart, TurnFail, DoneWrite, TurnBlocked
    <2>2. CASE TurnFinish(i)
      BY <2>2 DEF TurnFinish, card
    <2>3. CASE \E c \in Cards : SpawnDelivery(i, c)
      BY <1>0, <2>3 DEF SpawnDelivery
    <2>4. CASE CloseIntake(i)
      BY <1>0, <2>4 DEF CloseIntake
    <2>5. CASE ParkWrite(i) \/ ParkSettledWrite(i)
      BY <1>0, <2>5 DEF ParkWrite, ParkSettledWrite
    <2> QED
      BY <1>4, <2>1, <2>2, <2>3, <2>4, <2>5 DEF TurnStep
  <1>5. CASE VerdictStep(i)
    BY <1>0, <1>5 DEF VerdictStep, Reviewed, ReviewVerdict, ReviewCardCloses, HumanApprove,
                      HumanFollowUp, card
  <1>6. CASE TickRelease(i)
    BY <1>0, <1>6 DEF TickRelease, ReleasePhase
  <1>7. CASE ResumeCard(i)
    BY <1>2, <1>7 DEF ResumeCard
  <1>8. CASE Created(i)
    <2>1. CASE \E m \in Cards : \E after \in SUBSET deps[m] : Delegate(m, i, after)
      BY <1>0, <2>1 DEF Delegate
    <2>2. CASE \E m \in Cards : SpawnDelivery(m, i)
      BY <1>0, <2>2 DEF SpawnDelivery
    <2> QED
      BY <1>8, <2>1, <2>2 DEF Created
  <1>9. CASE \E m \in Cards : ManagerRelease(m, i)
    BY <1>0, <1>9 DEF ManagerRelease
  <1>10. ASSUME NEW k \in Passes, Passed(k, i)
         PROVE  phase'[i] # "absent"
    BY <1>0, <1>1, <1>10 DEF Passed, PassCard, Exists
  <1>11. CASE phase'[i] = "CANCELLED"
    BY <1>11
  <1> QED
    BY <1>3, <1>4, <1>5, <1>6, <1>7, <1>8, <1>9, <1>10, <1>11, PhaseWriter

FrontierInv == TypeOK /\ PlansFit /\ ClaimedOver

(* A stamp is only taken back by a card's own turn, when that parks again. *)
LEMMA StampsStay ==
    ASSUME FrontierInv, [Next]_vars, NEW i \in Cards, Stamped(i), turn[i] # "repark"
    PROVE  Stamped(i)'
  <1>1. CASE stamp'[i].over = stamp[i].over
    BY <1>1 DEF Stamped
  <1>2. ASSUME NEW k \in Passes, pass[k].plan[i].stamp # NoStamp,
               stamp'[i] = pass[k].plan[i].stamp
        PROVE  Stamped(i)'
    BY <1>2 DEF FrontierInv, PlansFit, Stamped
  <1> QED
    BY <1>1, <1>2, StampWriter DEF FrontierInv

LEMMA FrontierInit == Init => FrontierInv
  <1> SUFFICES ASSUME Init
               PROVE  FrontierInv
    OBVIOUS
  <1>1. PlansFit
    BY DEF Init, PlansFit, IdlePass, NoDecision
  <1>2. ClaimedOver
    BY DEF Init, ClaimedOver
  <1> QED
    BY <1>1, <1>2, InitType DEF FrontierInv

LEMMA FrontierStep == FrontierInv /\ TypeOK' /\ [Next]_vars => FrontierInv'
  <1> SUFFICES ASSUME FrontierInv, TypeOK', [Next]_vars
               PROVE  PlansFit' /\ ClaimedOver'
    BY DEF FrontierInv
  <1>0. TypeOK
    BY DEF FrontierInv
  <1>1. PlansFit'
    <2> SUFFICES ASSUME NEW k \in Passes, NEW i \in Cards
                 PROVE  /\ pass'[k].plan[i].to \in Woken \cup {pass'[k].plan[i].from}
                        /\ \/ pass'[k].plan[i].stamp = NoStamp
                           \/ pass'[k].plan[i].stamp.over # {}
      BY DEF PlansFit, Woken, NoStamp
    <2>1. CASE pass'[k].plan[i] = pass[k].plan[i]
      BY <2>1 DEF FrontierInv, PlansFit
    <2>2. CASE pass'[k].plan[i] = NoDecision
      BY <2>2 DEF NoDecision
    <2>3. CASE pass'[k].plan[i] = Decision(i)
      BY <2>3, DecisionFits
    <2> QED
      BY <1>0, <2>1, <2>2, <2>3, PlanWriter
  <1>2. ClaimedOver'
    <2> SUFFICES ASSUME NEW i \in Cards, turn'[i] = "claimed"
                 PROVE  /\ Exists(i)'
                        /\ \/ Stamped(i)'
                           \/ \A d \in deps'[i] : Hard(i, d) => phase'[d] = "APPROVED"
      BY DEF ClaimedOver, Hard
    <2>1. CASE turn[i] = "claimed"
      <3>1. Exists(i)'
        BY <1>0, <2>1, CardsStay DEF FrontierInv, ClaimedOver
      <3>2. CASE Stamped(i)
        BY <2>1, <3>1, <3>2, StampsStay
      <3>3. CASE \A d \in deps[i] : Hard(i, d) => phase[d] = "APPROVED"
        <4>1. deps'[i] = deps[i]
          BY <1>0, <2>1, DepsWriter DEF Working, FrontierInv, ClaimedOver, Exists
        <4>2. deps[i] \subseteq Cards
          BY <1>0 DEF TypeOK
        <4> QED
          BY <1>0, <3>1, <3>3, <4>1, <4>2, NextKeepsClosed DEF KeepsClosed, Closed
      <3> QED
        BY <2>1, <3>2, <3>3 DEF FrontierInv, ClaimedOver
    <2>2. CASE turn[i] # "claimed"
      <3>1. Claim(i)
        BY <1>0, <2>2, Claims
      <3>2. phase' = [phase EXCEPT ![i] = "RUNNING"] /\ UNCHANGED <<deps, stamp>>
        BY <3>1 DEF Claim
      <3>3. Exists(i)'
        BY <1>0, <3>2 DEF Exists, TypeOK
      <3>4. ASSUME ~Stamped(i), NEW d \in deps[i], Hard(i, d)
            PROVE  phase[d] = "APPROVED"
        BY <3>1, <3>4 DEF Claim, DepAllowsClaim, Stamped, Hard
      <3>5. phase[i] # "APPROVED"
        BY <3>1 DEF Claim, RUNNABLE_PHASES, IN_PROGRESS_PHASES
      <3>6. deps[i] \subseteq Cards
        BY <1>0 DEF TypeOK
      <3> QED
        BY <1>0, <3>2, <3>3, <3>4, <3>5, <3>6 DEF Stamped, TypeOK
    <2> QED
      BY <2>1, <2>2
  <1> QED
    BY <1>1, <1>2

THEOREM FrontierInvariant == Spec => []FrontierInv
  <1>1. FrontierInv /\ TypeOK /\ TypeOK' /\ [Next]_vars => FrontierInv'
    BY FrontierStep
  <1> QED
    BY <1>1, FrontierInit, TypeCorrect, PTL DEF Spec

-----------------------------------------------------------------------------
(* Doom stands, but for the passes.                                        *)

DeadStays(i) == phase'[i] \in {"FAILED", "CANCELLED"}

(* A dead card stays dead, unless a pass takes it up.                      *)
LEMMA DeadCards ==
    ASSUME TypeOK, [Next]_vars, NEW i \in Dead
    PROVE  \/ DeadStays(i)
           \/ phase'[i] = "READY" /\ \E k \in Passes : Passed(k, i)
  <1>0. phase \in [Cards -> CardPhase] /\ i \in Cards
    BY DEF TypeOK, Dead
  <1> DEFINE Taken == \E k \in Passes : Passed(k, i)
  <1> SUFFICES DeadStays(i) \/ (phase'[i] = "READY" /\ Taken)
    OBVIOUS
  <1> HIDE DEF Taken
  <1>1. CASE phase[i] = "CANCELLED"
    <2>1. phase'[i] = "CANCELLED"
      BY <1>0, <1>1, NextKeepsClosed DEF KeepsClosed, Closed
    <2> QED
      BY <2>1 DEF DeadStays
  <1>2. CASE phase[i] = "FAILED" /\ phase'[i] # phase[i]
    <2> USE DEF DeadStays
    <2>0. ASSUME NEW to, Legal("FAILED", to), to # "FAILED"
          PROVE  to = "READY"
      BY <2>0, OnlyRetryReopens DEF DONE_PHASES
    <2>1. ASSUME NEW to, WriteOrKeep(i, to)
          PROVE  to = "READY"
      BY <1>0, <1>2, <2>0, <2>1 DEF WriteOrKeep
    <2>2. ~Claim(i)
      BY <1>2 DEF Claim, RUNNABLE_PHASES, IN_PROGRESS_PHASES
    <2>3. ~TurnStep(i)
      <3>1. ~TurnStart(i) /\ ~TurnFail(i)
        BY <2>1 DEF TurnStart, TurnFail
      <3>2. ~DoneWrite(i)
        BY <2>1 DEF DoneWrite, DoneTarget
      <3>3. ASSUME NEW to \in BlockedOutcomes
            PROVE  ~TurnBlocked(i, to)
        BY <2>1, EngineAssumption DEF TurnBlocked
      <3>4. ~TurnFinish(i)
        BY <1>2 DEF TurnFinish, card
      <3>5. ASSUME NEW c \in Cards
            PROVE  ~SpawnDelivery(i, c)
        BY <1>0, <1>2, NextNewIsAbsent DEF SpawnDelivery
      <3>6. ~CloseIntake(i)
        BY <1>0, <1>2, <2>0 DEF CloseIntake
      <3>7. ~ParkWrite(i) /\ ~ParkSettledWrite(i)
        BY <1>0, <1>2, <2>0 DEF ParkWrite, ParkSettledWrite
      <3> QED
        BY <3>1, <3>2, <3>3, <3>4, <3>5, <3>6, <3>7 DEF TurnStep
    <2>4. ~VerdictStep(i)
      BY <1>2 DEF VerdictStep, Reviewed, ReviewVerdict, ReviewCardCloses, HumanApprove,
                  HumanFollowUp, card
    <2>5. ~TickRelease(i) /\ ~ResumeCard(i)
      BY <1>2 DEF TickRelease, ResumeCard, DONE_PHASES
    <2>6. ~Created(i) /\ \A m \in Cards : ~ManagerRelease(m, i)
      BY <1>0, <1>2, NextNewIsAbsent DEF Created, Delegate, SpawnDelivery, ManagerRelease
    <2>7. ASSUME NEW k \in Passes, Passed(k, i)
          PROVE  phase'[i] = "READY"
      BY <1>0, <1>2, <2>0, <2>7 DEF Passed, PassCard
    <2>8. Taken \/ phase'[i] = "CANCELLED"
      BY <1>0, <1>2, <2>2, <2>3, <2>4, <2>5, <2>6, PhaseWriter DEF Taken
    <2>9. Taken => phase'[i] = "READY"
      BY <2>7 DEF Taken
    <2> QED
      BY <2>8, <2>9
  <1>3. CASE phase[i] = "FAILED" /\ phase'[i] = phase[i]
    BY <1>3 DEF DeadStays
  <1>4. phase[i] \in {"FAILED", "CANCELLED"}
    BY DEF Dead
  <1> QED
    BY <1>1, <1>2, <1>3, <1>4

(* Whom the dispatcher, a turn or a resume would start over a dependency   *)
(* that is hard, not approved and not among its stamp: nobody.             *)
LEMMA BlockedIsNotStarted ==
    ASSUME FrontierInv, [Next]_vars, NEW i \in Cards, BlockedBy(i, Doomed),
           phase'[i] = "RUNNING"
    PROVE  \E k \in Passes : Passed(k, i)
  <1>0. phase \in [Cards -> CardPhase] /\ TypeOK
    BY DEF FrontierInv, TypeOK
  <1>1. PICK d \in deps[i] : Hard(i, d) /\ phase[d] # "APPROVED"
    BY DEF BlockedBy
  <1>2. ~Stamped(i) /\ phase[i] \in Idling
    BY DEF BlockedBy, Idling
  <1>3. ~DepAllowsClaim(i, d)
    BY <1>1, <1>2 DEF DepAllowsClaim, Hard, Stamped
  <1>4. ~Claim(i)
    BY <1>3 DEF Claim
  <1>5. ~TurnStep(i)
    <2>1. ASSUME NEW to, WriteOrKeep(i, to)
          PROVE  to = "RUNNING"
      BY <1>0, <1>2, <2>1 DEF WriteOrKeep, Idling
    <2>2. ~TurnStart(i)
      BY <1>1, <1>2 DEF FrontierInv, ClaimedOver, TurnStart
    <2>3. ~TurnFail(i)
      BY <2>1 DEF TurnFail
    <2>4. ~DoneWrite(i)
      BY <2>1 DEF DoneWrite, DoneTarget
    <2>5. ASSUME NEW to \in BlockedOutcomes
          PROVE  ~TurnBlocked(i, to)
      BY <2>1, EngineAssumption DEF TurnBlocked
    <2>6. ~TurnFinish(i)
      BY <1>2 DEF TurnFinish, card, Idling
    <2>7. ASSUME NEW c \in Cards
          PROVE  ~SpawnDelivery(i, c)
      BY <1>0, <1>2, NextNewIsAbsent DEF SpawnDelivery, Idling
    <2>8. ~CloseIntake(i) /\ ~ParkWrite(i) /\ ~ParkSettledWrite(i)
      BY <1>0, <1>2 DEF CloseIntake, ParkWrite, ParkSettledWrite, Idling
    <2> QED
      BY <2>2, <2>3, <2>4, <2>5, <2>6, <2>7, <2>8 DEF TurnStep
  <1>6. ~VerdictStep(i)
    BY <1>2 DEF VerdictStep, Reviewed, ReviewVerdict, ReviewCardCloses, HumanApprove,
                HumanFollowUp, card, Idling
  <1>7. ~TickRelease(i)
    BY <1>0 DEF TickRelease, ReleasePhase
  <1>8. ~ResumeCard(i)
    <2>1. ResumePhase(i) # "RUNNING"
      BY <1>1, <1>2, <1>3
         DEF ResumePhase, IN_REVIEW_PHASES, Idling
    <2> QED
      BY <1>0, <1>2, <2>1 DEF ResumeCard, WriteOrKeep, Idling
  <1>9. ~Created(i) /\ \A m \in Cards : ~ManagerRelease(m, i)
    BY <1>0, <1>2, NextNewIsAbsent DEF Created, Delegate, SpawnDelivery, ManagerRelease, Idling
  <1> QED
    BY <1>0, <1>2, <1>4, <1>5, <1>6, <1>7, <1>8, <1>9, PhaseWriter DEF Idling

(* What a step makes of a doomed card: it is dead, or idle and waits for   *)
(* what it waited for, or a pass has taken it up.                          *)
LEMMA DoomedMoves ==
    ASSUME FrontierInv, [Next]_vars, NEW i \in Doomed
    PROVE  \/ DeadStays(i)
           \/ /\ i \notin Dead /\ phase'[i] \in Idling /\ ~Stamped(i)'
              /\ deps[i] \subseteq deps'[i]
           \/ /\ \E k \in Passes : Passed(k, i)
              /\ phase'[i] \in Idling \cup {"RUNNING"}
  <1>0. i \in Cards /\ (i \in Dead \/ BlockedBy(i, Doomed)) /\ TypeOK
    BY DoomedUnfolds DEF FrontierInv
  <1>1. CASE i \in Dead
    BY <1>0, <1>1, DeadCards DEF Idling
  <1>2. CASE i \notin Dead /\ ~\E k \in Passes : Passed(k, i)
    <2>1. BlockedBy(i, Doomed) /\ phase[i] \in Idling /\ ~Stamped(i)
      BY <1>0, <1>2 DEF BlockedBy, Idling
    <2>2. phase'[i] \in Idling \cup {"FAILED", "CANCELLED"}
      BY <1>0, <1>2, <2>1, IdlingMoves, BlockedIsNotStarted
    <2>3. deps[i] \subseteq deps'[i]
      BY <1>0, <2>1, DepsWriter DEF Idling
    <2>4. ~Legal(phase[i], "WAITING_FOR_CHILDREN")
      BY <2>1 DEF Idling, Legal, ALLOWED_TRANSITIONS, OwnEdges, DONE_PHASES, IN_PROGRESS_PHASES,
                  IN_REVIEW_PHASES, UNIVERSAL_EXITS
    <2>5. ~Stamped(i)'
      BY <1>0, <1>2, <2>1, <2>4, StampWriter DEF Stamped
    <2> QED
      BY <1>2, <2>2, <2>3, <2>5 DEF DeadStays
  <1>3. CASE i \notin Dead /\ \E k \in Passes : Passed(k, i)
    <2>1. phase[i] \in Idling
      BY <1>0, <1>3 DEF BlockedBy, Idling
    <2> QED
      BY <1>0, <1>3, <2>1, IdlingMoves DEF DeadStays
  <1> QED
    BY <1>1, <1>2, <1>3

(* Who is dead is doomed.                                                  *)
LEMMA DeadIsDoomed == (Dead \subseteq Doomed)'
  <1>1. Dead \subseteq Doomed
    BY DoomedIsClosed
  <1> QED
    BY <1>1, PTL

(* No step but a pass that takes up a doomed card undoes doom: among cards *)
(* that wait for nobody else it stands.                                    *)
LEMMA DoomIsKeptAmong ==
    ASSUME FrontierInv, [Next]_vars, NEW W \in SUBSET Cards, \A i \in W : deps[i] \subseteq W,
           \A i \in W \cap Doomed, k \in Passes : Passed(k, i) => i \in Doomed'
    PROVE  W \cap Doomed \subseteq Doomed'
  <1>1. ASSUME NEW i \in Doomed, DeadStays(i)
        PROVE  i \in Doomed'
    <2>1. i \in Cards
      BY DEF Doomed
    <2>2. i \in Dead'
      BY <1>1, <2>1 DEF Dead, DeadStays
    <2> QED
      BY <2>2, DeadIsDoomed
  <1>2. \A i \in W \cap Doomed : \/ i \in Doomed'
                                 \/ /\ i \notin Dead /\ phase'[i] \in Idling /\ ~Stamped(i)'
                                    /\ deps[i] \subseteq deps'[i]
    BY <1>1, DoomedMoves
  <1>3. \A i \in Doomed : phase'[i] # "APPROVED"
    BY DoomedMoves DEF DeadStays, Idling
  <1> QED
    BY <1>2, <1>3, DoomStands

LEMMA DoomIsKeptStep ==
    ASSUME FrontierInv, [Next]_vars
    PROVE  \/ Doomed \subseteq Doomed'
           \/ \E k \in Passes : PassCard(k) /\ First(pass[k].todo) \in Doomed \ Doomed'
  <1> SUFFICES ASSUME ~\E k \in Passes : PassCard(k) /\ First(pass[k].todo) \in Doomed \ Doomed'
               PROVE  Doomed \subseteq Doomed'
    OBVIOUS
  <1>1. \A i \in Cards \cap Doomed, k \in Passes : Passed(k, i) => i \in Doomed'
    BY DEF Passed
  <1>2. Doomed \subseteq Cards /\ \A i \in Cards : deps[i] \subseteq Cards
    BY DEF Doomed, FrontierInv, TypeOK
  <1>3. Cards \cap Doomed \subseteq Doomed'
    BY <1>1, <1>2, DoomIsKeptAmong
  <1> QED
    BY <1>2, <1>3

(* Once a card is doomed, only a pass that writes the card itself makes it *)
(* live again: no claim, turn, tick, verdict or resume, however old its    *)
(* decision, starts a card over work that cannot finish.                   *)
THEOREM OnlyPassesUndoDoom == Spec => DoomIsKept
  <1>1. FrontierInv /\ [Next]_vars =>
          [\/ Doomed \subseteq Doomed'
           \/ \E k \in Passes : PassCard(k) /\ First(pass[k].todo) \in Doomed \ Doomed']_vars
    BY DoomIsKeptStep
  <1> QED
    BY <1>1, FrontierInvariant, PTL DEF Spec, DoomIsKept

-----------------------------------------------------------------------------
(* Turns, checkpoints and approvals.                                       *)

(* Where a turn's state comes from: a claim, the turn itself, the card it  *)
(* has just delegated, or the end of the engine.                           *)
LEMMA TurnWriter ==
    ASSUME TypeOK, [Next]_vars, NEW i \in Cards, turn'[i] # turn[i]
    PROVE  \/ Claim(i) \/ TurnStep(i)
           \/ Working(i) /\ turn'[i] = "dispatched" /\ Crew[i] # {}
           \/ turn'[i] = "none"
  <1>0. turn \in [Cards -> TurnStates]
    BY DEF TypeOK
  <1>1. ASSUME NEW j \in Cards, Claim(j)
        PROVE  Claim(i)
    <2>1. j = i
      BY <1>0, <1>1 DEF Claim, SetTurn
    <2> QED
      BY <1>1, <2>1
  <1>2. ASSUME NEW j \in Cards, TurnStep(j)
        PROVE  TurnStep(i)
    <2>1. j = i
      BY <1>0, <1>2 DEF TurnStep, TurnStart, TurnFail, TurnFinish, SpawnDelivery, CloseIntake,
                  ParkWrite, ParkSettledWrite, DoneWrite, TurnBlocked, SetTurn
    <2> QED
      BY <1>2, <2>1
  <1>3. ASSUME NEW m \in Cards, ManagerStep(m)
        PROVE  Working(i) /\ turn'[i] = "dispatched" /\ Crew[i] # {}
    <2>1. ASSUME NEW c \in Cards, NEW after \in SUBSET deps[m], Delegate(m, c, after)
          PROVE  Working(i) /\ turn'[i] = "dispatched" /\ Crew[i] # {}
      BY <1>0, <2>1 DEF Delegate, SetTurn, NextNew
    <2>2. ASSUME NEW j \in Cards, ManagerRelease(m, j)
          PROVE  FALSE
      BY <2>2 DEF ManagerRelease
    <2> QED
      BY <1>3, <2>1, <2>2 DEF ManagerStep
  <1>4. ASSUME NEW j \in Cards, VerdictStep(j)
        PROVE  FALSE
    BY <1>4 DEF VerdictStep, Reviewed, ReviewVerdict, ReviewCardCloses, HumanApprove,
                HumanFollowUp
  <1>5. ASSUME NEW k \in Passes, PassStep(k)
        PROVE  FALSE
    BY <1>5 DEF PassStep, BeginPass, PassCard, EndScan, CascadeCancel, CascadeStamp, EndPass
  <1>6. CASE TickStep \/ OutageStep
    BY <1>6 DEF TickStep, TickSettle, TickRelease, OutageStep, Stop, HoldCard, Halt, Crash,
                ResumeCard, Restart
  <1> QED
    BY <1>1, <1>2, <1>3, <1>4, <1>5, <1>6 DEF Next, vars

(* Where the checkpoint's phases come from.                                *)
LEMMA SavedWriter ==
    ASSUME [Next]_vars
    PROVE  \/ saved' = phase /\ run' # "live" /\ UNCHANGED <<phase, deps>>
           \/ saved' = [i \in Cards |-> "absent"]
           \/ saved' = saved /\ (run # "live" => run' # "live")
  <1>1. CASE OutageStep
    BY <1>1 DEF OutageStep, Stop, HoldCard, Halt, Crash, ResumeCard, Restart, card
  <1>2. CASE TickStep \/ \E i \in Cards : Claim(i) \/ ManagerStep(i) \/ VerdictStep(i)
    BY <1>2 DEF TickStep, TickSettle, TickRelease, Claim, ManagerStep, Delegate, ManagerRelease,
                VerdictStep, Reviewed, ReviewVerdict, ReviewCardCloses, HumanApprove,
                HumanFollowUp, engine
  <1>3. CASE \E i \in Cards : TurnStep(i)
    BY <1>3 DEF TurnStep, TurnStart, TurnFail, TurnFinish, SpawnDelivery, CloseIntake,
                ParkWrite, ParkSettledWrite, DoneWrite, TurnBlocked, engine
  <1>4. CASE \E k \in Passes : PassStep(k)
    BY <1>4 DEF PassStep, BeginPass, PassCard, EndScan, CascadeCancel, CascadeStamp, EndPass,
                engine
  <1>5. CASE UNCHANGED vars
    BY <1>5 DEF vars
  <1> QED
    BY <1>1, <1>2, <1>3, <1>4, <1>5 DEF Next

(* A card enters review when its turn is done, or when a resume restores   *)
(* the phase the checkpoint has for it.                                    *)
LEMMA ReviewWriter ==
    ASSUME FrontierInv, [Next]_vars, NEW i \in Cards,
           phase[i] \notin IN_REVIEW_PHASES, phase'[i] \in IN_REVIEW_PHASES
    PROVE  DoneWrite(i) \/ (ResumeCard(i) /\ saved[i] = phase'[i])
  <1> USE DEF IN_REVIEW_PHASES
  <1>0. phase \in [Cards -> CardPhase] /\ TypeOK
    BY DEF FrontierInv, TypeOK
  <1>1. ASSUME NEW to, WriteOrKeep(i, to)
        PROVE  phase'[i] = to
    BY <1>0, <1>1 DEF WriteOrKeep
  <1>2. ~Claim(i)
    BY <1>0 DEF Claim
  <1>3. ASSUME TurnStep(i), ~DoneWrite(i)
        PROVE  FALSE
    <2>1. ~TurnStart(i) /\ ~TurnFail(i)
      BY <1>1 DEF TurnStart, TurnFail
    <2>2. ASSUME NEW to \in BlockedOutcomes
          PROVE  ~TurnBlocked(i, to)
      BY <1>1, EngineAssumption DEF TurnBlocked
    <2>3. ~TurnFinish(i)
      BY DEF TurnFinish, card
    <2>4. ASSUME NEW c \in Cards
          PROVE  ~SpawnDelivery(i, c)
      BY <1>0 DEF SpawnDelivery
    <2>5. ~CloseIntake(i)
      BY <1>0 DEF CloseIntake
    <2>6. ~ParkWrite(i) /\ ~ParkSettledWrite(i)
      BY <1>0 DEF ParkWrite, ParkSettledWrite
    <2> QED
      BY <1>3, <2>1, <2>2, <2>3, <2>4, <2>5, <2>6 DEF TurnStep
  <1>4. ~VerdictStep(i)
    BY <1>0 DEF VerdictStep, Reviewed, ReviewVerdict, ReviewCardCloses, HumanApprove,
                HumanFollowUp, card
  <1>5. ~TickRelease(i)
    BY <1>0 DEF TickRelease, ReleasePhase
  <1>6. ASSUME ResumeCard(i)
        PROVE  saved[i] = phase'[i]
    <2>1. phase'[i] = ResumePhase(i)
      BY <1>1, <1>6 DEF ResumeCard
    <2>2. ResumePhase(i) \in {phase[i], saved[i], "READY", "WAITING_FOR_CHILDREN",
                              "WAITING_DEPENDENCIES"}
      BY DEF ResumePhase
    <2> QED
      BY <2>1, <2>2
  <1>7. ~Created(i) /\ \A m \in Cards : ~ManagerRelease(m, i)
    BY <1>0 DEF Created, Delegate, SpawnDelivery, ManagerRelease
  <1>8. ASSUME NEW k \in Passes
        PROVE  ~Passed(k, i)
    <2>1. pass[k].plan[i].to \in Woken \cup {pass[k].plan[i].from}
      BY DEF FrontierInv, PlansFit
    <2> QED
      BY <1>0, <2>1 DEF Passed, PassCard, Woken
  <1>9. phase'[i] # "CANCELLED"
    OBVIOUS
  <1> QED
    BY <1>0, <1>2, <1>3, <1>4, <1>5, <1>6, <1>7, <1>8, <1>9, PhaseWriter

(* A card is approved when its turn is done, by a verdict on it, or as an  *)
(* intake that has handed over.                                            *)
LEMMA ApprovalWriter ==
    ASSUME FrontierInv, [Next]_vars, NEW i \in Cards,
           phase[i] # "APPROVED", phase'[i] = "APPROVED"
    PROVE  DoneWrite(i) \/ CloseIntake(i) \/ phase[i] \in IN_REVIEW_PHASES
  <1>0. phase \in [Cards -> CardPhase] /\ TypeOK
    BY DEF FrontierInv, TypeOK
  <1>1. ASSUME NEW to, WriteOrKeep(i, to)
        PROVE  to = "APPROVED"
    BY <1>0, <1>1 DEF WriteOrKeep
  <1>2. ~Claim(i)
    BY <1>0 DEF Claim
  <1>3. ASSUME TurnStep(i), ~DoneWrite(i), ~CloseIntake(i)
        PROVE  FALSE
    <2>1. ~TurnStart(i) /\ ~TurnFail(i)
      BY <1>1 DEF TurnStart, TurnFail
    <2>2. ASSUME NEW to \in BlockedOutcomes
          PROVE  ~TurnBlocked(i, to)
      BY <1>1, EngineAssumption DEF TurnBlocked
    <2>3. ~TurnFinish(i)
      BY DEF TurnFinish, card
    <2>4. ASSUME NEW c \in Cards
          PROVE  ~SpawnDelivery(i, c)
      BY <1>0 DEF SpawnDelivery
    <2>5. ~ParkWrite(i) /\ ~ParkSettledWrite(i)
      BY <1>0 DEF ParkWrite, ParkSettledWrite
    <2> QED
      BY <1>3, <2>1, <2>2, <2>3, <2>4, <2>5 DEF TurnStep
  <1>4. ASSUME VerdictStep(i)
        PROVE  phase[i] \in IN_REVIEW_PHASES
    BY <1>4 DEF VerdictStep, Reviewed, ReviewVerdict, ReviewCardCloses, HumanApprove,
                HumanFollowUp, IN_REVIEW_PHASES
  <1>5. ~TickRelease(i)
    BY <1>0 DEF TickRelease, ReleasePhase
  <1>6. ~ResumeCard(i)
    <2>1. ResumePhase(i) # "APPROVED"
      BY DEF ResumePhase, DONE_PHASES
    <2> QED
      BY <1>1, <2>1 DEF ResumeCard
  <1>7. ~Created(i) /\ \A m \in Cards : ~ManagerRelease(m, i)
    BY <1>0 DEF Created, Delegate, SpawnDelivery, ManagerRelease
  <1>8. ASSUME NEW k \in Passes
        PROVE  ~Passed(k, i)
    <2>1. pass[k].plan[i].to \in Woken \cup {pass[k].plan[i].from}
      BY DEF FrontierInv, PlansFit
    <2> QED
      BY <1>0, <2>1 DEF Passed, PassCard, Woken
  <1> QED
    BY <1>0, <1>2, <1>3, <1>4, <1>5, <1>6, <1>7, <1>8, PhaseWriter

-----------------------------------------------------------------------------
(* Where a running turn and a suspended card can be: a turn runs a card    *)
(* that exists and is not under review, only an intake hands over, and a   *)
(* card saved under review has no turn.                                    *)
TurnsFit ==
    \A i \in Cards :
        /\ turn[i] # "none" => Exists(i) /\ phase[i] \notin IN_REVIEW_PHASES
        /\ turn[i] = "intake" => i \in IntakeCards
        /\ saved[i] # "absent" => run # "live" /\ Exists(i)
        /\ saved[i] \in IN_REVIEW_PHASES => turn[i] = "none"

TurnsInv == FrontierInv /\ LeaseInv /\ TurnsFit

LEMMA TurnsFitStep ==
    ASSUME TurnsInv, [Next]_vars
    PROVE  TurnsFit'
  <1>0. TypeOK /\ FrontierInv /\ StoppedIsQuiet
    BY DEF TurnsInv, LeaseInv
  <1> SUFFICES ASSUME NEW i \in Cards
               PROVE  /\ turn'[i] # "none" => Exists(i)' /\ phase'[i] \notin IN_REVIEW_PHASES
                      /\ turn'[i] = "intake" => i \in IntakeCards
                      /\ saved'[i] # "absent" => run' # "live" /\ Exists(i)'
                      /\ saved'[i] \in IN_REVIEW_PHASES => turn'[i] = "none"
    BY DEF TurnsFit, IN_REVIEW_PHASES
  <1>1. /\ turn[i] # "none" => Exists(i) /\ phase[i] \notin IN_REVIEW_PHASES
        /\ turn[i] = "intake" => i \in IntakeCards
        /\ saved[i] # "absent" => run # "live" /\ Exists(i)
        /\ saved[i] \in IN_REVIEW_PHASES => turn[i] = "none"
    BY DEF TurnsInv, TurnsFit
  <1>2. ASSUME turn[i] = "none", turn'[i] # "none"
        PROVE  Claim(i)
    <2>1. ~TurnStep(i)
      BY <1>2 DEF TurnStep, TurnStart, TurnFail, TurnFinish, SpawnDelivery, CloseIntake,
                  ParkWrite, ParkSettledWrite, DoneWrite, TurnBlocked, Working
    <2> QED
      BY <1>0, <1>2, <2>1, TurnWriter DEF Working
  <1>3. ASSUME Claim(i)
        PROVE  phase'[i] = "RUNNING" /\ saved' = saved /\ saved[i] = "absent"
    BY <1>0, <1>1, <1>3 DEF Claim, engine, TypeOK
  <1>4. turn'[i] # "none" => Exists(i)' /\ phase'[i] \notin IN_REVIEW_PHASES
    <2>1. CASE turn[i] = "none"
      BY <1>2, <1>3, <2>1 DEF Exists, IN_REVIEW_PHASES
    <2>2. CASE turn[i] # "none"
      <3>1. Exists(i)'
        BY <1>0, <1>1, <2>2, CardsStay
      <3>2. ~ResumeCard(i)
        BY <1>0, <2>2 DEF ResumeCard, StoppedIsQuiet
      <3>3. DoneWrite(i) => turn'[i] = "none"
        BY <1>0 DEF DoneWrite, SetTurn, TypeOK
      <3> QED
        BY <1>0, <1>1, <2>2, <3>1, <3>2, <3>3, ReviewWriter
    <2> QED
      BY <2>1, <2>2
  <1>5. turn'[i] = "intake" => i \in IntakeCards
    <2>1. CASE turn[i] = "intake"
      BY <1>1, <2>1
    <2>2. CASE turn[i] # "intake" /\ turn'[i] = "intake"
      <3>1. Claim(i) \/ TurnStep(i)
        BY <1>0, <2>2, TurnWriter
      <3>2. ~Claim(i)
        BY <1>0, <2>2 DEF Claim, SetTurn, TypeOK
      <3>3. ASSUME ~\E c \in Cards : SpawnDelivery(i, c)
            PROVE  ~TurnStep(i)
        BY <1>0, <2>2, <3>3 DEF TurnStep, TurnStart, TurnFail, TurnFinish, CloseIntake,
              ParkWrite, ParkSettledWrite, DoneWrite, TurnBlocked, SetTurn, Outcome, DoneState,
              TypeOK
      <3> QED
        BY <3>1, <3>2, <3>3 DEF SpawnDelivery
    <2> QED
      BY <2>1, <2>2
  <1>6. saved'[i] # "absent" => run' # "live" /\ Exists(i)'
    BY <1>0, <1>1, SavedWriter, CardsStay DEF Exists
  <1>7. saved'[i] \in IN_REVIEW_PHASES => turn'[i] = "none"
    <2>1. CASE saved'[i] \in IN_REVIEW_PHASES
      <3>1. saved'[i] \in {phase[i], saved[i]}
        BY <2>1, SavedWriter DEF IN_REVIEW_PHASES
      <3>2. turn[i] = "none"
        BY <1>1, <2>1, <3>1
      <3>3. ~Claim(i)
        BY <1>3, <2>1 DEF IN_REVIEW_PHASES
      <3> QED
        BY <1>2, <3>2, <3>3
    <2> QED
      BY <2>1
  <1> QED
    BY <1>4, <1>5, <1>6, <1>7

LEMMA TurnsInit == Init => TurnsFit
  BY DEF Init, TurnsFit, IN_REVIEW_PHASES

THEOREM TurnsInvariant == Spec => []TurnsInv
  <1>1. TurnsInv /\ [Next]_vars => TurnsFit'
    BY TurnsFitStep
  <1> QED
    BY <1>1, TurnsInit, FrontierInvariant, LeaseInvariant, PTL DEF Spec, TurnsInv

-----------------------------------------------------------------------------
(* Finished work is settled work.                                          *)

(* What a finished card stands on: each of its dependencies is approved, or*)
(* cannot be any more.                                                     *)
Settled(i) == \A d \in deps[i] : phase[d] = "APPROVED" \/ d \in Doomed

(* Who has finished, is under review, or will be resumed under review.     *)
Finished(i) ==
    \/ turn[i] \in {"done", "doneDispatched"}
    \/ phase[i] \in IN_REVIEW_PHASES
    \/ saved[i] \in IN_REVIEW_PHASES

FinishedOver == \A i \in Cards : Finished(i) => Settled(i)

Awaited == UNION {deps[i] : i \in Cards}

LEMMA AwaitedIsClosed ==
    ASSUME TypeOK
    PROVE  Awaited \in SUBSET Cards /\ \A i \in Awaited : deps[i] \subseteq Awaited
  <1>1. \A i \in Cards : deps[i] \subseteq Cards
    BY DEF TypeOK
  <1> QED
    BY <1>1 DEF Awaited

LEMMA SettledStays ==
    ASSUME TypeOK, [Next]_vars, NEW i \in Cards, Settled(i), deps'[i] = deps[i],
           Awaited \cap Doomed \subseteq Doomed'
    PROVE  Settled(i)'
  <1> SUFFICES ASSUME NEW d \in deps[i]
               PROVE  phase'[d] = "APPROVED" \/ d \in Doomed'
    BY DEF Settled
  <1>1. d \in Cards /\ d \in Awaited
    BY DEF TypeOK, Awaited
  <1>2. CASE phase[d] = "APPROVED"
    BY <1>1, <1>2, NextKeepsClosed DEF KeepsClosed, Closed
  <1>3. CASE d \in Doomed
    BY <1>1, <1>3
  <1> QED
    BY <1>2, <1>3 DEF Settled

(* A turn is done over settled work: what it has left pending, or what it  *)
(* has no stamp for, makes it park.                                        *)
LEMMA DoneIsSettled ==
    ASSUME TypeOK, NEW i \in Cards, TurnFinish(i),
           turn'[i] \in {"done", "doneDispatched"}
    PROVE  Settled(i)
  <1>1. turn'[i] = Outcome(i)
    BY DEF TypeOK, TurnFinish, SetTurn
  <1>2. deps[i] = {} \/ Pending(i) = {}
    BY <1>1 DEF Outcome
  <1>3. \A d \in deps[i] : d \in Cards /\ (phase[d] \in DONE_PHASES \/ d \in Doomed)
    BY <1>2 DEF Pending, TypeOK
  <1>4. \A d \in Cards : phase[d] \in {"FAILED", "CANCELLED"} => d \in Doomed
    BY DoomedIsClosed DEF Dead
  <1> QED
    BY <1>3, <1>4 DEF Settled, DONE_PHASES

LEMMA FinishedStep ==
    ASSUME TurnsInv, FinishedOver, [Next]_vars, Awaited \cap Doomed \subseteq Doomed'
    PROVE  FinishedOver'
  <1>0. TypeOK /\ FrontierInv
    BY DEF TurnsInv, FrontierInv
  <1> SUFFICES ASSUME NEW i \in Cards, Finished(i)'
               PROVE  Settled(i)'
    BY DEF FinishedOver
  <1>1. Finished(i) => Settled(i)
    BY DEF FinishedOver
  <1>2. ASSUME Finished(i)
        PROVE  deps'[i] = deps[i]
    <2>1. Exists(i) /\ ~Working(i)
      BY <1>2 DEF TurnsInv, TurnsFit, Finished, IN_REVIEW_PHASES, Exists, Working
    <2> QED
      BY <1>0, <2>1, DepsWriter DEF Exists
  <1>3. CASE Finished(i)
    BY <1>0, <1>1, <1>2, <1>3, SettledStays
  <1>4. CASE ~Finished(i) /\ turn'[i] \in {"done", "doneDispatched"}
    <2>1. Claim(i) \/ TurnStep(i)
      BY <1>0, <1>4, TurnWriter DEF Finished
    <2>2. TurnFinish(i)
      BY <1>0, <1>4, <2>1
         DEF Claim, TurnStep, TurnStart, TurnFail, SpawnDelivery, CloseIntake, ParkWrite,
             ParkSettledWrite, DoneWrite, TurnBlocked, SetTurn, TypeOK, Finished
    <2>3. Settled(i) /\ deps' = deps
      BY <1>0, <1>4, <2>2, DoneIsSettled DEF TurnFinish, card
    <2> QED
      BY <1>0, <2>3, SettledStays
  <1>5. CASE ~Finished(i) /\ phase'[i] \in IN_REVIEW_PHASES
    BY <1>0, <1>5, ReviewWriter DEF DoneWrite, Finished
  <1>6. CASE ~Finished(i) /\ saved'[i] \in IN_REVIEW_PHASES
    BY <1>6, SavedWriter DEF Finished, IN_REVIEW_PHASES
  <1> QED
    BY <1>3, <1>4, <1>5, <1>6 DEF Finished

LEMMA FinishedInit == Init => FinishedOver
  BY DEF Init, FinishedOver, Finished, Settled, IN_REVIEW_PHASES

(* What is approved, but for an intake, was finished.                      *)
LEMMA ApprovalIsSettled ==
    ASSUME TurnsInv, FinishedOver, [Next]_vars, NEW i \in Cards \ IntakeCards,
           phase[i] # "APPROVED", phase'[i] = "APPROVED"
    PROVE  \A d \in deps[i] : phase[d] \in DONE_PHASES \/ d \in Doomed \cup stamp[i].over
  <1>1. ~CloseIntake(i)
    BY DEF TurnsInv, TurnsFit, CloseIntake
  <1>2. Finished(i)
    BY <1>1, ApprovalWriter DEF TurnsInv, DoneWrite, Finished
  <1> QED
    BY <1>2 DEF FinishedOver, Settled, DONE_PHASES

-----------------------------------------------------------------------------
(* The passes bring back no doomed card that another one waits for.        *)
PassesReviveNoAwaited ==
    \A k \in Passes : PassCard(k) => First(pass[k].todo) \notin (Awaited \cap Doomed) \ Doomed'

LEMMA RevivalsAside ==
    ASSUME FrontierInv, [Next]_vars, PassesReviveNoAwaited
    PROVE  Awaited \cap Doomed \subseteq Doomed'
  <1>1. \A i \in Awaited \cap Doomed, k \in Passes : Passed(k, i) => i \in Doomed'
    BY DEF PassesReviveNoAwaited, Passed
  <1> QED
    BY <1>1, AwaitedIsClosed, DoomIsKeptAmong DEF FrontierInv

SettledApprovals ==
    \A i \in Cards \ IntakeCards :
        phase[i] # "APPROVED" /\ phase'[i] = "APPROVED" =>
            \A d \in deps[i] : phase[d] \in DONE_PHASES \/ d \in Doomed \cup stamp[i].over

(* On every board, whatever it holds and whatever has failed: a run whose  *)
(* passes bring back no doomed card that another one waits for approves    *)
(* nothing over unsettled work. Parks and completions on old reads, claims,*)
(* verdicts, crashes and resumes do no harm of their own.                  *)
THEOREM OnlyRevivalsUnsettle ==
    Spec /\ [][PassesReviveNoAwaited]_vars => [][SettledApprovals]_vars /\ ApprovesOverSettledWork
  <1>1. TurnsInv /\ FinishedOver /\ [Next]_vars /\ [PassesReviveNoAwaited]_vars => FinishedOver'
    <2> SUFFICES ASSUME TurnsInv, FinishedOver, [Next]_vars, [PassesReviveNoAwaited]_vars
                 PROVE  FinishedOver'
      OBVIOUS
    <2>1. CASE PassesReviveNoAwaited
      BY <2>1, RevivalsAside, FinishedStep DEF TurnsInv
    <2>2. CASE UNCHANGED vars
      BY <2>2 DEF vars, FinishedOver, Finished, Settled, Doomed, Dead, BlockedBy, Stamped, Hard
    <2> QED
      BY <2>1, <2>2
  <1>2. TurnsInv /\ FinishedOver /\ [Next]_vars => [SettledApprovals]_vars
    BY ApprovalIsSettled DEF SettledApprovals
  <1>3. [SettledApprovals]_vars =>
          [\A i \in Cards \ IntakeCards :
             FailuresStand /\ RollupCards = {} /\ phase[i] # "APPROVED" /\ phase'[i] = "APPROVED" =>
                 \A d \in deps[i] : \/ phase[d] \in DONE_PHASES
                                    \/ d \in Doomed \cup stamp[i].over]_vars
    BY DEF SettledApprovals
  <1> QED
    BY <1>1, <1>2, <1>3, FinishedInit, TurnsInvariant, PTL DEF Spec, ApprovesOverSettledWork

(* What a card was released over, or is about to be, cannot finish; a card *)
(* that does not exist waits for nobody.                                   *)
StampsHold ==
    \A i \in Cards :
        /\ stamp[i].over \subseteq Awaited \cap Doomed
        /\ \A k \in Passes : pass[k].plan[i].stamp.over \subseteq Awaited \cap Doomed
        /\ deps[i] # {} => Exists(i)

(* They outlast every step that leaves doomed what somebody waits for.     *)
LEMMA StampsHoldStep ==
    ASSUME TurnsInv, StampsHold, [Next]_vars, Awaited \cap Doomed \subseteq Doomed'
    PROVE  StampsHold'
  <1>0. TypeOK /\ FrontierInv
    BY DEF TurnsInv, FrontierInv
  <1>1. ASSUME NEW i \in Cards, deps[i] # {}
        PROVE  Exists(i)' /\ deps[i] \subseteq deps'[i]
    <2>1. Exists(i)
      BY <1>1 DEF StampsHold
    <2>2. deps[i] \subseteq deps'[i]
      BY <1>0, <2>1, DepsWriter DEF Exists
    <2> QED
      BY <1>0, <2>1, <2>2, CardsStay
  <1>2. Awaited \cap Doomed \subseteq Awaited' \cap Doomed'
    BY <1>1 DEF Awaited
  <1>3. ASSUME NEW i \in Cards, deps'[i] # {}
        PROVE  Exists(i)'
    <2>1. CASE deps'[i] = deps[i] \/ Working(i)
      BY <1>0, <1>1, <1>3, <2>1, CardsStay DEF TurnsInv, TurnsFit, Working
    <2>2. CASE Created(i)
      <3>1. phase'[i] \in {"QUEUED", "WAITING_DEPENDENCIES", "READY"}
        BY <1>0, <2>2 DEF Created, Delegate, SpawnDelivery, TypeOK
      <3> QED
        BY <3>1 DEF Exists
    <2> QED
      BY <1>0, <2>1, <2>2, DepsWriter
  <1>4. ASSUME NEW i \in Cards
        PROVE  Decision(i).stamp.over \subseteq Awaited \cap Doomed
    <2>1. Dead \subseteq Doomed /\ deps[i] \subseteq Awaited
      BY DoomedIsClosed DEF Awaited
    <2> QED
      BY <2>1 DEF Decision, NoStamp
  <1>5. ASSUME NEW i \in Cards, NEW k \in Passes
        PROVE  pass'[k].plan[i].stamp.over \subseteq Awaited \cap Doomed
    <2>1. CASE pass'[k].plan[i] = pass[k].plan[i]
      BY <2>1 DEF StampsHold
    <2>2. CASE pass'[k].plan[i] = NoDecision
      BY <2>2 DEF NoDecision, NoStamp
    <2>3. CASE pass'[k].plan[i] = Decision(i)
      BY <1>4, <2>3
    <2> QED
      BY <1>0, <2>1, <2>2, <2>3, PlanWriter
  <1>6. ASSUME NEW i \in Cards
        PROVE  stamp'[i].over \subseteq Awaited \cap Doomed
    <2>1. CASE stamp'[i].over = stamp[i].over
      BY <2>1 DEF StampsHold
    <2>2. CASE stamp'[i] = NoStamp
      BY <2>2 DEF NoStamp
    <2>3. CASE \E k \in Passes : stamp'[i] = pass[k].plan[i].stamp
      BY <2>3 DEF StampsHold
    <2> QED
      BY <1>0, <2>1, <2>2, <2>3, StampWriter
  <1> QED
    BY <1>2, <1>3, <1>5, <1>6 DEF StampsHold

(* Nobody has been released over anything at the start.                   *)
LEMMA StampsInit == Init => StampsHold
  BY DEF Init, StampsHold, NoStamp, IdlePass, NoDecision

(* And on every board such a run claims nothing over a dependency that is  *)
(* still, or again, to be done: a stamp outlives the settlement it records *)
(* only where a pass revives what the stamp is about.                      *)
THEOREM OnlyRevivalsMislead == Spec /\ [][PassesReviveNoAwaited]_vars => ClaimsOverSettledWork
  <1>1. TurnsInv /\ StampsHold /\ [Next]_vars /\ [PassesReviveNoAwaited]_vars => StampsHold'
    <2> SUFFICES ASSUME TurnsInv, StampsHold, [Next]_vars, [PassesReviveNoAwaited]_vars
                 PROVE  StampsHold'
      OBVIOUS
    <2>1. CASE PassesReviveNoAwaited
      BY <2>1, RevivalsAside, StampsHoldStep DEF TurnsInv
    <2>2. CASE UNCHANGED vars
      <3>1. UNCHANGED <<phase, deps, stamp, pass>>
        BY <2>2 DEF vars
      <3>2. Awaited' = Awaited
        BY <3>1 DEF Awaited
      <3>3. Doomed' = Doomed
        <4>1. Dead' = Dead
          BY <3>1 DEF Dead
        <4>2. ASSUME NEW S \in SUBSET Cards, NEW j \in Cards
              PROVE  BlockedBy(j, S)' <=> BlockedBy(j, S)
          BY <3>1 DEF BlockedBy, Stamped, Hard
        <4>3. ASSUME NEW i \in Cards
              PROVE  (i \in Doomed)' <=> i \in Doomed
          BY <4>1, <4>2 DEF Doomed
        <4> QED
          BY <4>3 DEF Doomed
      <3> QED
        BY <3>1, <3>2, <3>3 DEF StampsHold, Exists
    <2> QED
      BY <2>1, <2>2
  <1>2. TurnsInv /\ StampsHold /\ [Next]_vars =>
          [\A i \in Cards :
             turn[i] = "none" /\ turn'[i] = "claimed" =>
                \A d \in deps[i] : Hard(i, d) =>
                    phase[d] = "APPROVED" \/ d \in Dead \cup Doomed]_vars
    <2> SUFFICES ASSUME TurnsInv, StampsHold, [Next]_vars, NEW i \in Cards,
                        turn[i] = "none", turn'[i] = "claimed",
                        NEW d \in deps[i], Hard(i, d)
                 PROVE  phase[d] = "APPROVED" \/ d \in Dead \cup Doomed
      OBVIOUS
    <2>1. Claim(i)
      BY Claims DEF TurnsInv, FrontierInv
    <2>2. d \in stamp[i].over \/ phase[d] = "APPROVED"
      BY <2>1 DEF Claim, DepAllowsClaim, Hard
    <2> QED
      BY <2>2 DEF StampsHold
  <1> QED
    BY <1>1, <1>2, StampsInit, TurnsInvariant, PTL DEF Spec, ClaimsOverSettledWork

-----------------------------------------------------------------------------
(* Flat boards.                                                            *)

(* A flat board: whom a card delegates to delegates no further and waits   *)
(* for hard dependencies only; no roll-up cards.  The two workers and the  *)
(* manager of the runs are one.                                            *)
Leaf(i) == Crew[i] = {}

FlatBoard ==
    /\ RollupCards = {}
    /\ \A m \in Cards : \A c \in Crew[m] : Leaf(c)
    /\ \A c \in Cards, d \in Cards : Leaf(c) => Hard(c, d)

(* The phases of a card that has been claimed and not ended since.         *)
Started == IN_PROGRESS_PHASES \cup IN_REVIEW_PHASES \cup {"READY_FOR_REWORK", "APPROVED"}

HasStarted(i) == phase[i] \in Started \/ saved[i] \in Started \/ turn[i] # "none"

(* A leaf never waits for children, is never released over failures, and   *)
(* starts when all it waits for is approved; passes only wake it.          *)
LeafFits(i) ==
    /\ ~Stamped(i) /\ ~synth[i]
    /\ "WAITING_FOR_CHILDREN" \notin {phase[i], saved[i]}
    /\ turn[i] \in {"none", "claimed", "working", "done"}
    /\ HasStarted(i) => AllApproved(i)
    /\ \A k \in Passes :
          LET d == pass[k].plan[i]
          IN  /\ d.stamp = NoStamp /\ ~d.synth
              /\ d.to \in {"READY", "READY_FOR_REWORK", "WAITING_DEPENDENCIES", d.from}

LeavesFit ==
    /\ \A i \in Cards : Leaf(i) => LeafFits(i)
    /\ \A d \in Awaited : Leaf(d)

(* What a pass reads off a leaf.                                           *)
LEMMA LeafDecision ==
    ASSUME TypeOK, FlatBoard, NEW i \in Cards, Leaf(i), LeafFits(i)
    PROVE  LET d == Decision(i)
           IN  /\ d.stamp = NoStamp /\ ~d.synth
               /\ d.to \in {"READY", "READY_FOR_REWORK", "WAITING_DEPENDENCIES", d.from}
  <1>1. ~EntersSynthesis(i) /\ ~Stamped(i) /\ phase[i] # "WAITING_FOR_CHILDREN" /\ ~synth[i]
    BY DEF LeafFits, EntersSynthesis
  <1>2. ~Settles(i)
    BY <1>1 DEF Settles, ReleaseCandidate, AwaitsSettlement, Rollup, FlatBoard
  <1>3. phase[i] = "RUNNING" => AllApproved(i)
    BY DEF LeafFits, HasStarted, Started, IN_PROGRESS_PHASES
  <1>4. TargetPhase(i) \in {"READY", "READY_FOR_REWORK", "WAITING_DEPENDENCIES", phase[i]}
    BY <1>1, <1>2, <1>3 DEF TargetPhase, ReleasePhase
  <1> QED
    BY <1>1, <1>2, <1>4 DEF Decision

(* All it waits for stays approved, for a leaf that exists.                *)
LEMMA LeafStaysApproved ==
    ASSUME TypeOK, [Next]_vars, NEW i \in Cards, Leaf(i), Exists(i), AllApproved(i)
    PROVE  AllApproved(i)'
  <1>1. deps'[i] = deps[i]
    BY DepsWriter DEF Leaf, Exists
  <1>2. deps[i] \subseteq Cards
    BY DEF TypeOK
  <1> QED
    BY <1>1, <1>2, NextKeepsClosed DEF AllApproved, KeepsClosed, Closed

(* A leaf that starts, does so over approved work.                         *)
LEMMA LeafStarts ==
    ASSUME TurnsInv, FlatBoard, [Next]_vars, NEW i \in Cards, Leaf(i), LeafFits(i),
           ~HasStarted(i), HasStarted(i)'
    PROVE  AllApproved(i) /\ Exists(i)
  <1>0. TypeOK /\ FrontierInv /\ phase \in [Cards -> CardPhase] /\ deps[i] \subseteq Cards
    BY DEF TurnsInv, FrontierInv, TypeOK
  <1>1. ASSUME \A d \in deps[i] : DepAllowsClaim(i, d)
        PROVE  AllApproved(i)
    BY <1>0, <1>1 DEF LeafFits, FlatBoard, Hard, DepAllowsClaim, AllApproved, Stamped
  <1>2. CASE Claim(i)
    BY <1>1, <1>2 DEF Claim, RUNNABLE_PHASES, IN_PROGRESS_PHASES, Exists
  <1>3. turn[i] = "none" /\ ~TurnStep(i)
    BY DEF HasStarted, TurnStep, TurnStart, TurnFail, TurnFinish, SpawnDelivery, CloseIntake,
           ParkWrite, ParkSettledWrite, DoneWrite, TurnBlocked, Working
  <1>4. CASE ~Claim(i) /\ turn'[i] # "none"
    BY <1>0, <1>3, <1>4, TurnWriter DEF Leaf
  <1>5. CASE saved'[i] \in Started
    BY <1>5, SavedWriter
       DEF HasStarted, Started, IN_PROGRESS_PHASES, IN_REVIEW_PHASES
  <1>6. CASE ~Claim(i) /\ phase'[i] \in Started
    <2> USE DEF Started, IN_PROGRESS_PHASES, IN_REVIEW_PHASES
    <2>1. phase[i] \notin Started
      BY DEF HasStarted
    <2>2. ~VerdictStep(i)
      BY <2>1 DEF VerdictStep, Reviewed, ReviewVerdict, ReviewCardCloses, HumanApprove,
                  HumanFollowUp
    <2>3. ASSUME NEW to, Legal(phase[i], to), to \in Started
          PROVE  to = "RUNNING"
      BY <1>0, <2>1, <2>3
         DEF Legal, ALLOWED_TRANSITIONS, OwnEdges, DONE_PHASES, UNIVERSAL_EXITS, CardPhase, Phase
    <2>4. ~TickRelease(i)
      BY <1>0, <1>6, <2>3 DEF TickRelease, ReleasePhase
    <2>5. ~ResumeCard(i)
      <3>1. ASSUME ResumePhase(i) = "RUNNING"
            PROVE  phase[i] = "RUNNING" \/ saved[i] = "RUNNING"
        BY <3>1 DEF ResumePhase
      <3>2. ResumePhase(i) # "RUNNING"
        BY <2>1, <3>1 DEF HasStarted
      <3> QED
        BY <1>0, <1>6, <2>1, <2>3, <3>2 DEF ResumeCard, WriteOrKeep
    <2>6. ~Created(i) /\ \A m \in Cards : ~ManagerRelease(m, i)
      BY <1>0, <1>6 DEF Created, Delegate, SpawnDelivery, ManagerRelease
    <2>7. ASSUME NEW k \in Passes
          PROVE  ~Passed(k, i)
      BY <1>0, <1>6, <2>1, <2>3 DEF Passed, PassCard, LeafFits
    <2>8. phase'[i] # phase[i] /\ phase'[i] # "CANCELLED"
      BY <1>6, <2>1
    <2> QED
      BY <1>0, <1>3, <1>6, <2>2, <2>4, <2>5, <2>6, <2>7, <2>8, PhaseWriter
  <1>7. turn'[i] # "none" \/ saved'[i] \in Started \/ phase'[i] \in Started
    BY DEF HasStarted, Started, IN_PROGRESS_PHASES, IN_REVIEW_PHASES
  <1> QED
    BY <1>2, <1>4, <1>5, <1>6, <1>7

(* A leaf never comes to wait for children: its turn has nothing to park   *)
(* for and a resume finds what it waits for approved.                      *)
LEMMA LeafNeverParks ==
    ASSUME TurnsInv, FlatBoard, [Next]_vars, NEW i \in Cards, Leaf(i), LeafFits(i)
    PROVE  "WAITING_FOR_CHILDREN" \notin {phase'[i], saved'[i]}
  <1>0. TypeOK /\ FrontierInv /\ phase \in [Cards -> CardPhase]
    BY DEF TurnsInv, FrontierInv, TypeOK
  <1>1. "WAITING_FOR_CHILDREN" \notin {phase[i], saved[i]}
    BY DEF LeafFits
  <1>2. saved'[i] # "WAITING_FOR_CHILDREN"
    BY <1>1, SavedWriter
  <1>3. CASE phase'[i] = "WAITING_FOR_CHILDREN"
    <2>1. ASSUME NEW to, WriteOrKeep(i, to)
          PROVE  to = "WAITING_FOR_CHILDREN"
      BY <1>0, <1>1, <1>3, <2>1 DEF WriteOrKeep
    <2>2. ~Claim(i)
      BY <1>0, <1>3 DEF Claim
    <2>3. ~TurnStep(i)
      <3>1. ~TurnStart(i) /\ ~TurnFail(i)
        BY <2>1 DEF TurnStart, TurnFail
      <3>2. ASSUME NEW to \in BlockedOutcomes
            PROVE  ~TurnBlocked(i, to)
        BY <2>1, EngineAssumption DEF TurnBlocked
      <3>3. ~TurnFinish(i)
        BY <1>1, <1>3 DEF TurnFinish, card
      <3>4. ASSUME NEW c \in Cards
            PROVE  ~SpawnDelivery(i, c)
        BY <1>0, <1>1, <1>3 DEF SpawnDelivery
      <3>5. ~CloseIntake(i) /\ ~ParkWrite(i) /\ ~ParkSettledWrite(i)
        BY DEF LeafFits, CloseIntake, ParkWrite, ParkSettledWrite
      <3>6. ~DoneWrite(i)
        BY <2>1 DEF DoneWrite, DoneTarget
      <3> QED
        BY <3>1, <3>2, <3>3, <3>4, <3>5, <3>6 DEF TurnStep
    <2>4. ~VerdictStep(i)
      BY <1>0, <1>1, <1>3 DEF VerdictStep, Reviewed, ReviewVerdict, ReviewCardCloses,
                              HumanApprove, HumanFollowUp, card
    <2>5. ~TickRelease(i)
      BY <1>0, <1>3 DEF TickRelease, ReleasePhase
    <2>6. ~ResumeCard(i)
      <3>1. saved[i] \in Started => \A d \in deps[i] : DepAllowsClaim(i, d)
        BY DEF LeafFits, HasStarted, AllApproved, DepAllowsClaim
      <3>2. ResumePhase(i) # "WAITING_FOR_CHILDREN"
        BY <1>1, <3>1 DEF ResumePhase, Started, IN_PROGRESS_PHASES, IN_REVIEW_PHASES
      <3> QED
        BY <2>1, <3>2 DEF ResumeCard
    <2>7. ~Created(i) /\ \A m \in Cards : ~ManagerRelease(m, i)
      BY <1>0, <1>1, <1>3 DEF Created, Delegate, SpawnDelivery, ManagerRelease
    <2>8. ASSUME NEW k \in Passes
          PROVE  ~Passed(k, i)
      BY <1>0, <1>1, <1>3 DEF Passed, PassCard, LeafFits
    <2> QED
      BY <1>0, <1>1, <1>3, <2>2, <2>3, <2>4, <2>5, <2>6, <2>7, <2>8, PhaseWriter
  <1> QED
    BY <1>2, <1>3

LEMMA SynthWriter ==
    ASSUME TypeOK, [Next]_vars, NEW i \in Cards, ~synth[i], synth'[i]
    PROVE  \E k \in Passes : Passed(k, i) /\ pass[k].plan[i].synth
  <1>0. synth \in [Cards -> BOOLEAN]
    BY DEF TypeOK
  <1>1. ASSUME NEW k \in Passes, PassCard(k)
        PROVE  Passed(k, i) /\ pass[k].plan[i].synth
    BY <1>0, <1>1 DEF PassCard, Passed
  <1>2. ASSUME NEW k \in Passes, PassStep(k), ~PassCard(k)
        PROVE  FALSE
    BY <1>2 DEF PassStep, BeginPass, EndScan, CascadeCancel, CascadeStamp, EndPass, card
  <1>3. ASSUME NEW j \in Cards, TurnStep(j)
        PROVE  FALSE
    BY <1>0, <1>3 DEF TurnStep, TurnStart, TurnFail, TurnFinish, SpawnDelivery, CloseIntake,
                ParkWrite, ParkSettledWrite, DoneWrite, TurnBlocked, card
  <1>4. CASE \E j \in Cards : Claim(j) \/ ManagerStep(j) \/ VerdictStep(j)
    BY <1>4 DEF Claim, ManagerStep, Delegate, ManagerRelease, VerdictStep, Reviewed,
                ReviewVerdict, ReviewCardCloses, HumanApprove, HumanFollowUp, card
  <1>5. CASE TickStep \/ OutageStep
    BY <1>5 DEF TickStep, TickSettle, TickRelease, OutageStep, Stop, HoldCard, Halt, Crash,
                ResumeCard, Restart, card
  <1>6. CASE UNCHANGED vars
    BY <1>6 DEF vars
  <1> QED
    BY <1>1, <1>2, <1>3, <1>4, <1>5, <1>6 DEF Next

(* A leaf's turn runs over approved work, so that it has nothing to park   *)
(* for when it finishes.                                                   *)
LEMMA LeafTurns ==
    ASSUME TurnsInv, FlatBoard, [Next]_vars, NEW i \in Cards, Leaf(i), LeafFits(i)
    PROVE  turn'[i] \in {"none", "claimed", "working", "done"}
  <1>0. TypeOK
    BY DEF TurnsInv, FrontierInv
  <1>1. turn[i] \in {"none", "claimed", "working", "done"}
    BY DEF LeafFits
  <1>2. CASE Claim(i)
    BY <1>0, <1>2 DEF Claim, SetTurn, TypeOK
  <1>3. CASE TurnFinish(i)
    <2>1. AllApproved(i) /\ turn[i] = "working"
      BY <1>1, <1>3 DEF LeafFits, HasStarted, TurnFinish, Working
    <2>2. Pending(i) = {}
      BY <2>1 DEF AllApproved, Pending, DONE_PHASES
    <2>3. Outcome(i) = "done"
      BY <2>1, <2>2 DEF Outcome, DoneState
    <2> QED
      BY <1>0, <1>3, <2>3 DEF TurnFinish, SetTurn, TypeOK
  <1>4. ASSUME NEW c \in Cards
        PROVE  ~SpawnDelivery(i, c)
    BY BoardAssumption DEF FlatBoard, SpawnDelivery, NextNew
  <1>5. CASE TurnStep(i) /\ ~TurnFinish(i)
    BY <1>0, <1>4, <1>5 DEF TurnStep, TurnStart, TurnFail, CloseIntake, ParkWrite,
       ParkSettledWrite,
                      DoneWrite, TurnBlocked, SetTurn, TypeOK
  <1> QED
    BY <1>0, <1>1, <1>2, <1>3, <1>5, TurnWriter DEF Leaf

LEMMA LeafFitsStep ==
    ASSUME TurnsInv, FlatBoard, [Next]_vars, NEW i \in Cards, Leaf(i), LeafFits(i)
    PROVE  LeafFits(i)'
  <1>0. TypeOK
    BY DEF TurnsInv, FrontierInv
  <1>1. ~Stamped(i)'
    BY <1>0, StampWriter DEF LeafFits, Stamped
  <1>2. ~synth'[i]
    BY <1>0, SynthWriter DEF LeafFits
  <1>3. ASSUME HasStarted(i)'
        PROVE  AllApproved(i)'
    <2>1. CASE HasStarted(i)
      <3>1. Exists(i)
        BY <2>1 DEF HasStarted, Started, IN_PROGRESS_PHASES, IN_REVIEW_PHASES, TurnsInv,
                    TurnsFit, Exists
      <3>2. AllApproved(i)
        BY <2>1 DEF LeafFits
      <3> QED
        BY <1>0, <3>1, <3>2, LeafStaysApproved
    <2>2. CASE ~HasStarted(i)
      BY <1>0, <1>3, <2>2, LeafStarts, LeafStaysApproved
    <2> QED
      BY <2>1, <2>2
  <1>4. ASSUME NEW k \in Passes
        PROVE  LET d == pass'[k].plan[i]
               IN  /\ d.stamp = NoStamp /\ ~d.synth
                   /\ d.to \in {"READY", "READY_FOR_REWORK", "WAITING_DEPENDENCIES", d.from}
    <2>1. CASE pass'[k].plan[i] = pass[k].plan[i]
      BY <2>1 DEF LeafFits
    <2>2. CASE pass'[k].plan[i] = NoDecision
      BY <2>2 DEF NoDecision
    <2>3. CASE pass'[k].plan[i] = Decision(i)
      BY <1>0, <2>3, LeafDecision
    <2> QED
      BY <1>0, <2>1, <2>2, <2>3, PlanWriter
  <1> QED
    BY <1>1, <1>2, <1>3, <1>4, LeafTurns, LeafNeverParks DEF LeafFits, NoStamp

LEMMA AwaitedAreLeaves ==
    ASSUME TurnsInv, FlatBoard, LeavesFit, [Next]_vars, NEW i \in Cards, NEW d \in deps'[i]
    PROVE  Leaf(d)
  <1>0. TypeOK /\ deps \in [Cards -> SUBSET Cards]
    BY DEF TurnsInv, FrontierInv, TypeOK
  <1>1. \A j \in Cards : \A e \in deps[j] : Leaf(e)
    BY DEF LeavesFit, Awaited
  <1>2. CASE \E c \in Crew[i] : deps'[i] = deps[i] \cup {c}
    BY <1>1, <1>2 DEF FlatBoard
  <1>3. ASSUME NEW m \in Cards, NEW after \in SUBSET deps[m], Delegate(m, i, after)
        PROVE  Leaf(d)
    <2>1. m # i
      BY <1>3, NextNewIsAbsent DEF Delegate, TurnsInv, TurnsFit, Working, Exists
    <2>2. deps'[i] = after
      BY <1>0, <1>3, <2>1 DEF Delegate
    <2> QED
      BY <1>1, <2>2
  <1>4. ASSUME NEW m \in Cards, SpawnDelivery(m, i)
        PROVE  Leaf(d)
    BY <1>0, <1>1, <1>4 DEF SpawnDelivery
  <1>5. CASE deps'[i] = deps[i]
    BY <1>1, <1>5
  <1> QED
    BY <1>0, <1>2, <1>3, <1>4, <1>5, DepsWriter DEF Created

LEMMA LeavesFitStep ==
    ASSUME TurnsInv, FlatBoard, LeavesFit, [Next]_vars
    PROVE  LeavesFit'
  <1>1. \A i \in Cards : Leaf(i) => LeafFits(i)'
    BY LeafFitsStep DEF LeavesFit
  <1>2. \A d \in Awaited' : Leaf(d)
    BY AwaitedAreLeaves DEF Awaited
  <1> QED
    BY <1>1, <1>2 DEF LeavesFit, Leaf

LEMMA LeavesFitInit == Init => LeavesFit
  <1> SUFFICES ASSUME Init
               PROVE  LeavesFit
    OBVIOUS
  <1>1. Awaited = {}
    BY DEF Init, Awaited
  <1>2. ASSUME NEW i \in Cards
        PROVE  LeafFits(i)
    <2>1. ~Stamped(i) /\ ~synth[i] /\ turn[i] = "none"
      BY DEF Init, Stamped, NoStamp
    <2>2. "WAITING_FOR_CHILDREN" \notin {phase[i], saved[i]}
      BY DEF Init
    <2>3. AllApproved(i)
      BY DEF Init, AllApproved
    <2>4. ASSUME NEW k \in Passes
          PROVE  pass[k].plan[i] = NoDecision
      BY DEF Init, IdlePass
    <2> QED
      BY <2>1, <2>2, <2>3, <2>4 DEF LeafFits, NoDecision
  <1> QED
    BY <1>1, <1>2 DEF LeavesFit

-----------------------------------------------------------------------------
(* The failed cards, and the turns that failed.                            *)
Failed == {i \in Cards : phase[i] = "FAILED"}

(* A card fails with its turn: nothing else writes FAILED.                 *)
LEMMA FailureWriter ==
    ASSUME FrontierInv, [Next]_vars, NEW i \in Cards,
           phase[i] # "FAILED", phase'[i] = "FAILED"
    PROVE  TurnFail(i)
  <1>0. phase \in [Cards -> CardPhase] /\ TypeOK
    BY DEF FrontierInv, TypeOK
  <1>1. ASSUME NEW to, WriteOrKeep(i, to)
        PROVE  to = "FAILED"
    BY <1>0, <1>1 DEF WriteOrKeep
  <1>2. ~Claim(i)
    BY <1>0 DEF Claim
  <1>3. ASSUME TurnStep(i), ~TurnFail(i)
        PROVE  FALSE
    <2>1. ~TurnStart(i) /\ ~DoneWrite(i)
      BY <1>1 DEF TurnStart, DoneWrite, DoneTarget
    <2>2. ASSUME NEW to \in BlockedOutcomes
          PROVE  ~TurnBlocked(i, to)
      BY <1>1, EngineAssumption DEF TurnBlocked
    <2>3. ~TurnFinish(i)
      BY DEF TurnFinish, card
    <2>4. ASSUME NEW c \in Cards
          PROVE  ~SpawnDelivery(i, c)
      BY <1>0 DEF SpawnDelivery
    <2>5. ~CloseIntake(i) /\ ~ParkWrite(i) /\ ~ParkSettledWrite(i)
      BY <1>0 DEF CloseIntake, ParkWrite, ParkSettledWrite
    <2> QED
      BY <1>3, <2>1, <2>2, <2>3, <2>4, <2>5 DEF TurnStep
  <1>4. ~VerdictStep(i)
    BY <1>0 DEF VerdictStep, Reviewed, ReviewVerdict, ReviewCardCloses, HumanApprove,
                HumanFollowUp, card
  <1>5. ~TickRelease(i)
    BY <1>0 DEF TickRelease, ReleasePhase
  <1>6. ~ResumeCard(i)
    <2>1. ResumePhase(i) # "FAILED"
      BY DEF ResumePhase, DONE_PHASES
    <2> QED
      BY <1>1, <2>1 DEF ResumeCard
  <1>7. ~Created(i) /\ \A m \in Cards : ~ManagerRelease(m, i)
    BY <1>0 DEF Created, Delegate, SpawnDelivery, ManagerRelease
  <1>8. ASSUME NEW k \in Passes
        PROVE  ~Passed(k, i)
    <2>1. pass[k].plan[i].to \in Woken \cup {pass[k].plan[i].from}
      BY DEF FrontierInv, PlansFit
    <2> QED
      BY <1>0, <2>1 DEF Passed, PassCard, Woken
  <1> QED
    BY <1>0, <1>2, <1>3, <1>4, <1>5, <1>6, <1>7, <1>8, PhaseWriter

LEMMA FailuresWriter ==
    ASSUME [Next]_vars
    PROVE  failures' = failures \/ \E i \in Cards : TurnFail(i)
  <1>1. CASE \E i \in Cards : TurnStep(i)
    BY <1>1 DEF TurnStep, TurnStart, TurnFinish, SpawnDelivery, CloseIntake,
                ParkWrite, ParkSettledWrite, DoneWrite, TurnBlocked
  <1>2. CASE TickStep \/ \E i \in Cards : Claim(i) \/ ManagerStep(i) \/ VerdictStep(i)
    BY <1>2 DEF TickStep, TickSettle, TickRelease, Claim, ManagerStep, Delegate, ManagerRelease,
                VerdictStep, Reviewed, ReviewVerdict, ReviewCardCloses, HumanApprove,
                HumanFollowUp
  <1>3. CASE \E k \in Passes : PassStep(k)
    BY <1>3 DEF PassStep, BeginPass, PassCard, EndScan, CascadeCancel, CascadeStamp, EndPass
  <1>4. CASE OutageStep
    BY <1>4 DEF OutageStep, Stop, HoldCard, Halt, Crash, ResumeCard, Restart
  <1>5. CASE UNCHANGED vars
    BY <1>5 DEF vars
  <1> QED
    BY <1>1, <1>2, <1>3, <1>4, <1>5 DEF Next

(* Each failed turn leaves at most one failed card.                        *)
LEMMA FailedGrows ==
    ASSUME FrontierInv, [Next]_vars
    PROVE  \/ failures' = failures /\ Failed' \subseteq Failed
           \/ \E i \in Cards : failures' = failures + 1 /\ Failed' \subseteq Failed \cup {i}
  <1>0. phase \in [Cards -> CardPhase] /\ TypeOK
    BY DEF FrontierInv, TypeOK
  <1>1. ASSUME NEW i \in Cards, TurnFail(i)
        PROVE  failures' = failures + 1 /\ Failed' \subseteq Failed \cup {i}
    BY <1>0, <1>1 DEF TurnFail, WriteOrKeep, Failed
  <1>2. CASE \A i \in Cards : ~TurnFail(i)
    BY <1>2, FailuresWriter, FailureWriter DEF Failed
  <1> QED
    BY <1>1, <1>2

FewFailures == Cardinality(Failed) <= failures

LEMMA FailedAreFinite ==
    /\ IsFiniteSet(Failed) /\ Cardinality(Failed) \in Nat
    /\ IsFiniteSet(Failed') /\ Cardinality(Failed') \in Nat
  <1>1. IsFiniteSet(Cards)
    BY FS_Interval, BoardAssumption DEF Cards
  <1> QED
    BY <1>1, FS_Subset, FS_CardinalityType DEF Failed

LEMMA FewFailuresStep ==
    ASSUME FrontierInv, FewFailures, [Next]_vars
    PROVE  /\ FewFailures'
           /\ FailuresStand' => FailuresStand /\ Failed \subseteq Failed'
  <1>0. failures \in Nat
    BY EngineAssumption DEF FrontierInv, TypeOK
  <1>1. CASE failures' = failures /\ Failed' \subseteq Failed
    <2>1. /\ Cardinality(Failed') <= Cardinality(Failed)
          /\ Cardinality(Failed') = Cardinality(Failed) => Failed' = Failed
      BY <1>1, FailedAreFinite, FS_Subset
    <2> QED
      BY <1>0, <1>1, <2>1, FailedAreFinite DEF FewFailures, FailuresStand, Failed
  <1>2. ASSUME NEW i \in Cards, failures' = failures + 1, Failed' \subseteq Failed \cup {i}
        PROVE  /\ FewFailures'
               /\ FailuresStand' => FailuresStand /\ Failed \subseteq Failed'
    <2> DEFINE Union == Failed \cup {i}
    <2>1. /\ IsFiniteSet(Union) /\ Cardinality(Union) \in Nat
          /\ Cardinality(Union) <= Cardinality(Failed) + 1
      <3>1. /\ IsFiniteSet(Union)
            /\ Cardinality(Union) =
                 IF i \in Failed THEN Cardinality(Failed) ELSE Cardinality(Failed) + 1
        BY FailedAreFinite, FS_AddElement
      <3> HIDE DEF Union
      <3> QED
        BY <3>1, FailedAreFinite
    <2>2. /\ Cardinality(Failed') <= Cardinality(Union)
          /\ Cardinality(Failed') = Cardinality(Union) => Failed' = Union
      BY <1>2, <2>1, FS_Subset
    <2>3. Failed \subseteq Union
      OBVIOUS
    <2> HIDE DEF Union
    <2> QED
      BY <1>0, <1>2, <2>1, <2>2, <2>3, FailedAreFinite DEF FewFailures, FailuresStand, Failed
  <1> QED
    BY <1>1, <1>2, FailedGrows

(* On a flat board a doomed card that another one waits for stays doomed,  *)
(* as long as no failure is reopened: a pass that takes it up leaves it    *)
(* waiting, for it has no failures to release a leaf over.                 *)
LEMMA FlatDoomStands ==
    ASSUME TurnsInv, FlatBoard, LeavesFit, [Next]_vars, Failed \subseteq Failed'
    PROVE  Awaited \cap Doomed \subseteq Doomed'
  <1>0. TypeOK /\ FrontierInv
    BY DEF TurnsInv, FrontierInv
  <1>1. ASSUME NEW i \in Awaited \cap Doomed, DeadStays(i)
        PROVE  i \in Doomed'
    <2>1. i \in Dead'
      BY <1>1 DEF Doomed, Dead, DeadStays
    <2> QED
      BY <2>1, DeadIsDoomed
  <1>2. ASSUME NEW i \in Awaited \cap Doomed, i \in Dead
        PROVE  DeadStays(i)
    <2>1. i \in Cards
      BY DEF Doomed
    <2>2. CASE phase[i] = "FAILED"
      <3>1. i \in Failed'
        BY <2>1, <2>2 DEF Failed
      <3> QED
        BY <3>1 DEF Failed, DeadStays
    <2>3. CASE phase[i] = "CANCELLED"
      <3>1. phase'[i] = "CANCELLED"
        BY <1>0, <2>1, <2>3, NextKeepsClosed DEF KeepsClosed, Closed
      <3> QED
        BY <3>1 DEF DeadStays
    <2> QED
      BY <1>2, <2>2, <2>3 DEF Dead
  <1>3. ASSUME NEW i \in Awaited \cap Doomed, i \notin Dead, ~DeadStays(i)
        PROVE  phase'[i] \in Idling /\ ~Stamped(i)' /\ deps[i] \subseteq deps'[i]
    <2>1. i \in Cards /\ BlockedBy(i, Doomed) /\ Leaf(i) /\ LeafFits(i)
      BY <1>3, DoomedUnfolds DEF LeavesFit
    <2>2. ~Stamped(i)'
      BY <2>1, LeafFitsStep DEF LeafFits
    <2>3. phase[i] \in Idling
      BY <2>1 DEF BlockedBy, Idling
    <2>4. deps[i] \subseteq deps'[i]
      BY <1>0, <2>1, <2>3, DepsWriter DEF Idling
    <2>5. ASSUME NEW k \in Passes, Passed(k, i)
          PROVE  phase'[i] # "RUNNING"
      BY <1>0, <2>1, <2>3, <2>5 DEF Passed, PassCard, LeafFits, Idling, TypeOK
    <2>6. phase'[i] \in Idling
      BY <1>0, <1>3, <2>1, <2>3, <2>5, IdlingMoves, BlockedIsNotStarted DEF DeadStays
    <2> QED
      BY <2>2, <2>4, <2>6
  <1>4. \A i \in Awaited \cap Doomed : \/ i \in Doomed'
                                       \/ /\ i \notin Dead /\ phase'[i] \in Idling /\ ~Stamped(i)'
                                          /\ deps[i] \subseteq deps'[i]
    BY <1>1, <1>2, <1>3
  <1>5. \A i \in Doomed : phase'[i] # "APPROVED"
    BY <1>0, DoomedMoves DEF DeadStays, Idling
  <1> QED
    BY <1>0, <1>4, <1>5, AwaitedIsClosed, DoomStands

(* What holds on a flat board: its leaves fit and, until a failure is      *)
(* reopened, whatever has finished has finished over settled work.         *)
FlatInv == FewFailures /\ (FlatBoard => LeavesFit /\ (FailuresStand => FinishedOver))

LEMMA FlatStep ==
    ASSUME TurnsInv, FlatInv, [Next]_vars
    PROVE  FlatInv'
  <1>1. FewFailures' /\ (FailuresStand' => FailuresStand /\ Failed \subseteq Failed')
    BY FewFailuresStep DEF FlatInv, TurnsInv
  <1>2. ASSUME FlatBoard
        PROVE  LeavesFit' /\ (FailuresStand' => FinishedOver')
    <2>1. LeavesFit'
      BY <1>2, LeavesFitStep DEF FlatInv
    <2>2. ASSUME FailuresStand'
          PROVE  FinishedOver'
      BY <1>1, <1>2, <2>2, FlatDoomStands, FinishedStep DEF FlatInv
    <2> QED
      BY <2>1, <2>2
  <1> QED
    BY <1>1, <1>2 DEF FlatInv, FlatBoard, Leaf, Hard

LEMMA FlatInit == Init => FlatInv
  <1> SUFFICES ASSUME Init
               PROVE  FewFailures
    BY LeavesFitInit, FinishedInit DEF FlatInv
  <1>1. Failed = {} /\ failures = 0
    BY DEF Init, Failed
  <1> QED
    BY <1>1, FS_EmptySet DEF FewFailures

(* On a flat board of any size, with any number of passes, failures and    *)
(* outages, no card is approved over work it was not told about.           *)
THEOREM FlatApprovalsAreSettled == FlatBoard => (Spec => ApprovesOverSettledWork)
  <1>1. FlatBoard /\ TurnsInv /\ FlatInv /\ [Next]_vars =>
          [\A i \in Cards \ IntakeCards :
             FailuresStand /\ RollupCards = {} /\ phase[i] # "APPROVED" /\ phase'[i] = "APPROVED" =>
                 \A d \in deps[i] : \/ phase[d] \in DONE_PHASES
                                    \/ d \in Doomed \cup stamp[i].over]_vars
    BY ApprovalIsSettled DEF FlatInv
  <1>2. TurnsInv /\ FlatInv /\ [Next]_vars => FlatInv'
    BY FlatStep
  <1>3. FlatBoard /\ [Next]_vars => FlatBoard'
    BY DEF FlatBoard, Leaf, Hard
  <1> QED
    BY <1>1, <1>2, <1>3, FlatInit, TurnsInvariant, PTL DEF Spec, ApprovesOverSettledWork
=============================================================================
