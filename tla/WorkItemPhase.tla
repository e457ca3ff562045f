---------------------------- MODULE WorkItemPhase ----------------------------
(***************************************************************************)
(* The lifecycle phase of a delegation work item ("card"): the phases, the *)
(* sets the runtime groups them in, and the table of legal transitions     *)
(* every phase write is validated against.                                 *)
(***************************************************************************)

Phase ==
    {"QUEUED", "READY", "READY_FOR_REWORK", "WAITING_DEPENDENCIES",
     "RUNNING", "WAITING_FOR_PEER", "WAITING_FOR_CHILDREN", "PAUSED",
     "NEEDS_ATTENTION", "AWAITING_MANAGER_REVIEW", "AWAITING_HUMAN",
     "APPROVED", "FAILED", "CANCELLED"}

TODO_PHASES == {"QUEUED", "READY", "READY_FOR_REWORK", "WAITING_DEPENDENCIES"}

IN_PROGRESS_PHASES ==
    {"RUNNING", "WAITING_FOR_PEER", "WAITING_FOR_CHILDREN", "PAUSED",
     "NEEDS_ATTENTION"}

IN_REVIEW_PHASES == {"AWAITING_MANAGER_REVIEW", "AWAITING_HUMAN"}

DONE_PHASES == {"APPROVED", "FAILED", "CANCELLED"}

RUNNABLE_PHASES == {"READY", "READY_FOR_REWORK"}

UNIVERSAL_EXITS == {"FAILED", "CANCELLED"}

RECOVERY_EXITS == {"READY"}

(* The edges of the table that are particular to one phase.                *)
OwnEdges(p) ==
    CASE p = "QUEUED"                  -> {"READY", "WAITING_DEPENDENCIES"}
      [] p = "WAITING_DEPENDENCIES"    -> {"READY"}
      [] p = "READY"                   -> {"RUNNING", "WAITING_DEPENDENCIES"}
      [] p = "READY_FOR_REWORK"        -> {"READY", "RUNNING"}
      [] p = "RUNNING"                 -> {"WAITING_FOR_PEER", "WAITING_FOR_CHILDREN",
                                           "PAUSED", "NEEDS_ATTENTION", "APPROVED"}
                                          \cup IN_REVIEW_PHASES
      [] p = "AWAITING_MANAGER_REVIEW" -> {"APPROVED", "READY_FOR_REWORK", "AWAITING_HUMAN"}
      [] p = "AWAITING_HUMAN"          -> {"APPROVED", "READY_FOR_REWORK"}
      [] p = "FAILED"                  -> {"READY"}
      [] p \in {"APPROVED", "CANCELLED"} -> {}
      [] OTHER                         -> {"RUNNING"}

ALLOWED_TRANSITIONS(p) ==
    OwnEdges(p)
      \cup (IF p \in DONE_PHASES THEN {} ELSE UNIVERSAL_EXITS)
      \cup (IF p \in IN_PROGRESS_PHASES \cup IN_REVIEW_PHASES THEN RECOVERY_EXITS ELSE {})

(* A write that keeps the phase is always legal; any other must be an edge *)
(* of the table, or the store raises and nothing of the write is applied.  *)
Legal(from, to) == from = to \/ to \in ALLOWED_TRANSITIONS(from)

(* Mutant: only the failures of a child are propagated.                    *)
FailureRefreshTargets == UNIVERSAL_EXITS \cup {"AWAITING_HUMAN", "READY_FOR_REWORK"}

(* Phases reached by which the run's dependency frontier is refreshed.     *)
DependentRefreshTargets == DONE_PHASES \cup {"AWAITING_HUMAN", "READY_FOR_REWORK"}
=============================================================================
