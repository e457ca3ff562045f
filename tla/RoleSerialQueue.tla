--------------------------- MODULE RoleSerialQueue ---------------------------
(***************************************************************************)
(* The serial queue of one role session.                                   *)
(*                                                                         *)
(* A role works on one card at a time.  A card of the role that becomes    *)
(* runnable while the session is focused on another is appended to the     *)
(* session's pending queue and marked, and the dispatcher skips marked     *)
(* cards.  Three parties move that state: the phase hooks, in the          *)
(* coroutine of whoever wrote the phase; the reconciler, which both the    *)
(* dispatcher's tick and the terminal hook run; and the tick itself, which *)
(* keeps a copy of the session in memory, claims cards and saves the copy. *)
(* A step is what a coroutine does around one call of the store; the calls *)
(* themselves are taken apart in WorkItemStore.                            *)
(***************************************************************************)
EXTENDS WorkItemPhase, Naturals, SequencesExt, SequenceFilter

CONSTANTS
    N,             \* cards of the role, in the order the store lists them
    ReviewCards,   \* review execution cards: created without a session stamp
    ParkingCards,  \* cards whose turn may delegate and park on its children
    Returned,      \* cards a review may send back (bound)
    Withdrawn,     \* cards a manager may withdraw (bound)
    MaxOutages     \* stop / resume cycles of the run (bound)

Cards == 1..N
None  == 0         \* no card
Tick  == 0         \* the dispatcher's tick, as the owner of a reconcile
Workers == {Tick} \cup Cards   \* card i: the coroutine that closed card i

ASSUME RoleAssumption ==
    /\ N \in Nat \ {0}
    /\ ReviewCards \subseteq Cards
    /\ ParkingCards \subseteq Cards \ ReviewCards
    /\ Returned \cup Withdrawn \subseteq Cards
    /\ MaxOutages \in Nat

VARIABLES
    row,      \* delegation_work_items: the cards' rows
    sess,     \* role_runtime_sessions: the session's row
    mem,      \* the copy in memory, with the member session that mirrors it
    prev,     \* the card a review turn preempted, or None
    runq,     \* role_queues: the cards waiting to be claimed, in memory
    tick,     \* where the dispatcher's loop is
    turn,     \* where the coroutine running the card is
    hook,     \* the enqueue hooks in flight: <<card, next call>>
    rec,      \* the terminal hooks and reconciles in flight
    outages

vars == <<row, sess, mem, prev, runq, tick, turn, hook, rec, outages>>

-----------------------------------------------------------------------------
(* A claim is a column and its copy in the metadata; waking a parent clears*)
(* only the column and leaves a "copy".                                    *)
Rows == [phase : Phase, claim : {"free", "held", "copy"}, marked : BOOLEAN]

Queues == {q \in UNION {[1..n -> Cards] : n \in 0..N} : IsInjective(q)}

Sessions == [focus : Cards \cup {None}, status : {"idle", "running", "blocked"},
             pending : Queues]

(* normalize_role_runtime_status, as every save of the row applies it: an  *)
(* idle session has no focus and a running one has.                        *)
Saved(s) ==
    IF s.status = "idle" \/ (s.status = "running" /\ s.focus = None)
    THEN [s EXCEPT !.status = "idle", !.focus = None]
    ELSE s

Dispatchable(r) ==
    /\ ~r.marked
    /\ \/ r.phase \in RUNNABLE_PHASES
       \/ r.phase \in IN_PROGRESS_PHASES /\ r.claim # "held"

(* The claim's compare-and-set also wants the copy in the metadata empty.  *)
Claimable(r, from) == r.phase = from /\ r.claim = "free" /\ ~r.marked

Candidate(r) == r.phase \in RUNNABLE_PHASES /\ r.claim # "held"

(* Every phase but READY, READY_FOR_REWORK, QUEUED and the closed ones.    *)
ClaimReleasable == IN_PROGRESS_PHASES \cup IN_REVIEW_PHASES

(* The card that keeps the session busy, by the rows a reconcile has read. *)
ActiveFocus(s, k) ==
    IF \/ s.focus = None
       \/ k[s.focus].phase \in DONE_PHASES
       \/ k[s.focus].phase \in ClaimReleasable /\ k[s.focus].claim # "held"
    THEN None ELSE s.focus

-----------------------------------------------------------------------------
(* reconcile_role_serial_queues: what it decides from one session row s and *)
(* the rows k it has read.                                                 *)

Idle == [st |-> "idle", row |-> <<>>, sess |-> <<>>, before |-> <<>>,
         after |-> <<>>, touched |-> FALSE]

(* A reconcile clears the markers it found before the save, saves the      *)
(* session if it changed, clears the markers found after, and is done.     *)
Settled(r) ==
    IF r.before # <<>> \/ r.sess # <<>> THEN [r EXCEPT !.st = "before"]
    ELSE IF r.after # <<>> THEN [r EXCEPT !.st = "after"]
    ELSE [Idle EXCEPT !.touched = r.touched]

InOrder(S) == Kept([i \in Cards |-> i], S)

Plan(s, k) ==
    LET focus    == ActiveFocus(s, k)
        clean    == Kept(s.pending, {i \in Cards : Candidate(k[i])})
        loose    == {i \in Cards \ Range(clean) : Candidate(k[i]) /\ ~k[i].marked}
        front    == IF focus # None \/ loose = {} THEN None
                    ELSE CHOOSE i \in loose : \A j \in loose : i <= j
        promotes == focus = None /\ front = None /\ clean # <<>>
        head     == IF promotes THEN Head(clean) ELSE None
        queue    == IF promotes THEN Tail(clean) ELSE clean
        blocker  == IF focus # None THEN focus ELSE IF front # None THEN front ELSE head
        pruned   == Kept(s.pending, {i \in Cards : ~Candidate(k[i]) \/ i = head})
        before   == Kept(pruned, {i \in Cards : k[i].marked})
        stale    == {i \in Cards \ Range(before) :
                        k[i].marked /\ (i \notin Range(queue) \/ blocker = None)}
    IN  [sess   |-> Saved([focus   |-> focus, pending |-> queue,
                           status  |-> IF focus = None
                                          /\ (s.focus # None \/ blocker = None)
                                       THEN "idle" ELSE s.status]),
         before |-> before,
         after  |-> InOrder(stale),
         touched |-> pruned # <<>> \/ stale # {} \/ s.focus # focus]

RecLoadSessions(w) ==
    /\ \/ rec[w].st = "sessions"
       \/ rec[w].st = "list" /\ sess.focus # w
    /\ rec' = [rec EXCEPT ![w].st = "items", ![w].sess = sess]
    /\ UNCHANGED <<row, sess, mem, prev, runq, tick, turn, hook, outages>>

RecLoadItems(w) ==
    /\ rec[w].st = "items"
    /\ \E plan \in {Plan(rec[w].sess, row)} :
       rec' = [rec EXCEPT ![w] = Settled(
                  [st |-> "before", before |-> plan.before, after |-> plan.after,
                   row |-> [i \in Range(plan.before \o plan.after) |-> row[i]],
                   touched |-> w = Tick /\ plan.touched,
                   sess |-> IF plan.sess = @.sess THEN <<>> ELSE plan.sess])]
    /\ UNCHANGED <<row, sess, mem, prev, runq, tick, turn, hook, outages>>

(* Mutant: a marker that should go is left.                                *)
ClearNothing(k, i) == UNCHANGED <<row, hook>>

(* _clear_queued_marker saves the row the reconcile has read, claim and    *)
(* phase included; a phase the table forbids is refused, and the hooks of  *)
(* the save see the phase it moved.                                        *)
ClearMarker(k, i) ==
    LET new == [k[i] EXCEPT !.marked = FALSE] IN
    IF Legal(row[i].phase, new.phase)
    THEN /\ row' = [row EXCEPT ![i] = new]
         /\ hook' = IF new.phase # row[i].phase /\ new.phase \in RUNNABLE_PHASES
                    THEN hook \cup {<<i, "read">>} ELSE hook
    ELSE UNCHANGED <<row, hook>>

RecClear(w) ==
    /\ \/ /\ rec[w].st = "before"
          /\ rec[w].before # <<>>
          /\ ClearMarker(rec[w].row, Head(rec[w].before))
          /\ rec' = [rec EXCEPT ![w] = Settled([rec[w] EXCEPT !.before = Tail(@)])]
       \/ /\ rec[w].st = "after"
          /\ ClearMarker(rec[w].row, Head(rec[w].after))
          /\ rec' = [rec EXCEPT ![w] = Settled([rec[w] EXCEPT !.after = Tail(@)])]
    /\ UNCHANGED <<sess, mem, prev, runq, tick, turn, outages>>

RecSave(w) ==
    /\ rec[w].st = "before"
    /\ rec[w].before = <<>>
    /\ sess' = rec[w].sess
    /\ rec' = [rec EXCEPT ![w] = Settled([@ EXCEPT !.sess = <<>>])]
    /\ UNCHANGED <<row, mem, prev, runq, tick, turn, hook, outages>>

-----------------------------------------------------------------------------
(* The phase hooks.                                                        *)

(* clear_session_focus_on_terminal_hook: list the sessions, clear a focus  *)
(* that still names the card, then reconcile the card's session.           *)
TermList(c) ==
    /\ rec[c].st = "list"
    /\ sess.focus = c
    /\ rec' = [rec EXCEPT ![c].st = "clear", ![c].sess = sess]
    /\ UNCHANGED <<row, sess, mem, prev, runq, tick, turn, hook, outages>>

TermClear(c) ==
    /\ rec[c].st = "clear"
    /\ sess' = Saved([sess EXCEPT !.focus = None,
                         !.status = IF rec[c].sess.status = "blocked" THEN "idle" ELSE @])
    /\ rec' = [rec EXCEPT ![c].st = "sessions", ![c].sess = <<>>]
    /\ UNCHANGED <<row, mem, prev, runq, tick, turn, hook, outages>>

(* enqueue_session_work_on_runnable_hook: read the focus, append the card, *)
(* mark it.  A card without a session stamp is left alone.                 *)
HookRead(c) ==
    /\ <<c, "read">> \in hook
    /\ hook' = (hook \ {<<c, "read">>})
                 \cup (IF sess.focus \notin {None, c} THEN {<<c, "append">>} ELSE {})
    /\ UNCHANGED <<row, sess, mem, prev, runq, tick, turn, rec, outages>>

HookAppend(c) ==
    /\ <<c, "append">> \in hook
    /\ LET new == c \notin Range(sess.pending) IN
       /\ sess' = IF new THEN [sess EXCEPT !.pending = Append(@, c)] ELSE sess
       /\ hook' = (hook \ {<<c, "append">>})
                    \cup (IF new THEN {<<c, "mark">>} ELSE {})
    /\ UNCHANGED <<row, mem, prev, runq, tick, turn, rec, outages>>

HookMark(c) ==
    /\ <<c, "mark">> \in hook
    /\ row' = [row EXCEPT ![c].marked = TRUE]
    /\ hook' = hook \ {<<c, "mark">>}
    /\ UNCHANGED <<sess, mem, prev, runq, tick, turn, rec, outages>>

Runnable(c) ==
    IF c \in ReviewCards THEN UNCHANGED hook ELSE hook' = hook \cup {<<c, "read">>}

Closed(c) == rec' = [rec EXCEPT ![c] = [Idle EXCEPT !.st = "list"]]

-----------------------------------------------------------------------------
(* What the rest of the run does to the role's cards.                      *)

(* Its dependencies are settled, or the hidden review card is created.     *)
Release(c) ==
    /\ row[c].phase = "WAITING_DEPENDENCIES"
    /\ row' = [row EXCEPT ![c].phase = "READY"]
    /\ Runnable(c)
    /\ UNCHANGED <<sess, mem, prev, runq, tick, turn, rec, outages>>

(* The reviewer's verdict, which comes after the worker's report turn.  A  *)
(* returned card keeps its claim.                                          *)
Approve(c) ==
    /\ row[c].phase = "AWAITING_MANAGER_REVIEW"
    /\ turn[c] = "none" /\ rec[c].st = "idle"
    /\ row' = [row EXCEPT ![c].phase = "APPROVED"]
    /\ Closed(c)
    /\ UNCHANGED <<sess, mem, prev, runq, tick, turn, hook, outages>>

Return(c) ==
    /\ c \in Returned
    /\ row[c].phase = "AWAITING_MANAGER_REVIEW"
    /\ turn[c] = "none"
    /\ row' = [row EXCEPT ![c].phase = "READY_FOR_REWORK"]
    /\ Runnable(c)
    /\ UNCHANGED <<sess, mem, prev, runq, tick, turn, rec, outages>>

(* A manager withdraws a card nobody works on.                             *)
Withdraw(c) ==
    /\ c \in Withdrawn
    /\ row[c].phase \in TODO_PHASES
    /\ row[c].claim = "free" /\ turn[c] = "none" /\ rec[c].st = "idle"
    /\ row' = [row EXCEPT ![c].phase = "CANCELLED"]
    /\ Closed(c)
    /\ UNCHANGED <<sess, mem, prev, runq, tick, turn, hook, outages>>

(* The children of a parked card are done: the frontier wakes it.          *)
Wake(c) ==
    /\ row[c].phase = "WAITING_FOR_CHILDREN"
    /\ row' = [row EXCEPT ![c].phase = "RUNNING",
                          ![c].claim = IF @ = "held" THEN "copy" ELSE @]
    /\ UNCHANGED <<sess, mem, prev, runq, tick, turn, hook, rec, outages>>

-----------------------------------------------------------------------------
(* The dispatcher's tick.                                                  *)

(* refresh_inbox_state saves the copy in memory.                           *)
TickSync ==
    /\ tick.pc = "sync"
    /\ \A c \in Cards : turn[c] \notin {"crashed", "closing"}
    /\ sess' = Saved(mem)
    /\ tick' = [tick EXCEPT !.pc = "load"]
    /\ UNCHANGED <<row, mem, prev, runq, turn, hook, rec, outages>>

(* The cards as the tick reads them: their phase, if they can be dispatched.*)
Seen == [i \in Cards |-> IF Dispatchable(row[i]) THEN row[i].phase ELSE "busy"]

(* The cards are loaded, then every session of the run is reconciled.      *)
TickLoad ==
    /\ tick.pc = "load"
    /\ tick' = [tick EXCEPT !.pc = "reconcile", !.seen = Seen]
    /\ rec' = [rec EXCEPT ![Tick] = [Idle EXCEPT !.st = "items", !.sess = sess]]
    /\ UNCHANGED <<row, sess, mem, prev, runq, turn, hook, outages>>

(* The cards are loaded again when the reconcile changed anything.         *)
TickReload ==
    /\ tick.pc = "reconcile"
    /\ rec[Tick].st = "idle"
    /\ tick' = [tick EXCEPT !.pc = "plan", !.seen = IF rec[Tick].touched THEN Seen ELSE @]
    /\ rec' = [rec EXCEPT ![Tick] = Idle]
    /\ UNCHANGED <<row, sess, mem, prev, runq, turn, hook, outages>>

(* Mutant: a card that already waits in the queue is queued again.         *)
EnqueuedAgain(q, seen) ==
    LET new == {i \in Cards : seen[i] \notin {"busy", "WAITING_FOR_CHILDREN"}}
    IN  Reverse(InOrder(new \cap ReviewCards)) \o q \o InOrder(new \ ReviewCards)

(* enqueue_runnable_work_items: reviews go to the front, one by one.       *)
Enqueued(q, seen) ==
    LET new == {i \in Cards \ Range(q) : seen[i] \notin {"busy", "WAITING_FOR_CHILDREN"}}
    IN  Reverse(InOrder(new \cap ReviewCards)) \o q \o InOrder(new \ ReviewCards)

(* _rehydrate_parked_member_sessions: a parked session whose card can be   *)
(* dispatched again is idle.                                               *)
Rehydrated(s, seen) ==
    IF s.status = "blocked" /\ (s.focus = None \/ seen[s.focus] # "busy")
    THEN [s EXCEPT !.status = "idle", !.focus = None]
    ELSE s

(* Mutant: the status of the session is not looked at.                     *)
AdmitsAlways(s, q) == q # <<>>

(* Mutant: a parked role claims nothing at all.                            *)
AdmitsIdleOnly(s, q) == q # <<>> /\ s.status = "idle"

(* claim_runnable_tasks: a running role claims nothing, a parked one only  *)
(* when a review is waiting.                                               *)
Admits(s, q) ==
    /\ q # <<>>
    /\ s.status # "running"
    /\ s.status = "blocked" => Range(q) \cap ReviewCards # {}

Polling == [pc |-> "sync", seen |-> <<>>, card |-> None, soft |-> FALSE]

TickPlan ==
    /\ tick.pc = "plan"
    /\ runq' = Enqueued(runq, tick.seen)
    /\ mem' = Rehydrated(mem, tick.seen)
    /\ tick' = IF Admits(mem', runq')
               THEN [tick EXCEPT !.pc = "pick", !.soft = mem'.status = "blocked"]
               ELSE Polling
    /\ UNCHANGED <<row, sess, prev, turn, hook, rec, outages>>

(* Entries are popped, reviews first, until one can be claimed; a card this*)
(* dispatcher already runs is dropped.                                     *)
TickPick ==
    /\ tick.pc = "pick"
    /\ LET order  == Kept(runq, ReviewCards) \o Kept(runq, Cards \ ReviewCards)
           good   == Kept(order, {i \in Cards : turn[i] \in {"none", "verdict"}
                                                  /\ tick.seen[i] # "busy"})
           popped == IF good = <<>> THEN Cards
                     ELSE {order[j] : j \in 1..SelectInSeq(order, LAMBDA i : i = Head(good))}
       IN  /\ runq' = Kept(runq, Cards \ popped)
           /\ tick' = IF good = <<>> THEN Polling
                      ELSE [tick EXCEPT !.pc = "cas", !.card = Head(good)]
    /\ UNCHANGED <<row, sess, mem, prev, turn, hook, rec, outages>>

TickClaim ==
    /\ tick.pc = "cas"
    /\ LET c == tick.card IN
       IF Claimable(row[c], tick.seen[c])
       THEN /\ row' = [row EXCEPT ![c].phase = "RUNNING", ![c].claim = "held"]
            /\ tick' = [tick EXCEPT !.pc = "won", !.seen = <<>>]
       ELSE /\ tick' = [tick EXCEPT !.pc = "pick", !.card = None]
            /\ UNCHANGED row
    /\ UNCHANGED <<sess, mem, prev, runq, turn, hook, rec, outages>>

(* The claim is won: the session takes the card, is saved, and the turn is *)
(* started.  A review that preempts a parked role stashes its focus.       *)
TickStart ==
    /\ tick.pc = "won"
    /\ LET c == tick.card IN
       /\ prev' = IF tick.soft /\ c \in ReviewCards THEN mem.focus ELSE prev
       /\ mem' = [mem EXCEPT !.focus = c, !.status = "running"]
       /\ turn' = [turn EXCEPT ![c] = "work"]
    /\ sess' = Saved(mem')
    /\ tick' = Polling
    /\ UNCHANGED <<row, runq, hook, rec, outages>>

-----------------------------------------------------------------------------
(* A turn: what it writes when it ends, and complete_claim after it.       *)

(* A worker delivers for review or parks on the children it delegated; a   *)
(* write the table forbids raises, as a crash of the turn does.            *)
TurnEnds(c) ==
    /\ turn[c] = "work"
    /\ c \notin ReviewCards
    /\ \E to \in {"AWAITING_MANAGER_REVIEW"}
                   \cup (IF c \in ParkingCards THEN {"WAITING_FOR_CHILDREN"} ELSE {}) :
          IF Legal(row[c].phase, to)
          THEN /\ row' = [row EXCEPT ![c].phase = to]
               /\ turn' = [turn EXCEPT ![c] =
                              IF to = "WAITING_FOR_CHILDREN" THEN "parked" ELSE "ended"]
          ELSE /\ turn' = [turn EXCEPT ![c] = "crashed"]
               /\ UNCHANGED row
    /\ UNCHANGED <<sess, mem, prev, runq, tick, hook, rec, outages>>

(* A review turn writes nothing: its verdict is applied after the claim is *)
(* completed, and closes the review card.                                  *)
ReviewEnds(c) ==
    /\ turn[c] = "work"
    /\ c \in ReviewCards
    /\ turn' = [turn EXCEPT ![c] = "ended"]
    /\ UNCHANGED <<row, sess, mem, prev, runq, tick, hook, rec, outages>>

(* _handle_claimed_work_item_exception, in the tick's coroutine.           *)
Harvest(c) ==
    /\ turn[c] = "crashed"
    /\ tick.pc = "sync" /\ rec[c].st = "idle"
    /\ turn' = [turn EXCEPT ![c] = "closing"]
    /\ IF Legal(row[c].phase, "FAILED") /\ row[c].phase # "FAILED"
       THEN /\ row' = [row EXCEPT ![c].phase = "FAILED"]
            /\ Closed(c)
       ELSE UNCHANGED <<row, rec>>
    /\ UNCHANGED <<sess, mem, prev, runq, tick, hook, outages>>

StillParked(c) == c # None /\ row[c].phase = "WAITING_FOR_CHILDREN"

(* complete_claim: the role is idle again, unless its card is parked or    *)
(* the card a review preempted still is.                                   *)
Complete(c) ==
    /\ turn[c] \in {"parked", "ended", "closing"}
    /\ turn[c] = "closing" => rec[c].st = "idle"
    /\ LET parked == IF c \in ReviewCards /\ StillParked(prev) THEN prev
                     ELSE IF turn[c] = "parked" THEN c ELSE None
       IN  mem' = [mem EXCEPT !.focus = parked,
                       !.status = IF parked = None THEN "idle" ELSE "blocked"]
    /\ prev' = IF c \in ReviewCards THEN None ELSE prev
    /\ sess' = Saved(mem')
    /\ turn' = [turn EXCEPT ![c] =
                   IF c \in ReviewCards /\ @ = "ended" THEN "verdict" ELSE "none"]
    /\ UNCHANGED <<row, runq, tick, hook, rec, outages>>

(* _persist_terminal_review_card: the verdict closes the card and drops the*)
(* claim with its copy.                                                    *)
CloseReview(c) ==
    /\ turn[c] = "verdict" /\ rec[c].st = "idle"
    /\ turn' = [turn EXCEPT ![c] = "none"]
    /\ IF Legal(row[c].phase, "APPROVED") /\ row[c].phase # "APPROVED"
       THEN /\ row' = [row EXCEPT ![c].phase = "APPROVED", ![c].claim = "free"]
            /\ Closed(c)
       ELSE /\ row' = [row EXCEPT ![c].claim = "free"]
            /\ UNCHANGED rec
    /\ UNCHANGED <<sess, mem, prev, runq, tick, hook, outages>>

(* The run is stopped and resumed: every coroutine is gone, the open cards *)
(* are unclaimed, the session is idle, and the new copy in memory starts   *)
(* from the session's row.                                                 *)
Resume ==
    /\ outages < MaxOutages
    /\ outages' = outages + 1
    /\ row' = [c \in Cards |-> IF row[c].phase \in DONE_PHASES THEN row[c]
                               ELSE [row[c] EXCEPT !.claim = "free"]]
    /\ sess' = [sess EXCEPT !.focus = None, !.status = "idle"]
    /\ mem' = [focus |-> None, status |-> "idle", pending |-> sess.pending]
    /\ prev' = None
    /\ runq' = <<>>
    /\ tick' = Polling
    /\ turn' = [c \in Cards |-> "none"]
    /\ hook' = {}
    /\ rec' = [w \in Workers |-> Idle]

-----------------------------------------------------------------------------
Init ==
    /\ row = [c \in Cards |-> [phase |-> "WAITING_DEPENDENCIES", claim |-> "free",
                               marked |-> FALSE]]
    /\ sess = [focus |-> None, status |-> "idle", pending |-> <<>>]
    /\ mem = sess
    /\ prev = None
    /\ runq = <<>>
    /\ tick = Polling
    /\ turn = [c \in Cards |-> "none"]
    /\ hook = {}
    /\ rec = [w \in Workers |-> Idle]
    /\ outages = 0

TickStep ==
    TickSync \/ TickLoad \/ TickReload \/ TickPlan \/ TickPick \/ TickClaim \/ TickStart

Reconcile(w) ==
    RecLoadSessions(w) \/ RecLoadItems(w) \/ RecClear(w) \/ RecSave(w)

HookStep(c) ==
    TermList(c) \/ TermClear(c) \/ HookRead(c) \/ HookAppend(c) \/ HookMark(c)

TurnStep(c) ==
    TurnEnds(c) \/ ReviewEnds(c) \/ Harvest(c) \/ Complete(c) \/ CloseReview(c)

(* What the model's environment may do, and need not.                      *)
RunStep(c) == Release(c) \/ Approve(c) \/ Return(c) \/ Withdraw(c) \/ Wake(c)

(* The dispatcher's loop polls; hooks, reconciles and turns run to their   *)
(* end in the coroutine that started them (an agent has a timeout).        *)
Loop == TickStep \/ Reconcile(Tick)

Coroutines == \E c \in Cards : Reconcile(c) \/ HookStep(c) \/ TurnStep(c)

Next ==
    \/ Loop
    \/ Coroutines
    \/ \E c \in Cards : RunStep(c)
    \/ Resume

Fairness == WF_vars(Loop) /\ WF_vars(Coroutines)

Spec == Init /\ [][Next]_vars /\ Fairness

-----------------------------------------------------------------------------
TypeOK ==
    /\ row \in [Cards -> Rows]
    /\ sess \in Sessions /\ mem \in Sessions
    /\ prev \in Cards \cup {None}
    /\ runq \in Queues
    /\ tick.pc \in {"sync", "load", "reconcile", "plan", "pick", "cas", "won"}
    /\ tick.card \in Cards \cup {None}
    /\ turn \in [Cards -> {"none", "work", "parked", "ended", "crashed", "closing",
                           "verdict"}]
    /\ hook \subseteq Cards \X {"read", "append", "mark"}
    /\ \A w \in Workers : rec[w].st \in {"idle", "list", "clear", "sessions", "items",
                                         "before", "after"}
    /\ outages \in 0..MaxOutages

Busy(c) == turn[c] \in {"work", "parked", "ended", "crashed", "closing"}

(* A role works on one card at a time, however its cards were queued,      *)
(* marked, revived by a stale save, or left by a stopped run ("the role's  *)
(* serial queue"), and the session in memory is focused on that card as    *)
(* long as its turn has not been completed.                                *)
OneTurnPerRole ==
    /\ \A c, d \in Cards : Busy(c) /\ Busy(d) => c = d
    /\ \A c \in Cards : Busy(c) => mem.status = "running" /\ mem.focus = c

(* A review card of a role is eventually claimed or withdrawn even while   *)
(* the role is parked on a card whose children never finish ("a manager    *)
(* seat that is blocked ... must still be able to process review tasks").  *)
ReviewsAreTaken ==
    \A c \in ReviewCards :
       (row[c].phase = "READY" /\ row[c].claim = "free") ~> (row[c].phase # "READY")

(* A runnable card is not forgotten behind a marker, a queue entry or a    *)
(* busy session: it is claimed or withdrawn, unless a card of the role     *)
(* waits for its children.                                                 *)
WorkIsTaken ==
    \A c \in Cards \ ReviewCards :
       (row[c].phase = "READY" /\ row[c].claim = "free")
          ~> \/ row[c].phase # "READY"
             \/ \E d \in Cards : row[d].phase = "WAITING_FOR_CHILDREN"

(* "On a live transition the focused item retains its claim": while a turn *)
(* runs, its card stays RUNNING and claimed.  Does not hold.               *)
LiveTurnKeepsItsCard ==
    \A c \in Cards : turn[c] = "work" => row[c].phase = "RUNNING" /\ row[c].claim = "held"

(* The pending queue is "the source of truth": while the session stays     *)
(* focused on another card, a card that can still run is not dropped from  *)
(* it.  Does not hold.                                                     *)
QueuedCardStaysQueued ==
    [][\A c \in Range(sess.pending) :
          /\ ActiveFocus(sess, row) \notin {None, c}
          /\ sess'.focus = sess.focus
          /\ Candidate(row[c])
          => c \in Range(sess'.pending)]_vars
=============================================================================
