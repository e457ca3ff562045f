-------------------------- MODULE ReviewChainProofs --------------------------
(***************************************************************************)
(* What holds of the review chain for any number of review tasks, reworks, *)
(* retries, faults and races: the types, that a projected verdict is on a  *)
(* closed review card, that closed cards are not rewritten, that a verdict *)
(* is projected only over the report accepted last, and that the replays   *)
(* of the tick never decide twice with one verdict, its twin apart.        *)
(***************************************************************************)
EXTENDS ReviewChain, TLAPS, WellFoundedInduction, FiniteSetTheorems

-----------------------------------------------------------------------------
(* The invariant.                                                          *)

(* A verdict that is on record: on a review card that was closed with it.  *)
Journalled(b, k) ==
    /\ k \in DOMAIN b.reviews
    /\ b.reviews[k].phase = "APPROVED"
    /\ b.reviews[k].verdict # NoVerdict

(* A review card that a task may still be working on: claimed, or closed   *)
(* under it.                                                               *)
Held(review) ==
    /\ review.phase \in {"RUNNING", "FAILED", "CANCELLED"}
    /\ review.phase = "RUNNING" => review.claimed

(* The points of _apply_review_resolution.                                 *)
Projecting == {"check", "cas", "recheck", "markStale", "markApplied"}

(* The points at which a task works on the review card it claimed.         *)
Holding == {"turn", "failed", "closeMoot", "retry", "persist"}

(* The points at which the worker works on a report it claimed.            *)
Reporting(place) ==
    place.pc \in {"accept", "refuse"} \/ (place.pc = "turn" /\ place.card # 0)

(* A place that makes sense on board b: what is applied is on record, what *)
(* is superseded or retried exists, what is persisted is a verdict.        *)
Fits(b, p, place) ==
    /\ place.pc \in Projecting => Journalled(b, place.card)
    /\ place.pc \in {"supersede", "countRetry"} => place.card \in DOMAIN b.reviews
    /\ place.pc = "review" /\ p = "tick" => place.card \in DOMAIN b.reviews \cup {0}
    /\ place.pc \in {"retry", "countRetry"} => place.attempt <= ParseRetries
    /\ place.pc = "persist" => place.verdict # NoVerdict

(* What a coroutine has claimed is still open to it.                       *)
Holds(b, p, place) ==
    /\ p \in Tasks /\ place.pc \in Holding =>
          place.card \in DOMAIN b.reviews /\ Held(b.reviews[place.card])
    /\ p = "worker" /\ Reporting(place) =>
          place.card \in DOMAIN b.reports /\ b.reports[place.card].phase = "RUNNING"

(* A review card carries a verdict only once it is closed as decided.      *)
Final(b) ==
    \A k \in DOMAIN b.reviews :
        b.reviews[k].verdict # NoVerdict => b.reviews[k].phase = "APPROVED"

(* VerdictsAreJournalled, of a board.                                      *)
Stamped(b) == b.child.stamp # 0 => Journalled(b, b.child.stamp)

(* Two tasks never work on one review card.                                *)
OneHolder ==
    \A t, u \in Tasks :
        t # u /\ at[t].pc \in Holding /\ at[u].pc \in Holding => at[t].card # at[u].card

(* The verdict of review k has been projected, or is noted as projected.   *)
Consumed(k) ==
    \/ board.reviews[k].state = "applied"
    \/ \E p \in Coroutines : at[p].pc = "markApplied" /\ at[p].card = k

(* The stamp moves forward through the reports: no consumed verdict is     *)
(* about a later report than the verdict on the stamp, which is about none *)
(* later than the one accepted last.                                       *)
StampsAdvance ==
    LET k == board.child.stamp IN
    /\ \A j \in DOMAIN board.reviews :
          Consumed(j) => k # 0 /\ board.reviews[j].source <= board.reviews[k].source
    /\ k # 0 => board.reviews[k].source <= LatestReport(board)

(* The worker is in its turn on the delivered card.                        *)
Working == at["worker"].pc = "turn" /\ at["worker"].card = 0

(* The tick is about to project a verdict it found on record.              *)
Replaying == at["tick"].pc \in {"check", "cas"}

(* While the tick replays a verdict the worker cannot deliver again, so    *)
(* the card it found undecided is still the same delivery.                 *)
TickIsAlone ==
    /\ Working => board.child.phase = "RUNNING"
    /\ Replaying => ~Working
    /\ at["tick"].pc = "cas" /\ Awaits(board) => board.child.stamp # at["tick"].card

(* The inductive invariant.                                                *)
ChainInv ==
    /\ TypeOK
    /\ \A p \in Coroutines : Fits(board, p, at[p]) /\ Holds(board, p, at[p])
    /\ Final(board)
    /\ Stamped(board)
    /\ OneHolder
    /\ StampsAdvance
    /\ TickIsAlone

-----------------------------------------------------------------------------
(* What a step does to the board.                                          *)

(* Nothing that was closed is rewritten between boards b and c.            *)
Keeps(b, c) ==
    /\ \A k \in DOMAIN b.reports :
          /\ k \in DOMAIN c.reports
          /\ b.reports[k].phase \in DONE_PHASES =>
                /\ c.reports[k].phase = b.reports[k].phase
                /\ c.reports[k].outcome = b.reports[k].outcome
    /\ \A k \in DOMAIN b.reviews :
          /\ k \in DOMAIN c.reviews
          /\ c.reviews[k].source = b.reviews[k].source
          /\ b.reviews[k].phase \in DONE_PHASES =>
                /\ c.reviews[k].phase = b.reviews[k].phase
                /\ c.reviews[k].verdict = b.reviews[k].verdict

(* The delivered card waits for its manager.                               *)
Passive(child) == child.phase = "AWAITING_MANAGER_REVIEW"

(* Coroutine p projects a verdict on the report accepted last.             *)
Restamps(p, b, child) ==
    /\ at[p].pc = "cas" /\ child.stamp = at[p].card
    /\ b.reviews[at[p].card].source = LatestReport(b)
    /\ Awaits(b) /\ ~Passive(child)

(* A review becomes consumed only by being marked.                         *)
Consumes(p, b, c) ==
    \A k \in DOMAIN c.reviews : c.reviews[k].state = "applied" =>
        \/ k \in DOMAIN b.reviews /\ b.reviews[k].state = "applied"
        \/ k \in DOMAIN b.reviews /\ at[p].pc = "markApplied" /\ at[p].card = k

(* How a step of p may change the delivered card.                          *)
ChildMoves(p, b, child) ==
    /\ child.phase = b.child.phase \/ p = "worker" \/ (Awaits(b) /\ ~Passive(child))
    /\ Passive(child) => Awaits(b) \/ Working
    /\ child.stamp = b.child.stamp \/ Restamps(p, b, child)

(* Board c may follow board b in a step of p that keeps the invariant.     *)
Follows(p, b, c) ==
    /\ c \in Boards
    /\ Keeps(b, c)
    /\ Consumes(p, b, c)
    /\ ChildMoves(p, b, c.child)
    /\ Final(c)
    /\ Stamped(c)
    /\ \A q \in Coroutines \ {p} : Holds(b, q, at[q]) => Holds(c, q, at[q])

(* The larger of two counters, as the helpers compute the next attempt.    *)
LEMMA MaxOfTwo ==
    \A a, b \in Nat : /\ Max({a, b}) \in Nat
                      /\ Max({a, b}) >= a /\ Max({a, b}) >= b
<1> SUFFICES ASSUME NEW a \in Nat, NEW b \in Nat
             PROVE  /\ Max({a, b}) \in Nat
                    /\ Max({a, b}) >= a /\ Max({a, b}) >= b
    OBVIOUS
<1>1. \E x \in {a, b} : \A y \in {a, b} : x >= y
    OBVIOUS
<1>2. Max({a, b}) \in {a, b} /\ \A y \in {a, b} : Max({a, b}) >= y
    BY <1>1 DEF Max
<1> QED BY <1>2

(* The last of a set of cards is one of them, and none is later.           *)
LEMMA LastBounds ==
    ASSUME NEW n \in Nat, NEW S \in SUBSET (1..n)
    PROVE  /\ Last(S) \in S \cup {0}
           /\ \A k \in S : k <= Last(S)
<1> DEFINE T == S \cup {0}
           D == {n - k : k \in T}
           R == OpToRel(<, Nat)
<1>1. D \subseteq Nat /\ D # {}
    OBVIOUS
<1>2. PICK d \in D : \A e \in D : ~ (<<e, d>> \in R)
    <2> HIDE DEF D, R
    <2> QED BY <1>1, WFMin, NatLessThanWellFounded DEF R
<1>3. \A e \in D : ~ (e < d)
    <2> SUFFICES ASSUME NEW e \in D, e < d PROVE FALSE
        OBVIOUS
    <2>1. e \in Nat /\ d \in Nat
        BY <1>1, <1>2
    <2> QED BY <1>2, <2>1 DEF OpToRel
<1>4. PICK m \in T : d = n - m
    BY <1>2
<1>5. \A k \in T : m >= k
    <2> SUFFICES ASSUME NEW k \in T PROVE m >= k
        OBVIOUS
    <2>1. ~ (n - k < n - m)
        BY <1>3, <1>4
    <2>2. k \in Nat /\ m \in Nat
        OBVIOUS
    <2> QED BY <2>1, <2>2
<1>6. Max(T) \in T /\ \A k \in T : Max(T) >= k
    <2> HIDE DEF T
    <2> QED BY <1>4, <1>5 DEF Max
<1>7. Last(S) = Max(T)
    BY DEF Last
<1> HIDE DEF D, R
<1> QED BY <1>6, <1>7

(* A set of cards can be counted.                                          *)
LEMMA CountOf ==
    \A n \in Nat : \A S \in SUBSET (1..n) : Cardinality(S) \in Nat
<1> SUFFICES ASSUME NEW n \in Nat, NEW S \in SUBSET (1..n)
             PROVE  Cardinality(S) \in Nat
    OBVIOUS
<1>1. IsFiniteSet(1..n)
    BY FS_Interval
<1>2. IsFiniteSet(S)
    BY <1>1, FS_Subset
<1> QED BY <1>2, FS_CardinalityType
(* A step that leaves the board alone.                                     *)
LEMMA KeptWhenSame ==
    \A p : ChainInv /\ board' = board => Follows(p, board, board')
BY DEF ChainInv, TypeOK, Follows, Keeps, Consumes, ChildMoves, Awaits, Passive

(* A step that writes the delivered card.                                  *)
LEMMA KeptByChild ==
    ASSUME ChainInv, NEW p, NEW x \in Children,
           x.stamp = board.child.stamp \/ Journalled(board, x.stamp),
           ChildMoves(p, board, x),
           board' = [board EXCEPT !.child = x]
    PROVE  Follows(p, board, board')
<1>1. /\ board' \in Boards
      /\ board'.child = x
      /\ board'.reports = board.reports
      /\ board'.reviews = board.reviews
    BY DEF ChainInv, TypeOK, Boards
<1>2. Keeps(board, board')
    BY <1>1 DEF Keeps
<1>3. Final(board') /\ Stamped(board')
    BY <1>1 DEF ChainInv, Final, Stamped, Journalled
<1>4. \A q : Holds(board, q, at[q]) => Holds(board', q, at[q])
    BY <1>1 DEF Holds
<1> QED BY <1>1, <1>2, <1>3, <1>4 DEF Follows, Consumes, ChildMoves, Awaits, Passive

(* A step of the worker that writes a report which is not closed.          *)
LEMMA KeptByReport ==
    ASSUME ChainInv, NEW p, NEW k \in DOMAIN board.reports, NEW r \in Reports,
           board.reports[k].phase \notin DONE_PHASES,
           p = "worker",
           board' = [board EXCEPT !.reports[k] = r]
    PROVE  Follows(p, board, board')
<1>1. /\ board' \in Boards
      /\ board'.child = board.child
      /\ DOMAIN board'.reports = DOMAIN board.reports
      /\ \A j \in DOMAIN board.reports :
            board'.reports[j] = IF j = k THEN r ELSE board.reports[j]
      /\ board'.reviews = board.reviews
    <2> DEFINE s == [board.reports EXCEPT ![k] = r]
    <2>1. board.reports \in Seq(Reports)
        BY DEF ChainInv, TypeOK, Boards
    <2>2. s \in Seq(Reports) /\ DOMAIN s = DOMAIN board.reports
          /\ \A j \in DOMAIN board.reports : s[j] = IF j = k THEN r ELSE board.reports[j]
        BY <2>1
    <2>3. board' = [board EXCEPT !.reports = s]
        BY DEF ChainInv, TypeOK, Boards
    <2> HIDE DEF s
    <2>4. board' \in Boards /\ board'.reports = s
          /\ \A f \in {"child", "reports", "reviews"} \ {"reports"} : board'[f] = board[f]
        BY <2>2, <2>3 DEF ChainInv, TypeOK, Boards
    <2> QED BY <2>2, <2>4
<1>2. Keeps(board, board')
    BY <1>1 DEF Keeps, DONE_PHASES
<1>3. Final(board') /\ Stamped(board')
    BY <1>1 DEF ChainInv, Final, Stamped, Journalled
<1>4. \A q \in Coroutines \ {p} : Holds(board, q, at[q]) => Holds(board', q, at[q])
    BY <1>1 DEF Holds
<1> QED BY <1>1, <1>2, <1>3, <1>4 DEF Follows, Consumes, ChildMoves, Awaits, Passive

(* A step that adds a report.                                              *)
LEMMA KeptByNewReport ==
    ASSUME ChainInv, NEW p, NEW r \in Reports,
           board' = [board EXCEPT !.reports = Append(@, r)]
    PROVE  Follows(p, board, board')
<1>1. /\ board' \in Boards
      /\ board'.child = board.child
      /\ \A j \in DOMAIN board.reports :
            j \in DOMAIN board'.reports /\ board'.reports[j] = board.reports[j]
      /\ board'.reviews = board.reviews
    <2> DEFINE s == Append(board.reports, r)
    <2>1. board.reports \in Seq(Reports)
        BY DEF ChainInv, TypeOK, Boards
    <2>2. s \in Seq(Reports)
          /\ (\A j \in DOMAIN board.reports : j \in DOMAIN s /\ s[j] = board.reports[j])
          /\ \A j \in DOMAIN s : j \in DOMAIN board.reports \/ s[j] = r
        BY <2>1
    <2>3. board' = [board EXCEPT !.reports = s]
        BY DEF ChainInv, TypeOK, Boards
    <2> HIDE DEF s
    <2>4. board' \in Boards /\ board'.reports = s
          /\ \A f \in {"child", "reports", "reviews"} \ {"reports"} : board'[f] = board[f]
        BY <2>2, <2>3 DEF ChainInv, TypeOK, Boards
    <2> QED BY <2>2, <2>4
<1>2. Keeps(board, board')
    BY <1>1 DEF Keeps
<1>3. Final(board') /\ Stamped(board')
    BY <1>1 DEF ChainInv, Final, Stamped, Journalled
<1>4. \A q : Holds(board, q, at[q]) => Holds(board', q, at[q])
    BY <1>1 DEF Holds
<1> QED BY <1>1, <1>2, <1>3, <1>4 DEF Follows, Consumes, ChildMoves, Awaits, Passive

(* A step that adds a review.                                              *)
LEMMA KeptByNewReview ==
    ASSUME ChainInv, NEW p, NEW r \in Reviews, r.verdict = NoVerdict, r.state # "applied",
           board' = [board EXCEPT !.reviews = Append(@, r)]
    PROVE  Follows(p, board, board')
<1>1. /\ board' \in Boards
      /\ board'.child = board.child
      /\ board'.reports = board.reports
      /\ \A j \in DOMAIN board.reviews :
            j \in DOMAIN board'.reviews /\ board'.reviews[j] = board.reviews[j]
      /\ \A j \in DOMAIN board'.reviews :
            j \in DOMAIN board.reviews \/ board'.reviews[j] = r
    <2> DEFINE s == Append(board.reviews, r)
    <2>1. board.reviews \in Seq(Reviews)
        BY DEF ChainInv, TypeOK, Boards
    <2>2. s \in Seq(Reviews)
          /\ (\A j \in DOMAIN board.reviews : j \in DOMAIN s /\ s[j] = board.reviews[j])
          /\ \A j \in DOMAIN s : j \in DOMAIN board.reviews \/ s[j] = r
        BY <2>1
    <2>3. board' = [board EXCEPT !.reviews = s]
        BY DEF ChainInv, TypeOK, Boards
    <2> HIDE DEF s
    <2>4. board' \in Boards /\ board'.reviews = s
          /\ \A f \in {"child", "reports", "reviews"} \ {"reviews"} : board'[f] = board[f]
        BY <2>2, <2>3 DEF ChainInv, TypeOK, Boards
    <2> QED BY <2>2, <2>4
<1>2. Keeps(board, board')
    BY <1>1 DEF Keeps
<1>3. Final(board') /\ Stamped(board')
    BY <1>1 DEF ChainInv, Final, Stamped, Journalled
<1>4. \A q : Holds(board, q, at[q]) => Holds(board', q, at[q])
    BY <1>1 DEF Holds
<1> QED BY <1>1, <1>2, <1>3, <1>4 DEF Follows, Consumes, ChildMoves, Awaits, Passive

(* Review r may become s: what is closed stays as it is.                   *)
SameHistory(r, s) ==
    /\ s.source = r.source
    /\ r.phase \in DONE_PHASES => s.phase = r.phase /\ s.verdict = r.verdict
    /\ s.verdict # NoVerdict => s.phase = "APPROVED"

(* A step that writes a review.                                            *)
LEMMA KeptByReview ==
    ASSUME ChainInv, NEW p, NEW k \in DOMAIN board.reviews, NEW r \in Reviews,
           SameHistory(board.reviews[k], r),
           r.state = "applied" => \/ board.reviews[k].state = "applied"
                                  \/ at[p].pc = "markApplied" /\ at[p].card = k,
           \A t \in Tasks \ {p} : at[t].pc \in Holding /\ at[t].card = k => Held(r),
           board' = [board EXCEPT !.reviews[k] = r]
    PROVE  Follows(p, board, board')
<1>1. /\ board' \in Boards
      /\ board'.child = board.child
      /\ board'.reports = board.reports
      /\ DOMAIN board'.reviews = DOMAIN board.reviews
      /\ \A j \in DOMAIN board.reviews :
            board'.reviews[j] = IF j = k THEN r ELSE board.reviews[j]
    <2> DEFINE s == [board.reviews EXCEPT ![k] = r]
    <2>1. board.reviews \in Seq(Reviews)
        BY DEF ChainInv, TypeOK, Boards
    <2>2. s \in Seq(Reviews) /\ DOMAIN s = DOMAIN board.reviews
          /\ \A j \in DOMAIN board.reviews : s[j] = IF j = k THEN r ELSE board.reviews[j]
        BY <2>1
    <2>3. board' = [board EXCEPT !.reviews = s]
        BY DEF ChainInv, TypeOK, Boards
    <2> HIDE DEF s
    <2>4. board' \in Boards /\ board'.reviews = s
          /\ \A f \in {"child", "reports", "reviews"} \ {"reviews"} : board'[f] = board[f]
        BY <2>2, <2>3 DEF ChainInv, TypeOK, Boards
    <2> QED BY <2>2, <2>4
<1>2. Keeps(board, board')
    BY <1>1 DEF Keeps, SameHistory
<1>3. Final(board')
    BY <1>1 DEF ChainInv, Final, SameHistory
<1>4. Stamped(board')
    <2>1. Stamped(board)
        BY DEF ChainInv
    <2> QED BY <1>1, <2>1 DEF Stamped, Journalled, SameHistory, DONE_PHASES
<1>5. \A q \in Coroutines \ {p} : Holds(board, q, at[q]) => Holds(board', q, at[q])
    BY <1>1 DEF Holds
<1>6. Consumes(p, board, board') /\ ChildMoves(p, board, board'.child)
    BY <1>1 DEF Consumes, ChildMoves, Awaits, Passive
<1> QED BY <1>1, <1>2, <1>3, <1>4, <1>5, <1>6 DEF Follows

-----------------------------------------------------------------------------
(* What a step does to the places.                                         *)

(* What fitted the board still fits it when nothing closed is rewritten.   *)
LEMMA FitsStill ==
    \A b, c \in Boards : \A p : \A place :
        Keeps(b, c) /\ Fits(b, p, place) => Fits(c, p, place)
BY DEF Fits, Keeps, Journalled, DONE_PHASES

(* No other task works on the card of this place.                          *)
OwnCard(p, place) ==
    place.pc \in Holding =>
        \A u \in Tasks \ {p} : at[u].pc \in Holding => at[u].card # place.card

(* How coroutine p may come to the points of a projection, and to a turn.  *)
PlaceFollows(p, b, c, place) ==
    /\ place.pc = "markApplied" => c.child.stamp = place.card
    /\ p = "tick" /\ place.pc \in {"check", "cas"} => at[p].pc = "check" \/ Awaits(b)
    /\ p = "tick" /\ place.pc = "cas" => c.child.stamp # place.card
    /\ p = "worker" /\ place.pc = "turn" /\ place.card = 0 =>
          c.child.phase = "RUNNING" /\ at["tick"].pc = "claim"

(* The reports that were accepted.                                         *)
Accepted(b) ==
    {k \in DOMAIN b.reports : /\ b.reports[k].phase \in DONE_PHASES
                              /\ b.reports[k].outcome = "applied"}

(* LatestReport is the last of the accepted reports.                       *)
LEMMA LatestReportBounds ==
    \A b \in Boards : /\ LatestReport(b) \in Nat
                      /\ LatestReport(b) \in Accepted(b) \cup {0}
                      /\ \A k \in Accepted(b) : k <= LatestReport(b)
<1> SUFFICES ASSUME NEW b \in Boards
             PROVE  /\ LatestReport(b) \in Nat
                    /\ LatestReport(b) \in Accepted(b) \cup {0}
                    /\ \A k \in Accepted(b) : k <= LatestReport(b)
    OBVIOUS
<1>1. Accepted(b) \in SUBSET (1..Len(b.reports)) /\ Len(b.reports) \in Nat
    <2>1. b.reports \in Seq(Reports)
        BY DEF Boards
    <2> QED BY <2>1 DEF Accepted
<1>2. /\ Last(Accepted(b)) \in Accepted(b) \cup {0}
      /\ \A k \in Accepted(b) : k <= Last(Accepted(b))
    BY <1>1, LastBounds
<1>3. LatestReport(b) = Last(Accepted(b))
    BY DEF LatestReport, Accepted
<1> QED BY <1>1, <1>2, <1>3

(* An accepted report stays accepted, so the latest never goes back.       *)
LEMMA LatestReportGrows ==
    \A b, c \in Boards : Keeps(b, c) => LatestReport(b) <= LatestReport(c)
<1> SUFFICES ASSUME NEW b \in Boards, NEW c \in Boards, Keeps(b, c)
             PROVE  LatestReport(b) <= LatestReport(c)
    OBVIOUS
<1>1. Accepted(b) \subseteq Accepted(c)
    BY DEF Keeps, Accepted
<1> QED BY <1>1, LatestReportBounds

(* StampsAdvance is kept by a step of p: a projection is of the report     *)
(* accepted last, and that report only becomes later.                      *)
LEMMA StampsStep ==
    ASSUME ChainInv, NEW p \in Coroutines, NEW place \in Places,
           Follows(p, board, board'), PlaceFollows(p, board, board', place),
           Fits(board', p, place), at'[p] = place,
           \A q \in Coroutines \ {p} : at'[q] = at[q]
    PROVE  StampsAdvance'
<1> DEFINE k == board.child.stamp
           l == board'.child.stamp
<1>1. /\ board \in Boards /\ board' \in Boards /\ Keeps(board, board')
      /\ Consumes(p, board, board') /\ Stamped(board) /\ StampsAdvance
    BY DEF ChainInv, TypeOK, Follows
<1>2. /\ \A j \in DOMAIN board.reviews : board.reviews[j].source \in Nat /\ j # 0
      /\ \A j \in DOMAIN board'.reviews : board'.reviews[j].source \in Nat /\ j # 0
    <2>1. board.reviews \in Seq(Reviews) /\ board'.reviews \in Seq(Reviews)
        BY <1>1 DEF Boards
    <2>2. \A r \in Reviews : r.source \in Nat
        BY DEF Reviews
    <2> QED BY <2>1, <2>2
<1>3. /\ LatestReport(board) \in Nat /\ LatestReport(board') \in Nat
      /\ LatestReport(board) <= LatestReport(board')
    BY <1>1, LatestReportBounds, LatestReportGrows
<1>4. \A q \in Coroutines : at[q].pc \in {"cas", "markApplied"} =>
          at[q].card \in DOMAIN board.reviews
    BY DEF ChainInv, Fits, Journalled, Projecting
<1>5. ASSUME NEW j \in DOMAIN board'.reviews, Consumed(j)'
      PROVE  (j \in DOMAIN board.reviews /\ Consumed(j)) \/ j = l
    <2>1. CASE board'.reviews[j].state = "applied"
        BY <1>1, <2>1 DEF Consumes, Consumed
    <2>2. CASE \E q \in Coroutines : at'[q].pc = "markApplied" /\ at'[q].card = j
        BY <1>4, <2>2 DEF Consumed, PlaceFollows
    <2> QED BY <1>5, <2>1, <2>2 DEF Consumed
<1>6. k # 0 => k \in DOMAIN board.reviews
    BY <1>1 DEF Stamped, Journalled
<1>7. \A j \in DOMAIN board.reviews :
          j \in DOMAIN board'.reviews /\ board'.reviews[j].source = board.reviews[j].source
    BY <1>1 DEF Keeps
<1>8. /\ \A j \in DOMAIN board.reviews :
            Consumed(j) => k # 0 /\ board.reviews[j].source <= board.reviews[k].source
      /\ k # 0 => board.reviews[k].source <= LatestReport(board)
    BY <1>1 DEF StampsAdvance
<1>9. l = k \/ (l \in DOMAIN board.reviews /\ board.reviews[l].source = LatestReport(board))
    BY <1>4 DEF Follows, ChildMoves, Restamps
<1> HIDE DEF k, l
<1>10. \A j \in DOMAIN board'.reviews :
          Consumed(j)' => l # 0 /\ board'.reviews[j].source <= board'.reviews[l].source
    <2> SUFFICES ASSUME NEW j \in DOMAIN board'.reviews, Consumed(j)'
                 PROVE  l # 0 /\ board'.reviews[j].source <= board'.reviews[l].source
        OBVIOUS
    <2>1. CASE j = l
        BY <1>2, <2>1
    <2>2. CASE j # l
        <3>1. j \in DOMAIN board.reviews /\ Consumed(j)
            BY <1>5, <2>2
        <3>2. /\ k # 0 /\ k \in DOMAIN board.reviews
              /\ board.reviews[j].source <= board.reviews[k].source
              /\ board.reviews[k].source <= LatestReport(board)
            BY <1>6, <1>8, <3>1
        <3>3. l \in DOMAIN board.reviews /\ board.reviews[j].source <= board.reviews[l].source
            BY <1>2, <1>3, <1>9, <3>1, <3>2
        <3> QED BY <1>2, <1>7, <3>1, <3>3
    <2> QED BY <2>1, <2>2
<1>11. l # 0 => board'.reviews[l].source <= LatestReport(board')
    BY <1>2, <1>3, <1>6, <1>7, <1>8, <1>9
<1> QED BY <1>10, <1>11 DEF StampsAdvance, l

(* TickIsAlone is kept by a step of p: only the worker delivers, and it    *)
(* takes a turn only while the tick is at its claims.                      *)
LEMMA TickStepsAlone ==
    ASSUME ChainInv, NEW p \in Coroutines, NEW place \in Places,
           Follows(p, board, board'), PlaceFollows(p, board, board', place),
           at'[p] = place,
           \A q \in Coroutines \ {p} : at'[q] = at[q]
    PROVE  TickIsAlone'
<1>1. TickIsAlone /\ ChildMoves(p, board, board'.child)
    BY DEF ChainInv, Follows
<1>2. Awaits(board') <=> Passive(board'.child)
    BY DEF Awaits, Passive
<1>3. "worker" \in Coroutines /\ "tick" \in Coroutines
    BY DEF Coroutines
<1>4. CASE p = "worker"
    <2>1. at'["tick"] = at["tick"] /\ at'["worker"] = place
        BY <1>3, <1>4
    <2>2. Working' => board'.child.phase = "RUNNING" /\ at["tick"].pc = "claim"
        BY <1>4, <2>1 DEF PlaceFollows, Working
    <2>3. at["tick"].pc = "cas" /\ Awaits(board') => board'.child.stamp # at["tick"].card
        BY <1>1, <1>2, <1>4 DEF TickIsAlone, ChildMoves, Restamps, Replaying
    <2> QED BY <2>1, <2>2, <2>3 DEF TickIsAlone, Replaying
<1>5. CASE p # "worker"
    <2>1. at'["worker"] = at["worker"] /\ (Working' <=> Working)
        BY <1>3, <1>5 DEF Working
    <2>2. Working' => board'.child.phase = "RUNNING"
        BY <1>1, <1>5, <2>1 DEF TickIsAlone, ChildMoves, Awaits
    <2>3. Replaying' => ~Working'
        <3>1. CASE p = "tick"
            BY <1>1, <2>1, <3>1 DEF TickIsAlone, PlaceFollows, Replaying, Awaits
        <3>2. CASE p # "tick"
            BY <1>1, <1>3, <2>1, <3>2 DEF TickIsAlone, Replaying
        <3> QED BY <3>1, <3>2
    <2>4. at'["tick"].pc = "cas" /\ Awaits(board') => board'.child.stamp # at'["tick"].card
        <3>1. CASE p = "tick"
            BY <3>1 DEF PlaceFollows
        <3>2. CASE p # "tick"
            BY <1>1, <1>2, <1>3, <3>2 DEF TickIsAlone, ChildMoves, Restamps, Replaying
        <3> QED BY <3>1, <3>2
    <2> QED BY <2>2, <2>3, <2>4 DEF TickIsAlone
<1> QED BY <1>4, <1>5

(* The invariant is kept by a step of p whose board follows and whose new  *)
(* place fits: every action comes down to this lemma.                      *)
LEMMA PlaceTaken ==
    ASSUME ChainInv, NEW p \in Coroutines, NEW place \in Places,
           Follows(p, board, board'), Move(p, place),
           Fits(board', p, place), Holds(board', p, place),
           p \in Tasks => OwnCard(p, place), PlaceFollows(p, board, board', place),
           faults' \in 0..MaxFaults, races' \in 0..MaxRaces
    PROVE  ChainInv' /\ Keeps(board, board')
<1>1. /\ at' = [at EXCEPT ![p] = place]
      /\ at \in [Coroutines -> Places]
    BY DEF Move, ChainInv, TypeOK
<1>2. at' \in [Coroutines -> Places]
      /\ at'[p] = place /\ \A q \in Coroutines \ {p} : at'[q] = at[q]
    BY <1>1
<1>3. board \in Boards /\ board' \in Boards /\ Keeps(board, board')
    BY DEF ChainInv, TypeOK, Follows
<1>4. TypeOK'
    BY <1>2, <1>3 DEF TypeOK
<1>5. \A q \in Coroutines : Fits(board', q, at'[q])
    <2> SUFFICES ASSUME NEW q \in Coroutines PROVE Fits(board', q, at'[q])
        OBVIOUS
    <2>1. CASE q = p
        BY <2>1, <1>2
    <2>2. CASE q # p
        <3>1. Fits(board, q, at[q])
            BY DEF ChainInv
        <3> QED BY <2>2, <3>1, <1>2, <1>3, FitsStill
    <2> QED BY <2>1, <2>2
<1>6. \A q \in Coroutines : Holds(board', q, at'[q])
    BY <1>2 DEF Follows, ChainInv
<1>7. OneHolder'
    <2>1. OneHolder /\ Tasks \subseteq Coroutines
        BY DEF ChainInv, Coroutines
    <2> QED BY <1>2, <2>1 DEF OneHolder, OwnCard
<1>8. Final(board') /\ Stamped(board')
    BY DEF Follows
<1>9. StampsAdvance'
    BY <1>2, <1>3, <1>5, StampsStep DEF Follows, PlaceFollows
<1>10. TickIsAlone'
    BY <1>2, TickStepsAlone DEF Follows
<1> QED BY <1>3, <1>4, <1>5, <1>6, <1>7, <1>8, <1>9, <1>10 DEF ChainInv

(* No edge of the phase table leads from one closed phase to another, and  *)
(* a running card can be closed.                                           *)
LEMMA ClosingEdges ==
    /\ \A f, t \in DONE_PHASES : Legal(f, t) => f = t
    /\ \A t \in DONE_PHASES : Legal("RUNNING", t)
    /\ \A t \in {"CANCELLED", "FAILED", "APPROVED"} : t \in DONE_PHASES /\ t \in Phase
BY DEF Legal, ALLOWED_TRANSITIONS, OwnEdges, DONE_PHASES, UNIVERSAL_EXITS, RECOVERY_EXITS,
       IN_PROGRESS_PHASES, IN_REVIEW_PHASES, Phase

(* The parts of the state are typed.                                       *)
LEMMA ChainTypes ==
    ASSUME ChainInv, NEW p \in Coroutines
    PROVE  /\ board \in Boards /\ at \in [Coroutines -> Places]
           /\ at[p] \in Places
           /\ board.child \in Children
           /\ board.reports \in Seq(Reports) /\ board.reviews \in Seq(Reviews)
           /\ faults \in 0..MaxFaults /\ races \in 0..MaxRaces
           /\ MaxFaults \in Nat /\ MaxRaces \in Nat
BY ChainAssumption DEF ChainInv, TypeOK, Boards

(* The cards of the two lists are typed.                                   *)
LEMMA ListsTyped ==
    ASSUME ChainInv
    PROVE  /\ Len(board.reports) \in Nat /\ DOMAIN board.reports = 1..Len(board.reports)
           /\ Len(board.reviews) \in Nat /\ DOMAIN board.reviews = 1..Len(board.reviews)
           /\ \A k \in DOMAIN board.reports : board.reports[k] \in Reports
           /\ \A k \in DOMAIN board.reviews : board.reviews[k] \in Reviews
<1>1. board.reports \in Seq(Reports) /\ board.reviews \in Seq(Reviews)
    BY DEF ChainInv, TypeOK, Boards
<1> QED BY <1>1

(* The last open card of a list is a card of it.                           *)
LEMMA ActiveCards ==
    ASSUME ChainInv
    PROVE  /\ Last(Active(board.reports)) \in DOMAIN board.reports \cup {0}
           /\ Last(Active(board.reviews)) \in DOMAIN board.reviews \cup {0}
<1>1. /\ Active(board.reports) \in SUBSET (1..Len(board.reports))
      /\ Active(board.reviews) \in SUBSET (1..Len(board.reviews))
    BY ListsTyped DEF Active
<1>2. /\ Last(Active(board.reports)) \in Active(board.reports) \cup {0}
      /\ Last(Active(board.reviews)) \in Active(board.reviews) \cup {0}
    BY <1>1, LastBounds, ListsTyped
<1> QED BY <1>2 DEF Active

-----------------------------------------------------------------------------
(* The helpers: reports, reviews and projections.                          *)

(* What each action is shown to do.                                        *)
Stepped == ChainInv' /\ Keeps(board, board')

(* Points at which a coroutine has claimed and recorded nothing.           *)
Plain == {"idle", "claim", "report", "addReport", "countReport", "addReview", "countReview"}

(* A step to a point that asks for nothing.                                *)
LEMMA PlainMove ==
    ASSUME ChainInv, NEW p \in Coroutines, NEW place \in Places,
           Follows(p, board, board'), Move(p, place),
           place.pc \in Plain \/ (place.pc = "review" /\ p # "tick"),
           faults' \in 0..MaxFaults, races' \in 0..MaxRaces
    PROVE  Stepped
<1>1. /\ Fits(board', p, place) /\ Holds(board', p, place)
      /\ OwnCard(p, place) /\ PlaceFollows(p, board, board', place)
    BY DEF Plain, Fits, Holds, OwnCard, PlaceFollows, Projecting, Holding, Reporting
<1> QED BY <1>1, PlaceTaken DEF Stepped

(* A step that ends a helper.                                              *)
LEMMA Returns ==
    ASSUME ChainInv, NEW p \in Coroutines, Follows(p, board, board'), Return(p),
           faults' \in 0..MaxFaults, races' \in 0..MaxRaces
    PROVE  Stepped
<1> DEFINE place == [Nowhere EXCEPT !.pc = IF p = "tick" THEN "claim" ELSE "idle"]
<1>1. place \in Places /\ place.pc \in Plain
    BY DEF Places, Nowhere, Points, Plain
<1>2. Move(p, place)
    BY DEF Return
<1> HIDE DEF place
<1> QED BY <1>1, <1>2, PlainMove

(* Going on to another point keeps the rest of a place.                    *)
LEMMA PointReached ==
    \A place \in Places : \A x \in Points :
        /\ [place EXCEPT !.pc = x] \in Places
        /\ [place EXCEPT !.pc = x].pc = x
        /\ [place EXCEPT !.pc = x].card = place.card
        /\ [place EXCEPT !.pc = x].attempt = place.attempt
        /\ [place EXCEPT !.pc = x].verdict = place.verdict
BY DEF Places

(* A step of a helper to a point that asks for nothing.                    *)
LEMMA GoesOn ==
    ASSUME ChainInv, NEW p \in Coroutines, NEW x \in Points,
           Follows(p, board, board'), Goto(p, x),
           x \in Plain \/ (x = "review" /\ p # "tick"),
           faults' \in 0..MaxFaults, races' \in 0..MaxRaces
    PROVE  Stepped
<1> DEFINE place == [at[p] EXCEPT !.pc = x]
<1>1. place \in Places /\ place.pc = x
    BY ChainTypes, PointReached
<1>2. Move(p, place)
    BY DEF Goto
<1> HIDE DEF place
<1> QED BY <1>1, <1>2, PlainMove

(* EnsureReport keeps the invariant.                                       *)
LEMMA EnsureReportStep ==
    ASSUME ChainInv, NEW p \in Coroutines, EnsureReport(p), races' \in 0..MaxRaces
    PROVE  Stepped
<1> DEFINE listed  == IF p = "tick" THEN at[p].attempt ELSE Len(board.reports)
           attempt == Max({board.child.reports, listed}) + 1
           place   == [at[p] EXCEPT !.pc = "addReport", !.attempt = attempt]
<1>1. Follows(p, board, board') /\ faults' \in 0..MaxFaults
    BY KeptWhenSame, ChainTypes DEF EnsureReport
<1>2. CASE Return(p)
    BY <1>1, <1>2, Returns
<1>3. CASE Move(p, place)
    <2>1. attempt \in Nat
        <3>1. listed \in Nat /\ board.child.reports \in Nat
            BY ChainTypes, ListsTyped DEF Places, Children
        <3> HIDE DEF listed
        <3>2. Max({board.child.reports, listed}) \in Nat
            BY <3>1, MaxOfTwo
        <3> QED BY <3>2
    <2> HIDE DEF attempt
    <2>2. place \in Places /\ place.pc = "addReport"
        BY <2>1, ChainTypes DEF Places, Points
    <2> HIDE DEF place
    <2> QED BY <1>1, <1>3, <2>2, PlainMove DEF Plain
<1> QED BY <1>2, <1>3 DEF EnsureReport

(* AddReport keeps the invariant.                                          *)
LEMMA AddReportStep ==
    ASSUME ChainInv, NEW p \in Coroutines, AddReport(p), races' \in 0..MaxRaces
    PROVE  Stepped
<1> DEFINE r == [phase |-> "READY", claimed |-> FALSE, outcome |-> "none"]
<1>1. r \in Reports
    BY DEF Reports, Phase
<1>2. Follows(p, board, board')
    <2>1. CASE board' = [board EXCEPT !.reports = Append(@, r)]
        <3> HIDE DEF r
        <3> QED BY <1>1, <2>1, KeptByNewReport
    <2>2. CASE board' = board
        BY <2>2, KeptWhenSame
    <2> QED BY <2>1, <2>2 DEF AddReport
<1>3. faults' \in 0..MaxFaults
    BY ChainTypes DEF AddReport
<1>4. Return(p) \/ Goto(p, "countReport")
    BY DEF AddReport
<1>5. "countReport" \in Points /\ "countReport" \in Plain
    BY DEF Points, Plain
<1> QED BY <1>2, <1>3, <1>4, <1>5, Returns, GoesOn

(* A write of the delivered card that keeps its phase and its stamp.       *)
LEMMA QuietChild ==
    \A p : \A x \in Children :
        x.phase = board.child.phase /\ x.stamp = board.child.stamp
            => ChildMoves(p, board, x)
BY DEF ChildMoves, Passive, Awaits

(* CountReport keeps the invariant.                                        *)
LEMMA CountReportStep ==
    ASSUME ChainInv, NEW p \in Coroutines, CountReport(p), races' \in 0..MaxRaces
    PROVE  Stepped
<1> DEFINE x == [board.child EXCEPT !.reports = at[p].attempt]
<1>1. x \in Children /\ x.stamp = board.child.stamp /\ x.phase = board.child.phase
    BY ChainTypes DEF Children, Places
<1>2. board' = [board EXCEPT !.child = x]
    BY ChainTypes DEF CountReport, Boards
<1> HIDE DEF x
<1>3. Follows(p, board, board')
    BY <1>1, <1>2, KeptByChild, QuietChild
<1>4. Return(p) /\ faults' \in 0..MaxFaults
    BY ChainTypes DEF CountReport
<1> QED BY <1>3, <1>4, Returns

(* EnsureReview keeps the invariant: what it supersedes exists.            *)
LEMMA EnsureReviewStep ==
    ASSUME ChainInv, NEW p \in Coroutines, EnsureReview(p), races' \in 0..MaxRaces
    PROVE  Stepped
<1> DEFINE listed  == IF p = "tick" THEN at[p].attempt ELSE Len(board.reviews)
           k       == IF p = "tick" THEN at[p].card ELSE Last(Active(board.reviews))
           attempt == Max({board.child.reviews, listed}) + 1
           place   == [at[p] EXCEPT !.pc = IF k = 0 THEN "addReview" ELSE "supersede",
                                    !.card = k, !.attempt = attempt]
<1>1. Follows(p, board, board') /\ faults' \in 0..MaxFaults /\ board' = board
    BY KeptWhenSame, ChainTypes DEF EnsureReview
<1>2. CASE Return(p)
    BY <1>1, <1>2, Returns
<1>3. CASE Move(p, place)
    <2>1. attempt \in Nat
        <3>1. listed \in Nat /\ board.child.reviews \in Nat
            BY ChainTypes, ListsTyped DEF Places, Children
        <3> HIDE DEF listed
        <3>2. Max({board.child.reviews, listed}) \in Nat
            BY <3>1, MaxOfTwo
        <3> QED BY <3>2
    <2>2. k \in DOMAIN board.reviews \cup {0}
        <3>1. at[p].pc = "review" /\ Fits(board, p, at[p])
            BY DEF EnsureReview, ChainInv
        <3>2. CASE p = "tick"
            BY <3>1, <3>2 DEF Fits
        <3>3. CASE p # "tick"
            BY <3>3, ActiveCards
        <3> QED BY <3>2, <3>3
    <2>3. k \in Nat
        BY <2>2, ListsTyped
    <2> HIDE DEF attempt, k
    <2>4. /\ place \in Places /\ place.card = k
          /\ place.pc = IF k = 0 THEN "addReview" ELSE "supersede"
        BY <2>1, <2>3, ChainTypes DEF Places, Points
    <2> HIDE DEF place
    <2>5. /\ Fits(board', p, place) /\ Holds(board', p, place)
          /\ OwnCard(p, place) /\ PlaceFollows(p, board, board', place)
        BY <1>1, <2>2, <2>4
           DEF Fits, Holds, OwnCard, PlaceFollows, Projecting, Holding, Reporting
    <2> QED BY <1>1, <1>3, <2>4, <2>5, PlaceTaken DEF Stepped
<1> QED BY <1>2, <1>3 DEF EnsureReview

(* AddReview keeps the invariant.                                          *)
LEMMA AddReviewStep ==
    ASSUME ChainInv, NEW p \in Coroutines, AddReview(p), races' \in 0..MaxRaces
    PROVE  Stepped
<1> DEFINE r == [phase |-> "READY", claimed |-> FALSE, source |-> at[p].source,
                 outcome |-> "none", verdict |-> NoVerdict, state |-> "none"]
<1>1. r \in Reviews /\ r.verdict = NoVerdict
    <2>1. at[p].source \in Nat
        BY ChainTypes DEF Places
    <2> QED BY <2>1 DEF Reviews, Phase
<1>2. r.state # "applied"
    OBVIOUS
<1>3. Follows(p, board, board')
    <2>1. CASE board' = [board EXCEPT !.reviews = Append(@, r)]
        <3> HIDE DEF r
        <3> QED BY <1>1, <1>2, <2>1, KeptByNewReview
    <2>2. CASE board' = board
        BY <2>2, KeptWhenSame
    <2> QED BY <2>1, <2>2 DEF AddReview
<1>4. faults' \in 0..MaxFaults
    BY ChainTypes DEF AddReview
<1>5. Return(p) \/ Goto(p, "countReview")
    BY DEF AddReview
<1>6. "countReview" \in Points /\ "countReview" \in Plain
    BY DEF Points, Plain
<1> QED BY <1>3, <1>4, <1>5, <1>6, Returns, GoesOn

(* CountReview keeps the invariant.                                        *)
LEMMA CountReviewStep ==
    ASSUME ChainInv, NEW p \in Coroutines, CountReview(p), races' \in 0..MaxRaces
    PROVE  Stepped
<1> DEFINE x == [board.child EXCEPT !.reviews = at[p].attempt]
<1>1. x \in Children /\ x.stamp = board.child.stamp /\ x.phase = board.child.phase
    BY ChainTypes DEF Children, Places
<1>2. board' = [board EXCEPT !.child = x]
    BY ChainTypes DEF CountReview, Boards
<1> HIDE DEF x
<1>3. Follows(p, board, board')
    BY <1>1, <1>2, KeptByChild, QuietChild
<1>4. Return(p) /\ faults' \in 0..MaxFaults
    BY ChainTypes DEF CountReview
<1> QED BY <1>3, <1>4, Returns

(* A review is typed, carries no verdict while it is not approved, and is  *)
(* open to whoever holds it.                                               *)
LEMMA ReviewOpened ==
    ASSUME ChainInv, NEW k \in DOMAIN board.reviews
    PROVE  /\ board.reviews[k] \in Reviews
           /\ board.reviews[k].verdict # NoVerdict => board.reviews[k].phase = "APPROVED"
           /\ \A t \in Tasks : at[t].pc \in Holding /\ at[t].card = k =>
                 Held(board.reviews[k])
<1>1. Tasks \subseteq Coroutines
    BY DEF Coroutines
<1> QED BY <1>1, ListsTyped DEF ChainInv, Final, Holds

(* What Closed writes, and what it keeps.                                  *)
LEMMA ClosedTyped ==
    \A r \in Reviews : \A f \in Phase :
        \A o \in {"unparseable", "superseded", "moot", "decided"} :
            /\ Closed(r, f, o) \in Reviews
            /\ Closed(r, f, o).phase = f
            /\ Closed(r, f, o).source = r.source
            /\ Closed(r, f, o).verdict = r.verdict
            /\ Closed(r, f, o).state = r.state
BY DEF Closed, Reviews

(* Dropping a claim keeps the rest of a review.                            *)
LEMMA UnclaimedTyped ==
    \A r \in Reviews : /\ [r EXCEPT !.claimed = FALSE] \in Reviews
                       /\ [r EXCEPT !.claimed = FALSE].phase = r.phase
                       /\ [r EXCEPT !.claimed = FALSE].source = r.source
                       /\ [r EXCEPT !.claimed = FALSE].verdict = r.verdict
                       /\ [r EXCEPT !.claimed = FALSE].state = r.state
BY DEF Reviews

(* A refused write drops the claim of a card that was closed meanwhile.    *)
LEMMA Unclaims ==
    ASSUME ChainInv, NEW p, NEW k \in DOMAIN board.reviews, NEW f \in DONE_PHASES,
           ~Legal(board.reviews[k].phase, f),
           board' = [board EXCEPT !.reviews[k].claimed = FALSE]
    PROVE  Follows(p, board, board')
<1> DEFINE r == [board.reviews[k] EXCEPT !.claimed = FALSE]
<1>1. /\ r \in Reviews /\ r.phase = board.reviews[k].phase
      /\ r.source = board.reviews[k].source /\ r.verdict = board.reviews[k].verdict
      /\ r.state = board.reviews[k].state
    BY ReviewOpened, UnclaimedTyped
<1>2. board' = [board EXCEPT !.reviews[k] = r]
    OBVIOUS
<1>3. board.reviews[k].phase # "RUNNING"
    BY ClosingEdges
<1> HIDE DEF r
<1>4. SameHistory(board.reviews[k], r)
    BY <1>1, ReviewOpened DEF SameHistory
<1>5. \A t \in Tasks \ {p} : at[t].pc \in Holding /\ at[t].card = k => Held(r)
    BY <1>1, <1>3, ReviewOpened DEF Held
<1> QED BY <1>1, <1>2, <1>4, <1>5, KeptByReview

(* Supersede keeps the invariant: an approved review is never cancelled.   *)
LEMMA SupersedeStep ==
    ASSUME ChainInv, NEW p \in Coroutines, Supersede(p), races' \in 0..MaxRaces
    PROVE  Stepped
<1> DEFINE k == at[p].card
           r == Closed(board.reviews[k], "CANCELLED", "superseded")
<1>1. k \in DOMAIN board.reviews
    BY DEF Supersede, ChainInv, Fits
<1>2. faults' \in 0..MaxFaults
    BY ChainTypes DEF Supersede
<1>3. CASE Legal(board.reviews[k].phase, "CANCELLED")
    <2>1. board' = [board EXCEPT !.reviews[k] = r] /\ Goto(p, "addReview")
        BY <1>3 DEF Supersede
    <2>2. /\ r \in Reviews /\ r.phase = "CANCELLED"
          /\ r.source = board.reviews[k].source /\ r.verdict = board.reviews[k].verdict
          /\ r.state = board.reviews[k].state
        BY <1>1, ReviewOpened, ClosedTyped, ClosingEdges
    <2> HIDE DEF r
    <2>3. board.reviews[k].phase \in DONE_PHASES => board.reviews[k].phase = "CANCELLED"
        BY <1>3, ClosingEdges
    <2>4. SameHistory(board.reviews[k], r)
        BY <1>1, <2>2, <2>3, ReviewOpened DEF SameHistory, DONE_PHASES
    <2>5. Held(r)
        BY <2>2 DEF Held
    <2> HIDE DEF k
    <2>6. Follows(p, board, board')
        BY <1>1, <2>1, <2>2, <2>4, <2>5, KeptByReview
    <2>7. "addReview" \in Points /\ "addReview" \in Plain
        BY DEF Points, Plain
    <2> QED BY <1>2, <2>1, <2>6, <2>7, GoesOn
<1>4. CASE ~Legal(board.reviews[k].phase, "CANCELLED")
    <2>1. board' = [board EXCEPT !.reviews[k].claimed = FALSE] /\ Return(p)
        BY <1>4 DEF Supersede
    <2> HIDE DEF k
    <2>2. Follows(p, board, board')
        BY <1>1, <1>4, <2>1, Unclaims, ClosingEdges
    <2> QED BY <1>2, <2>1, <2>2, Returns
<1> QED BY <1>3, <1>4

(* A step from one point of a projection to another.                       *)
LEMMA Projects ==
    ASSUME ChainInv, NEW p \in Coroutines, NEW x \in Projecting, NEW y \in Projecting,
           at[p].pc = x, Follows(p, board, board'), Goto(p, y), y # "check",
           y = "markApplied" => board'.child.stamp = at[p].card,
           y = "cas" => at[p].pc = "check" /\ board'.child.stamp # at[p].card,
           faults' \in 0..MaxFaults, races' \in 0..MaxRaces
    PROVE  Stepped
<1> DEFINE place == [at[p] EXCEPT !.pc = y]
<1>1. place \in Places /\ place.pc = y /\ place.card = at[p].card
    <2>1. y \in Points /\ at[p] \in Places
        BY ChainTypes DEF Projecting, Points
    <2> QED BY <2>1, PointReached
<1>2. Move(p, place)
    BY DEF Goto
<1> HIDE DEF place
<1>3. Journalled(board, at[p].card)
    BY DEF ChainInv, Fits
<1>4. Journalled(board', at[p].card)
    BY <1>3 DEF Follows, Keeps, Journalled, DONE_PHASES
<1>5. /\ Fits(board', p, place) /\ Holds(board', p, place)
      /\ OwnCard(p, place) /\ PlaceFollows(p, board, board', place)
    BY <1>1, <1>4 DEF Fits, Holds, OwnCard, PlaceFollows, Projecting, Holding, Reporting
<1> QED BY <1>1, <1>2, <1>5, PlaceTaken DEF Stepped

(* Check keeps the invariant.                                              *)
LEMMA CheckStep ==
    ASSUME ChainInv, NEW p \in Coroutines, Check(p), races' \in 0..MaxRaces
    PROVE  Stepped
<1>1. Follows(p, board, board') /\ faults' \in 0..MaxFaults
    BY KeptWhenSame, ChainTypes DEF Check
<1>2. /\ at[p].pc = "check" /\ board' = board
      /\ \/ Return(p)
         \/ Goto(p, "cas") /\ board.child.stamp # at[p].card
         \/ Goto(p, "markStale")
    BY DEF Check
<1>3. {"check", "cas", "markStale"} \subseteq Projecting
    BY DEF Projecting
<1> QED BY <1>1, <1>2, <1>3, Returns, Projects

(* The delivered card with a recorded verdict on it is typed, and decided. *)
LEMMA ProjectedTyped ==
    ASSUME ChainInv, NEW k, Journalled(board, k)
    PROVE  /\ Projected(k) \in Children
           /\ Projected(k).stamp = k
           /\ Projected(k).phase \in {"APPROVED", "READY_FOR_REWORK"}
<1>1. board.reviews[k].verdict \in Verdicts /\ k \in Nat
    BY ListsTyped DEF Journalled, Reviews
<1>2. /\ board.reviews[k].verdict.phase \in Phase \cap {"APPROVED", "READY_FOR_REWORK"}
      /\ board.reviews[k].verdict.reworks \in 0..ReworkCap
    BY <1>1 DEF Verdicts, Phase
<1>3. board.child \in Children
    BY ChainTypes DEF ChainInv, TypeOK, Boards
<1> QED BY <1>1, <1>2, <1>3 DEF Projected, Children

(* Cas keeps the invariant: it stamps the card with a verdict on record.   *)
LEMMA CasStep ==
    ASSUME ChainInv, NEW p \in Coroutines, Cas(p), races' \in 0..MaxRaces
    PROVE  Stepped
<1>1. faults' \in 0..MaxFaults /\ at[p].pc = "cas"
    BY ChainTypes DEF Cas
<1>2. {"cas", "recheck", "markApplied"} \subseteq Projecting
    BY DEF Projecting
<1>3. CASE Stale(at[p].card)
    <2>1. Follows(p, board, board') /\ Goto(p, "recheck")
        BY <1>3, KeptWhenSame DEF Cas
    <2> QED BY <1>1, <1>2, <2>1, Projects
<1>4. CASE ~Stale(at[p].card)
    <2> DEFINE x == Projected(at[p].card)
    <2>1. board' = [board EXCEPT !.child = x] /\ Goto(p, "markApplied")
        BY <1>4 DEF Cas
    <2>2. Journalled(board, at[p].card)
        BY <1>1, <1>2 DEF ChainInv, Fits
    <2>3. /\ x \in Children /\ x.stamp = at[p].card
          /\ x.phase \in {"APPROVED", "READY_FOR_REWORK"}
        BY <2>2, ProjectedTyped
    <2> HIDE DEF x
    <2>4. ChildMoves(p, board, x)
        BY <1>1, <1>4, <2>3 DEF ChildMoves, Restamps, Passive, Stale
    <2>5. Follows(p, board, board')
        BY <2>1, <2>2, <2>3, <2>4, KeptByChild
    <2>6. board'.child.stamp = at[p].card
        BY <2>1, <2>3, ChainTypes DEF Boards
    <2> QED BY <1>1, <1>2, <2>1, <2>5, <2>6, Projects
<1> QED BY <1>3, <1>4

(* The faults stay within their bound.                                     *)
LEMMA FaultCounted ==
    ASSUME ChainInv, faults < MaxFaults, faults' = faults + 1
    PROVE  faults' \in 0..MaxFaults
BY ChainAssumption DEF ChainInv, TypeOK

(* CasLost keeps the invariant.                                            *)
LEMMA CasLostStep ==
    ASSUME ChainInv, NEW p \in Coroutines, CasLost(p), races' \in 0..MaxRaces
    PROVE  Stepped
<1>1. Follows(p, board, board') /\ Goto(p, "recheck") /\ at[p].pc = "cas"
    BY KeptWhenSame DEF CasLost
<1>2. faults' \in 0..MaxFaults
    BY FaultCounted DEF CasLost
<1>3. {"cas", "recheck"} \subseteq Projecting
    BY DEF Projecting
<1> QED BY <1>1, <1>2, <1>3, Projects

(* Recheck keeps the invariant.                                            *)
LEMMA RecheckStep ==
    ASSUME ChainInv, NEW p \in Coroutines, Recheck(p), races' \in 0..MaxRaces
    PROVE  Stepped
<1>1. Follows(p, board, board') /\ faults' \in 0..MaxFaults /\ at[p].pc = "recheck"
    BY KeptWhenSame, ChainTypes DEF Recheck
<1>2. Return(p) \/ Goto(p, "markStale")
    BY DEF Recheck
<1>3. {"recheck", "markStale"} \subseteq Projecting
    BY DEF Projecting
<1> QED BY <1>1, <1>2, <1>3, Returns, Projects

(* Marking a decided review rewrites nothing that is history.              *)
LEMMA MarkedReview ==
    ASSUME ChainInv, NEW p \in Coroutines, at[p].pc \in Projecting,
           NEW r \in Reviews,
           r.phase = board.reviews[at[p].card].phase,
           r.source = board.reviews[at[p].card].source,
           r.verdict = board.reviews[at[p].card].verdict,
           r.claimed = board.reviews[at[p].card].claimed,
           r.state # "applied" \/ at[p].pc = "markApplied",
           board' = [board EXCEPT !.reviews[at[p].card] = r]
    PROVE  Follows(p, board, board')
<1>1. at[p].card \in DOMAIN board.reviews
    BY DEF ChainInv, Fits, Journalled
<1>2. SameHistory(board.reviews[at[p].card], r)
    BY <1>1, ReviewOpened DEF SameHistory
<1>3. \A t \in Tasks : at[t].pc \in Holding /\ at[t].card = at[p].card => Held(r)
    BY <1>1, ReviewOpened DEF Held
<1> QED BY <1>1, <1>2, <1>3, KeptByReview

(* MarkStale keeps the invariant.                                          *)
LEMMA MarkStaleStep ==
    ASSUME ChainInv, NEW p \in Coroutines, MarkStale(p), races' \in 0..MaxRaces
    PROVE  Stepped
<1> DEFINE k == at[p].card
           r == [board.reviews[k] EXCEPT !.state = "stale", !.outcome = "moot"]
<1>1. at[p].pc \in Projecting /\ k \in DOMAIN board.reviews
    BY DEF MarkStale, Projecting, ChainInv, Fits, Journalled
<1>2. board.reviews[k] \in Reviews
    BY <1>1, ListsTyped
<1>3. /\ r \in Reviews /\ r.phase = board.reviews[k].phase
      /\ r.source = board.reviews[k].source /\ r.verdict = board.reviews[k].verdict
      /\ r.claimed = board.reviews[k].claimed /\ r.state # "applied"
    <2> HIDE DEF k
    <2> QED BY <1>2 DEF Reviews
<1>4. board' = [board EXCEPT !.reviews[k] = r]
    <2>1. /\ board' = [board EXCEPT !.reviews[k].state = "stale",
                                    !.reviews[k].outcome = "moot"]
          /\ board.reviews \in Seq(Reviews) /\ board \in Boards
        BY ChainTypes DEF MarkStale
    <2> HIDE DEF k
    <2> QED BY <1>1, <1>2, <2>1 DEF Reviews, Boards
<1> HIDE DEF r
<1>5. Follows(p, board, board')
    BY <1>1, <1>3, <1>4, MarkedReview
<1>6. Return(p) /\ faults' \in 0..MaxFaults
    BY ChainTypes DEF MarkStale
<1> QED BY <1>5, <1>6, Returns

(* MarkApplied keeps the invariant.                                        *)
LEMMA MarkAppliedStep ==
    ASSUME ChainInv, NEW p \in Coroutines, MarkApplied(p), races' \in 0..MaxRaces
    PROVE  Stepped
<1> DEFINE k == at[p].card
           r == [board.reviews[k] EXCEPT !.state = "applied"]
<1>1. at[p].pc \in Projecting /\ at[p].pc = "markApplied" /\ k \in DOMAIN board.reviews
    BY DEF MarkApplied, Projecting, ChainInv, Fits, Journalled
<1>2. board.reviews[k] \in Reviews
    BY <1>1, ListsTyped
<1>3. /\ r \in Reviews /\ r.phase = board.reviews[k].phase
      /\ r.source = board.reviews[k].source /\ r.verdict = board.reviews[k].verdict
      /\ r.claimed = board.reviews[k].claimed
    <2> HIDE DEF k
    <2> QED BY <1>2 DEF Reviews
<1>4. board' = [board EXCEPT !.reviews[k] = r]
    BY DEF MarkApplied
<1> HIDE DEF r
<1>5. Follows(p, board, board')
    BY <1>1, <1>3, <1>4, MarkedReview
<1>6. Return(p) /\ faults' \in 0..MaxFaults
    BY ChainTypes DEF MarkApplied
<1> QED BY <1>5, <1>6, Returns

(* Every step of a helper keeps the invariant.                             *)
LEMMA HelpersStep ==
    ASSUME ChainInv, NEW p \in Coroutines, Helpers(p), races' \in 0..MaxRaces
    PROVE  Stepped
BY EnsureReportStep, AddReportStep, CountReportStep, EnsureReviewStep, SupersedeStep,
   AddReviewStep, CountReviewStep, CheckStep, CasStep, CasLostStep, RecheckStep,
   MarkStaleStep, MarkAppliedStep DEF Helpers

-----------------------------------------------------------------------------
(* The worker's seat.                                                      *)

(* The worker, the tick and the tasks are different coroutines.            *)
LEMMA Actors ==
    /\ "worker" \in Coroutines /\ "tick" \in Coroutines /\ Tasks \subseteq Coroutines
    /\ "worker" \notin Tasks /\ "tick" \notin Tasks
BY ChainAssumption DEF Coroutines

(* Deliver keeps the invariant.                                            *)
LEMMA DeliverStep ==
    ASSUME ChainInv, Deliver, races' \in 0..MaxRaces
    PROVE  Stepped
<1> DEFINE x == [board.child EXCEPT !.phase = "AWAITING_MANAGER_REVIEW"]
<1>1. /\ x \in Children /\ x.stamp = board.child.stamp
      /\ ChildMoves("worker", board, x)
    BY ChainTypes, Actors DEF Deliver, Children, Phase, ChildMoves, Working
<1>2. board' = [board EXCEPT !.child = x]
    BY ChainTypes, Actors DEF Deliver, Boards
<1> HIDE DEF x
<1>3. Follows("worker", board, board')
    BY <1>1, <1>2, KeptByChild
<1>4. Goto("worker", "report") /\ faults' \in 0..MaxFaults
    BY ChainTypes, Actors DEF Deliver
<1>5. "report" \in Points /\ "report" \in Plain
    BY DEF Points, Plain
<1> QED BY <1>3, <1>4, <1>5, GoesOn, Actors

(* The report the worker is writing is open.                               *)
LEMMA ReportOpen ==
    ASSUME ChainInv, Reporting(at["worker"])
    PROVE  /\ at["worker"].card \in DOMAIN board.reports
           /\ board.reports[at["worker"].card] \in Reports
           /\ board.reports[at["worker"].card].phase = "RUNNING"
           /\ board.reports[at["worker"].card].phase \notin DONE_PHASES
BY Actors, ListsTyped DEF ChainInv, Holds, DONE_PHASES

(* ReportEnds keeps the invariant.                                         *)
LEMMA ReportEndsStep ==
    ASSUME ChainInv, ReportEnds, races' \in 0..MaxRaces
    PROVE  Stepped
<1> DEFINE x     == IF Awaits(board) THEN "accept" ELSE "refuse"
           place == [at["worker"] EXCEPT !.pc = x]
<1>1. Follows("worker", board, board') /\ faults' \in 0..MaxFaults /\ board' = board
    BY KeptWhenSame, ChainTypes, Actors DEF ReportEnds
<1>2. Reporting(at["worker"])
    BY DEF ReportEnds, Reporting
<1>3. x \in {"accept", "refuse"} /\ x \in Points
    BY DEF Points
<1>4. Move("worker", place)
    BY DEF ReportEnds, Goto
<1> HIDE DEF x
<1>5. place \in Places /\ place.pc = x /\ place.card = at["worker"].card
    BY <1>3, ChainTypes, Actors, PointReached
<1> HIDE DEF place
<1>6. /\ Fits(board', "worker", place) /\ Holds(board', "worker", place)
      /\ PlaceFollows("worker", board, board', place)
    BY <1>1, <1>2, <1>3, <1>5, ReportOpen, Actors DEF Fits, Holds, PlaceFollows, Projecting
<1> QED BY <1>1, <1>4, <1>5, <1>6, PlaceTaken, Actors DEF Stepped

(* ReportFails keeps the invariant.                                        *)
LEMMA ReportFailsStep ==
    ASSUME ChainInv, ReportFails, races' \in 0..MaxRaces
    PROVE  Stepped
<1> DEFINE k == at["worker"].card
           r == [board.reports[k] EXCEPT !.phase = "FAILED"]
<1>1. Reporting(at["worker"])
    BY DEF ReportFails, Reporting
<1>2. r \in Reports
    <2>1. board.reports[k] \in Reports
        BY <1>1, ReportOpen
    <2> HIDE DEF k
    <2> QED BY <2>1 DEF Reports, Phase
<1>3. board' = [board EXCEPT !.reports[k] = r]
    BY DEF ReportFails
<1> HIDE DEF r
<1>4. Follows("worker", board, board')
    BY <1>1, <1>2, <1>3, ReportOpen, KeptByReport
<1>5. Return("worker") /\ faults' \in 0..MaxFaults
    BY FaultCounted DEF ReportFails
<1> QED BY <1>4, <1>5, Returns, Actors

(* Closing the report the worker holds rewrites no history.                *)
LEMMA ReportClosed ==
    ASSUME ChainInv, Reporting(at["worker"]), NEW o \in {"applied", "refused"},
           board' = [board EXCEPT !.reports[at["worker"].card].phase = "APPROVED",
                                  !.reports[at["worker"].card].outcome = o,
                                  !.reports[at["worker"].card].claimed = FALSE]
    PROVE  Follows("worker", board, board')
<1> DEFINE k == at["worker"].card
           r == [board.reports[k] EXCEPT !.phase = "APPROVED", !.outcome = o,
                                         !.claimed = FALSE]
<1>1. k \in DOMAIN board.reports /\ board.reports[k] \in Reports
    BY ReportOpen
<1>2. r \in Reports
    <2> HIDE DEF k
    <2> QED BY <1>1 DEF Reports, Phase
<1>3. board' = [board EXCEPT !.reports[k] = r]
    <2>1. board.reports \in Seq(Reports) /\ board \in Boards
        BY ChainTypes, Actors
    <2> DEFINE s == [board.reports EXCEPT ![k].phase = "APPROVED", ![k].outcome = o,
                                          ![k].claimed = FALSE]
    <2> HIDE DEF k
    <2>2. s = [board.reports EXCEPT ![k] = r]
        BY <1>1, <2>1 DEF Reports
    <2>3. board' = [board EXCEPT !.reports = s]
        BY <2>1 DEF Boards, k
    <2> QED BY <2>2, <2>3
<1> HIDE DEF r
<1> QED BY <1>1, <1>2, <1>3, ReportOpen, KeptByReport

(* AcceptReport keeps the invariant.                                       *)
LEMMA AcceptReportStep ==
    ASSUME ChainInv, AcceptReport, races' \in 0..MaxRaces
    PROVE  Stepped
<1> DEFINE k     == at["worker"].card
           place == [Nowhere EXCEPT !.pc = "review", !.source = k]
<1>1. Reporting(at["worker"])
    BY DEF AcceptReport, Reporting
<1>2. Follows("worker", board, board')
    BY <1>1, ReportClosed DEF AcceptReport
<1>3. Move("worker", place) /\ faults' \in 0..MaxFaults
    BY ChainTypes, Actors DEF AcceptReport
<1>4. k \in Nat
    BY ChainTypes, Actors DEF Places
<1> HIDE DEF k
<1>5. place \in Places /\ place.pc = "review"
    BY <1>4 DEF Places, Nowhere, Points
<1> HIDE DEF place
<1> QED BY <1>2, <1>3, <1>5, PlainMove, Actors

(* RefuseReport keeps the invariant.                                       *)
LEMMA RefuseReportStep ==
    ASSUME ChainInv, RefuseReport, races' \in 0..MaxRaces
    PROVE  Stepped
<1>1. Reporting(at["worker"])
    BY DEF RefuseReport, Reporting
<1>2. Follows("worker", board, board')
    BY <1>1, ReportClosed DEF RefuseReport
<1>3. Return("worker") /\ faults' \in 0..MaxFaults
    BY ChainTypes, Actors DEF RefuseReport
<1> QED BY <1>2, <1>3, Returns, Actors

-----------------------------------------------------------------------------
(* The manager's seat.                                                     *)

(* The card a task holds is its own, and is not approved by another.       *)
LEMMA HeldCard ==
    ASSUME ChainInv, NEW t \in Tasks, at[t].pc \in Holding
    PROVE  /\ at[t].card \in DOMAIN board.reviews /\ at[t].card \in Nat
           /\ board.reviews[at[t].card] \in Reviews
           /\ Held(board.reviews[at[t].card])
           /\ board.reviews[at[t].card].phase # "APPROVED"
           /\ board.reviews[at[t].card].verdict = NoVerdict
           /\ \A u \in Tasks \ {t} : at[u].pc \in Holding => at[u].card # at[t].card
<1>1. at[t].card \in DOMAIN board.reviews /\ Held(board.reviews[at[t].card])
    BY Actors DEF ChainInv, Holds
<1>2. OneHolder
    BY DEF ChainInv
<1> QED BY <1>1, <1>2, ReviewOpened, ListsTyped DEF Held, OneHolder

(* A task goes on with the card it holds.                                  *)
LEMMA HolderMoves ==
    ASSUME ChainInv, NEW t \in Tasks, at[t].pc \in Holding, NEW place \in Places,
           place.pc \in Holding, place.card = at[t].card,
           place.pc = "retry" => place.attempt <= ParseRetries,
           place.pc = "persist" => place.verdict # NoVerdict,
           Follows(t, board, board'), Move(t, place),
           Held(board'.reviews[at[t].card]),
           faults' \in 0..MaxFaults, races' \in 0..MaxRaces
    PROVE  Stepped
<1>1. at[t].card \in DOMAIN board'.reviews
    BY HeldCard DEF Follows, Keeps
<1>2. OwnCard(t, place)
    BY HeldCard DEF OwnCard
<1>3. Holds(board', t, place)
    BY <1>1, Actors DEF Holds
<1>4. Fits(board', t, place) /\ PlaceFollows(t, board, board', place)
    BY Actors DEF Fits, PlaceFollows, Holding, Projecting
<1> QED BY <1>2, <1>3, <1>4, PlaceTaken, Actors DEF Stepped

(* The number of answers nobody could parse is a number.                   *)
LEMMA UnparseableTyped ==
    ASSUME ChainInv
    PROVE  Unparseable \in Nat
<1> DEFINE S == {k \in DOMAIN board.reviews : board.reviews[k].outcome = "unparseable"}
<1>1. S \in SUBSET (1..Len(board.reviews)) /\ Len(board.reviews) \in Nat
    BY ListsTyped
<1>2. Cardinality(S) \in Nat
    <2> HIDE DEF S
    <2> QED BY <1>1, CountOf
<1>3. board.child.retries \in Nat
    BY ChainTypes, Actors, ChainAssumption DEF Children
<1> HIDE DEF S
<1>4. Max({board.child.retries, Cardinality(S)}) \in Nat
    BY <1>2, <1>3, MaxOfTwo
<1> QED BY <1>4 DEF Unparseable, S

(* A ruling is a verdict, within the cap on reworks.                       *)
LEMMA RulingTyped ==
    ASSUME ChainInv, NEW answer
    PROVE  Ruling(answer) \in Verdicts /\ Ruling(answer) # NoVerdict
<1>1. board.child.reworks \in 0..ReworkCap /\ ReworkCap \in Nat
    BY ChainTypes, Actors, ChainAssumption DEF Children
<1>2. Ruling(answer) \in Verdicts
    BY <1>1 DEF Ruling, Approval, Verdicts
<1>3. NoVerdict \notin Verdicts
    BY DEF NoVerdict, Verdicts
<1> QED BY <1>2, <1>3

(* Finalize keeps the invariant, whatever it decides to write.             *)
LEMMA FinalizeStep ==
    ASSUME ChainInv, NEW t \in Tasks, at[t].pc \in Holding, NEW answer,
           board' = board, Finalize(t, answer),
           faults' \in 0..MaxFaults, races' \in 0..MaxRaces
    PROVE  Stepped
<1> DEFINE place == [Nowhere EXCEPT !.card = at[t].card]
           moot  == [place EXCEPT !.pc = "closeMoot"]
           n     == Unparseable + 1
           retry == [place EXCEPT !.pc = "retry", !.attempt = n]
           rule  == [place EXCEPT !.pc = "persist", !.verdict = Ruling(answer)]
<1>1. Follows(t, board, board') /\ Held(board'.reviews[at[t].card])
    BY KeptWhenSame, HeldCard
<1>2. CASE Move(t, moot)
    <2>1. at[t].card \in Nat
        BY HeldCard
    <2>2. moot \in Places /\ moot.pc = "closeMoot" /\ moot.card = at[t].card
        BY <2>1 DEF Places, Nowhere, Points
    <2> HIDE DEF moot
    <2> QED BY <1>1, <1>2, <2>2, HolderMoves DEF Holding
<1>3. CASE Unparseable < ParseRetries /\ Move(t, retry)
    <2>1. at[t].card \in Nat /\ Unparseable \in Nat /\ ParseRetries \in Nat
        BY HeldCard, UnparseableTyped, ChainAssumption
    <2>2. n \in Nat /\ n <= ParseRetries
        BY <1>3, <2>1
    <2> HIDE DEF n
    <2>3. /\ retry \in Places /\ retry.pc = "retry" /\ retry.card = at[t].card
          /\ retry.attempt = n
        BY <2>1, <2>2 DEF Places, Nowhere, Points
    <2> HIDE DEF retry
    <2> QED BY <1>1, <1>3, <2>2, <2>3, HolderMoves DEF Holding
<1>4. CASE Move(t, rule)
    <2>1. at[t].card \in Nat
        BY HeldCard
    <2>2. /\ rule \in Places /\ rule.pc = "persist" /\ rule.card = at[t].card
          /\ rule.verdict # NoVerdict
        BY <2>1, RulingTyped DEF Places, Nowhere, Points
    <2> HIDE DEF rule
    <2> QED BY <1>1, <1>4, <2>2, HolderMoves DEF Holding
<1> QED BY <1>2, <1>3, <1>4 DEF Finalize

(* ReviewEnds keeps the invariant.                                         *)
LEMMA ReviewEndsStep ==
    ASSUME ChainInv, NEW t \in Tasks, ReviewEnds(t), races' \in 0..MaxRaces
    PROVE  Stepped
<1>1. PICK answer : Finalize(t, answer)
    BY DEF ReviewEnds
<1>2. at[t].pc \in Holding /\ board' = board /\ faults' \in 0..MaxFaults
    BY ChainTypes, Actors DEF ReviewEnds, Holding
<1> QED BY <1>1, <1>2, FinalizeStep

(* FinalizeFailed keeps the invariant.                                     *)
LEMMA FinalizeFailedStep ==
    ASSUME ChainInv, NEW t \in Tasks, FinalizeFailed(t), races' \in 0..MaxRaces
    PROVE  Stepped
<1>1. at[t].pc \in Holding /\ board' = board /\ faults' \in 0..MaxFaults
      /\ Finalize(t, "unclear")
    BY ChainTypes, Actors DEF FinalizeFailed, Holding
<1> QED BY <1>1, FinalizeStep

(* ReviewFails keeps the invariant: a card closed meanwhile stays closed.  *)
LEMMA ReviewFailsStep ==
    ASSUME ChainInv, NEW t \in Tasks, ReviewFails(t), races' \in 0..MaxRaces
    PROVE  Stepped
<1> DEFINE k     == at[t].card
           r     == [board.reviews[k] EXCEPT !.phase = "FAILED"]
           place == [at[t] EXCEPT !.pc = "failed"]
<1>1. at[t].pc \in Holding
    BY DEF ReviewFails, Holding
<1>2. Follows(t, board, board') /\ Held(board'.reviews[k])
    <2>1. CASE Legal(board.reviews[k].phase, "FAILED")
        <3>1. board' = [board EXCEPT !.reviews[k] = r]
            BY <2>1 DEF ReviewFails
        <3>2. board.reviews[k] \in Reviews /\ k \in DOMAIN board.reviews
            BY <1>1, HeldCard
        <3>3. /\ r \in Reviews /\ r.phase = "FAILED"
              /\ r.source = board.reviews[k].source /\ r.verdict = board.reviews[k].verdict
              /\ r.state = board.reviews[k].state
            <4> HIDE DEF k
            <4> QED BY <3>2 DEF Reviews, Phase
        <3> HIDE DEF r
        <3>4. board.reviews[k].phase \in DONE_PHASES => board.reviews[k].phase = "FAILED"
            BY <2>1, ClosingEdges
        <3>5. SameHistory(board.reviews[k], r) /\ Held(r)
            BY <1>1, <3>3, <3>4, HeldCard DEF SameHistory, Held
        <3>6. board'.reviews[k] = r
            <4>1. board \in Boards
                BY ChainTypes, Actors
            <4> HIDE DEF k
            <4> QED BY <3>1, <3>2, <4>1 DEF Boards
        <3> HIDE DEF k
        <3>7. Follows(t, board, board')
            BY <3>1, <3>2, <3>3, <3>5, KeptByReview
        <3> QED BY <3>5, <3>6, <3>7
    <2>2. CASE board' = board
        BY <1>1, <2>2, KeptWhenSame, HeldCard
    <2> QED BY <2>1, <2>2 DEF ReviewFails
<1>3. Move(t, place) /\ faults' \in 0..MaxFaults
    BY FaultCounted DEF ReviewFails, Goto
<1>4. place \in Places /\ place.pc = "failed" /\ place.card = k
    BY ChainTypes, Actors DEF Places, Points
<1> HIDE DEF place
<1> QED BY <1>1, <1>2, <1>3, <1>4, HolderMoves DEF Holding

(* Closing the card a task holds rewrites no history.                      *)
LEMMA Closes ==
    ASSUME ChainInv, NEW t \in Tasks, at[t].pc \in Holding,
           NEW f \in {"APPROVED", "CANCELLED"}, NEW r \in Reviews,
           Legal(board.reviews[at[t].card].phase, f),
           r.phase = f, r.source = board.reviews[at[t].card].source,
           f = "APPROVED" \/ r.verdict = NoVerdict,
           r.state \in {board.reviews[at[t].card].state, "pending"},
           board' = [board EXCEPT !.reviews[at[t].card] = r]
    PROVE  Follows(t, board, board')
<1>1. board.reviews[at[t].card].phase \in DONE_PHASES => board.reviews[at[t].card].phase = f
    BY ClosingEdges
<1>2. SameHistory(board.reviews[at[t].card], r)
    BY <1>1, HeldCard DEF SameHistory
<1>3. r.state = "applied" => board.reviews[at[t].card].state = "applied"
    OBVIOUS
<1>4. \A u \in Tasks \ {t} : at[u].pc \in Holding /\ at[u].card = at[t].card => Held(r)
    BY HeldCard
<1>5. at[t].card \in DOMAIN board.reviews
    BY HeldCard
<1> QED BY <1>2, <1>3, <1>4, <1>5, KeptByReview

(* A task whose write is refused drops its claim and ends.                 *)
LEMMA GivesUp ==
    ASSUME ChainInv, NEW t \in Tasks, at[t].pc \in Holding, NEW f \in DONE_PHASES,
           ~Legal(board.reviews[at[t].card].phase, f),
           board' = [board EXCEPT !.reviews[at[t].card].claimed = FALSE], Return(t),
           faults' \in 0..MaxFaults, races' \in 0..MaxRaces
    PROVE  Stepped
<1>1. Follows(t, board, board')
    BY HeldCard, Unclaims
<1> QED BY <1>1, Returns, Actors

(* CloseMoot keeps the invariant.                                          *)
LEMMA CloseMootStep ==
    ASSUME ChainInv, NEW t \in Tasks, CloseMoot(t), races' \in 0..MaxRaces
    PROVE  Stepped
<1> DEFINE k == at[t].card
           r == Closed(board.reviews[k], "APPROVED", "moot")
<1>1. at[t].pc \in Holding /\ faults' \in 0..MaxFaults
    BY ChainTypes, Actors DEF CloseMoot, Holding
<1>2. CASE Legal(board.reviews[k].phase, "APPROVED")
    <2>1. board' = [board EXCEPT !.reviews[k] = r] /\ Return(t)
        BY <1>2 DEF CloseMoot, Persist
    <2>2. r \in Reviews /\ r.phase = "APPROVED" /\ r.source = board.reviews[k].source
          /\ r.state = board.reviews[k].state
        <3>1. board.reviews[k] \in Reviews
            BY <1>1, HeldCard
        <3> QED BY <3>1, ClosedTyped, ClosingEdges
    <2> HIDE DEF r
    <2>3. Follows(t, board, board')
        BY <1>1, <1>2, <2>1, <2>2, Closes
    <2> QED BY <1>1, <2>1, <2>3, Returns, Actors
<1>3. CASE ~Legal(board.reviews[k].phase, "APPROVED")
    <2>1. board' = [board EXCEPT !.reviews[k].claimed = FALSE] /\ Return(t)
        BY <1>3 DEF CloseMoot, Persist
    <2> QED BY <1>1, <1>3, <2>1, GivesUp, ClosingEdges
<1> QED BY <1>2, <1>3

(* Retry keeps the invariant.                                              *)
LEMMA RetryStep ==
    ASSUME ChainInv, NEW t \in Tasks, Retry(t), races' \in 0..MaxRaces
    PROVE  Stepped
<1> DEFINE k     == at[t].card
           r     == Closed(board.reviews[k], "CANCELLED", "unparseable")
           place == [at[t] EXCEPT !.pc = "countRetry"]
<1>1. at[t].pc \in Holding /\ at[t].pc = "retry" /\ faults' \in 0..MaxFaults
    BY ChainTypes, Actors DEF Retry, Holding
<1>2. CASE Legal(board.reviews[k].phase, "CANCELLED")
    <2>1. board' = [board EXCEPT !.reviews[k] = r] /\ Move(t, place)
        BY <1>2 DEF Retry, Persist, Goto
    <2>2. r \in Reviews /\ r.phase = "CANCELLED" /\ r.source = board.reviews[k].source
          /\ r.verdict = NoVerdict /\ r.state = board.reviews[k].state
        <3>1. board.reviews[k] \in Reviews /\ board.reviews[k].verdict = NoVerdict
            BY <1>1, HeldCard
        <3> QED BY <3>1, ClosedTyped, ClosingEdges
    <2> HIDE DEF r
    <2>3. Follows(t, board, board')
        BY <1>1, <1>2, <2>1, <2>2, Closes
    <2>4. k \in DOMAIN board'.reviews
        BY <1>1, <2>3, HeldCard DEF Follows, Keeps
    <2>5. at[t].attempt <= ParseRetries
        BY <1>1, Actors DEF ChainInv, Fits
    <2>6. /\ place \in Places /\ place.pc = "countRetry" /\ place.card = k
          /\ place.attempt = at[t].attempt
        BY ChainTypes, Actors DEF Places, Points
    <2> HIDE DEF place
    <2>7. /\ Fits(board', t, place) /\ Holds(board', t, place)
          /\ OwnCard(t, place) /\ PlaceFollows(t, board, board', place)
        BY <2>4, <2>5, <2>6, Actors
           DEF Fits, Holds, OwnCard, PlaceFollows, Projecting, Holding
    <2> QED BY <1>1, <2>1, <2>3, <2>6, <2>7, PlaceTaken, Actors DEF Stepped
<1>3. CASE ~Legal(board.reviews[k].phase, "CANCELLED")
    <2>1. board' = [board EXCEPT !.reviews[k].claimed = FALSE] /\ Return(t)
        BY <1>3 DEF Retry, Persist
    <2> QED BY <1>1, <1>3, <2>1, GivesUp, ClosingEdges
<1> QED BY <1>2, <1>3

(* CountRetry keeps the invariant.                                         *)
LEMMA CountRetryStep ==
    ASSUME ChainInv, NEW t \in Tasks, CountRetry(t), races' \in 0..MaxRaces
    PROVE  Stepped
<1> DEFINE x     == [board.child EXCEPT !.retries = at[t].attempt]
           s     == board.reviews[at[t].card].source
           place == [Nowhere EXCEPT !.pc = "review", !.source = s]
<1>1. /\ at[t].card \in DOMAIN board.reviews
      /\ at[t].attempt <= ParseRetries /\ at[t].attempt \in Nat /\ ParseRetries \in Nat
    BY ChainTypes, Actors, ChainAssumption DEF CountRetry, ChainInv, Fits, Places
<1>2. x \in Children /\ x.stamp = board.child.stamp /\ x.phase = board.child.phase
    <2>1. at[t].attempt \in 0..ParseRetries
        BY <1>1
    <2>2. board.child \in Children
        BY ChainTypes, Actors
    <2> QED BY <2>1, <2>2 DEF Children
<1>3. board' = [board EXCEPT !.child = x]
    BY ChainTypes, Actors DEF CountRetry, Boards
<1> HIDE DEF x
<1>4. Follows(t, board, board')
    BY <1>2, <1>3, KeptByChild, QuietChild
<1>5. Move(t, place) /\ faults' \in 0..MaxFaults
    BY ChainTypes, Actors DEF CountRetry
<1>6. s \in Nat
    BY <1>1, ListsTyped DEF Reviews
<1> HIDE DEF s
<1>7. place \in Places /\ place.pc = "review"
    BY <1>6 DEF Places, Nowhere, Points
<1> HIDE DEF place
<1> QED BY <1>4, <1>5, <1>7, PlainMove, Actors

(* PersistVerdict keeps the invariant: a verdict is on record before it is *)
(* projected.                                                              *)
LEMMA PersistVerdictStep ==
    ASSUME ChainInv, NEW t \in Tasks, PersistVerdict(t), races' \in 0..MaxRaces
    PROVE  Stepped
<1> DEFINE k     == at[t].card
           c     == Closed(board.reviews[k], "APPROVED", "decided")
           r     == [c EXCEPT !.verdict = at[t].verdict, !.state = "pending"]
           place == [at[t] EXCEPT !.pc = "check", !.verdict = NoVerdict]
<1>1. at[t].pc \in Holding /\ at[t].pc = "persist" /\ faults' \in 0..MaxFaults
    BY ChainTypes, Actors DEF PersistVerdict, Holding
<1>2. CASE Legal(board.reviews[k].phase, "APPROVED")
    <2>1. board' = [board EXCEPT !.reviews[k] = r] /\ Move(t, place)
        BY <1>2 DEF PersistVerdict, Persist
    <2>2. c \in Reviews /\ c.phase = "APPROVED" /\ c.source = board.reviews[k].source
        <3>1. board.reviews[k] \in Reviews
            BY <1>1, HeldCard
        <3> QED BY <3>1, ClosedTyped, ClosingEdges
    <2>3. at[t].verdict \in Verdicts \cup {NoVerdict} /\ at[t].verdict # NoVerdict
        BY <1>1, ChainTypes, Actors DEF ChainInv, Fits, Places
    <2> HIDE DEF c
    <2>4. r \in Reviews /\ r.phase = "APPROVED" /\ r.source = board.reviews[k].source
          /\ r.verdict # NoVerdict /\ r.state = "pending"
        BY <2>2, <2>3 DEF Reviews
    <2> HIDE DEF r
    <2>5. Follows(t, board, board')
        BY <1>1, <1>2, <2>1, <2>4, Closes
    <2>6. Journalled(board', k)
        <3>1. board \in Boards /\ k \in DOMAIN board.reviews
            BY <1>1, HeldCard, ChainTypes, Actors
        <3> HIDE DEF k
        <3>2. k \in DOMAIN board'.reviews /\ board'.reviews[k] = r
            BY <2>1, <3>1 DEF Boards
        <3> QED BY <2>4, <3>2 DEF Journalled
    <2>7. place \in Places /\ place.pc = "check" /\ place.card = k
        BY ChainTypes, Actors DEF Places, Points
    <2> HIDE DEF place
    <2>8. /\ Fits(board', t, place) /\ Holds(board', t, place)
          /\ OwnCard(t, place) /\ PlaceFollows(t, board, board', place)
        BY <2>6, <2>7, Actors DEF Fits, Holds, OwnCard, PlaceFollows, Projecting, Holding
    <2> QED BY <1>1, <2>1, <2>5, <2>7, <2>8, PlaceTaken, Actors DEF Stepped
<1>3. CASE ~Legal(board.reviews[k].phase, "APPROVED")
    <2>1. board' = [board EXCEPT !.reviews[k].claimed = FALSE] /\ Return(t)
        BY <1>3 DEF PersistVerdict, Persist
    <2> QED BY <1>1, <1>3, <2>1, GivesUp, ClosingEdges
<1> QED BY <1>2, <1>3

(* The races stay within their bound.                                      *)
LEMMA RaceTyped ==
    ASSUME ChainInv, Race
    PROVE  races' \in 0..MaxRaces
BY ChainAssumption DEF ChainInv, TypeOK, Race

(* Every step of a task keeps the invariant.                               *)
LEMMA TaskSteps ==
    ASSUME ChainInv, NEW t \in Tasks, TaskStep(t)
    PROVE  Stepped
<1>1. races' \in 0..MaxRaces /\ t \in Coroutines
    BY RaceTyped, Actors DEF TaskStep
<1> QED BY <1>1, ReviewEndsStep, ReviewFailsStep, FinalizeFailedStep, CloseMootStep,
           RetryStep, CountRetryStep, PersistVerdictStep, HelpersStep DEF TaskStep

(* Every step of the worker keeps the invariant.                           *)
LEMMA WorkerSteps ==
    ASSUME ChainInv, WorkerStep
    PROVE  Stepped
<1>1. races' \in 0..MaxRaces /\ "worker" \in Coroutines
    BY RaceTyped, Actors DEF WorkerStep
<1> QED BY <1>1, DeliverStep, ReportEndsStep, ReportFailsStep, AcceptReportStep,
           RefuseReportStep, HelpersStep DEF WorkerStep

-----------------------------------------------------------------------------
(* The dispatcher's tick, and what happens from outside.                   *)

(* The last review of a report is a review of it.                          *)
LEMMA LinkedCards ==
    ASSUME ChainInv, NEW s
    PROVE  Last(Linked(board, s)) \in Linked(board, s) \cup {0}
<1>1. Linked(board, s) \in SUBSET (1..Len(board.reviews)) /\ Len(board.reviews) \in Nat
    BY ListsTyped DEF Linked
<1> QED BY <1>1, LastBounds

(* Reconcile keeps the invariant: a verdict it replays is on record.       *)
LEMMA ReconcileStep ==
    ASSUME ChainInv, Reconcile, races' \in 0..MaxRaces
    PROVE  Stepped
<1> DEFINE s     == LatestReport(board)
           r     == IF s = 0 THEN 0 ELSE Last(Linked(board, s))
           a     == Last(Active(board.reviews))
           leave == [Nowhere EXCEPT !.pc = "claim"]
           check == [Nowhere EXCEPT !.pc = "check", !.card = r]
           review == [Nowhere EXCEPT !.pc = "review", !.source = s, !.card = a,
                                     !.attempt = Len(board.reviews)]
           report == [Nowhere EXCEPT !.pc = "report", !.attempt = Len(board.reports)]
<1>1. Follows("tick", board, board') /\ faults' \in 0..MaxFaults /\ board' = board
    BY KeptWhenSame, ChainTypes, Actors DEF Reconcile
<1>2. /\ s \in Nat /\ Len(board.reviews) \in Nat /\ Len(board.reports) \in Nat
      /\ r \in DOMAIN board.reviews \cup {0} /\ r \in Nat
      /\ a \in DOMAIN board.reviews \cup {0} /\ a \in Nat
    <2>1. s \in Nat
        BY LatestReportBounds, ChainTypes, Actors
    <2>2. a \in DOMAIN board.reviews \cup {0}
        BY ActiveCards
    <2>3. r \in DOMAIN board.reviews \cup {0}
        <3> HIDE DEF s
        <3> QED BY LinkedCards DEF Linked
    <2> HIDE DEF s, a, r
    <2> QED BY <2>1, <2>2, <2>3, ListsTyped
<1>3. \/ Move("tick", leave)
      \/ Awaits(board) /\ Unprojected(r) /\ Move("tick", check)
      \/ Move("tick", review)
      \/ Move("tick", report)
    BY Zenon DEF Reconcile
<1> HIDE DEF s, r, a
<1>4. CASE Move("tick", leave)
    <2>1. leave \in Places /\ leave.pc \in Plain
        BY DEF Places, Nowhere, Points, Plain
    <2> HIDE DEF leave
    <2> QED BY <1>1, <1>4, <2>1, PlainMove, Actors
<1>5. CASE Move("tick", report)
    <2>1. report \in Places /\ report.pc \in Plain
        BY <1>2 DEF Places, Nowhere, Points, Plain
    <2> HIDE DEF report
    <2> QED BY <1>1, <1>5, <2>1, PlainMove, Actors
<1>6. CASE Awaits(board) /\ Unprojected(r) /\ Move("tick", check)
    <2>1. check \in Places /\ check.pc = "check" /\ check.card = r
        BY <1>2 DEF Places, Nowhere, Points
    <2> HIDE DEF check
    <2>2. Journalled(board', r)
        BY <1>1, <1>2, <1>6 DEF Unprojected, Journalled, ChainInv, Final
    <2>3. /\ Fits(board', "tick", check) /\ Holds(board', "tick", check)
          /\ PlaceFollows("tick", board, board', check)
        BY <1>6, <2>1, <2>2, Actors DEF Fits, Holds, PlaceFollows, Projecting
    <2> QED BY <1>1, <1>6, <2>1, <2>3, PlaceTaken, Actors DEF Stepped
<1>7. CASE Move("tick", review)
    <2>1. review \in Places /\ review.pc = "review" /\ review.card = a
        BY <1>2 DEF Places, Nowhere, Points
    <2> HIDE DEF review
    <2>2. /\ Fits(board', "tick", review) /\ Holds(board', "tick", review)
          /\ PlaceFollows("tick", board, board', review)
        BY <1>1, <1>2, <2>1, Actors DEF Fits, Holds, PlaceFollows, Projecting
    <2> QED BY <1>1, <1>7, <2>1, <2>2, PlaceTaken, Actors DEF Stepped
<1> QED BY <1>3, <1>4, <1>5, <1>6, <1>7

(* A card that can be claimed is neither closed nor claimed.               *)
LEMMA ClaimableOpen ==
    \A card : Claimable(card) => /\ card.phase \notin DONE_PHASES
                                 /\ ~card.claimed
BY DEF Claimable, DONE_PHASES, RUNNABLE_PHASES, IN_PROGRESS_PHASES

(* ClaimCard keeps the invariant: it happens while the tick is at its      *)
(* claims.                                                                 *)
LEMMA ClaimCardStep ==
    ASSUME ChainInv, ClaimCard, at["tick"].pc = "claim", UNCHANGED faults,
           races' \in 0..MaxRaces
    PROVE  Stepped
<1> DEFINE x     == [board.child EXCEPT !.phase = "RUNNING", !.claimed = TRUE]
           place == [Nowhere EXCEPT !.pc = "turn"]
<1>1. x \in Children /\ x.stamp = board.child.stamp /\ x.phase = "RUNNING"
    BY ChainTypes, Actors DEF Children, Phase
<1>2. board' = [board EXCEPT !.child = x] /\ board'.child = x
    BY ChainTypes, Actors DEF ClaimCard, Boards, Children
<1> HIDE DEF x
<1>3. Follows("worker", board, board')
    <2>1. ChildMoves("worker", board, x)
        BY <1>1 DEF ChildMoves, Passive
    <2> QED BY <1>1, <1>2, <2>1, KeptByChild
<1>4. place \in Places /\ place.pc = "turn" /\ place.card = 0
    BY DEF Places, Nowhere, Points
<1>5. Move("worker", place) /\ faults' \in 0..MaxFaults
    BY ChainTypes, Actors DEF ClaimCard
<1> HIDE DEF place
<1>6. /\ Fits(board', "worker", place) /\ Holds(board', "worker", place)
      /\ PlaceFollows("worker", board, board', place)
    BY <1>1, <1>2, <1>4, Actors DEF Fits, Holds, PlaceFollows, Reporting, Projecting
<1> QED BY <1>3, <1>4, <1>5, <1>6, PlaceTaken, Actors DEF Stepped

(* ClaimReport keeps the invariant.                                        *)
LEMMA ClaimReportStep ==
    ASSUME ChainInv, NEW k \in DOMAIN board.reports, ClaimReport(k), UNCHANGED faults,
           races' \in 0..MaxRaces
    PROVE  Stepped
<1> DEFINE r     == [board.reports[k] EXCEPT !.phase = "RUNNING", !.claimed = TRUE]
           place == [Nowhere EXCEPT !.pc = "turn", !.card = k]
<1>1. /\ board.reports[k] \in Reports /\ board.reports[k].phase \notin DONE_PHASES
      /\ k \in Nat /\ k # 0
    BY ListsTyped, ClaimableOpen DEF ClaimReport
<1>2. r \in Reports /\ r.phase = "RUNNING"
    BY <1>1 DEF Reports, Phase
<1>3. board \in Boards
    BY ChainTypes, Actors
<1>4. board' = [board EXCEPT !.reports[k] = r]
    BY <1>1, <1>3 DEF ClaimReport, Boards, Reports
<1> HIDE DEF r
<1>5. Follows("worker", board, board')
    BY <1>1, <1>2, <1>4, KeptByReport
<1>6. k \in DOMAIN board'.reports /\ board'.reports[k] = r
    BY <1>3, <1>4 DEF Boards
<1>7. place \in Places /\ place.pc = "turn" /\ place.card = k
    BY <1>1 DEF Places, Nowhere, Points
<1>8. Move("worker", place) /\ faults' \in 0..MaxFaults
    BY ChainTypes, Actors DEF ClaimReport
<1> HIDE DEF place
<1>9. /\ Fits(board', "worker", place) /\ Holds(board', "worker", place)
      /\ PlaceFollows("worker", board, board', place)
    BY <1>1, <1>2, <1>6, <1>7, Actors DEF Fits, Holds, PlaceFollows, Reporting, Projecting
<1> QED BY <1>5, <1>7, <1>8, <1>9, PlaceTaken, Actors DEF Stepped

(* ClaimReview keeps the invariant: no other task holds the card.          *)
LEMMA ClaimReviewStep ==
    ASSUME ChainInv, NEW k \in DOMAIN board.reviews, NEW t \in Tasks, ClaimReview(k, t),
           UNCHANGED faults, races' \in 0..MaxRaces
    PROVE  Stepped
<1> DEFINE r     == [board.reviews[k] EXCEPT !.phase = "RUNNING", !.claimed = TRUE]
           place == [Nowhere EXCEPT !.pc = "turn", !.card = k]
<1>1. /\ board.reviews[k] \in Reviews /\ board.reviews[k].phase \notin DONE_PHASES
      /\ ~board.reviews[k].claimed /\ k \in Nat
    BY ListsTyped, ClaimableOpen DEF ClaimReview
<1>2. /\ r \in Reviews /\ r.phase = "RUNNING" /\ r.claimed
      /\ r.source = board.reviews[k].source /\ r.verdict = board.reviews[k].verdict
      /\ r.state = board.reviews[k].state
    BY <1>1 DEF Reviews, Phase
<1>3. board \in Boards
    BY ChainTypes, Actors
<1>4. board' = [board EXCEPT !.reviews[k] = r]
    BY <1>1, <1>3 DEF ClaimReview, Boards, Reviews
<1> HIDE DEF r
<1>5. board.reviews[k].verdict = NoVerdict
    BY <1>1, ReviewOpened DEF DONE_PHASES
<1>6. SameHistory(board.reviews[k], r) /\ Held(r)
    BY <1>1, <1>2, <1>5 DEF SameHistory, Held
<1>7. Follows(t, board, board')
    BY <1>2, <1>4, <1>6, KeptByReview
<1>8. k \in DOMAIN board'.reviews /\ board'.reviews[k] = r
    BY <1>3, <1>4 DEF Boards
<1>9. place \in Places /\ place.pc = "turn" /\ place.card = k
    BY <1>1 DEF Places, Nowhere, Points
<1>10. Move(t, place) /\ faults' \in 0..MaxFaults
    BY ChainTypes, Actors DEF ClaimReview
<1> HIDE DEF place
<1>11. /\ Fits(board', t, place) /\ Holds(board', t, place)
       /\ PlaceFollows(t, board, board', place)
    BY <1>6, <1>8, <1>9, Actors DEF Fits, Holds, PlaceFollows, Projecting
<1>12. OwnCard(t, place)
    BY <1>1, <1>9, HeldCard DEF OwnCard, Held, DONE_PHASES
<1> QED BY <1>7, <1>9, <1>10, <1>11, <1>12, PlaceTaken, Actors DEF Stepped

(* TickEnds keeps the invariant.                                           *)
LEMMA TickEndsStep ==
    ASSUME ChainInv, TickEnds, races' \in 0..MaxRaces
    PROVE  Stepped
<1>1. Follows("tick", board, board') /\ faults' \in 0..MaxFaults
    BY KeptWhenSame, ChainTypes, Actors DEF TickEnds
<1>2. Nowhere \in Places /\ Nowhere.pc \in Plain
    BY DEF Places, Nowhere, Points, Plain
<1>3. Move("tick", Nowhere)
    BY DEF TickEnds
<1> QED BY <1>1, <1>2, <1>3, PlainMove, Actors

(* Every step of the tick keeps the invariant.                             *)
LEMMA TickSteps ==
    ASSUME ChainInv, TickStep
    PROVE  Stepped
<1>1. races' \in 0..MaxRaces /\ "tick" \in Coroutines
    BY ChainTypes, Actors DEF TickStep
<1>2. CASE ClaimForWorker
    BY <1>1, <1>2, ClaimCardStep, ClaimReportStep DEF ClaimForWorker
<1>3. CASE ClaimForManager
    BY <1>1, <1>3, ClaimReviewStep DEF ClaimForManager
<1> QED BY <1>1, <1>2, <1>3, ReconcileStep, TickEndsStep, HelpersStep DEF TickStep

(* Outage keeps the invariant: only claims are lost.                       *)
LEMMA OutageStep ==
    ASSUME ChainInv, Outage, UNCHANGED races
    PROVE  Stepped
<1> DEFINE x  == [board.child EXCEPT !.claimed = FALSE]
           rs == [k \in DOMAIN board.reports |-> [board.reports[k] EXCEPT !.claimed = FALSE]]
           vs == [k \in DOMAIN board.reviews |-> [board.reviews[k] EXCEPT !.claimed = FALSE]]
<1>1. /\ board' = [child |-> x, reports |-> rs, reviews |-> vs]
      /\ at' = [p \in Coroutines |-> Nowhere]
      /\ faults' \in 0..MaxFaults
    BY FaultCounted DEF Outage
<1>2. x \in Children /\ x.stamp = board.child.stamp
    BY ChainTypes, Actors DEF Children
<1>3. /\ rs \in Seq(Reports) /\ DOMAIN rs = DOMAIN board.reports
      /\ \A k \in DOMAIN rs : /\ rs[k].phase = board.reports[k].phase
                              /\ rs[k].outcome = board.reports[k].outcome
    <2>1. \A k \in DOMAIN board.reports :
             /\ [board.reports[k] EXCEPT !.claimed = FALSE] \in Reports
             /\ [board.reports[k] EXCEPT !.claimed = FALSE].phase = board.reports[k].phase
             /\ [board.reports[k] EXCEPT !.claimed = FALSE].outcome = board.reports[k].outcome
        BY ListsTyped DEF Reports
    <2> QED BY <2>1, ListsTyped
<1>4. /\ vs \in Seq(Reviews) /\ DOMAIN vs = DOMAIN board.reviews
      /\ \A k \in DOMAIN vs : /\ vs[k].phase = board.reviews[k].phase
                              /\ vs[k].source = board.reviews[k].source
                              /\ vs[k].verdict = board.reviews[k].verdict
                              /\ vs[k].state = board.reviews[k].state
    BY ListsTyped, UnclaimedTyped
<1> HIDE DEF x, rs, vs
<1>5. /\ board' \in Boards /\ board'.child = x
      /\ board'.reports = rs /\ board'.reviews = vs
    BY <1>1, <1>2, <1>3, <1>4 DEF Boards
<1>6. \A p \in Coroutines : at'[p] = Nowhere
    BY <1>1
<1>7. TypeOK'
    <2>1. Nowhere \in Places
        BY DEF Places, Nowhere, Points
    <2>2. races' \in 0..MaxRaces
        BY ChainTypes, Actors
    <2> QED BY <1>1, <1>5, <2>1, <2>2 DEF TypeOK
<1>8. Keeps(board, board')
    BY <1>3, <1>4, <1>5 DEF Keeps
<1>9. Final(board') /\ Stamped(board')
    BY <1>2, <1>4, <1>5 DEF ChainInv, Final, Stamped, Journalled
<1>10. Nowhere.pc = "idle"
    BY DEF Nowhere
<1>11. \A p \in Coroutines : Fits(board', p, at'[p]) /\ Holds(board', p, at'[p])
    BY <1>6, <1>10 DEF Fits, Holds, Projecting, Holding, Reporting
<1>12. OneHolder'
    BY <1>6, <1>10, Actors DEF OneHolder, Holding
<1>13. StampsAdvance'
    <2>1. StampsAdvance /\ Stamped(board)
        BY DEF ChainInv
    <2>2. LatestReport(board) <= LatestReport(board')
        BY <1>5, <1>8, LatestReportGrows, ChainTypes, Actors
    <2>3. /\ LatestReport(board) \in Nat /\ LatestReport(board') \in Nat
          /\ \A k \in DOMAIN board.reviews : board.reviews[k].source \in Nat
        BY <1>5, LatestReportBounds, ChainTypes, Actors, ListsTyped DEF Reviews
    <2>4. \A j \in DOMAIN vs : Consumed(j)' => Consumed(j)
        BY <1>4, <1>5, <1>6, <1>10 DEF Consumed
    <2>5. LET k == x.stamp IN
          /\ \A j \in DOMAIN vs : Consumed(j)' => k # 0 /\ vs[j].source <= vs[k].source
          /\ k # 0 => vs[k].source <= LatestReport(board')
        BY <1>2, <1>4, <2>1, <2>2, <2>3, <2>4 DEF StampsAdvance, Stamped, Journalled
    <2> QED BY <1>5, <2>5 DEF StampsAdvance
<1>14. TickIsAlone'
    BY <1>6, <1>10, Actors DEF TickIsAlone, Working, Replaying
<1> QED BY <1>7, <1>8, <1>9, <1>11, <1>12, <1>13, <1>14 DEF Stepped, ChainInv

(* Withdraw keeps the invariant.                                           *)
LEMMA WithdrawStep ==
    ASSUME ChainInv, Withdraw, UNCHANGED races
    PROVE  Stepped
<1> DEFINE x == [board.child EXCEPT !.phase = "CANCELLED"]
<1>1. /\ x \in Children /\ x.stamp = board.child.stamp /\ x.phase = "CANCELLED"
      /\ ChildMoves("tick", board, x)
    BY ChainTypes, Actors DEF Withdraw, Children, Phase, ChildMoves, Passive
<1>2. board' = [board EXCEPT !.child = x]
    BY ChainTypes, Actors DEF Withdraw, Boards
<1> HIDE DEF x
<1>3. Follows("tick", board, board') /\ at' = at /\ races' \in 0..MaxRaces
    BY <1>1, <1>2, KeptByChild, ChainTypes, Actors DEF Withdraw
<1>4. faults' \in 0..MaxFaults
    BY FaultCounted DEF Withdraw
<1>5. /\ board'.reports = board.reports /\ board'.reviews = board.reviews
      /\ board'.child = x
    BY <1>2, ChainTypes, Actors DEF Boards
<1>6. \A p \in Coroutines : Fits(board', p, at'[p]) /\ Holds(board', p, at'[p])
    BY <1>3, <1>5 DEF ChainInv, Fits, Holds, Journalled
<1>7. TypeOK'
    BY <1>3, <1>4 DEF ChainInv, TypeOK, Follows
<1>8. StampsAdvance'
    <2>1. StampsAdvance
        BY DEF ChainInv
    <2>2. LatestReport(board') = LatestReport(board)
        BY <1>5 DEF LatestReport
    <2> QED BY <1>1, <1>3, <1>5, <2>1, <2>2 DEF StampsAdvance, Consumed
<1>9. TickIsAlone'
    <2>1. TickIsAlone /\ Awaits(board) /\ ~Awaits(board')
        BY <1>1, <1>5 DEF ChainInv, Withdraw, Awaits
    <2> QED BY <1>3, <2>1 DEF TickIsAlone, Working, Replaying, Awaits
<1> QED BY <1>3, <1>6, <1>7, <1>8, <1>9 DEF Stepped, ChainInv, OneHolder, Follows

(* Every step keeps the invariant and what is closed.                      *)
LEMMA ChainSteps ==
    ASSUME ChainInv, [Next]_vars
    PROVE  Stepped
<1>1. CASE UNCHANGED vars
    <2>1. board' = board /\ at' = at /\ faults' = faults /\ races' = races
        BY <1>1 DEF vars
    <2>2. ChainInv'
        BY <2>1 DEF ChainInv, TypeOK, Fits, Holds, Final, Stamped, OneHolder, Journalled,
                    StampsAdvance, Consumed, TickIsAlone, Working, Replaying
    <2>3. Keeps(board, board')
        BY <2>1 DEF Keeps
    <2> QED BY <2>2, <2>3 DEF Stepped
<1> QED BY <1>1, WorkerSteps, TaskSteps, TickSteps, OutageStep, WithdrawStep DEF Next

(* The invariant holds of the empty board.                                 *)
LEMMA ChainInit ==
    ASSUME Init
    PROVE  ChainInv
<1>1. /\ board.child = NewChild /\ board.reports = <<>> /\ board.reviews = <<>>
      /\ board = [child |-> NewChild, reports |-> <<>>, reviews |-> <<>>]
    BY DEF Init, EmptyBoard
<1>2. NewChild \in Children /\ NewChild.stamp = 0
    BY ChainAssumption DEF NewChild, Children, Phase
<1>3. board \in Boards
    BY <1>1, <1>2 DEF Boards
<1>4. Nowhere \in Places /\ Nowhere.pc = "idle"
    BY DEF Places, Nowhere, Points
<1>5. \A p \in Coroutines : at[p] = Nowhere
    BY DEF Init
<1>6. TypeOK
    BY <1>3, <1>4, ChainAssumption DEF Init, TypeOK
<1>7. \A p \in Coroutines : Fits(board, p, at[p]) /\ Holds(board, p, at[p])
    BY <1>4, <1>5 DEF Fits, Holds, Projecting, Holding, Reporting
<1>8. Final(board) /\ Stamped(board)
    BY <1>1, <1>2 DEF Final, Stamped
<1>9. OneHolder
    BY <1>4, <1>5, Actors DEF OneHolder, Holding
<1>10. StampsAdvance
    BY <1>1, <1>2 DEF StampsAdvance
<1>11. TickIsAlone
    BY <1>4, <1>5, Actors DEF TickIsAlone, Working, Replaying
<1> QED BY <1>6, <1>7, <1>8, <1>9, <1>10, <1>11 DEF ChainInv

-----------------------------------------------------------------------------
(* The theorems.                                                           *)

(* The inductive invariant holds, for any number of tasks, reworks,        *)
(* retries, faults and races.                                              *)
THEOREM ChainHolds == Spec => []ChainInv
<1>1. ChainInv /\ [Next]_vars => ChainInv'
    BY ChainSteps DEF Stepped
<1> QED BY ChainInit, <1>1, PTL DEF Spec

(* The board, the places and the counters are always well typed: reworks   *)
(* stay within max_review_reworks and retries within                       *)
(* MAX_VERDICT_PARSE_RETRIES.                                              *)
THEOREM TypeCorrect == Spec => []TypeOK
<1>1. ChainInv => TypeOK
    BY DEF ChainInv
<1> QED BY <1>1, ChainHolds, PTL

(* A verdict that has reached the delivered card is on a closed review     *)
(* card.                                                                   *)
THEOREM StampsAreJournalled == Spec => []VerdictsAreJournalled
<1>1. ChainInv => VerdictsAreJournalled
    BY DEF ChainInv, Stamped, Journalled, VerdictsAreJournalled
<1> QED BY <1>1, ChainHolds, PTL

(* A closed report or review is not reopened, and its verdict not          *)
(* rewritten: a task whose card was superseded under it gives up its       *)
(* write.                                                                  *)
THEOREM HistoryHolds == Spec => HistoryIsKept
<1>1. ChainInv /\ [Next]_vars =>
         [/\ \A k \in DOMAIN board.reports :
               board.reports[k].phase \in DONE_PHASES
                  => board'.reports[k].phase = board.reports[k].phase
          /\ \A k \in DOMAIN board.reviews :
               board.reviews[k].phase \in DONE_PHASES
                  => /\ board'.reviews[k].phase = board.reviews[k].phase
                     /\ board'.reviews[k].verdict = board.reviews[k].verdict]_vars
    BY ChainSteps DEF Stepped, Keeps
<1> QED BY <1>1, ChainHolds, PTL DEF Spec, HistoryIsKept
(* A step of a task moves that task.                                       *)
LEMMA TaskMoves ==
    ASSUME NEW t \in Tasks, TaskStep(t)
    PROVE  \E place : Move(t, place)
<1>1. \A pc : Goto(t, pc) => \E place : Move(t, place)
    BY DEF Goto
<1>2. Return(t) => \E place : Move(t, place)
    BY DEF Return
<1>3. Helpers(t) => \E place : Move(t, place)
    BY <1>1, <1>2 DEF Helpers, EnsureReport, AddReport, CountReport, EnsureReview, Supersede,
       AddReview, CountReview, Check, Cas, CasLost, Recheck, MarkStale, MarkApplied
<1>4. \A answer : Finalize(t, answer) => \E place : Move(t, place)
    BY DEF Finalize
<1> QED BY <1>1, <1>2, <1>3, <1>4
        DEF TaskStep, ReviewEnds, ReviewFails, FinalizeFailed, CloseMoot, Retry, CountRetry,
            PersistVerdict, Persist

(* A step of the worker moves the worker.                                  *)
LEMMA WorkerMoves ==
    ASSUME WorkerStep
    PROVE  \E place : Move("worker", place)
<1>1. \A pc : Goto("worker", pc) => \E place : Move("worker", place)
    BY DEF Goto
<1>2. Return("worker") => \E place : Move("worker", place)
    BY DEF Return
<1>3. Helpers("worker") => \E place : Move("worker", place)
    BY <1>1, <1>2 DEF Helpers, EnsureReport, AddReport, CountReport, EnsureReview, Supersede,
       AddReview, CountReview, Check, Cas, CasLost, Recheck, MarkStale, MarkApplied
<1> QED BY <1>1, <1>2, <1>3
        DEF WorkerStep, Deliver, ReportEnds, ReportFails, AcceptReport, RefuseReport

(* A coroutine that moves moves alone.                                     *)
LEMMA MovesAlone ==
    ASSUME ChainInv, NEW p \in Coroutines, NEW q \in Coroutines, p # q,
           \E place : Move(q, place)
    PROVE  at'[p] = at[p]
BY ChainTypes DEF Move

(* A helper decides the delivered card only by a compare-and-set over the  *)
(* report accepted last.                                                   *)
LEMMA HelperDecides ==
    ASSUME NEW p \in Coroutines, at[p].pc = "cas", Helpers(p),
           board'.child.phase # board.child.phase
    PROVE  Awaits(board) /\ board.reviews[at[p].card].source = LatestReport(board)
<1>1. Cas(p)
    BY DEF Helpers, EnsureReport, AddReport, CountReport, EnsureReview, Supersede,
       AddReview, CountReview, Check, CasLost, Recheck, MarkStale, MarkApplied
<1> QED BY <1>1 DEF Cas, Stale

(* So does every step of the system.                                       *)
LEMMA DecidesByCas ==
    ASSUME ChainInv, Next, NEW p \in Coroutines, Decides(p)
    PROVE  Awaits(board) /\ board.reviews[at[p].card].source = LatestReport(board)
<1>1. at[p].pc = "cas" /\ at'[p] # at[p] /\ board'.child.phase # board.child.phase
    BY DEF Decides
<1>2. CASE WorkerStep
    <2>1. p = "worker"
        BY <1>1, <1>2, WorkerMoves, MovesAlone, Actors
    <2>2. Helpers(p)
        BY <1>1, <1>2, <2>1
           DEF WorkerStep, Deliver, ReportEnds, ReportFails, AcceptReport, RefuseReport
    <2> QED BY <1>1, <2>2, HelperDecides
<1>3. ASSUME NEW t \in Tasks, TaskStep(t)
      PROVE  Awaits(board) /\ board.reviews[at[p].card].source = LatestReport(board)
    <2>1. p = t
        BY <1>1, <1>3, TaskMoves, MovesAlone, Actors
    <2>2. Helpers(p)
        BY <1>1, <1>3, <2>1
           DEF TaskStep, ReviewEnds, ReviewFails, FinalizeFailed, CloseMoot, Retry,
               CountRetry, PersistVerdict
    <2> QED BY <1>1, <2>2, HelperDecides
<1>4. CASE TickStep
    <2>1. CASE Helpers("tick")
        <3>1. \E place : Move("tick", place)
            BY <2>1 DEF Goto, Return, Helpers, EnsureReport, AddReport, CountReport,
               EnsureReview, Supersede, AddReview, CountReview, Check, Cas, CasLost,
               Recheck, MarkStale, MarkApplied
        <3>2. p = "tick"
            BY <1>1, <3>1, MovesAlone, Actors
        <3> QED BY <1>1, <2>1, <3>2, HelperDecides
    <2>2. CASE Reconcile \/ TickEnds
        BY <1>1, <2>2 DEF Reconcile, TickEnds
    <2>3. CASE ClaimForWorker
        <3>1. \E place : Move("worker", place)
            BY <2>3 DEF ClaimForWorker, ClaimCard, ClaimReport
        <3>2. p = "worker"
            BY <1>1, <3>1, MovesAlone, Actors
        <3> QED BY <1>1, <2>3, <3>2 DEF ClaimForWorker
    <2>4. CASE ClaimForManager
        <3>1. PICK k \in DOMAIN board.reviews, t \in Tasks :
                 at[t].pc = "idle" /\ ClaimReview(k, t)
            BY <2>4 DEF ClaimForManager
        <3>2. p = t
            BY <1>1, <3>1, MovesAlone, Actors DEF ClaimReview
        <3> QED BY <1>1, <3>1, <3>2
    <2> QED BY <1>4, <2>1, <2>2, <2>3, <2>4 DEF TickStep
<1>5. CASE Outage \/ Withdraw
    <2>1. CASE Withdraw
        BY <1>1, <2>1 DEF Withdraw
    <2>2. CASE Outage
        <3>1. board'.child = [board.child EXCEPT !.claimed = FALSE]
            BY <2>2 DEF Outage
        <3>2. board.child \in Children
            BY ChainTypes, Actors
        <3>3. board'.child.phase = board.child.phase
            BY <3>1, <3>2 DEF Children
        <3> QED BY <1>1, <3>3
    <2> QED BY <1>5, <2>1, <2>2
<1> QED BY <1>2, <1>3, <1>4, <1>5 DEF Next

(* A verdict is projected only while its report is the one accepted last.  *)
THEOREM LatestReportDecides == Spec => VerdictsUseLatestReport
<1>1. ChainInv /\ [Next]_vars =>
         [\A p \in Coroutines :
             Decides(p) => board.reviews[at[p].card].source = LatestReport(board)]_vars
    BY DecidesByCas
<1> QED BY <1>1, ChainHolds, PTL DEF Spec, VerdictsUseLatestReport

(* A replay of the tick is not of the verdict on the stamp, and if it is   *)
(* of a consumed one, the verdict on the stamp is its twin.                *)
LEMMA ReplayIsFresh ==
    ASSUME ChainInv, Next, Decides("tick")
    PROVE  LET r == at["tick"].card
               k == board.child.stamp
           IN  /\ k # r
               /\ board.reviews[r].state = "applied"
                    => k # 0 /\ board.reviews[k].source = board.reviews[r].source
<1> DEFINE r == at["tick"].card
           k == board.child.stamp
<1>1. Awaits(board) /\ board.reviews[r].source = LatestReport(board)
    BY DecidesByCas, Actors
<1>2. at["tick"].pc = "cas"
    BY DEF Decides
<1>3. TickIsAlone /\ StampsAdvance /\ Stamped(board)
    BY DEF ChainInv
<1>4. k # r
    BY <1>1, <1>2, <1>3 DEF TickIsAlone
<1>5. ASSUME board.reviews[r].state = "applied"
      PROVE  k # 0 /\ board.reviews[k].source = board.reviews[r].source
    <2>1. r \in DOMAIN board.reviews
        BY <1>2, Actors DEF ChainInv, Fits, Projecting, Journalled
    <2>2. /\ k # 0 /\ board.reviews[r].source <= board.reviews[k].source
          /\ board.reviews[k].source <= LatestReport(board)
        BY <1>3, <1>5, <2>1 DEF StampsAdvance, Consumed
    <2>3. k \in DOMAIN board.reviews
        BY <1>3, <2>2 DEF Stamped, Journalled
    <2>4. board.reviews[r].source \in Nat /\ board.reviews[k].source \in Nat
        BY <2>1, <2>3, ListsTyped DEF Reviews
    <2> QED BY <1>1, <2>2, <2>4
<1> QED BY <1>4, <1>5

(* The tick's replays never decide twice with one verdict, its twin apart. *)
THEOREM ReplaysHold == Spec => ReplaysAreSafe
<1>1. ChainInv /\ [Next]_vars =>
         [LET r == at["tick"].card
              k == board.child.stamp
          IN  Decides("tick") =>
                /\ k # r
                /\ board.reviews[r].state = "applied"
                     => k # 0 /\ board.reviews[k].source = board.reviews[r].source]_vars
    BY ReplayIsFresh
<1> QED BY <1>1, ChainHolds, PTL DEF Spec, ReplaysAreSafe
=============================================================================
