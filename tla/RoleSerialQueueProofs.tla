------------------------- MODULE RoleSerialQueueProofs -------------------------
(***************************************************************************)
(* A role works on one card at a time, and its queue never holds a card    *)
(* twice, for any number of cards and however markers, queue entries and   *)
(* stale saves interleave.                                                 *)
(***************************************************************************)
EXTENDS RoleSerialQueue, SequenceLemmas, FiniteSetTheorems

(* The seat of the role: a busy card is the only one and the one the       *)
(* session in memory is running, and the dispatcher is past the admission  *)
(* test only while no card is busy.                                        *)
Shapes ==
    /\ DOMAIN mem = {"focus", "status", "pending"}
    /\ DOMAIN tick = {"pc", "seen", "card", "soft"}
    /\ DOMAIN turn = Cards

SeatedCard == \A c \in Cards : Busy(c) => mem.status = "running" /\ mem.focus = c

ClaimsForAFreeSeat == tick.pc \in {"pick", "cas", "won"} => \A c \in Cards : ~Busy(c)

SeatInv == Shapes /\ SeatedCard /\ ClaimsForAFreeSeat

(* A running session is never admitted, and rehydration does not touch it. *)
LEMMA RunningIsNotAdmitted ==
  ASSUME NEW s, NEW q, NEW seen, s.status = "running"
  PROVE  /\ Rehydrated(s, seen) = s
         /\ ~Admits(s, q)
BY DEF Rehydrated, Admits

(* A parked session that is rehydrated keeps its fields.                   *)
LEMMA RehydratedShape ==
  ASSUME NEW s, NEW seen, DOMAIN s = {"focus", "status", "pending"}
  PROVE  DOMAIN Rehydrated(s, seen) = {"focus", "status", "pending"}
BY DEF Rehydrated

(* No step gives the seat to a second card.                                *)
LEMMA SeatStep ==
  ASSUME SeatInv, [Next]_vars
  PROVE  SeatInv'
<1>. USE DEF SeatInv, Shapes, SeatedCard, ClaimsForAFreeSeat, Busy
<1>1. CASE TickSync
  BY <1>1 DEF TickSync
<1>2. CASE TickLoad
  BY <1>2 DEF TickLoad
<1>3. CASE TickReload
  BY <1>3 DEF TickReload, Polling
<1>4. CASE TickPlan
  <2>1. DOMAIN mem' = {"focus", "status", "pending"}
    BY <1>4, RehydratedShape DEF TickPlan
  <2>2. CASE mem.status = "running"
    <3>1. mem' = mem /\ tick' = Polling
      BY <1>4, <2>2, RunningIsNotAdmitted DEF TickPlan
    <3>2. turn' = turn
      BY <1>4 DEF TickPlan
    <3>3. tick'.pc = "sync" /\ DOMAIN tick' = {"pc", "seen", "card", "soft"}
      BY <3>1 DEF Polling
    <3>. QED
      BY <2>1, <3>1, <3>2, <3>3
  <2>3. CASE mem.status # "running"
    <3>1. \A c \in Cards : ~Busy(c)
      BY <2>3
    <3>2. turn' = turn /\ DOMAIN tick' = {"pc", "seen", "card", "soft"}
      BY <1>4 DEF TickPlan, Polling
    <3>. QED
      BY <2>1, <3>1, <3>2
  <2>. QED
    BY <2>2, <2>3
<1>5. CASE TickPick
  BY <1>5 DEF TickPick, Polling
<1>6. CASE TickClaim
  BY <1>6 DEF TickClaim
<1>7. CASE TickStart
  BY <1>7 DEF TickStart, Polling
<1>8. ASSUME NEW w \in Workers, RecLoadSessions(w) PROVE SeatInv'
  BY <1>8 DEF RecLoadSessions
<1>9. ASSUME NEW w \in Workers, RecLoadItems(w) PROVE SeatInv'
  BY <1>9 DEF RecLoadItems
<1>10. ASSUME NEW w \in Workers, RecClear(w) PROVE SeatInv'
  BY <1>10 DEF RecClear
<1>11. ASSUME NEW w \in Workers, RecSave(w) PROVE SeatInv'
  BY <1>11 DEF RecSave
<1>12. ASSUME NEW c \in Cards, TermList(c) PROVE SeatInv'
  BY <1>12 DEF TermList
<1>13. ASSUME NEW c \in Cards, TermClear(c) PROVE SeatInv'
  BY <1>13 DEF TermClear
<1>14. ASSUME NEW c \in Cards, HookRead(c) PROVE SeatInv'
  BY <1>14 DEF HookRead
<1>15. ASSUME NEW c \in Cards, HookAppend(c) PROVE SeatInv'
  BY <1>15 DEF HookAppend
<1>16. ASSUME NEW c \in Cards, HookMark(c) PROVE SeatInv'
  BY <1>16 DEF HookMark
<1>17. ASSUME NEW c \in Cards, TurnEnds(c) PROVE SeatInv'
  BY <1>17 DEF TurnEnds
<1>18. ASSUME NEW c \in Cards, ReviewEnds(c) PROVE SeatInv'
  BY <1>18 DEF ReviewEnds
<1>19. ASSUME NEW c \in Cards, Harvest(c) PROVE SeatInv'
  BY <1>19 DEF Harvest
<1>20. ASSUME NEW c \in Cards, Complete(c) PROVE SeatInv'
  BY <1>20 DEF Complete
<1>21. ASSUME NEW c \in Cards, CloseReview(c) PROVE SeatInv'
  BY <1>21 DEF CloseReview
<1>22. ASSUME NEW c \in Cards, Release(c) PROVE SeatInv'
  BY <1>22 DEF Release
<1>23. ASSUME NEW c \in Cards, Approve(c) PROVE SeatInv'
  BY <1>23 DEF Approve
<1>24. ASSUME NEW c \in Cards, Return(c) PROVE SeatInv'
  BY <1>24 DEF Return
<1>25. ASSUME NEW c \in Cards, Withdraw(c) PROVE SeatInv'
  BY <1>25 DEF Withdraw
<1>26. ASSUME NEW c \in Cards, Wake(c) PROVE SeatInv'
  BY <1>26 DEF Wake
<1>27. CASE Resume
  BY <1>27 DEF Resume, Polling
<1>28. CASE UNCHANGED vars
  BY <1>28 DEF vars
<1>. Tick \in Workers /\ Cards \subseteq Workers
  BY DEF Workers
<1>. QED
  BY <1>1, <1>2, <1>3, <1>4, <1>5, <1>6, <1>7, <1>8, <1>9, <1>10, <1>11, <1>12, <1>13, <1>14,
     <1>15, <1>16, <1>17, <1>18, <1>19, <1>20, <1>21, <1>22, <1>23, <1>24, <1>25, <1>26, <1>27,
     <1>28
     DEF Next, Loop, Coroutines, TickStep, Reconcile, HookStep, TurnStep, RunStep

(* The seat is taken and left by one card after another.                   *)
THEOREM SeatInvariant == Spec => []SeatInv
<1>1. Init => SeatInv
  BY DEF Init, SeatInv, Shapes, SeatedCard, ClaimsForAFreeSeat, Busy, Polling
<1>2. SeatInv /\ [Next]_vars => SeatInv'
  BY SeatStep
<1>. QED
  BY <1>1, <1>2, PTL DEF Spec

(* A role works on one card at a time (claim_runnable_tasks admits no      *)
(* running role, company_runtime.py:1240-1291).                            *)
THEOREM RoleIsSerial == Spec => []OneTurnPerRole
<1>1. SeatInv => OneTurnPerRole
  BY DEF SeatInv, SeatedCard, OneTurnPerRole
<1>. QED
  BY <1>1, SeatInvariant, PTL

-----------------------------------------------------------------------------
(* Sequences without repetition.                                           *)

(* What is kept is in the set, comes from the queue, and is there once.    *)
LEMMA KeptComesFrom ==
    ASSUME NEW T, NEW q \in Seq(T), NEW S
    PROVE  /\ Kept(q, S) \in Seq(T)
           /\ \A a \in 1..Len(Kept(q, S)) : \E j \in 1..Len(q) :
                  Kept(q, S)[a] = q[j] /\ q[j] \in S
           /\ IsInjective(q) => IsInjective(Kept(q, S))
<1>1. PICK g \in [0..Len(q) -> Seq(T)] :
              /\ g[0] = <<>> /\ Kept(q, S) = g[Len(q)]
              /\ \A k \in 1..Len(q) :
                    g[k] = IF q[k] \in S THEN Append(g[k - 1], q[k]) ELSE g[k - 1]
    BY KeptFold
<1> DEFINE From(k) == \A a \in 1..Len(g[k]) : \E j \in 1..k : g[k][a] = q[j] /\ q[j] \in S
           Once(k) == IsInjective(q) =>
                        \A a, b \in 1..Len(g[k]) : g[k][a] = g[k][b] => a = b
           P == {k \in 0..Len(q) : From(k) /\ Once(k)}
<1>2. Len(q) \in Nat /\ DOMAIN q = 1..Len(q)
    OBVIOUS
<1>3. 0 \in P
    BY <1>1, <1>2
<1>4. ASSUME NEW k \in 1..Len(q), k - 1 \in P PROVE k \in P
    <2>0. k \in 0..Len(q) /\ k - 1 \in 0..Len(q)
        <3> HIDE DEF P
        <3> QED BY <1>2
    <2>1. k \in 0..Len(q) /\ k - 1 \in 0..Len(q) /\ From(k - 1) /\ Once(k - 1)
        <3>1. From(k - 1) /\ Once(k - 1)
            BY <1>4
        <3> QED BY <2>0, <3>1
    <2>2. g[k - 1] \in Seq(T) /\ q[k] \in T
        BY <2>1
    <2>3. CASE q[k] \notin S
        <3>1. g[k] = g[k - 1]
            BY <1>1, <2>3
        <3>2. From(k)
            BY <2>1, <3>1
        <3> QED BY <2>1, <3>1, <3>2
    <2>4. CASE q[k] \in S
        <3> DEFINE p == g[k - 1]
        <3>1. g[k] = Append(p, q[k])
            BY <1>1, <2>4
        <3>2. /\ p \in Seq(T) /\ Len(p) \in Nat
              /\ \A a \in 1..Len(p) : \E j \in 1..k - 1 : p[a] = q[j] /\ q[j] \in S
              /\ IsInjective(q) => \A a, b \in 1..Len(p) : p[a] = p[b] => a = b
            BY <2>1, <2>2
        <3> HIDE DEF p
        <3>3. /\ Len(g[k]) = Len(p) + 1 /\ g[k][Len(p) + 1] = q[k]
              /\ \A a \in 1..Len(p) : g[k][a] = p[a]
            BY <2>2, <3>1, <3>2
        <3>4. ASSUME NEW a \in 1..Len(p) + 1, a # Len(p) + 1 PROVE a \in 1..Len(p)
            <4>1. Len(p) \in Nat
                BY <3>2
            <4> QED BY <3>4, <4>1
        <3>5. From(k)
            <4> SUFFICES ASSUME NEW a \in 1..Len(p) + 1
                         PROVE  \E j \in 1..k : g[k][a] = q[j] /\ q[j] \in S
                BY <3>3
            <4>1. CASE a = Len(p) + 1
                BY <2>4, <3>3, <4>1
            <4>2. CASE a # Len(p) + 1
                <5>1. a \in 1..Len(p)
                    BY <3>4, <4>2
                <5> QED BY <3>2, <3>3, <5>1
            <4> QED BY <4>1, <4>2
        <3>6. Once(k)
            <4> SUFFICES ASSUME IsInjective(q), NEW a \in 1..Len(p) + 1,
                                NEW b \in 1..Len(p) + 1, g[k][a] = g[k][b]
                         PROVE  a = b
                BY <3>3
            <4>1. \A c \in 1..Len(p) : g[k][c] # q[k]
                <5> TAKE c \in 1..Len(p)
                <5>1. PICK j \in 1..k - 1 : p[c] = q[j]
                    BY <3>2
                <5>2. j \in DOMAIN q /\ k \in DOMAIN q /\ j # k
                    BY <1>2, <5>1
                <5>3. q[j] # q[k]
                    BY <5>2 DEF IsInjective
                <5> QED BY <3>3, <5>1, <5>3
            <4>2. CASE a \in 1..Len(p) /\ b \in 1..Len(p)
                BY <3>2, <3>3, <4>2
            <4>3. CASE a = Len(p) + 1 \/ b = Len(p) + 1
                <5>1. a = Len(p) + 1 /\ b = Len(p) + 1
                    BY <3>2, <3>3, <4>1, <4>3
                <5> QED BY <5>1
            <4> QED BY <3>4, <4>2, <4>3
        <3> QED BY <2>1, <3>5, <3>6
    <2> QED BY <2>3, <2>4
<1>5. 0..Len(q) \subseteq P
    <2> HIDE DEF P
    <2> QED BY <1>2, <1>3, <1>4, UpTo
<1>6. From(Len(q)) /\ Once(Len(q))
    BY <1>2, <1>5
<1>7. Kept(q, S) \in Seq(T) /\ DOMAIN Kept(q, S) = 1..Len(Kept(q, S))
    BY <1>1, <1>2
<1> QED BY <1>1, <1>6, <1>7 DEF IsInjective

(* The queues are the sequences of cards without repetition: there is no   *)
(* room for more than N of them.                                           *)
LEMMA QueueShape ==
    /\ \A q \in Queues : q \in Seq(Cards) /\ IsInjective(q)
    /\ \A q \in Seq(Cards) : IsInjective(q) => q \in Queues
<1>1. N \in Nat /\ N > 0
    BY RoleAssumption
<1>2. ASSUME NEW q \in Queues PROVE q \in Seq(Cards) /\ IsInjective(q)
    <2>1. PICK n \in 0..N : q \in [1..n -> Cards]
        BY DEF Queues
    <2>2. n \in Nat
        BY <1>1
    <2> QED BY <2>1, <2>2 DEF Queues
<1>3. ASSUME NEW q \in Seq(Cards), IsInjective(q) PROVE q \in Queues
    <2> DEFINE n == Len(q)
    <2>1. n \in Nat /\ q \in [1..n -> Cards]
        OBVIOUS
    <2>2. n <= N
        <3>1. /\ IsFiniteSet(1..n) /\ Cardinality(1..n) = n
              /\ IsFiniteSet(1..N) /\ Cardinality(1..N) = N
            <4>1. 1 \in Int /\ n \in Int /\ N \in Int
                BY <1>1
            <4> HIDE DEF n
            <4> QED BY <1>1, <2>1, <4>1, FS_Interval
        <3>2. q \in Injection(1..n, 1..N)
            BY <1>3, <2>1 DEF Injection, Cards
        <3>3. Cardinality(1..n) <= Cardinality(1..N)
            <4> HIDE DEF n
            <4> QED BY <3>1, <3>2, FS_Injection
        <3> QED BY <3>1, <3>3
    <2>3. n \in 0..N
        <3> HIDE DEF n
        <3> QED BY <1>1, <2>1, <2>2
    <2> QED BY <1>3, <2>1, <2>3 DEF Queues
<1> QED BY <1>2, <1>3

(* What a filter keeps of a queue is a queue.                              *)
LEMMA KeptIsAQueue ==
    \A q, S : q \in Queues => /\ Kept(q, S) \in Queues
                              /\ Range(Kept(q, S)) \subseteq Range(q) \cap S
<1> SUFFICES ASSUME NEW q, NEW S, q \in Queues
             PROVE  /\ Kept(q, S) \in Queues
                    /\ Range(Kept(q, S)) \subseteq Range(q) \cap S
    OBVIOUS
<1>1. q \in Seq(Cards) /\ IsInjective(q)
    BY QueueShape
<1> DEFINE p == Kept(q, S)
<1>2. /\ p \in Seq(Cards) /\ IsInjective(p)
      /\ \A a \in 1..Len(p) : \E j \in 1..Len(q) : p[a] = q[j] /\ q[j] \in S
    BY <1>1, KeptComesFrom
<1> HIDE DEF p
<1>3. DOMAIN p = 1..Len(p) /\ DOMAIN q = 1..Len(q)
    BY <1>1, <1>2
<1>4. Range(p) \subseteq Range(q) \cap S
    BY <1>2, <1>3 DEF Range
<1>5. p \in Queues
    BY <1>2, QueueShape
<1> QED BY <1>4, <1>5 DEF p

(* Joining two queues that share no card.                                  *)
LEMMA JoinIsAQueue ==
    \A p, q : p \in Queues /\ q \in Queues /\ Range(p) \cap Range(q) = {}
                 => /\ p \o q \in Queues
                    /\ Range(p \o q) = Range(p) \cup Range(q)
<1> SUFFICES ASSUME NEW p, NEW q, p \in Queues, q \in Queues, Range(p) \cap Range(q) = {}
             PROVE  p \o q \in Queues /\ Range(p \o q) = Range(p) \cup Range(q)
    OBVIOUS
<1> DEFINE r == p \o q
<1>1. /\ p \in Seq(Cards) /\ IsInjective(p)
      /\ q \in Seq(Cards) /\ IsInjective(q)
    BY QueueShape
<1>2. /\ r \in Seq(Cards) /\ Len(r) = Len(p) + Len(q)
      /\ \A a \in 1..Len(r) : r[a] = IF a <= Len(p) THEN p[a] ELSE q[a - Len(p)]
    BY <1>1
<1>3. /\ DOMAIN p = 1..Len(p) /\ DOMAIN q = 1..Len(q) /\ DOMAIN r = 1..Len(r)
      /\ Len(p) \in Nat /\ Len(q) \in Nat /\ Len(r) \in Nat
    BY <1>1, <1>2
<1> HIDE DEF r
<1>4. ASSUME NEW a \in 1..Len(r)
      PROVE  \/ a \in 1..Len(p) /\ r[a] = p[a]
             \/ a - Len(p) \in 1..Len(q) /\ r[a] = q[a - Len(p)] /\ ~ (a <= Len(p))
    <2>1. a \in Int /\ a >= 1 /\ a <= Len(p) + Len(q)
        BY <1>2, <1>3
    <2>2. CASE a <= Len(p)
        <3>1. a \in 1..Len(p)
            BY <1>3, <2>1, <2>2
        <3> QED BY <1>2, <2>2, <3>1
    <2>3. CASE ~ (a <= Len(p))
        <3>1. a - Len(p) \in 1..Len(q)
            BY <1>3, <2>1, <2>3
        <3> QED BY <1>2, <2>3, <3>1
    <2> QED BY <2>2, <2>3
<1>5. \A a \in 1..Len(p), b \in 1..Len(q) : p[a] # q[b]
    BY <1>3 DEF Range
<1>6. IsInjective(r)
    <2> SUFFICES ASSUME NEW a \in 1..Len(r), NEW b \in 1..Len(r), r[a] = r[b]
                 PROVE  a = b
        BY <1>3 DEF IsInjective
    <2>1. CASE a \in 1..Len(p) /\ b \in 1..Len(p)
        <3>1. r[a] = p[a] /\ r[b] = p[b]
            BY <1>2, <1>3, <2>1
        <3> QED BY <1>1, <1>3, <2>1, <3>1 DEF IsInjective
    <2>2. CASE ~ (a \in 1..Len(p)) /\ ~ (b \in 1..Len(p))
        <3>1. /\ a - Len(p) \in 1..Len(q) /\ r[a] = q[a - Len(p)]
              /\ b - Len(p) \in 1..Len(q) /\ r[b] = q[b - Len(p)]
            BY <1>4, <2>2
        <3>2. a - Len(p) = b - Len(p)
            BY <1>1, <1>3, <3>1 DEF IsInjective
        <3>3. a \in Int /\ b \in Int
            OBVIOUS
        <3> QED BY <1>3, <3>2, <3>3
    <2>3. CASE (a \in 1..Len(p)) # (b \in 1..Len(p))
        BY <1>4, <1>5, <2>3
    <2> QED BY <2>1, <2>2, <2>3
<1>7. Range(r) \subseteq Range(p) \cup Range(q)
    BY <1>3, <1>4 DEF Range
<1>8. Range(p) \subseteq Range(r)
    <2> SUFFICES ASSUME NEW a \in 1..Len(p) PROVE \E b \in 1..Len(r) : r[b] = p[a]
        BY <1>3 DEF Range
    <2>1. a \in 1..Len(r) /\ a <= Len(p)
        BY <1>2, <1>3
    <2> QED BY <1>2, <2>1
<1>9. Range(q) \subseteq Range(r)
    <2> SUFFICES ASSUME NEW a \in 1..Len(q) PROVE \E b \in 1..Len(r) : r[b] = q[a]
        BY <1>3 DEF Range
    <2>1. a + Len(p) \in 1..Len(r) /\ ~ (a + Len(p) <= Len(p)) /\ (a + Len(p)) - Len(p) = a
        BY <1>2, <1>3
    <2>2. r[a + Len(p)] = q[a]
        BY <1>2, <2>1
    <2> QED BY <2>1, <2>2
<1>10. r \in Queues
    BY <1>2, <1>6, QueueShape
<1> QED BY <1>7, <1>8, <1>9, <1>10 DEF r

(* The other ways a queue is made.                                         *)
LEMMA MoreQueues ==
    /\ <<>> \in Queues /\ Range(<<>>) = {}
    /\ \A q \in Queues : Range(q) \subseteq Cards
    /\ \A q \in Queues : q # <<>> => /\ Head(q) \in Cards /\ Tail(q) \in Queues
                                     /\ Range(Tail(q)) \subseteq Range(q)
                                     /\ Head(q) \in Range(q)
    /\ \A q \in Queues, c \in Cards : c \notin Range(q) => Append(q, c) \in Queues
    /\ \A q \in Queues : Reverse(q) \in Queues /\ Range(Reverse(q)) = Range(q)
<1>1. <<>> \in Queues /\ Range(<<>>) = {}
    <2>1. <<>> \in Seq(Cards) /\ IsInjective(<<>>) /\ DOMAIN <<>> = {}
        BY DEF IsInjective
    <2> QED BY <2>1, QueueShape DEF Range
<1>2. ASSUME NEW q \in Queues PROVE Range(q) \subseteq Cards
    <2>1. q \in Seq(Cards)
        BY QueueShape
    <2> QED BY <2>1 DEF Range
<1>3. ASSUME NEW q \in Queues, q # <<>>
      PROVE  /\ Head(q) \in Cards /\ Tail(q) \in Queues
             /\ Range(Tail(q)) \subseteq Range(q) /\ Head(q) \in Range(q)
    <2>1. q \in Seq(Cards) /\ IsInjective(q)
        BY QueueShape
    <2>2. /\ Head(q) \in Cards /\ Head(q) = q[1] /\ 1 \in DOMAIN q
          /\ Len(q) \in Nat /\ DOMAIN q = 1..Len(q)
        BY <1>3, <2>1
    <2> DEFINE t == Tail(q)
    <2>3. /\ t \in Seq(Cards) /\ DOMAIN t = 1..Len(q) - 1
          /\ \A i \in 1..Len(q) - 1 : t[i] = q[i + 1]
        BY <1>3, <2>1
    <2> HIDE DEF t
    <2>4. \A i \in 1..Len(q) - 1 : i + 1 \in DOMAIN q
        BY <2>2
    <2>5. IsInjective(t)
        BY <2>1, <2>3, <2>4 DEF IsInjective
    <2>6. Range(t) \subseteq Range(q)
        BY <2>3, <2>4 DEF Range
    <2>7. Head(q) \in Range(q)
        BY <2>2 DEF Range
    <2>8. t \in Queues
        BY <2>3, <2>5, QueueShape
    <2> QED BY <2>2, <2>6, <2>7, <2>8 DEF t
<1>4. ASSUME NEW q \in Queues, NEW c \in Cards, c \notin Range(q)
      PROVE  Append(q, c) \in Queues
    <2>1. q \in Seq(Cards) /\ IsInjective(q) /\ Len(q) \in Nat /\ DOMAIN q = 1..Len(q)
        BY QueueShape
    <2> DEFINE t == Append(q, c)
    <2>2. /\ t \in Seq(Cards) /\ DOMAIN t = 1..Len(q) + 1 /\ t[Len(q) + 1] = c
          /\ \A i \in 1..Len(q) : t[i] = q[i]
        BY <2>1
    <2> HIDE DEF t
    <2>3. \A i \in 1..Len(q) + 1 : i # Len(q) + 1 => i \in 1..Len(q)
        BY <2>1
    <2>4. \A i \in 1..Len(q) : q[i] # c
        BY <1>4, <2>1 DEF Range
    <2>5. IsInjective(t)
        BY <2>1, <2>2, <2>3, <2>4 DEF IsInjective
    <2>6. t \in Queues
        BY <2>2, <2>5, QueueShape
    <2> QED BY <2>6 DEF t
<1>5. ASSUME NEW q \in Queues PROVE Reverse(q) \in Queues /\ Range(Reverse(q)) = Range(q)
    <2>1. q \in Seq(Cards) /\ IsInjective(q) /\ Len(q) \in Nat /\ DOMAIN q = 1..Len(q)
        BY QueueShape
    <2> DEFINE n == Len(q)
               t == Reverse(q)
    <2>2. \A i \in 1..n : (n - i) + 1 \in 1..n /\ (n - ((n - i) + 1)) + 1 = i
        BY <2>1
    <2>3. t = [i \in 1..n |-> q[(n - i) + 1]]
        BY DEF Reverse
    <2>4. t \in Seq(Cards) /\ DOMAIN t = 1..n /\ \A i \in 1..n : t[i] = q[(n - i) + 1]
        <3>1. \A i \in 1..n : q[(n - i) + 1] \in Cards
            BY <2>1, <2>2
        <3>2. t \in [1..n -> Cards]
            BY <2>3, <3>1
        <3>3. n \in Nat
            BY <2>1
        <3> HIDE DEF t, n
        <3> QED BY <2>3, <3>2, <3>3
    <2> HIDE DEF t
    <2>5. IsInjective(t)
        <3> SUFFICES ASSUME NEW a \in 1..n, NEW b \in 1..n, t[a] = t[b] PROVE a = b
            BY <2>4 DEF IsInjective
        <3>1. (n - a) + 1 = (n - b) + 1
            BY <2>1, <2>2, <2>4 DEF IsInjective
        <3> QED BY <2>1, <3>1
    <2>6. Range(t) = Range(q)
        <3>1. Range(t) \subseteq Range(q)
            BY <2>1, <2>2, <2>4 DEF Range
        <3>2. ASSUME NEW a \in 1..n PROVE \E b \in 1..n : t[b] = q[a]
            <4>1. t[(n - a) + 1] = q[a] /\ (n - a) + 1 \in 1..n
                BY <2>2, <2>4
            <4> QED BY <4>1
        <3>3. Range(q) \subseteq Range(t)
            <4>1. \A a \in 1..n : q[a] \in Range(t)
                <5> HIDE DEF n
                <5> QED BY <2>4, <3>2 DEF Range
            <4> QED BY <2>1, <4>1 DEF Range
        <3> QED BY <3>1, <3>3
    <2>7. t \in Queues
        BY <2>4, <2>5, QueueShape
    <2> QED BY <2>6, <2>7 DEF t
<1> QED BY <1>1, <1>2, <1>3, <1>4, <1>5

(* Cards in the order of the store are a queue.                            *)
LEMMA InOrderIsAQueue ==
    \A S : InOrder(S) \in Queues /\ Range(InOrder(S)) \subseteq S
<1> DEFINE q == [i \in Cards |-> i]
<1>1. q \in Queues
    <2>1. N \in Nat
        BY RoleAssumption
    <2>2. q \in Seq(Cards) /\ IsInjective(q)
        <3>1. q \in [1..N -> Cards]
            BY DEF Cards
        <3> QED BY <2>1, <3>1 DEF IsInjective
    <2> QED BY <2>2, QueueShape
<1> HIDE DEF q
<1>2. \A S : InOrder(S) = Kept(q, S)
    BY DEF InOrder, q
<1> QED BY <1>1, <1>2, KeptIsAQueue

-----------------------------------------------------------------------------
(* The types, with what is known of a reconcile between its steps.         *)

RecRows == UNION {[D -> Rows] : D \in SUBSET Cards}

Recs == [st      : {"idle", "list", "clear", "sessions", "items", "before", "after"},
         row     : RecRows,
         sess    : {<<>>} \cup Sessions,
         before  : Queues,
         after   : Queues,
         touched : BOOLEAN]

(* The rows a reconcile will write were read, and it has a session where   *)
(* its next step takes one.                                                *)
Prepared(r) ==
    /\ r.st \in {"clear", "items"} => r.sess \in Sessions
    /\ r.st = "before" /\ r.before = <<>> => r.sess \in Sessions
    /\ r.st = "after" => r.after # <<>>
    /\ r.st \in {"before", "after"} => Range(r.before) \cup Range(r.after) \subseteq DOMAIN r.row

TypeInv ==
    /\ row \in [Cards -> Rows]
    /\ sess \in Sessions /\ mem \in Sessions
    /\ prev \in Cards \cup {None}
    /\ runq \in Queues
    /\ DOMAIN tick = {"pc", "seen", "card", "soft"}
    /\ tick.pc \in {"sync", "load", "reconcile", "plan", "pick", "cas", "won"}
    /\ tick.card \in Cards \cup {None}
    /\ tick.pc \in {"cas", "won"} => tick.card \in Cards
    /\ turn \in [Cards -> {"none", "work", "parked", "ended", "crashed", "closing",
                           "verdict"}]
    /\ hook \subseteq Cards \X {"read", "append", "mark"}
    /\ rec \in [Workers -> Recs]
    /\ \A w \in Workers : Prepared(rec[w])
    /\ outages \in 0..MaxOutages

(* An idle reconcile, and one that has just started.                       *)
LEMMA IdleTyped ==
    /\ Idle \in Recs /\ Prepared(Idle)
    /\ [Idle EXCEPT !.st = "list"] \in Recs /\ Prepared([Idle EXCEPT !.st = "list"])
    /\ \A s \in Sessions : /\ [Idle EXCEPT !.st = "items", !.sess = s] \in Recs
                           /\ Prepared([Idle EXCEPT !.st = "items", !.sess = s])
<1>1. <<>> \in RecRows
    <2>1. <<>> \in [{} -> Rows]
        BY DOMAIN <<>> = {}
    <2> QED BY <2>1 DEF RecRows
<1>2. <<>> \in Queues
    BY MoreQueues
<1> QED BY <1>1, <1>2 DEF Idle, Recs, Prepared

(* A reconcile whose step is done moves on to one it is prepared for.      *)
LEMMA SettledTyped ==
    ASSUME NEW r \in Recs, Range(r.before) \cup Range(r.after) \subseteq DOMAIN r.row
    PROVE  Settled(r) \in Recs /\ Prepared(Settled(r))
<1> DEFINE b == [r EXCEPT !.st = "before"]
           a == [r EXCEPT !.st = "after"]
           i == [Idle EXCEPT !.touched = r.touched]
<1>1. /\ b \in Recs /\ b.st = "before" /\ b.before = r.before /\ b.after = r.after
      /\ b.row = r.row /\ b.sess = r.sess
    BY DEF Recs
<1>2. /\ a \in Recs /\ a.st = "after" /\ a.before = r.before /\ a.after = r.after
      /\ a.row = r.row /\ a.sess = r.sess
    BY DEF Recs
<1>3. i \in Recs /\ i.st = "idle"
    BY IdleTyped DEF Recs, Idle
<1>4. r.sess \in {<<>>} \cup Sessions
    BY DEF Recs
<1> HIDE DEF b, a, i
<1>5. CASE r.before # <<>> \/ r.sess # <<>>
    <2>1. Settled(r) = b
        BY <1>5 DEF Settled, b
    <2>2. Prepared(b)
        BY <1>1, <1>4, <1>5 DEF Prepared
    <2> QED BY <1>1, <2>1, <2>2
<1>6. CASE ~ (r.before # <<>> \/ r.sess # <<>>) /\ r.after # <<>>
    <2>1. Settled(r) = a
        BY <1>6 DEF Settled, a
    <2>2. Prepared(a)
        BY <1>2, <1>6 DEF Prepared
    <2> QED BY <1>2, <2>1, <2>2
<1>7. CASE ~ (r.before # <<>> \/ r.sess # <<>>) /\ ~ (r.after # <<>>)
    <2>1. Settled(r) = i
        BY <1>7 DEF Settled, i
    <2>2. Prepared(i)
        BY <1>3 DEF Prepared
    <2> QED BY <1>3, <2>1, <2>2
<1> QED BY <1>5, <1>6, <1>7

(* A reconcile that has read the session, or let go of it.                 *)
LEMMA ReadsTyped ==
    \A r \in Recs :
        /\ \A s \in Sessions, t \in {"items", "clear"} :
               /\ [r EXCEPT !.st = t, !.sess = s] \in Recs
               /\ Prepared([r EXCEPT !.st = t, !.sess = s])
        /\ [r EXCEPT !.st = "sessions", !.sess = <<>>] \in Recs
        /\ Prepared([r EXCEPT !.st = "sessions", !.sess = <<>>])
<1>1. ASSUME NEW r \in Recs, NEW s \in {<<>>} \cup Sessions,
             NEW t \in {"items", "clear", "sessions"},
             t # "sessions" => s \in Sessions
      PROVE  /\ [r EXCEPT !.st = t, !.sess = s] \in Recs
             /\ Prepared([r EXCEPT !.st = t, !.sess = s])
    <2> DEFINE u == [r EXCEPT !.st = t, !.sess = s]
    <2>1. u \in Recs /\ u.st = t /\ u.sess = s
        BY DEF Recs
    <2> HIDE DEF u
    <2>2. u \in Recs /\ Prepared(u)
        BY <1>1, <2>1 DEF Prepared
    <2> QED BY <2>2 DEF u
<1>2. ASSUME NEW r \in Recs, NEW s \in Sessions, NEW t \in {"items", "clear"}
      PROVE  /\ [r EXCEPT !.st = t, !.sess = s] \in Recs
             /\ Prepared([r EXCEPT !.st = t, !.sess = s])
    BY <1>1
<1>3. ASSUME NEW r \in Recs
      PROVE  /\ [r EXCEPT !.st = "sessions", !.sess = <<>>] \in Recs
             /\ Prepared([r EXCEPT !.st = "sessions", !.sess = <<>>])
    BY <1>1
<1> QED BY <1>2, <1>3

(* Sessions that are made from sessions.                                   *)
LEMMA MoreSessions ==
    /\ \A s \in Sessions : /\ Saved(s) \in Sessions
                           /\ s.focus \in Cards \cup {None} /\ s.pending \in Queues
    /\ \A s \in Sessions, f \in Cards \cup {None}, t \in {"idle", "running", "blocked"} :
          /\ [s EXCEPT !.focus = f, !.status = t] \in Sessions
          /\ [s EXCEPT !.status = t, !.focus = f] \in Sessions
    /\ \A s \in Sessions, q \in Queues : [s EXCEPT !.pending = q] \in Sessions
    /\ \A s \in Sessions : \A seen : Rehydrated(s, seen) \in Sessions
    /\ \A f \in Cards \cup {None}, t \in {"idle", "running", "blocked"}, q \in Queues :
          [focus |-> f, status |-> t, pending |-> q] \in Sessions
BY DEF Sessions, Saved, Rehydrated

(* A reconcile plans with what it has read.                                *)
LEMMA PlanTyped ==
    \A s \in Sessions, k \in [Cards -> Rows] :
        /\ Plan(s, k).sess \in Sessions
        /\ Plan(s, k).before \in Queues /\ Plan(s, k).after \in Queues
        /\ Plan(s, k).touched \in BOOLEAN
        /\ Range(Plan(s, k).before) \cap Range(Plan(s, k).after) = {}
<1> SUFFICES ASSUME NEW s \in Sessions, NEW k \in [Cards -> Rows]
             PROVE  /\ Plan(s, k).sess \in Sessions
                    /\ Plan(s, k).before \in Queues /\ Plan(s, k).after \in Queues
                    /\ Plan(s, k).touched \in BOOLEAN
                    /\ Range(Plan(s, k).before) \cap Range(Plan(s, k).after) = {}
    OBVIOUS
<1> DEFINE focus    == ActiveFocus(s, k)
           clean    == Kept(s.pending, {i \in Cards : Candidate(k[i])})
           loose    == {i \in Cards \ Range(clean) : Candidate(k[i]) /\ ~k[i].marked}
           front    == IF focus # None \/ loose = {} THEN None
                       ELSE CHOOSE i \in loose : \A j \in loose : i <= j
           promotes == focus = None /\ front = None /\ clean # <<>>
           head     == IF promotes THEN Head(clean) ELSE None
           queue    == IF promotes THEN Tail(clean) ELSE clean
           blocker  == IF focus # None THEN focus ELSE IF front # None THEN front ELSE head
           pruned   == Kept(s.pending, {i \in Cards : ~Candidate(k[i]) \/ i = head})
           before   == Kept(pruned, {i \in Cards : k[i].marked})
           stale    == {i \in Cards \ Range(before) :
                           k[i].marked /\ (i \notin Range(queue) \/ blocker = None)}
           status   == IF focus = None /\ (s.focus # None \/ blocker = None)
                       THEN "idle" ELSE s.status
<1>1. /\ s.focus \in Cards \cup {None} /\ s.pending \in Queues
      /\ s.status \in {"idle", "running", "blocked"}
    BY DEF Sessions
<1>2. focus \in Cards \cup {None}
    BY <1>1 DEF ActiveFocus
<1> HIDE DEF focus
<1>3. clean \in Queues
    BY <1>1, KeptIsAQueue
<1> HIDE DEF clean
<1>4. queue \in Queues
    BY <1>3, MoreQueues
<1> HIDE DEF head, blocker
<1>5. pruned \in Queues
    BY <1>1, KeptIsAQueue
<1> HIDE DEF pruned
<1>6. before \in Queues
    BY <1>5, KeptIsAQueue
<1> HIDE DEF before, queue
<1>7. InOrder(stale) \in Queues /\ Range(InOrder(stale)) \subseteq stale
    BY InOrderIsAQueue
<1>8. Range(before) \cap stale = {}
    OBVIOUS
<1> HIDE DEF stale
<1>9. status \in {"idle", "running", "blocked"}
    BY <1>1
<1> HIDE DEF status
<1>10. Saved([focus |-> focus, pending |-> queue, status |-> status]) \in Sessions
    <2>1. [focus |-> focus, pending |-> queue, status |-> status]
             = [focus |-> focus, status |-> status, pending |-> queue]
        OBVIOUS
    <2> QED BY <1>2, <1>4, <1>9, <2>1, MoreSessions
<1>11. Plan(s, k) = [sess |-> Saved([focus |-> focus, pending |-> queue, status |-> status]),
                     before |-> before, after |-> InOrder(stale),
                     touched |-> pruned # <<>> \/ stale # {} \/ s.focus # focus]
    BY DEF Plan, focus, clean, head, blocker, pruned, before, queue, stale, status
<1> QED BY <1>6, <1>7, <1>8, <1>10, <1>11

(* No step leaves the types.                                               *)
LEMMA TypeStep ==
    ASSUME TypeInv, [Next]_vars
    PROVE  TypeInv'
<1> Tick \in Workers /\ Cards \subseteq Workers
    BY DEF Workers
<1> None \notin Cards
    BY DEF None, Cards
<1>1. CASE TickSync
    BY <1>1, MoreSessions DEF TypeInv, TickSync
<1>2. CASE TickLoad
    <2>1. rec' = [rec EXCEPT ![Tick] = [Idle EXCEPT !.st = "items", !.sess = sess]]
        BY <1>2 DEF TickLoad
    <2> DEFINE r == [Idle EXCEPT !.st = "items", !.sess = sess]
    <2>2. r \in Recs /\ Prepared(r)
        BY IdleTyped DEF TypeInv
    <2> HIDE DEF r
    <2>3. rec' = [rec EXCEPT ![Tick] = r]
        BY <2>1 DEF r
    <2> QED BY <1>2, <2>2, <2>3 DEF TypeInv, TickLoad
<1>3. CASE TickReload
    BY <1>3, IdleTyped DEF TypeInv, TickReload
<1>4. CASE TickPlan
    <2> DEFINE new == {i \in Cards \ Range(runq) :
                          tick.seen[i] \notin {"busy", "WAITING_FOR_CHILDREN"}}
               p == Reverse(InOrder(new \cap ReviewCards))
               q == InOrder(new \ ReviewCards)
    <2>1. /\ p \in Queues /\ Range(p) \subseteq new \cap ReviewCards
          /\ q \in Queues /\ Range(q) \subseteq new \ ReviewCards
        <3> HIDE DEF new
        <3> QED BY InOrderIsAQueue, MoreQueues
    <2>2. new \cap Range(runq) = {}
        OBVIOUS
    <2> HIDE DEF new, p, q
    <2>3. p \o runq \in Queues /\ Range(p \o runq) = Range(p) \cup Range(runq)
        BY <2>1, <2>2, JoinIsAQueue DEF TypeInv
    <2>4. (p \o runq) \o q \in Queues
        BY <2>1, <2>2, <2>3, JoinIsAQueue
    <2>5. runq' = (p \o runq) \o q
        BY <1>4 DEF TickPlan, Enqueued, new, p, q
    <2>6. mem' \in Sessions
        BY <1>4, MoreSessions DEF TickPlan, TypeInv
    <2> QED BY <1>4, <2>4, <2>5, <2>6 DEF TypeInv, TickPlan, Polling
<1>5. CASE TickPick
    <2> DEFINE first == Kept(runq, ReviewCards)
               later == Kept(runq, Cards \ ReviewCards)
               order == first \o later
               G == {i \in Cards : turn[i] \in {"none", "verdict"} /\ tick.seen[i] # "busy"}
               good == Kept(order, G)
    <2>1. order \in Queues
        <3>1. /\ first \in Queues /\ Range(first) \subseteq ReviewCards
              /\ later \in Queues /\ Range(later) \subseteq Cards \ ReviewCards
            BY KeptIsAQueue DEF TypeInv
        <3> HIDE DEF first, later
        <3> QED BY <3>1, JoinIsAQueue
    <2>2. good \in Queues
        <3> HIDE DEF order, G
        <3> QED BY <2>1, KeptIsAQueue
    <2>3. PICK popped : runq' = Kept(runq, Cards \ popped)
        BY <1>5 DEF TickPick
    <2>4. runq' \in Queues
        BY <2>3, KeptIsAQueue DEF TypeInv
    <2>5. tick' = IF good = <<>> THEN Polling
                  ELSE [tick EXCEPT !.pc = "cas", !.card = Head(good)]
        BY <1>5 DEF TickPick
    <2> HIDE DEF first, later, order, G, good
    <2>6. good # <<>> => Head(good) \in Cards
        BY <2>2, MoreQueues
    <2>7. /\ DOMAIN tick' = {"pc", "seen", "card", "soft"}
          /\ tick'.pc \in {"sync", "cas"} /\ tick'.card \in Cards \cup {None}
          /\ tick'.pc = "cas" => tick'.card \in Cards
        BY <2>5, <2>6 DEF TypeInv, Polling
    <2> QED BY <1>5, <2>4, <2>7 DEF TypeInv, TickPick
<1>6. CASE TickClaim
    <2>1. tick.card \in Cards
        BY <1>6 DEF TypeInv, TickClaim
    <2>2. row' \in [Cards -> Rows]
        BY <1>6, <2>1 DEF TypeInv, TickClaim, Rows, Phase
    <2> QED BY <1>6, <2>1, <2>2 DEF TypeInv, TickClaim
<1>7. CASE TickStart
    <2>1. tick.card \in Cards
        BY <1>7 DEF TypeInv, TickStart
    <2>2. mem' \in Sessions
        BY <1>7, <2>1, MoreSessions DEF TypeInv, TickStart
    <2>3. sess' \in Sessions
        BY <1>7, <2>2, MoreSessions DEF TickStart
    <2>4. prev' \in Cards \cup {None}
        BY <1>7, MoreSessions DEF TypeInv, TickStart
    <2> QED BY <1>7, <2>1, <2>2, <2>3, <2>4 DEF TypeInv, TickStart, Polling
<1>8. ASSUME NEW w \in Workers, RecLoadSessions(w) PROVE TypeInv'
    <2> DEFINE r == [rec[w] EXCEPT !.st = "items", !.sess = sess]
    <2>1. r \in Recs /\ Prepared(r)
        BY ReadsTyped DEF TypeInv
    <2>2. rec' = [rec EXCEPT ![w] = r]
        BY <1>8 DEF RecLoadSessions, TypeInv
    <2> HIDE DEF r
    <2> QED BY <1>8, <2>1, <2>2 DEF TypeInv, RecLoadSessions
<1>9. ASSUME NEW w \in Workers, RecLoadItems(w) PROVE TypeInv'
    <2> DEFINE p == Plan(rec[w].sess, row)
               rows == [i \in Range(p.before \o p.after) |-> row[i]]
               s == IF p.sess = rec[w].sess THEN <<>> ELSE p.sess
               r == [st |-> "before", before |-> p.before, after |-> p.after,
                     row |-> rows, touched |-> w = Tick /\ p.touched, sess |-> s]
    <2>1. /\ p.sess \in Sessions /\ p.before \in Queues /\ p.after \in Queues
          /\ p.touched \in BOOLEAN
          /\ Range(p.before) \cap Range(p.after) = {}
        <3>1. rec[w].sess \in Sessions /\ row \in [Cards -> Rows]
            BY <1>9 DEF TypeInv, RecLoadItems, Prepared
        <3> QED BY <3>1, PlanTyped
    <2>2. rec' = [rec EXCEPT ![w] = Settled(r)]
        BY <1>9 DEF RecLoadItems, TypeInv
    <2> HIDE DEF p
    <2>3. /\ Range(p.before \o p.after) = Range(p.before) \cup Range(p.after)
          /\ Range(p.before \o p.after) \subseteq Cards
        BY <2>1, JoinIsAQueue, MoreQueues
    <2>4. rows \in RecRows /\ DOMAIN rows = Range(p.before) \cup Range(p.after)
        <3> DEFINE D == Range(p.before \o p.after)
        <3>1. D \subseteq Cards /\ D = Range(p.before) \cup Range(p.after)
            BY <2>3
        <3> HIDE DEF D
        <3>2. [i \in D |-> row[i]] \in [D -> Rows]
            BY <3>1 DEF TypeInv
        <3>3. [i \in D |-> row[i]] \in RecRows
            BY <3>1, <3>2 DEF RecRows
        <3> QED BY <3>1, <3>3 DEF D
    <2> HIDE DEF rows
    <2>5. /\ r \in Recs /\ r.before = p.before /\ r.after = p.after /\ r.row = rows
        BY <2>1, <2>4 DEF Recs
    <2> HIDE DEF r, s
    <2>6. Settled(r) \in Recs /\ Prepared(Settled(r))
        BY <2>4, <2>5, SettledTyped
    <2> QED BY <1>9, <2>2, <2>6 DEF TypeInv, RecLoadItems
<1>10. ASSUME NEW w \in Workers, RecClear(w) PROVE TypeInv'
    <2>1. rec[w] \in Recs /\ Prepared(rec[w]) /\ rec \in [Workers -> Recs]
        BY DEF TypeInv
    <2>2. ASSUME NEW q \in Queues, q # <<>>, Range(q) \subseteq DOMAIN rec[w].row,
                 ClearMarker(rec[w].row, Head(q))
          PROVE  row' \in [Cards -> Rows] /\ hook' \subseteq Cards \X {"read", "append", "mark"}
        <3> DEFINE c == Head(q)
                   k == rec[w].row
        <3>1. c \in Cards /\ c \in DOMAIN k
            BY <2>2, MoreQueues
        <3>2. PICK D \in SUBSET Cards : k \in [D -> Rows]
            BY <2>1 DEF Recs, RecRows
        <3>3. k[c] \in Rows
            BY <3>1, <3>2
        <3>4. ClearMarker(k, c)
            BY <2>2
        <3> HIDE DEF c, k
        <3> DEFINE new == [k[c] EXCEPT !.marked = FALSE]
        <3>5. new \in Rows
            BY <3>3 DEF Rows
        <3>6. \/ row' = [row EXCEPT ![c] = new] /\ hook' \in {hook, hook \cup {<<c, "read">>}}
              \/ row' = row /\ hook' = hook
            BY <3>4 DEF ClearMarker
        <3> HIDE DEF new
        <3>7. row' \in [Cards -> Rows]
            BY <3>1, <3>5, <3>6 DEF TypeInv
        <3>8. hook' \subseteq Cards \X {"read", "append", "mark"}
            BY <3>1, <3>6 DEF TypeInv
        <3> QED BY <3>7, <3>8
    <2>3. ASSUME NEW r \in Recs, rec' = [rec EXCEPT ![w] = Settled(r)],
                 Range(r.before) \cup Range(r.after) \subseteq DOMAIN r.row
          PROVE  rec' \in [Workers -> Recs] /\ \A v \in Workers : Prepared(rec'[v])
        <3>1. Settled(r) \in Recs /\ Prepared(Settled(r))
            BY <2>3, SettledTyped
        <3> QED BY <2>3, <3>1 DEF TypeInv
    <2>4. CASE /\ rec[w].st = "before" /\ rec[w].before # <<>>
               /\ ClearMarker(rec[w].row, Head(rec[w].before))
               /\ rec' = [rec EXCEPT ![w] = Settled([rec[w] EXCEPT !.before = Tail(@)])]
        <3> DEFINE r == [rec[w] EXCEPT !.before = Tail(@)]
        <3>1. /\ rec[w].before \in Queues
              /\ Range(rec[w].before) \cup Range(rec[w].after) \subseteq DOMAIN rec[w].row
            BY <2>1, <2>4 DEF Prepared, Recs
        <3>2. /\ Tail(rec[w].before) \in Queues
              /\ Range(Tail(rec[w].before)) \subseteq Range(rec[w].before)
            BY <2>4, <3>1, MoreQueues
        <3>3. /\ r \in Recs /\ r.row = rec[w].row /\ r.after = rec[w].after
              /\ r.before = Tail(rec[w].before)
            BY <2>1, <3>2 DEF Recs
        <3>4. rec' = [rec EXCEPT ![w] = Settled(r)]
            BY <2>1, <2>4
        <3> HIDE DEF r
        <3>5. rec' \in [Workers -> Recs] /\ \A v \in Workers : Prepared(rec'[v])
            BY <2>3, <3>1, <3>2, <3>3, <3>4
        <3>6. row' \in [Cards -> Rows] /\ hook' \subseteq Cards \X {"read", "append", "mark"}
            BY <2>2, <2>4, <3>1
        <3> QED BY <1>10, <3>5, <3>6 DEF TypeInv, RecClear
    <2>5. CASE /\ rec[w].st = "after"
               /\ ClearMarker(rec[w].row, Head(rec[w].after))
               /\ rec' = [rec EXCEPT ![w] = Settled([rec[w] EXCEPT !.after = Tail(@)])]
        <3> DEFINE r == [rec[w] EXCEPT !.after = Tail(@)]
        <3>1. /\ rec[w].after \in Queues
              /\ Range(rec[w].before) \cup Range(rec[w].after) \subseteq DOMAIN rec[w].row
              /\ rec[w].after # <<>>
            BY <2>1, <2>5 DEF Prepared, Recs
        <3>2. /\ Tail(rec[w].after) \in Queues
              /\ Range(Tail(rec[w].after)) \subseteq Range(rec[w].after)
            BY <2>5, <3>1, MoreQueues
        <3>3. /\ r \in Recs /\ r.row = rec[w].row /\ r.before = rec[w].before
              /\ r.after = Tail(rec[w].after)
            BY <2>1, <3>2 DEF Recs
        <3>4. rec' = [rec EXCEPT ![w] = Settled(r)]
            BY <2>1, <2>5
        <3> HIDE DEF r
        <3>5. rec' \in [Workers -> Recs] /\ \A v \in Workers : Prepared(rec'[v])
            BY <2>3, <3>1, <3>2, <3>3, <3>4
        <3>6. row' \in [Cards -> Rows] /\ hook' \subseteq Cards \X {"read", "append", "mark"}
            BY <2>2, <2>5, <3>1
        <3> QED BY <1>10, <3>5, <3>6 DEF TypeInv, RecClear
    <2> QED BY <1>10, <2>4, <2>5 DEF RecClear
<1>11. ASSUME NEW w \in Workers, RecSave(w) PROVE TypeInv'
    <2>1. rec[w] \in Recs /\ Prepared(rec[w]) /\ rec \in [Workers -> Recs]
        BY DEF TypeInv
    <2> DEFINE r == [rec[w] EXCEPT !.sess = <<>>]
    <2>2. /\ rec[w].sess \in Sessions
          /\ Range(rec[w].before) \cup Range(rec[w].after) \subseteq DOMAIN rec[w].row
        BY <1>11, <2>1 DEF RecSave, Prepared
    <2>3. r \in Recs /\ r.row = rec[w].row /\ r.before = rec[w].before /\ r.after = rec[w].after
        BY <2>1 DEF Recs
    <2>4. rec' = [rec EXCEPT ![w] = Settled(r)]
        BY <1>11, <2>1 DEF RecSave
    <2> HIDE DEF r
    <2>5. Settled(r) \in Recs /\ Prepared(Settled(r))
        BY <2>2, <2>3, SettledTyped
    <2>6. rec' \in [Workers -> Recs] /\ \A v \in Workers : Prepared(rec'[v])
        BY <2>4, <2>5 DEF TypeInv
    <2>7. sess' \in Sessions
        BY <1>11, <2>2 DEF RecSave
    <2> QED BY <1>11, <2>6, <2>7 DEF TypeInv, RecSave
<1>12. ASSUME NEW c \in Cards, TermList(c) PROVE TypeInv'
    <2> DEFINE r == [rec[c] EXCEPT !.st = "clear", !.sess = sess]
    <2>1. r \in Recs /\ Prepared(r)
        BY ReadsTyped DEF TypeInv
    <2>2. rec' = [rec EXCEPT ![c] = r]
        BY <1>12 DEF TermList, TypeInv
    <2> HIDE DEF r
    <2> QED BY <1>12, <2>1, <2>2 DEF TypeInv, TermList
<1>13. ASSUME NEW c \in Cards, TermClear(c) PROVE TypeInv'
    <2> DEFINE r == [rec[c] EXCEPT !.st = "sessions", !.sess = <<>>]
    <2>1. r \in Recs /\ Prepared(r)
        BY ReadsTyped DEF TypeInv
    <2>2. rec' = [rec EXCEPT ![c] = r]
        BY <1>13 DEF TermClear, TypeInv
    <2> HIDE DEF r
    <2>3. sess' \in Sessions
        <3> DEFINE t == IF rec[c].sess.status = "blocked" THEN "idle" ELSE sess.status
        <3>1. /\ t \in {"idle", "running", "blocked"}
              /\ None \in Cards \cup {None} /\ sess \in Sessions
            BY DEF TypeInv, Sessions
        <3>2. sess' = Saved([sess EXCEPT !.focus = None, !.status = t])
            BY <1>13 DEF TermClear, TypeInv, Sessions
        <3> HIDE DEF t
        <3> QED BY <3>1, <3>2, MoreSessions
    <2> QED BY <1>13, <2>1, <2>2, <2>3 DEF TypeInv, TermClear
<1>14. ASSUME NEW c \in Cards, HookRead(c) PROVE TypeInv'
    BY <1>14 DEF TypeInv, HookRead
<1>15. ASSUME NEW c \in Cards, HookAppend(c) PROVE TypeInv'
    <2>1. sess' \in Sessions
        <3>1. CASE c \in Range(sess.pending)
            BY <1>15, <3>1 DEF HookAppend, TypeInv
        <3>2. CASE c \notin Range(sess.pending)
            <4> DEFINE q == Append(sess.pending, c)
            <4>1. q \in Queues
                BY <3>2, MoreQueues, MoreSessions DEF TypeInv
            <4>2. sess' = [sess EXCEPT !.pending = q]
                BY <1>15, <3>2 DEF HookAppend, TypeInv, Sessions
            <4> HIDE DEF q
            <4> QED BY <4>1, <4>2, MoreSessions DEF TypeInv
        <3> QED BY <3>1, <3>2
    <2> QED BY <1>15, <2>1 DEF TypeInv, HookAppend
<1>16. ASSUME NEW c \in Cards, HookMark(c) PROVE TypeInv'
    <2>1. row' \in [Cards -> Rows]
        BY <1>16 DEF TypeInv, HookMark, Rows
    <2> QED BY <1>16, <2>1 DEF TypeInv, HookMark
<1>17. ASSUME NEW c \in Cards, TurnEnds(c) PROVE TypeInv'
    <2>1. row' \in [Cards -> Rows]
        BY <1>17 DEF TypeInv, TurnEnds, Rows, Phase
    <2> QED BY <1>17, <2>1 DEF TypeInv, TurnEnds
<1>18. ASSUME NEW c \in Cards, ReviewEnds(c) PROVE TypeInv'
    BY <1>18 DEF TypeInv, ReviewEnds
<1>19. ASSUME NEW c \in Cards, Harvest(c) PROVE TypeInv'
    <2>1. row' \in [Cards -> Rows]
        BY <1>19 DEF TypeInv, Harvest, Rows, Phase
    <2>2. rec' \in [Workers -> Recs] /\ \A w \in Workers : Prepared(rec'[w])
        BY <1>19, IdleTyped DEF TypeInv, Harvest, Closed
    <2> QED BY <1>19, <2>1, <2>2 DEF TypeInv, Harvest
<1>20. ASSUME NEW c \in Cards, Complete(c) PROVE TypeInv'
    <2>1. PICK parked : /\ mem' = [mem EXCEPT !.focus = parked,
                                      !.status = IF parked = None THEN "idle" ELSE "blocked"]
                        /\ parked \in Cards \cup {None}
        BY <1>20 DEF Complete, TypeInv
    <2>2. mem' \in Sessions
        BY <2>1, MoreSessions DEF TypeInv
    <2>3. sess' \in Sessions
        BY <1>20, <2>2, MoreSessions DEF Complete
    <2> QED BY <1>20, <2>2, <2>3 DEF TypeInv, Complete
<1>21. ASSUME NEW c \in Cards, CloseReview(c) PROVE TypeInv'
    <2>1. row' \in [Cards -> Rows]
        BY <1>21 DEF TypeInv, CloseReview, Rows, Phase
    <2>2. rec' \in [Workers -> Recs] /\ \A w \in Workers : Prepared(rec'[w])
        <3>1. rec' = rec \/ Closed(c)
            BY <1>21 DEF CloseReview
        <3> QED BY <3>1, IdleTyped DEF TypeInv, Closed
    <2> QED BY <1>21, <2>1, <2>2 DEF TypeInv, CloseReview
<1>22. ASSUME NEW c \in Cards, Release(c) PROVE TypeInv'
    <2>1. row' \in [Cards -> Rows]
        BY <1>22 DEF TypeInv, Release, Rows, Phase
    <2> QED BY <1>22, <2>1 DEF TypeInv, Release, Runnable
<1>23. ASSUME NEW c \in Cards, Approve(c) PROVE TypeInv'
    <2>1. row' \in [Cards -> Rows]
        BY <1>23 DEF TypeInv, Approve, Rows, Phase
    <2>2. rec' \in [Workers -> Recs] /\ \A w \in Workers : Prepared(rec'[w])
        BY <1>23, IdleTyped DEF TypeInv, Approve, Closed
    <2> QED BY <1>23, <2>1, <2>2 DEF TypeInv, Approve
<1>24. ASSUME NEW c \in Cards, Return(c) PROVE TypeInv'
    <2>1. row' \in [Cards -> Rows]
        BY <1>24 DEF TypeInv, Return, Rows, Phase
    <2> QED BY <1>24, <2>1 DEF TypeInv, Return, Runnable
<1>25. ASSUME NEW c \in Cards, Withdraw(c) PROVE TypeInv'
    <2>1. row' \in [Cards -> Rows]
        BY <1>25 DEF TypeInv, Withdraw, Rows, Phase
    <2>2. rec' \in [Workers -> Recs] /\ \A w \in Workers : Prepared(rec'[w])
        BY <1>25, IdleTyped DEF TypeInv, Withdraw, Closed
    <2> QED BY <1>25, <2>1, <2>2 DEF TypeInv, Withdraw
<1>26. ASSUME NEW c \in Cards, Wake(c) PROVE TypeInv'
    <2>1. row' \in [Cards -> Rows]
        <3>1. row[c].claim \in {"free", "held", "copy"} /\ row[c] \in Rows
            BY DEF TypeInv, Rows
        <3> DEFINE k == IF row[c].claim = "held" THEN "copy" ELSE row[c].claim
                   new == [row[c] EXCEPT !.phase = "RUNNING", !.claim = k]
        <3>2. new \in Rows
            BY <3>1 DEF Rows, Phase
        <3>3. row' = [row EXCEPT ![c] = new]
            BY <1>26 DEF Wake, TypeInv, Rows
        <3> HIDE DEF new
        <3> QED BY <3>2, <3>3 DEF TypeInv
    <2> QED BY <1>26, <2>1 DEF TypeInv, Wake
<1>27. CASE Resume
    <2>1. row' \in [Cards -> Rows]
        <3>1. \A c \in Cards : [row[c] EXCEPT !.claim = "free"] \in Rows
            BY DEF TypeInv, Rows
        <3> QED BY <1>27, <3>1 DEF Resume, TypeInv
    <2>2. sess' \in Sessions /\ mem' \in Sessions
        BY <1>27, MoreSessions DEF Resume, TypeInv
    <2>3. rec' \in [Workers -> Recs] /\ \A w \in Workers : Prepared(rec'[w])
        BY <1>27, IdleTyped DEF Resume
    <2>4. outages' \in 0..MaxOutages
        <3>1. outages < MaxOutages /\ outages' = outages + 1 /\ outages \in 0..MaxOutages
            BY <1>27 DEF Resume, TypeInv
        <3> QED BY <3>1, RoleAssumption
    <2>5. <<>> \in Queues
        BY MoreQueues
    <2> QED BY <1>27, <2>1, <2>2, <2>3, <2>4, <2>5 DEF TypeInv, Resume, Polling
<1>28. CASE UNCHANGED vars
    BY <1>28 DEF vars, TypeInv
<1> QED
  BY <1>1, <1>2, <1>3, <1>4, <1>5, <1>6, <1>7, <1>8, <1>9, <1>10, <1>11, <1>12, <1>13, <1>14,
     <1>15, <1>16, <1>17, <1>18, <1>19, <1>20, <1>21, <1>22, <1>23, <1>24, <1>25, <1>26, <1>27,
     <1>28
     DEF Next, Loop, Coroutines, TickStep, Reconcile, HookStep, TurnStep, RunStep

(* Whatever was read when, the queues, the session and its copies keep     *)
(* their types, and every reconcile has what its next step takes.          *)
THEOREM TypesHold == Spec => []TypeInv
<1>1. Init => TypeInv
    <2> SUFFICES ASSUME Init PROVE TypeInv
        OBVIOUS
    <2>1. sess \in Sessions /\ mem \in Sessions /\ runq \in Queues
        BY MoreQueues, MoreSessions DEF Init
    <2>2. rec \in [Workers -> Recs] /\ \A w \in Workers : Prepared(rec[w])
        BY IdleTyped DEF Init
    <2>3. 0 \in 0..MaxOutages
        BY RoleAssumption
    <2>4. row \in [Cards -> Rows]
        BY DEF Init, Rows, Phase
    <2> QED BY <2>1, <2>2, <2>3, <2>4 DEF Init, TypeInv, Polling
<1>2. TypeInv /\ [Next]_vars => TypeInv'
    BY TypeStep
<1> QED BY <1>1, <1>2, PTL DEF Spec

(* The type invariant of the role's queue: the pending queue of the        *)
(* session, its copy in memory and the run queue are sequences of cards    *)
(* without repetition, whichever stale copy was saved last.                *)
THEOREM TypeCorrect == Spec => []TypeOK
<1>1. TypeInv => TypeOK
    BY DEF TypeInv, TypeOK, Recs
<1> QED BY <1>1, TypesHold, PTL
=============================================================================
