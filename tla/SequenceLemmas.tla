---------------------------- MODULE SequenceLemmas ----------------------------
(***************************************************************************)
(* What the proofs about sequences need: induction up to n, as a property  *)
(* of a set of numbers; that a function on 0..n exists when its value at 0 *)
(* is given and each value follows from the one before, which is how the   *)
(* modules write recursion; what the filter does; and the parts and joins  *)
(* of sequences.                                                           *)
(***************************************************************************)
EXTENDS SequenceFilter, SequencesExt, WellFoundedInduction, SequenceTheorems, TLAPS

(* What holds of 0, and of k when it holds of k - 1, holds up to n.        *)
LEMMA UpTo ==
    ASSUME NEW n \in Nat, NEW P, 0 \in P, \A k \in 1..n : k - 1 \in P => k \in P
    PROVE  0..n \subseteq P
<1> DEFINE D == (0..n) \ P
           R == OpToRel(<, Nat)
<1> SUFFICES ASSUME D # {} PROVE FALSE
    OBVIOUS
<1>1. D \subseteq Nat
    OBVIOUS
<1>2. PICK d \in D : \A e \in D : ~ (<<e, d>> \in R)
    <2> HIDE DEF D, R
    <2> QED BY <1>1, WFMin, NatLessThanWellFounded DEF R
<1>3. d \in 1..n /\ d - 1 \in 0..n
    OBVIOUS
<1>4. d - 1 \notin D
    <2> SUFFICES ASSUME d - 1 \in D PROVE FALSE
        OBVIOUS
    <2>1. d - 1 \in Nat /\ d \in Nat /\ d - 1 < d
        BY <1>3
    <2>2. <<d - 1, d>> \in R
        BY <2>1 DEF OpToRel
    <2> QED BY <1>2, <2>2
<1>5. d - 1 \in P
    BY <1>3, <1>4
<1> QED BY <1>2, <1>3, <1>5

(* What the first value satisfies and each value hands on, all satisfy.    *)
LEMMA FoldStays ==
    ASSUME NEW n \in Nat, NEW X, NEW f, f[0] \in X,
           \A k \in 1..n : f[k - 1] \in X => f[k] \in X
    PROVE  \A k \in 0..n : f[k] \in X
<1> DEFINE P == {k \in 0..n : f[k] \in X}
<1>1. 0 \in P
    OBVIOUS
<1>2. ASSUME NEW k \in 1..n, k - 1 \in P PROVE k \in P
    BY <1>2
<1>3. 0..n \subseteq P
    <2> HIDE DEF P
    <2> QED BY <1>1, <1>2, UpTo
<1> QED BY <1>3

(* The values h[1][x0], h[2][h[1][x0]], ... make a function on 0..n.       *)
IsFold(g, X, x0, n, h) ==
    /\ g \in [0..n -> X] /\ g[0] = x0
    /\ \A k \in 1..n : g[k] = h[k][g[k - 1]]

(* A fold exists, and the recursive function is it.                        *)
LEMMA FoldExists ==
    \A X, x0, n, h :
        x0 \in X /\ n \in Nat /\ h \in [1..n -> [X -> X]] => \E g : IsFold(g, X, x0, n, h)
<1> SUFFICES ASSUME NEW X, NEW x0, NEW n, NEW h,
                    x0 \in X, n \in Nat, h \in [1..n -> [X -> X]]
             PROVE  \E g : IsFold(g, X, x0, n, h)
    OBVIOUS
<1> DEFINE P == {m \in 0..n : \E g : IsFold(g, X, x0, m, h)}
<1>1. 0 \in P
    <2>1. IsFold([k \in 0..0 |-> x0], X, x0, 0, h)
        BY DEF IsFold
    <2> QED BY <2>1
<1>2. ASSUME NEW m \in 1..n, m - 1 \in P PROVE m \in P
    <2>1. PICK g : IsFold(g, X, x0, m - 1, h)
        BY <1>2
    <2> DEFINE y == h[m][g[m - 1]]
               e == [k \in 0..m |-> IF k = m THEN y ELSE g[k]]
    <2>2. g[m - 1] \in X /\ g \in [0..m - 1 -> X] /\ g[0] = x0
        BY <2>1 DEF IsFold
    <2>3. y \in X
        BY <2>2
    <2>4. e \in [0..m -> X] /\ e[0] = x0
        BY <2>2, <2>3
    <2>5. ASSUME NEW k \in 1..m PROVE e[k] = h[k][e[k - 1]]
        <3>1. k - 1 \in 0..m /\ k - 1 # m /\ k \in 0..m
            OBVIOUS
        <3>2. e[k - 1] = g[k - 1]
            BY <3>1
        <3>3. CASE k = m
            BY <3>1, <3>2, <3>3
        <3>4. CASE k # m
            <4>1. k \in 1..m - 1 /\ e[k] = g[k]
                BY <3>1, <3>4
            <4> HIDE DEF e
            <4> QED BY <2>1, <3>2, <4>1 DEF IsFold
        <3> QED BY <3>3, <3>4
    <2>6. IsFold(e, X, x0, m, h)
        <3> HIDE DEF e
        <3> QED BY <2>4, <2>5 DEF IsFold
    <2> QED BY <2>6
<1>3. 0..n \subseteq P
    <2> HIDE DEF P
    <2> QED BY <1>1, <1>2, UpTo
<1>4. n \in P
    BY <1>3
<1> QED BY <1>4

(* The filter follows its defining equation.                               *)
LEMMA KeptFold ==
    ASSUME NEW T, NEW q \in Seq(T), NEW S
    PROVE  \E g \in [0..Len(q) -> Seq(T)] :
              /\ g[0] = <<>> /\ Kept(q, S) = g[Len(q)]
              /\ \A k \in 1..Len(q) :
                    g[k] = IF q[k] \in S THEN Append(g[k - 1], q[k]) ELSE g[k - 1]
<1> DEFINE n == Len(q)
           X == Seq(T)
           x0 == <<>>
           h == [k \in 1..n |-> [x \in Seq(T) |-> IF q[k] \in S THEN Append(x, q[k]) ELSE x]]
           B(f) == [k \in 0..n |-> IF k = 0 THEN <<>>
                                   ELSE IF q[k] \in S THEN Append(f[k - 1], q[k]) ELSE f[k - 1]]
           f == CHOOSE f : f = B(f)
<1>1. h \in [1..n -> [Seq(T) -> Seq(T)]]
    OBVIOUS
<1>2. n \in Nat /\ <<>> \in Seq(T)
    OBVIOUS
<1>3. PICK g \in [0..n -> Seq(T)] :
          /\ g[0] = <<>>
          /\ \A k \in 1..n : g[k] = h[k][g[k - 1]]
    <2>1. h \in [1..n -> [X -> X]] /\ n \in Nat /\ x0 \in X
        BY <1>1, <1>2
    <2>2. \E g : IsFold(g, X, x0, n, h)
        <3> HIDE DEF h, n, X, x0, B, f
        <3> QED BY <2>1, FoldExists
    <2> QED BY <2>2 DEF IsFold
<1>4. ASSUME NEW k \in 1..n
      PROVE  g[k] = IF q[k] \in S THEN Append(g[k - 1], q[k]) ELSE g[k - 1]
    <2>1. g[k - 1] \in Seq(T)
        OBVIOUS
    <2>2. h[k][g[k - 1]] = IF q[k] \in S THEN Append(g[k - 1], q[k]) ELSE g[k - 1]
        BY <2>1
    <2> QED BY <1>3, <2>2
<1>5. g = B(g)
    <2>1. ASSUME NEW k \in 0..n PROVE g[k] = B(g)[k]
        <3>1. CASE k = 0
            BY <1>3, <3>1
        <3>2. CASE k # 0
            <4>1. k \in 1..n
                BY <3>2
            <4> QED BY <1>4, <3>2, <4>1
        <3> QED BY <3>1, <3>2
    <2> QED BY <2>1
<1>6. f = B(f)
    BY <1>5
<1>7. Kept(q, S) = f[n]
    BY DEF Kept
<1>8. f[0] = <<>>
    <2>1. B(f)[0] = <<>>
        <3> HIDE DEF f
        <3> QED BY <1>2
    <2> QED BY <1>6, <2>1
<1>9. ASSUME NEW k \in 1..n
      PROVE  f[k] = IF q[k] \in S THEN Append(f[k - 1], q[k]) ELSE f[k - 1]
    <2>1. B(f)[k] = IF q[k] \in S THEN Append(f[k - 1], q[k]) ELSE f[k - 1]
        <3> HIDE DEF f
        <3> QED OBVIOUS
    <2> QED BY <1>6, <2>1
<1>10. 0..n \subseteq {k \in 0..n : f[k] = g[k]}
    <2> DEFINE P == {k \in 0..n : f[k] = g[k]}
    <2>1. 0 \in P
        <3> HIDE DEF f
        <3> QED BY <1>2, <1>3, <1>8
    <2>2. ASSUME NEW k \in 1..n, k - 1 \in P PROVE k \in P
        <3>1. f[k - 1] = g[k - 1]
            BY <2>2
        <3> HIDE DEF f
        <3> QED BY <1>4, <1>9, <3>1
    <2> HIDE DEF P
    <2>3. 0..n \subseteq P
        BY <1>2, <2>1, <2>2, UpTo
    <2> QED BY <2>3 DEF P
<1>11. Kept(q, S) = g[n]
    <2> HIDE DEF f
    <2> QED BY <1>2, <1>7, <1>10
<1> HIDE DEF n, h, B, f
<1>12. \A k \in 1..n : g[k] = IF q[k] \in S THEN Append(g[k - 1], q[k]) ELSE g[k - 1]
    BY <1>4
<1> QED BY <1>3, <1>11, <1>12 DEF n

(* The least of a set of indices is one of them.                           *)
LEMMA MinIsMember ==
    ASSUME NEW S \in SUBSET Nat, S # {} PROVE Min(S) \in S /\ \A k \in S : Min(S) <= k
<1> DEFINE R == OpToRel(<, Nat)
<1>1. PICK d \in S : \A e \in S : ~ (<<e, d>> \in R)
    <2> HIDE DEF R
    <2> QED BY WFMin, NatLessThanWellFounded DEF R
<1>2. \A e \in S : d <= e
    <2> SUFFICES ASSUME NEW e \in S, e < d PROVE FALSE
        OBVIOUS
    <2> QED BY <1>1 DEF OpToRel
<1> QED BY <1>1, <1>2 DEF Min

(* The greatest of a set of indices is one of them.                        *)
LEMMA MaxIsMember ==
    ASSUME NEW n \in Nat, NEW S \in SUBSET (1..n), S # {} PROVE Max(S) \in S
<1> DEFINE D == {n - k : k \in S}
<1>1. D \in SUBSET Nat /\ D # {}
    <2>1. \A k \in 1..n : n - k \in Nat
        OBVIOUS
    <2>2. \A k \in S : n - k \in Nat
        BY <2>1
    <2>3. PICK k : k \in S
        OBVIOUS
    <2> QED BY <2>2, <2>3
<1>2. Min(D) \in D /\ \A e \in D : Min(D) <= e
    <2> HIDE DEF D
    <2> QED BY <1>1, MinIsMember
<1>3. PICK d \in S : Min(D) = n - d
    BY <1>2
<1>4. \A k \in S : d >= k
    <2> TAKE k \in S
    <2>1. n - d <= n - k
        BY <1>2, <1>3
    <2> QED BY <2>1
<1> QED BY <1>4 DEF Max

(* Parts of sequences are sequences of the same things.                    *)
LEMMA PartIsSeq ==
    ASSUME NEW T, NEW s \in Seq(T), NEW a \in Nat \ {0}, NEW b \in Int, b <= Len(s)
    PROVE  SubSeq(s, a, b) \in Seq(T)
<1>1. \A i \in a..b : s[i] \in T
    <2> TAKE i \in a..b
    <2>1. i \in 1..Len(s)
        OBVIOUS
    <2> QED BY <2>1, ElementOfSeq
<1>2. a \in Int
    OBVIOUS
<1> QED BY <1>1, <1>2, SubSeqProperties

(* Two sequences with an entry between them.                               *)
LEMMA JoinIsSeq ==
    ASSUME NEW T, NEW s \in Seq(T), NEW x \in T, NEW t \in Seq(T)
    PROVE  s \o <<x>> \o t \in Seq(T) /\ s \o <<x>> \o t # <<>>
<1>1. <<x>> \in Seq(T) /\ Len(<<x>>) = 1
    OBVIOUS
<1>2. s \o <<x>> \in Seq(T) /\ Len(s \o <<x>>) = Len(s) + 1
    BY <1>1, ConcatProperties
<1>3. s \o <<x>> \o t \in Seq(T) /\ Len(s \o <<x>> \o t) = Len(s) + 1 + Len(t)
    BY <1>2, ConcatProperties
<1>4. Len(s) \in Nat /\ Len(t) \in Nat
    OBVIOUS
<1>5. Len(s \o <<x>> \o t) # 0
    BY <1>3, <1>4
<1> QED BY <1>3, <1>5, EmptySeq

(* Two sequences, one behind the other.                                    *)
LEMMA JoinParts ==
    ASSUME NEW T, NEW a \in Seq(T), NEW c \in Seq(T)
    PROVE  /\ Len(a \o c) = Len(a) + Len(c)
           /\ \A j \in 1..Len(a) : (a \o c)[j] = a[j]
           /\ \A i \in 1..Len(c) : (a \o c)[Len(a) + i] = c[i]
           /\ ToSet(a \o c) = ToSet(a) \cup ToSet(c)
<1> DEFINE r == a \o c
<1>1. /\ Len(a) \in Nat /\ DOMAIN a = 1..Len(a) /\ Len(c) \in Nat /\ DOMAIN c = 1..Len(c)
      /\ r \in Seq(T) /\ Len(r) = Len(a) + Len(c) /\ DOMAIN r = 1..Len(r)
      /\ \A i \in 1..Len(a) + Len(c) : r[i] = IF i <= Len(a) THEN a[i] ELSE c[i - Len(a)]
    BY ConcatProperties, LenProperties
<1> HIDE DEF r
<1>2. \A j \in 1..Len(a) : j \in DOMAIN r /\ r[j] = a[j]
    BY <1>1
<1>3. \A i \in 1..Len(c) : Len(a) + i \in DOMAIN r /\ r[Len(a) + i] = c[i]
    <2> TAKE i \in 1..Len(c)
    <2>1. Len(a) + i \in 1..Len(a) + Len(c) /\ ~(Len(a) + i <= Len(a)) /\ (Len(a) + i) - Len(a) = i
        BY <1>1
    <2> QED BY <1>1, <2>1
<1>4. ASSUME NEW j \in DOMAIN r PROVE r[j] \in ToSet(a) \cup ToSet(c)
    <2>1. CASE j <= Len(a)
        <3>1. j \in DOMAIN a /\ r[j] = a[j]
            BY <1>1, <2>1
        <3> QED BY <3>1 DEF ToSet
    <2>2. CASE ~(j <= Len(a))
        <3>1. j - Len(a) \in DOMAIN c /\ r[j] = c[j - Len(a)]
            BY <1>1, <2>2
        <3> QED BY <3>1 DEF ToSet
    <2> QED BY <2>1, <2>2
<1>5. ToSet(r) = ToSet(a) \cup ToSet(c)
    <2>1. ToSet(r) \subseteq ToSet(a) \cup ToSet(c)
        <3> SUFFICES ASSUME NEW y \in ToSet(r) PROVE y \in ToSet(a) \cup ToSet(c)
            OBVIOUS
        <3>1. PICK j \in DOMAIN r : y = r[j]
            BY DEF ToSet
        <3> QED BY <1>4, <3>1
    <2>2. ToSet(a) \subseteq ToSet(r)
        BY <1>1, <1>2 DEF ToSet
    <2>3. ToSet(c) \subseteq ToSet(r)
        <3> SUFFICES ASSUME NEW y \in ToSet(c) PROVE y \in ToSet(r)
            OBVIOUS
        <3>1. PICK i \in DOMAIN c : y = c[i]
            BY DEF ToSet
        <3>2. Len(a) + i \in DOMAIN r /\ r[Len(a) + i] = y
            BY <1>1, <1>3, <3>1
        <3> QED BY <3>2 DEF ToSet
    <2> QED BY <2>1, <2>2, <2>3
<1> QED BY <1>1, <1>2, <1>3, <1>5 DEF r

(* One thing more in a sequence.                                           *)
LEMMA AppendedSet ==
    ASSUME NEW T, NEW s \in Seq(T), NEW x \in T
    PROVE  ToSet(Append(s, x)) = ToSet(s) \cup {x}
<1> DEFINE w == <<x>>
<1>1. w \in Seq(T) /\ Append(s, x) = s \o w /\ Len(w) = 1 /\ w[1] = x
    OBVIOUS
<1> HIDE DEF w
<1>2. DOMAIN w = 1..1
    BY <1>1, LenProperties
<1>3. ToSet(w) = {x}
    BY <1>1, <1>2 DEF ToSet
<1> QED BY <1>1, <1>3, JoinParts

(* What is kept of a sequence is a sequence of the same things.            *)
LEMMA KeptIsSeq ==
    ASSUME NEW T, NEW q \in Seq(T), NEW S PROVE Kept(q, S) \in Seq(T)
<1>1. PICK g \in [0..Len(q) -> Seq(T)] : Kept(q, S) = g[Len(q)]
    BY KeptFold
<1>2. Len(q) \in 0..Len(q)
    BY LenProperties
<1> QED BY <1>1, <1>2
=============================================================================
