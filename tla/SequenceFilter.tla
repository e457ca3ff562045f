---------------------------- MODULE SequenceFilter ----------------------------
(* Filtering a sequence by a set, as a recursive function.                 *)
EXTENDS Integers, Sequences

(* The entries of q that are in S, in the order they have in q.            *)
Kept(q, S) ==
    LET f[n \in 0..Len(q)] == IF n = 0 THEN <<>>
                              ELSE IF q[n] \in S THEN Append(f[n - 1], q[n])
                              ELSE f[n - 1]
    IN  f[Len(q)]
=============================================================================
