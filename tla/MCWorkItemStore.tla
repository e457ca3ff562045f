---------------------------- MODULE MCWorkItemStore ----------------------------
EXTENDS WorkItemStore, TLC

CONSTANTS c1, c2, c3, a, b

(* The calls are interchangeable.                                          *)
Symmetry == Permutations(Calls)
=============================================================================
