------------------------ MODULE MCDependencyFrontier ------------------------
EXTENDS DependencyFrontier, TLC

(* Board 1: a top manager (1) that may delegate two workers (2, 3).        *)
MCCrew == [i \in Cards |-> IF i = 1 THEN Cards \ {1} ELSE {}]
MCNoDelivery == [i \in IntakeCards |-> {}]

(* Passes are interchangeable in the safety runs.                          *)
PassSymmetry == Permutations(Passes)

(* Board 2: an intake (1), its workers (2, 3) and its delivery card (4).   *)
MCIntakeCrew == [i \in Cards |-> IF i = 1 THEN {2, 3} ELSE {}]
MCDelivery == [i \in IntakeCards |-> Cards \ (1..3)]
=============================================================================
