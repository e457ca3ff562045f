-------------------------- MODULE MCActiveTaskRuns --------------------------
(***************************************************************************)
(* The instances of ActiveTaskRuns that TLC checks: two Continue messages  *)
(* that race for one scope, or one message for each of two scopes.         *)
(***************************************************************************)
EXTENDS ActiveTaskRuns, TLC

CONSTANTS r1, r2, a, b

RacingRequests == r1 :> a @@ r2 :> a
SeparateRequests == r1 :> a @@ r2 :> b

=============================================================================
