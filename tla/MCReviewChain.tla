---------------------------- MODULE MCReviewChain ----------------------------
(* One delivered card, and the tasks of its manager's seat, for TLC.       *)
EXTENDS ReviewChain

CONSTANTS t1
=============================================================================
