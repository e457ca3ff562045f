-------------------------- MODULE MCRoleSerialQueue --------------------------
(* A role with a work card and a review card, for TLC.                     *)
EXTENDS RoleSerialQueue
=============================================================================
