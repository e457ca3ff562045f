---------------------------- MODULE MCNativeTurn ----------------------------
(* One task whose turn is resumed, for TLC.                                *)
EXTENDS NativeTurn
=============================================================================
