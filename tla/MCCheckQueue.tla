---------------------------- MODULE MCCheckQueue ----------------------------
(***************************************************************************)
(* CheckQueue for TLC: two workers and the master share the checks of any  *)
(* number of blocks.                                                       *)
(***************************************************************************)
EXTENDS CheckQueue

=============================================================================
