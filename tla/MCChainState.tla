---------------------------- MODULE MCChainState ----------------------------
(***************************************************************************)
(* ChainState for TLC: a branch a1, and a branch b1-b2 that forks again    *)
(* into b3 and c3.  The pointer order is neither the order of heights nor  *)
(* that of names.                                                          *)
(***************************************************************************)
EXTENDS ChainState

Tree == [a1 |-> "g0", b1 |-> "g0", b2 |-> "b1", b3 |-> "b2", c3 |-> "b2"]

Pointers == [g0 |-> 0, a1 |-> 3, b1 |-> 1, b2 |-> 5, b3 |-> 4, c3 |-> 2]
=============================================================================
