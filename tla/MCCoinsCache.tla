---------------------------- MODULE MCCoinsCache ----------------------------
(* CoinsCache for TLC: outpoints, peg-ins, coins and blocks are model values. *)
EXTENDS CoinsCache
=============================================================================
