---------------------------- MODULE MCFilterIndex ----------------------------
(***************************************************************************)
(* FilterIndex for TLC: a genesis block and two branches of two blocks.    *)
(***************************************************************************)
EXTENDS FilterIndex, TLC

CONSTANTS g, a1, a2, b1, b2

MCParent == a1 :> g @@ a2 :> a1 @@ b1 :> g @@ b2 :> b1
MCStarted == {None, a1}
==============================================================================
