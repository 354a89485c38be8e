-------------------------- MODULE MCCoinsRecovery --------------------------
(***************************************************************************)
(* CoinsRecovery for TLC: two branches from the genesis block.  Both        *)
(* confirm the transaction that claims the peg-in p and creates x, at        *)
(* different heights; a2 and b3 spend x, and b3 spends in the same block     *)
(* what it created.  The genesis block creates g, which b1 spends.  c2        *)
(* claims p again, on top of a1.                                             *)
(***************************************************************************)
EXTENDS CoinsRecovery

Tx(ins, pegins, outs) == [ins |-> ins, pegins |-> pegins, outs |-> outs]

MCParent == [a1 |-> "g0", a2 |-> "a1", c2 |-> "a1", b1 |-> "g0", b2 |-> "b1", b3 |-> "b2"]

MCTxs == [b \in DOMAIN MCParent \cup {"g0"} |->
    CASE b = "g0" -> <<Tx({}, {}, {"g"})>>
      [] b = "a1" -> <<Tx({}, {"p"}, {"x"})>>
      [] b = "a2" -> <<Tx({"x"}, {}, {"y"})>>
      [] b = "c2" -> <<Tx({}, {"p"}, {})>>
      [] b = "b1" -> <<Tx({"g"}, {}, {})>>
      [] b = "b2" -> <<Tx({}, {"p"}, {"x"})>>
      [] b = "b3" -> <<Tx({"x"}, {}, {"y"}), Tx({"y"}, {}, {})>>]
============================================================================
