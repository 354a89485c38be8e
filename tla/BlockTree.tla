----------------------------- MODULE BlockTree -----------------------------
(***************************************************************************)
(* The tree that the block headers form through pprev: the height of a     *)
(* block, the chain that ends in it, and the fork of two chains.           *)
(***************************************************************************)
EXTENDS Integers

CONSTANTS
    Genesis,
    Parent          \* pprev of every other block

Block == DOMAIN Parent \cup {Genesis}

(* A header names a parent that is already there, so every set of blocks    *)
(* has one that came before its children.                                   *)
ASSUME TreeAssumption ==
    /\ \A b \in Block \ {Genesis} : Parent[b] \in Block
    /\ \A S \in SUBSET Block : S # {} => \E b \in S : b = Genesis \/ Parent[b] \notin S

Height[b \in Block] == IF b = Genesis THEN 0 ELSE Height[Parent[b]] + 1

(* The chain that ends in b, as a set. *)
Ancestors[b \in Block] == {b} \cup (IF b = Genesis THEN {} ELSE Ancestors[Parent[b]])

Highest(S) == CHOOSE b \in S : \A c \in S : Height[c] <= Height[b]
Fork(a, b) == Highest(Ancestors[a] \cap Ancestors[b])
=============================================================================
