----------------------------- MODULE CoinsView -----------------------------
(***************************************************************************)
(* What the stack of coins views promises its callers: one map from keys   *)
(* to values with its best block (the state the node is at), and at most   *)
(* one transaction on it, which is either committed as a whole or dropped. *)
(* Caching, dirty and fresh flags and the coins database do not appear.    *)
(* A key is an outpoint of this chain, whose value is a coin or Null once  *)
(* spent, or a peg-in (a parent-chain outpoint), whose value is Claimed    *)
(* once it was spent here and Null before.                                 *)
(***************************************************************************)
CONSTANTS
    Outpoint,   \* outpoints of this chain
    Pegin,      \* (parent genesis hash, parent outpoint) pairs
    Coin,       \* unspent outputs with their metadata
    Block,      \* block hashes
    Claimed,    \* the value of a peg-in that was claimed
    Null,       \* the value of a key nothing is recorded for
    NoView      \* no transaction is open

VARIABLES
    coins,      \* the committed map
    best,       \* the block the committed map is the state after
    work,       \* the map as the open transaction sees it, or NoView
    workBest    \* the best block the open transaction set

abstractVars == <<coins, best, work, workBest>>

Key == Outpoint \cup Pegin

Values(k) == IF k \in Outpoint THEN Coin \cup {Null} ELSE {Claimed, Null}

CoinsMap == {m \in [Key -> Coin \cup {Claimed, Null}] : \A k \in Key : m[k] \in Values(k)}

AbstractInit ==
    /\ coins \in CoinsMap
    /\ best \in Block
    /\ work = NoView
    /\ workBest = best

Begin ==
    /\ work = NoView
    /\ work' = coins
    /\ workBest' = best
    /\ UNCHANGED <<coins, best>>

Put(k, v) ==
    /\ work # NoView
    /\ work' = [work EXCEPT ![k] = v]
    /\ UNCHANGED <<coins, best, workBest>>

MoveBest(b) ==
    /\ work # NoView
    /\ workBest' = b
    /\ UNCHANGED <<coins, best, work>>

Commit ==
    /\ work # NoView
    /\ coins' = work
    /\ best' = workBest
    /\ work' = NoView
    /\ UNCHANGED workBest

Drop ==
    /\ work # NoView
    /\ work' = NoView
    /\ workBest' = best
    /\ UNCHANGED <<coins, best>>

AbstractNext ==
    \/ Begin
    \/ \E k \in Key : \E v \in Values(k) : Put(k, v)
    \/ \E b \in Block : MoveBest(b)
    \/ Commit
    \/ Drop

AbstractSpec == AbstractInit /\ [][AbstractNext]_abstractVars
============================================================================
