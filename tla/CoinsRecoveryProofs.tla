------------------------ MODULE CoinsRecoveryProofs ------------------------
(***************************************************************************)
(* CoinsRecovery for every block tree, every content of its blocks and any *)
(* number of crashes: the coins of two chains that an interrupted flush    *)
(* left mixed are those of the new chain after the replay, the node starts *)
(* again unless the interrupted flush had pruned what the replay reads,    *)
(* and no header is lost.                                                  *)
(***************************************************************************)
EXTENDS CoinsRecovery, BlockTreeProofs, WellFoundedInduction

(* A non-empty set of natural numbers has a least element. *)
LEMMA NatMinimum ==
    ASSUME NEW S \in SUBSET Nat, S # {}
    PROVE  \E x \in S : \A y \in S : x <= y
<1>1. PICK x \in S : \A y \in S : ~(<<y, x>> \in OpToRel(<, Nat))
  BY NatLessThanWellFounded, WFMin
<1>2. ASSUME NEW y \in S PROVE x <= y
  <2>1. ASSUME y < x PROVE <<y, x>> \in OpToRel(<, Nat)
    BY <2>1 DEF OpToRel
  <2>2. ~(y < x)
    BY <1>1, <2>1
  <2> QED BY <2>2
<1> QED BY <1>2

(* Highest finds a highest block if the heights are bounded. *)
LEMMA HighestExists ==
    ASSUME NEW S \in SUBSET Block, S # {},
           NEW n \in Nat, \A c \in S : Height[c] <= n
    PROVE  Highest(S) \in S /\ \A c \in S : Height[c] <= Height[Highest(S)]
<1> DEFINE D == {n - Height[c] : c \in S}
<1>1. \A c \in S : Height[c] \in Nat
  BY HeightUnfold
<1>2. D \in SUBSET Nat /\ D # {}
  BY <1>1
<1> HIDE DEF D
<1>3. PICK x \in D : \A y \in D : x <= y
  BY <1>2, NatMinimum
<1>4. PICK b \in S : x = n - Height[b]
  BY DEF D
<1>5. ASSUME NEW c \in S PROVE Height[c] <= Height[b]
  <2>1. n - Height[b] <= n - Height[c]
    BY <1>3, <1>4 DEF D
  <2> QED BY <1>1, <2>1
<1> QED BY <1>5 DEF Highest

Coins(b) == IF b = Null THEN Empty ELSE StateAt[b]

Excused(o, v) == skipped /\ o \in GenesisOutputs /\ v = Null

(* Coins of the old chain and of the new one. *)
Mixed(m, old, new) ==
    /\ \A o \in Outpoint : m[o] \in {Coins(old)[o], Coins(new)[o]} \/ Excused(o, m[o])
    /\ \A p \in Pegin : m[p] = Claimed => Coins(old)[p] = Claimed \/ Coins(new)[p] = Claimed

(* What block c creates was not there before it. *)
Fresh(c) ==
    \A i \in 1..Len(Txs[c]) : \A k \in Txs[c][i].outs :
        StateAt[Parent[c]][k] = Null \/ (skipped /\ k \in GenesisOutputs)

(* What block c spends was there, and what it claims was not claimed. *)
Legal(c) ==
    \A i \in 1..Len(Txs[c]) :
        /\ \A k \in Txs[c][i].ins : UpdateCoins(StateAt[Parent[c]], c, i - 1)[k] # Null
        /\ \A k \in Txs[c][i].pegins : UpdateCoins(StateAt[Parent[c]], c, i - 1)[k] # Claimed

FreshChain(b) == b # Null => \A c \in Ancestors[b] \ {Genesis} : Fresh(c) /\ (Legal(c) \/ unclaimed)

Flushing == phase \in {"flush", "stop", "replay"}

CoinsInv ==
    /\ phase = "run" \/ Flushing => CoinsOf(mem, tip)
    /\ phase \in {"run", "load"} => heads = <<>>
    /\ phase = "replay" => heads # <<>>
    /\ Flushing => /\ tip # Null
                   /\ heads # <<>> => heads[1] = tip
                   /\ \A k \in Key \ todo : db[k] = mem[k]
    /\ heads = <<>> => CoinsOf(db, dbBest)
    /\ heads # <<>> => dbBest = Null /\ Mixed(db, heads[2], heads[1])
    /\ FreshChain(tip) /\ FreshChain(dbBest)
    /\ heads # <<>> => FreshChain(heads[1]) /\ FreshChain(heads[2])

(* The block index: on disk, and with what is still to be written, it holds *)
(* the parent of every block.                                               *)
IndexInv ==
    /\ Genesis \in indexed /\ Closed(indexed) /\ Closed(indexed \cup dirty)
    /\ known \subseteq indexed \cup dirty /\ best \in indexed \cup dirty
    /\ indexed \subseteq whole
    /\ tip \in indexed \cup dirty \cup {Null}
    /\ Flushing => tip \in indexed
    /\ phase \in {"down", "load", "failed"} => tip = Null
    /\ phase \in {"down", "replay", "load", "failed"} => known \subseteq indexed
    /\ dbBest \in indexed \cup {Null}
    /\ heads # <<>> => heads[1] \in indexed /\ heads[2] \in indexed \cup {Null}

(* What a replay would read is there. *)
ReplayInv ==
    /\ phase = "run" => ReplayReads(dbBest, tip) \subseteq known /\ (tip = Null => dbBest = Null)
    /\ phase \in {"flush", "stop"} => ReplayReads(OldTip, tip) \subseteq stored \/ exposed
    /\ heads # <<>> => ReplayReads(heads[2], heads[1]) \subseteq stored \/ exposed
    /\ phase = "failed" => exposed \/ unclaimed

IndInv == TypeOK /\ CoinsInv /\ IndexInv /\ ReplayInv
-----------------------------------------------------------------------------
(* Transactions, blocks and coins *)

Value == Nat \cup {Claimed, Null}

LEMMA TxsType ==
    ASSUME NEW b \in Block
    PROVE  /\ Len(Txs[b]) \in Nat
           /\ \A i \in 1..Len(Txs[b]) : /\ Txs[b][i].ins \subseteq Outpoint
                                        /\ Txs[b][i].outs \subseteq Outpoint
                                        /\ Txs[b][i].pegins \subseteq Pegin
<1> DEFINE Tx == [ins : SUBSET Outpoint, pegins : SUBSET Pegin, outs : SUBSET Outpoint]
<1>1. Txs[b] \in Seq(Tx)
  BY ZenonT(30), CoinsAssumption
<1> HIDE DEF Tx
<1>2. Len(Txs[b]) \in Nat /\ \A i \in 1..Len(Txs[b]) : Txs[b][i] \in Tx
  BY <1>1
<1> QED BY <1>2 DEF Tx

LEMMA MaxIn ==
    ASSUME NEW n \in Nat, NEW S \in SUBSET (1..n), S # {}
    PROVE  Max(S) \in S /\ \A i \in S : i <= Max(S)
<1> DEFINE D == {n - i : i \in S}
<1>0. \A i \in S : i \in Nat /\ n - i \in Nat
  OBVIOUS
<1>1. D \in SUBSET Nat /\ D # {}
  BY ZenonT(30), <1>0
<1>2. PICK d \in D : \A e \in D : d <= e
  BY ZenonT(30), <1>1, NatMinimum
<1>3. PICK x \in S : d = n - x
  OBVIOUS
<1>4. ASSUME NEW i \in S PROVE x >= i
  <2>1. n - i \in D
    OBVIOUS
  <2>2. n - x <= n - i
    BY <1>2, <1>3, <2>1
  <2> QED BY <1>0, <2>2
<1>5. \E y \in S : \A i \in S : y >= i
  BY <1>4
<1>6. Max(S) \in S /\ \A i \in S : Max(S) >= i
  BY <1>5, Zenon DEF Max
<1> QED BY <1>6

LEMMA MinIn ==
    ASSUME NEW n \in Nat, NEW S \in SUBSET (1..n), S # {}
    PROVE  Min(S) \in S /\ \A i \in S : Min(S) <= i
<1>1. S \in SUBSET Nat
  OBVIOUS
<1>2. \E x \in S : \A i \in S : x <= i
  BY <1>1, NatMinimum
<1> QED BY <1>2, Zenon DEF Min

(* The transactions of b that touch k, and the coin that the last leaves. *)
TxsOf(b, k) == {i \in 1..Len(Txs[b]) : k \in Touched(Txs[b][i])}
Put(b, k) == UpdatedCoin(Txs[b][Max(TxsOf(b, k))], Height[b], k)

LEMMA WritesTxs == ASSUME NEW b, NEW k PROVE k \in Writes(b) <=> TxsOf(b, k) # {}
BY DEF Writes, TxsOf

LEMMA PutType ==
    ASSUME NEW b \in Block, NEW k \in Key, k \in Writes(b)
    PROVE  /\ Put(b, k) \in Value
           /\ k \in Pegin => Put(b, k) = Claimed
           /\ k \in Outpoint => Put(b, k) \in Nat \cup {Null}
           /\ k \in Outpoint \ UNION {Txs[b][i].outs : i \in 1..Len(Txs[b])} => Put(b, k) = Null
<1> DEFINE T == TxsOf(b, k)
           x == Max(T)
<1>1. T \in SUBSET (1..Len(Txs[b])) /\ T # {} /\ Len(Txs[b]) \in Nat
  BY WritesTxs, TxsType DEF TxsOf
<1>2. x \in T
  BY Zenon, <1>1, MaxIn
<1>3. x \in 1..Len(Txs[b]) /\ k \in Touched(Txs[b][x])
  BY <1>2 DEF TxsOf
<1>4. Height[b] \in Nat
  BY HeightUnfold
<1>5. /\ Txs[b][x].ins \subseteq Outpoint /\ Txs[b][x].outs \subseteq Outpoint
      /\ Txs[b][x].pegins \subseteq Pegin
  BY <1>3, TxsType
<1>6. Put(b, k) = IF k \in Txs[b][x].outs THEN Height[b] ELSE IF k \in Txs[b][x].ins THEN Null ELSE Claimed
  BY DEF Put, UpdatedCoin
<1> HIDE DEF x
<1> QED BY <1>3, <1>4, <1>5, <1>6, CoinsAssumption DEF Touched, Value, Key

(* ConnectBlock writes what the block writes. *)
Effective(b) == b # Genesis \/ ConnectGenesisOutputs

LEMMA ConnectPuts ==
    ASSUME NEW b \in Block, NEW m, NEW k \in Key
    PROVE  ConnectBlock(m, b)[k] =
               IF Effective(b) /\ k \in Writes(b) THEN Put(b, k) ELSE m[k]
<1>1. CASE ~Effective(b)
  BY <1>1 DEF Effective, ConnectBlock
<1>2. CASE Effective(b)
  <2>1. ConnectBlock(m, b) = UpdateCoins(m, b, Len(Txs[b]))
    BY <1>2 DEF Effective, ConnectBlock
  <2>2. UpdateCoins(m, b, Len(Txs[b]))[k] = IF TxsOf(b, k) = {} THEN m[k] ELSE Put(b, k)
    BY DEF UpdateCoins, TxsOf, Put
  <2> QED BY <1>2, <2>1, <2>2, WritesTxs
<1> QED BY <1>1, <1>2

LEMMA RollforwardPuts ==
    ASSUME NEW b \in Block, NEW m, NEW k \in Outpoint, k \in Writes(b)
    PROVE  RollforwardBlock(m, b)[k] = Put(b, k)
<1>1. k \in Key /\ k \notin Pegin
  BY CoinsAssumption DEF Key
<1>2. {i \in 1..Len(Txs[b]) : k \in Txs[b][i].ins \cup Txs[b][i].outs} = TxsOf(b, k)
  BY <1>1, TxsType DEF TxsOf, Touched
<1>3. TxsOf(b, k) # {}
  BY WritesTxs
<1> QED BY ZenonT(30), <1>1, <1>2, <1>3 DEF RollforwardBlock, Put
-----------------------------------------------------------------------------
(* The coins of a chain: a key has what the last block that writes it put.  *)

Writers(b, k) == {a \in Ancestors[b] : Effective(a) /\ k \in Writes(a)}

Latest(b, k) == IF Writers(b, k) = {} THEN Null ELSE Put(Highest(Writers(b, k)), k)

(* A block of a set of ancestors that no other one is above is the highest. *)
LEMMA HighestIs ==
    ASSUME NEW b \in Block, NEW S \in SUBSET Ancestors[b], NEW t \in S,
           \A c \in S : Height[c] <= Height[t]
    PROVE  Highest(S) = t
<1>1. S \in SUBSET Block /\ S # {} /\ Height[b] \in Nat /\ \A c \in S : Height[c] <= Height[b]
  BY AncestorsType, AncestorsLower, HeightUnfold
<1>2. Highest(S) \in S /\ \A c \in S : Height[c] <= Height[Highest(S)]
  BY <1>1, HighestExists
<1>3. Height[Highest(S)] = Height[t]
  BY <1>1, <1>2, HeightUnfold
<1>4. Highest(S) \in Ancestors[t]
  BY <1>1, <1>2, AncestorsLinear
<1> QED BY <1>1, <1>3, <1>4, AncestorsLower

LEMMA LatestUnfold ==
    ASSUME NEW b \in Block, NEW k \in Key
    PROVE  Latest(b, k) = IF Effective(b) /\ k \in Writes(b) THEN Put(b, k)
                          ELSE IF b = Genesis THEN Null ELSE Latest(Parent[b], k)
<1>1. CASE Effective(b) /\ k \in Writes(b)
  <2>1. b \in Writers(b, k) /\ Writers(b, k) \in SUBSET Ancestors[b]
    BY <1>1, AncestorsType DEF Writers
  <2>2. \A c \in Writers(b, k) : Height[c] <= Height[b]
    BY <2>1, AncestorsLower
  <2>3. Highest(Writers(b, k)) = b
    BY <2>1, <2>2, HighestIs
  <2> QED BY <1>1, <2>1, <2>3 DEF Latest
<1>2. CASE ~(Effective(b) /\ k \in Writes(b)) /\ b = Genesis
  <2>1. Writers(b, k) = {}
    BY <1>2, AncestorsUnfold DEF Writers
  <2> QED BY <1>2, <2>1 DEF Latest
<1>3. CASE ~(Effective(b) /\ k \in Writes(b)) /\ b # Genesis
  <2>1. Writers(b, k) = Writers(Parent[b], k)
    BY <1>3, AncestorsUnfold DEF Writers
  <2> QED BY <1>3, <2>1 DEF Latest
<1> QED BY <1>1, <1>2, <1>3

LEMMA LatestType ==
    ASSUME NEW b \in Block, NEW k \in Key
    PROVE  /\ Latest(b, k) \in Value
           /\ k \in Outpoint => Latest(b, k) \in Nat \cup {Null}
<1>1. CASE Writers(b, k) = {}
  BY <1>1 DEF Latest, Value
<1>2. CASE Writers(b, k) # {}
  <2> DEFINE S == Writers(b, k)
  <2>1. S \in SUBSET Block /\ Height[b] \in Nat /\ \A c \in S : Height[c] <= Height[b]
    BY AncestorsType, AncestorsLower, HeightUnfold DEF Writers
  <2>2. Highest(S) \in S
    BY <1>2, <2>1, HighestExists
  <2>3. Highest(S) \in Block /\ k \in Writes(Highest(S))
    BY <2>1, <2>2 DEF Writers
  <2>4. Latest(b, k) = Put(Highest(S), k)
    BY <1>2 DEF Latest
  <2> QED BY <2>3, <2>4, PutType
<1> QED BY <1>1, <1>2

LEMMA ConnectType == ASSUME NEW b \in Block, NEW m \in [Key -> Value] PROVE ConnectBlock(m, b) \in [Key -> Value]
<1>1. ConnectBlock(m, b) = [k \in Key |-> ConnectBlock(m, b)[k]]
  BY Zenon DEF ConnectBlock, UpdateCoins
<1>2. \A k \in Key : ConnectBlock(m, b)[k] \in Value
  BY ConnectPuts, PutType
<1> QED BY <1>1, <1>2

LEMMA StateForm ==
    StateAt = [b \in Block |-> [k \in Key |-> Latest(b, k)]]
<1> DEFINE Def(f) == [b \in Block |-> ConnectBlock(IF b = Genesis THEN Empty ELSE f[Parent[b]], b)]
           g == [b \in Block |-> [k \in Key |-> Latest(b, k)]]
<1>1. ASSUME NEW b \in Block, NEW m, NEW k \in Key,
             m = IF b = Genesis THEN Empty ELSE g[Parent[b]]
      PROVE  ConnectBlock(m, b)[k] = Latest(b, k)
  <2>1. m[k] = IF b = Genesis THEN Null ELSE Latest(Parent[b], k)
    BY <1>1, AncestorsUnfold DEF Empty
  <2> QED BY <2>1, ConnectPuts, LatestUnfold
<1>2. ASSUME NEW b \in Block PROVE g[b] = ConnectBlock(IF b = Genesis THEN Empty ELSE g[Parent[b]], b)
  <2> DEFINE m == IF b = Genesis THEN Empty ELSE g[Parent[b]]
  <2>1. m = [k \in Key |-> m[k]]
    BY Zenon, AncestorsUnfold DEF Empty
  <2>4. m = IF b = Genesis THEN Empty ELSE g[Parent[b]]
    OBVIOUS
  <2> HIDE DEF m, g
  <2>2. ConnectBlock(m, b) = [k \in Key |-> ConnectBlock(m, b)[k]]
    BY ZenonT(30), <2>1 DEF ConnectBlock, UpdateCoins
  <2>3. \A k \in Key : ConnectBlock(m, b)[k] = Latest(b, k)
    BY <1>1, <2>4
  <2>5. g[b] = [k \in Key |-> Latest(b, k)]
    BY DEF g
  <2> QED BY <2>2, <2>3, <2>4, <2>5
<1>3. g = Def(g)
  BY ZenonT(30), <1>2
<1>4. StateAt = CHOOSE f : f = Def(f)
  BY DEF StateAt
<1> HIDE DEF Def, g
<1>5. StateAt = Def(StateAt)
  BY <1>3, <1>4
<1> DEFINE S == {b \in Block : StateAt[b] = g[b]}
<1>6. \A b \in Block : /\ StateAt[b] = ConnectBlock(IF b = Genesis THEN Empty ELSE StateAt[Parent[b]], b)
                       /\ g[b] = ConnectBlock(IF b = Genesis THEN Empty ELSE g[Parent[b]], b)
  BY <1>3, <1>5 DEF Def
<1>7. Genesis \in S
  BY <1>6, AncestorsUnfold
<1>8. \A b \in Block \ {Genesis} : Parent[b] \in S => b \in S
  BY <1>6
<1> HIDE DEF S
<1>9. Block \subseteq S
  BY <1>7, <1>8, TreeInduction
<1>10. \A b \in Block : StateAt[b] = g[b]
  BY <1>9 DEF S
<1>11. StateAt = [b \in Block |-> StateAt[b]] /\ g = [b \in Block |-> g[b]]
  BY <1>3, <1>5 DEF Def
<1>12. StateAt = g
  BY <1>10, <1>11
<1> QED BY <1>12 DEF g

LEMMA CoinsForm ==
    ASSUME NEW b \in Block, NEW k \in Key
    PROVE  /\ StateAt[b][k] = Latest(b, k) /\ Coins(b)[k] = Latest(b, k)
           /\ Coins(Null)[k] = Null
<1>1. b # Null
  BY CoinsAssumption
<1> QED BY <1>1, StateForm DEF Coins, Empty

(* A chain leaves alone what none of its last blocks writes. *)
LEMMA LatestSame ==
    ASSUME NEW b \in Block, NEW f \in Ancestors[b], NEW k \in Key,
           \A c \in Ancestors[b] \ Ancestors[f] : k \notin Writes(c)
    PROVE  Latest(b, k) = Latest(f, k)
<1>1. Writers(b, k) = Writers(f, k)
  BY AncestorsTrans DEF Writers
<1> QED BY <1>1 DEF Latest

(* A peg-in that was claimed stays claimed further up the chain. *)
LEMMA ClaimedStays ==
    ASSUME NEW b \in Block, NEW f \in Ancestors[b], NEW p \in Pegin, Latest(f, p) = Claimed
    PROVE  Latest(b, p) = Claimed
<1> DEFINE S == Writers(b, p)
<1>1. p \in Key /\ Claimed # Null
  BY CoinsAssumption DEF Key
<1>2. Writers(f, p) # {} /\ Writers(f, p) \subseteq S
  BY <1>1, AncestorsTrans DEF Latest, Writers
<1>3. S \in SUBSET Block /\ S # {} /\ Height[b] \in Nat /\ \A c \in S : Height[c] <= Height[b]
  BY <1>2, AncestorsType, AncestorsLower, HeightUnfold DEF Writers
<1>4. Highest(S) \in S
  BY <1>3, HighestExists
<1>5. Highest(S) \in Block /\ p \in Writes(Highest(S))
  BY <1>3, <1>4 DEF Writers
<1>6. Latest(b, p) = Put(Highest(S), p)
  BY <1>3 DEF Latest
<1> QED BY <1>1, <1>5, <1>6, PutType
-----------------------------------------------------------------------------
(* DisconnectBlock and ConnectBlock *)

LEMMA DisconnectKeeps ==
    ASSUME NEW b \in Block, NEW m, NEW k \in Key \ Writes(b)
    PROVE  DisconnectBlock(m, b)[k] = m[k]
<1>1. {i \in (0 + 1)..Len(Txs[b]) : k \in Touched(Txs[b][i])} = {}
  BY WritesTxs DEF TxsOf
<1> QED BY <1>1 DEF DisconnectBlock, DisconnectTxs

LEMMA DisconnectRestores ==
    ASSUME NEW b \in Block \ {Genesis}, NEW m, NEW k \in Key, k \in Writes(b)
    PROVE  /\ DisconnectBlock(m, b)[k] \in {Latest(Parent[b], k), Null}
           /\ k \in Pegin => DisconnectBlock(m, b)[k] = Null
           /\ k \in Outpoint /\ Fresh(b) =>
                  \/ DisconnectBlock(m, b)[k] = Latest(Parent[b], k)
                  \/ Excused(k, DisconnectBlock(m, b)[k])
<1> DEFINE T == TxsOf(b, k)
           n == Min(T)
           D == DisconnectBlock(m, b)
<1>1. T \in SUBSET (1..Len(Txs[b])) /\ T # {} /\ Len(Txs[b]) \in Nat
  BY WritesTxs, TxsType DEF TxsOf
<1>2. n \in T /\ \A i \in T : n <= i
  BY ZenonT(30), <1>1, MinIn
<1>3. n \in 1..Len(Txs[b]) /\ k \in Touched(Txs[b][n])
  BY <1>2 DEF TxsOf
<1>4. {i \in (0 + 1)..Len(Txs[b]) : k \in Touched(Txs[b][i])} = T
  BY DEF TxsOf
<1>5. D[k] = RestoredCoin(b, n, k)
  BY Zenon, <1>1, <1>4 DEF DisconnectBlock, DisconnectTxs
<1> HIDE DEF n, D
<1>6. {i \in 1..(n - 1) : k \in Touched(Txs[b][i])} = {}
  <2> SUFFICES ASSUME NEW i \in 1..(n - 1), k \in Touched(Txs[b][i]) PROVE FALSE
    OBVIOUS
  <2>1. i \in T
    BY <1>1, <1>3 DEF TxsOf
  <2> QED BY <1>2, <1>3, <2>1
<1>7. UpdateCoins(StateAt[Parent[b]], b, n - 1)[k] = StateAt[Parent[b]][k]
  BY <1>6 DEF UpdateCoins
<1>8. Parent[b] \in Block /\ StateAt[Parent[b]][k] = Latest(Parent[b], k)
  BY AncestorsUnfold, CoinsForm
<1>9. D[k] = IF k \in Txs[b][n].ins THEN Latest(Parent[b], k) ELSE Null
  BY <1>5, <1>7, <1>8 DEF RestoredCoin
<1>10. ASSUME k \in Pegin PROVE D[k] = Null
  <2>1. k \notin Txs[b][n].ins
    BY <1>3, <1>10, TxsType, CoinsAssumption
  <2> QED BY <1>9, <2>1
<1>11. ASSUME k \in Outpoint, Fresh(b) PROVE D[k] = Latest(Parent[b], k) \/ Excused(k, D[k])
  <2>1. CASE k \in Txs[b][n].ins
    BY <1>9, <2>1
  <2>2. CASE k \notin Txs[b][n].ins
    <3>1. k \in Txs[b][n].outs
      BY <1>3, <1>11, <2>2, TxsType, CoinsAssumption DEF Touched
    <3>2. Latest(Parent[b], k) = Null \/ (skipped /\ k \in GenesisOutputs)
      BY <1>3, <1>8, <1>11, <3>1 DEF Fresh
    <3> QED BY <1>9, <2>2, <3>2 DEF Excused
  <2> QED BY <2>1, <2>2
<1> QED BY <1>9, <1>10, <1>11 DEF D

(* CoinsOf, spelled out. *)
LEMMA CoinsOfIs ==
    ASSUME NEW m, NEW b
    PROVE  CoinsOf(m, b) <=> /\ \A o \in Outpoint : m[o] = Coins(b)[o] \/ Excused(o, m[o])
                             /\ \A p \in Pegin : m[p] = Claimed => Coins(b)[p] = Claimed
                             /\ \A p \in Pegin : Coins(b)[p] = Claimed => m[p] = Claimed \/ unclaimed
BY DEF CoinsOf, Coins, Excused

LEMMA ConnectCoins ==
    ASSUME NEW b \in Block, NEW m, CoinsOf(m, Prev(b))
    PROVE  CoinsOf(ConnectBlock(m, b), b)
<1>1. ASSUME NEW k \in Key
      PROVE  /\ Coins(b)[k] = IF Effective(b) /\ k \in Writes(b) THEN Put(b, k) ELSE Coins(Prev(b))[k]
             /\ ConnectBlock(m, b)[k] = IF Effective(b) /\ k \in Writes(b) THEN Put(b, k) ELSE m[k]
  <2>1. CASE b = Genesis
    <3>1. Prev(b) = Null /\ Coins(b)[k] = Latest(b, k) /\ Coins(Null)[k] = Null
      BY <2>1, CoinsForm DEF Prev
    <3> QED BY <2>1, <3>1, ConnectPuts, LatestUnfold
  <2>2. CASE b # Genesis
    <3>1. Prev(b) = Parent[b] /\ Parent[b] \in Block
      BY <2>2, AncestorsUnfold DEF Prev
    <3>2. Coins(b)[k] = Latest(b, k) /\ Coins(Parent[b])[k] = Latest(Parent[b], k)
      BY <3>1, CoinsForm
    <3> QED BY <2>2, <3>1, <3>2, ConnectPuts, LatestUnfold
  <2> QED BY <2>1, <2>2
<1>2. Outpoint \subseteq Key /\ Pegin \subseteq Key
  BY DEF Key
<1> DEFINE c == ConnectBlock(m, b)
<1> HIDE DEF c
<1>3. \A o \in Outpoint : m[o] = Coins(Prev(b))[o] \/ Excused(o, m[o])
  BY CoinsOfIs
<1>4. \A p \in Pegin : m[p] = Claimed => Coins(Prev(b))[p] = Claimed
  BY CoinsOfIs
<1>5. \A o \in Outpoint : c[o] = Coins(b)[o] \/ Excused(o, c[o])
  BY <1>1, <1>2, <1>3 DEF c
<1>6. \A p \in Pegin : c[p] = Claimed => Coins(b)[p] = Claimed
  BY <1>1, <1>2, <1>4 DEF c
<1>8. \A p \in Pegin : Coins(Prev(b))[p] = Claimed => m[p] = Claimed \/ unclaimed
  BY CoinsOfIs
<1>9. \A p \in Pegin : Coins(b)[p] = Claimed => c[p] = Claimed \/ unclaimed
  BY <1>1, <1>2, <1>8 DEF c
<1>7. CoinsOf(c, b)
  BY <1>5, <1>6, <1>9, CoinsOfIs
<1> QED BY <1>7 DEF c

(* A peg-in that a legal block claims was not claimed before it. *)
LEMMA LegalClaims ==
    ASSUME NEW b \in Block \ {Genesis}, Legal(b), NEW p \in Pegin, p \in Writes(b)
    PROVE  Latest(Parent[b], p) # Claimed
<1> DEFINE T == TxsOf(b, p)
           n == Min(T)
<1>1. T \in SUBSET (1..Len(Txs[b])) /\ T # {} /\ Len(Txs[b]) \in Nat
  BY WritesTxs, TxsType DEF TxsOf
<1>2. n \in T /\ \A i \in T : n <= i
  BY ZenonT(30), <1>1, MinIn
<1>3. n \in 1..Len(Txs[b]) /\ p \in Touched(Txs[b][n])
  BY <1>2 DEF TxsOf
<1> HIDE DEF n
<1>4. p \in Txs[b][n].pegins
  BY <1>3, TxsType, CoinsAssumption DEF Touched
<1>5. {i \in 1..(n - 1) : p \in Touched(Txs[b][i])} = {}
  <2> SUFFICES ASSUME NEW i \in 1..(n - 1), p \in Touched(Txs[b][i]) PROVE FALSE
    OBVIOUS
  <2>1. i \in T
    BY <1>1, <1>3 DEF TxsOf
  <2> QED BY <1>2, <1>3, <2>1
<1>6. p \in Key /\ Parent[b] \in Block
  BY AncestorsUnfold DEF Key
<1>7. UpdateCoins(StateAt[Parent[b]], b, n - 1)[p] = StateAt[Parent[b]][p]
  BY <1>5, <1>6 DEF UpdateCoins
<1>8. UpdateCoins(StateAt[Parent[b]], b, n - 1)[p] # Claimed
  BY <1>3, <1>4 DEF Legal
<1> QED BY <1>6, <1>7, <1>8, CoinsForm

LEMMA DisconnectCoins ==
    ASSUME NEW b \in Block \ {Genesis}, NEW m, CoinsOf(m, b), Fresh(b), Legal(b) \/ unclaimed
    PROVE  CoinsOf(DisconnectBlock(m, b), Parent[b])
<1> DEFINE d == DisconnectBlock(m, b)
<1>1. Parent[b] \in Block /\ Outpoint \subseteq Key /\ Pegin \subseteq Key /\ Claimed # Null
  BY AncestorsUnfold, CoinsAssumption DEF Key
<1>2. \A k \in Key : Coins(b)[k] = Latest(b, k) /\ Coins(Parent[b])[k] = Latest(Parent[b], k)
  BY <1>1, CoinsForm
<1>3. \A k \in Key : k \notin Writes(b) => d[k] = m[k] /\ Latest(b, k) = Latest(Parent[b], k)
  BY DisconnectKeeps, LatestUnfold
<1>4. \A k \in Key : k \in Writes(b) =>
          /\ k \in Pegin => d[k] = Null
          /\ k \in Outpoint => d[k] = Latest(Parent[b], k) \/ Excused(k, d[k])
  BY Zenon, DisconnectRestores
<1> HIDE DEF d
<1>5. \A o \in Outpoint : d[o] = Coins(Parent[b])[o] \/ Excused(o, d[o])
  BY Zenon, <1>1, <1>2, <1>3, <1>4, CoinsOfIs
<1>6. \A p \in Pegin : d[p] = Claimed => Coins(Parent[b])[p] = Claimed
  BY ZenonT(30), <1>1, <1>2, <1>3, <1>4, CoinsOfIs
<1>8. \A p \in Pegin : p \in Writes(b) => Latest(Parent[b], p) # Claimed \/ unclaimed
  BY LegalClaims
<1>9. \A p \in Pegin : Coins(Parent[b])[p] = Claimed => d[p] = Claimed \/ unclaimed
  BY ZenonT(30), <1>1, <1>2, <1>3, <1>8, CoinsOfIs
<1>7. CoinsOf(d, Parent[b])
  BY <1>5, <1>6, <1>9, CoinsOfIs
<1> QED BY <1>7 DEF d

LEMMA DisconnectType ==
    ASSUME NEW b \in Block \ {Genesis}, NEW m \in [Key -> Value]
    PROVE  DisconnectBlock(m, b) \in [Key -> Value]
<1>1. ASSUME NEW k \in Key PROVE DisconnectBlock(m, b)[k] \in Value
  <2>1. CASE k \notin Writes(b)
    BY <2>1, DisconnectKeeps
  <2>2. CASE k \in Writes(b)
    BY <2>2, DisconnectRestores, AncestorsUnfold, LatestType DEF Value
  <2> QED BY <2>1, <2>2
<1>2. DisconnectBlock(m, b) = [k \in Key |-> DisconnectBlock(m, b)[k]]
  BY Zenon DEF DisconnectBlock, DisconnectTxs
<1> QED BY <1>1, <1>2

(* ConnectBlock has seen that what the block creates was not there. *)
LEMMA ConnectFresh ==
    ASSUME NEW b \in Block \ {Genesis}, NEW m, CoinsOf(m, Parent[b]), ConnectsTo(m, b)
    PROVE  Fresh(b)
<1> SUFFICES ASSUME NEW i \in 1..Len(Txs[b]), NEW k \in Txs[b][i].outs
             PROVE  StateAt[Parent[b]][k] = Null \/ (skipped /\ k \in GenesisOutputs)
  BY DEF Fresh
<1>1. m[k] = Null
  BY DEF ConnectsTo
<1>2. k \in Outpoint /\ k \in Key /\ Parent[b] \in Block
  BY TxsType, AncestorsUnfold DEF Key
<1>3. m[k] = Coins(Parent[b])[k] \/ Excused(k, m[k])
  BY <1>2, CoinsOfIs
<1> QED BY ZenonT(30), <1>1, <1>2, <1>3, CoinsForm DEF Excused

(* It has seen what the block spends, and that it claims nothing twice. *)
LEMMA ConnectLegal ==
    ASSUME NEW b \in Block \ {Genesis}, NEW m, CoinsOf(m, Parent[b]), ConnectsTo(m, b), ~unclaimed
    PROVE  Legal(b)
<1> SUFFICES ASSUME NEW i \in 1..Len(Txs[b])
             PROVE  /\ \A k \in Txs[b][i].ins : UpdateCoins(StateAt[Parent[b]], b, i - 1)[k] # Null
                    /\ \A k \in Txs[b][i].pegins : UpdateCoins(StateAt[Parent[b]], b, i - 1)[k] # Claimed
  BY DEF Legal
<1> DEFINE S == StateAt[Parent[b]]
           By(k) == {j \in 1..(i - 1) : k \in Touched(Txs[b][j])}
<1>1. /\ \A k \in Txs[b][i].ins : UpdateCoins(m, b, i - 1)[k] # Null
      /\ \A k \in Txs[b][i].pegins : UpdateCoins(m, b, i - 1)[k] = Null
  BY DEF ConnectsTo
<1>2. /\ Txs[b][i].ins \subseteq Outpoint /\ Txs[b][i].pegins \subseteq Pegin
      /\ Outpoint \subseteq Key /\ Pegin \subseteq Key /\ Parent[b] \in Block /\ Claimed # Null
  BY TxsType, AncestorsUnfold, CoinsAssumption DEF Key
<1>3. /\ \A o \in Outpoint : m[o] = S[o] \/ m[o] = Null
      /\ \A p \in Pegin : S[p] = Claimed => m[p] = Claimed
  BY ZenonT(30), <1>2, CoinsOfIs, CoinsForm DEF Excused, Coins
<1>4. \A k \in Key : IF By(k) = {}
                     THEN UpdateCoins(m, b, i - 1)[k] = m[k] /\ UpdateCoins(S, b, i - 1)[k] = S[k]
                     ELSE UpdateCoins(m, b, i - 1)[k] = UpdateCoins(S, b, i - 1)[k]
  BY DEF UpdateCoins
<1> HIDE DEF S, By
<1>5. \A k \in Txs[b][i].ins : UpdateCoins(S, b, i - 1)[k] # Null
  BY ZenonT(30), <1>1, <1>2, <1>3, <1>4
<1>6. \A k \in Txs[b][i].pegins : UpdateCoins(S, b, i - 1)[k] # Claimed
  BY ZenonT(30), <1>1, <1>2, <1>3, <1>4
<1> QED BY <1>5, <1>6 DEF S

(* The transactions of b after the i-th that touch k. *)
Later(b, i, k) == {j \in (i + 1)..Len(Txs[b]) : k \in Touched(Txs[b][j])}

(* A key that transaction i of b touches is afterwards what i left until the *)
(* next that touches it, and what the last left at the end of b.             *)
LEMMA TouchedNext ==
    ASSUME NEW b \in Block, NEW k \in Key, NEW i \in TxsOf(b, k), NEW m
    PROVE  /\ Later(b, i, k) = {} => Put(b, k) = UpdatedCoin(Txs[b][i], Height[b], k)
           /\ Later(b, i, k) # {} =>
                  LET n == Min(Later(b, i, k))
                  IN  /\ n \in TxsOf(b, k) /\ n # i /\ i < n
                      /\ UpdateCoins(m, b, n - 1)[k] = UpdatedCoin(Txs[b][i], Height[b], k)
<1>1. Len(Txs[b]) \in Nat /\ TxsOf(b, k) \in SUBSET (1..Len(Txs[b])) /\ i \in 1..Len(Txs[b])
  BY TxsType DEF TxsOf
<1>2. CASE Later(b, i, k) = {}
  <2>1. Max(TxsOf(b, k)) \in TxsOf(b, k) /\ i <= Max(TxsOf(b, k))
    BY ZenonT(30), <1>1, MaxIn
  <2> DEFINE x == Max(TxsOf(b, k))
  <2>2. x \in 1..Len(Txs[b]) /\ k \in Touched(Txs[b][x]) /\ i <= x
    BY <2>1 DEF TxsOf
  <2> HIDE DEF x
  <2>3. x = i
    BY <1>1, <1>2, <2>2 DEF Later
  <2> QED BY <1>2, <2>3 DEF Put, x
<1>3. CASE Later(b, i, k) # {}
  <2> DEFINE n == Min(Later(b, i, k))
             T == {j \in 1..(n - 1) : k \in Touched(Txs[b][j])}
  <2>1. Later(b, i, k) \in SUBSET (1..Len(Txs[b]))
    BY <1>1 DEF Later
  <2>2. n \in Later(b, i, k) /\ \A j \in Later(b, i, k) : n <= j
    BY ZenonT(30), <1>1, <1>3, <2>1, MinIn
  <2>3. n \in TxsOf(b, k) /\ i < n /\ n \in 1..Len(Txs[b])
    BY <1>1, <2>2 DEF Later, TxsOf
  <2> HIDE DEF n
  <2>4. i \in T /\ T \in SUBSET (1..(n - 1)) /\ n - 1 \in Nat
    BY <1>1, <2>3 DEF TxsOf
  <2>5. ASSUME NEW j \in T PROVE j <= i
    <3>1. j \in 1..(n - 1) /\ k \in Touched(Txs[b][j])
      OBVIOUS
    <3> HIDE DEF T
    <3>2. ~(n <= j) /\ j \in 1..Len(Txs[b])
      BY <1>1, <2>3, <3>1
    <3>3. j \notin Later(b, i, k)
      BY <2>2, <3>2
    <3> QED BY <1>1, <3>1, <3>2, <3>3 DEF Later
  <2>6. Max(T) \in T /\ i <= Max(T)
    BY <2>4, MaxIn
  <2>7. Max(T) = i
    <3> HIDE DEF T
    <3> DEFINE x == Max(T)
    <3>1. x <= i
      BY <2>5, <2>6
    <3>2. x \in 1..(n - 1) /\ i <= x
      BY ZenonT(30), <2>4, <2>6
    <3> HIDE DEF x
    <3>3. x = i
      BY <1>1, <2>4, <3>1, <3>2
    <3> QED BY <3>3 DEF x
  <2>8. UpdateCoins(m, b, n - 1)[k] = UpdatedCoin(Txs[b][Max(T)], Height[b], k)
    BY <2>4 DEF UpdateCoins
  <2> HIDE DEF T
  <2>9. UpdateCoins(m, b, n - 1)[k] = UpdatedCoin(Txs[b][i], Height[b], k)
    BY Zenon, <2>7, <2>8
  <2>10. n # i
    BY <1>1, <2>3
  <2> QED BY Zenon, <1>3, <2>3, <2>9, <2>10 DEF n
<1> QED BY <1>2, <1>3

(* DisconnectBlock is clean on the coins that a legal block leaves. *)
LEMMA DisconnectClean ==
    ASSUME NEW b \in Block \ {Genesis}, NEW m, CoinsOf(m, b), Legal(b), ~unclaimed
    PROVE  DisconnectsClean(m, b)
<1> SUFFICES ASSUME NEW i \in 1..Len(Txs[b])
             PROVE  /\ \A k \in Txs[b][i].outs : DisconnectTxs(m, b, i)[k] = Height[b]
                    /\ \A k \in Txs[b][i].ins : DisconnectTxs(m, b, i)[k] = Null
                    /\ \A k \in Txs[b][i].pegins : DisconnectTxs(m, b, i)[k] = Claimed
  BY DEF DisconnectsClean
<1> DEFINE tx == Txs[b][i]
           U(k) == UpdatedCoin(tx, Height[b], k)
<1>1. /\ tx.ins \subseteq Outpoint /\ tx.outs \subseteq Outpoint /\ tx.pegins \subseteq Pegin
      /\ Outpoint \subseteq Key /\ Pegin \subseteq Key /\ Outpoint \cap Pegin = {}
      /\ Genesis \in Block
  BY TxsType, AncestorsUnfold, CoinsAssumption DEF Key
<1>2. /\ tx.ins \cap tx.outs = {}
      /\ \A j \in 1..Len(Txs[b]) : j # i => tx.outs \cap Txs[b][j].outs = {}
      /\ tx.outs \cap GenesisOutputs = {}
  <2>1. /\ tx.ins \cap tx.outs = {}
        /\ \A j \in 1..Len(Txs[b]) : j # i => tx.outs \cap Txs[b][j].outs = {}
    BY Zenon, OutputsAssumption
  <2>2. tx.outs \subseteq OutsOf(b)
    BY Zenon DEF OutsOf
  <2>3. OutsOf(b) \cap GenesisOutputs = {}
    BY ZenonT(30), OutputsAssumption DEF GenesisOutputs
  <2> QED BY Zenon, <2>1, <2>2, <2>3
<1>3. ASSUME NEW k \in Touched(tx)
      PROVE  DisconnectTxs(m, b, i)[k] = IF Later(b, i, k) = {} THEN m[k]
                                         ELSE RestoredCoin(b, Min(Later(b, i, k)), k)
  BY <1>1 DEF DisconnectTxs, Later, Touched
<1>4. ASSUME NEW k \in Touched(tx)
      PROVE  /\ k \in Key /\ i \in TxsOf(b, k) /\ k \in Writes(b)
             /\ Coins(b)[k] = Put(b, k)
  <2>1. k \in Key /\ i \in TxsOf(b, k) /\ k \in Writes(b)
    BY ZenonT(30), <1>1 DEF Touched, TxsOf, Writes
  <2> QED BY ZenonT(30), <2>1, CoinsForm, LatestUnfold DEF Effective
<1>5. ASSUME NEW k \in Touched(tx), Later(b, i, k) # {}
      PROVE  LET n == Min(Later(b, i, k))
             IN  /\ n \in 1..Len(Txs[b]) /\ n # i /\ k \in Touched(Txs[b][n])
                 /\ UpdateCoins(StateAt[Parent[b]], b, n - 1)[k] = U(k)
                 /\ RestoredCoin(b, n, k) = IF k \in Txs[b][n].ins THEN U(k) ELSE Null
                 /\ k \in Txs[b][n].ins => U(k) # Null
                 /\ k \in Txs[b][n].pegins => U(k) # Claimed
  <2> DEFINE n == Min(Later(b, i, k))
  <2>1. n \in TxsOf(b, k) /\ n # i /\ UpdateCoins(StateAt[Parent[b]], b, n - 1)[k] = U(k)
    BY ZenonT(30), <1>4, <1>5, TouchedNext
  <2>2. n \in 1..Len(Txs[b]) /\ k \in Touched(Txs[b][n])
    BY ZenonT(30), <2>1 DEF TxsOf
  <2> HIDE DEF n, U
  <2>3. RestoredCoin(b, n, k) = IF k \in Txs[b][n].ins THEN U(k) ELSE Null
    BY ZenonT(30), <2>1 DEF RestoredCoin
  <2>4. /\ k \in Txs[b][n].ins => U(k) # Null
        /\ k \in Txs[b][n].pegins => U(k) # Claimed
    BY ZenonT(30), <2>1, <2>2 DEF Legal
  <2> QED BY ZenonT(30), <2>1, <2>2, <2>3, <2>4 DEF n
<1>6. ASSUME NEW k \in Touched(tx), Later(b, i, k) = {} PROVE Coins(b)[k] = U(k)
  BY ZenonT(30), <1>4, <1>6, TouchedNext
<1>7. /\ \A k \in tx.outs : U(k) = Height[b]
      /\ \A k \in tx.ins : U(k) = Null
      /\ \A k \in tx.pegins : U(k) = Claimed
  BY ZenonT(30), <1>1, <1>2 DEF UpdatedCoin
<1>8. tx.outs \subseteq Touched(tx) /\ tx.ins \subseteq Touched(tx) /\ tx.pegins \subseteq Touched(tx)
  BY DEF Touched
<1> HIDE DEF U, tx
<1>9. ASSUME NEW k \in tx.outs PROVE DisconnectTxs(m, b, i)[k] = Height[b]
  <2>1. CASE Later(b, i, k) = {}
    <3>1. m[k] = Coins(b)[k] \/ Excused(k, m[k])
      BY ZenonT(30), <1>1, CoinsOfIs
    <3> QED BY <1>2, <1>3, <1>6, <1>7, <1>8, <2>1, <3>1 DEF Excused
  <2>2. CASE Later(b, i, k) # {}
    <3> DEFINE n == Min(Later(b, i, k))
    <3>1. /\ n \in 1..Len(Txs[b]) /\ n # i /\ k \in Touched(Txs[b][n])
          /\ RestoredCoin(b, n, k) = IF k \in Txs[b][n].ins THEN U(k) ELSE Null
      BY ZenonT(30), <1>5, <1>8, <2>2
    <3> HIDE DEF n
    <3>2. k \notin Txs[b][n].outs /\ k \notin Txs[b][n].pegins
      BY ZenonT(30), <1>1, <1>2, <3>1, TxsType
    <3>3. k \in Txs[b][n].ins
      BY ZenonT(30), <3>1, <3>2 DEF Touched
    <3> QED BY <1>3, <1>7, <1>8, <2>2, <3>1, <3>3 DEF n
  <2> QED BY ZenonT(30), <2>1, <2>2
<1>10. ASSUME NEW k \in tx.ins PROVE DisconnectTxs(m, b, i)[k] = Null
  <2>1. CASE Later(b, i, k) = {}
    <3>1. m[k] = Coins(b)[k] \/ Excused(k, m[k])
      BY ZenonT(30), <1>1, CoinsOfIs
    <3> QED BY ZenonT(30), <1>3, <1>6, <1>7, <1>8, <2>1, <3>1 DEF Excused
  <2>2. CASE Later(b, i, k) # {}
    BY ZenonT(30), <1>3, <1>5, <1>7, <1>8, <2>2
  <2> QED BY ZenonT(30), <2>1, <2>2
<1>11. ASSUME NEW k \in tx.pegins PROVE DisconnectTxs(m, b, i)[k] = Claimed
  <2>1. CASE Later(b, i, k) = {}
    <3>1. Coins(b)[k] = Claimed => m[k] = Claimed
      BY ZenonT(30), <1>1, CoinsOfIs
    <3> QED BY ZenonT(30), <1>3, <1>6, <1>7, <1>8, <2>1, <3>1
  <2>2. CASE Later(b, i, k) # {}
    <3> DEFINE n == Min(Later(b, i, k))
    <3>1. /\ n \in 1..Len(Txs[b]) /\ k \in Touched(Txs[b][n])
          /\ k \in Txs[b][n].pegins => U(k) # Claimed
      BY ZenonT(30), <1>5, <1>8, <2>2
    <3> HIDE DEF n
    <3>2. k \in Txs[b][n].pegins
      BY <1>1, <3>1, TxsType DEF Touched
    <3> QED BY ZenonT(30), <1>7, <3>1, <3>2
  <2> QED BY ZenonT(30), <2>1, <2>2
<1> QED BY <1>9, <1>10, <1>11 DEF tx
-----------------------------------------------------------------------------
(* ReplayBlocks *)

LEMMA CommonIs ==
    ASSUME NEW old \in Block \cup {Null}, NEW new \in Block
    PROVE  \E f \in Ancestors[new] : /\ f \in Block /\ Common(old, new) = Ancestors[f]
                                     /\ old # Null => f \in Ancestors[old]
                                     /\ old = Null => f = Genesis
<1>1. CASE old = Null
  BY <1>1, AncestorsUnfold, AncestorsType DEF Common
<1>2. CASE old # Null
  BY <1>2, ForkExists DEF Common
<1> QED BY <1>1, <1>2

LEMMA LowestExists ==
    ASSUME NEW S \in SUBSET Block, S # {}
    PROVE  Lowest(S) \in S /\ \A c \in S : Height[Lowest(S)] <= Height[c]
<1>1. {Height[c] : c \in S} \in SUBSET Nat /\ {Height[c] : c \in S} # {}
  BY HeightUnfold
<1>2. PICK h \in {Height[c] : c \in S} : \A g \in {Height[c] : c \in S} : h <= g
  BY ZenonT(30), <1>1, NatMinimum
<1>3. \E b \in S : \A c \in S : Height[b] <= Height[c]
  BY <1>2
<1> QED BY <1>3, Zenon DEF Lowest

(* What the first block of a branch that writes k found is what the fork left. *)
LEMMA LowestFinds ==
    ASSUME NEW b \in Block, NEW f \in Ancestors[b], NEW k \in Key,
           NEW S, S = {c \in Ancestors[b] \ Ancestors[f] : k \in Writes(c)}, S # {}
    PROVE  /\ Lowest(S) \in Block \ {Genesis} /\ Lowest(S) \in Ancestors[b] /\ k \in Writes(Lowest(S))
           /\ Latest(Parent[Lowest(S)], k) = Latest(f, k)
<1> DEFINE l == Lowest(S)
<1>1. S \in SUBSET Block /\ f \in Block /\ Genesis \in Ancestors[f]
  BY AncestorsType
<1>2. l \in S /\ \A c \in S : Height[l] <= Height[c]
  BY <1>1, LowestExists
<1>3. l \in Block \ {Genesis} /\ l \in Ancestors[b] \ Ancestors[f] /\ k \in Writes(l)
  BY <1>1, <1>2
<1> HIDE DEF l
<1>4. Parent[l] \in Block /\ Ancestors[l] = {l} \cup Ancestors[Parent[l]]
  BY <1>3, AncestorsUnfold
<1>5. f \in Ancestors[Parent[l]]
  BY <1>3, <1>4, AncestorsAbove
<1>6. ASSUME NEW c \in Ancestors[Parent[l]] \ Ancestors[f] PROVE k \notin Writes(c)
  <2>1. c \in Ancestors[b] /\ c \in Block
    BY ZenonT(30), <1>3, <1>4, AncestorsTrans, AncestorsType
  <2>2. Height[c] <= Height[Parent[l]] /\ Height[l] = Height[Parent[l]] + 1
    BY ZenonT(30), <1>3, <1>4, AncestorsLower, HeightUnfold
  <2>3. Height[c] \in Nat /\ Height[Parent[l]] \in Nat
    BY <1>4, <2>1, HeightUnfold
  <2>4. ~(Height[l] <= Height[c])
    BY <2>2, <2>3
  <2> QED BY <1>2, <2>1, <2>4
<1>7. Latest(Parent[l], k) = Latest(f, k)
  BY ZenonT(30), <1>4, <1>5, <1>6, LatestSame
<1> QED BY <1>3, <1>7 DEF l

(* What the last block of a branch that writes k put is what the branch leaves. *)
LEMMA HighestLeaves ==
    ASSUME NEW b \in Block, NEW f \in Ancestors[b], NEW k \in Key,
           NEW S, S = {c \in Ancestors[b] \ Ancestors[f] : k \in Writes(c)}, S # {}
    PROVE  /\ Highest(S) \in Block /\ k \in Writes(Highest(S))
           /\ Latest(b, k) = Put(Highest(S), k)
<1> DEFINE t == Highest(S)
<1>1. S \in SUBSET Block /\ f \in Block /\ Genesis \in Ancestors[f] /\ Height[b] \in Nat
  BY ZenonT(30), AncestorsType, HeightUnfold
<1>2. \A c \in S : Height[c] <= Height[b]
  BY AncestorsLower
<1>3. t \in S /\ \A c \in S : Height[c] <= Height[t]
  BY <1>1, <1>2, HighestExists
<1>4. t \in Block /\ t # Genesis /\ t \in Ancestors[b] \ Ancestors[f] /\ k \in Writes(t)
  BY <1>1, <1>3
<1> HIDE DEF t
<1>5. t \in Writers(b, k)
  BY <1>4 DEF Writers, Effective
<1>6. ASSUME NEW c \in Writers(b, k) PROVE Height[c] <= Height[t]
  <2>1. CASE c \in Ancestors[f]
    <3>1. f \in Ancestors[t]
      BY <1>4, AncestorsAbove
    <3>2. c \in Ancestors[t]
      BY <1>4, <2>1, <3>1, AncestorsTrans
    <3> QED BY ZenonT(30), <1>4, <3>2, AncestorsLower
  <2>2. CASE c \notin Ancestors[f]
    BY <1>3, <2>2 DEF Writers
  <2> QED BY <2>1, <2>2
<1>7. Writers(b, k) \in SUBSET Ancestors[b]
  BY DEF Writers
<1>8. Highest(Writers(b, k)) = t
  BY ZenonT(30), <1>5, <1>6, <1>7, HighestIs
<1>9. Latest(b, k) = Put(t, k)
  BY ZenonT(30), <1>5, <1>8 DEF Latest
<1> QED BY <1>4, <1>9 DEF t

(* After a replay the coins are those of the new chain, whichever of the    *)
(* old and the new chain each was of before.  When there was no old tip the *)
(* genesis outputs may be missing (missing).                                *)
LEMMA ReplayOutpoints ==
    ASSUME NEW old \in Block \cup {Null}, NEW new \in Block, NEW m,
           Mixed(m, old, new), FreshChain(old), NEW missing \in BOOLEAN,
           skipped \/ (old = Null /\ ConnectGenesisOutputs) => missing,
           NEW o \in Outpoint
    PROVE  LET v == ReplayedCoins(m, old, new)[o]
           IN  v = Coins(new)[o] \/ (missing /\ o \in GenesisOutputs /\ v = Null)
<1> DEFINE v == ReplayedCoins(m, old, new)[o]
           undo == {b \in Branch(old, old, new) : o \in Writes(b)}
           redo == {b \in Branch(new, old, new) : o \in Writes(b) \ Pegin}
<1>1. o \in Key /\ o \notin Pegin /\ new # Null /\ Null \notin Block
  BY CoinsAssumption DEF Key
<1>2. PICK f \in Ancestors[new] : /\ f \in Block /\ Common(old, new) = Ancestors[f]
                                  /\ old # Null => f \in Ancestors[old]
                                  /\ old = Null => f = Genesis
  BY ZenonT(30), CommonIs
<1>3. v = IF redo # {} THEN RollforwardBlock(m, Highest(redo))[o]
          ELSE IF undo # {} THEN DisconnectBlock(m, Lowest(undo))[o] ELSE m[o]
  BY Zenon, <1>1 DEF ReplayedCoins
<1>4. redo = {c \in Ancestors[new] \ Ancestors[f] : o \in Writes(c)}
  BY <1>1, <1>2 DEF Branch
<1>5. undo = IF old = Null THEN {} ELSE {c \in Ancestors[old] \ Ancestors[f] : o \in Writes(c)}
  BY <1>1, <1>2 DEF Branch
<1>6. Coins(new)[o] = Latest(new, o) /\ Coins(Null)[o] = Null
  BY Zenon, <1>1, CoinsForm
<1> HIDE DEF v, undo, redo
<1>7. CASE redo # {}
  <2>1. Highest(redo) \in Block /\ o \in Writes(Highest(redo)) /\ Latest(new, o) = Put(Highest(redo), o)
    BY <1>1, <1>4, <1>7, HighestLeaves
  <2>2. v = Put(Highest(redo), o)
    BY <1>3, <1>7, <2>1, RollforwardPuts
  <2> QED BY ZenonT(30), <1>6, <2>1, <2>2 DEF v
<1>8. CASE redo = {}
  <2>1. Latest(new, o) = Latest(f, o)
    BY Zenon, <1>1, <1>2, <1>4, <1>8, LatestSame
  <2>2. CASE undo # {}
    <3> DEFINE l == Lowest(undo)
    <3>1. old \in Block /\ f \in Ancestors[old] /\ old # Null
      BY <1>2, <1>5, <2>2
    <3>2. undo = {c \in Ancestors[old] \ Ancestors[f] : o \in Writes(c)}
      BY ZenonT(30), <1>5, <3>1
    <3>3. /\ l \in Block \ {Genesis} /\ l \in Ancestors[old] /\ o \in Writes(l)
          /\ Latest(Parent[l], o) = Latest(f, o)
      BY <1>1, <2>2, <3>1, <3>2, LowestFinds
    <3>4. v = DisconnectBlock(m, l)[o]
      BY Zenon, <1>3, <1>8, <2>2
    <3> HIDE DEF l
    <3>5. Fresh(l)
      BY Zenon, <3>1, <3>3 DEF FreshChain
    <3>6. v = Latest(f, o) \/ Excused(o, v)
      BY Zenon, <1>1, <3>3, <3>4, <3>5, DisconnectRestores
    <3> QED BY ZenonT(30), <1>6, <2>1, <3>6 DEF v, Excused
  <2>3. CASE undo = {}
    <3>1. v = m[o]
      BY <1>3, <1>8, <2>3
    <3>2. v \in {Coins(old)[o], Coins(new)[o]} \/ Excused(o, v)
      BY Zenon, <3>1 DEF Mixed
    <3>3. CASE v = Coins(old)[o] /\ old # Null
      <4>1. old \in Block /\ f \in Ancestors[old]
        BY Zenon, <1>2, <3>3
      <4>2. Latest(old, o) = Latest(f, o)
        BY Zenon, <1>1, <1>5, <2>3, <3>3, <4>1, LatestSame
      <4>3. Coins(old)[o] = Latest(old, o)
        BY ZenonT(30), <1>1, <4>1, CoinsForm
      <4> QED BY Zenon, <1>6, <2>1, <3>3, <4>2, <4>3 DEF v
    <3>4. CASE v = Coins(old)[o] /\ old = Null
      <4>1. f = Genesis /\ v = Null
        BY Zenon, <1>2, <1>6, <3>4
      <4>2. Latest(Genesis, o) = IF ConnectGenesisOutputs /\ o \in Writes(Genesis)
                                 THEN Put(Genesis, o) ELSE Null
        BY Zenon, <1>1, AncestorsUnfold, LatestUnfold DEF Effective
      <4>3. o \in Writes(Genesis) /\ o \notin GenesisOutputs => Put(Genesis, o) = Null
        BY ZenonT(30), <1>1, AncestorsUnfold, PutType DEF GenesisOutputs, OutsOf
      <4>4. Latest(f, o) = Null \/ (ConnectGenesisOutputs /\ o \in GenesisOutputs)
        BY <4>1, <4>2, <4>3
      <4> QED BY <1>6, <2>1, <3>4, <4>1, <4>4 DEF v
    <3> QED BY ZenonT(30), <3>2, <3>3, <3>4 DEF Excused, v
  <2> QED BY <2>2, <2>3
<1> QED BY <1>7, <1>8

(* No claim of the old branch outlives the replay. *)
LEMMA ReplayPegins ==
    ASSUME NEW old \in Block \cup {Null}, NEW new \in Block, NEW m,
           Mixed(m, old, new), NEW p \in Pegin,
           ReplayedCoins(m, old, new)[p] = Claimed
    PROVE  Coins(new)[p] = Claimed
<1> DEFINE v == ReplayedCoins(m, old, new)[p]
           undo == {b \in Branch(old, old, new) : p \in Writes(b)}
           redo == {b \in Branch(new, old, new) : p \in Writes(b) \ Pegin}
<1>1. p \in Key /\ Claimed # Null
  BY CoinsAssumption DEF Key
<1>2. PICK f \in Ancestors[new] : /\ f \in Block /\ Common(old, new) = Ancestors[f]
                                  /\ old # Null => f \in Ancestors[old]
                                  /\ old = Null => f = Genesis
  BY ZenonT(30), CommonIs
<1>3. v = IF undo # {} THEN DisconnectBlock(m, Lowest(undo))[p] ELSE m[p]
  <2>1. redo = {}
    OBVIOUS
  <2> QED BY <1>1, <2>1 DEF ReplayedCoins
<1>5. undo = IF old = Null THEN {} ELSE {c \in Ancestors[old] \ Ancestors[f] : p \in Writes(c)}
  BY ZenonT(30), <1>2 DEF Branch
<1>6. Coins(new)[p] = Latest(new, p) /\ Coins(Null)[p] = Null
  BY <1>1, CoinsForm
<1> HIDE DEF v, undo
<1>7. undo = {}
  <2> SUFFICES ASSUME undo # {} PROVE FALSE
    OBVIOUS
  <2>1. old \in Block /\ f \in Ancestors[old] /\ old # Null
    BY Zenon, <1>2, <1>5
  <2>2. undo = {c \in Ancestors[old] \ Ancestors[f] : p \in Writes(c)}
    BY ZenonT(30), <1>5, <2>1
  <2>3. Lowest(undo) \in Block \ {Genesis} /\ p \in Writes(Lowest(undo))
    BY <1>1, <2>1, <2>2, LowestFinds
  <2>4. v = Null
    BY Zenon, <1>1, <1>3, <2>3, DisconnectRestores
  <2> QED BY <1>1, <2>4 DEF v
<1>8. m[p] = Claimed
  BY Zenon, <1>3, <1>7 DEF v
<1>9. Coins(old)[p] = Claimed \/ Coins(new)[p] = Claimed
  BY ZenonT(30), <1>8 DEF Mixed
<1>10. CASE Coins(old)[p] = Claimed
  <2>1. old # Null
    BY <1>1, <1>6, <1>10
  <2>2. old \in Block /\ f \in Ancestors[old]
    BY Zenon, <1>2, <2>1
  <2>3. Latest(old, p) = Claimed
    BY Zenon, <1>1, <1>10, <2>2, CoinsForm
  <2>4. Latest(f, p) = Claimed
    BY ZenonT(30), <1>1, <1>5, <1>7, <2>1, <2>2, <2>3, LatestSame
  <2>5. Latest(new, p) = Claimed
    BY <1>2, <2>4, ClaimedStays
  <2> QED BY <1>6, <2>5
<1> QED BY <1>9, <1>10

LEMMA ReplayType ==
    ASSUME NEW old \in Block \cup {Null}, NEW new \in Block, NEW m \in [Key -> Value]
    PROVE  ReplayedCoins(m, old, new) \in [Key -> Value]
<1> SUFFICES ASSUME NEW k \in Key PROVE ReplayedCoins(m, old, new)[k] \in Value
  BY ZenonT(30) DEF ReplayedCoins
<1> DEFINE undo == {b \in Branch(old, old, new) : k \in Writes(b)}
           redo == {b \in Branch(new, old, new) : k \in Writes(b) \ Pegin}
<1>1. ReplayedCoins(m, old, new)[k] =
          IF redo # {} THEN RollforwardBlock(m, Highest(redo))[k]
          ELSE IF undo # {} THEN DisconnectBlock(m, Lowest(undo))[k] ELSE m[k]
  BY Zenon DEF ReplayedCoins
<1>2. PICK f \in Ancestors[new] : /\ f \in Block /\ Common(old, new) = Ancestors[f]
                                  /\ old # Null => f \in Ancestors[old]
                                  /\ old = Null => f = Genesis
  BY ZenonT(30), CommonIs
<1>3. CASE redo # {}
  <2>1. k \in Outpoint /\ new # Null
    BY <1>3, CoinsAssumption DEF Key
  <2>2. redo = {c \in Ancestors[new] \ Ancestors[f] : k \in Writes(c)}
    BY Zenon, <1>2, <2>1, CoinsAssumption DEF Branch
  <2> HIDE DEF redo
  <2>3. Highest(redo) \in Block /\ k \in Writes(Highest(redo))
    BY Zenon, <1>2, <1>3, <2>2, HighestLeaves
  <2> QED BY <1>1, <1>3, <2>1, <2>3, RollforwardPuts, PutType
<1>4. CASE redo = {} /\ undo # {}
  <2>1. old \in Block /\ f \in Ancestors[old] /\ old # Null
    BY Zenon, <1>2, <1>4 DEF Branch
  <2>2. undo = {c \in Ancestors[old] \ Ancestors[f] : k \in Writes(c)}
    BY ZenonT(30), <1>2, <2>1 DEF Branch
  <2> HIDE DEF undo, redo
  <2>3. Lowest(undo) \in Block \ {Genesis}
    BY <1>4, <2>1, <2>2, LowestFinds
  <2> QED BY Zenon, <1>1, <1>4, <2>3, DisconnectType
<1>5. CASE redo = {} /\ undo = {}
  BY ZenonT(30), <1>1, <1>5
<1> HIDE DEF undo, redo
<1> QED BY ZenonT(30), <1>3, <1>4, <1>5
-----------------------------------------------------------------------------
(* VerifyDB *)

(* With the blocks above a undone, the coins are those of the chain up to a. *)
LEMMA UndoneCoinsOf ==
    ASSUME NEW b \in Block, NEW a \in Ancestors[b], NEW m, CoinsOf(m, b),
           FreshChain(b), ~unclaimed
    PROVE  CoinsOf(UndoneCoins(m, a, b), a)
<1> DEFINE u == UndoneCoins(m, a, b)
           undo(k) == {c \in Ancestors[b] \ Ancestors[a] : k \in Writes(c)}
<1>1. /\ a \in Block /\ b # Null /\ Outpoint \subseteq Key /\ Pegin \subseteq Key /\ Claimed # Null
  BY ZenonT(30), AncestorsType, CoinsAssumption DEF Key
<1>2. \A k \in Key : Coins(b)[k] = Latest(b, k) /\ Coins(a)[k] = Latest(a, k)
  BY ZenonT(30), <1>1, CoinsForm
<1>3. ASSUME NEW k \in Key, undo(k) = {} PROVE u[k] = m[k] /\ Latest(b, k) = Latest(a, k)
  <2>1. u[k] = m[k]
    BY <1>3 DEF UndoneCoins
  <2>2. Latest(b, k) = Latest(a, k)
    BY ZenonT(30), <1>1, <1>3, LatestSame
  <2> QED BY ZenonT(30), <2>1, <2>2
<1>4. ASSUME NEW k \in Key, undo(k) # {}
      PROVE  /\ k \in Outpoint => u[k] = Latest(a, k) \/ Excused(k, u[k])
             /\ k \in Pegin => u[k] = Null /\ Latest(a, k) # Claimed
  <2> DEFINE S == undo(k)
             l == Lowest(S)
  <2>1. u[k] = DisconnectBlock(m, l)[k]
    BY Zenon, <1>4 DEF UndoneCoins
  <2>2. S = {c \in Ancestors[b] \ Ancestors[a] : k \in Writes(c)} /\ S # {}
    BY ZenonT(30), <1>4
  <2> HIDE DEF S
  <2>3. /\ l \in Block \ {Genesis} /\ l \in Ancestors[b] /\ k \in Writes(l)
        /\ Latest(Parent[l], k) = Latest(a, k)
    BY <2>2, LowestFinds
  <2> HIDE DEF l, u
  <2>4. Fresh(l) /\ Legal(l)
    BY Zenon, <1>1, <2>3 DEF FreshChain
  <2>5. k \in Outpoint => u[k] = Latest(a, k) \/ Excused(k, u[k])
    BY Zenon, <2>1, <2>3, <2>4, DisconnectRestores
  <2>6. k \in Pegin => u[k] = Null
    BY Zenon, <2>1, <2>3, DisconnectRestores
  <2>7. k \in Pegin => Latest(a, k) # Claimed
    BY Zenon, <2>3, <2>4, LegalClaims
  <2> QED BY <2>5, <2>6, <2>7
<1> HIDE DEF u, undo
<1>5. \A o \in Outpoint : u[o] = Coins(a)[o] \/ Excused(o, u[o])
  <2> SUFFICES ASSUME NEW o \in Outpoint PROVE u[o] = Coins(a)[o] \/ Excused(o, u[o])
    OBVIOUS
  <2>1. m[o] = Coins(b)[o] \/ Excused(o, m[o])
    BY ZenonT(30), CoinsOfIs
  <2> QED BY Zenon, <1>1, <1>2, <1>3, <1>4, <2>1
<1>6. ASSUME NEW p \in Pegin PROVE (u[p] = Claimed) <=> (Coins(a)[p] = Claimed)
  <2>1. (m[p] = Claimed) <=> (Coins(b)[p] = Claimed)
    BY CoinsOfIs
  <2>2. CASE undo(p) = {}
    BY Zenon, <1>1, <1>2, <1>3, <2>1, <2>2
  <2>3. CASE undo(p) # {}
    BY Zenon, <1>1, <1>2, <1>4, <2>3
  <2> QED BY ZenonT(30), <2>2, <2>3
<1>7. CoinsOf(u, a)
  BY Zenon, <1>5, <1>6, CoinsOfIs
<1> QED BY ZenonT(30), <1>7 DEF u

(* So VerifyDB has nothing to object, however far back it goes. *)
LEMMA VerifyDBSucceeds ==
    ASSUME NEW b \in Block, CoinsOf(db, b), FreshChain(b), ~unclaimed, NEW n
    PROVE  VerifyDB(n, b)
<1> SUFFICES ASSUME NEW a \in Ancestors[b] \ {Genesis}
             PROVE  DisconnectsClean(UndoneCoins(db, a, b), a)
  BY Zenon DEF VerifyDB
<1>1. a \in Block \ {Genesis} /\ b # Null
  BY AncestorsType, CoinsAssumption
<1>2. Legal(a)
  BY Zenon, <1>1 DEF FreshChain
<1>3. CoinsOf(UndoneCoins(db, a, b), a)
  BY Zenon, UndoneCoinsOf
<1> QED BY Zenon, <1>1, <1>2, <1>3, DisconnectClean
-----------------------------------------------------------------------------
(* The blocks that a replay reads *)

LEMMA ReadsIs ==
    ASSUME NEW old \in Block \cup {Null}, NEW new \in Block \cup {Null},
           new = Null => old = Null
    PROVE  /\ old # Null => ReplayReads(old, new) =
                                (Ancestors[old] \ Ancestors[new]) \cup (Ancestors[new] \ Ancestors[old])
           /\ old = Null /\ new # Null => ReplayReads(old, new) = Ancestors[new] \ {Genesis}
           /\ old = Null /\ new = Null => ReplayReads(old, new) = {}
<1>1. CASE old # Null
  <2>1. new # Null /\ new \in Block /\ old \in Block
    BY <1>1
  <2>2. Ancestors[Fork(old, new)] = Ancestors[old] \cap Ancestors[new]
    BY ZenonT(30), <2>1, ForkExists
  <2> QED BY <1>1, <2>1, <2>2 DEF ReplayReads, Branch, Common
<1>2. CASE old = Null
  BY <1>2 DEF ReplayReads, Branch, Common
<1> QED BY ZenonT(30), <1>1, <1>2

LEMMA ReadsSame == ASSUME NEW b \in Block \cup {Null} PROVE ReplayReads(b, b) = {}
BY ReadsIs

LEMMA ReadsConnect ==
    ASSUME NEW old \in Block \cup {Null}, NEW b \in Block, Prev(b) = Null => old = Null
    PROVE  ReplayReads(old, b) \subseteq ReplayReads(old, Prev(b)) \cup {b}
<1>0. b # Null
  BY ZenonT(30), CoinsAssumption
<1>1. CASE b = Genesis
  BY <1>0, <1>1, ReadsIs, AncestorsUnfold DEF Prev
<1>2. CASE b # Genesis
  <2>1. Prev(b) = Parent[b] /\ Parent[b] \in Block /\ Parent[b] # Null
    BY <1>2, AncestorsUnfold, CoinsAssumption DEF Prev
  <2>2. Ancestors[b] = {b} \cup Ancestors[Parent[b]]
    BY ZenonT(30), <1>2, AncestorsUnfold
  <2>3. CASE old = Null
    BY <1>0, <2>1, <2>2, <2>3, ReadsIs
  <2>4. CASE old # Null
    <3>1. ReplayReads(old, b) = (Ancestors[old] \ Ancestors[b]) \cup (Ancestors[b] \ Ancestors[old])
      BY ZenonT(30), <1>0, <2>4, ReadsIs
    <3>2. ReplayReads(old, Parent[b]) =
              (Ancestors[old] \ Ancestors[Parent[b]]) \cup (Ancestors[Parent[b]] \ Ancestors[old])
      BY <2>1, <2>4, ReadsIs
    <3> QED BY <2>1, <2>2, <3>1, <3>2
  <2> QED BY <2>3, <2>4
<1> QED BY <1>1, <1>2

LEMMA ReadsDisconnect ==
    ASSUME NEW old \in Block \cup {Null}, NEW b \in Block \ {Genesis}
    PROVE  ReplayReads(old, Parent[b]) \subseteq ReplayReads(old, b) \cup {b}
<1>0. b # Null
  BY Zenon, CoinsAssumption
<1>1. Parent[b] \in Block /\ Parent[b] # Null /\ Ancestors[b] = {b} \cup Ancestors[Parent[b]]
  BY Zenon, AncestorsUnfold, CoinsAssumption
<1>2. CASE old = Null
  BY <1>0, <1>1, <1>2, ReadsIs
<1>3. CASE old # Null
  <2>1. ReplayReads(old, b) = (Ancestors[old] \ Ancestors[b]) \cup (Ancestors[b] \ Ancestors[old])
    BY ZenonT(30), <1>0, <1>3, ReadsIs
  <2>2. ReplayReads(old, Parent[b]) =
            (Ancestors[old] \ Ancestors[Parent[b]]) \cup (Ancestors[Parent[b]] \ Ancestors[old])
    BY <1>1, <1>3, ReadsIs
  <2> QED BY ZenonT(30), <1>1, <2>1, <2>2
<1> QED BY <1>2, <1>3
-----------------------------------------------------------------------------
(* The block index *)

LEMMA ClosedAncestors == ASSUME NEW S, Closed(S), NEW b \in S PROVE Ancestors[b] \subseteq S
<1> DEFINE T == {c \in Block : c \in S => Ancestors[c] \subseteq S}
<1>1. Genesis \in T
  BY AncestorsUnfold
<1>2. \A c \in Block \ {Genesis} : Parent[c] \in T => c \in T
  BY AncestorsUnfold DEF Closed
<1> HIDE DEF T
<1>3. Block \subseteq T
  BY <1>1, <1>2, TreeInduction
<1> QED BY <1>3 DEF T, Closed

LEMMA MaxOfTwo == ASSUME NEW a \in Int, NEW b \in Int PROVE Max({a, b}) \in {a, b} /\ Max({a, b}) >= a
<1> DEFINE S == {a, b}
<1>1. \E x \in S : \A y \in S : x >= y
  <2>1. CASE a >= b
    BY <2>1
  <2>2. CASE b >= a
    BY <2>2
  <2> QED BY <2>1, <2>2
<1> HIDE DEF S
<1>2. Max(S) \in S /\ \A y \in S : Max(S) >= y
  BY <1>1, Zenon DEF Max
<1> QED BY <1>2 DEF S

(* WriteBlockIndexDB writes every dirty entry whole: what is trimmed is on  *)
(* disk.                                                                    *)
LEMMA IndexWritten ==
    ASSUME TypeOK, IndexInv, NEW gone \in SUBSET known, NEW sr, WriteBlockIndex(gone, sr)
    PROVE  /\ indexed' = indexed \cup dirty /\ dirty' = {} /\ best' = best
           /\ known' = known \ gone /\ stored' = known' /\ known' \subseteq indexed'
           /\ whole' = indexed' /\ trimmed' \subseteq indexed' /\ nMinTrimHeight' \in Nat
<1> DEFINE D == dirty \cup gone
<1>1. /\ known \subseteq indexed \cup dirty /\ whole = indexed /\ trimmed \subseteq indexed
      /\ best \in indexed \cup dirty /\ Closed(indexed \cup dirty)
      /\ best \in Block /\ nMinTrimHeight \in Nat
  BY ZenonT(30) DEF TypeOK, IndexInv
<1>2. indexed' = indexed \cup dirty /\ dirty' = {} /\ best' = best /\ known' = known \ gone /\ stored' = known'
  BY <1>1 DEF WriteBlockIndex
<1>3. WrittenWhole(D) = D
  BY <1>1 DEF WrittenWhole
<1>4. whole' = indexed'
  BY <1>1, <1>2, <1>3 DEF WriteBlockIndex
<1>5. Ancestors[best] \subseteq indexed \cup dirty
  BY <1>1, ClosedAncestors
<1>6. TrimHeaders(D, sr)
  BY DEF WriteBlockIndex
<1> DEFINE trim_height == Height[best] - nMustKeepFullHeaders
           walk == {b \in Ancestors[best] : nMinTrimHeight <= Height[b]}
<1>7. trimmed' \subseteq trimmed \cup D \cup Ancestors[best]
  BY <1>6 DEF TrimHeaders
<1>8. trim_height \in Int
  BY <1>1, HeightUnfold, PruneAssumption
<1>9. nMinTrimHeight' \in Nat
  <2> HIDE DEF trim_height
  <2>1. nMinTrimHeight' \in {nMinTrimHeight, Max({nMinTrimHeight, trim_height})}
    BY <1>6 DEF TrimHeaders, trim_height
  <2>2. Max({nMinTrimHeight, trim_height}) \in Nat
    BY <1>1, <1>8, MaxOfTwo
  <2> QED BY <1>1, <2>1, <2>2
<1> QED BY ZenonT(30), <1>1, <1>2, <1>4, <1>5, <1>7, <1>9
-----------------------------------------------------------------------------
(* The inductive invariant *)

(* What is excused stays excused. *)
LEMMA CoinsStep ==
    ASSUME skipped => skipped', unclaimed => unclaimed',
           phase' \in {"run", "flush", "stop", "replay"} => CoinsOf(mem, tip)',
           phase' \in {"run", "load"} => heads' = <<>>,
           phase' = "replay" => heads' # <<>>,
           phase' \in {"flush", "stop", "replay"} =>
               /\ tip' # Null
               /\ heads' # <<>> => heads'[1] = tip'
               /\ \A k \in Key \ todo' : db'[k] = mem'[k],
           heads' = <<>> => CoinsOf(db', dbBest'),
           heads' # <<>> => /\ dbBest' = Null /\ Mixed(db', heads'[2], heads'[1])
                            /\ FreshChain(heads'[1]) /\ FreshChain(heads'[2]),
           FreshChain(tip'), FreshChain(dbBest')
    PROVE  CoinsInv'
<1>1. CoinsOf(db', dbBest') => CoinsOf(db, dbBest)'
  BY ZenonT(30) DEF CoinsOf
<1>2. Mixed(db', heads'[2], heads'[1]) => Mixed(db, heads[2], heads[1])'
  BY DEF Mixed, Excused, Coins
<1>3. /\ FreshChain(tip') => FreshChain(tip)'
      /\ FreshChain(dbBest') => FreshChain(dbBest)'
      /\ FreshChain(heads'[1]) => FreshChain(heads[1])'
      /\ FreshChain(heads'[2]) => FreshChain(heads[2])'
  BY ZenonT(30) DEF FreshChain, Fresh, Legal
<1> QED BY Zenon, <1>1, <1>2, <1>3 DEF CoinsInv, Flushing

LEMMA CoinsKept ==
    ASSUME skipped' = skipped, unclaimed' = unclaimed PROVE CoinsOf(mem, tip)' <=> CoinsOf(mem', tip')
BY DEF CoinsOf

LEMMA InitInv == Init => IndInv
<1> SUFFICES ASSUME Init PROVE IndInv
  BY ZenonT(30)
<1>1. Genesis \in Block /\ Height[Genesis] = 0 /\ Null \notin Block
  BY AncestorsUnfold, HeightUnfold, CoinsAssumption
<1>2. Empty \in [Key -> Nat \cup {Claimed, Null}]
  BY DEF Empty
<1>3. TypeOK
  <2>1. exposed \in BOOLEAN /\ skipped \in BOOLEAN /\ unclaimed \in BOOLEAN
    BY Zenon DEF Init
  <2>2. nMinTrimHeight \in Nat /\ crashes \in 0..MaxCrashes
    BY CoinsAssumption DEF Init
  <2>3. heads = <<>> /\ phase \in {"run", "flush", "stop", "down", "replay", "load", "failed"}
    BY DEF Init
  <2>4. db \in [Key -> Nat \cup {Claimed, Null}] /\ mem \in [Key -> Nat \cup {Claimed, Null}]
    BY <1>2 DEF Init
  <2>5. /\ stored \subseteq known /\ known \subseteq Block /\ stored \subseteq indexed
        /\ indexed \subseteq Block /\ todo \subseteq Key /\ whole \subseteq indexed
        /\ dirty \subseteq Block /\ trimmed \subseteq indexed /\ best \in Block
        /\ dbBest \in Block \cup {Null} /\ tip \in Block \cup {Null}
    BY <1>1 DEF Init
  <2> QED BY <2>1, <2>2, <2>3, <2>4, <2>5 DEF TypeOK
<1>4. CoinsOf(Empty, Null)
  BY ZenonT(30) DEF CoinsOf
<1>5. CoinsInv
  BY ZenonT(30), <1>4 DEF Init, CoinsInv, FreshChain, Flushing
<1>6. IndexInv
  BY <1>1 DEF Init, IndexInv, Closed, Flushing
<1>7. ReplayReads(Null, Null) = {}
  BY ReadsSame
<1>8. ReplayInv
  BY <1>7 DEF Init, ReplayInv
<1> QED BY ZenonT(30), <1>3, <1>5, <1>6, <1>8 DEF IndInv

LEMMA ConnectTipInv == ASSUME IndInv, NEW b \in Block, ConnectTip(b) PROVE IndInv'
<1>1. TypeOK /\ CoinsInv /\ IndexInv /\ ReplayInv
  BY Zenon DEF IndInv
<1>2. /\ phase = "run" /\ tip = Prev(b) /\ ConnectsTo(mem, b) /\ mem' = ConnectBlock(mem, b)
      /\ tip' = b /\ trimmed' = trimmed \ {b, Prev(b)}
      /\ dirty' = dirty \cup ({b} \ known) \cup ({b, Prev(b)} \cap trimmed)
      /\ best' = IF Height[best] < Height[b] THEN b ELSE best
      /\ known' = known \cup {b}
      /\ db' = db /\ dbBest' = dbBest /\ heads' = heads /\ whole' = whole
      /\ nMinTrimHeight' = nMinTrimHeight /\ indexed' = indexed /\ stored' = stored
      /\ phase' = phase /\ todo' = todo
      /\ exposed' = exposed /\ skipped' = skipped /\ unclaimed' = unclaimed /\ crashes' = crashes
  BY Zenon DEF ConnectTip, UpdateTip, diskVars, history
<1>3. /\ heads = <<>> /\ CoinsOf(mem, Prev(b)) /\ CoinsOf(db, dbBest)
      /\ FreshChain(Prev(b)) /\ FreshChain(dbBest)
  BY Zenon, <1>1, <1>2 DEF CoinsInv
<1>4. TypeOK'
  <2>1. mem' \in [Key -> Nat \cup {Claimed, Null}]
    BY ZenonT(30), <1>1, <1>2, ConnectType DEF TypeOK, Value
  <2> QED BY Zenon, <1>1, <1>2, <2>1 DEF TypeOK
<1>5. CoinsInv'
  <2>1. CoinsOf(mem', b)
    BY ZenonT(30), <1>2, <1>3, ConnectCoins
  <2>2. CoinsOf(mem, tip)'
    BY <1>2, <2>1, CoinsKept
  <2>3. FreshChain(b)
    <3>1. CASE b = Genesis
      BY Zenon, <3>1, AncestorsUnfold DEF FreshChain
    <3>2. CASE b # Genesis
      <4>1. Prev(b) = Parent[b] /\ Parent[b] # Null /\ Ancestors[b] = {b} \cup Ancestors[Parent[b]]
        BY <3>2, AncestorsUnfold, CoinsAssumption DEF Prev
      <4>2. Fresh(b)
        BY ZenonT(30), <1>2, <1>3, <3>2, <4>1, ConnectFresh
      <4>3. Legal(b) \/ unclaimed
        BY ZenonT(30), <1>2, <1>3, <3>2, <4>1, ConnectLegal
      <4> QED BY ZenonT(30), <1>3, <4>1, <4>2, <4>3 DEF FreshChain
    <3> QED BY <3>1, <3>2
  <2> QED BY ZenonT(30), <1>2, <1>3, <2>2, <2>3, CoinsStep
<1>6. IndexInv'
  <2>1. Prev(b) \in indexed \cup dirty \cup {Null} /\ trimmed \subseteq indexed
    BY <1>1, <1>2 DEF IndexInv, TypeOK
  <2>2. b \in known => b \in indexed \cup dirty
    BY Zenon, <1>1 DEF IndexInv
  <2>3. indexed' \cup dirty' = indexed \cup dirty \cup {b}
    BY Zenon, <1>2, <2>1, <2>2
  <2>4. Closed(indexed \cup dirty \cup {b})
    <3>1. b # Genesis => Parent[b] \in indexed \cup dirty
      BY Zenon, <2>1, AncestorsUnfold, CoinsAssumption DEF Prev
    <3> QED BY Zenon, <1>1, <3>1 DEF IndexInv, Closed
  <2> QED BY ZenonT(30), <1>1, <1>2, <1>3, <2>3, <2>4 DEF IndexInv, Flushing
<1>7. ReplayInv'
  <2>1. ReplayReads(dbBest, b) \subseteq ReplayReads(dbBest, Prev(b)) \cup {b}
    BY <1>1, <1>2, ReadsConnect DEF ReplayInv, TypeOK
  <2>2. b # Null
    BY CoinsAssumption
  <2> QED BY ZenonT(30), <1>1, <1>2, <1>3, <2>1, <2>2 DEF ReplayInv
<1> QED BY <1>4, <1>5, <1>6, <1>7 DEF IndInv

LEMMA DisconnectTipInv ==
    ASSUME IndInv, DisconnectTip, tip \in known /\ DisconnectsClean(mem, tip)
    PROVE  IndInv'
<1> DEFINE p == Parent[tip]
<1>1. TypeOK /\ CoinsInv /\ IndexInv /\ ReplayInv
  BY Zenon DEF IndInv
<1>2. /\ phase = "run" /\ tip \in Block \ {Genesis} /\ mem' = DisconnectBlock(mem, tip)
      /\ tip' = p /\ trimmed' = trimmed \ {p, Prev(p)}
      /\ dirty' = dirty \cup ({p, Prev(p)} \cap trimmed)
      /\ best' = best /\ known' = known
      /\ db' = db /\ dbBest' = dbBest /\ heads' = heads /\ whole' = whole
      /\ nMinTrimHeight' = nMinTrimHeight /\ indexed' = indexed /\ stored' = stored
      /\ phase' = phase /\ todo' = todo
      /\ exposed' = exposed /\ skipped' = skipped /\ unclaimed' = unclaimed /\ crashes' = crashes
  BY ZenonT(30), <1>1 DEF DisconnectTip, UpdateTip, diskVars, history, TypeOK
<1>3. /\ heads = <<>> /\ CoinsOf(mem, tip) /\ CoinsOf(db, dbBest)
      /\ FreshChain(tip) /\ FreshChain(dbBest)
  BY <1>1, <1>2 DEF CoinsInv
<1>0. p \in Block /\ p # Null /\ tip # Null /\ Ancestors[tip] = {tip} \cup Ancestors[p]
  BY Zenon, <1>2, AncestorsUnfold, CoinsAssumption
<1> HIDE DEF p
<1>4. TypeOK'
  <2>1. mem' \in [Key -> Nat \cup {Claimed, Null}]
    BY <1>1, <1>2, DisconnectType DEF TypeOK, Value
  <2> QED BY ZenonT(30), <1>0, <1>1, <1>2, <2>1 DEF TypeOK
<1>5. CoinsInv'
  <2>1. Fresh(tip) /\ (Legal(tip) \/ unclaimed)
    BY ZenonT(30), <1>0, <1>2, <1>3 DEF FreshChain
  <2>2. CoinsOf(mem', p)
    BY <1>2, <1>3, <2>1, DisconnectCoins DEF p
  <2>3. CoinsOf(mem, tip)'
    BY Zenon, <1>2, <2>2, CoinsKept
  <2>4. FreshChain(p)
    BY ZenonT(30), <1>0, <1>3 DEF FreshChain
  <2> QED BY ZenonT(30), <1>2, <1>3, <2>3, <2>4, CoinsStep
<1>6. IndexInv'
  <2>1. indexed' \cup dirty' = indexed \cup dirty
    BY Zenon, <1>1, <1>2 DEF TypeOK
  <2>2. p \in indexed \cup dirty
    BY ZenonT(30), <1>0, <1>1, <1>2 DEF IndexInv, Closed, p
  <2> QED BY ZenonT(30), <1>1, <1>2, <1>3, <2>1, <2>2 DEF IndexInv, Flushing
<1>7. ReplayInv'
  <2>1. ReplayReads(dbBest, p) \subseteq ReplayReads(dbBest, tip) \cup {tip}
    BY ZenonT(30), <1>1, <1>2, ReadsDisconnect DEF TypeOK, p
  <2> QED BY ZenonT(30), <1>0, <1>1, <1>2, <1>3, <2>1 DEF ReplayInv
<1> QED BY <1>4, <1>5, <1>6, <1>7 DEF IndInv

(* The index and the block files are written before the coins. *)
LEMMA BeginFlushInv ==
    ASSUME IndInv, phase = "run", NEW gone \in SUBSET known, NEW sr, WriteBlockIndex(gone, sr),
           NEW kind \in {"flush", "stop"}, kind = "flush" => tip # Null, BeginFlush(kind),
           exposed' \in BOOLEAN, gone \cap ReplayReads(dbBest, tip) # {} => exposed',
           UNCHANGED <<diskVars, mem, tip, skipped, unclaimed, crashes>>
    PROVE  IndInv'
<1>1. TypeOK /\ CoinsInv /\ IndexInv /\ ReplayInv
  BY DEF IndInv
<1>2. /\ indexed' = indexed \cup dirty /\ dirty' = {} /\ best' = best
      /\ known' = known \ gone /\ stored' = known' /\ known' \subseteq indexed'
      /\ whole' = indexed' /\ trimmed' \subseteq indexed' /\ nMinTrimHeight' \in Nat
  BY <1>1, IndexWritten
<1>3. /\ db' = db /\ dbBest' = dbBest /\ heads' = heads /\ mem' = mem /\ tip' = tip
      /\ skipped' = skipped /\ unclaimed' = unclaimed /\ crashes' = crashes
  BY Zenon DEF diskVars
<1>4. /\ phase' = IF tip # Null THEN kind ELSE IF kind = "stop" THEN "down" ELSE phase
      /\ todo' = {k \in Key : mem[k] # db[k]}
  BY Zenon DEF BeginFlush
<1>5. /\ heads = <<>> /\ CoinsOf(mem, tip) /\ CoinsOf(db, dbBest)
      /\ FreshChain(tip) /\ FreshChain(dbBest)
  BY ZenonT(30), <1>1 DEF CoinsInv
<1>6. (tip # Null /\ phase' = kind) \/ (tip = Null /\ phase' = "down")
  <2>1. kind = "flush" \/ kind = "stop"
    OBVIOUS
  <2> QED BY <1>4, <2>1
<1>7. TypeOK'
  <2>1. /\ exposed' \in BOOLEAN /\ skipped' \in BOOLEAN /\ unclaimed' \in BOOLEAN
    BY Zenon, <1>1, <1>3 DEF TypeOK
  <2>2. /\ db' \in [Key -> Nat \cup {Claimed, Null}] /\ mem' \in [Key -> Nat \cup {Claimed, Null}]
        /\ crashes' \in 0..MaxCrashes /\ nMinTrimHeight' \in Nat
    BY Zenon, <1>1, <1>2, <1>3 DEF TypeOK
  <2>3. heads' = <<>> /\ phase' \in {"run", "flush", "stop", "down", "replay", "load", "failed"}
    BY Zenon, <1>3, <1>5, <1>6
  <2>4. /\ stored' \subseteq known' /\ known' \subseteq Block /\ stored' \subseteq indexed'
        /\ indexed' \subseteq Block /\ todo' \subseteq Key /\ whole' \subseteq indexed'
        /\ dirty' \subseteq Block /\ trimmed' \subseteq indexed' /\ best' \in Block
        /\ dbBest' \in Block \cup {Null} /\ tip' \in Block \cup {Null}
    BY ZenonT(30), <1>1, <1>2, <1>3, <1>4 DEF TypeOK
  <2> QED BY ZenonT(30), <2>1, <2>2, <2>3, <2>4 DEF TypeOK
<1>8. CoinsInv'
  <2>1. CoinsOf(mem, tip)'
    BY Zenon, <1>3, <1>5, CoinsKept
  <2>2. \A k \in Key \ todo' : db'[k] = mem'[k]
    BY Zenon, <1>3, <1>4
  <2> QED BY <1>3, <1>5, <1>6, <2>1, <2>2, CoinsStep
<1>9. IndexInv'
  <2>1. Closed(indexed') /\ Genesis \in indexed' /\ indexed' \cup dirty' = indexed'
    BY ZenonT(30), <1>1, <1>2 DEF IndexInv
  <2> QED BY ZenonT(30), <1>1, <1>2, <1>3, <1>5, <1>6, <2>1 DEF IndexInv, Flushing
<1>10. ReplayInv'
  <2>1. OldTip' = dbBest
    BY ZenonT(30), <1>3, <1>5 DEF OldTip
  <2>2. ReplayReads(dbBest, tip) \subseteq stored' \/ exposed'
    BY ZenonT(30), <1>1, <1>2 DEF ReplayInv
  <2> QED BY ZenonT(30), <1>3, <1>5, <1>6, <2>1, <2>2 DEF ReplayInv
<1> QED BY ZenonT(30), <1>7, <1>8, <1>9, <1>10 DEF IndInv

LEMMA StopInv == ASSUME IndInv, Stop PROVE IndInv'
<1>1. /\ phase = "run" /\ WriteBlockIndex({}, TRUE) /\ BeginFlush("stop")
      /\ exposed' = FALSE /\ UNCHANGED <<diskVars, mem, tip, skipped, unclaimed, crashes>>
  BY Zenon DEF Stop
<1>2. exposed' \in BOOLEAN /\ {} \cap ReplayReads(dbBest, tip) = {} /\ {} \in SUBSET known
  BY ZenonT(30), <1>1
<1> QED BY ZenonT(30), <1>1, <1>2, BeginFlushInv

LEMMA FullFlushInv == ASSUME IndInv, FullFlush PROVE IndInv'
<1>1. /\ phase = "run" /\ WriteBlockIndex({}, FALSE) /\ BeginFlush("flush")
      /\ exposed' = FALSE /\ UNCHANGED <<diskVars, mem, tip, skipped, unclaimed, crashes>>
  BY ZenonT(30) DEF FullFlush
<1>2. tip # Null
  BY DEF FullFlush
<1>3. exposed' \in BOOLEAN /\ {} \cap ReplayReads(dbBest, tip) = {} /\ {} \in SUBSET known
  BY Zenon, <1>1
<1> QED BY ZenonT(30), <1>1, <1>2, <1>3, BeginFlushInv

LEMMA PruneAndFlushInv == ASSUME IndInv, PruneAndFlush PROVE IndInv'
<1>1. PICK gone \in FilesToPrune : /\ WriteBlockIndex(gone, FALSE)
                                   /\ exposed' = (gone \cap ReplayReads(dbBest, tip) # {})
  BY ZenonT(30) DEF PruneAndFlush
<1>2. gone \in SUBSET known
  BY DEF FilesToPrune
<1>3. phase = "run" /\ tip # Null /\ BeginFlush("flush") /\ UNCHANGED <<diskVars, mem, tip, skipped, unclaimed, crashes>>
  BY DEF PruneAndFlush
<1>4. exposed' \in BOOLEAN
  BY <1>1
<1> QED BY Zenon, <1>1, <1>2, <1>3, <1>4, BeginFlushInv

LEMMA PeriodicWriteInv == ASSUME IndInv, PeriodicWrite PROVE IndInv'
<1>1. TypeOK /\ CoinsInv /\ IndexInv /\ ReplayInv
  BY DEF IndInv
<1>2. phase = "run" /\ WriteBlockIndex({}, FALSE)
  BY Zenon DEF PeriodicWrite
<1>3. /\ indexed' = indexed \cup dirty /\ dirty' = {} /\ best' = best
      /\ known' = known /\ stored' = known' /\ known' \subseteq indexed'
      /\ whole' = indexed' /\ trimmed' \subseteq indexed' /\ nMinTrimHeight' \in Nat
  BY ZenonT(30), <1>1, <1>2, IndexWritten
<1>4. /\ db' = db /\ dbBest' = dbBest /\ heads' = heads /\ mem' = mem /\ tip' = tip
      /\ phase' = phase /\ todo' = todo
      /\ exposed' = exposed /\ skipped' = skipped /\ unclaimed' = unclaimed /\ crashes' = crashes
  BY DEF PeriodicWrite, diskVars, history
<1>5. /\ heads = <<>> /\ CoinsOf(mem, tip) /\ CoinsOf(db, dbBest)
      /\ FreshChain(tip) /\ FreshChain(dbBest)
  BY Zenon, <1>1, <1>2 DEF CoinsInv
<1>6. TypeOK'
  BY ZenonT(30), <1>1, <1>3, <1>4 DEF TypeOK
<1>7. CoinsInv'
  <2>1. CoinsOf(mem, tip)'
    BY ZenonT(30), <1>4, <1>5, CoinsKept
  <2> QED BY ZenonT(30), <1>2, <1>4, <1>5, <2>1, CoinsStep
<1>8. IndexInv'
  <2>1. Closed(indexed') /\ Genesis \in indexed' /\ indexed' \cup dirty' = indexed'
    BY Zenon, <1>1, <1>3 DEF IndexInv
  <2> QED BY ZenonT(30), <1>1, <1>2, <1>3, <1>4, <1>5, <2>1 DEF IndexInv, Flushing
<1>9. ReplayInv'
  BY ZenonT(30), <1>1, <1>2, <1>3, <1>4, <1>5 DEF ReplayInv
<1> QED BY <1>6, <1>7, <1>8, <1>9 DEF IndInv

(* A batch leaves coins of the old and of the new chain, and the two tips. *)
LEMMA WritePartialBatchInv == ASSUME IndInv, NEW k \in Key, WritePartialBatch(k) PROVE IndInv'
<1>1. TypeOK /\ CoinsInv /\ IndexInv /\ ReplayInv
  BY ZenonT(30) DEF IndInv
<1>2. /\ phase \in {"flush", "stop", "replay"} /\ k \in todo
      /\ db' = [db EXCEPT ![k] = mem[k]] /\ dbBest' = Null /\ heads' = <<tip, OldTip>>
      /\ todo' = todo \ {k}
      /\ indexed' = indexed /\ stored' = stored /\ known' = known /\ phase' = phase
      /\ mem' = mem /\ tip' = tip
      /\ whole' = whole /\ dirty' = dirty /\ trimmed' = trimmed /\ best' = best
      /\ nMinTrimHeight' = nMinTrimHeight
      /\ exposed' = exposed /\ skipped' = skipped /\ unclaimed' = unclaimed /\ crashes' = crashes
  BY DEF WritePartialBatch, headerVars, history
<1>3. /\ heads' # <<>> /\ Len(heads') = 2 /\ heads'[1] = tip /\ heads'[2] = OldTip
  BY ZenonT(30), <1>2
<1>4. tip # Null /\ tip \in indexed /\ CoinsOf(mem, tip) /\ FreshChain(tip) /\ tip \in Block
  BY <1>1, <1>2 DEF CoinsInv, IndexInv, Flushing, TypeOK
<1>5. OldTip \in indexed \cup {Null} /\ OldTip \in Block \cup {Null} /\ FreshChain(OldTip)
  <2>1. FreshChain(Null)
    BY Zenon DEF FreshChain
  <2>2. CASE dbBest # Null
    BY ZenonT(30), <1>1, <2>2 DEF OldTip, IndexInv, TypeOK, CoinsInv
  <2>3. CASE dbBest = Null /\ heads # <<>>
    BY <1>1, <2>3 DEF OldTip, IndexInv, TypeOK, CoinsInv
  <2>4. CASE dbBest = Null /\ heads = <<>>
    BY <2>1, <2>4 DEF OldTip
  <2> QED BY Zenon, <2>2, <2>3, <2>4
<1>6. Mixed(db, OldTip, tip)
  <2>1. CASE heads = <<>>
    <3>1. OldTip = dbBest /\ CoinsOf(db, dbBest)
      BY Zenon, <1>1, <2>1 DEF OldTip, CoinsInv
    <3> QED BY Zenon, <3>1, CoinsOfIs DEF Mixed
  <2>2. CASE heads # <<>>
    BY Zenon, <1>1, <1>2, <2>2 DEF OldTip, CoinsInv, Flushing
  <2> QED BY Zenon, <2>1, <2>2
<1>7. /\ db'[k] = mem[k] /\ \A j \in Key \ {k} : db'[j] = db[j]
      /\ Outpoint \subseteq Key /\ Pegin \subseteq Key
  BY Zenon, <1>1, <1>2 DEF TypeOK, Key
<1>8. Mixed(db', OldTip, tip)
  <2>1. \A o \in Outpoint : mem[o] = Coins(tip)[o] \/ Excused(o, mem[o])
    BY Zenon, <1>4, CoinsOfIs
  <2>2. \A p \in Pegin : mem[p] = Claimed => Coins(tip)[p] = Claimed
    BY Zenon, <1>4, CoinsOfIs
  <2>3. \A o \in Outpoint : db'[o] \in {Coins(OldTip)[o], Coins(tip)[o]} \/ Excused(o, db'[o])
    BY Zenon, <1>6, <1>7, <2>1 DEF Mixed
  <2>4. \A p \in Pegin : db'[p] = Claimed => Coins(OldTip)[p] = Claimed \/ Coins(tip)[p] = Claimed
    BY Zenon, <1>6, <1>7, <2>2 DEF Mixed
  <2> QED BY Zenon, <2>3, <2>4 DEF Mixed
<1>9. TypeOK'
  <2>1. db' \in [Key -> Nat \cup {Claimed, Null}] /\ todo' \subseteq Key
    BY Zenon, <1>1, <1>2 DEF TypeOK
  <2>2. /\ heads'[1] \in Block /\ heads'[2] \in Block \cup {Null} /\ dbBest' \in Block \cup {Null}
    BY ZenonT(30), <1>2, <1>3, <1>4, <1>5
  <2> QED BY ZenonT(30), <1>1, <1>2, <1>3, <2>1, <2>2 DEF TypeOK
<1>10. CoinsInv'
  <2>1. CoinsOf(mem, tip)'
    BY ZenonT(30), <1>2, <1>4, CoinsKept
  <2>2. \A j \in Key \ todo' : db'[j] = mem'[j]
    BY <1>1, <1>2, <1>7 DEF CoinsInv, Flushing
  <2>3. FreshChain(dbBest')
    BY ZenonT(30), <1>2 DEF FreshChain
  <2> QED BY ZenonT(30), <1>2, <1>3, <1>4, <1>5, <1>8, <2>1, <2>2, <2>3, CoinsStep
<1>11. IndexInv'
  BY ZenonT(30), <1>1, <1>2, <1>3, <1>4, <1>5 DEF IndexInv, Flushing
<1>12. ReplayInv'
  <2>1. ReplayReads(OldTip, tip) \subseteq stored \/ exposed
    <3>1. CASE phase \in {"flush", "stop"}
      BY ZenonT(30), <1>1, <3>1 DEF ReplayInv
    <3>2. CASE phase = "replay"
      <4>1. heads # <<>> /\ OldTip = heads[2] /\ heads[1] = tip
        BY Zenon, <1>1, <3>2 DEF CoinsInv, Flushing, OldTip
      <4> QED BY <1>1, <4>1 DEF ReplayInv
    <3> QED BY ZenonT(30), <1>2, <3>1, <3>2
  <2>2. OldTip' = OldTip
    BY ZenonT(30), <1>2, <1>3 DEF OldTip
  <2> QED BY ZenonT(30), <1>2, <1>3, <2>1, <2>2 DEF ReplayInv
<1> QED BY <1>9, <1>10, <1>11, <1>12 DEF IndInv

(* The state after Down, with the coins database and the block index as    *)
(* they are on disk.                                                        *)
LEMMA DownInv ==
    ASSUME IndInv, Down, indexed' = indexed, stored' = stored, whole' = whole,
           db' \in [Key -> Value], dbBest' \in Block \cup {Null}, dbBest' \in indexed \cup {Null},
           heads' \in {heads, <<>>}, exposed' = exposed, skipped' = skipped, unclaimed' = unclaimed, crashes' \in 0..MaxCrashes,
           FreshChain(dbBest'), heads' = <<>> => CoinsOf(db', dbBest'),
           heads' # <<>> => db' = db /\ dbBest' = Null
    PROVE  IndInv'
<1>1. TypeOK /\ CoinsInv /\ IndexInv /\ ReplayInv
  BY Zenon DEF IndInv
<1>2. /\ phase' = "down" /\ mem' = Empty /\ tip' = Null /\ todo' = {} /\ dirty' = {}
      /\ trimmed' = {} /\ best' = Genesis /\ nMinTrimHeight' = 0 /\ known' = stored
  BY Zenon DEF Down
<1>3. TypeOK'
  <2>1. /\ exposed' \in BOOLEAN /\ skipped' \in BOOLEAN /\ unclaimed' \in BOOLEAN
    BY <1>1 DEF TypeOK
  <2>2. /\ db' \in [Key -> Nat \cup {Claimed, Null}] /\ mem' \in [Key -> Nat \cup {Claimed, Null}]
        /\ crashes' \in 0..MaxCrashes /\ nMinTrimHeight' \in Nat
    BY Zenon, <1>2 DEF Value, Empty
  <2>3. /\ heads' = <<>> \/ (Len(heads') = 2 /\ heads'[1] \in Block /\ heads'[2] \in Block \cup {Null})
        /\ phase' \in {"run", "flush", "stop", "down", "replay", "load", "failed"}
    BY Zenon, <1>1, <1>2 DEF TypeOK
  <2>4. /\ stored' \subseteq known' /\ known' \subseteq Block /\ stored' \subseteq indexed'
        /\ indexed' \subseteq Block /\ todo' \subseteq Key /\ whole' \subseteq indexed'
        /\ dirty' \subseteq Block /\ trimmed' \subseteq indexed' /\ best' \in Block
        /\ dbBest' \in Block \cup {Null} /\ tip' \in Block \cup {Null}
    BY ZenonT(30), <1>1, <1>2, AncestorsUnfold DEF TypeOK
  <2> QED BY ZenonT(30), <2>1, <2>2, <2>3, <2>4 DEF TypeOK
<1>4. CoinsInv'
  <2>1. FreshChain(tip')
    BY ZenonT(30), <1>2 DEF FreshChain
  <2>2. heads' # <<>> => /\ heads' = heads /\ Mixed(db', heads'[2], heads'[1])
                         /\ FreshChain(heads'[1]) /\ FreshChain(heads'[2])
    BY <1>1 DEF CoinsInv
  <2> QED BY <1>2, <2>1, <2>2, CoinsStep
<1>5. IndexInv'
  BY ZenonT(30), <1>1, <1>2 DEF IndexInv, Flushing, TypeOK
<1>6. ReplayInv'
  BY ZenonT(30), <1>1, <1>2 DEF ReplayInv
<1> QED BY <1>3, <1>4, <1>5, <1>6 DEF IndInv

LEMMA WriteFinalBatchInv == ASSUME IndInv, WriteFinalBatch PROVE IndInv'
<1>1. TypeOK /\ CoinsInv /\ IndexInv /\ ReplayInv
  BY DEF IndInv
<1>2. /\ phase \in {"flush", "stop", "replay"}
      /\ db' = [k \in Key |-> IF k \in todo THEN mem[k] ELSE db[k]]
      /\ dbBest' = tip /\ heads' = <<>> /\ Flushed
      /\ whole' = whole /\ indexed' = indexed /\ stored' = stored
      /\ exposed' = exposed /\ skipped' = skipped /\ unclaimed' = unclaimed /\ crashes' = crashes
  BY ZenonT(30) DEF WriteFinalBatch, history
<1>3. /\ tip # Null /\ tip \in indexed /\ CoinsOf(mem, tip) /\ FreshChain(tip) /\ tip \in Block
      /\ \A k \in Key \ todo : db[k] = mem[k]
  BY <1>1, <1>2 DEF CoinsInv, IndexInv, Flushing, TypeOK
<1>4. db' = mem
  <2>1. mem = [k \in Key |-> mem[k]]
    BY <1>1 DEF TypeOK
  <2>2. \A k \in Key : (IF k \in todo THEN mem[k] ELSE db[k]) = mem[k]
    BY ZenonT(30), <1>3
  <2> QED BY ZenonT(30), <1>2, <2>1, <2>2
<1>5. db' \in [Key -> Value] /\ CoinsOf(db', dbBest') /\ crashes' \in 0..MaxCrashes
  BY Zenon, <1>1, <1>2, <1>3, <1>4 DEF TypeOK, Value
<1>6. CASE phase = "stop"
  <2>1. Down
    BY ZenonT(30), <1>2, <1>6 DEF Flushed
  <2> QED BY Zenon, <1>2, <1>3, <1>5, <2>1, DownInv
<1>7. CASE phase = "flush"
  <2>1. /\ phase' = "run" /\ todo' = {} /\ known' = known /\ mem' = mem /\ tip' = tip
        /\ dirty' = dirty /\ trimmed' = trimmed /\ best' = best /\ nMinTrimHeight' = nMinTrimHeight
    BY Zenon, <1>2, <1>7 DEF Flushed
  <2>2. TypeOK'
    <3>1. exposed' \in BOOLEAN /\ skipped' \in BOOLEAN /\ unclaimed' \in BOOLEAN
      BY <1>1, <1>2 DEF TypeOK
    <3>2. db' \in [Key -> Nat \cup {Claimed, Null}] /\ todo' \subseteq Key
      BY <1>5, <2>1 DEF Value
    <3> QED BY ZenonT(30), <1>1, <1>2, <1>3, <2>1, <3>1, <3>2 DEF TypeOK
  <2>3. CoinsInv'
    <3>1. CoinsOf(mem, tip)'
      BY ZenonT(30), <1>2, <1>3, <2>1, CoinsKept
    <3> QED BY ZenonT(30), <1>2, <1>3, <1>5, <2>1, <3>1, CoinsStep
  <2>4. IndexInv'
    BY Zenon, <1>1, <1>2, <1>3, <2>1 DEF IndexInv, Flushing
  <2>5. ReplayInv'
    <3>1. ReplayReads(tip, tip) = {}
      BY ZenonT(30), <1>3, ReadsSame
    <3> QED BY ZenonT(30), <1>2, <1>3, <2>1, <3>1 DEF ReplayInv
  <2> QED BY <2>2, <2>3, <2>4, <2>5 DEF IndInv
<1>8. CASE phase = "replay"
  <2>1. /\ phase' = "load" /\ todo' = {} /\ known' = known /\ mem' = Empty /\ tip' = Null
        /\ dirty' = dirty /\ trimmed' = trimmed /\ best' = best /\ nMinTrimHeight' = nMinTrimHeight
    BY Zenon, <1>2, <1>8 DEF Flushed
  <2>2. TypeOK'
    <3>1. exposed' \in BOOLEAN /\ skipped' \in BOOLEAN /\ unclaimed' \in BOOLEAN
      BY <1>1, <1>2 DEF TypeOK
    <3>2. /\ db' \in [Key -> Nat \cup {Claimed, Null}] /\ todo' \subseteq Key
          /\ mem' \in [Key -> Nat \cup {Claimed, Null}]
      BY ZenonT(30), <1>5, <2>1 DEF Value, Empty
    <3> QED BY ZenonT(30), <1>1, <1>2, <1>3, <2>1, <3>1, <3>2 DEF TypeOK
  <2>3. CoinsInv'
    <3>1. FreshChain(tip')
      BY ZenonT(30), <2>1 DEF FreshChain
    <3> QED BY ZenonT(30), <1>2, <1>3, <1>5, <2>1, <3>1, CoinsStep
  <2>4. IndexInv'
    BY ZenonT(30), <1>1, <1>2, <1>3, <1>8, <2>1 DEF IndexInv, Flushing
  <2>5. ReplayInv'
    BY ZenonT(30), <1>2, <2>1 DEF ReplayInv
  <2> QED BY <2>2, <2>3, <2>4, <2>5 DEF IndInv
<1> QED BY ZenonT(30), <1>2, <1>6, <1>7, <1>8

LEMMA CrashInv == ASSUME IndInv, Crash PROVE IndInv'
<1>1. TypeOK /\ CoinsInv /\ IndexInv
  BY DEF IndInv
<1>2. /\ crashes < MaxCrashes /\ crashes' = crashes + 1 /\ Down
      /\ db' = db /\ dbBest' = dbBest /\ heads' = heads
      /\ whole' = whole /\ indexed' = indexed /\ stored' = stored
      /\ exposed' = exposed /\ skipped' = skipped /\ unclaimed' = unclaimed
  BY ZenonT(30) DEF Crash, diskVars
<1>3. crashes' \in 0..MaxCrashes
  BY <1>1, <1>2, CoinsAssumption DEF TypeOK
<1>4. db' \in [Key -> Value] /\ dbBest' \in Block \cup {Null} /\ dbBest' \in indexed \cup {Null}
  BY Zenon, <1>1, <1>2 DEF TypeOK, IndexInv, Value
<1>5. /\ FreshChain(dbBest')
      /\ heads' = <<>> => CoinsOf(db', dbBest')
      /\ heads' # <<>> => db' = db /\ dbBest' = Null
  BY ZenonT(30), <1>1, <1>2 DEF CoinsInv
<1> QED BY ZenonT(30), <1>2, <1>3, <1>4, <1>5, DownInv

LEMMA IndexLoaded ==
    ASSUME TypeOK, IndexInv, phase \in {"down", "failed"}, LoadBlockIndex, indexed' = indexed
    PROVE  /\ whole' = whole /\ nMinTrimHeight' = 0 /\ best' \in indexed
           /\ dirty' \subseteq indexed /\ trimmed' \subseteq indexed /\ indexed \cup dirty' = indexed
           /\ known \subseteq indexed /\ best' \in Block /\ dirty' \subseteq Block
BY ZenonT(30) DEF LoadBlockIndex, IndexInv, TypeOK

LEMMA StartConsistentInv == ASSUME IndInv, StartConsistent PROVE IndInv'
<1>1. TypeOK /\ CoinsInv /\ IndexInv /\ ReplayInv
  BY DEF IndInv
<1>2. /\ phase \in {"down", "failed"} /\ heads = <<>> /\ LoadBlockIndex /\ phase' = "load"
      /\ db' = db /\ dbBest' = dbBest /\ heads' = heads
      /\ indexed' = indexed /\ stored' = stored /\ known' = known /\ todo' = todo
      /\ mem' = mem /\ tip' = tip
      /\ exposed' = exposed /\ skipped' = skipped /\ unclaimed' = unclaimed /\ crashes' = crashes
  BY Zenon DEF StartConsistent, diskVars, history
<1>5. /\ whole' = whole /\ nMinTrimHeight' = 0 /\ best' \in indexed
      /\ dirty' \subseteq indexed /\ trimmed' \subseteq indexed /\ indexed \cup dirty' = indexed
      /\ known \subseteq indexed /\ best' \in Block /\ dirty' \subseteq Block
  BY Zenon, <1>1, <1>2, IndexLoaded
<1>6. CoinsOf(db, dbBest) /\ FreshChain(dbBest) /\ FreshChain(tip) /\ tip = Null
  BY Zenon, <1>1, <1>2 DEF CoinsInv, IndexInv
<1>7. TypeOK'
  <2>1. exposed' \in BOOLEAN /\ skipped' \in BOOLEAN /\ unclaimed' \in BOOLEAN
    BY ZenonT(30), <1>1, <1>2 DEF TypeOK
  <2> QED BY ZenonT(30), <1>1, <1>2, <1>5, <2>1 DEF TypeOK
<1>8. CoinsInv'
  BY ZenonT(30), <1>2, <1>6, CoinsStep
<1>9. IndexInv'
  BY ZenonT(30), <1>1, <1>2, <1>5, <1>6 DEF IndexInv, Flushing
<1>10. ReplayInv'
  BY Zenon, <1>2 DEF ReplayInv
<1> QED BY <1>7, <1>8, <1>9, <1>10 DEF IndInv

(* The best block of the coins is in the index, and VerifyDB undoes the last *)
(* blocks cleanly.                                                           *)
LEMMA LoadChainTipInv == ASSUME IndInv, LoadChainTip PROVE IndInv'
<1>1. TypeOK /\ CoinsInv /\ IndexInv /\ ReplayInv
  BY DEF IndInv
<1>2. /\ phase = "load"
      /\ db' = db /\ dbBest' = dbBest /\ heads' = heads
      /\ whole' = whole /\ dirty' = dirty /\ trimmed' = trimmed /\ best' = best
      /\ nMinTrimHeight' = nMinTrimHeight
      /\ indexed' = indexed /\ stored' = stored /\ known' = known /\ todo' = todo
      /\ exposed' = exposed /\ skipped' = skipped /\ unclaimed' = unclaimed /\ crashes' = crashes
  BY Zenon DEF LoadChainTip, diskVars, headerVars, history
<1>3. dbBest \in indexed \cup {Null} /\ dbBest \in Block \cup {Null} /\ tip = Null /\ heads = <<>>
  BY Zenon, <1>1, <1>2 DEF IndexInv, TypeOK, CoinsInv
<1>4. CoinsOf(db, dbBest) /\ FreshChain(dbBest) /\ FreshChain(tip)
  BY Zenon, <1>1, <1>3 DEF CoinsInv
<1>5. \/ phase' = "run" /\ mem' = db /\ tip' = dbBest
      \/ phase' = "failed" /\ mem' = mem /\ tip' = tip /\ unclaimed
  <2>1. PICK n \in 0..nCheckDepth :
           IF dbBest = Null \/ (dbBest \in indexed /\ VerifyDB(n, dbBest))
           THEN phase' = "run" /\ mem' = db /\ tip' = dbBest
           ELSE phase' = "failed" /\ UNCHANGED <<mem, tip>>
    BY Zenon DEF LoadChainTip
  <2>2. dbBest = Null \/ (dbBest \in indexed /\ VerifyDB(n, dbBest)) \/ unclaimed
    BY Zenon, <1>3, <1>4, VerifyDBSucceeds
  <2> QED BY Zenon, <2>1, <2>2
<1>6. TypeOK'
  <2>1. exposed' \in BOOLEAN /\ skipped' \in BOOLEAN /\ unclaimed' \in BOOLEAN
    BY ZenonT(30), <1>1, <1>2 DEF TypeOK
  <2>2. mem' \in [Key -> Nat \cup {Claimed, Null}] /\ tip' \in Block \cup {Null}
    BY Zenon, <1>1, <1>5 DEF TypeOK
  <2>3. phase' \in {"run", "flush", "stop", "down", "replay", "load", "failed"}
    BY <1>5
  <2> QED BY ZenonT(30), <1>1, <1>2, <2>1, <2>2, <2>3 DEF TypeOK
<1>7. CoinsInv'
  <2>1. CASE phase' = "run" /\ mem' = db /\ tip' = dbBest
    <3>1. CoinsOf(mem, tip)'
      BY ZenonT(30), <1>2, <1>4, <2>1, CoinsKept
    <3> QED BY ZenonT(30), <1>2, <1>3, <1>4, <2>1, <3>1, CoinsStep
  <2>2. CASE phase' = "failed" /\ mem' = mem /\ tip' = tip
    BY ZenonT(30), <1>2, <1>3, <1>4, <2>2, CoinsStep
  <2> QED BY ZenonT(30), <1>5, <2>1, <2>2
<1>8. IndexInv'
  BY ZenonT(30), <1>1, <1>2, <1>3, <1>5 DEF IndexInv, Flushing
<1>9. ReplayInv'
  <2>1. ReplayReads(dbBest, dbBest) = {}
    BY <1>3, ReadsSame
  <2> QED BY ZenonT(30), <1>2, <1>3, <1>5, <2>1 DEF ReplayInv
<1> QED BY <1>6, <1>7, <1>8, <1>9 DEF IndInv

LEMMA StartReplayInv == ASSUME IndInv, StartReplay PROVE IndInv'
<1> DEFINE old == heads[2]
           new == heads[1]
<1>1. TypeOK /\ CoinsInv /\ IndexInv /\ ReplayInv
  BY DEF IndInv
<1>2. /\ phase \in {"down", "failed"} /\ heads # <<>> /\ LoadBlockIndex
      /\ db' = db /\ dbBest' = dbBest /\ heads' = heads
      /\ indexed' = indexed /\ stored' = stored /\ known' = known
      /\ exposed' = exposed /\ crashes' = crashes
  BY Zenon DEF StartReplay, diskVars
<1>3. new \in indexed /\ old \in indexed \cup {Null} /\ new \in Block /\ old \in Block \cup {Null} /\ new # Null
  BY ZenonT(30), <1>1, <1>2, CoinsAssumption DEF IndexInv, TypeOK
<1>4. dbBest = Null /\ Mixed(db, old, new) /\ FreshChain(old) /\ FreshChain(new) /\ FreshChain(dbBest)
  BY Zenon, <1>1, <1>2 DEF CoinsInv
<1>5. /\ whole' = whole /\ nMinTrimHeight' = 0 /\ best' \in indexed
      /\ dirty' \subseteq indexed /\ trimmed' \subseteq indexed /\ indexed \cup dirty' = indexed
      /\ known \subseteq indexed /\ best' \in Block /\ dirty' \subseteq Block
  BY Zenon, <1>1, <1>2, IndexLoaded
<1>6. ReplayReads(old, new) \subseteq stored \/ exposed
  BY ZenonT(30), <1>1, <1>2 DEF ReplayInv
<1>7. CASE ReplayReads(old, new) \subseteq stored
  <2>1. /\ phase' = "replay" /\ mem' = ReplayedCoins(db, old, new) /\ tip' = new
        /\ todo' = {k \in Key : mem'[k] # db[k]}
        /\ skipped' = (skipped \/ (old = Null /\ ConnectGenesisOutputs))
        /\ unclaimed' = (unclaimed \/ \E p \in Pegin : StateAt[new][p] = Claimed /\ mem'[p] # Claimed)
    BY Zenon, <1>3, <1>7 DEF StartReplay
  <2> HIDE DEF old, new
  <2>2. TypeOK'
    <3>1. mem' \in [Key -> Nat \cup {Claimed, Null}]
      BY ZenonT(30), <1>1, <1>3, <2>1, ReplayType DEF TypeOK, Value
    <3>2. exposed' \in BOOLEAN /\ skipped' \in BOOLEAN /\ unclaimed' \in BOOLEAN
      BY ZenonT(30), <1>1, <1>2, <2>1, CoinsAssumption DEF TypeOK
    <3>3. todo' \subseteq Key
      BY Zenon, <2>1
    <3> QED BY ZenonT(30), <1>1, <1>2, <1>3, <1>5, <2>1, <3>1, <3>2, <3>3 DEF TypeOK
  <2>3. CoinsInv'
    <3>1. skipped' \in BOOLEAN /\ (skipped \/ (old = Null /\ ConnectGenesisOutputs) => skipped')
      BY Zenon, <1>1, <2>1, CoinsAssumption DEF TypeOK
    <3>2. \A o \in Outpoint : mem'[o] = Coins(new)[o] \/ (skipped' /\ o \in GenesisOutputs /\ mem'[o] = Null)
      BY ZenonT(30), <1>3, <1>4, <2>1, <3>1, ReplayOutpoints
    <3>3. \A p \in Pegin : mem'[p] = Claimed => Coins(new)[p] = Claimed
      BY Zenon, <1>3, <1>4, <2>1, ReplayPegins
    <3>7. /\ unclaimed => unclaimed'
          /\ \A p \in Pegin : Coins(new)[p] = Claimed => mem'[p] = Claimed \/ unclaimed'
      BY Zenon, <1>3, <2>1 DEF Coins
    <3>4. CoinsOf(mem, tip)'
      BY ZenonT(30), <2>1, <3>2, <3>3, <3>7 DEF CoinsOf, Coins
    <3>5. \A k \in Key \ todo' : db'[k] = mem'[k]
      BY ZenonT(30), <1>2, <2>1
    <3>6. Mixed(db', heads'[2], heads'[1]) /\ FreshChain(heads'[2]) /\ FreshChain(heads'[1]) /\ heads'[1] = tip'
      BY ZenonT(30), <1>2, <1>4, <2>1 DEF old, new
    <3> QED BY ZenonT(30), <1>2, <1>3, <1>4, <2>1, <3>1, <3>4, <3>5, <3>6, <3>7, CoinsStep
  <2>4. IndexInv'
    BY ZenonT(30), <1>1, <1>2, <1>3, <1>5, <2>1 DEF IndexInv, Flushing
  <2>5. ReplayInv'
    BY ZenonT(30), <1>1, <1>2, <2>1 DEF ReplayInv
  <2> QED BY <2>2, <2>3, <2>4, <2>5 DEF IndInv
<1>8. CASE ~(ReplayReads(old, new) \subseteq stored)
  <2>1. /\ phase' = "failed" /\ mem' = mem /\ tip' = tip /\ todo' = todo /\ skipped' = skipped
        /\ unclaimed' = unclaimed
    BY ZenonT(30), <1>3, <1>8 DEF StartReplay
  <2>2. tip = Null
    BY Zenon, <1>1, <1>2 DEF IndexInv
  <2>3. TypeOK'
    <3>1. exposed' \in BOOLEAN /\ skipped' \in BOOLEAN /\ unclaimed' \in BOOLEAN
      BY ZenonT(30), <1>1, <1>2, <2>1 DEF TypeOK
    <3> QED BY ZenonT(30), <1>1, <1>2, <1>5, <2>1, <3>1 DEF TypeOK
  <2>4. CoinsInv'
    <3>1. FreshChain(tip')
      BY ZenonT(30), <2>1, <2>2 DEF FreshChain
    <3> QED BY ZenonT(30), <1>2, <1>4, <2>1, <3>1, CoinsStep
  <2>5. IndexInv'
    BY ZenonT(30), <1>1, <1>2, <1>5, <2>1, <2>2 DEF IndexInv, Flushing
  <2>6. ReplayInv'
    BY ZenonT(30), <1>1, <1>2, <1>6, <1>8, <2>1 DEF ReplayInv
  <2> QED BY <2>3, <2>4, <2>5, <2>6 DEF IndInv
<1> QED BY <1>7, <1>8

LEMMA StutterInv == ASSUME IndInv, UNCHANGED vars PROVE IndInv'
<1>1. TypeOK /\ CoinsInv /\ IndexInv /\ ReplayInv
  BY ZenonT(30) DEF IndInv
<1>2. TypeOK'
  BY <1>1 DEF TypeOK, vars, diskVars, headerVars, history
<1>3. CoinsInv'
  <2>1. /\ skipped' = skipped /\ unclaimed' = unclaimed /\ phase' = phase /\ heads' = heads /\ tip' = tip /\ todo' = todo
        /\ db' = db /\ mem' = mem /\ dbBest' = dbBest
    BY DEF vars, diskVars, history
  <2>2. CoinsOf(mem', tip') => CoinsOf(mem, tip)'
    BY Zenon, <2>1, CoinsKept
  <2> QED BY ZenonT(30), <1>1, <2>1, <2>2, CoinsStep DEF CoinsInv, Flushing
<1>4. IndexInv'
  BY Zenon, <1>1 DEF IndexInv, Flushing, vars, diskVars, headerVars
<1>5. ReplayInv'
  BY Zenon, <1>1 DEF ReplayInv, OldTip, vars, diskVars, history
<1> QED BY <1>2, <1>3, <1>4, <1>5 DEF IndInv

LEMMA NextInv == IndInv /\ [Next]_vars => IndInv'
<1> SUFFICES ASSUME IndInv, [Next]_vars PROVE IndInv'
  OBVIOUS
<1>1. ASSUME NEW b \in Block, ConnectTip(b) PROVE IndInv'
  BY <1>1, ConnectTipInv
<1>2. CASE DisconnectTip
  <2>1. CASE tip \in known /\ DisconnectsClean(mem, tip)
    BY <1>2, <2>1, DisconnectTipInv
  <2>2. CASE ~(tip \in known /\ DisconnectsClean(mem, tip))
    <3>1. Stop
      BY <1>2, <2>2 DEF DisconnectTip
    <3> QED BY ZenonT(30), <3>1, StopInv
  <2> QED BY <2>1, <2>2
<1>3. CASE PeriodicWrite
  BY <1>3, PeriodicWriteInv
<1>4. CASE FullFlush
  BY ZenonT(30), <1>4, FullFlushInv
<1>5. CASE PruneAndFlush
  BY <1>5, PruneAndFlushInv
<1>6. CASE Stop
  BY <1>6, StopInv
<1>7. ASSUME NEW k \in Key, WritePartialBatch(k) PROVE IndInv'
  BY ZenonT(30), <1>7, WritePartialBatchInv
<1>8. CASE WriteFinalBatch
  BY <1>8, WriteFinalBatchInv
<1>9. CASE Crash
  BY <1>9, CrashInv
<1>10. CASE StartConsistent
  BY <1>10, StartConsistentInv
<1>11. CASE StartReplay
  BY <1>11, StartReplayInv
<1>13. CASE LoadChainTip
  BY <1>13, LoadChainTipInv
<1>12. CASE UNCHANGED vars
  BY <1>12, StutterInv
<1> QED BY ZenonT(30), <1>1, <1>2, <1>3, <1>4, <1>5, <1>6, <1>7, <1>8, <1>9, <1>10, <1>11, <1>12, <1>13 DEF Next

LEMMA Invariance == Spec => []IndInv
BY InitInv, NextInv, PTL DEF Spec
-----------------------------------------------------------------------------
(* The type invariant. *)
THEOREM RecoveryTypeCorrect == Spec => []TypeOK
<1>1. IndInv => TypeOK
  BY ZenonT(30) DEF IndInv
<1> QED BY <1>1, Invariance, PTL

(* Whatever flushes and replays a crash interrupted, in whichever batch, the *)
(* coins of the best block that the database names, and those of the running *)
(* node, are the ones that the blocks up to it leave; the exceptions are the *)
(* genesis outputs that ReplayBlocks does not redo when there was no old tip *)
(* and the peg-ins that RollforwardBlock leaves unclaimed.                   *)
THEOREM CoinsAlwaysRecovered == Spec => []CoinsRecovered
<1>1. IndInv => CoinsRecovered
  BY DEF IndInv, CoinsInv, CoinsRecovered
<1> QED BY <1>1, Invariance, PTL

(* ReplayBlocks, LoadChainTip and VerifyDB fail only after a crash in a     *)
(* flush that itself unlinked a block file between the old tip and the new  *)
(* one, or once a replay has left a peg-in of its chain unclaimed.          *)
THEOREM StartsUnlessPruned == Spec => []StartSucceeds
<1>1. IndInv => StartSucceeds
  BY Zenon DEF IndInv, ReplayInv, StartSucceeds
<1> QED BY <1>1, Invariance, PTL

(* DisconnectBlock of the tip is clean on the coins of the running node,     *)
(* whatever crashes and replays came before, unless a replay has left a      *)
(* peg-in unclaimed: a reorganization never aborts the node for its coins.   *)
THEOREM TipAlwaysDisconnects == Spec => []TipDisconnects
<1>1. IndInv => TipDisconnects
  <2> SUFFICES ASSUME IndInv, phase = "run", tip \notin {Null, Genesis}, ~unclaimed
               PROVE  DisconnectsClean(mem, tip)
    BY ZenonT(30) DEF TipDisconnects
  <2>1. tip \in Block \ {Genesis} /\ CoinsOf(mem, tip) /\ FreshChain(tip)
    BY DEF IndInv, TypeOK, CoinsInv
  <2>2. Legal(tip)
    BY ZenonT(30), <2>1, AncestorsUnfold DEF FreshChain
  <2> QED BY Zenon, <2>1, <2>2, DisconnectClean
<1> QED BY <1>1, Invariance, PTL

(* The header that trim() drops is always on disk, and WriteBlockIndexDB     *)
(* never writes an entry without it.                                         *)
THEOREM HeadersNeverLost == Spec => []HeadersKept
<1>1. IndInv => HeadersKept
  BY DEF IndInv, IndexInv, TypeOK, HeadersKept
<1> QED BY <1>1, Invariance, PTL
=============================================================================
