------------------------- MODULE FilterIndexProofs -------------------------
(***************************************************************************)
(* FilterIndex for every block tree, every number of moves of the tip,     *)
(* flushes, restarts and filters: kept filters are found, the best block   *)
(* is indexed, FatalError needs a lost block, and a reader gets its tip.   *)
(***************************************************************************)
EXTENDS FilterIndex, BlockTreeProofs

-----------------------------------------------------------------------------
(* Chains that may be empty. *)

(* A chain holds blocks only, its last one and genesis among them. *)
LEMMA ChainType ==
    ASSUME NEW b \in Place
    PROVE  /\ Chain(b) \subseteq Block
           /\ b # None => b \in Block /\ b \in Chain(b) /\ Genesis \in Chain(b)
           /\ b = None => Chain(b) = {}
BY AncestorsType DEF Chain, Place

(* The chain of a block of a chain is part of it. *)
LEMMA ChainTrans ==
    ASSUME NEW b \in Place, NEW a \in Chain(b)
    PROVE  a \in Block /\ a # None /\ Chain(a) \subseteq Chain(b)
<1>1. b \in Block /\ a \in Ancestors[b]
  BY DEF Chain, Place
<1>2. a \in Block /\ Ancestors[a] \subseteq Ancestors[b]
  BY <1>1, AncestorsType, AncestorsTrans
<1> QED BY <1>1, <1>2, NoneAssumption DEF Chain

(* pprev takes off the last block. *)
LEMMA PrevIs ==
    ASSUME NEW b \in Block
    PROVE  /\ b # None /\ Prev(b) \in Place /\ (Prev(b) = None <=> b = Genesis)
           /\ Chain(b) = {b} \cup Chain(Prev(b))
           /\ b \notin Chain(Prev(b))
           /\ HeightOf(Prev(b)) = Height[b] - 1
           /\ Height[b] \in Nat /\ Height[b] \in Heights
<1>1. b # None
  BY NoneAssumption
<1>2. CASE b = Genesis
  BY <1>1, <1>2, AncestorsUnfold, HeightUnfold DEF Prev, Place, Chain, HeightOf, Heights
<1>3. CASE b # Genesis
  <2>1. Parent[b] \in Block /\ Parent[b] # None /\ Prev(b) = Parent[b]
    BY <1>3, AncestorsUnfold, NoneAssumption DEF Prev
  <2>2. Ancestors[b] = {b} \cup Ancestors[Parent[b]] /\ b \notin Ancestors[Parent[b]]
    BY <1>3, AncestorsUnfold, Acyclic
  <2>3. Height[b] = Height[Parent[b]] + 1 /\ Height[b] \in Nat /\ Height[Parent[b]] \in Nat
    BY <1>3, <2>1, HeightUnfold
  <2> QED BY <1>1, <1>3, <2>1, <2>2, <2>3 DEF Place, Chain, HeightOf, Heights
<1> QED BY <1>2, <1>3

(* The heights along a chain. *)
LEMMA ChainHeights ==
    ASSUME NEW b \in Place
    PROVE  /\ HeightOf(b) \in Int /\ HeightOf(b) >= -1
           /\ HeightOf(b) = -1 <=> b = None
           /\ \A a \in Chain(b) : Height[a] \in Nat /\ Height[a] <= HeightOf(b)
           /\ \A a, c \in Chain(b) : Height[a] = Height[c] => a = c
           /\ \A h \in 0..HeightOf(b) : \E a \in Chain(b) : Height[a] = h
<1>1. CASE b = None
  BY <1>1 DEF Chain, HeightOf
<1>2. CASE b # None
  <2>1. b \in Block /\ Chain(b) = Ancestors[b] /\ HeightOf(b) = Height[b] /\ Height[b] \in Nat
    BY <1>2, HeightUnfold DEF Place, Chain, HeightOf
  <2>2. \A a \in Ancestors[b] : a \in Block /\ Height[a] \in Nat /\ Height[a] <= Height[b]
    BY <2>1, AncestorsLower, HeightUnfold
  <2>3. ASSUME NEW a \in Ancestors[b], NEW c \in Ancestors[b], Height[a] = Height[c]
        PROVE  a = c
    <3>1. a \in Ancestors[c]
      BY <2>1, <2>2, <2>3, AncestorsLinear
    <3> QED BY <2>2, <2>3, <3>1, AncestorsLower
  <2>4. ASSUME NEW h \in 0..Height[b] PROVE \E a \in Ancestors[b] : Height[a] = h
    BY <2>1, AncestorAt
  <2> QED BY <1>2, <2>1, <2>2, <2>3, <2>4
<1> QED BY <1>1, <1>2

(* GetAncestor finds the block of the chain at a height, if there is one. *)
LEMMA GetAncestorIs ==
    ASSUME NEW b \in Place, NEW h \in Int
    PROVE  /\ h \in 0..HeightOf(b) => GetAncestor(b, h) \in Chain(b) /\ Height[GetAncestor(b, h)] = h
           /\ h \notin 0..HeightOf(b) => GetAncestor(b, h) = None
BY ChainHeights DEF GetAncestor

(* It is the block of the chain at that height. *)
LEMMA AncestorAtHeight ==
    ASSUME NEW b \in Place, NEW a \in Block
    PROVE  GetAncestor(b, Height[a]) = a <=> a \in Chain(b)
<1>1. Height[a] \in Nat
  BY HeightUnfold
<1>2. ASSUME a \in Chain(b) PROVE GetAncestor(b, Height[a]) = a
  <2>1. Height[a] \in 0..HeightOf(b)
    BY <1>1, <1>2, ChainHeights
  <2>2. GetAncestor(b, Height[a]) \in Chain(b) /\ Height[GetAncestor(b, Height[a])] = Height[a]
    BY <1>1, <2>1, GetAncestorIs
  <2> QED BY <1>2, <2>2, ChainHeights
<1>3. ASSUME GetAncestor(b, Height[a]) = a PROVE a \in Chain(b)
  BY <1>1, <1>3, GetAncestorIs, NoneAssumption
<1> QED BY <1>2, <1>3

(* A block connects to a chain that holds its parent. *)
LEMMA ConnectsIs ==
    ASSUME NEW c \in Block, NEW b \in Block \ {Genesis}
    PROVE  GetAncestor(c, Height[b] - 1) = Prev(b) <=> Prev(b) \in Chain(c)
<1>1. Prev(b) \in Block /\ Height[Prev(b)] = Height[b] - 1
  BY PrevIs DEF Place, HeightOf
<1> QED BY <1>1, AncestorAtHeight DEF Place

(* The fork of two chains has the blocks that both have. *)
LEMMA FindForkIs ==
    ASSUME NEW a \in Place, NEW b \in Place
    PROVE  /\ FindFork(a, b) \in Place
           /\ Chain(FindFork(a, b)) = Chain(a) \cap Chain(b)
           /\ FindFork(a, b) = None <=> a = None \/ b = None
<1>1. CASE None \in {a, b}
  BY <1>1 DEF FindFork, Chain, Place
<1>2. CASE None \notin {a, b}
  <2>1. a \in Block /\ b \in Block /\ FindFork(a, b) = Fork(a, b)
    BY <1>2 DEF Place, FindFork
  <2>2. Fork(a, b) \in Block /\ Ancestors[Fork(a, b)] = Ancestors[a] \cap Ancestors[b]
    BY <2>1, ForkExists
  <2> QED BY <1>2, <2>1, <2>2, NoneAssumption DEF Place, Chain
<1> QED BY <1>1, <1>2

(* Chains are told apart by their blocks. *)
LEMMA ChainInjective ==
    ASSUME NEW a \in Place, NEW b \in Place, Chain(a) = Chain(b)
    PROVE  a = b
<1>1. CASE a = None \/ b = None
  BY <1>1, ChainType
<1>2. CASE a # None /\ b # None
  <2>1. a \in Ancestors[b] /\ b \in Ancestors[a] /\ a \in Block /\ b \in Block
    BY <1>2, ChainType DEF Chain
  <2> QED BY <2>1, AncestorsLower, HeightUnfold
<1> QED BY <1>1, <1>2

(* The block after a fork f of a chain with t. *)
LEMMA AfterFork ==
    ASSUME NEW t \in Block, NEW f \in Place, Chain(f) \subseteq Chain(t), f # t,
           NEW n, n = GetAncestor(t, HeightOf(f) + 1)
    PROVE  n \in Chain(t) /\ Prev(n) = f
<1>1. HeightOf(t) = Height[t] /\ Height[t] \in Nat
  BY PrevIs DEF HeightOf
<1>2. HeightOf(f) + 1 \in 0..HeightOf(t)
  <2>1. CASE f = None
    BY <1>1, <2>1 DEF HeightOf
  <2>2. CASE f # None
    <3>1. f \in Chain(t) /\ HeightOf(f) = Height[f] /\ Height[f] \in Nat /\ f \in Block
      BY <2>2, ChainType, PrevIs DEF HeightOf, Place
    <3>2. Height[f] <= Height[t] /\ Height[f] # Height[t]
      BY <1>1, <3>1, ChainHeights, ChainType, PrevIs DEF Place
    <3> QED BY <1>1, <3>1, <3>2
  <2> QED BY <2>1, <2>2
<1>3. n \in Chain(t) /\ Height[n] = HeightOf(f) + 1 /\ n \in Block
  BY <1>2, GetAncestorIs, ChainHeights, ChainType DEF Place
<1>4. Prev(n) \in Place /\ HeightOf(Prev(n)) = HeightOf(f) /\ Chain(Prev(n)) \subseteq Chain(t)
  BY <1>3, PrevIs, ChainTrans, ChainHeights DEF Place
<1>5. CASE f = None
  BY <1>3, <1>4, <1>5, ChainHeights
<1>6. CASE f # None
  <2>1. Prev(n) # None
    BY <1>4, <1>6, ChainHeights
  <2>2. Prev(n) \in Chain(t) /\ f \in Chain(t)
    BY <1>4, <1>6, <2>1, ChainType
  <2>3. Height[Prev(n)] = Height[f]
    BY <1>4, <1>6, <2>1 DEF HeightOf
  <2> QED BY <1>3, <2>2, <2>3, ChainHeights DEF Place
<1> QED BY <1>3, <1>5, <1>6
-----------------------------------------------------------------------------
(* The last block whose indexing is finished. *)
Done == IF pc = "end" THEN best
        ELSE IF pc \in {"publish", "write"} THEN Prev(pindex) ELSE pindex

(* The tables whatever was lost: entries are at the height of their block,  *)
(* and the table by hash only has blocks of heights that were reached.      *)
Shape ==
    /\ dbPos <= pos
    /\ \A h \in Heights : byHeight[h] # None => Height[byHeight[h].block] = h
    /\ \A b \in Block : byHash[b] # None => byHeight[Height[b]] # None

(* Rewinding from one block to another finds every entry in between copied. *)
Copied(from, to) == \A b \in Chain(from) \ Chain(to) : byHash[b] # None

(* Where the sync thread and the callback are. *)
Control ==
    /\ synced => pc = "end"
    /\ pc \in {"publish", "write"} => pindex # None
    /\ Chain(best) \subseteq Chain(Done) \cup (IF pc = "write" THEN {pindex} ELSE {})
    /\ pc = "rewind" /\ alive =>
         /\ pindex = best
         /\ pindex # None /\ NextSyncBlock(pindex) \notin {None, Genesis}
         /\ Prev(NextSyncBlock(pindex)) \in Chain(pindex)
    /\ cb # "idle" =>
         /\ synced /\ best # None
         /\ queue # <<>> /\ Front.type = "connected" /\ Front.block # Genesis
    /\ cb = "commit" => Prev(Front.block) \in Chain(best)
    /\ cb = "write" => best = Prev(Front.block)

(* The first n notifications end in t: after one of a block, those of the   *)
(* blocks of t's chain that this block's chain lacks are still to come.     *)
Ordered(q, n, t) ==
    \A i \in 1..n : q[i].type = "connected" =>
        \A y \in Chain(t) \ Chain(q[i].block) : \E j \in 1..n : i < j /\ q[j] = Note("connected", y)

(* They bring an index at b to t. *)
Brings(q, n, b, t) ==
    \A y \in Chain(t) \ Chain(b) : \E j \in 1..n : q[j] = Note("connected", y)

(* The backlog of notifications. *)
Backlog ==
    /\ Ordered(queue, Len(queue), tip)
    /\ tip = None => synced /\ best = None /\ queue = <<>>
    /\ \A i \in 1..Len(queue) :
         queue[i] = Note("connected", Genesis) => i = 1 /\ synced /\ best = None

(* While nothing is lost: what is done is stored, what the locator stands   *)
(* for is stored below the stored position, or known not to be, entries by  *)
(* hash are good for ever, and a kept block that the next write at its      *)
(* height would hide has such an entry.                                     *)
Covered(b) == Stored(b) /\ byHeight[Height[b]].pos < dbPos

Reachable(b) ==
    LET e == byHeight[Height[b]]
    IN /\ e # None
       /\ IF e.block = b THEN Stored(b) /\ (b \in Chain(Done) \/ byHash[b] # None)
          ELSE byHash[b] # None

DoneStored == \A b \in Chain(Done) : b \in kept /\ Stored(b)
LocatorCovered == \A b \in Chain(locator) \ uncovered : Covered(b)
HashGood == \A b \in Block : byHash[b] # None => byHash[b] < dbPos /\ file[byHash[b]] = b
KeptReachable == \A b \in kept : Reachable(b)
Tables == DoneStored /\ LocatorCovered /\ HashGood /\ KeptReachable

Sound ==
    /\ ~fatal /\ Tables
    /\ pc = "rewind" /\ alive => Copied(pindex, Prev(NextSyncBlock(pindex)))
    /\ cb = "commit" => Copied(best, Prev(Front.block))
    /\ synced => Brings(queue, Len(queue), best, tip)

(* A reader's tip is indexed, or the notifications it waits for bring it.   *)
Awaited ==
    reader # None =>
        /\ synced
        /\ \/ reader.block \in kept
           \/ /\ 0 < reader.left /\ reader.left <= Len(queue)
              /\ Ordered(queue, reader.left, reader.block)
              /\ Brings(queue, reader.left, best, reader.block)

IndInv ==
    /\ TypeOK /\ Shape /\ Control /\ Backlog
    /\ lost = {} => Sound /\ Awaited
-----------------------------------------------------------------------------
(* The backlog of notifications. *)

Message == [type : {"connected", "flushed"}, block : Block]

(* What the rest of a queue holds. *)
LEMMA TailIs ==
    ASSUME NEW q \in Seq(Message), q # <<>>
    PROVE  /\ Tail(q) \in Seq(Message) /\ Len(Tail(q)) = Len(q) - 1
           /\ Len(q) \in Nat \ {0} /\ Head(q) = q[1]
           /\ \A i \in 1..Len(q) - 1 : Tail(q)[i] = q[i + 1]
           /\ \A i \in 1..Len(q) : q[i] \in Message
OBVIOUS

(* The length of a queue is a natural number. *)
LEMMA LenIs == \A q \in Seq(Message) : Len(q) \in Nat
OBVIOUS

(* A reader that has waited for a callback still waits for the others.      *)
LEMMA WaitsOn ==
    ASSUME NEW r \in [block : Block, left : Nat]
    PROVE  [r EXCEPT !.left = IF @ > 0 THEN @ - 1 ELSE 0] \in [block : Block, left : Nat]
OBVIOUS

(* No height of a chain is below zero. *)
LEMMA BelowZero == 0 - 1 \in Int /\ \A h \in Int : 0 - 1 \notin 0..h
OBVIOUS

(* A message occurs in the rest of a queue if it occurs after the first.    *)
LEMMA TailOccurs ==
    ASSUME NEW q \in Seq(Message), q # <<>>, NEW n \in 1..Len(q), NEW m,
           NEW j \in 1..n, j > 1, q[j] = m
    PROVE  j - 1 \in 1..n - 1 /\ Tail(q)[j - 1] = m
<1>1. Len(q) \in Nat /\ j - 1 \in 1..Len(q) - 1 /\ j - 1 + 1 = j
  BY TailIs
<1> QED BY <1>1, TailIs

(* Popping keeps the order. *)
LEMMA TailOrdered ==
    ASSUME NEW q \in Seq(Message), q # <<>>, NEW n \in 1..Len(q), NEW t \in Place,
           Ordered(q, n, t)
    PROVE  Ordered(Tail(q), n - 1, t)
<1> SUFFICES ASSUME NEW i \in 1..n - 1, Tail(q)[i].type = "connected",
                    NEW y \in Chain(t) \ Chain(Tail(q)[i].block)
             PROVE  \E j \in 1..n - 1 : i < j /\ Tail(q)[j] = Note("connected", y)
  BY DEF Ordered
<1>1. Len(q) \in Nat /\ i \in 1..Len(q) - 1 /\ i + 1 \in 1..n /\ Tail(q)[i] = q[i + 1]
  BY TailIs
<1>2. PICK j \in 1..n : i + 1 < j /\ q[j] = Note("connected", y)
  BY <1>1 DEF Ordered
<1>3. j > 1 /\ i < j - 1
  BY <1>1, <1>2
<1>4. j - 1 \in 1..n - 1 /\ Tail(q)[j - 1] = Note("connected", y)
  BY <1>2, <1>3, TailOccurs
<1> QED BY <1>3, <1>4

(* Once the block of the first notification is indexed, the rest brings the *)
(* index to t.                                                              *)
LEMMA BringsWritten ==
    ASSUME NEW q \in Seq(Message), q # <<>>, NEW n \in 1..Len(q), NEW t \in Place,
           Ordered(q, n, t), q[1].type = "connected"
    PROVE  Brings(Tail(q), n - 1, q[1].block, t)
<1> SUFFICES ASSUME NEW y \in Chain(t) \ Chain(q[1].block)
             PROVE  \E j \in 1..n - 1 : Tail(q)[j] = Note("connected", y)
  BY DEF Brings
<1>1. 1 \in 1..n
  BY TailIs
<1>2. PICK j \in 1..n : 1 < j /\ q[j] = Note("connected", y)
  BY <1>1 DEF Ordered
<1> QED BY <1>2, TailOccurs

(* So it does from the parent of that block, with the first one. *)
LEMMA BringsRewound ==
    ASSUME NEW q \in Seq(Message), q # <<>>, NEW n \in 1..Len(q), NEW t \in Place,
           Ordered(q, n, t), q[1].type = "connected"
    PROVE  Brings(q, n, Prev(q[1].block), t)
<1> SUFFICES ASSUME NEW y \in Chain(t) \ Chain(Prev(q[1].block))
             PROVE  \E j \in 1..n : q[j] = Note("connected", y)
  BY DEF Brings
<1>1. 1 \in 1..n /\ q[1] \in Message
  BY TailIs
<1>2. CASE y \in Chain(q[1].block)
  <2>1. y = q[1].block
    BY <1>1, <1>2, PrevIs DEF Message
  <2>2. q[1] = Note("connected", y)
    BY <1>1, <2>1 DEF Message, Note
  <2> QED BY <1>1, <2>2
<1>3. CASE y \notin Chain(q[1].block)
  BY <1>1, <1>3 DEF Ordered
<1> QED BY <1>2, <1>3

(* A notification that does not connect is not missed: its block, if it is  *)
(* of t's chain at all, comes again after its parent.                       *)
LEMMA BringsIgnored ==
    ASSUME NEW q \in Seq(Message), q # <<>>, NEW n \in 1..Len(q), NEW t \in Place,
           NEW b \in Place, Ordered(q, n, t), Brings(q, n, b, t),
           q[1].type = "connected" => /\ q[1].block # Genesis
                                      /\ Prev(q[1].block) \notin Chain(b)
    PROVE  Brings(Tail(q), n - 1, b, t)
<1> SUFFICES ASSUME NEW y \in Chain(t) \ Chain(b)
             PROVE  \E j \in 1..n - 1 : Tail(q)[j] = Note("connected", y)
  BY DEF Brings
<1>1. PICK j \in 1..n : q[j] = Note("connected", y)
  BY DEF Brings
<1>2. CASE j > 1
  BY <1>1, <1>2, TailOccurs
<1>3. CASE ~(j > 1)
  <2>1. q[1] = Note("connected", y) /\ y \in Block
    BY <1>1, <1>3, TailIs, ChainType
  <2>2. y # Genesis /\ Prev(y) \notin Chain(b)
    BY <2>1 DEF Note
  <2>3. Prev(y) \in Chain(t) /\ Prev(y) \in Block
    <3>1. Prev(y) \in Block /\ Prev(y) \in Chain(y)
      BY <2>1, <2>2, PrevIs, ChainType DEF Place
    <3> QED BY <3>1, ChainTrans
  <2>4. PICK k \in 1..n : q[k] = Note("connected", Prev(y))
    BY <2>2, <2>3 DEF Brings
  <2>5. q[k].type = "connected" /\ q[k].block = Prev(y)
    BY <2>4 DEF Note
  <2>6. y \in Chain(t) \ Chain(q[k].block)
    BY <2>1, <2>5, PrevIs
  <2>7. PICK m \in 1..n : k < m /\ q[m] = Note("connected", y)
    BY <2>5, <2>6 DEF Ordered
  <2>8. m > 1
    BY <2>7
  <2> QED BY <2>7, <2>8, TailOccurs
<1> QED BY <1>2, <1>3

(* What was queued stays when more is queued. *)
LEMMA ConcatIs ==
    ASSUME NEW q \in Seq(Message), NEW s \in Seq(Message)
    PROVE  /\ q \o s \in Seq(Message) /\ Len(q \o s) = Len(q) + Len(s)
           /\ Len(q) \in Nat /\ Len(s) \in Nat
           /\ \A i \in 1..Len(q) : (q \o s)[i] = q[i]
           /\ \A i \in 1..Len(s) : (q \o s)[Len(q) + i] = s[i]
           /\ \A i \in 1..Len(q) + Len(s) : i <= Len(q) \/ i - Len(q) \in 1..Len(s)
OBVIOUS

(* What was queued stays in front. *)
LEMMA Appended ==
    ASSUME NEW q \in Seq(Message), NEW s \in Seq(Message), NEW n \in 0..Len(q),
           NEW b \in Place, NEW t \in Place
    PROVE  /\ Ordered(q, n, t) => Ordered(q \o s, n, t)
           /\ Brings(q, n, b, t) => Brings(q \o s, n, b, t)
<1>1. \A i \in 1..n : (q \o s)[i] = q[i]
  BY ConcatIs
<1> QED BY Zenon, <1>1 DEF Ordered, Brings

(* The notifications of the blocks that lead from t to b. *)
Connecting(t, b) ==
    LET fork == HeightOf(FindFork(t, b))
    IN [i \in 1..(Height[b] - fork) |-> Note("connected", GetAncestor(b, fork + i))]

(* They are those of b's chain above the fork, in its order. *)
LEMMA ConnectingIs ==
    ASSUME NEW t \in Place, NEW b \in Block
    PROVE  /\ Connecting(t, b) \in Seq(Message)
           /\ \A i \in 1..Len(Connecting(t, b)) :
                /\ Connecting(t, b)[i].type = "connected"
                /\ Connecting(t, b)[i].block \in Chain(b)
                /\ Connecting(t, b)[i].block = Genesis => i = 1 /\ t = None
                /\ \A y \in Chain(b) \ Chain(Connecting(t, b)[i].block) :
                     \E j \in 1..Len(Connecting(t, b)) :
                         i < j /\ Connecting(t, b)[j] = Note("connected", y)
           /\ \A y \in Chain(b) \ Chain(t) :
                \E j \in 1..Len(Connecting(t, b)) : Connecting(t, b)[j] = Note("connected", y)
<1> DEFINE f == FindFork(t, b)
           k == HeightOf(f)
           s == Connecting(t, b)
<1>1. f \in Place /\ Chain(f) = Chain(t) \cap Chain(b) /\ (f = None => t = None) /\ b \in Place
  BY FindForkIs, NoneAssumption DEF Place
<1>2. HeightOf(b) = Height[b] /\ Height[b] \in Nat
  BY PrevIs DEF HeightOf
<1>3. k \in Int /\ k >= -1 /\ (k = -1 <=> f = None) /\ k <= Height[b]
  <2>1. CASE f = None
    BY <1>2, <2>1 DEF HeightOf
  <2>2. CASE f # None
    <3>1. f \in Chain(b) /\ k = Height[f]
      BY <1>1, <2>2, ChainType DEF HeightOf
    <3> QED BY <1>1, <1>2, <2>2, <3>1, ChainHeights
  <2> QED BY <2>1, <2>2
<1> HIDE DEF k
<1>4. ASSUME NEW i \in 1..(Height[b] - k)
      PROVE  /\ GetAncestor(b, k + i) \in Chain(b) /\ GetAncestor(b, k + i) \in Block
             /\ Height[GetAncestor(b, k + i)] = k + i
  <2>1. k + i \in Int /\ k + i \in 0..HeightOf(b)
    BY <1>2, <1>3
  <2> QED BY <1>1, <2>1, GetAncestorIs, ChainType
<1>5. s = [i \in 1..(Height[b] - k) |-> Note("connected", GetAncestor(b, k + i))]
  BY DEF Connecting, k
<1>6. Height[b] - k \in Nat
  BY <1>2, <1>3
<1>7. s \in Seq(Message) /\ Len(s) = Height[b] - k
  <2>1. \A i \in 1..(Height[b] - k) : Note("connected", GetAncestor(b, k + i)) \in Message
    BY Zenon, <1>4 DEF Note, Message
  <2> QED BY <1>5, <1>6, <2>1
<1>8. ASSUME NEW y \in Chain(b), Height[y] > k
      PROVE  /\ Height[y] - k \in 1..Len(s)
             /\ s[Height[y] - k] = Note("connected", y)
  <2>1. Height[y] \in Nat /\ Height[y] <= Height[b] /\ y \in Block
    BY <1>1, <1>2, ChainHeights, ChainType
  <2>2. Height[y] - k \in 1..(Height[b] - k) /\ k + (Height[y] - k) = Height[y]
    BY <1>2, <1>3, <1>8, <2>1
  <2>3. GetAncestor(b, Height[y]) = y
    BY <1>1, <1>8, <2>1, AncestorAtHeight
  <2> QED BY <1>5, <1>7, <2>2, <2>3
<1>9. ASSUME NEW i \in 1..Len(s)
      PROVE  /\ s[i].type = "connected" /\ s[i].block = GetAncestor(b, k + i)
             /\ s[i].block \in Chain(b) /\ s[i].block \in Block /\ Height[s[i].block] = k + i
  <2>1. i \in 1..(Height[b] - k)
    BY <1>7
  <2>2. s[i] = Note("connected", GetAncestor(b, k + i))
    BY <1>5, <2>1
  <2>3. s[i].type = "connected" /\ s[i].block = GetAncestor(b, k + i)
    BY <2>2 DEF Note
  <2> QED BY Zenon, <1>4, <2>1, <2>3
<1>10. ASSUME NEW i \in 1..Len(s), s[i].block = Genesis PROVE i = 1 /\ t = None
  <2>1. k + i = 0
    BY <1>9, <1>10, HeightUnfold
  <2> QED BY <1>1, <1>3, <1>7, <2>1
<1>11. ASSUME NEW i \in 1..Len(s), NEW y \in Chain(b) \ Chain(s[i].block)
       PROVE  \E j \in 1..Len(s) : i < j /\ s[j] = Note("connected", y)
  <2>1. Height[y] \in Nat /\ y \in Block
    BY Zenon, <1>1, ChainHeights, ChainType
  <2>2. Height[y] > k + i
    <3> SUFFICES ASSUME Height[y] <= k + i PROVE FALSE
      BY <1>3, <1>7, <2>1
    <3>1. y \in Ancestors[s[i].block]
      BY <1>1, <1>9, AncestorsLinear, NoneAssumption DEF Chain
    <3> QED BY <1>9, <3>1, NoneAssumption DEF Chain
  <2>3. Height[y] > k /\ i < Height[y] - k
    BY <1>3, <1>7, <2>1, <2>2
  <2> QED BY Zenon, <1>8, <2>3
<1>12. ASSUME NEW y \in Chain(b) \ Chain(t)
       PROVE  \E j \in 1..Len(s) : s[j] = Note("connected", y)
  <2>1. Height[y] \in Nat /\ y \in Block
    BY <1>1, ChainHeights, ChainType
  <2>2. Height[y] > k
    <3> SUFFICES ASSUME Height[y] <= k PROVE FALSE
      BY <1>3, <2>1
    <3>1. f # None
      BY <1>3, <2>1
    <3>2. f \in Block /\ f \in Chain(b) /\ k = Height[f]
      BY Zenon, <1>1, <3>1, ChainType DEF k, HeightOf
    <3>3. y \in Ancestors[f]
      BY <1>1, <3>2, AncestorsLinear, NoneAssumption DEF Chain
    <3> QED BY <1>1, <3>1, <3>3 DEF Chain
  <2> QED BY <1>8, <2>2
<1> HIDE DEF s
<1>13. QED BY Zenon, <1>7, <1>9, <1>10, <1>11, <1>12 DEF s

(* Queueing them after a queue that ends in t makes one that ends in b. *)
LEMMA Pushed ==
    ASSUME NEW q \in Seq(Message), NEW t \in Place, NEW b \in Block, NEW c \in Place
    PROVE  /\ Ordered(q, Len(q), t) =>
                Ordered(q \o Connecting(t, b), Len(q \o Connecting(t, b)), b)
           /\ Brings(q, Len(q), c, t) =>
                Brings(q \o Connecting(t, b), Len(q \o Connecting(t, b)), c, b)
<1> DEFINE s == Connecting(t, b)
           r == q \o s
<1>1. s \in Seq(Message)
  BY Zenon, ConnectingIs
<1>2. /\ Len(r) = Len(q) + Len(s) /\ Len(q) \in Nat /\ Len(s) \in Nat
      /\ \A i \in 1..Len(q) : r[i] = q[i]
      /\ \A i \in 1..Len(s) : r[Len(q) + i] = s[i]
      /\ \A i \in 1..Len(r) : i <= Len(q) \/ i - Len(q) \in 1..Len(s)
  BY <1>1, ConcatIs
<1>3. ASSUME NEW y \in Chain(b) \ Chain(t)
      PROVE  \E j \in 1..Len(r) : Len(q) < j /\ r[j] = Note("connected", y)
  <2>1. PICK j \in 1..Len(s) : s[j] = Note("connected", y)
    BY ConnectingIs
  <2>2. Len(q) + j \in 1..Len(r) /\ Len(q) < Len(q) + j
    BY <1>2
  <2> HIDE DEF r, s
  <2> QED BY Zenon, <1>2, <2>1, <2>2
<1>4. ASSUME Brings(q, Len(q), c, t), NEW y \in Chain(b) \ Chain(c)
      PROVE  \E j \in 1..Len(r) : r[j] = Note("connected", y)
  <2>1. CASE y \in Chain(t)
    <3>1. PICK j \in 1..Len(q) : q[j] = Note("connected", y)
      BY <1>4, <2>1 DEF Brings
    <3> HIDE DEF r, s
    <3> QED BY <1>2, <3>1
  <2>2. CASE y \notin Chain(t)
    BY Zenon, <1>3, <2>2
  <2> QED BY <2>1, <2>2
<1>5. ASSUME Ordered(q, Len(q), t), NEW i \in 1..Len(r), r[i].type = "connected",
             NEW y \in Chain(b) \ Chain(r[i].block)
      PROVE  \E j \in 1..Len(r) : i < j /\ r[j] = Note("connected", y)
  <2>1. CASE i <= Len(q) /\ y \in Chain(t)
    <3>1. i \in 1..Len(q) /\ r[i] = q[i]
      BY <1>2, <2>1
    <3>2. PICK j \in 1..Len(q) : i < j /\ q[j] = Note("connected", y)
      BY Zenon, <1>5, <2>1, <3>1 DEF Ordered
    <3> HIDE DEF r, s
    <3> QED BY <1>2, <3>2
  <2>2. CASE i <= Len(q) /\ y \notin Chain(t)
    <3>1. PICK j \in 1..Len(r) : Len(q) < j /\ r[j] = Note("connected", y)
      BY Zenon, <1>3, <2>2
    <3> HIDE DEF r, s
    <3> QED BY <1>2, <2>2, <3>1
  <2>3. CASE i - Len(q) \in 1..Len(s)
    <3>1. r[i] = s[i - Len(q)]
      <4> HIDE DEF r, s
      <4>1. Len(q) + (i - Len(q)) = i
        BY <1>2
      <4> QED BY <1>2, <2>3, <4>1
    <3>2. PICK j \in 1..Len(s) : i - Len(q) < j /\ s[j] = Note("connected", y)
      BY <2>3, <3>1, ConnectingIs
    <3>3. Len(q) + j \in 1..Len(r) /\ i < Len(q) + j
      BY <1>2, <2>3, <3>2
    <3> HIDE DEF r, s
    <3> QED BY Zenon, <1>2, <3>2, <3>3
  <2> QED BY Zenon, <1>2, <2>1, <2>2, <2>3
<1> HIDE DEF r, s
<1>6. (Ordered(q, Len(q), t) => Ordered(r, Len(r), b)) /\ (Brings(q, Len(q), c, t) => Brings(r, Len(r), c, b))
  BY Zenon, <1>4, <1>5 DEF Ordered, Brings
<1> QED BY <1>6 DEF r, s

(* A shorter chain asks for less. *)
LEMMA Shorter ==
    ASSUME NEW q, NEW n, NEW c \in Place, NEW t \in Place, NEW u \in Place,
           Chain(u) \subseteq Chain(t)
    PROVE  /\ Ordered(q, n, t) => Ordered(q, n, u)
           /\ Brings(q, n, c, t) => Brings(q, n, c, u)
BY Zenon DEF Ordered, Brings

(* ChainStateFlushed is no block. *)
LEMMA PushedFlush ==
    ASSUME NEW q \in Seq(Message), NEW f \in Block, NEW t \in Place, NEW c \in Place,
           NEW s \in Seq(Message), Len(s) = 1, s[1] = Note("flushed", f)
    PROVE  /\ q \o s \in Seq(Message) /\ Len(q \o s) = Len(q) + 1 /\ Len(q) \in Nat
           /\ \A i \in 1..Len(q) : (q \o s)[i] = q[i]
           /\ (q \o s)[Len(q) + 1] = Note("flushed", f)
           /\ Ordered(q, Len(q), t) => Ordered(q \o s, Len(q \o s), t)
           /\ Brings(q, Len(q), c, t) => Brings(q \o s, Len(q \o s), c, t)
<1> DEFINE r == q \o s
<1>1. r \in Seq(Message) /\ Len(r) = Len(q) + 1 /\ Len(q) \in Nat /\ r[Len(q) + 1] = Note("flushed", f)
  <2>1. r \in Seq(Message) /\ Len(r) = Len(q) + Len(s) /\ Len(q) \in Nat
    BY Zenon, ConcatIs
  <2>2. \A i \in 1..Len(s) : r[Len(q) + i] = s[i]
    BY Zenon, ConcatIs
  <2>3. 1 \in 1..Len(s)
    OBVIOUS
  <2> QED BY Zenon, <2>1, <2>2, <2>3
<1>2. \A i \in 1..Len(q) : r[i] = q[i]
  BY Zenon, ConcatIs
<1>3. Note("flushed", f).type = "flushed"
  BY Zenon DEF Note
<1> HIDE DEF r
<1>4. ASSUME NEW i \in 1..Len(r), r[i].type = "connected" PROVE i \in 1..Len(q)
  BY <1>1, <1>3, <1>4
<1>5. ASSUME NEW j \in 1..Len(q) PROVE j \in 1..Len(r) /\ r[j] = q[j]
  BY <1>1, <1>2
<1>6. ASSUME Ordered(q, Len(q), t) PROVE Ordered(r, Len(r), t)
  <2> SUFFICES ASSUME NEW i \in 1..Len(r), r[i].type = "connected",
                      NEW y \in Chain(t) \ Chain(r[i].block)
               PROVE  \E j \in 1..Len(r) : i < j /\ r[j] = Note("connected", y)
    BY Zenon DEF Ordered
  <2>1. i \in 1..Len(q) /\ r[i] = q[i]
    BY Zenon, <1>4, <1>5
  <2>2. PICK j \in 1..Len(q) : i < j /\ q[j] = Note("connected", y)
    BY Zenon, <1>6, <2>1 DEF Ordered
  <2> QED BY Zenon, <1>5, <2>2
<1>7. ASSUME Brings(q, Len(q), c, t) PROVE Brings(r, Len(r), c, t)
  BY Zenon, <1>5, <1>7 DEF Brings
<1> QED BY Zenon, <1>1, <1>2, <1>6, <1>7 DEF r
-----------------------------------------------------------------------------
(* The next block to sync: none if the chain of b reaches the tip, else the *)
(* first of the active chain after its fork with that of b.                 *)
LEMMA NextIs ==
    ASSUME TypeOK, NEW b \in Place, NEW n, n = NextSyncBlock(b)
    PROVE  /\ n = None => Chain(tip) \subseteq Chain(b)
           /\ n # None => /\ n \in Block /\ n \in Chain(tip) /\ n \notin Chain(b)
                          /\ Prev(n) = FindFork(b, tip)
                          /\ Prev(n) # b => /\ n # Genesis /\ b # None
                                            /\ Prev(n) \in Block /\ Prev(n) \in Chain(b)
<1> DEFINE f == FindFork(b, tip)
<1>1. tip \in Place
  BY DEF TypeOK
<1>2. f \in Place /\ Chain(f) = Chain(b) \cap Chain(tip) /\ (f = None <=> b = None \/ tip = None)
  BY <1>1, FindForkIs
<1>3. CASE f = tip
  BY Zenon, <1>2, <1>3 DEF NextSyncBlock
<1>4. CASE f # tip
  <2>1. tip \in Block /\ n = GetAncestor(tip, HeightOf(f) + 1)
    BY Zenon, <1>1, <1>2, <1>4 DEF NextSyncBlock, Place
  <2>2. n \in Chain(tip) /\ Prev(n) = f
    BY <1>2, <1>4, <2>1, AfterFork
  <2>3. n \in Block /\ n # None
    BY Zenon, <1>1, <2>2, ChainTrans
  <2>4. n \notin Chain(f)
    BY Zenon, <2>2, <2>3, PrevIs
  <2>5. ASSUME f # b PROVE n # Genesis /\ b # None /\ f \in Block /\ f \in Chain(b)
    <3>1. b # None /\ f # None
      BY Zenon, <1>1, <1>2, <2>1, <2>5, NoneAssumption
    <3> QED BY Zenon, <1>2, <2>2, <2>3, <3>1, ChainType, PrevIs
  <2> QED BY Zenon, <1>2, <2>2, <2>3, <2>4, <2>5
<1> QED BY Zenon, <1>3, <1>4

(* The last finished block is one, or there is none. *)
LEMMA DoneType == TypeOK /\ Control => Done \in Place
<1> SUFFICES ASSUME TypeOK, Control PROVE Done \in Place
  OBVIOUS
<1>1. pc \in {"publish", "write"} => pindex \in Block
  BY Zenon DEF TypeOK, Control, Place
<1> QED BY <1>1, PrevIs DEF Done, TypeOK

(* The entries of the tables. *)
LEMMA EntryType ==
    ASSUME TypeOK, NEW b \in Block
    PROVE  /\ Height[b] \in Heights /\ Height[b] \in Nat
           /\ byHeight[Height[b]] # None =>
                byHeight[Height[b]].block \in Block /\ byHeight[Height[b]].pos \in Position
           /\ byHash[b] \in Position \cup {None}
BY PrevIs DEF TypeOK

(* Positions are natural numbers. *)
LEMMA PositionNat == \A p \in Position : p \in Nat /\ p <= MaxFilters
BY BoundsAssumption DEF Position

(* Where the thread and the callback are depends on their own variables.    *)
LEMMA KeepControl ==
    ASSUME Control, UNCHANGED <<best, synced, pc, pindex, cb, alive>>, Done' = Done,
           pc = "rewind" => NextSyncBlock(pindex)' = NextSyncBlock(pindex),
           cb # "idle" => queue' # <<>> /\ Front' = Front
    PROVE  Control'
<1>1. /\ synced' => pc' = "end"
      /\ pc' \in {"publish", "write"} => pindex' # None
      /\ Chain(best)' \subseteq Chain(Done)' \cup (IF pc' = "write" THEN {pindex'} ELSE {})
  BY DEF Control
<1>2. pc' = "rewind" /\ alive' =>
        /\ pindex' = best'
        /\ pindex' # None /\ NextSyncBlock(pindex)' \notin {None, Genesis}
        /\ Prev(NextSyncBlock(pindex))' \in Chain(pindex)'
  BY DEF Control
<1>3. cb' # "idle" =>
        /\ synced' /\ best' # None
        /\ queue' # <<>> /\ Front'.type = "connected" /\ Front'.block # Genesis
  BY DEF Control
<1>4. /\ cb' = "commit" => Prev(Front.block)' \in Chain(best)'
      /\ cb' = "write" => best' = Prev(Front.block)'
  BY DEF Control
<1> QED BY <1>1, <1>2, <1>3, <1>4 DEF Control

(* The tables only depend on what is done and on what is stored. *)
LEMMA KeepTables ==
    ASSUME Tables, Done' = Done, UNCHANGED <<pos, file, db, kept>>
    PROVE  Tables'
<1>1. UNCHANGED <<locator, dbPos, uncovered, byHeight, byHash>>
  BY DEF db, committed
<1> QED BY <1>1 DEF Tables, DoneStored, LocatorCovered, HashGood, KeptReachable, Covered, Reachable, Stored

(* Commit of a finished block: what it stands for is stored. *)
LEMMA CommitTables ==
    ASSUME TypeOK, Shape, NEW c \in Place, Commit(c, TRUE),
           UNCHANGED <<pos, file, byHeight, byHash>>
    PROVE  /\ locator' \in Place /\ dbPos' \in Position /\ uncovered' \subseteq Block
           /\ dbPos' <= pos' /\ dbPos <= dbPos'
           /\ Tables /\ Chain(c) \subseteq Chain(Done) => LocatorCovered' /\ HashGood'
<1>1. pos \in Nat /\ dbPos \in Nat /\ dbPos <= pos
  BY ZenonT(30), PositionNat DEF TypeOK, Shape
<1>2. CASE c = None
  <2>1. UNCHANGED <<locator, dbPos, uncovered>>
    BY <1>2 DEF Commit, committed
  <2> QED BY <1>1, <2>1 DEF TypeOK, Tables, LocatorCovered, HashGood, Covered, Stored
<1>3. CASE c # None
  <2>1. locator' = c /\ dbPos' = pos /\ uncovered' = {}
    BY Zenon, <1>3 DEF Commit
  <2>2. ASSUME Tables, Chain(c) \subseteq Chain(Done) PROVE LocatorCovered'
    BY Zenon, <2>1, <2>2 DEF Tables, DoneStored, LocatorCovered, Covered, Stored
  <2>3. ASSUME Tables PROVE HashGood'
    <3> SUFFICES ASSUME NEW b \in Block, byHash[b] # None
                 PROVE  byHash[b] < pos /\ file[byHash[b]] = b
      BY Zenon, <2>1 DEF HashGood
    <3>1. byHash[b] \in Nat
      BY ZenonT(30), EntryType, PositionNat
    <3> QED BY <1>1, <2>3, <3>1 DEF Tables, HashGood
  <2> QED BY <1>1, <2>1, <2>2, <2>3 DEF TypeOK
<1> QED BY Zenon, <1>2, <1>3

(* Commit of a block that is still to be written: all but it is stored. *)
LEMMA CommitAhead ==
    ASSUME TypeOK, Shape, NEW c \in Block, Commit(c, FALSE),
           UNCHANGED <<pos, file, byHeight, byHash>>
    PROVE  /\ locator' \in Place /\ dbPos' \in Position /\ uncovered' \subseteq Block
           /\ dbPos' <= pos'
           /\ Tables /\ Chain(Prev(c)) \subseteq Chain(Done) => LocatorCovered' /\ HashGood'
<1>1. pos \in Nat /\ dbPos \in Nat /\ dbPos <= pos
  BY Zenon, PositionNat DEF TypeOK, Shape
<1>2. locator' = c /\ dbPos' = pos /\ uncovered' = {c}
  BY Zenon, NoneAssumption DEF Commit
<1>3. ASSUME Tables, Chain(Prev(c)) \subseteq Chain(Done) PROVE LocatorCovered'
  <2>1. Chain(c) \ {c} \subseteq Chain(Done)
    BY Zenon, <1>3, PrevIs
  <2> QED BY Zenon, <1>2, <1>3, <2>1 DEF Tables, DoneStored, LocatorCovered, Covered, Stored
<1>4. ASSUME Tables PROVE HashGood'
  <2> SUFFICES ASSUME NEW b \in Block, byHash[b] # None
               PROVE  byHash[b] < pos /\ file[byHash[b]] = b
    BY Zenon, <1>2 DEF HashGood
  <2>1. byHash[b] \in Nat
    BY EntryType, PositionNat
  <2> QED BY <1>1, <1>4, <2>1 DEF Tables, HashGood
<1> QED BY <1>1, <1>2, <1>3, <1>4 DEF TypeOK, Place

(* What is done may shrink once the entries it gives up are copied. *)
LEMMA LowerDone ==
    ASSUME Tables, Chain(Done') \subseteq Chain(Done), Copied(Done, Done'),
           UNCHANGED <<pos, file, byHeight, byHash, kept>>
    PROVE  DoneStored' /\ KeptReachable'
<1>1. DoneStored'
  BY Zenon DEF Tables, DoneStored, Stored
<1>2. ASSUME NEW b \in kept PROVE Reachable(b)'
  <2>1. Reachable(b)
    BY DEF Tables, KeptReachable
  <2>2. b \in Chain(Done) => b \in Chain(Done') \/ byHash[b] # None
    BY Zenon DEF Copied
  <2> QED BY <2>1, <2>2 DEF Reachable, Stored
<1> QED BY Zenon, <1>1, <1>2 DEF KeptReachable

(* WriteBlock of the block after the last finished one finishes it. *)
LEMMA WriteTables ==
    ASSUME TypeOK, Shape, NEW c \in Block, WriteBlock(c)
    PROVE  /\ pos' \in Position /\ file' \in [Position -> Place] /\ kept' \subseteq Block
           /\ byHeight' \in [Heights -> [block : Block, pos : Position] \cup {None}]
           /\ uncovered' \subseteq Block
           /\ Shape'
           /\ Tables /\ Done = Prev(c) /\ Done' = c => Tables'
<1>1. /\ pos < MaxFilters /\ pos' = pos + 1 /\ file' = [file EXCEPT ![pos] = c]
      /\ byHeight' = [byHeight EXCEPT ![Height[c]] = Entry(c, pos)] /\ kept' = kept \cup {c}
      /\ uncovered' = uncovered \cup {x \in Chain(locator) : Height[x] = Height[c]}
      /\ UNCHANGED <<locator, dbPos, byHash>>
  BY Zenon DEF WriteBlock
<1>2. /\ pos \in Nat /\ dbPos \in Nat /\ dbPos <= pos /\ MaxFilters \in Nat /\ pos \in Position
      /\ pos + 1 \in Position
  BY <1>1, PositionNat, BoundsAssumption DEF TypeOK, Shape, Position
<1>3. Entry(c, pos) \in [block : Block, pos : Position] /\ Entry(c, pos) # None
      /\ Entry(c, pos).block = c /\ Entry(c, pos).pos = pos
  <2>1. Entry(c, pos) \in [block : Block, pos : Nat]
    BY Zenon, <1>2 DEF Entry
  <2> QED BY Zenon, <1>2, <2>1, NoneAssumption DEF Entry
<1>4. /\ Height[c] \in Heights /\ byHeight'[Height[c]] = Entry(c, pos)
      /\ \A h \in Heights : h # Height[c] => byHeight'[h] = byHeight[h]
  BY Zenon, <1>1, EntryType DEF TypeOK
<1>5. /\ file'[pos] = c /\ \A p \in Position : p # pos => file'[p] = file[p]
  BY ZenonT(30), <1>1, <1>2 DEF TypeOK
<1>6. file' \in [Position -> Place] /\ kept' \subseteq Block
  BY <1>1 DEF TypeOK, Place
<1>7. byHeight' \in [Heights -> [block : Block, pos : Position] \cup {None}]
  BY Zenon, <1>1, <1>3 DEF TypeOK
<1>8. uncovered' \subseteq Block
  BY Zenon, <1>1, ChainType DEF TypeOK
<1>9. Shape'
  <2>1. dbPos' <= pos'
    BY <1>1, <1>2
  <2>2. ASSUME NEW h \in Heights, byHeight'[h] # None PROVE Height[byHeight'[h].block] = h
    BY <1>3, <1>4, <2>2 DEF Shape
  <2>3. ASSUME NEW b \in Block, byHash'[b] # None PROVE byHeight'[Height[b]] # None
    BY Zenon, <1>1, <1>3, <1>4, <2>3, EntryType DEF Shape
  <2> QED BY Zenon, <2>1, <2>2, <2>3 DEF Shape
<1>10. ASSUME Tables, Done = Prev(c), Done' = c PROVE Tables'
  <2>1. ASSUME NEW b \in Block, Height[b] # Height[c], Stored(b) PROVE Stored(b)'
    <3>1. Height[b] \in Heights /\ byHeight'[Height[b]] = byHeight[Height[b]]
      BY Zenon, <1>4, <2>1, EntryType
    <3>2. byHeight[Height[b]].pos \in Position /\ byHeight[Height[b]].pos \in Nat
      BY ZenonT(30), <2>1, EntryType, PositionNat DEF Stored
    <3>3. byHeight[Height[b]].pos < pos + 1 /\ byHeight[Height[b]].pos # pos
      BY <1>2, <2>1, <3>2 DEF Stored
    <3> QED BY Zenon, <1>1, <1>5, <2>1, <3>1, <3>2, <3>3 DEF Stored
  <2>2. Stored(c)'
    BY <1>1, <1>2, <1>3, <1>4, <1>5 DEF Stored
  <2>3. Chain(c) = {c} \cup Chain(Done) /\ \A b \in Chain(Done) : b \in Block /\ Height[b] # Height[c]
    <3>1. Done \in Place /\ HeightOf(Done) = Height[c] - 1 /\ Height[c] \in Nat
      BY Zenon, <1>10, PrevIs
    <3> QED BY <1>10, <3>1, PrevIs, ChainHeights, ChainType
  <2>4. DoneStored'
    BY Zenon, <1>1, <1>10, <2>1, <2>2, <2>3 DEF Tables, DoneStored
  <2>5. LocatorCovered'
    <3> SUFFICES ASSUME NEW b \in Chain(locator) \ uncovered' PROVE Covered(b)'
      BY Zenon, <1>1 DEF LocatorCovered
    <3>1. b \in Block /\ b \notin uncovered /\ Height[b] # Height[c]
      BY Zenon, <1>1, ChainType DEF TypeOK
    <3>2. Stored(b) /\ byHeight[Height[b]].pos < dbPos
      BY Zenon, <1>10, <3>1 DEF Tables, LocatorCovered, Covered
    <3>3. byHeight'[Height[b]] = byHeight[Height[b]]
      BY ZenonT(30), <1>4, <3>1, EntryType
    <3> QED BY Zenon, <1>1, <2>1, <3>1, <3>2, <3>3 DEF Covered
  <2>6. HashGood'
    <3> SUFFICES ASSUME NEW b \in Block, byHash[b] # None
                 PROVE  byHash[b] < dbPos /\ file'[byHash[b]] = b
      BY Zenon, <1>1 DEF HashGood
    <3>1. byHash[b] < dbPos /\ file[byHash[b]] = b /\ byHash[b] \in Position /\ byHash[b] \in Nat
      BY <1>10, EntryType, PositionNat DEF Tables, HashGood
    <3> QED BY <1>2, <1>5, <3>1
  <2>7. ASSUME NEW b \in kept' PROVE Reachable(b)'
    <3>1. CASE b = c
      BY <1>3, <1>4, <1>10, <2>2, <2>3, <3>1 DEF Reachable
    <3>2. CASE b # c
      <4>1. b \in kept /\ b \in Block /\ Reachable(b)
        BY Zenon, <1>1, <1>10, <3>2 DEF Tables, KeptReachable, TypeOK
      <4>2. CASE Height[b] = Height[c]
        <5>1. byHash[b] # None
          BY Zenon, <2>3, <4>1, <4>2 DEF Reachable
        <5> QED BY Zenon, <1>1, <1>3, <1>4, <3>2, <4>2, <5>1 DEF Reachable
      <4>3. CASE Height[b] # Height[c]
        <5>1. byHeight'[Height[b]] = byHeight[Height[b]]
          BY <1>4, <4>1, <4>3, EntryType
        <5> QED BY ZenonT(30), <1>1, <1>10, <2>1, <2>3, <4>1, <4>3, <5>1 DEF Reachable
      <4> QED BY Zenon, <4>2, <4>3
    <3> QED BY ZenonT(30), <3>1, <3>2
  <2> QED BY Zenon, <2>4, <2>5, <2>6, <2>7 DEF Tables, KeptReachable
<1> QED BY Zenon, <1>1, <1>2, <1>6, <1>7, <1>8, <1>9, <1>10

(* The check of WriteBlock does not fail after the last finished block. *)
LEMMA WritePassesCheck ==
    ASSUME TypeOK, Tables, NEW c \in Block, Done = Prev(c)
    PROVE  PrevFound(c)
<1>1. CASE c = Genesis
  BY Zenon, <1>1 DEF PrevFound
<1>2. CASE c # Genesis
  <2>1. Prev(c) \in Block /\ Prev(c) \in Chain(Done) /\ Height[Prev(c)] = Height[c] - 1
    BY Zenon, <1>2, PrevIs, ChainType DEF Place, HeightOf
  <2>2. Stored(Prev(c))
    BY Zenon, <2>1 DEF Tables, DoneStored
  <2> QED BY Zenon, <2>1, <2>2 DEF Stored, PrevFound
<1> QED BY Zenon, <1>1, <1>2

(* The heights from one block of a chain to the last one are those of the   *)
(* chain from there.                                                        *)
LEMMA SpanIs ==
    ASSUME NEW from \in Block, NEW to \in Block, to \in Chain(from)
    PROVE  /\ \A h \in Span(to, from) : h \in Heights /\ \E a \in Chain(from) : Height[a] = h
           /\ \A b \in Chain(from) \ Chain(to) : Height[b] \in Span(to, from)
<1>1. /\ from \in Place /\ HeightOf(from) = Height[from] /\ Height[from] \in Nat /\ Height[to] \in Nat
      /\ Chain(from) = Ancestors[from] /\ Chain(to) = Ancestors[to]
  BY Zenon, PrevIs DEF Place, HeightOf, Chain
<1>2. ASSUME NEW h \in Span(to, from) PROVE h \in Heights /\ \E a \in Chain(from) : Height[a] = h
  <2>1. h \in 0..HeightOf(from)
    BY <1>1 DEF Span
  <2>2. PICK a \in Chain(from) : Height[a] = h
    BY Zenon, <1>1, <2>1, ChainHeights
  <2> QED BY Zenon, <1>1, <2>2, ChainType DEF Heights
<1>3. ASSUME NEW b \in Chain(from) \ Chain(to) PROVE Height[b] \in Span(to, from)
  <2>1. Height[b] \in Nat /\ Height[b] <= Height[from]
    BY <1>1, ChainHeights
  <2>2. to \in Ancestors[b] /\ b \in Block
    BY <1>1, AncestorsAbove, ChainType
  <2>3. Height[to] <= Height[b]
    BY ZenonT(30), <2>2, AncestorsLower
  <2> QED BY <1>1, <2>1, <2>3 DEF Span
<1> QED BY Zenon, <1>2, <1>3

(* Rewind's batch copies every entry above the block it goes back to.       *)
LEMMA RewindCopies ==
    ASSUME TypeOK, Shape, NEW from \in Block, NEW to \in Block, to \in Chain(from),
           MayCopy(from, to), RewindTables(from, to), UNCHANGED <<pos, file, kept>>
    PROVE  /\ dbPos' \in Position /\ uncovered' \subseteq Block
           /\ byHash' \in [Block -> Position \cup {None}]
           /\ Shape'
           /\ Tables /\ from = Done /\ Done' = Done =>
                Tables' /\ \A b \in Chain(from) \ Chain(to) : byHash'[b] # None
<1>1. /\ dbPos' = pos /\ uncovered' = {b \in uncovered : ~Stored(b)}
      /\ UNCHANGED <<locator, byHeight>>
      /\ byHash' = [b \in Block |-> IF \E h \in Span(to, from) : byHeight[h].block = b
                                    THEN byHeight[Height[b]].pos ELSE byHash[b]]
  BY Zenon DEF RewindTables, CopyHeightIndexToHashIndex
<1>2. pos \in Nat /\ dbPos \in Nat /\ dbPos <= pos /\ pos \in Position
  BY PositionNat DEF TypeOK, Shape
<1>3. ASSUME NEW b \in Block, NEW h \in Span(to, from), byHeight[h].block = b
      PROVE  /\ Height[b] = h /\ byHeight[Height[b]] # None
             /\ byHash'[b] = byHeight[Height[b]].pos /\ byHash'[b] \in Position
  <2>1. h \in Heights /\ byHeight[h] # None
    BY Zenon, SpanIs DEF MayCopy
  <2>2. Height[b] = h
    BY Zenon, <1>3, <2>1 DEF Shape
  <2> QED BY ZenonT(30), <1>1, <1>3, <2>1, <2>2, EntryType
<1>4. ASSUME NEW b \in Block, ~\E h \in Span(to, from) : byHeight[h].block = b
      PROVE  byHash'[b] = byHash[b]
  BY Zenon, <1>1, <1>4
<1>5. byHash' \in [Block -> Position \cup {None}]
  <2>1. \A b \in Block : byHash'[b] \in Position \cup {None}
    BY Zenon, <1>3, <1>4, EntryType
  <2> QED BY Zenon, <1>1, <2>1
<1>6. Shape'
  <2>1. ASSUME NEW b \in Block, byHash'[b] # None PROVE byHeight'[Height[b]] # None
    BY ZenonT(30), <1>1, <1>3, <1>4, <2>1 DEF Shape
  <2>2. dbPos' <= pos'
    BY <1>1, <1>2
  <2> QED BY Zenon, <1>1, <2>1, <2>2 DEF Shape
<1>7. ASSUME Tables, from = Done, Done' = Done
      PROVE  Tables' /\ \A b \in Chain(from) \ Chain(to) : byHash'[b] # None
  <2>1. ASSUME NEW b \in Block, byHash[b] # None PROVE byHash'[b] # None
    BY Zenon, <1>3, <1>4, <2>1, NoneAssumption, PositionNat
  <2>2. \A b : Stored(b)' <=> Stored(b)
    BY Zenon, <1>1 DEF Stored
  <2>3. DoneStored'
    BY Zenon, <1>7, <2>2 DEF Tables, DoneStored
  <2>4. LocatorCovered'
    <3> SUFFICES ASSUME NEW b \in Chain(locator) \ uncovered'
                 PROVE  Stored(b) /\ byHeight[Height[b]].pos < pos
      BY Zenon, <1>1, <2>2 DEF LocatorCovered, Covered
    <3>1. Stored(b)
      BY Zenon, <1>1, <1>7 DEF Tables, LocatorCovered, Covered
    <3> QED BY Zenon, <3>1 DEF Stored
  <2>5. HashGood'
    <3> SUFFICES ASSUME NEW b \in Block, byHash'[b] # None
                 PROVE  byHash'[b] < pos /\ file[byHash'[b]] = b
      BY Zenon, <1>1 DEF HashGood
    <3>1. CASE \E h \in Span(to, from) : byHeight[h].block = b
      <4>1. PICK h \in Span(to, from) : byHeight[h].block = b
        BY Zenon, <3>1
      <4>2. PICK a \in Chain(from) : Height[a] = h
        BY Zenon, SpanIs
      <4>3. Stored(a)
        BY Zenon, <1>7 DEF Tables, DoneStored
      <4>4. a = b
        BY ZenonT(30), <4>1, <4>2, <4>3 DEF Stored
      <4> QED BY Zenon, <1>3, <4>1, <4>3, <4>4 DEF Stored
    <3>2. CASE ~\E h \in Span(to, from) : byHeight[h].block = b
      <4>1. byHash'[b] = byHash[b] /\ byHash[b] \in Nat
        BY Zenon, <1>4, <3>2, EntryType, PositionNat
      <4> QED BY <1>2, <1>7, <4>1 DEF Tables, HashGood
    <3> QED BY Zenon, <3>1, <3>2
  <2>6. ASSUME NEW b \in kept PROVE Reachable(b)'
    <3>1. Reachable(b) /\ b \in Block
      BY Zenon, <1>7 DEF Tables, KeptReachable, TypeOK
    <3> QED BY Zenon, <1>1, <1>7, <2>1, <2>2, <3>1 DEF Reachable
  <2>7. ASSUME NEW b \in Chain(from) \ Chain(to) PROVE byHash'[b] # None
    <3>1. b \in Block /\ Height[b] \in Span(to, from) /\ Stored(b)
      BY <1>7, SpanIs, ChainType DEF Tables, DoneStored, Place
    <3>2. byHash'[b] \in Position
      BY ZenonT(30), <1>3, <3>1 DEF Stored
    <3> QED BY Zenon, <3>2, NoneAssumption, PositionNat
  <2> QED BY Zenon, <2>3, <2>4, <2>5, <2>6, <2>7 DEF Tables, KeptReachable
<1> QED BY <1>1, <1>2, <1>5, <1>6, <1>7 DEF TypeOK

(* Nothing is missing for the copy while nothing is lost. *)
LEMMA NothingMissing ==
    ASSUME TypeOK, Tables, NEW from \in Block, NEW to \in Block, to \in Chain(from), from = Done
    PROVE  MayCopy(from, to)
BY SpanIs DEF MayCopy, Tables, DoneStored, Stored
-----------------------------------------------------------------------------
(* The tip moves, and the queue grows: the index is not touched. *)

LEMMA ChainStep ==
    ASSUME IndInv,
           UNCHANGED <<best, synced, thread, cb, pos, file, db, reader, run, fatal, kept>>,
           tip' \in Place, flushed' \in Place, moves' \in 0..MaxMoves,
           queue' \in Seq(Message), Len(queue') >= Len(queue),
           tip' = tip \/ pc # "rewind",
           queue # <<>> => queue' # <<>> /\ Head(queue') = Head(queue),
           Backlog',
           Brings(queue, Len(queue), best, tip) => Brings(queue', Len(queue'), best, tip'),
           \A n \in 0..Len(queue), c, t \in Place :
               /\ Ordered(queue, n, t) => Ordered(queue', n, t)
               /\ Brings(queue, n, c, t) => Brings(queue', n, c, t)
    PROVE  IndInv'
<1>1. /\ UNCHANGED <<best, synced, pc, pindex, timed, cb, pos, file>>
      /\ UNCHANGED <<locator, dbPos, uncovered, byHeight, byHash, reader>>
      /\ UNCHANGED <<interrupt, alive, restarts, lost, fatal, kept>>
  BY Zenon DEF thread, db, committed, run
<1>2. TypeOK /\ Shape /\ Control /\ Backlog /\ (lost = {} => Sound /\ Awaited)
  BY DEF IndInv
<1>3. TypeOK'
  BY ZenonT(30), <1>1, <1>2 DEF TypeOK, Message
<1>4. Shape'
  BY ZenonT(30), <1>1, <1>2 DEF Shape
<1>5. Done' = Done
  BY Zenon, <1>1 DEF Done
<1>6. pc = "rewind" => NextSyncBlock(pindex)' = NextSyncBlock(pindex)
  BY <1>1 DEF NextSyncBlock
<1>7. Control'
  <2>1. cb # "idle" => queue' # <<>> /\ Front' = Front
    BY Zenon, <1>2 DEF Control, Front
  <2> QED BY Zenon, <1>1, <1>2, <1>5, <1>6, <2>1, KeepControl
<1>8. ASSUME lost' = {} PROVE Sound'
  <2>1. Sound
    BY Zenon, <1>1, <1>2, <1>8
  <2>2. Tables'
    BY Zenon, <1>5, <2>1, KeepTables DEF Sound
  <2>3. cb = "commit" => queue # <<>>
    BY ZenonT(30), <1>2 DEF Control
  <2>4. ~fatal' /\ (synced' => Brings(queue', Len(queue'), best', tip'))
    BY <1>1, <2>1 DEF Sound
  <2>5. pc' = "rewind" /\ alive' => Copied(pindex, Prev(NextSyncBlock(pindex)))'
    BY Zenon, <1>1, <1>6, <2>1 DEF Sound, Copied
  <2>6. cb' = "commit" => Copied(best, Prev(Front.block))'
    BY Zenon, <1>1, <2>1, <2>3 DEF Sound, Copied, Front
  <2> QED BY Zenon, <2>2, <2>4, <2>5, <2>6 DEF Sound
<1>9. ASSUME lost' = {} PROVE Awaited'
  <2> SUFFICES ASSUME reader # None PROVE Awaited'
    BY <1>1 DEF Awaited
  <2>1. Awaited /\ reader \in [block : Block, left : Nat] /\ best \in Place
    BY ZenonT(30), <1>1, <1>2, <1>9 DEF TypeOK
  <2>2. CASE reader.block \in kept
    BY <1>1, <2>1, <2>2 DEF Awaited
  <2>3. CASE reader.block \notin kept
    <3>1. /\ 0 < reader.left /\ reader.left <= Len(queue) /\ synced
          /\ Ordered(queue, reader.left, reader.block)
          /\ Brings(queue, reader.left, best, reader.block)
      BY ZenonT(30), <2>1, <2>3 DEF Awaited
    <3>2. reader.left \in 0..Len(queue) /\ reader.block \in Place /\ Len(queue) \in Nat
          /\ Len(queue') \in Nat
      BY <1>2, <2>1, <3>1 DEF Place, TypeOK
    <3>3. Ordered(queue', reader.left, reader.block) /\ Brings(queue', reader.left, best, reader.block)
      BY <2>1, <3>1, <3>2
    <3>4. reader.left <= Len(queue')
      BY <2>1, <3>1, <3>2
    <3> QED BY <1>1, <3>1, <3>3, <3>4 DEF Awaited
  <2> QED BY ZenonT(30), <2>2, <2>3
<1> QED BY Zenon, <1>3, <1>4, <1>7, <1>8, <1>9 DEF IndInv

LEMMA DisconnectInv == IndInv /\ Disconnect => IndInv'
<1> SUFFICES ASSUME IndInv, Disconnect PROVE IndInv'
  OBVIOUS
<1>1. TypeOK /\ Backlog
  BY Zenon DEF IndInv
<1>2. /\ pc # "rewind" /\ moves' = moves + 1 /\ moves < MaxMoves /\ tip' = Prev(tip)
      /\ tip # None /\ tip # Genesis /\ UNCHANGED <<flushed, queue>>
      /\ UNCHANGED <<best, synced, thread, cb, pos, file, db, reader, run, fatal, kept>>
  BY DEF Disconnect
<1>3. tip \in Block /\ tip \in Place /\ moves \in 0..MaxMoves /\ queue \in Seq(Message) /\ best \in Place
      /\ flushed \in Place /\ Len(queue) \in Nat
  BY Zenon, <1>1, <1>2, LenIs DEF TypeOK, Place, Message
<1>4. tip' \in Place /\ tip' # None /\ Chain(tip') \subseteq Chain(tip)
  BY Zenon, <1>2, <1>3, PrevIs
<1>5. moves' \in 0..MaxMoves
  BY <1>2, <1>3, BoundsAssumption
<1>6. Backlog'
  <2>1. Ordered(queue', Len(queue'), tip')
    BY ZenonT(30), <1>1, <1>2, <1>3, <1>4, Shorter DEF Backlog
  <2> QED BY Zenon, <1>1, <1>2, <1>4, <2>1 DEF Backlog
<1>7. Brings(queue, Len(queue), best, tip) => Brings(queue', Len(queue'), best, tip')
  BY <1>2, <1>3, <1>4, Shorter
<1>8. queue' \in Seq(Message) /\ Len(queue') >= Len(queue) /\ flushed' \in Place
      /\ (queue # <<>> => queue' # <<>> /\ Head(queue') = Head(queue))
      /\ \A n \in 0..Len(queue), c, t \in Place :
               /\ Ordered(queue, n, t) => Ordered(queue', n, t)
               /\ Brings(queue, n, c, t) => Brings(queue', n, c, t)
  BY <1>2, <1>3
<1> QED BY Zenon, <1>2, <1>4, <1>5, <1>6, <1>7, <1>8, ChainStep

LEMMA FlushInv == IndInv /\ Flush => IndInv'
<1> SUFFICES ASSUME IndInv, Flush PROVE IndInv'
  OBVIOUS
<1>1. TypeOK /\ Backlog
  BY DEF IndInv
<1>2. /\ moves' = moves + 1 /\ moves < MaxMoves /\ tip' = tip /\ flushed' = tip
      /\ tip # None /\ queue' = queue \o <<Note("flushed", tip)>>
      /\ UNCHANGED <<best, synced, thread, cb, pos, file, db, reader, run, fatal, kept>>
  BY Zenon DEF Flush
<1>3. tip \in Block /\ tip \in Place /\ moves \in 0..MaxMoves /\ queue \in Seq(Message) /\ best \in Place
  BY Zenon, <1>1, <1>2 DEF TypeOK, Place, Message
<1> DEFINE s == <<Note("flushed", tip)>>
<1>s. s \in Seq(Message) /\ Len(s) = 1 /\ s[1] = Note("flushed", tip)
  BY <1>3 DEF Note, Message
<1>4. moves' \in 0..MaxMoves
  BY <1>2, <1>3, BoundsAssumption
<1>5. /\ queue' \in Seq(Message) /\ Len(queue') = Len(queue) + 1 /\ Len(queue) \in Nat
      /\ \A i \in 1..Len(queue) : queue'[i] = queue[i]
      /\ queue'[Len(queue) + 1] = Note("flushed", tip)
      /\ Ordered(queue, Len(queue), tip) => Ordered(queue', Len(queue'), tip)
      /\ Brings(queue, Len(queue), best, tip) => Brings(queue', Len(queue'), best, tip)
  <2>1. queue' = queue \o s
    BY Zenon, <1>2
  <2> HIDE DEF s
  <2> QED BY SMTT(30), <1>3, <1>s, <2>1, PushedFlush
<1>6. Backlog'
  <2>1. ASSUME NEW i \in 1..Len(queue'), queue'[i] = Note("connected", Genesis)
        PROVE  i = 1 /\ synced' /\ best' = None
    <3>1. i \in 1..Len(queue)
      BY <1>5, <2>1 DEF Note
    <3> QED BY ZenonT(30), <1>1, <1>2, <1>5, <2>1, <3>1 DEF Backlog
  <2> QED BY Zenon, <1>1, <1>2, <1>5, <2>1 DEF Backlog
<1>7. ASSUME NEW n \in 0..Len(queue), NEW c \in Place, NEW t \in Place
      PROVE  /\ Ordered(queue, n, t) => Ordered(queue', n, t)
             /\ Brings(queue, n, c, t) => Brings(queue', n, c, t)
  <2>1. queue' = queue \o s
    BY Zenon, <1>2
  <2> HIDE DEF s
  <2> QED BY Zenon, <1>3, <1>s, <2>1, Appended
<1> HIDE DEF s
<1>8. queue # <<>> => queue' # <<>> /\ Head(queue') = Head(queue)
  BY <1>3, <1>5
<1>9. Len(queue') >= Len(queue)
  BY <1>5
<1> QED BY Zenon, <1>2, <1>3, <1>4, <1>5, <1>6, <1>7, <1>8, <1>9, ChainStep

LEMMA ActivateInv ==
    ASSUME NEW b \in Block, NEW f \in Place, IndInv, Activate(b, f)
    PROVE  IndInv'
<1> DEFINE pre == IF f = None THEN <<>> ELSE <<Note("flushed", f)>>
           q == queue \o pre
           s == Connecting(tip, b)
<1>1. TypeOK /\ Backlog
  BY Zenon DEF IndInv
<1>2. /\ pc # "rewind" /\ moves' = moves + 1 /\ moves < MaxMoves /\ tip' = b
      /\ flushed' = (IF f = None THEN flushed ELSE f)
      /\ UNCHANGED <<best, synced, thread, cb, pos, file, db, reader, run, fatal, kept>>
  BY Zenon DEF Activate
<1>3. (f = None \/ tip # None) /\ queue' = q \o s
  BY Zenon DEF Activate, Connecting
<1>4. tip \in Place /\ b \in Place /\ moves \in 0..MaxMoves /\ queue \in Seq(Message)
      /\ best \in Place /\ flushed \in Place /\ b # None
  BY Zenon, <1>1, NoneAssumption DEF TypeOK, Place, Message
<1>5. moves' \in 0..MaxMoves /\ flushed' \in Place
  BY <1>2, <1>4, BoundsAssumption
<1>6. /\ q \in Seq(Message) /\ Len(queue) \in Nat /\ Len(q) >= Len(queue)
      /\ \A i \in 1..Len(queue) : q[i] = queue[i]
      /\ \A i \in 1..Len(q) : i \in 1..Len(queue) \/ q[i].type = "flushed"
      /\ f = None => q = queue
      /\ Ordered(queue, Len(queue), tip) => Ordered(q, Len(q), tip)
      /\ Brings(queue, Len(queue), best, tip) => Brings(q, Len(q), best, tip)
      /\ \A n \in 0..Len(queue), c, t \in Place :
               /\ Ordered(queue, n, t) => Ordered(q, n, t)
               /\ Brings(queue, n, c, t) => Brings(q, n, c, t)
  <2>1. CASE f = None
    <3>1. q = queue
      BY <1>4, <2>1
    <3> HIDE DEF q
    <3>2. Len(queue) \in Nat /\ Len(queue) >= Len(queue)
      BY <1>4
    <3> QED BY Zenon, <1>4, <3>1, <3>2
  <2>2. CASE f # None
    <3>1. pre \in Seq(Message) /\ Len(pre) = 1 /\ pre[1] = Note("flushed", f) /\ f \in Block
      BY <2>2 DEF Note, Message, Place
    <3> HIDE DEF pre
    <3>2. /\ q \in Seq(Message) /\ Len(q) = Len(queue) + 1 /\ Len(queue) \in Nat
          /\ \A i \in 1..Len(queue) : q[i] = queue[i]
          /\ q[Len(queue) + 1] = Note("flushed", f)
          /\ Ordered(queue, Len(queue), tip) => Ordered(q, Len(q), tip)
          /\ Brings(queue, Len(queue), best, tip) => Brings(q, Len(q), best, tip)
      BY Zenon, <1>4, <3>1, PushedFlush
    <3>3. \A n \in 0..Len(queue), c, t \in Place :
               /\ Ordered(queue, n, t) => Ordered(q, n, t)
               /\ Brings(queue, n, c, t) => Brings(q, n, c, t)
      BY <1>4, <3>1, Appended
    <3> HIDE DEF q
    <3>4. \A i \in 1..Len(q) : i \in 1..Len(queue) \/ q[i].type = "flushed"
      <4>1. \A i \in 1..Len(q) : i \in 1..Len(queue) \/ i = Len(queue) + 1
        <5> HIDE DEF s
        <5>1. Len(q) = Len(queue) + 1 /\ Len(queue) \in Nat
          BY Zenon, <3>2
        <5> QED BY <5>1
      <4>2. q[Len(queue) + 1].type = "flushed"
        <5>1. Note("flushed", f).type = "flushed"
          BY Zenon DEF Note
        <5> QED BY Zenon, <3>2, <5>1
      <4> QED BY Zenon, <4>1, <4>2
    <3>5. Len(q) >= Len(queue)
      <4> HIDE DEF s
      <4> QED BY <3>2
    <3> QED BY ZenonT(30), <2>2, <3>2, <3>3, <3>4, <3>5
  <2> QED BY ZenonT(30), <2>1, <2>2
<1> HIDE DEF pre, q
<1>7. /\ s \in Seq(Message)
      /\ Ordered(q, Len(q), tip) => Ordered(queue', Len(queue'), b)
      /\ Brings(q, Len(q), best, tip) => Brings(queue', Len(queue'), best, b)
  BY Zenon, <1>3, <1>4, <1>6, ConnectingIs, Pushed
<1>8. /\ queue' \in Seq(Message) /\ Len(queue') = Len(q) + Len(s) /\ Len(q) \in Nat /\ Len(s) \in Nat
      /\ \A i \in 1..Len(q) : queue'[i] = q[i]
      /\ \A i \in 1..Len(s) : queue'[Len(q) + i] = s[i]
      /\ \A i \in 1..Len(queue') : i <= Len(q) \/ i - Len(q) \in 1..Len(s)
  <2> HIDE DEF s
  <2> QED BY Zenon, <1>3, <1>6, <1>7, ConcatIs
<1>9. Backlog'
  <2>1. ASSUME NEW i \in 1..Len(queue'), queue'[i] = Note("connected", Genesis)
        PROVE  i = 1 /\ synced' /\ best' = None
    <3>1. CASE i <= Len(q)
      <4>1. i \in 1..Len(q) /\ q[i] = Note("connected", Genesis) /\ q[i].type = "connected"
        <5>1. i \in 1..Len(q)
          <6>1. Len(q) \in Nat /\ Len(queue') \in Nat
            BY Zenon, <1>8, LenIs
          <6> HIDE DEF s
          <6> QED BY <3>1, <6>1
        <5>2. q[i] = Note("connected", Genesis)
          BY Zenon, <1>8, <2>1, <5>1
        <5>3. Note("connected", Genesis).type = "connected"
          BY Zenon DEF Note
        <5> QED BY Zenon, <5>1, <5>2, <5>3
      <4>2. i \in 1..Len(queue) /\ queue[i] = Note("connected", Genesis)
        BY Zenon, <1>6, <4>1
      <4> QED BY Zenon, <1>1, <1>2, <4>2 DEF Backlog
    <3>2. CASE i - Len(q) \in 1..Len(s)
      <4>1. s[i - Len(q)].block = Genesis
        <5> HIDE DEF s
        <5>0. Len(q) \in Nat /\ Len(queue') \in Nat
          BY Zenon, <1>8, LenIs
        <5>1. Len(q) + (i - Len(q)) = i
          BY <5>0
        <5>2. s[i - Len(q)] = Note("connected", Genesis)
          BY Zenon, <1>8, <2>1, <3>2, <5>1
        <5>3. Note("connected", Genesis).block = Genesis
          BY Zenon DEF Note
        <5> QED BY Zenon, <5>2, <5>3
      <4>2. i - Len(q) = 1 /\ tip = None
        BY <1>4, <3>2, <4>1, ConnectingIs
      <4>3. synced /\ best = None /\ queue = <<>> /\ q = queue
        BY Zenon, <1>1, <1>3, <1>6, <4>2 DEF Backlog
      <4>4. synced' /\ best' = None
        BY <1>2, <4>3
      <4>5. i = 1
        <5>1. Len(q) = 0
          BY <4>3
        <5> HIDE DEF s
        <5> QED BY <4>2, <5>1
      <4> QED BY Zenon, <4>4, <4>5
    <3> QED BY ZenonT(30), <1>8, <3>1, <3>2
  <2>2. Ordered(queue', Len(queue'), tip')
    BY Zenon, <1>1, <1>2, <1>6, <1>7 DEF Backlog
  <2> QED BY <1>2, <1>4, <2>1, <2>2 DEF Backlog
<1>10. ASSUME NEW n \in 0..Len(queue), NEW c \in Place, NEW t \in Place
       PROVE  /\ Ordered(queue, n, t) => Ordered(queue', n, t)
              /\ Brings(queue, n, c, t) => Brings(queue', n, c, t)
  <2>1. n \in 0..Len(q)
    <3> HIDE DEF s
    <3> QED BY <1>6, <1>8
  <2> HIDE DEF s
  <2> QED BY ZenonT(30), <1>3, <1>6, <1>7, <2>1, Appended
<1>11. queue # <<>> => queue' # <<>> /\ Head(queue') = Head(queue)
  <2> HIDE DEF s
  <2> SUFFICES ASSUME queue # <<>> PROVE queue' # <<>> /\ Head(queue') = Head(queue)
    BY Zenon
  <2>1. 1 \in 1..Len(queue) /\ 1 \in 1..Len(q) /\ Len(queue') >= 1
    <3>1. Len(queue) \in Nat \ {0}
      BY Zenon, <1>4, TailIs
    <3>2. Len(q) \in Nat /\ Len(s) \in Nat /\ Len(q) >= Len(queue) /\ Len(queue') = Len(q) + Len(s)
      BY Zenon, <1>6, <1>8
    <3> QED BY <3>1, <3>2
  <2>2. queue'[1] = queue[1]
    <3>1. q[1] = queue[1]
      BY Zenon, <1>6, <2>1
    <3>2. queue'[1] = q[1]
      BY ZenonT(30), <1>8, <2>1
    <3> QED BY Zenon, <3>1, <3>2
  <2> QED BY <1>4, <1>8, <2>1, <2>2
<1>12. Len(queue') >= Len(queue)
  <2> HIDE DEF s
  <2> QED BY <1>6, <1>8
<1>13. Brings(queue, Len(queue), best, tip) => Brings(queue', Len(queue'), best, tip')
  BY Zenon, <1>2, <1>6, <1>7
<1> QED BY <1>2, <1>4, <1>5, <1>8, <1>9, <1>10, <1>11, <1>12, <1>13, ChainStep
-----------------------------------------------------------------------------
(* The sync thread, while which runs no callback does anything. *)

LEMMA Syncing ==
    ASSUME IndInv, pc # "end"
    PROVE  /\ ~synced /\ cb = "idle" /\ tip \in Block /\ pindex \in Place /\ Done \in Place
           /\ lost = {} => Tables /\ ~fatal /\ reader = None
<1>1. TypeOK /\ Control /\ Backlog /\ (lost = {} => Sound /\ Awaited)
  BY Zenon DEF IndInv
<1>2. ~synced /\ cb = "idle"
  BY Zenon, <1>1 DEF Control, TypeOK
<1> QED BY Zenon, <1>1, <1>2, DoneType DEF TypeOK, Backlog, Sound, Awaited, Place

LEMMA SyncStep ==
    ASSUME IndInv, pc # "end",
           UNCHANGED <<chain, queue, cb, reader, interrupt, restarts, lost>>,
           TypeOK', Shape', Control',
           lost = {} => ~fatal' /\ Tables',
           lost = {} /\ pc' = "rewind" /\ alive' => Copied(pindex, Prev(NextSyncBlock(pindex)))',
           synced' => Chain(tip) \subseteq Chain(best')
    PROVE  IndInv'
<1>1. /\ ~synced /\ cb = "idle" /\ tip \in Block /\ (lost = {} => reader = None)
  BY Zenon, Syncing
<1>2. UNCHANGED <<tip, queue, cb, reader, lost>> /\ tip # None
  BY Zenon, <1>1, NoneAssumption DEF chain
<1>3. Backlog
  BY Zenon DEF IndInv
<1>4. Backlog'
  BY Zenon, <1>1, <1>2, <1>3 DEF Backlog
<1>5. ASSUME lost = {} PROVE Sound'
  <2>1. synced' => Brings(queue', Len(queue'), best', tip')
    BY Zenon, <1>2 DEF Brings
  <2> QED BY Zenon, <1>1, <1>2, <1>5, <2>1 DEF Sound
<1>6. ASSUME lost = {} PROVE Awaited'
  BY Zenon, <1>1, <1>2, <1>6 DEF Awaited
<1> QED BY Zenon, <1>2, <1>4, <1>5, <1>6 DEF IndInv

(* The loop ends at the last finished block. *)
LEMMA SyncEnds ==
    ASSUME IndInv, pc = "loop", best' = pindex, Commit(pindex, TRUE), pc' = "end",
           synced' \in BOOLEAN, synced' => synced \/ NextSyncBlock(pindex) = None,
           UNCHANGED <<chain, queue, pindex, timed, cb, pos, file, byHeight, byHash, reader, run, fatal, kept>>
    PROVE  IndInv'
<1>1. TypeOK /\ Shape /\ Control
  BY Zenon DEF IndInv
<1>2. ~synced /\ cb = "idle" /\ pindex \in Place /\ Done = pindex /\ (lost = {} => Tables /\ ~fatal)
  BY Zenon, Syncing DEF Done
<1>3. /\ UNCHANGED <<tip, flushed, moves, queue, pindex, timed, cb, pos, file, byHeight, byHash, reader>>
      /\ UNCHANGED <<interrupt, alive, restarts, lost, fatal, kept>>
  BY Zenon DEF chain, run
<1>4. /\ locator' \in Place /\ dbPos' \in Position /\ uncovered' \subseteq Block /\ dbPos' <= pos'
      /\ Tables => LocatorCovered' /\ HashGood'
  BY Zenon, <1>1, <1>2, CommitTables
<1>5. TypeOK'
  BY Zenon, <1>1, <1>2, <1>3, <1>4 DEF TypeOK
<1>6. Shape'
  BY ZenonT(30), <1>1, <1>3, <1>4 DEF Shape
<1>7. Done' = Done
  BY <1>2 DEF Done
<1>8. Control'
  BY Zenon, <1>2, <1>3, <1>7 DEF Control
<1>9. ASSUME lost = {} PROVE ~fatal' /\ Tables'
  <2>1. ~fatal /\ Tables /\ UNCHANGED <<fatal, byHeight, byHash, pos, file, kept>>
    BY Zenon, <1>2, <1>3, <1>9
  <2>2. DoneStored'
    BY Zenon, <1>7, <2>1 DEF Tables, DoneStored, Stored
  <2>3. KeptReachable'
    BY Zenon, <1>7, <2>1 DEF Tables, KeptReachable, Reachable, Stored
  <2>4. ~fatal'
    BY <2>1
  <2> QED BY Zenon, <1>4, <2>1, <2>2, <2>3, <2>4 DEF Tables
<1>10. synced' => Chain(tip) \subseteq Chain(best')
  BY Zenon, <1>1, <1>2, NextIs
<1> QED BY Zenon, <1>3, <1>5, <1>6, <1>8, <1>9, <1>10, SyncStep

LEMMA SyncInterruptedInv == IndInv /\ SyncInterrupted => IndInv'
<1> SUFFICES ASSUME IndInv, SyncInterrupted PROVE IndInv'
  OBVIOUS
<1>1. synced \in BOOLEAN /\ synced' = synced
  BY Zenon DEF IndInv, TypeOK, SyncInterrupted
<1>2. synced' \in BOOLEAN /\ (synced' => synced)
  BY Zenon, <1>1
<1> QED BY <1>2, SyncEnds DEF SyncInterrupted

LEMMA SyncDoneInv == IndInv /\ SyncDone => IndInv'
<1> SUFFICES ASSUME IndInv, SyncDone PROVE IndInv'
  OBVIOUS
<1>1. synced' \in BOOLEAN
  BY Zenon DEF SyncDone
<1> QED BY Zenon, <1>1, SyncEnds DEF SyncDone

LEMMA SyncNextInv == IndInv /\ SyncNext => IndInv'
<1> SUFFICES ASSUME IndInv, SyncNext PROVE IndInv'
  OBVIOUS
<1>1. TypeOK /\ Shape /\ Control
  BY Zenon DEF IndInv
<1>2. /\ pc = "loop" /\ NextSyncBlock(pindex) # None /\ Prev(NextSyncBlock(pindex)) = pindex
      /\ pindex' = NextSyncBlock(pindex) /\ pc' = "publish"
      /\ UNCHANGED <<chain, queue, best, synced, timed, cb, pos, file, db, reader, run, fatal, kept>>
  BY Zenon DEF SyncNext
<1>3. ~synced /\ cb = "idle" /\ pindex \in Place /\ Done = pindex /\ (lost = {} => Tables /\ ~fatal)
  BY Zenon, <1>2, Syncing DEF Done
<1>4. /\ UNCHANGED <<tip, flushed, moves, queue, best, synced, timed, cb, pos, file, reader>>
      /\ UNCHANGED <<locator, dbPos, uncovered, byHeight, byHash>>
      /\ UNCHANGED <<interrupt, alive, restarts, lost, fatal, kept>>
  BY Zenon, <1>2 DEF chain, run, db, committed
<1>5. pindex' \in Block /\ pindex' \in Place /\ pindex' # None
  BY ZenonT(30), <1>1, <1>2, <1>3, NextIs DEF Place
<1>6. TypeOK'
  BY <1>1, <1>2, <1>4, <1>5 DEF TypeOK
<1>7. Shape'
  BY Zenon, <1>1, <1>4 DEF Shape
<1>8. Done' = Done
  <2>1. Done' = Prev(pindex')
    BY Zenon, <1>2 DEF Done
  <2> QED BY Zenon, <1>2, <1>3, <2>1
<1>9. Control'
  <2>1. ~synced'
    BY <1>3, <1>4
  <2>2. cb' = "idle" /\ pc' = "publish" /\ pindex' # None
    BY Zenon, <1>2, <1>3, <1>4, <1>5
  <2>3. Chain(best') \subseteq Chain(Done')
    BY ZenonT(30), <1>1, <1>2, <1>4, <1>8 DEF Control
  <2> QED BY Zenon, <2>1, <2>2, <2>3 DEF Control
<1>10. ASSUME lost = {} PROVE ~fatal' /\ Tables'
  BY <1>2, <1>3, <1>4, <1>8, <1>10, KeepTables
<1> QED BY <1>2, <1>3, <1>4, <1>6, <1>7, <1>9, <1>10, SyncStep

(* Rewind goes back to the fork, which is below the last finished block. *)
LEMMA SyncRewindInv == IndInv /\ SyncRewind => IndInv'
<1> SUFFICES ASSUME IndInv, SyncRewind PROVE IndInv'
  OBVIOUS
<1> DEFINE n == NextSyncBlock(pindex)
<1>1. TypeOK /\ Shape /\ Control
  BY DEF IndInv
<1>2. /\ pc = "loop" /\ n # None /\ Prev(n) # pindex
      /\ IF MayCopy(pindex, Prev(n))
         THEN /\ RewindTables(pindex, Prev(n))
              /\ pc' = "rewind" /\ alive' = (pindex = best) /\ fatal' = fatal
         ELSE pc' = "end" /\ Fatal /\ UNCHANGED alive
      /\ UNCHANGED <<chain, queue, best, synced, pindex, timed, cb, pos, file, byHeight, reader,
                     interrupt, restarts, lost, kept>>
  BY ZenonT(30) DEF SyncRewind
<1>3. ~synced /\ cb = "idle" /\ pindex \in Place /\ Done = pindex /\ (lost = {} => Tables /\ ~fatal)
  BY Zenon, <1>2, Syncing DEF Done
<1>4. /\ UNCHANGED <<tip, flushed, moves, queue, best, synced, pindex, timed, cb, pos, file, reader>>
      /\ UNCHANGED <<byHeight, interrupt, restarts, lost, kept>>
  BY Zenon, <1>2 DEF chain
<1>5. n \in Block /\ n # Genesis /\ pindex # None /\ Prev(n) \in Block /\ Prev(n) \in Chain(pindex)
  BY Zenon, <1>1, <1>2, <1>3, NextIs
<1>6. pindex \in Block
  BY Zenon, <1>3, <1>5 DEF Place
<1>7. NextSyncBlock(pindex)' = n
  BY ZenonT(30), <1>4 DEF NextSyncBlock
<1> HIDE DEF n
<1>8. CASE MayCopy(pindex, Prev(n))
  <2>1. RewindTables(pindex, Prev(n)) /\ pc' = "rewind" /\ alive' = (pindex = best) /\ fatal' = fatal
    BY Zenon, <1>2, <1>8
  <2>2. locator' = locator
    BY Zenon, <2>1 DEF RewindTables
  <2>3. Done' = Done
    BY Zenon, <1>3, <1>4, <2>1 DEF Done
  <2>4. /\ dbPos' \in Position /\ uncovered' \subseteq Block
        /\ byHash' \in [Block -> Position \cup {None}]
        /\ Shape'
        /\ Tables => Tables' /\ \A b \in Chain(pindex) \ Chain(Prev(n)) : byHash'[b] # None
    BY ZenonT(30), <1>1, <1>3, <1>4, <1>5, <1>6, <1>8, <2>1, <2>3, RewindCopies
  <2>5. alive' \in BOOLEAN /\ (alive' => pindex = best)
    BY <2>1
  <2>6. TypeOK'
    BY ZenonT(30), <1>1, <1>4, <2>1, <2>2, <2>4, <2>5 DEF TypeOK
  <2>7. Control'
    <3>1. ~synced' /\ cb' = "idle" /\ pc' \notin {"publish", "write"}
      BY Zenon, <1>3, <1>4, <2>1
    <3>2. Chain(best') \subseteq Chain(Done')
      BY Zenon, <1>1, <1>2, <1>4, <2>3 DEF Control
    <3>3. alive' => /\ pindex' = best'
                    /\ pindex' # None /\ NextSyncBlock(pindex)' \notin {None, Genesis}
                    /\ Prev(NextSyncBlock(pindex))' \in Chain(pindex)'
      BY ZenonT(30), <1>2, <1>4, <1>5, <1>7, <2>5
    <3> QED BY Zenon, <3>1, <3>2, <3>3 DEF Control
  <2>8. ASSUME lost = {} PROVE ~fatal' /\ Tables'
    BY Zenon, <1>3, <2>1, <2>4, <2>8
  <2>9. lost = {} => Copied(pindex, Prev(NextSyncBlock(pindex)))'
    BY ZenonT(30), <1>3, <1>4, <1>7, <2>4 DEF Copied
  <2> QED BY <1>2, <1>3, <1>4, <2>4, <2>6, <2>7, <2>8, <2>9, SyncStep
<1>9. CASE ~MayCopy(pindex, Prev(n))
  <2>1. pc' = "end" /\ fatal' = TRUE /\ UNCHANGED <<db, alive>>
    BY Zenon, <1>2, <1>9 DEF Fatal
  <2>2. UNCHANGED <<locator, dbPos, uncovered, byHash>>
    BY Zenon, <2>1 DEF db, committed
  <2>3. lost # {}
    BY <1>1, <1>3, <1>5, <1>6, <1>9, NothingMissing
  <2>4. TypeOK'
    BY Zenon, <1>1, <1>4, <2>1, <2>2 DEF TypeOK
  <2>5. Shape'
    BY Zenon, <1>1, <1>4, <2>2 DEF Shape
  <2>6. Done' = best'
    BY <2>1 DEF Done
  <2>7. Control'
    BY ZenonT(30), <1>3, <1>4, <2>1, <2>6 DEF Control
  <2> QED BY <1>2, <1>3, <1>4, <2>3, <2>4, <2>5, <2>7, SyncStep
<1> QED BY <1>8, <1>9

LEMMA SyncRewoundInv == IndInv /\ SyncRewound => IndInv'
<1> SUFFICES ASSUME IndInv, SyncRewound PROVE IndInv'
  OBVIOUS
<1> DEFINE n == NextSyncBlock(pindex)
<1>1. TypeOK /\ Shape /\ Control /\ (lost = {} => Sound)
  BY DEF IndInv
<1>2. /\ alive /\ pc = "rewind" /\ pindex' = n /\ best' = Prev(pindex') /\ Commit(best', TRUE)
      /\ pc' = "publish"
      /\ UNCHANGED <<chain, queue, synced, timed, cb, pos, file, byHeight, byHash, reader, run, fatal, kept>>
  BY ZenonT(30) DEF SyncRewound
<1>3. ~synced /\ cb = "idle" /\ pindex \in Place /\ Done = pindex /\ (lost = {} => Tables /\ ~fatal)
  BY ZenonT(30), <1>2, Syncing DEF Done
<1>4. /\ UNCHANGED <<tip, flushed, moves, queue, synced, timed, cb, pos, file, byHeight, byHash, reader>>
      /\ UNCHANGED <<interrupt, alive, restarts, lost, fatal, kept>>
  BY <1>2 DEF chain, run
<1>5. n # None /\ n # Genesis /\ Prev(n) \in Chain(pindex)
  BY ZenonT(30), <1>1, <1>2 DEF Control
<1>6. n \in Block /\ Prev(n) \in Block /\ Prev(n) \in Place /\ Chain(Prev(n)) \subseteq Chain(Done)
  BY ZenonT(30), <1>1, <1>3, <1>5, NextIs, ChainTrans DEF Place
<1>7. lost = {} => Copied(Done, Prev(n))
  BY Zenon, <1>1, <1>2, <1>3 DEF Sound
<1> HIDE DEF n
<1>8. /\ locator' \in Place /\ dbPos' \in Position /\ uncovered' \subseteq Block /\ dbPos' <= pos'
      /\ Tables => LocatorCovered' /\ HashGood'
  BY ZenonT(30), <1>1, <1>2, <1>4, <1>6, CommitTables
<1>9. TypeOK'
  BY ZenonT(30), <1>1, <1>2, <1>4, <1>6, <1>8 DEF TypeOK, Place
<1>10. Shape'
  BY Zenon, <1>1, <1>4, <1>8 DEF Shape
<1>11. Done' = Prev(n) /\ best' = Prev(n)
  BY ZenonT(30), <1>2 DEF Done
<1>12. Control'
  BY <1>2, <1>3, <1>4, <1>5, <1>11 DEF Control
<1>13. ASSUME lost = {} PROVE ~fatal' /\ Tables'
  <2>1. DoneStored' /\ KeptReachable'
    BY ZenonT(30), <1>3, <1>4, <1>6, <1>7, <1>11, <1>13, LowerDone
  <2> QED BY Zenon, <1>3, <1>4, <1>8, <1>13, <2>1 DEF Tables
<1> QED BY <1>2, <1>3, <1>4, <1>9, <1>10, <1>12, <1>13, SyncStep

(* The position is published ahead of the block that is written next. *)
LEMMA SyncPublishInv == IndInv /\ SyncPublish => IndInv'
<1> SUFFICES ASSUME IndInv, SyncPublish PROVE IndInv'
  OBVIOUS
<1>1. TypeOK /\ Shape /\ Control
  BY DEF IndInv
<1>2. /\ pc = "publish" /\ pc' = "write"
      /\ \/ best' = pindex /\ timed' = TRUE /\ Commit(pindex, FALSE)
         \/ UNCHANGED <<best, timed, committed>>
      /\ UNCHANGED <<chain, queue, synced, pindex, cb, pos, file, byHeight, byHash, reader, run, fatal, kept>>
  BY Zenon DEF SyncPublish
<1>3. /\ ~synced /\ cb = "idle" /\ pindex \in Place /\ Done = Prev(pindex)
      /\ lost = {} => Tables /\ ~fatal
  BY ZenonT(30), <1>2, Syncing DEF Done
<1>4. /\ UNCHANGED <<tip, flushed, moves, queue, synced, pindex, cb, pos, file, byHeight, byHash, reader>>
      /\ UNCHANGED <<interrupt, alive, restarts, lost, fatal, kept>>
  BY <1>2 DEF chain, run
<1>5. pindex \in Block /\ pindex # None /\ Chain(pindex) = {pindex} \cup Chain(Done)
  BY ZenonT(30), <1>1, <1>2, <1>3, PrevIs DEF Control, Place
<1>6. Done' = Done
  BY <1>2, <1>3, <1>4 DEF Done
<1>7. /\ locator' \in Place /\ dbPos' \in Position /\ uncovered' \subseteq Block /\ dbPos' <= pos'
      /\ Tables => LocatorCovered' /\ HashGood'
      /\ best' \in Place /\ timed' \in BOOLEAN /\ Chain(best') \subseteq Chain(Done) \cup {pindex}
  <2>1. CASE best' = pindex /\ timed' = TRUE /\ Commit(pindex, FALSE)
    <3>1. /\ locator' \in Place /\ dbPos' \in Position /\ uncovered' \subseteq Block /\ dbPos' <= pos'
          /\ Tables => LocatorCovered' /\ HashGood'
      BY ZenonT(30), <1>1, <1>3, <1>4, <1>5, <2>1, CommitAhead
    <3> QED BY Zenon, <1>3, <1>5, <2>1, <3>1
  <2>2. CASE UNCHANGED <<best, timed, committed>>
    <3>1. UNCHANGED <<best, timed, locator, dbPos, uncovered>>
      BY <2>2 DEF committed
    <3>2. Tables => LocatorCovered' /\ HashGood'
      BY ZenonT(30), <1>4, <3>1 DEF Tables, LocatorCovered, HashGood, Covered, Stored
    <3>3. locator' \in Place /\ dbPos' \in Position /\ uncovered' \subseteq Block /\ dbPos' <= pos'
          /\ best' \in Place
      BY Zenon, <1>1, <1>4, <3>1 DEF TypeOK, Shape
    <3>4. timed' \in BOOLEAN
      BY Zenon, <1>1, <3>1 DEF TypeOK
    <3>5. Chain(best') \subseteq Chain(Done)
      BY Zenon, <1>1, <1>2, <3>1 DEF Control
    <3> QED BY <3>2, <3>3, <3>4, <3>5
  <2> QED BY Zenon, <1>2, <2>1, <2>2
<1>8. TypeOK'
  BY Zenon, <1>1, <1>2, <1>4, <1>7 DEF TypeOK
<1>9. Shape'
  BY Zenon, <1>1, <1>4, <1>7 DEF Shape
<1>10. Control'
  <2>0. ~synced'
    BY <1>3, <1>4
  <2>1. cb' = "idle" /\ pc' = "write" /\ pindex' # None
    BY Zenon, <1>2, <1>3, <1>4, <1>5
  <2>2. Chain(best') \subseteq Chain(Done') \cup {pindex'}
    BY Zenon, <1>4, <1>6, <1>7
  <2> QED BY Zenon, <2>0, <2>1, <2>2 DEF Control
<1>11. ASSUME lost = {} PROVE ~fatal' /\ Tables'
  BY Zenon, <1>3, <1>4, <1>6, <1>7, <1>11 DEF Tables, DoneStored, KeptReachable, Reachable, Stored
<1> QED BY <1>2, <1>3, <1>4, <1>8, <1>9, <1>10, <1>11, SyncStep

LEMMA SyncWriteInv == IndInv /\ SyncWrite => IndInv'
<1> SUFFICES ASSUME IndInv, SyncWrite PROVE IndInv'
  OBVIOUS
<1>1. TypeOK /\ Shape /\ Control
  BY DEF IndInv
<1>2. /\ pc = "write"
      /\ IF PrevFound(pindex)
         THEN WriteBlock(pindex) /\ pc' = "loop"
         ELSE Fatal /\ pc' = "end"
      /\ UNCHANGED <<chain, queue, best, synced, pindex, timed, cb, reader, run>>
  BY Zenon DEF SyncWrite
<1>3. /\ ~synced /\ cb = "idle" /\ pindex \in Place /\ Done = Prev(pindex)
      /\ lost = {} => Tables /\ ~fatal
  BY ZenonT(30), <1>2, Syncing DEF Done
<1>4. /\ UNCHANGED <<tip, flushed, moves, queue, best, synced, pindex, timed, cb, reader>>
      /\ UNCHANGED <<interrupt, alive, restarts, lost>>
  BY <1>2 DEF chain, run
<1>5. pindex \in Block /\ pindex # None /\ Chain(pindex) = {pindex} \cup Chain(Done)
  BY ZenonT(30), <1>1, <1>2, <1>3, PrevIs DEF Control, Place
<1>6. CASE PrevFound(pindex)
  <2>1. WriteBlock(pindex) /\ pc' = "loop"
    BY Zenon, <1>2, <1>6
  <2>2. UNCHANGED <<locator, dbPos, byHash, fatal>>
    BY Zenon, <2>1 DEF WriteBlock
  <2>3. Done' = pindex
    BY Zenon, <1>4, <2>1 DEF Done
  <2>4. /\ pos' \in Position /\ file' \in [Position -> Place] /\ kept' \subseteq Block
        /\ byHeight' \in [Heights -> [block : Block, pos : Position] \cup {None}]
        /\ uncovered' \subseteq Block
        /\ Shape'
        /\ Tables => Tables'
    BY <1>1, <1>3, <1>5, <2>1, <2>3, WriteTables
  <2>5. TypeOK'
    BY ZenonT(30), <1>1, <1>4, <2>1, <2>2, <2>4 DEF TypeOK
  <2>6. Chain(best') \subseteq Chain(Done')
    BY ZenonT(30), <1>1, <1>2, <1>4, <1>5, <2>3 DEF Control
  <2>7. Control'
    BY Zenon, <1>3, <1>4, <2>1, <2>6 DEF Control
  <2>8. ASSUME lost = {} PROVE ~fatal' /\ Tables'
    BY ZenonT(30), <1>3, <2>2, <2>4, <2>8
  <2> QED BY <1>2, <1>3, <1>4, <2>1, <2>4, <2>5, <2>7, <2>8, SyncStep
<1>7. CASE ~PrevFound(pindex)
  <2>1. pc' = "end" /\ fatal' = TRUE /\ UNCHANGED <<pos, file, db, kept>>
    BY Zenon, <1>2, <1>7 DEF Fatal
  <2>2. UNCHANGED <<locator, dbPos, uncovered, byHeight, byHash, pos, file, kept>>
    BY Zenon, <2>1 DEF db, committed
  <2>3. lost # {}
    BY <1>1, <1>3, <1>5, <1>7, WritePassesCheck
  <2>4. TypeOK'
    BY Zenon, <1>1, <1>4, <2>1, <2>2 DEF TypeOK
  <2>5. Shape'
    BY Zenon, <1>1, <2>2 DEF Shape
  <2>6. Done' = best'
    BY <2>1 DEF Done
  <2>7. Control'
    BY ZenonT(30), <1>3, <1>4, <2>1, <2>6 DEF Control
  <2> QED BY <1>2, <1>3, <1>4, <2>1, <2>3, <2>4, <2>5, <2>7, SyncStep
<1> QED BY Zenon, <1>6, <1>7
-----------------------------------------------------------------------------
(* The callbacks. *)

(* What is left when one has returned. *)
LEMMA Popped ==
    ASSUME IndInv, queue # <<>>, Pop
    PROVE  /\ queue \in Seq(Message) /\ queue' \in Seq(Message) /\ Len(queue) \in Nat \ {0}
           /\ Len(queue') = Len(queue) - 1
           /\ tip \in Place /\ tip # None /\ Front = queue[1] /\ Front \in Message
           /\ Ordered(queue', Len(queue'), tip)
           /\ \A i \in 1..Len(queue') : queue'[i] # Note("connected", Genesis)
           /\ reader' \in [block : Block, left : Nat] \cup {None}
<1>1. TypeOK /\ Backlog
  BY Zenon DEF IndInv
<1>2. queue \in Seq(Message) /\ tip \in Place /\ tip # None /\ queue' = Tail(queue)
  BY Zenon, <1>1 DEF TypeOK, Message, Backlog, Pop
<1>3. /\ queue' \in Seq(Message) /\ Len(queue) \in Nat \ {0} /\ Len(queue') = Len(queue) - 1
      /\ Front = queue[1] /\ Front \in Message /\ Len(queue) \in 1..Len(queue)
  <2>1. Len(queue) \in Nat \ {0}
    BY Zenon, <1>2, TailIs
  <2> QED BY <1>2, <2>1, TailIs DEF Front
<1>4. Ordered(queue', Len(queue'), tip)
  BY Zenon, <1>1, <1>2, <1>3, TailOrdered DEF Backlog
<1>5. ASSUME NEW i \in 1..Len(queue'), queue'[i] = Note("connected", Genesis) PROVE FALSE
  <2>1. i + 1 \in 1..Len(queue) /\ i + 1 # 1 /\ queue[i + 1] = queue'[i]
    BY <1>2, <1>3, TailIs
  <2> QED BY Zenon, <1>1, <1>5, <2>1 DEF Backlog
<1>6. reader' \in [block : Block, left : Nat] \cup {None}
  <2>1. reader \in [block : Block, left : Nat] \cup {None}
    BY Zenon, <1>1 DEF TypeOK
  <2> QED BY <2>1 DEF Pop
<1> QED BY <1>2, <1>3, <1>4, <1>5, <1>6

(* A reader's tip is indexed when the last callback that it waits for has   *)
(* returned.                                                                *)
LEMMA PoppedReader ==
    ASSUME IndInv, lost = {}, queue # <<>>, Pop, synced' = synced, kept \subseteq kept',
           Chain(best') \subseteq kept',
           \A n \in 1..Len(queue), t \in Place :
               Ordered(queue, n, t) /\ (synced => Brings(queue, n, best, t)) =>
                   (synced => Brings(queue', n - 1, best', t))
    PROVE  Awaited'
<1>1. TypeOK /\ Awaited
  BY DEF IndInv
<1>2. CASE reader = None
  BY Zenon, <1>2 DEF Pop, Awaited
<1>3. CASE reader # None
  <2> DEFINE l == reader.left
             r == reader.block
  <2>1. l \in Nat /\ r \in Block /\ r \in Place /\ synced
    BY Zenon, <1>1, <1>3 DEF TypeOK, Awaited, Place
  <2>2. reader' # None /\ reader'.block = r /\ reader'.left = (IF l > 0 THEN l - 1 ELSE 0)
    <3>1. reader \in [block : Block, left : Nat]
      BY Zenon, <1>1, <1>3 DEF TypeOK
    <3>2. reader' = [reader EXCEPT !.left = IF @ > 0 THEN @ - 1 ELSE 0]
      BY <1>3 DEF Pop
    <3>3. reader' \in [block : Block, left : Nat]
      BY <3>1, <3>2
    <3> QED BY <3>1, <3>2, <3>3, NoneAssumption
  <2> HIDE DEF l, r
  <2>3. CASE r \in kept
    BY Zenon, <2>1, <2>2, <2>3 DEF Awaited
  <2>4. CASE r \notin kept
    <3>1. 0 < l /\ l <= Len(queue) /\ Ordered(queue, l, r) /\ Brings(queue, l, best, r)
      BY <1>1, <1>3, <2>4 DEF Awaited, l, r
    <3>2. /\ queue \in Seq(Message) /\ queue' = Tail(queue) /\ Len(queue) \in Nat
          /\ Len(queue') = Len(queue) - 1
      BY Zenon, Popped DEF Pop
    <3>3. l \in 1..Len(queue)
      BY <2>1, <3>1, <3>2
    <3>4. Ordered(queue', l - 1, r) /\ Brings(queue', l - 1, best', r)
      BY Zenon, <2>1, <3>1, <3>2, <3>3, TailOrdered
    <3>5. CASE l = 1
      <4>1. Chain(r) \subseteq Chain(best')
        <5>1. Brings(queue', 0, best', r)
          BY <3>4, <3>5
        <5> QED BY <5>1 DEF Brings
      <4>2. r \in Chain(r)
        BY Zenon, <2>1, ChainType, NoneAssumption
      <4> QED BY ZenonT(30), <2>1, <2>2, <4>1, <4>2 DEF Awaited
    <3>6. CASE l # 1
      <4>1. reader'.left = l - 1 /\ 0 < l - 1 /\ l - 1 <= Len(queue')
        BY <2>1, <2>2, <3>1, <3>2, <3>6
      <4> QED BY ZenonT(30), <2>1, <2>2, <3>4, <4>1 DEF Awaited
    <3> QED BY Zenon, <3>5, <3>6
  <2> QED BY Zenon, <2>3, <2>4
<1> QED BY Zenon, <1>2, <1>3

(* A callback that leaves the best block alone returns. *)
LEMMA PopStep ==
    ASSUME IndInv, cb = "idle", queue # <<>>, Pop,
           UNCHANGED <<chain, best, synced, thread, cb, pos, file, byHeight, byHash, run, kept>>,
           fatal' \in BOOLEAN, locator' \in Place, dbPos' \in Position, uncovered' \subseteq Block,
           dbPos' <= pos,
           lost = {} => ~fatal' /\ LocatorCovered' /\ HashGood',
           lost = {} /\ synced /\ Front.type = "connected" =>
               Front.block # Genesis /\ Prev(Front.block) \notin Chain(best)
    PROVE  IndInv'
<1>1. TypeOK /\ Shape /\ Control /\ Backlog /\ (lost = {} => Sound)
  BY Zenon DEF IndInv
<1>2. /\ UNCHANGED <<tip, flushed, moves, best, synced, pc, pindex, timed, cb, pos, file>>
      /\ UNCHANGED <<byHeight, byHash, interrupt, alive, restarts, lost, kept>>
  BY DEF chain, thread, run
<1>3. /\ queue \in Seq(Message) /\ queue' \in Seq(Message) /\ Len(queue) \in Nat \ {0}
      /\ Len(queue') = Len(queue) - 1
      /\ tip \in Place /\ tip # None /\ Front = queue[1]
      /\ Ordered(queue', Len(queue'), tip)
      /\ \A i \in 1..Len(queue') : queue'[i] # Note("connected", Genesis)
      /\ reader' \in [block : Block, left : Nat] \cup {None}
  BY Zenon, Popped
<1>4. TypeOK'
  BY Zenon, <1>1, <1>2, <1>3 DEF TypeOK, Message
<1>5. Shape'
  BY ZenonT(30), <1>1, <1>2 DEF Shape
<1>6. Done' = Done /\ NextSyncBlock(pindex)' = NextSyncBlock(pindex)
  BY <1>2 DEF Done, NextSyncBlock
<1>7. Control'
  BY Zenon, <1>1, <1>2, <1>6, KeepControl
<1>8. Backlog'
  BY Zenon, <1>2, <1>3 DEF Backlog
<1>9. ASSUME lost = {}, NEW n \in 1..Len(queue), NEW t \in Place, Ordered(queue, n, t),
             synced => Brings(queue, n, best, t)
      PROVE  synced => Brings(queue', n - 1, best', t)
  <2>1. best \in Place /\ queue' = Tail(queue)
    BY <1>1 DEF TypeOK, Pop
  <2> QED BY Zenon, <1>2, <1>3, <1>9, <2>1, BringsIgnored
<1>10. ASSUME lost = {} PROVE Sound'
  <2>1. Sound
    BY <1>1, <1>10
  <2>2. Tables'
    BY ZenonT(30), <1>2, <1>6, <1>10, <2>1 DEF Sound, Tables, DoneStored, KeptReachable, Reachable, Stored
  <2>3. synced' => Brings(queue', Len(queue'), best', tip')
    <3>1. Len(queue) \in Nat \ {0} /\ Len(queue') = Len(queue) - 1 /\ tip \in Place
      BY Zenon, <1>3
    <3>2. Len(queue) \in 1..Len(queue)
      BY <3>1
    <3>3. Ordered(queue, Len(queue), tip) /\ (synced => Brings(queue, Len(queue), best, tip))
      BY Zenon, <1>1, <2>1 DEF Backlog, Sound
    <3>4. synced => Brings(queue', Len(queue) - 1, best', tip)
      BY ZenonT(30), <1>9, <1>10, <3>1, <3>2, <3>3
    <3>5. Brings(queue', Len(queue) - 1, best', tip) => Brings(queue', Len(queue'), best', tip')
      BY <1>2, <3>1
    <3> QED BY <1>2, <3>4, <3>5
  <2>4. pc' = "rewind" /\ alive' => Copied(pindex, Prev(NextSyncBlock(pindex)))'
    BY ZenonT(30), <1>2, <1>6, <2>1 DEF Sound, Copied
  <2> QED BY ZenonT(30), <1>2, <1>10, <2>2, <2>3, <2>4 DEF Sound
<1>11. ASSUME lost = {} PROVE Awaited'
  <2>1. ASSUME synced PROVE Chain(best') \subseteq kept'
    BY ZenonT(30), <1>1, <1>2, <1>11, <2>1 DEF Sound, Tables, DoneStored, Control, Done
  <2>2. CASE synced
    BY <1>2, <1>9, <1>11, <2>1, <2>2, PoppedReader
  <2>3. CASE ~synced
    <3>1. reader = None
      BY Zenon, <1>11, <2>3 DEF IndInv, Awaited
    <3> QED BY Zenon, <3>1 DEF Awaited, Pop
  <2> QED BY <2>2, <2>3
<1> QED BY Zenon, <1>2, <1>4, <1>5, <1>7, <1>8, <1>10, <1>11 DEF IndInv

(* An index that is synced to no block has the notification of genesis      *)
(* first.                                                                   *)
LEMMA GenesisFirst ==
    ASSUME IndInv, lost = {}, synced, best = None, queue # <<>>
    PROVE  Front = Note("connected", Genesis)
<1>1. TypeOK /\ Backlog /\ Sound
  BY DEF IndInv
<1>2. tip \in Place /\ tip # None /\ queue \in Seq(Message) /\ Front = queue[1]
  BY Zenon, <1>1, TailIs DEF TypeOK, Backlog, Front, Message
<1>3. Genesis \in Chain(tip) \ Chain(best)
  BY ZenonT(30), <1>2, ChainType DEF Chain
<1>4. PICK j \in 1..Len(queue) : queue[j] = Note("connected", Genesis)
  BY <1>1, <1>3 DEF Sound, Brings
<1> QED BY Zenon, <1>1, <1>2, <1>4 DEF Backlog

LEMMA ConnectedIgnoredInv == IndInv /\ ConnectedIgnored => IndInv'
<1> SUFFICES ASSUME IndInv, ConnectedIgnored PROVE IndInv'
  OBVIOUS
<1>1. TypeOK /\ Shape /\ Control /\ (lost = {} => Sound)
  BY DEF IndInv
<1>2. /\ cb = "idle" /\ queue # <<>> /\ Front.type = "connected" /\ Pop
      /\ \/ ~synced
         \/ IF best = None THEN Height[Front.block] # 0 ELSE ~Connects(Front.block)
      /\ fatal' = (fatal \/ (synced /\ best = None))
      /\ UNCHANGED <<chain, best, synced, thread, cb, pos, file, db, run, kept>>
  BY Zenon DEF ConnectedIgnored
<1>3. UNCHANGED <<locator, dbPos, uncovered, byHeight, byHash, pos, file>>
  BY Zenon, <1>2 DEF db, committed
<1>4. locator' \in Place /\ dbPos' \in Position /\ uncovered' \subseteq Block /\ dbPos' <= pos
  BY ZenonT(30), <1>1, <1>3 DEF TypeOK, Shape
<1>5. Front.block \in Block /\ Front = Note("connected", Front.block)
  BY <1>2, Popped DEF Message, Note
<1>6. ASSUME lost = {} PROVE ~(synced /\ best = None)
  <2> SUFFICES ASSUME synced, best = None PROVE FALSE
    OBVIOUS
  <2>1. Front.block = Genesis
    <3>1. Front = Note("connected", Genesis)
      BY Zenon, <1>2, <1>6, GenesisFirst
    <3>2. Note("connected", Genesis).block = Genesis
      BY Zenon DEF Note
    <3> QED BY Zenon, <3>1, <3>2
  <2> QED BY Zenon, <1>2, <2>1, HeightUnfold
<1>7. fatal' \in BOOLEAN
  BY Zenon, <1>2
<1>8. ASSUME lost = {} PROVE ~fatal' /\ LocatorCovered' /\ HashGood'
  <2>1. ~fatal'
    BY ZenonT(30), <1>1, <1>2, <1>6, <1>8 DEF Sound
  <2> QED BY Zenon, <1>1, <1>3, <1>8, <2>1 DEF Sound, Tables, LocatorCovered, HashGood, Covered, Stored
<1>9. ASSUME lost = {}, synced
      PROVE  Front.block # Genesis /\ Prev(Front.block) \notin Chain(best)
  <2>1. best \in Block /\ best \in Place /\ ~Connects(Front.block)
    BY Zenon, <1>1, <1>2, <1>6, <1>9 DEF TypeOK, Place
  <2>2. Front.block # Genesis
    <3>1. Front.block = Genesis => Connects(Front.block)
      <4>1. 0 - 1 \in Int /\ 0 - 1 \notin 0..HeightOf(best) /\ Height[Genesis] = 0
        BY Zenon, <2>1, ChainHeights, HeightUnfold, BelowZero
      <4> QED BY ZenonT(30), <2>1, <4>1, GetAncestorIs DEF Connects, Prev
    <3> QED BY <2>1, <3>1
  <2> QED BY <1>5, <2>1, <2>2, ConnectsIs DEF Connects
<1>10. UNCHANGED <<chain, best, synced, thread, cb, pos, file, byHeight, byHash, run, kept>>
  BY ZenonT(30), <1>2, <1>3
<1> QED BY Zenon, <1>2, <1>4, <1>7, <1>8, <1>9, <1>10, PopStep

LEMMA ChainStateFlushedInv == IndInv /\ ChainStateFlushed => IndInv'
<1> SUFFICES ASSUME IndInv, ChainStateFlushed PROVE IndInv'
  OBVIOUS
<1>1. TypeOK /\ Shape /\ Control /\ (lost = {} => Sound)
  BY DEF IndInv
<1>2. /\ cb = "idle" /\ queue # <<>> /\ Front.type = "flushed" /\ Pop
      /\ (synced /\ Commit(best, TRUE)) \/ UNCHANGED committed
      /\ UNCHANGED <<chain, best, synced, thread, cb, pos, file, byHeight, byHash, run, fatal, kept>>
  BY Zenon DEF ChainStateFlushed
<1>3. fatal' \in BOOLEAN /\ fatal' = fatal
  BY ZenonT(30), <1>1, <1>2 DEF TypeOK
<1>4. /\ locator' \in Place /\ dbPos' \in Position /\ uncovered' \subseteq Block /\ dbPos' <= pos
      /\ lost = {} => LocatorCovered' /\ HashGood'
  <2>1. CASE synced /\ Commit(best, TRUE)
    <3>1. Done = best /\ best \in Place
      BY Zenon, <1>1, <2>1 DEF Control, Done, TypeOK
    <3> QED BY Zenon, <1>1, <1>2, <2>1, <3>1, CommitTables DEF Sound
  <2>2. CASE UNCHANGED committed
    <3>1. UNCHANGED <<locator, dbPos, uncovered, byHeight, byHash, pos, file>>
      BY <1>2, <2>2 DEF committed
    <3>2. lost = {} => LocatorCovered' /\ HashGood'
      BY Zenon, <1>1, <3>1 DEF Sound, Tables, LocatorCovered, HashGood, Covered, Stored
    <3> QED BY ZenonT(30), <1>1, <3>1, <3>2 DEF TypeOK, Shape
  <2> QED BY <1>2, <2>1, <2>2
<1>5. lost = {} => ~fatal'
  BY Zenon, <1>1, <1>3 DEF Sound
<1>6. Front.type # "connected"
  BY ZenonT(30), <1>2
<1> QED BY <1>2, <1>3, <1>4, <1>5, <1>6, PopStep

(* BlockConnected in a synced index: the sync thread has ended. *)
LEMMA CallbackStep ==
    ASSUME IndInv, synced, UNCHANGED <<chain, synced, thread, run>>,
           TypeOK', Shape', Backlog',
           cb' # "idle" => /\ best' # None /\ queue' # <<>>
                           /\ (Front.type)' = "connected" /\ (Front.block)' # Genesis,
           cb' = "commit" => (Prev(Front.block) \in Chain(best))',
           cb' = "write" => (best = Prev(Front.block))',
           lost = {} => /\ ~fatal' /\ Tables' /\ Brings(queue', Len(queue'), best', tip) /\ Awaited'
                        /\ cb' = "commit" => Copied(best, Prev(Front.block))'
    PROVE  IndInv'
<1>1. pc = "end" /\ UNCHANGED <<tip, synced, pc, lost>>
  BY ZenonT(30) DEF IndInv, Control, chain, thread, run
<1>2. Done' = best'
  BY <1>1 DEF Done
<1>3. Control'
  <2>1. pc' \notin {"publish", "write", "rewind"} /\ synced'
    BY <1>1
  <2>2. Chain(best)' \subseteq Chain(Done)'
    BY Zenon, <1>2
  <2> QED BY ZenonT(30), <1>1, <2>1, <2>2 DEF Control
<1>4. lost = {} => Sound'
  BY Zenon, <1>1 DEF Sound
<1> QED BY <1>1, <1>3, <1>4 DEF IndInv

LEMMA ConnectedRewindInv == IndInv /\ ConnectedRewind => IndInv'
<1> SUFFICES ASSUME IndInv, ConnectedRewind PROVE IndInv'
  OBVIOUS
<1> DEFINE c == Front.block
           to == Prev(c)
<1>1. TypeOK /\ Shape /\ Control /\ Backlog /\ (lost = {} => Sound /\ Awaited)
  BY Zenon DEF IndInv
<1>2. /\ cb = "idle" /\ queue # <<>> /\ Front.type = "connected"
      /\ synced /\ best # None /\ Connects(c) /\ best # to
      /\ IF MayCopy(best, to)
         THEN /\ RewindTables(best, to)
              /\ cb' = "commit" /\ fatal' = fatal
              /\ UNCHANGED <<queue, reader>>
         ELSE /\ Pop /\ fatal' = TRUE
              /\ UNCHANGED <<cb, db>>
      /\ UNCHANGED <<chain, best, synced, thread, pos, file, run, kept>>
  BY Zenon DEF ConnectedRewind
<1>3. /\ UNCHANGED <<tip, flushed, moves, best, synced, pc, pindex, timed, pos, file>>
      /\ UNCHANGED <<interrupt, alive, restarts, lost, kept>>
  BY <1>2 DEF chain, thread, run
<1>4. /\ queue \in Seq(Message) /\ Front = queue[1] /\ c \in Block /\ Front = Note("connected", c)
      /\ 1 \in 1..Len(queue)
  <2>1. queue \in Seq(Message)
    BY ZenonT(30), <1>1 DEF TypeOK, Message
  <2>2. Front = queue[1] /\ Front \in Message /\ 1 \in 1..Len(queue)
    BY <1>2, <2>1, TailIs DEF Front
  <2> QED BY ZenonT(30), <1>2, <2>1, <2>2 DEF Message, Note
<1>5. c # Genesis
  BY Zenon, <1>1, <1>2, <1>4 DEF Backlog
<1>6. best \in Block /\ to \in Block /\ to \in Chain(best)
  <2>1. best \in Block
    BY Zenon, <1>1, <1>2 DEF TypeOK, Place
  <2>2. to \in Block
    BY Zenon, <1>4, <1>5, PrevIs DEF Place
  <2> QED BY Zenon, <1>2, <1>4, <1>5, <2>1, <2>2, ConnectsIs DEF Connects
<1>7. Done = best /\ (lost = {} => Tables /\ ~fatal)
  BY Zenon, <1>1, <1>2 DEF Control, Done, Sound
<1>8. CASE MayCopy(best, to)
  <2>1. RewindTables(best, to) /\ cb' = "commit" /\ fatal' = fatal /\ UNCHANGED <<queue, reader>>
    BY Zenon, <1>2, <1>8
  <2>2. UNCHANGED <<locator, byHeight>>
    BY Zenon, <2>1 DEF RewindTables
  <2>3. Done' = Done
    BY ZenonT(30), <1>3 DEF Done
  <2>4. /\ dbPos' \in Position /\ uncovered' \subseteq Block
        /\ byHash' \in [Block -> Position \cup {None}]
        /\ Shape'
        /\ Tables => Tables' /\ \A b \in Chain(best) \ Chain(to) : byHash'[b] # None
    BY <1>1, <1>3, <1>6, <1>7, <1>8, <2>1, <2>3, RewindCopies
  <2>5. TypeOK'
    BY ZenonT(30), <1>1, <1>3, <2>1, <2>2, <2>4 DEF TypeOK
  <2>6. Backlog'
    BY Zenon, <1>1, <1>3, <2>1 DEF Backlog
  <2>7. Front' = Front
    BY <2>1 DEF Front
  <2>8. ASSUME lost = {}
        PROVE  /\ ~fatal' /\ Tables' /\ Brings(queue', Len(queue'), best', tip) /\ Awaited'
               /\ Copied(best, Prev(Front.block))'
    <3>1. Awaited'
      BY Zenon, <1>1, <1>3, <2>1, <2>8 DEF Awaited
    <3>2. Brings(queue', Len(queue'), best', tip)
      BY Zenon, <1>1, <1>2, <1>3, <2>1, <2>8 DEF Sound
    <3>3. Copied(best, Prev(Front.block))'
      BY Zenon, <1>3, <1>7, <2>4, <2>7, <2>8 DEF Copied
    <3> QED BY ZenonT(30), <1>7, <2>1, <2>4, <2>8, <3>1, <3>2, <3>3
  <2>9. /\ best' # None /\ queue' # <<>> /\ (Front.type)' = "connected" /\ (Front.block)' # Genesis
        /\ (Prev(Front.block) \in Chain(best))'
    BY Zenon, <1>2, <1>3, <1>5, <1>6, <2>1, <2>7
  <2> QED BY Zenon, <1>2, <2>1, <2>4, <2>5, <2>6, <2>8, <2>9, CallbackStep
<1>9. CASE ~MayCopy(best, to)
  <2>1. Pop /\ fatal' = TRUE /\ UNCHANGED <<cb, db>>
    BY Zenon, <1>2, <1>9
  <2>2. lost # {}
    BY ZenonT(30), <1>1, <1>6, <1>7, <1>9, NothingMissing
  <2>3. UNCHANGED <<locator, dbPos, uncovered, byHeight, byHash>>
    BY <2>1 DEF db, committed
  <2>4. locator' \in Place /\ dbPos' \in Position /\ uncovered' \subseteq Block /\ dbPos' <= pos
    BY Zenon, <1>1, <2>3 DEF TypeOK, Shape
  <2> QED BY Zenon, <1>2, <2>1, <2>2, <2>3, <2>4, PopStep
<1> QED BY <1>8, <1>9

LEMMA ConnectedCommitInv == IndInv /\ ConnectedCommit => IndInv'
<1> SUFFICES ASSUME IndInv, ConnectedCommit PROVE IndInv'
  OBVIOUS
<1> DEFINE c == Front.block
<1>1. TypeOK /\ Shape /\ Control /\ Backlog /\ (lost = {} => Sound /\ Awaited)
  BY DEF IndInv
<1>2. /\ cb = "commit" /\ best' = Prev(c) /\ Commit(best', TRUE) /\ cb' = "write"
      /\ UNCHANGED <<chain, queue, synced, thread, pos, file, byHeight, byHash, reader, run, fatal, kept>>
  BY Zenon DEF ConnectedCommit
<1>3. /\ UNCHANGED <<tip, flushed, moves, queue, synced, pc, pindex, timed, pos, file, byHeight, byHash>>
      /\ UNCHANGED <<reader, interrupt, alive, restarts, lost, fatal, kept>>
  BY Zenon, <1>2 DEF chain, thread, run
<1>4. /\ synced /\ best # None /\ queue # <<>> /\ Front.type = "connected" /\ c # Genesis
      /\ Prev(c) \in Chain(best) /\ pc = "end"
  BY Zenon, <1>1, <1>2 DEF Control
<1>5. /\ queue \in Seq(Message) /\ Front = queue[1] /\ c \in Block /\ Len(queue) \in 1..Len(queue)
      /\ Len(queue) \in Nat
  <2>1. queue \in Seq(Message)
    BY <1>1 DEF TypeOK, Message
  <2>2. Front = queue[1] /\ Front \in Message /\ Len(queue) \in Nat \ {0}
    BY <1>4, <2>1, TailIs DEF Front
  <2>3. c \in Block
    BY Zenon, <2>2 DEF Message
  <2> QED BY <2>1, <2>2, <2>3
<1>6. best \in Place /\ Prev(c) \in Block /\ Prev(c) \in Place /\ Chain(Prev(c)) \subseteq Chain(best)
      /\ tip \in Place /\ Prev(c) # None
  BY Zenon, <1>1, <1>4, ChainTrans DEF TypeOK, Place
<1>7. Done = best /\ Done' = Prev(c) /\ (lost = {} => Tables /\ ~fatal)
  BY ZenonT(30), <1>1, <1>2, <1>3, <1>4 DEF Done, Sound
<1>8. /\ locator' \in Place /\ dbPos' \in Position /\ uncovered' \subseteq Block /\ dbPos' <= pos'
      /\ Tables => LocatorCovered' /\ HashGood'
  BY <1>1, <1>2, <1>3, <1>6, <1>7, CommitTables
<1>9. TypeOK'
  BY Zenon, <1>1, <1>2, <1>3, <1>6, <1>8 DEF TypeOK
<1>10. Shape'
  BY ZenonT(30), <1>1, <1>3, <1>8 DEF Shape
<1>11. Backlog'
  BY Zenon, <1>1, <1>3, <1>4 DEF Backlog
<1>12. Front' = Front
  BY Zenon, <1>3 DEF Front
<1>13. ASSUME lost = {}
       PROVE  ~fatal' /\ Tables' /\ Brings(queue', Len(queue'), best', tip) /\ Awaited'
  <2>1. Copied(Done, Done')
    BY ZenonT(30), <1>1, <1>2, <1>7, <1>13 DEF Sound
  <2>2. DoneStored' /\ KeptReachable'
    BY <1>3, <1>6, <1>7, <1>13, <2>1, LowerDone
  <2>3. Brings(queue, Len(queue), best', tip)
    BY Zenon, <1>1, <1>2, <1>4, <1>5, <1>6, BringsRewound DEF Backlog
  <2>4. Awaited'
    <3> SUFFICES ASSUME reader # None, reader.block \notin kept PROVE Awaited'
      BY Zenon, <1>1, <1>3, <1>13 DEF Awaited
    <3>1. /\ 0 < reader.left /\ reader.left <= Len(queue)
          /\ Ordered(queue, reader.left, reader.block) /\ reader \in [block : Block, left : Nat]
      BY Zenon, <1>1, <1>13 DEF Awaited, TypeOK
    <3>2. reader.left \in 1..Len(queue) /\ reader.block \in Place
      BY <1>5, <3>1 DEF Place
    <3>3. Brings(queue, reader.left, best', reader.block)
      BY Zenon, <1>2, <1>4, <1>5, <3>1, <3>2, BringsRewound
    <3> QED BY Zenon, <1>3, <1>4, <3>1, <3>3 DEF Awaited
  <2> QED BY Zenon, <1>3, <1>7, <1>8, <1>13, <2>2, <2>3, <2>4 DEF Tables
<1>14. /\ best' # None /\ queue' # <<>> /\ (Front.type)' = "connected" /\ (Front.block)' # Genesis
       /\ (best = Prev(Front.block))'
  BY Zenon, <1>2, <1>3, <1>4, <1>6, <1>12
<1> QED BY ZenonT(30), <1>2, <1>4, <1>9, <1>10, <1>11, <1>13, <1>14, CallbackStep

LEMMA ConnectedWriteInv == IndInv /\ ConnectedWrite => IndInv'
<1> SUFFICES ASSUME IndInv, ConnectedWrite PROVE IndInv'
  OBVIOUS
<1> DEFINE c == Front.block
<1>1. TypeOK /\ Shape /\ Control /\ Backlog /\ (lost = {} => Sound)
  BY Zenon DEF IndInv
<1>2. /\ queue # <<>> /\ Front.type = "connected" /\ cb' = "idle" /\ Pop
      /\ cb = "write" \/ (cb = "idle" /\ OnTop(c))
      /\ IF PrevFound(c)
         THEN WriteBlock(c) /\ best' = c
         ELSE Fatal /\ best' = best
      /\ UNCHANGED <<chain, synced, thread, run>>
  BY Zenon DEF ConnectedWrite
<1>3. /\ UNCHANGED <<tip, flushed, moves, synced, pc, pindex, timed, interrupt, alive, restarts, lost>>
  BY Zenon, <1>2 DEF chain, thread, run
<1>4. /\ queue \in Seq(Message) /\ queue' \in Seq(Message) /\ Len(queue) \in Nat \ {0}
      /\ Len(queue') = Len(queue) - 1 /\ queue' = Tail(queue)
      /\ tip \in Place /\ tip # None /\ Front = queue[1]
      /\ Ordered(queue', Len(queue'), tip)
      /\ \A i \in 1..Len(queue') : queue'[i] # Note("connected", Genesis)
      /\ reader' \in [block : Block, left : Nat] \cup {None}
  BY Zenon, <1>2, Popped DEF Pop
<1>5. c \in Block /\ c # None
  BY Zenon, <1>2, Popped, NoneAssumption DEF Message
<1>6. synced /\ best = Prev(c) /\ pc = "end"
  <2>1. CASE cb = "write"
    BY Zenon, <1>1, <2>1 DEF Control
  <2>2. CASE OnTop(c)
    <3>1. Height[c] = 0 => c = Genesis
      BY <1>5, PrevIs, ChainHeights
    <3> QED BY ZenonT(30), <1>1, <2>2, <3>1 DEF OnTop, Prev, Control
  <2> QED BY Zenon, <1>2, <2>1, <2>2
<1>7. Done = Prev(c) /\ (lost = {} => Tables /\ ~fatal)
  BY ZenonT(30), <1>1, <1>6 DEF Done, Sound
<1>8. Backlog'
  BY <1>3, <1>4 DEF Backlog
<1>9. CASE PrevFound(c)
  <2>1. WriteBlock(c) /\ best' = c
    BY <1>2, <1>9
  <2>2. UNCHANGED <<locator, dbPos, byHash, fatal>> /\ kept \subseteq kept'
    BY Zenon, <2>1 DEF WriteBlock
  <2>3. Done' = c
    BY <1>3, <1>6, <2>1 DEF Done
  <2>4. /\ pos' \in Position /\ file' \in [Position -> Place] /\ kept' \subseteq Block
        /\ byHeight' \in [Heights -> [block : Block, pos : Position] \cup {None}]
        /\ uncovered' \subseteq Block
        /\ Shape'
        /\ Tables => Tables'
    BY Zenon, <1>1, <1>5, <1>7, <2>1, <2>3, WriteTables
  <2>5. TypeOK'
    BY ZenonT(30), <1>1, <1>2, <1>3, <1>4, <1>5, <2>1, <2>2, <2>4 DEF TypeOK, Message, Place
  <2>6. ASSUME NEW n \in 1..Len(queue), NEW t \in Place, Ordered(queue, n, t)
        PROVE  Brings(queue', n - 1, best', t)
    BY Zenon, <1>2, <1>4, <2>1, <2>6, BringsWritten
  <2>7. Brings(queue', Len(queue'), best', tip)
    <3>1. Len(queue) \in 1..Len(queue)
      BY <1>4
    <3> QED BY Zenon, <1>1, <1>4, <2>6, <3>1 DEF Backlog
  <2>8. ASSUME lost = {} PROVE Awaited'
    <3>1. Chain(best') \subseteq kept'
      BY <1>7, <2>1, <2>3, <2>4, <2>8 DEF Tables, DoneStored
    <3> QED BY Zenon, <1>2, <1>3, <2>2, <2>6, <2>8, <3>1, PoppedReader
  <2> QED BY ZenonT(30), <1>2, <1>6, <1>7, <1>8, <2>2, <2>4, <2>5, <2>7, <2>8, CallbackStep
<1>10. CASE ~PrevFound(c)
  <2>1. best' = best /\ fatal' = TRUE /\ UNCHANGED <<pos, file, db, kept>>
    BY Zenon, <1>2, <1>10 DEF Fatal
  <2>2. UNCHANGED <<locator, dbPos, uncovered, byHeight, byHash, pos, file, kept>>
    BY Zenon, <2>1 DEF db, committed
  <2>3. lost # {}
    BY <1>1, <1>5, <1>7, <1>10, WritePassesCheck
  <2>4. TypeOK'
    BY ZenonT(30), <1>1, <1>2, <1>3, <1>4, <2>1, <2>2 DEF TypeOK, Message
  <2>5. Shape'
    BY Zenon, <1>1, <2>2 DEF Shape
  <2> QED BY Zenon, <1>2, <1>6, <1>8, <2>3, <2>4, <2>5, CallbackStep
<1> QED BY <1>9, <1>10
-----------------------------------------------------------------------------
(* A reader, the interruption, and the restart. *)

(* Only the reader or m_interrupt changes. *)
LEMMA ReaderStep ==
    ASSUME IndInv,
           UNCHANGED <<chain, queue, best, synced, thread, cb, pos, file, db>>,
           UNCHANGED <<alive, restarts, lost, fatal, kept>>,
           reader' \in [block : Block, left : Nat] \cup {None}, interrupt' \in BOOLEAN,
           lost = {} => Awaited'
    PROVE  IndInv'
<1>1. TypeOK /\ Shape /\ Control /\ Backlog /\ (lost = {} => Sound)
  BY Zenon DEF IndInv
<1>2. /\ UNCHANGED <<tip, flushed, moves, queue, best, synced, pc, pindex, timed, cb, pos, file>>
      /\ UNCHANGED <<locator, dbPos, uncovered, byHeight, byHash, alive, restarts, lost, fatal, kept>>
  BY DEF chain, thread, db, committed
<1>3. TypeOK'
  BY Zenon, <1>1, <1>2 DEF TypeOK
<1>4. Shape' /\ Backlog'
  <2>1. Shape'
    BY ZenonT(30), <1>1, <1>2 DEF Shape
  <2>2. Backlog'
    <3>1. UNCHANGED <<queue, tip, synced, best>>
      BY Zenon, <1>2
    <3> QED BY <1>1, <3>1 DEF Backlog
  <2> QED BY <2>1, <2>2
<1>5. Done' = Done /\ NextSyncBlock(pindex)' = NextSyncBlock(pindex) /\ Front' = Front
  BY Zenon, <1>2 DEF Done, NextSyncBlock, Front
<1>6. Control'
  <2>1. cb # "idle" => queue' # <<>> /\ Front' = Front
    BY Zenon, <1>1, <1>2, <1>5 DEF Control
  <2> QED BY Zenon, <1>1, <1>2, <1>5, <2>1, KeepControl
<1>7. ASSUME lost = {} PROVE Sound'
  <2>1. Tables'
    <3>1. Tables
      BY ZenonT(30), <1>1, <1>7 DEF Sound
    <3> QED BY Zenon, <1>2, <1>5, <3>1, KeepTables
  <2>2. ~fatal' /\ (synced' => Brings(queue', Len(queue'), best', tip'))
    BY <1>1, <1>2, <1>7 DEF Sound, Brings
  <2>3. ASSUME pc' = "rewind", alive' PROVE Copied(pindex, Prev(NextSyncBlock(pindex)))'
    <3>1. pc = "rewind" /\ alive
      BY <1>2, <2>3
    <3>2. Copied(pindex, Prev(NextSyncBlock(pindex)))
      BY Zenon, <1>1, <1>7, <3>1 DEF Sound
    <3> QED BY ZenonT(30), <1>2, <1>5, <3>2 DEF Copied
  <2>4. cb' = "commit" => Copied(best, Prev(Front.block))'
    BY Zenon, <1>1, <1>2, <1>5, <1>7 DEF Sound, Copied
  <2> QED BY Zenon, <2>1, <2>2, <2>3, <2>4 DEF Sound
<1> QED BY Zenon, <1>2, <1>3, <1>4, <1>6, <1>7 DEF IndInv

(* The process goes down: nothing depends on alive outside of a rewind. *)
LEMMA ReadNullInv == IndInv /\ ReadNull => IndInv'
<1> SUFFICES ASSUME IndInv, ReadNull PROVE IndInv'
  OBVIOUS
<1>1. TypeOK /\ Shape /\ Control /\ Backlog /\ (lost = {} => Sound /\ Awaited)
  BY Zenon DEF IndInv
<1>2. /\ pc = "end" /\ best = None /\ alive' = FALSE
      /\ UNCHANGED <<tip, flushed, moves, queue, best, synced, pc, pindex, timed, cb, pos, file>>
      /\ UNCHANGED <<locator, dbPos, uncovered, byHeight, byHash, reader, interrupt, restarts, lost, fatal, kept>>
  BY DEF ReadNull, chain, thread, db, committed
<1>3. alive' \in BOOLEAN /\ pc' # "rewind"
  BY <1>2
<1>4. TypeOK'
  BY Zenon, <1>1, <1>2, <1>3 DEF TypeOK
<1>5. Shape'
  BY ZenonT(30), <1>1, <1>2 DEF Shape
<1>6. Backlog'
  <2>1. UNCHANGED <<queue, tip, synced, best>>
    BY Zenon, <1>2
  <2> QED BY <1>1, <2>1 DEF Backlog
<1>7. Done' = Done /\ Front' = Front
  BY Zenon, <1>2 DEF Done, Front
<1>8. Control'
  <2>1. cb = "idle"
    BY ZenonT(30), <1>1, <1>2 DEF Control, TypeOK
  <2>2. cb' = "idle"
    BY <1>2, <2>1
  <2>3. /\ synced' => pc' = "end"
        /\ pc' \in {"publish", "write"} => pindex' # None
        /\ Chain(best)' \subseteq Chain(Done)' \cup (IF pc' = "write" THEN {pindex'} ELSE {})
    BY <1>1, <1>2, <1>7 DEF Control
  <2> QED BY <1>3, <2>2, <2>3 DEF Control
<1>9. ASSUME lost' = {} PROVE Sound'
  <2>1. Sound
    BY Zenon, <1>1, <1>2, <1>9
  <2>2. Tables'
    BY Zenon, <1>2, <1>7, <2>1, KeepTables DEF Sound, db, committed
  <2>3. ~fatal' /\ (synced' => Brings(queue', Len(queue'), best', tip'))
    BY <1>2, <2>1 DEF Sound, Brings
  <2>4. cb' = "commit" => Copied(best, Prev(Front.block))'
    BY Zenon, <1>2, <1>7, <2>1 DEF Sound, Copied
  <2> QED BY Zenon, <1>3, <2>2, <2>3, <2>4 DEF Sound
<1>10. ASSUME lost' = {} PROVE Awaited'
  BY Zenon, <1>1, <1>2, <1>10 DEF Awaited
<1> QED BY Zenon, <1>4, <1>5, <1>6, <1>8, <1>9, <1>10 DEF IndInv

LEMMA ReadInv == IndInv /\ Read => IndInv'
<1> SUFFICES ASSUME IndInv, Read PROVE IndInv'
  OBVIOUS
<1>1. TypeOK /\ Backlog /\ (lost = {} => Sound)
  BY DEF IndInv
<1>2. /\ synced /\ tip # None /\ tip \notin Chain(best)
      /\ reader' = [block |-> tip, left |-> Len(queue)]
      /\ UNCHANGED <<chain, queue, best, synced, thread, cb, pos, file, db, run, fatal, kept>>
  BY Zenon DEF Read
<1>3. tip \in Block /\ tip \in Place /\ Len(queue) \in Nat
  BY Zenon, <1>1, <1>2, LenIs DEF TypeOK, Place, Message
<1>4. UNCHANGED <<interrupt, alive, restarts, lost>> /\ interrupt' \in BOOLEAN
  BY Zenon, <1>1, <1>2 DEF run, TypeOK
<1>5. reader' \in [block : Block, left : Nat] /\ reader'.block = tip /\ reader'.left = Len(queue)
  BY Zenon, <1>2, <1>3
<1>6. ASSUME lost = {} PROVE Awaited'
  <2>1. Ordered(queue, Len(queue), tip) /\ Brings(queue, Len(queue), best, tip)
    BY Zenon, <1>1, <1>2, <1>6 DEF Backlog, Sound
  <2>2. 0 < Len(queue)
    <3>1. tip \in Chain(tip) \ Chain(best)
      BY Zenon, <1>2, <1>3, ChainType
    <3>2. \E j \in 1..Len(queue) : TRUE
      BY Zenon, <2>1, <3>1 DEF Brings
    <3> QED BY <1>3, <3>2
  <2>3. 0 < reader'.left /\ reader'.left <= Len(queue')
    <3>1. reader'.left = Len(queue) /\ Len(queue') = Len(queue)
      BY Zenon, <1>2, <1>5
    <3> QED BY <1>3, <2>2, <3>1
  <2>4. /\ Ordered(queue', reader'.left, reader'.block)
        /\ Brings(queue', reader'.left, best', reader'.block)
    BY ZenonT(30), <1>2, <1>5, <2>1
  <2>5. synced'
    BY <1>2
  <2> QED BY Zenon, <2>3, <2>4, <2>5 DEF Awaited
<1> QED BY Zenon, <1>2, <1>4, <1>5, <1>6, ReaderStep

LEMMA ReturnInv == IndInv /\ Return => IndInv'
<1> SUFFICES ASSUME IndInv, Return PROVE IndInv'
  OBVIOUS
<1>1. /\ reader' = None
      /\ UNCHANGED <<chain, queue, best, synced, thread, cb, pos, file, db, run, fatal, kept>>
  BY Zenon DEF Return
<1>2. UNCHANGED <<interrupt, alive, restarts, lost>> /\ interrupt' \in BOOLEAN
  BY ZenonT(30), <1>1 DEF run, IndInv, TypeOK
<1>3. Awaited'
  BY Zenon, <1>1 DEF Awaited
<1> QED BY Zenon, <1>1, <1>2, <1>3, ReaderStep

LEMMA InterruptInv == IndInv /\ Interrupt => IndInv'
<1> SUFFICES ASSUME IndInv, Interrupt PROVE IndInv'
  OBVIOUS
<1>1. /\ interrupt' \in BOOLEAN
      /\ UNCHANGED <<chain, queue, best, synced, thread, cb, pos, file, db, reader, alive, restarts, lost, fatal, kept>>
  BY Zenon DEF Interrupt
<1>2. reader' \in [block : Block, left : Nat] \cup {None}
  BY ZenonT(30), <1>1 DEF IndInv, TypeOK
<1>3. lost = {} => Awaited'
  BY Zenon, <1>1 DEF IndInv, Awaited
<1> QED BY Zenon, <1>1, <1>2, <1>3, ReaderStep

(* A start takes up what the locator stands for, below the stored position. *)
LEMMA RestartInv == IndInv /\ Restart => IndInv'
<1> SUFFICES ASSUME IndInv, Restart PROVE IndInv'
  OBVIOUS
<1>1. TypeOK /\ Shape /\ (lost = {} => Sound)
  BY DEF IndInv
<1>2. /\ restarts < MaxRestarts /\ restarts' = restarts + 1 /\ tip' = flushed /\ queue' = <<>>
      /\ best' = FindFork(locator, flushed) /\ synced' = (best' = tip')
      /\ pc' = (IF synced' THEN "end" ELSE "loop") /\ pindex' = best' /\ timed' = FALSE
      /\ cb' = "idle" /\ pos' = dbPos
      /\ reader' = None /\ interrupt' = FALSE /\ alive' = TRUE /\ fatal' = FALSE
      /\ lost' = lost \cup (uncovered \cap Chain(best'))
  BY Zenon DEF Restart, StoredFilterPos
<1>3. UNCHANGED <<flushed, moves, file, locator, dbPos, uncovered, byHeight, byHash>>
  BY Zenon DEF Restart, db, committed
<1>4. /\ Chain(best') \subseteq kept'
      /\ \A b \in kept' : \/ b \in Chain(best')
                          \/ /\ b \in Block /\ byHash[b] # None
                             /\ byHeight[Height[b]].block = b => byHeight[Height[b]].pos = byHash[b]
  BY Zenon DEF Restart
<1>5. /\ best' \in Place /\ Chain(best') = Chain(locator) \cap Chain(flushed)
      /\ (flushed = None => best' = None) /\ locator \in Place /\ flushed \in Place
  BY ZenonT(30), <1>1, <1>2, FindForkIs DEF TypeOK
<1>6. Done' = best' /\ synced' \in BOOLEAN /\ (synced' <=> best' = tip')
  BY Zenon, <1>2 DEF Done
<1>7. kept' \subseteq Block /\ lost' \subseteq Block
  BY ZenonT(30), <1>1, <1>2, <1>4, <1>5, ChainType DEF TypeOK
<1>8. restarts' \in 0..MaxRestarts
  BY <1>1, <1>2, BoundsAssumption DEF TypeOK
<1>9. queue' \in Seq(Message) /\ Len(queue') = 0
  BY <1>2
<1>10. pc' \in {"loop", "end"}
  BY Zenon, <1>2
<1>11. TypeOK'
  BY ZenonT(30), <1>1, <1>2, <1>3, <1>5, <1>6, <1>7, <1>8, <1>9, <1>10 DEF TypeOK, Message
<1>12. Shape'
  <2>1. dbPos \in Nat
    BY Zenon, <1>1, PositionNat DEF TypeOK
  <2> QED BY <1>1, <1>2, <1>3, <2>1 DEF Shape
<1>13. Control'
  BY ZenonT(30), <1>2, <1>6 DEF Control
<1>14. Backlog'
  BY <1>2, <1>5, <1>6, <1>9 DEF Backlog, Ordered
<1>15. ASSUME lost' = {} PROVE Sound' /\ Awaited'
  <2>1. Tables /\ uncovered \cap Chain(best') = {}
    BY <1>1, <1>2, <1>15 DEF Sound
  <2>2. ASSUME NEW b, Covered(b) PROVE Stored(b)' /\ Covered(b)'
    BY Zenon, <1>2, <1>3, <2>2 DEF Covered, Stored
  <2>3. ASSUME NEW b \in Chain(best') PROVE Stored(b)'
    BY Zenon, <1>5, <2>1, <2>2 DEF Tables, LocatorCovered
  <2>4. DoneStored'
    BY Zenon, <1>4, <1>6, <2>3 DEF DoneStored
  <2>5. LocatorCovered'
    BY Zenon, <1>3, <2>1, <2>2 DEF Tables, LocatorCovered
  <2>6. HashGood'
    BY Zenon, <1>3, <2>1 DEF Tables, HashGood
  <2>7. ASSUME NEW b \in kept' PROVE Reachable(b)'
    <3>1. CASE b \in Chain(best')
      BY Zenon, <1>6, <2>3, <3>1 DEF Reachable, Stored
    <3>2. CASE b \notin Chain(best')
      <4>1. /\ b \in Block /\ byHash[b] # None /\ byHeight[Height[b]] # None
            /\ byHeight[Height[b]].block = b => byHeight[Height[b]].pos = byHash[b]
        BY Zenon, <1>1, <1>4, <3>2 DEF Shape
      <4>2. byHash[b] < dbPos /\ file[byHash[b]] = b
        BY Zenon, <2>1, <4>1 DEF Tables, HashGood
      <4> QED BY Zenon, <1>2, <1>3, <4>1, <4>2 DEF Reachable, Stored
    <3> QED BY <3>1, <3>2
  <2>8. Tables'
    BY ZenonT(30), <2>4, <2>5, <2>6, <2>7 DEF Tables, KeptReachable
  <2>9. synced' => Brings(queue', Len(queue'), best', tip')
    BY <1>6 DEF Brings
  <2> QED BY ZenonT(30), <1>2, <1>10, <2>8, <2>9 DEF Sound, Awaited
<1> QED BY ZenonT(30), <1>11, <1>12, <1>13, <1>14, <1>15 DEF IndInv

(* The tables of an empty database. *)
LEMMA InitInv == Init => IndInv
<1> SUFFICES ASSUME Init PROVE IndInv
  OBVIOUS
<1>1. /\ tip \in Started /\ flushed = tip /\ queue = <<>> /\ best = None /\ synced = (tip = None)
      /\ interrupt = FALSE /\ alive = TRUE /\ fatal = FALSE
      /\ pc = (IF synced THEN "end" ELSE "loop") /\ pindex = None /\ timed = FALSE /\ cb = "idle"
      /\ pos = 0 /\ file = [p \in Position |-> None]
      /\ locator = None /\ dbPos = 0 /\ uncovered = {}
      /\ byHeight = [h \in Heights |-> None] /\ byHash = [b \in Block |-> None]
      /\ reader = None /\ moves = 0 /\ restarts = 0 /\ lost = {} /\ kept = {}
  BY Zenon DEF Init
<1>2. synced \in BOOLEAN /\ (synced <=> tip = None) /\ pc \in {"loop", "end"} /\ Done = None
  BY <1>1 DEF Done
<1>3. tip \in Place /\ None \in Place /\ queue \in Seq(Message) /\ Len(queue) = 0 /\ Chain(None) = {}
  BY <1>1, StartedAssumption DEF Place, Chain
<1>4. 0 \in Position /\ 0 \in 0..MaxMoves /\ 0 \in 0..MaxRestarts
  BY BoundsAssumption DEF Position
<1>5. TypeOK
  BY ZenonT(30), <1>1, <1>2, <1>3, <1>4 DEF TypeOK, Message
<1>6. Shape
  BY <1>1 DEF Shape
<1>7. Control
  BY ZenonT(30), <1>1, <1>2, <1>3 DEF Control
<1>8. Backlog
  BY <1>1, <1>2, <1>3 DEF Backlog, Ordered
<1>9. Tables
  BY <1>1, <1>2, <1>3 DEF Tables, DoneStored, LocatorCovered, HashGood, KeptReachable
<1>10. Sound /\ Awaited
  BY ZenonT(30), <1>1, <1>2, <1>3, <1>9 DEF Sound, Awaited, Brings
<1> QED BY <1>5, <1>6, <1>7, <1>8, <1>10 DEF IndInv

(* IndInv is inductive. *)
LEMMA NextInv == IndInv /\ [Next]_vars => IndInv'
<1> SUFFICES ASSUME IndInv, [Next]_vars PROVE IndInv'
  OBVIOUS
<1>1. ASSUME NEW b \in Block, NEW f \in Place, Activate(b, f) PROVE IndInv'
  BY Zenon, <1>1, ActivateInv
<1>2. CASE Disconnect \/ Flush
  BY Zenon, <1>2, DisconnectInv, FlushInv
<1>3. CASE ThreadSync
  BY <1>3, SyncInterruptedInv, SyncDoneInv, SyncNextInv, SyncRewindInv, SyncRewoundInv,
     SyncPublishInv, SyncWriteInv DEF ThreadSync
<1>4. CASE Callback
  BY Zenon, <1>4, ConnectedIgnoredInv, ConnectedRewindInv, ConnectedCommitInv, ConnectedWriteInv,
     ChainStateFlushedInv DEF Callback
<1>5. CASE ReadNull \/ Read \/ Return \/ Interrupt \/ Restart
  BY Zenon, <1>5, ReadNullInv, ReadInv, ReturnInv, InterruptInv, RestartInv
<1>6. CASE UNCHANGED vars
  <2>1. /\ UNCHANGED <<chain, queue, best, synced, thread, cb, pos, file, db>>
        /\ UNCHANGED <<interrupt, alive, restarts, lost, fatal, kept, reader>>
    BY Zenon, <1>6 DEF vars, run
  <2>2. reader' \in [block : Block, left : Nat] \cup {None} /\ interrupt' \in BOOLEAN
    BY ZenonT(30), <2>1 DEF IndInv, TypeOK
  <2>3. lost = {} => Awaited'
    BY <2>1 DEF IndInv, Awaited
  <2> QED BY Zenon, <2>1, <2>2, <2>3, ReaderStep
<1> QED BY Zenon, <1>1, <1>2, <1>3, <1>4, <1>5, <1>6 DEF Next

LEMMA Invariance == Spec => []IndInv
BY InitInv, NextInv, PTL DEF Spec
-----------------------------------------------------------------------------
(* Type correctness of the index, for every block tree and every bound. *)
THEOREM IndexTypeCorrect == Spec => []TypeOK
<1>1. IndInv => TypeOK
  BY DEF IndInv
<1> QED BY <1>1, Invariance, PTL

(* The filter of a kept block is its own. *)
LEMMA KeptFound ==
    ASSUME IndInv, lost = {}, NEW b \in kept
    PROVE  Filter(b) = b
<1>1. Reachable(b) /\ HashGood /\ b \in Block
  BY Zenon DEF IndInv, Sound, Tables, KeptReachable, TypeOK
<1> QED BY Zenon, <1>1 DEF Reachable, Stored, HashGood, Filter

(* LookupOne and ReadFilterFromDisk find the filter of every block that was *)
(* indexed, whatever was reorganised, notified, interrupted or restarted,   *)
(* as long as no restart lost a block.                                      *)
THEOREM FiltersFound == Spec => []Findable
<1>1. IndInv => Findable
  BY Zenon, KeptFound DEF Findable
<1> QED BY <1>1, Invariance, PTL

(* m_best_block_index and its ancestors are indexed, but for the block that *)
(* the sync thread announced and is about to write.                         *)
THEOREM BestBlockIndexed == Spec => []BestIndexed
<1>1. IndInv => BestIndexed
  BY Zenon DEF IndInv, BestIndexed, Sound, Tables, DoneStored, Control
<1> QED BY <1>1, Invariance, PTL

(* FatalError is called only after a restart lost a block: neither the      *)
(* check of WriteBlock nor the copy of Rewind nor the check for genesis     *)
(* fails otherwise.                                                         *)
THEOREM FatalOnlyWhenLost == Spec => []FatalJustified
<1>1. IndInv => FatalJustified
  BY Zenon DEF IndInv, FatalJustified, Sound
<1> QED BY <1>1, Invariance, PTL

(* A reader stays until it returns or the process is started again. *)
LEMMA ReaderStays ==
    ASSUME IndInv, [Next]_vars, reader # None, reader' = None, restarts' = restarts
    PROVE  Return
<1>1. restarts \in 0..MaxRestarts /\ reader \in [block : Block, left : Nat]
  BY Zenon DEF IndInv, TypeOK
<1>2. ~Pop
  <2> SUFFICES ASSUME Pop PROVE FALSE
    OBVIOUS
  <2>1. reader' = [reader EXCEPT !.left = IF @ > 0 THEN @ - 1 ELSE 0]
    BY DEF Pop
  <2>2. reader' \in [block : Block, left : Nat]
    BY Zenon, <1>1, <2>1, WaitsOn
  <2> QED BY Zenon, <2>2, NoneAssumption
<1>3. ~Restart
  <2>1. Restart => restarts' = restarts + 1
    BY Zenon DEF Restart
  <2> QED BY <1>1, <2>1
<1>4. ~ReadNull /\ ~Read
  BY DEF ReadNull, Read
<1>5. reader' # reader
  OBVIOUS
<1>6. ~ThreadSync
  BY Zenon, <1>5 DEF ThreadSync, SyncInterrupted, SyncDone, SyncNext, SyncRewind, SyncRewound, SyncPublish, SyncWrite
<1>7. ~Callback
  BY Zenon, <1>2, <1>5 DEF Callback, ConnectedIgnored, ConnectedRewind, ConnectedCommit, ConnectedWrite, ChainStateFlushed
<1>8. ~Disconnect /\ ~Flush /\ ~Interrupt /\ \A b \in Block, f \in Place : ~Activate(b, f)
  BY Zenon, <1>5 DEF Disconnect, Flush, Interrupt, Activate
<1>9. ~UNCHANGED vars
  BY <1>5 DEF vars
<1> QED BY ZenonT(30), <1>3, <1>4, <1>6, <1>7, <1>8, <1>9 DEF Next

(* BlockUntilSyncedToCurrentChain: the tip that it was called for can be    *)
(* looked up when it returns, because the notifications queued before it    *)
(* bring the index from its best block to that tip.                         *)
THEOREM ReadersSeeTheirTip == Spec => ReadYourTip
<1>1. IndInv /\ [Next]_vars =>
        [(reader # None /\ reader' = None /\ restarts' = restarts) =>
             (fatal \/ lost # {} \/ Filter(reader.block) = reader.block)]_vars
  <2> SUFFICES ASSUME IndInv, [Next]_vars, reader # None, reader' = None, restarts' = restarts, lost = {}
               PROVE  Filter(reader.block) = reader.block
    OBVIOUS
  <2>1. reader.left = 0
    BY Zenon, ReaderStays DEF Return
  <2>2. reader.block \in kept
    BY <2>1 DEF IndInv, Awaited
  <2> QED BY Zenon, <2>2, KeptFound
<1> QED BY <1>1, Invariance, PTL DEF Spec, ReadYourTip
=============================================================================
