-------------------------- MODULE ChainStateProofs --------------------------
(***************************************************************************)
(* ChainState for every block tree, every assignment of addresses, any     *)
(* blocks that fail or wait for peg-ins, and any number of commands and    *)
(* restarts: the active chain is valid, flags, links and candidates agree, *)
(* no usable block better than the tip is forgotten, and cs_main is not    *)
(* released on a worse tip.                                                *)
(***************************************************************************)
EXTENDS ChainState, BlockTreeProofs, FiniteSetTheorems, WellFoundedInduction

(* Induction over the natural numbers, for sets: what holds of 0 and of the *)
(* successor of every number it holds of, holds of every number.            *)
LEMMA NatSetInduction ==
    ASSUME NEW S, 0 \in S, \A n \in Nat : n \in S => n + 1 \in S
    PROVE  Nat \subseteq S
<1> SUFFICES ASSUME Nat \ S # {} PROVE FALSE
  OBVIOUS
<1>1. PICK x \in Nat \ S : \A y \in Nat \ S : ~(<<y, x>> \in OpToRel(<, Nat))
  BY NatLessThanWellFounded, WFMin
<1>2. x - 1 \in Nat /\ x = (x - 1) + 1
  OBVIOUS
<1>3. <<x - 1, x>> \in OpToRel(<, Nat)
  BY <1>2 DEF OpToRel
<1> QED BY <1>1, <1>2, <1>3

(* The order of CBlockIndexWorkComparator. *)

(* The comparator is a strict total order: no block is worse than itself,   *)
(* of two different blocks exactly one is worse, and it is transitive.      *)
LEMMA WorseOrder ==
    ASSUME NEW s \in [Block -> Int]
    PROVE  /\ \A a \in Block : ~WorseBy(s, a, a)
           /\ \A a, b \in Block : WorseBy(s, a, b) => ~WorseBy(s, b, a)
           /\ \A a, b \in Block : a # b => WorseBy(s, a, b) \/ WorseBy(s, b, a)
           /\ \A a, b, c \in Block : ~WorseBy(s, a, b) /\ ~WorseBy(s, b, c) => ~WorseBy(s, a, c)
<1>1. \A a \in Block : Height[a] \in Nat /\ s[a] \in Int /\ Addr[a] \in Int
  BY HeightUnfold, ChainAssumption
<1>2. \A a, b \in Block : a # b => Addr[a] # Addr[b]
  BY ChainAssumption
<1>3. ASSUME NEW a \in Block, NEW b \in Block, a # b
      PROVE  WorseBy(s, a, b) \/ WorseBy(s, b, a)
  BY <1>1, <1>2, <1>3 DEF WorseBy
<1>4. ASSUME NEW a \in Block, NEW b \in Block, WorseBy(s, a, b)
      PROVE  ~WorseBy(s, b, a)
  BY <1>1, <1>4 DEF WorseBy
<1>5. ASSUME NEW a \in Block, NEW b \in Block, NEW c \in Block,
             ~WorseBy(s, a, b), ~WorseBy(s, b, c)
      PROVE  ~WorseBy(s, a, c)
  BY <1>1, <1>5 DEF WorseBy
<1>6. ASSUME NEW a \in Block PROVE ~WorseBy(s, a, a)
  BY <1>1 DEF WorseBy
<1> QED BY <1>3, <1>4, <1>5, <1>6

(* What is lower is worse, so a block that is no worse is no lower. *)
LEMMA WorseByHeight ==
    ASSUME NEW s \in [Block -> Int], NEW a \in Block, NEW b \in Block
    PROVE  /\ Height[a] < Height[b] => WorseBy(s, a, b) /\ ~WorseBy(s, b, a)
           /\ ~WorseBy(s, a, b) => Height[b] <= Height[a]
<1>1. Height[a] \in Nat /\ Height[b] \in Nat
  BY HeightUnfold
<1> QED BY <1>1 DEF WorseBy

(* A non-empty finite set of blocks has a best one. *)
LEMMA BestExists ==
    ASSUME NEW s \in [Block -> Int], NEW S \in SUBSET Block, IsFiniteSet(S), S # {}
    PROVE  \E c \in S : \A d \in S : ~WorseBy(s, c, d)
<1> DEFINE Best(T) == \E c \in T : \A d \in T : ~WorseBy(s, c, d)
           N == {n \in Nat : \A T \in SUBSET Block :
                     IsFiniteSet(T) /\ T # {} /\ Cardinality(T) = n => Best(T)}
<1>1. 0 \in N
  BY FS_EmptySet
<1>2. ASSUME NEW n \in Nat, n \in N PROVE n + 1 \in N
  <2> SUFFICES ASSUME NEW T \in SUBSET Block, IsFiniteSet(T), T # {}, Cardinality(T) = n + 1
               PROVE  Best(T)
    OBVIOUS
  <2>1. PICK x \in T : TRUE
    OBVIOUS
  <2>2. IsFiniteSet(T \ {x}) /\ Cardinality(T \ {x}) = n
    <3>1. IsFiniteSet(T \ {x}) /\ Cardinality(T \ {x}) = Cardinality(T) - 1
      BY <2>1, FS_RemoveElement, Zenon
    <3> QED BY <3>1
  <2>3. CASE T \ {x} = {}
    <3>1. T = {x}
      BY <2>1, <2>3
    <3> QED BY <3>1, WorseOrder
  <2>4. CASE T \ {x} # {}
    <3>1. PICK y \in T \ {x} : \A d \in T \ {x} : ~WorseBy(s, y, d)
      BY <1>2, <2>2, <2>4
    <3>2. CASE WorseBy(s, y, x)
      <4>1. ~WorseBy(s, x, y) /\ ~WorseBy(s, x, x)
        BY <3>2, WorseOrder
      <4>2. \A d \in T : ~WorseBy(s, x, d)
        BY <3>1, <4>1, WorseOrder
      <4> QED BY <4>2
    <3>3. CASE ~WorseBy(s, y, x)
      <4>1. \A d \in T : ~WorseBy(s, y, d)
        BY <3>1, <3>3
      <4> QED BY <3>1, <4>1
    <3> QED BY <3>2, <3>3
  <2> QED BY <2>3, <2>4
<1> HIDE DEF N
<1>3. Nat \subseteq N
  BY <1>1, <1>2, NatSetInduction
<1>4. Cardinality(S) \in Nat
  BY FS_CardinalityType
<1> QED BY <1>3, <1>4 DEF N
-----------------------------------------------------------------------------
(* The inductive invariant. *)

Usable(b) == Ancestors[b] \cap Failed = {}

(* The block index is a finite tree. *)
Index == IsFiniteSet(index) /\ \A b \in index : Ancestors[b] \subseteq index

Links ==
    /\ LinksExact
    /\ \A b \in linked : Ancestors[b] \subseteq linked
    /\ unlinked \cap linked = {}
    /\ data \cap BadContext = {}
    /\ byWork \subseteq linked

Scripts ==
    /\ \A b \in scripts : Ancestors[b] \subseteq scripts
    /\ scripts \cap BadScripts = {}

Sequence == reverseSeq < 0 /\ \A b \in Block \ linked : seq[b] <= 0

Candidates == \A c \in candidates : ~Worse(c, tip)

Marks ==
    /\ failedBlocks \subseteq failedValid
    /\ \A b \in Failed : InvalidAbove(b) \/ Ancestors[b] \cap unjustified # {}

(* ChainValid, also while cs_main is held. *)
ActiveChain == tip \in scripts /\ Usable(tip)

(* pindexMostWork, once chosen, stays a usable candidate above the tip,     *)
(* although cs_main is released in between.                                 *)
Working ==
    (pc \in {"again", "find", "connect"} /\ mostWork # Null) =>
        /\ mostWork \in candidates
        /\ Usable(mostWork)
        /\ tip \in Ancestors[mostWork]
        /\ pc # "find" => tip # mostWork

(* While cs_main is held, the tip it was taken with can be returned to, and *)
(* pindexMostWork is no worse; InvalidateBlock marks only what it has       *)
(* disconnected.                                                            *)
Held ==
    /\ pc = "connect" => mostWork # Null
    /\ pc \in {"find", "connect"} => startTip \in scripts /\ Usable(startTip)
    /\ pc \in {"find", "connect"} /\ mostWork # Null /\ unoffered = {} =>
           ~Worse(mostWork, startTip)
    /\ pc = "inv" => /\ target \in index \ {Genesis}
                     /\ toMark \in index \ {Genesis}
                     /\ toMark \in Chain => toMark = target

(* A block that is no worse than the tip is a candidate, or a validated one *)
(* that is as good is: a tip that was left behind stays a candidate, and no *)
(* later failure takes it out.                                              *)
Covered(b) ==
    \/ b \in candidates
    \/ \E r \in scripts \cap candidates : Usable(r) /\ ~Worse(r, b)

Offered ==
    (pc # "inv" /\ unoffered = {}) =>
        \A b \in linked \ Failed : ~Worse(b, tip) => Covered(b)

IndInv ==
    /\ TypeOK /\ Index /\ Links /\ Scripts /\ Sequence /\ Candidates
    /\ Marks /\ ActiveChain /\ Working /\ Held /\ Offered

(* The invariant gives the properties. *)
LEMMA IndInvImplies == IndInv => ChainValid /\ FlagsConsistent /\ NothingForgotten
<1> SUFFICES ASSUME IndInv PROVE ChainValid /\ FlagsConsistent /\ NothingForgotten
  OBVIOUS
<1>1. ChainValid
  BY DEF IndInv, ChainValid, ActiveChain, Scripts, Usable, Chain
<1>2. FlagsConsistent
  BY DEF IndInv, FlagsConsistent, Links, Scripts, Sequence, Candidates, Marks, Working, Held, TypeOK
<1>3. NothingForgotten
  <2> SUFFICES ASSUME pc # "inv", unoffered = {},
                      NEW b \in linked, Usable(b), Worse(tip, b)
               PROVE  \E c \in candidates : Usable(c) /\ ~Worse(c, b)
    BY DEF NothingForgotten, Usable
  <2>1. b \in Block /\ tip \in Block /\ seq \in [Block -> Int]
    BY DEF IndInv, TypeOK
  <2>2. b \notin Failed
    BY <2>1, AncestorsType DEF Usable
  <2>3. ~Worse(b, tip) /\ ~Worse(b, b)
    BY <2>1, WorseOrder DEF Worse
  <2>4. Covered(b)
    BY <2>2, <2>3 DEF IndInv, Offered
  <2> QED BY <2>3, <2>4 DEF Covered
<1> QED BY <1>1, <1>2, <1>3

LEMMA InitInv == Init => IndInv
<1> SUFFICES ASSUME Init PROVE IndInv
  OBVIOUS
<1>1. /\ Genesis \in Block /\ Ancestors[Genesis] = {Genesis} /\ IsFiniteSet({Genesis})
      /\ Null # Genesis
  BY Zenon, AncestorsUnfold, FS_Singleton, ChainAssumption
<1>2. TypeOK
  <2>1. seq \in [Block -> Int]
    BY DEF Init
  <2>2. commands \in 0..MaxCommands /\ restarts \in 0..MaxRestarts
    BY ChainAssumption DEF Init
  <2>3. due \in BOOLEAN /\ fStall \in BOOLEAN
    BY DEF Init
  <2> QED BY <1>1, <2>1, <2>2, <2>3 DEF Init, TypeOK
<1>3. Index /\ Links /\ Scripts
  BY <1>1, ChainAssumption DEF Init, Index, Links, LinksExact, Scripts
<1>4. Sequence /\ Marks /\ ActiveChain /\ Working /\ Held
  BY <1>1 DEF Init, Sequence, Marks, ActiveChain, Working, Held, Usable, Failed
<1>5. Candidates /\ Offered
  <2>1. seq \in [Block -> Int] /\ tip = Genesis /\ candidates = {Genesis} /\ linked = {Genesis}
    BY <1>2 DEF Init, TypeOK
  <2>2. ~Worse(Genesis, Genesis)
    BY <1>1, <2>1, WorseOrder DEF Worse
  <2> QED BY <2>1, <2>2 DEF Candidates, Offered, Covered
<1> QED BY <1>2, <1>3, <1>4, <1>5 DEF IndInv

(* A part of the invariant survives a step that changes nothing it reads. *)
LEMMA Frame ==
    /\ Index /\ index' = index => Index'
    /\ Links /\ UNCHANGED <<data, linked, unlinked, unqueued, byWork>> => Links'
    /\ Scripts /\ scripts' = scripts => Scripts'
    /\ Sequence /\ UNCHANGED <<seq, reverseSeq, linked>> => Sequence'
    /\ Candidates /\ UNCHANGED <<candidates, seq, tip>> => Candidates'
    /\ Marks /\ UNCHANGED <<failedBlocks, failedValid, failedChild, unjustified>> => Marks'
    /\ ActiveChain /\ UNCHANGED <<tip, scripts, failedValid, failedChild>> => ActiveChain'
    /\ Working /\ UNCHANGED <<pc, mostWork, candidates, tip, failedValid, failedChild>> => Working'
    /\ Held /\ UNCHANGED <<pc, mostWork, startTip, scripts, failedValid, failedChild, seq,
                            target, toMark, tip, unoffered>> /\ index \subseteq index' => Held'
    /\ Offered /\ UNCHANGED <<pc, unoffered, linked, failedValid, failedChild, seq, tip,
                               candidates, scripts>> => Offered'
<1>1. Index /\ index' = index => Index'
  BY DEF Index
<1>2. Links /\ UNCHANGED <<data, linked, unlinked, unqueued, byWork>> => Links'
  BY DEF Links, LinksExact
<1>3. Scripts /\ scripts' = scripts => Scripts'
  BY DEF Scripts
<1>4. Sequence /\ UNCHANGED <<seq, reverseSeq, linked>> => Sequence'
  BY DEF Sequence
<1>5. Candidates /\ UNCHANGED <<candidates, seq, tip>> => Candidates'
  BY DEF Candidates, Worse
<1>6. Marks /\ UNCHANGED <<failedBlocks, failedValid, failedChild, unjustified>> => Marks'
  BY DEF Marks, Failed, InvalidAbove
<1>7. ActiveChain /\ UNCHANGED <<tip, scripts, failedValid, failedChild>> => ActiveChain'
  BY DEF ActiveChain, Usable, Failed
<1>8. Working /\ UNCHANGED <<pc, mostWork, candidates, tip, failedValid, failedChild>> => Working'
  BY DEF Working, Usable, Failed
<1>9. Held /\ UNCHANGED <<pc, mostWork, startTip, scripts, failedValid, failedChild, seq,
                          target, toMark, tip, unoffered>> /\ index \subseteq index' => Held'
  BY DEF Held, Usable, Failed, Chain, Worse
<1>10. Offered /\ UNCHANGED <<pc, unoffered, linked, failedValid, failedChild, seq, tip,
                              candidates, scripts>> => Offered'
  BY DEF Offered, Covered, Usable, Failed, Worse
<1> QED BY <1>1, <1>2, <1>3, <1>4, <1>5, <1>6, <1>7, <1>8, <1>9, <1>10
-----------------------------------------------------------------------------
(* Headers and blocks arrive. *)

(* Marking only what is above a failed block leaves every usable block usable. *)
LEMMA MarkAbove ==
    ASSUME NEW F, NEW G, NEW b \in Block, Ancestors[b] \cap F = {},
           \A d \in G \ F : \E f \in F : f \in Ancestors[d]
    PROVE  Ancestors[b] \cap G = {}
BY AncestorsTrans

(* A step that only marks blocks, and no usable linked one. *)
LEMMA MarkOnly ==
    ASSUME IndInv, Failed \subseteq Failed', index \subseteq index',
           \A b \in linked : Usable(b) => Usable(b)',
           UNCHANGED <<linked, scripts, candidates, seq, tip, pc, mostWork, startTip,
                       target, toMark, unoffered>>
    PROVE  ActiveChain' /\ Working' /\ Held' /\ Offered'
<1>1. scripts \subseteq linked /\ candidates \subseteq linked
  BY DEF IndInv, TypeOK
<1>2. ActiveChain'
  BY <1>1 DEF IndInv, ActiveChain
<1>3. Working'
  BY <1>1 DEF IndInv, Working
<1>4. Held'
  BY <1>1 DEF IndInv, Held, Chain, Worse
<1>5. Offered'
  <2> SUFFICES ASSUME pc' # "inv", unoffered' = {},
                      NEW b \in linked' \ Failed', ~Worse(b, tip)'
               PROVE  Covered(b)'
    BY DEF Offered
  <2>1. Covered(b)
    BY DEF IndInv, Offered, Worse
  <2> QED BY <1>1, <2>1 DEF Covered, Worse
<1> QED BY <1>2, <1>3, <1>4, <1>5

LEMMA AcceptHeaderInv ==
    ASSUME IndInv, NEW b \in Block, AcceptHeader(b)
    PROVE  IndInv'
<1>1. /\ index' = index \cup {b} /\ b \notin index
      /\ b # Genesis /\ Parent[b] \in index
  BY DEF AcceptHeader, HeaderAccepted, ParentUsable
<1>2. UNCHANGED <<data, linked, scripts, failedValid, failedChild, failedBlocks, unlinked,
                  seq, nextSeq, reverseSeq, lastPrecious, candidates, tip, unripe, pc,
                  mostWork, startTip, stepTip, due, fStall, target, toMark, byWork,
                  commands, restarts, unqueued, unoffered, unjustified, leftOut>>
  BY Zenon DEF AcceptHeader, order, activation, calls, invalidation, gaps
<1>3. TypeOK'
  BY <1>1, <1>2 DEF IndInv, TypeOK
<1>4. Index'
  <2>1. IsFiniteSet(index')
    BY <1>1, FS_AddElement DEF IndInv, Index
  <2>2. Ancestors[b] \subseteq index'
    BY ZenonT(30), <1>1, AncestorsUnfold DEF IndInv, Index
  <2> QED BY <1>1, <2>1, <2>2 DEF IndInv, Index
<1>5. Links' /\ Scripts' /\ Sequence' /\ Candidates' /\ Marks' /\ ActiveChain' /\ Working' /\ Offered'
  BY ZenonT(30), <1>2, Frame DEF IndInv
<1>6. Held'
  BY <1>1, <1>2, Frame DEF IndInv
<1> QED BY <1>3, <1>4, <1>5, <1>6 DEF IndInv

LEMMA RejectHeaderInv ==
    ASSUME IndInv, NEW b \in Block, RejectHeader(b)
    PROVE  IndInv'
<1>1. PICK f \in failedBlocks \cap Ancestors[Parent[b]] :
          failedChild' = failedChild \cup (Ancestors[Parent[b]] \ Ancestors[f])
  BY DEF RejectHeader, FailedAncestors
<1>2. b # Genesis /\ Parent[b] \in index /\ Parent[b] \in Block
  BY Zenon DEF RejectHeader, ParentUsable, IndInv, TypeOK
<1>3. UNCHANGED <<index, data, linked, scripts, failedValid, failedBlocks, unlinked,
                  seq, nextSeq, reverseSeq, lastPrecious, candidates, tip, unripe, pc,
                  mostWork, startTip, stepTip, due, fStall, target, toMark, byWork,
                  commands, restarts, unqueued, unoffered, unjustified, leftOut>>
  BY Zenon DEF RejectHeader, order, activation, calls, invalidation, gaps
<1>4. f \in failedValid /\ \A d \in Ancestors[Parent[b]] \ Ancestors[f] : f \in Ancestors[d]
  BY ZenonT(30), <1>1, <1>2, AncestorsAbove DEF IndInv, Marks
<1>5. TypeOK'
  BY <1>1, <1>2, <1>3 DEF IndInv, TypeOK, Index
<1>6. Index' /\ Links' /\ Scripts' /\ Sequence' /\ Candidates'
  BY Zenon, <1>3, Frame DEF IndInv
<1>7. Marks'
  BY Zenon, <1>1, <1>3, <1>4 DEF IndInv, Marks, Failed, InvalidAbove
<1>8. ActiveChain' /\ Working' /\ Held' /\ Offered'
  <2>1. Failed' \ Failed \subseteq Ancestors[Parent[b]] \ Ancestors[f] /\ Failed \subseteq Failed'
    BY Zenon, <1>1, <1>3 DEF Failed
  <2>2. \A d \in Failed' \ Failed : \E x \in Failed : x \in Ancestors[d]
    BY <1>4, <2>1 DEF Failed
  <2>3. linked \subseteq Block
    BY DEF IndInv, TypeOK
  <2>4. \A c \in linked : Usable(c) => Usable(c)'
    BY <2>2, <2>3, MarkAbove DEF Usable
  <2> QED BY Zenon, <1>3, <2>1, <2>4, MarkOnly
<1> QED BY <1>5, <1>6, <1>7, <1>8 DEF IndInv

LEMMA RejectBlockInv ==
    ASSUME IndInv, NEW b \in Block, RejectBlock(b)
    PROVE  IndInv'
<1>1. /\ index' = index \cup {b} /\ failedValid' = failedValid \cup {b}
      /\ b \in BadContext
      /\ b \in index \/ (b # Genesis /\ Parent[b] \in index)
  BY DEF RejectBlock, HeaderAccepted, ParentUsable
<1>2. UNCHANGED <<data, linked, scripts, failedChild, failedBlocks, unlinked,
                  seq, nextSeq, reverseSeq, lastPrecious, candidates, tip, unripe, pc,
                  mostWork, startTip, stepTip, due, fStall, target, toMark, byWork,
                  commands, restarts, unqueued, unoffered, unjustified, leftOut>>
  BY Zenon DEF RejectBlock, order, activation, calls, invalidation, gaps
<1>3. TypeOK'
  BY <1>1, <1>2 DEF IndInv, TypeOK
<1>4. Index'
  <2>1. IsFiniteSet(index')
    BY <1>1, FS_AddElement DEF IndInv, Index
  <2>2. Ancestors[b] \subseteq index'
    BY ZenonT(30), <1>1, AncestorsUnfold DEF IndInv, Index
  <2> QED BY <1>1, <2>1, <2>2 DEF IndInv, Index
<1>5. Links' /\ Scripts' /\ Sequence' /\ Candidates'
  BY <1>2, Frame DEF IndInv
<1>6. Marks'
  <2>1. b \in Ancestors[b]
    BY AncestorsType
  <2> QED BY Zenon, <1>1, <1>2, <2>1 DEF IndInv, Marks, Failed, InvalidAbove
<1>7. ActiveChain' /\ Working' /\ Held' /\ Offered'
  <2>1. Failed' = Failed \cup {b}
    BY Zenon, <1>1, <1>2 DEF Failed
  <2>2. b \notin data
    BY <1>1 DEF IndInv, Links
  <2>3. \A c \in linked : b \notin Ancestors[c]
    BY <2>2 DEF IndInv, Links, LinksExact
  <2>4. \A c \in linked : Usable(c) => Usable(c)'
    BY Zenon, <2>1, <2>3 DEF Usable
  <2> QED BY Zenon, <1>1, <1>2, <2>1, <2>4, MarkOnly
<1> QED BY <1>3, <1>4, <1>5, <1>6, <1>7 DEF IndInv

(* The genesis block has been connected. *)
LEMMA GenesisLinked == IndInv => Genesis \in linked
BY AncestorsType DEF IndInv, ActiveChain, Scripts, TypeOK

(* What ReceivedBlockTransactions links was not linked, and all ancestors   *)
(* of it are linked now.                                                    *)
LEMMA NewlyLinkedSound ==
    ASSUME IndInv, NEW b \in Block \ {Genesis}, b \notin data, ParentLinked(b)
    PROVE  /\ b \in NewlyLinked(b)
           /\ NewlyLinked(b) \subseteq data \cup {b}
           /\ NewlyLinked(b) \cap linked = {}
           /\ \A d \in NewlyLinked(b) : Ancestors[d] \subseteq linked \cup NewlyLinked(b)
<1>1. linked \subseteq data /\ unlinked \subseteq data /\ data \subseteq Block
  BY Zenon DEF IndInv, TypeOK
<1>2. b \in NewlyLinked(b) /\ NewlyLinked(b) \subseteq data \cup {b}
  BY <1>1 DEF NewlyLinked
<1>3. NewlyLinked(b) \cap linked = {}
  BY <1>1 DEF NewlyLinked, IndInv, Links
<1>4. Ancestors[b] \subseteq linked \cup {b}
  BY AncestorsUnfold DEF ParentLinked, IndInv, Links
<1>5. ASSUME NEW d \in NewlyLinked(b), d # b, NEW x \in Ancestors[d]
      PROVE  x \in linked \cup NewlyLinked(b)
  <2>1. d \in Block /\ d \in unlinked /\ b \in Ancestors[d] /\ Ancestors[d] \ Ancestors[b] \subseteq unlinked
    BY <1>1, <1>5 DEF NewlyLinked
  <2>2. CASE x \in Ancestors[b]
    BY <1>2, <1>4, <2>2
  <2>3. CASE x \notin Ancestors[b]
    <3>1. b \in Ancestors[x]
      BY <2>1, <2>3, AncestorsAbove
    <3>2. Ancestors[x] \subseteq Ancestors[d]
      BY <2>1, AncestorsTrans
    <3> QED BY <2>1, <2>3, <3>1, <3>2 DEF NewlyLinked
  <2> QED BY <2>2, <2>3
<1> QED BY <1>2, <1>3, <1>4, <1>5

(* A block whose last gap is closed is found by ReceivedBlockTransactions. *)
LEMMA NewlyLinkedComplete ==
    ASSUME IndInv, NEW b \in Block, b \notin data, NEW d \in data,
           Ancestors[d] \subseteq data \cup {b}, b \in Ancestors[d],
           Ancestors[d] \cap unqueued = {}
    PROVE  d \in NewlyLinked(b)
<1>1. data \subseteq Block
  BY Zenon DEF IndInv, TypeOK
<1>2. ASSUME NEW x \in Ancestors[d], x # b, b \in Ancestors[x] PROVE x \in unlinked
  <2>1. x \in data /\ Ancestors[x] \subseteq Ancestors[d]
    BY <1>1, <1>2, AncestorsTrans
  <2>2. x \notin linked
    BY <1>2 DEF IndInv, Links, LinksExact
  <2> QED BY <2>1, <2>2 DEF IndInv, Links, LinksExact
<1>3. d \in unlinked
  BY <1>1, <1>2, AncestorsType
<1>4. ASSUME NEW x \in Ancestors[d] \ Ancestors[b] PROVE x \in unlinked
  <2>1. b \in Ancestors[x] /\ x # b
    BY <1>1, AncestorsAbove
  <2> QED BY <1>2, <2>1
<1> QED BY <1>3, <1>4 DEF NewlyLinked

LEMMA LinkedInv ==
    ASSUME IndInv, NEW b \in Block \ {Genesis}, b \notin data \cup BadContext, ParentLinked(b),
           data' = data \cup {b}, linked' = linked \cup NewlyLinked(b),
           unlinked' = unlinked \ NewlyLinked(b), UNCHANGED <<unqueued, byWork>>
    PROVE  Links'
<1> DEFINE new == NewlyLinked(b)
<1>1. /\ b \in new /\ new \subseteq data \cup {b} /\ new \cap linked = {}
      /\ \A d \in new : Ancestors[d] \subseteq linked \cup new
  BY NewlyLinkedSound
<1>2. linked \subseteq data /\ data \subseteq Block
  BY DEF IndInv, TypeOK
<1> HIDE DEF new
<1>3. \A d \in linked' : Ancestors[d] \subseteq linked'
  BY <1>1 DEF IndInv, Links, new
<1>4. linked' \subseteq data'
  BY <1>1, <1>2 DEF new
<1>5. ASSUME NEW d \in data', Ancestors[d] \cap unqueued' = {}
      PROVE  /\ d \in linked' <=> Ancestors[d] \subseteq data'
             /\ d \in unlinked' <=> d \notin linked'
  <2>1. CASE d = b
    BY <1>1, <1>3, <1>4, <2>1 DEF new
  <2>2. CASE d # b
    <3>1. d \in data /\ (d \in linked <=> Ancestors[d] \subseteq data)
                     /\ (d \in unlinked <=> d \notin linked)
      BY <1>5, <2>2 DEF IndInv, Links, LinksExact
    <3>2. ASSUME Ancestors[d] \subseteq data' PROVE d \in linked'
      <4>1. CASE b \in Ancestors[d]
        BY <1>5, <3>1, <3>2, <4>1, NewlyLinkedComplete
      <4>2. CASE b \notin Ancestors[d]
        BY <3>1, <3>2, <4>2
      <4> QED BY <4>1, <4>2
    <3>3. d \in linked' => Ancestors[d] \subseteq data'
      BY <1>3, <1>4
    <3>4. d \in unlinked' <=> d \notin linked'
      BY <3>1 DEF new
    <3> QED BY <3>2, <3>3, <3>4
  <2> QED BY <2>1, <2>2
<1>6. LinksExact'
  BY <1>3, <1>4, <1>5 DEF LinksExact
<1>7. unlinked' \cap linked' = {} /\ data' \cap BadContext = {} /\ byWork' \subseteq linked'
  BY DEF IndInv, Links
<1> QED BY <1>3, <1>6, <1>7 DEF Links

(* A block on top of one that is not linked closes no gap. *)
LEMMA QueuedInv ==
    ASSUME IndInv, NEW b \in Block \ {Genesis}, b \notin data \cup BadContext, ~ParentLinked(b),
           data' = data \cup {b}, UNCHANGED <<linked, byWork>>,
           \/ unlinked' = unlinked /\ unqueued' = unqueued \cup {b}
           \/ unlinked' = unlinked \cup {b} /\ unqueued' = unqueued
    PROVE  Links'
<1>1. linked \subseteq data /\ data \subseteq Block
  BY Zenon DEF IndInv, TypeOK
<1>2. /\ Parent[b] \in Block /\ Ancestors[b] = {b} \cup Ancestors[Parent[b]]
      /\ b \notin Ancestors[Parent[b]] /\ Parent[b] \in Ancestors[Parent[b]]
  BY AncestorsUnfold, AncestorsType, Acyclic
<1>3. ~(Ancestors[Parent[b]] \subseteq data /\ Ancestors[Parent[b]] \cap unqueued = {})
  BY Zenon, <1>2 DEF IndInv, Links, LinksExact, ParentLinked
<1>4. ASSUME NEW d \in data', Ancestors[d] \cap unqueued' = {}, b \in Ancestors[d]
      PROVE  ~(Ancestors[d] \subseteq data')
  <2>1. Ancestors[b] \subseteq Ancestors[d]
    BY <1>1, <1>4, AncestorsTrans
  <2> QED BY ZenonT(30), <1>2, <1>3, <1>4, <2>1
<1>5. ASSUME NEW d \in data', Ancestors[d] \cap unqueued' = {}
      PROVE  /\ d \in linked' <=> Ancestors[d] \subseteq data'
             /\ d \in unlinked' <=> d \notin linked'
  <2>1. CASE d = b
    BY <1>1, <1>2, <1>4, <1>5, <2>1
  <2>2. CASE d # b
    <3>1. d \in data /\ (d \in linked <=> Ancestors[d] \subseteq data)
                     /\ (d \in unlinked <=> d \notin linked)
      BY <1>5, <2>2 DEF IndInv, Links, LinksExact
    <3> QED BY <1>4, <1>5, <2>2, <3>1
  <2> QED BY ZenonT(30), <2>1, <2>2
<1>6. LinksExact'
  BY <1>5 DEF LinksExact, IndInv, Links
<1> QED BY Zenon, <1>1, <1>6 DEF IndInv, Links

LEMMA AcceptBlockInv ==
    ASSUME IndInv, NEW b \in Block, AcceptBlock(b)
    PROVE  IndInv'
<1>1. /\ index' = index \cup {b} /\ data' = data \cup {b}
      /\ b \notin data \cup BadContext /\ due' = TRUE
      /\ b \in index \/ (b # Genesis /\ Parent[b] \in index)
  BY ZenonT(30) DEF AcceptBlock, HeaderAccepted, ParentUsable
<1>2. UNCHANGED <<scripts, failedValid, failedChild, failedBlocks, reverseSeq, lastPrecious,
                  tip, unripe, pc, mostWork, startTip, stepTip, fStall, target, toMark, byWork,
                  commands, restarts, unoffered, unjustified, leftOut>>
  BY DEF AcceptBlock, activation, invalidation
<1>3. b # Genesis
  BY ZenonT(30), <1>1, GenesisLinked DEF IndInv, TypeOK
<1>4. Index'
  <2>1. IsFiniteSet(index')
    BY <1>1, FS_AddElement DEF IndInv, Index
  <2>2. Ancestors[b] \subseteq index'
    BY ZenonT(30), <1>1, AncestorsUnfold DEF IndInv, Index
  <2> QED BY <1>1, <2>1, <2>2 DEF IndInv, Index
<1>5. Scripts' /\ Marks' /\ ActiveChain'
  BY <1>2, Frame DEF IndInv
<1>6. Held'
  <2>1. pc \notin {"find", "connect"}
    BY Zenon DEF AcceptBlock, Unlocked
  <2> QED BY ZenonT(30), <1>1, <1>2, <2>1 DEF IndInv, Held, Chain
<1>7. CASE ParentLinked(b)
  <2> DEFINE new == NewlyLinked(b)
  <2>1. PICK place \in QueueOrders(new) :
            /\ linked' = linked \cup new
            /\ unlinked' = unlinked \ new
            /\ seq' = [d \in Block |-> IF d \in new THEN nextSeq + place[d] - 1 ELSE seq[d]]
            /\ nextSeq' = nextSeq + Cardinality(new)
            /\ candidates' = candidates \cup {d \in new : ~WorseBy(seq', d, tip)}
            /\ unqueued' = unqueued
    BY <1>7 DEF AcceptBlock
  <2>2. Links'
    BY ZenonT(30), <1>1, <1>2, <1>3, <1>7, <2>1, LinkedInv
  <2>3. new \subseteq data \cup {b} /\ new \cap linked = {}
    BY Zenon, <1>1, <1>3, <1>7, NewlyLinkedSound
  <2>4. linked \subseteq data /\ unlinked \subseteq data /\ data \subseteq index /\ index \subseteq Block
        /\ tip \in linked /\ candidates \subseteq linked /\ scripts \subseteq linked
        /\ seq \in [Block -> Int] /\ nextSeq \in Nat
    BY Zenon DEF IndInv, TypeOK, ActiveChain
  <2> HIDE DEF new
  <2>5. Cardinality(new) \in Nat
    <3>1. new \subseteq index'
      BY <1>1, <2>3, <2>4
    <3> QED BY ZenonT(30), <1>4, <3>1, FS_Subset, FS_CardinalityType DEF Index
  <2>6. \A d \in new : place[d] \in Nat
    BY <2>5 DEF QueueOrders, Bijection, Injection
  <2>7. seq' \in [Block -> Int] /\ nextSeq' \in Nat
    BY <2>1, <2>4, <2>5, <2>6
  <2>8. \A c \in linked : seq'[c] = seq[c]
    BY <2>1, <2>3, <2>4
  <2>9. TypeOK'
    <3>1. /\ index' \subseteq Block /\ Genesis \in index'
          /\ data' \subseteq index' /\ linked' \subseteq data' /\ scripts' \subseteq linked'
          /\ unlinked' \subseteq data' /\ candidates' \subseteq linked' /\ unqueued' \subseteq data'
      BY ZenonT(30), <1>1, <1>2, <2>1, <2>3, <2>4 DEF IndInv, TypeOK
    <3> QED BY Zenon, <1>1, <1>2, <2>7, <3>1 DEF IndInv, TypeOK
  <2>10. Sequence'
    BY <1>2, <2>1, <2>4 DEF IndInv, Sequence
  <2>11. \A c, d \in linked : WorseBy(seq', c, d) <=> Worse(c, d)
    BY ZenonT(30), <2>8 DEF Worse, WorseBy
  <2>12. Candidates'
    BY ZenonT(30), <1>2, <2>1, <2>4, <2>11 DEF IndInv, Candidates, Worse
  <2>13. Working'
    BY <1>2, <2>1 DEF IndInv, Working, Usable, Failed
  <2>14. Offered'
    <3> SUFFICES ASSUME pc' # "inv", unoffered' = {},
                        NEW c \in linked' \ Failed', ~Worse(c, tip)'
                 PROVE  Covered(c)'
      BY DEF Offered
    <3>1. CASE c \in new
      BY Zenon, <1>2, <2>1, <3>1 DEF Covered, Worse
    <3>2. CASE c \in linked
      <4>1. ~Worse(c, tip)
        BY <1>2, <2>4, <2>11, <3>2 DEF Worse
      <4>2. Covered(c)
        BY <1>2, <3>2, <4>1 DEF IndInv, Offered, Failed
      <4> QED BY ZenonT(30), <1>2, <2>1, <2>4, <2>11, <3>2, <4>2 DEF Covered, Usable, Failed, Worse
    <3> QED BY Zenon, <2>1, <3>1, <3>2
  <2> QED BY ZenonT(30), <1>4, <1>5, <1>6, <2>2, <2>9, <2>10, <2>12, <2>13, <2>14 DEF IndInv
<1>8. CASE ~ParentLinked(b)
  <2>1. /\ \/ unlinked' = unlinked /\ unqueued' = unqueued \cup {b}
           \/ unlinked' = unlinked \cup {b} /\ unqueued' = unqueued
        /\ UNCHANGED <<linked, seq, nextSeq, candidates>>
    BY Zenon, <1>8 DEF AcceptBlock
  <2>2. Links'
    BY ZenonT(30), <1>1, <1>2, <1>3, <1>8, <2>1, QueuedInv
  <2>3. TypeOK'
    BY ZenonT(30), <1>1, <1>2, <2>1 DEF IndInv, TypeOK
  <2>4. Sequence' /\ Candidates' /\ Working' /\ Offered'
    BY <1>2, <2>1, Frame DEF IndInv
  <2> QED BY <1>4, <1>5, <1>6, <2>2, <2>3, <2>4 DEF IndInv
<1> QED BY <1>7, <1>8
-----------------------------------------------------------------------------
(* ActivateBestChain *)

LEMMA AbcEnterInv ==
    ASSUME IndInv, AbcEnter
    PROVE  IndInv'
<1>1. /\ pc \in {"idle", "again"} /\ pc' = "find" /\ startTip' = tip
      /\ mostWork' = IF pc = "idle" THEN Null ELSE mostWork
      /\ due' = (due /\ pc = "again") /\ fStall' = FALSE
  BY DEF AbcEnter
<1>2. UNCHANGED <<index, data, linked, scripts, failedValid, failedChild, failedBlocks, unlinked,
                  seq, nextSeq, reverseSeq, lastPrecious, candidates, tip, unripe, stepTip,
                  target, toMark, byWork, commands, restarts, unqueued, unoffered, unjustified, leftOut>>
  BY Zenon DEF AbcEnter, status, order, invalidation, gaps
<1>3. TypeOK'
  <2>1. due' \in BOOLEAN /\ fStall' \in BOOLEAN
    BY Zenon, <1>1 DEF IndInv, TypeOK
  <2>2. mostWork' \in index \cup {Null} /\ startTip' \in index
        /\ pc' \in {"idle", "find", "connect", "again", "inv"}
    BY ZenonT(30), <1>1 DEF IndInv, TypeOK
  <2> QED BY <1>2, <2>1, <2>2 DEF IndInv, TypeOK
<1>4. Index' /\ Links' /\ Scripts' /\ Sequence' /\ Candidates' /\ Marks' /\ ActiveChain'
  BY <1>2, Frame DEF IndInv
<1>5. Working'
  BY ZenonT(30), <1>1, <1>2 DEF IndInv, Working, Usable, Failed
<1>6. Held'
  <2>1. mostWork' # Null => ~Worse(mostWork, tip)
    BY ZenonT(30), <1>1 DEF IndInv, Working, Candidates
  <2> QED BY Zenon, <1>1, <1>2, <2>1 DEF IndInv, Held, ActiveChain, Usable, Failed, Worse
<1>7. Offered'
  BY <1>1, <1>2 DEF IndInv, Offered, Covered, Usable, Failed, Worse
<1> QED BY <1>3, <1>4, <1>5, <1>6, <1>7 DEF IndInv

(* FindMostWorkChain looks at the best candidate. *)
LEMMA BestCandidateSound ==
    ASSUME IndInv, candidates # {}
    PROVE  /\ BestCandidate \in candidates
           /\ \A d \in candidates : ~Worse(BestCandidate, d)
           /\ BestCandidate \in Block
<1>1. candidates \subseteq index /\ candidates \subseteq Block /\ seq \in [Block -> Int]
  BY Zenon DEF IndInv, TypeOK
<1>2. IsFiniteSet(candidates)
  BY <1>1, FS_Subset DEF IndInv, Index
<1>3. \E c \in candidates : \A d \in candidates : ~Worse(c, d)
  BY <1>1, <1>2, BestExists DEF Worse
<1> QED BY <1>1, <1>3 DEF BestCandidate

LEMMA AbcDiscardInv ==
    ASSUME IndInv, AbcDiscard
    PROVE  IndInv'
<1> DEFINE path == Ancestors[BestCandidate] \ Chain
           bad == Highest(FailedOnPath)
           above == path \ Ancestors[bad]
<1>1. /\ pc = "find" /\ mostWork = Null /\ candidates # {} /\ FailedOnPath # {}
      /\ failedChild' = failedChild \cup above
      /\ candidates' = candidates \ (above \cup {bad})
  BY ZenonT(30) DEF AbcDiscard
<1>2. UNCHANGED <<index, data, linked, scripts, failedValid, failedBlocks, unlinked,
                  seq, nextSeq, reverseSeq, lastPrecious, tip, unripe, pc,
                  mostWork, startTip, stepTip, due, fStall, target, toMark, byWork,
                  commands, restarts, unqueued, unoffered, unjustified, leftOut>>
  BY Zenon DEF AbcDiscard, order, activation, calls, invalidation, gaps
<1>3. BestCandidate \in candidates /\ BestCandidate \in Block
  BY Zenon, <1>1, BestCandidateSound
<1>4. bad \in FailedOnPath
  <2>1. FailedOnPath \subseteq Ancestors[BestCandidate] /\ FailedOnPath \in SUBSET Block
    BY <1>3, AncestorsType DEF FailedOnPath
  <2> QED BY <1>1, <1>3, <2>1, HighestOnChain
<1>5. bad \in Ancestors[BestCandidate] /\ bad \in Failed
  BY <1>4 DEF FailedOnPath
<1> HIDE DEF bad
<1>6. above \subseteq Ancestors[BestCandidate] /\ \A d \in above : bad \in Ancestors[d]
  BY <1>3, <1>5, AncestorsAbove
<1> HIDE DEF path, above
<1>7. Failed' = Failed \cup above
  BY <1>1, <1>2 DEF Failed
<1>8. TypeOK'
  <2>1. Ancestors[BestCandidate] \subseteq index
    BY ZenonT(30), <1>3 DEF IndInv, Index, TypeOK
  <2> QED BY Zenon, <1>1, <1>2, <1>6, <2>1 DEF IndInv, TypeOK
<1>9. Index' /\ Links' /\ Scripts' /\ Sequence'
  BY <1>2, Frame DEF IndInv
<1>10. Candidates'
  BY <1>1, <1>2 DEF IndInv, Candidates, Worse
<1>11. Marks'
  <2>1. ASSUME NEW d \in above PROVE Ancestors[bad] \subseteq Ancestors[d]
    <3>1. d \in Block
      BY <1>3, <1>6, AncestorsType
    <3> QED BY Zenon, <1>6, <3>1, AncestorsTrans
  <2> QED BY Zenon, <1>1, <1>2, <1>5, <1>7, <2>1 DEF IndInv, Marks, InvalidAbove, Failed
<1>12. \A c \in linked : Usable(c) => Usable(c)'
  <2>1. linked \subseteq Block
    BY DEF IndInv, TypeOK
  <2>2. \A d \in Failed' \ Failed : \E x \in Failed : x \in Ancestors[d]
    BY <1>5, <1>6, <1>7
  <2> QED BY <2>1, <2>2, MarkAbove DEF Usable
<1>13. scripts \subseteq linked /\ candidates \subseteq linked
  BY DEF IndInv, TypeOK
<1>14. ActiveChain' /\ Working' /\ Held'
  BY ZenonT(30), <1>1, <1>2, <1>12, <1>13 DEF IndInv, ActiveChain, Working, Held
<1>15. Offered'
  <2> SUFFICES ASSUME unoffered' = {}, NEW b \in linked' \ Failed', ~Worse(b, tip)'
               PROVE  Covered(b)'
    BY Zenon DEF Offered
  <2>1. Covered(b)
    BY ZenonT(30), <1>1, <1>2, <1>7 DEF IndInv, Offered, Worse
  <2>2. ASSUME NEW c \in candidates, c \notin candidates' PROVE c \in Failed'
    BY <1>1, <1>5, <1>7, <2>2
  <2>3. CASE b \in candidates
    BY <2>2, <2>3 DEF Covered
  <2>4. CASE \E r \in scripts \cap candidates : Usable(r) /\ ~Worse(r, b)
    <3>1. PICK r \in scripts \cap candidates : Usable(r) /\ ~Worse(r, b)
      BY <2>4
    <3>2. Usable(r)' /\ r \in Block
      BY <1>12, <1>13, <3>1 DEF IndInv, TypeOK
    <3>3. r \in candidates'
      BY ZenonT(30), <2>2, <3>1, <3>2, AncestorsType DEF Usable
    <3> QED BY <1>2, <3>1, <3>2, <3>3 DEF Covered, Worse
  <2> QED BY <2>1, <2>3, <2>4 DEF Covered
<1> QED BY <1>8, <1>9, <1>10, <1>11, <1>14, <1>15 DEF IndInv

(* A block is no worse than its ancestors. *)
LEMMA AncestorNotBetter ==
    ASSUME NEW s \in [Block -> Int], NEW b \in Block, NEW a \in Ancestors[b]
    PROVE  ~WorseBy(s, b, a)
<1>1. a \in Block /\ Height[a] <= Height[b] /\ (Height[a] = Height[b] => a = b)
  BY AncestorsLower
<1>2. Height[a] \in Nat /\ Height[b] \in Nat
  BY <1>1, HeightUnfold
<1>3. CASE a = b
  BY ZenonT(30), <1>3, WorseOrder
<1>4. CASE a # b
  BY <1>1, <1>2, <1>4, WorseByHeight
<1> QED BY <1>3, <1>4

(* What a call of ActivateBestChain leaves out is in the index. *)
LEMMA NewlyLeftOutType == IndInv => NewlyLeftOut \subseteq index
BY Zenon DEF IndInv, TypeOK, NewlyLeftOut

LEMMA AbcDisconnectInv ==
    ASSUME IndInv, AbcDisconnect
    PROVE  IndInv'
<1>1. /\ pc = "find"
      /\ \/ mostWork # Null /\ mostWork' = mostWork
         \/ mostWork = Null /\ candidates = {} /\ mostWork' = Null
         \/ /\ mostWork = Null /\ candidates # {}
            /\ FailedOnPath = {}
            /\ mostWork' = BestCandidate
  BY Zenon DEF AbcDisconnect
<1>2. UNCHANGED <<index, data, linked, scripts, failedValid, failedChild, failedBlocks, unlinked,
                  seq, nextSeq, reverseSeq, lastPrecious, candidates, unripe, startTip,
                  due, fStall, target, toMark, byWork, commands, restarts,
                  unqueued, unoffered, unjustified>>
  BY DEF AbcDisconnect, status, order, calls, invalidation
<1>0. leftOut' \subseteq index
  BY Zenon, NewlyLeftOutType DEF AbcDisconnect, IndInv, TypeOK
<1>3. /\ index \subseteq Block /\ linked \subseteq index /\ scripts \subseteq linked
      /\ candidates \subseteq linked /\ tip \in index /\ seq \in [Block -> Int]
  BY Zenon DEF IndInv, TypeOK
<1>4. Index' /\ Links' /\ Scripts' /\ Sequence' /\ Marks'
  BY <1>2, Frame DEF IndInv
<1>5. mostWork' # Null => mostWork' \in candidates /\ Usable(mostWork')
  <2>1. CASE mostWork # Null /\ mostWork' = mostWork
    BY ZenonT(30), <1>1, <2>1 DEF IndInv, Working
  <2>2. CASE mostWork' = BestCandidate /\ FailedOnPath = {} /\ candidates # {}
    <3>1. BestCandidate \in candidates
      BY <2>2, BestCandidateSound
    <3>2. Ancestors[BestCandidate] \cap Failed = {}
      BY <2>2 DEF FailedOnPath, IndInv, ActiveChain, Usable, Chain
    <3> QED BY <2>2, <3>1, <3>2 DEF Usable
  <2> QED BY <1>1, <2>1, <2>2
<1>6. CASE mostWork' \in {tip, Null}
  <2>1. pc' = "idle" /\ UNCHANGED <<tip, stepTip>>
    BY Zenon, <1>6 DEF AbcDisconnect
  <2>2. TypeOK'
    BY ZenonT(30), <1>0, <1>2, <1>3, <1>6, <2>1 DEF IndInv, TypeOK
  <2>3. Candidates' /\ ActiveChain'
    BY <1>2, <2>1, Frame DEF IndInv
  <2>4. Working' /\ Held'
    BY Zenon, <2>1 DEF Working, Held
  <2>5. Offered'
    BY Zenon, <1>1, <1>2, <2>1 DEF IndInv, Offered, Covered, Usable, Failed, Worse
  <2> QED BY <1>4, <2>2, <2>3, <2>4, <2>5 DEF IndInv
<1>7. CASE mostWork' \notin {tip, Null}
  <2> DEFINE w == mostWork'
             f == Fork(tip, w)
  <2>1. pc' = "connect" /\ stepTip' = tip /\ tip' = f
    BY <1>7 DEF AbcDisconnect
  <2>2. w \in candidates /\ Usable(w) /\ w \in Block /\ tip \in Block
    BY <1>3, <1>5, <1>7
  <2>3. /\ f \in Ancestors[tip] /\ f \in Ancestors[w] /\ f \in Block
        /\ Ancestors[f] \subseteq Ancestors[tip]
    BY Zenon, <2>2, ForkExists
  <2> HIDE DEF f
  <2>4. ~Worse(tip, f) /\ ~Worse(w, tip)
    <3>1. ~Worse(tip, f)
      BY ZenonT(30), <1>3, <2>2, <2>3, AncestorNotBetter DEF Worse
    <3> QED BY <2>2, <3>1 DEF IndInv, Candidates
  <2>5. f # w
    <3>1. SUFFICES ASSUME f = w PROVE FALSE
      OBVIOUS
    <3>2. ~Worse(tip, w) /\ w # tip
      BY <1>7, <2>4, <3>1
    <3> QED BY <1>3, <2>2, <2>4, <3>2, WorseOrder DEF Worse
  <2>6. Ancestors[tip] \subseteq scripts /\ Usable(tip)
    BY DEF IndInv, Scripts, ActiveChain
  <2>7. ActiveChain'
    BY ZenonT(30), <1>2, <2>1, <2>3, <2>6 DEF ActiveChain, Usable, Failed
  <2>8. TypeOK'
    <3>1. w \in index /\ f \in index
      BY <1>3, <2>2, <2>3, <2>6
    <3> QED BY <1>0, <1>2, <2>1, <3>1 DEF IndInv, TypeOK
  <2>9. Candidates'
    <3> SUFFICES ASSUME NEW c \in candidates PROVE ~Worse(c, f)
      BY <1>2, <2>1 DEF Candidates, Worse
    <3>1. ~Worse(c, tip) /\ c \in Block
      BY <1>3 DEF IndInv, Candidates
    <3> QED BY ZenonT(30), <1>3, <2>2, <2>3, <2>4, <3>1, WorseOrder DEF Worse
  <2>10. Working'
    BY Zenon, <1>2, <2>1, <2>2, <2>3, <2>5 DEF Working, Usable, Failed
  <2>11. Covered(tip) \/ unoffered # {}
    <3>1. ~Worse(tip, tip) /\ tip \notin Failed
      BY <1>3, <2>2, <2>6, WorseOrder, AncestorsType DEF Worse, Usable
    <3> QED BY ZenonT(30), <1>1, <1>3, <3>1 DEF IndInv, Offered, ActiveChain
  <2>12. Offered'
    <3> SUFFICES ASSUME unoffered = {}, NEW b \in linked \ Failed, ~Worse(b, f)
                 PROVE  Covered(b)
      BY Zenon, <1>2, <2>1 DEF Offered, Covered, Usable, Failed, Worse
    <3>1. CASE ~Worse(b, tip)
      BY <1>1, <3>1 DEF IndInv, Offered
    <3>2. CASE Worse(b, tip)
      <4>1. b \in Block /\ ~Worse(tip, b)
        BY ZenonT(30), <1>3, <2>2, <3>2, WorseOrder DEF Worse
      <4>2. CASE tip \in candidates
        BY <2>6, <4>1, <4>2 DEF Covered, IndInv, ActiveChain
      <4>3. CASE \E r \in scripts \cap candidates : Usable(r) /\ ~Worse(r, tip)
        <5>1. PICK r \in scripts \cap candidates : Usable(r) /\ ~Worse(r, tip)
          BY ZenonT(30), <4>3
        <5>2. ~Worse(r, b)
          BY <1>3, <2>2, <4>1, <5>1, WorseOrder DEF Worse
        <5> QED BY <5>1, <5>2 DEF Covered
      <4> QED BY Zenon, <2>11, <4>2, <4>3 DEF Covered
    <3> QED BY <3>1, <3>2
  <2>13. ASSUME unoffered = {} PROVE ~Worse(w, startTip)
    <3>1. startTip \in scripts /\ Usable(startTip) /\ startTip \in Block
      BY Zenon, <1>1, <1>3 DEF IndInv, Held
    <3>2. CASE mostWork # Null /\ mostWork' = mostWork
      BY <1>1, <2>13, <3>2 DEF IndInv, Held
    <3>3. CASE mostWork' = BestCandidate /\ candidates # {}
      <4>1. \A c \in candidates : ~Worse(w, c)
        BY Zenon, <3>3, BestCandidateSound
      <4>2. CASE Worse(startTip, tip)
        <5>1. ~Worse(tip, startTip)
          BY ZenonT(30), <1>3, <2>2, <3>1, <4>2, WorseOrder DEF Worse
        <5> QED BY Zenon, <1>3, <2>2, <2>4, <3>1, <5>1, WorseOrder DEF Worse
      <4>3. CASE ~Worse(startTip, tip)
        <5>1. startTip \notin Failed /\ ~Worse(startTip, startTip)
          BY ZenonT(30), <1>3, <3>1, AncestorsType, WorseOrder DEF Usable, Worse
        <5>2. Covered(startTip)
          BY <1>1, <1>3, <2>13, <3>1, <4>3, <5>1 DEF IndInv, Offered
        <5>3. PICK c \in candidates : ~Worse(c, startTip)
          BY <5>1, <5>2 DEF Covered
        <5> QED BY <1>3, <2>2, <3>1, <4>1, <5>3, WorseOrder DEF Worse
      <4> QED BY <4>2, <4>3
    <3> QED BY Zenon, <1>1, <1>7, <3>2, <3>3
  <2>14. Held'
    BY Zenon, <1>1, <1>2, <1>7, <2>1, <2>13 DEF IndInv, Held, Usable, Failed, Worse
  <2> QED BY <1>4, <2>7, <2>8, <2>9, <2>10, <2>12, <2>14 DEF IndInv
<1> QED BY <1>6, <1>7

(* ActivateBestChainStep connects the child of the tip on the way to        *)
(* pindexMostWork, a linked block that is not marked.                       *)
LEMMA NextToConnectSound ==
    ASSUME IndInv, pc = "connect"
    PROVE  /\ NextToConnect \in Ancestors[mostWork]
           /\ NextToConnect \in linked
           /\ NextToConnect \in Block
           /\ Ancestors[NextToConnect] = {NextToConnect} \cup Chain
           /\ NextToConnect \notin Chain
           /\ Usable(NextToConnect)
<1>1. /\ mostWork \in candidates /\ Usable(mostWork)
      /\ tip \in Ancestors[mostWork] /\ tip # mostWork
  BY Zenon DEF IndInv, Held, Working
<1>2. candidates \subseteq linked /\ linked \subseteq Block
  BY Zenon DEF IndInv, TypeOK
<1>3. mostWork \in Block /\ tip \in Block /\ Height[tip] <= Height[mostWork] /\ Height[tip] # Height[mostWork]
  BY <1>1, <1>2, AncestorsLower
<1>4. Height[tip] \in Nat /\ Height[mostWork] \in Nat
  BY <1>3, HeightUnfold
<1>5. Height[tip] + 1 \in Nat /\ Height[tip] + 1 <= Height[mostWork]
  BY <1>3, <1>4
<1>6. \E b \in Ancestors[mostWork] : Height[b] = Height[tip] + 1
  BY Zenon, <1>3, <1>5, AncestorAt
<1> DEFINE n == NextToConnect
<1>7. n \in Ancestors[mostWork] /\ Height[n] = Height[tip] + 1
  BY Zenon, <1>6 DEF NextToConnect
<1> HIDE DEF n
<1>8. n \in Block /\ n \in linked /\ Ancestors[n] \subseteq Ancestors[mostWork]
  BY Zenon, <1>1, <1>2, <1>3, <1>7, AncestorsType, AncestorsTrans DEF IndInv, Links
<1>9. n # Genesis /\ Height[n] = Height[Parent[n]] + 1
      /\ Parent[n] \in Block /\ Ancestors[n] = {n} \cup Ancestors[Parent[n]]
  <2>1. n # Genesis
    BY <1>4, <1>7, HeightUnfold
  <2> QED BY Zenon, <1>8, <2>1, HeightUnfold, AncestorsUnfold
<1>10. Parent[n] = tip
  <2>1. Height[Parent[n]] \in Nat
    BY ZenonT(30), <1>9, HeightUnfold
  <2>2. Height[Parent[n]] = Height[tip]
    BY <1>4, <1>7, <1>9, <2>1
  <2>3. Parent[n] \in Ancestors[mostWork]
    BY ZenonT(30), <1>8, <1>9, AncestorsType
  <2>4. Parent[n] \in Ancestors[tip]
    BY <1>1, <1>3, <1>4, <2>2, <2>3, AncestorsLinear
  <2> QED BY Zenon, <1>3, <2>2, <2>4, AncestorsLower
<1>11. n \notin Ancestors[Parent[n]]
  BY <1>8, <1>9, Acyclic
<1> QED BY ZenonT(30), <1>1, <1>7, <1>8, <1>9, <1>10, <1>11 DEF n, Chain, Usable

LEMMA AbcStallInv ==
    ASSUME IndInv, AbcStall
    PROVE  IndInv'
<1>1. pc = "connect" /\ pc' = "idle" /\ fStall' = TRUE
  BY Zenon DEF AbcStall
<1>2. UNCHANGED <<index, data, linked, scripts, failedValid, failedChild, failedBlocks, unlinked,
                  seq, nextSeq, reverseSeq, lastPrecious, candidates, tip, unripe,
                  mostWork, startTip, stepTip, due, target, toMark, byWork, commands, restarts,
                  unqueued, unoffered, unjustified>>
  BY DEF AbcStall, status, order, activation, invalidation
<1>3. TypeOK'
  <2>1. leftOut' \subseteq index
    BY Zenon, NewlyLeftOutType DEF AbcStall, IndInv, TypeOK
  <2> QED BY ZenonT(30), <1>1, <1>2, <2>1 DEF IndInv, TypeOK
<1>4. Index' /\ Links' /\ Scripts' /\ Sequence' /\ Candidates' /\ Marks' /\ ActiveChain'
  BY ZenonT(30), <1>2, Frame DEF IndInv
<1>5. Working' /\ Held'
  BY <1>1 DEF Working, Held
<1>6. Offered'
  BY Zenon, <1>1, <1>2 DEF IndInv, Offered, Covered, Usable, Failed, Worse
<1> QED BY <1>3, <1>4, <1>5, <1>6 DEF IndInv

LEMMA AbcInvalidInv ==
    ASSUME IndInv, AbcInvalid
    PROVE  IndInv'
<1> DEFINE n == NextToConnect
<1>1. /\ pc = "connect" /\ n \in BadScripts /\ mostWork' = Null
      /\ failedValid' = failedValid \cup {n} /\ failedBlocks' = failedBlocks \cup {n}
      /\ candidates' = candidates \ {n}
      /\ pc' \in {"find", "again", "idle"}
  BY Zenon DEF AbcInvalid, AfterStep
<1>2. UNCHANGED <<index, data, linked, scripts, failedChild, unlinked,
                  seq, nextSeq, reverseSeq, lastPrecious, tip, unripe, startTip, stepTip,
                  due, fStall, target, toMark, byWork, commands, restarts,
                  unqueued, unoffered, unjustified, leftOut>>
  BY DEF AbcInvalid, order, calls, invalidation, gaps
<1>3. n \in linked /\ n \in Block /\ n \in Ancestors[n]
  BY ZenonT(30), <1>1, NextToConnectSound, AncestorsType
<1> HIDE DEF n
<1>4. Failed' = Failed \cup {n}
  BY <1>1, <1>2 DEF Failed
<1>5. n \notin scripts /\ \A b \in scripts : Usable(b) => Usable(b)'
  <2>1. n \notin scripts
    BY <1>1 DEF IndInv, Scripts
  <2> QED BY <1>4, <2>1 DEF IndInv, Scripts, Usable
<1>6. TypeOK'
  BY ZenonT(30), <1>1, <1>2, <1>3 DEF IndInv, TypeOK
<1>7. Index' /\ Links' /\ Scripts' /\ Sequence'
  BY ZenonT(30), <1>2, Frame DEF IndInv
<1>8. Candidates'
  BY <1>1, <1>2 DEF IndInv, Candidates, Worse
<1>9. Marks'
  BY ZenonT(30), <1>1, <1>2, <1>3, <1>4 DEF IndInv, Marks, InvalidAbove
<1>10. ActiveChain'
  BY <1>2, <1>5 DEF IndInv, ActiveChain
<1>11. Working' /\ Held'
  BY ZenonT(30), <1>1, <1>2, <1>5 DEF IndInv, Working, Held
<1>12. Offered'
  <2> SUFFICES ASSUME unoffered = {}, NEW b \in linked \ Failed', ~Worse(b, tip)
               PROVE  Covered(b)'
    BY <1>2 DEF Offered, Worse
  <2>1. Covered(b) /\ b # n
    BY <1>1, <1>4 DEF IndInv, Offered
  <2> QED BY <1>1, <1>2, <1>5, <2>1 DEF Covered, Worse
<1> QED BY ZenonT(30), <1>6, <1>7, <1>8, <1>9, <1>10, <1>11, <1>12 DEF IndInv

LEMMA AbcConnectInv ==
    ASSUME IndInv, AbcConnect
    PROVE  IndInv'
<1> DEFINE n == NextToConnect
<1>1. /\ pc = "connect" /\ n \notin BadScripts /\ tip' = n
      /\ scripts' = IF n \in Failed THEN scripts ELSE scripts \cup {n}
      /\ candidates' = {c \in candidates : ~Worse(c, n)}
      /\ pc' \in {"find", "again", "idle", "connect"}
      /\ n = mostWork => pc' \in {"find", "idle"}
  BY Zenon DEF AbcConnect, AfterStep, PruneBlockIndexCandidates, Worse
<1>2. UNCHANGED <<index, data, linked, failedValid, failedChild, failedBlocks, unlinked,
                  seq, nextSeq, reverseSeq, lastPrecious, unripe, mostWork, startTip, stepTip,
                  due, fStall, target, toMark, byWork, commands, restarts,
                  unqueued, unoffered, unjustified, leftOut>>
  BY DEF AbcConnect, order, activation, calls, invalidation, gaps
<1>3. /\ n \in Ancestors[mostWork] /\ n \in linked /\ n \in Block
      /\ Ancestors[n] = {n} \cup Chain /\ Usable(n)
  BY ZenonT(30), <1>1, NextToConnectSound
<1> HIDE DEF n
<1>4. scripts' = scripts \cup {n}
  BY ZenonT(30), <1>1, <1>3 DEF Usable
<1>5. /\ linked \subseteq Block /\ scripts \subseteq linked /\ candidates \subseteq linked
      /\ tip \in Block /\ seq \in [Block -> Int]
  BY DEF IndInv, TypeOK
<1>6. TypeOK'
  BY ZenonT(30), <1>1, <1>2, <1>3, <1>4 DEF IndInv, TypeOK
<1>7. Index' /\ Links' /\ Sequence' /\ Marks'
  BY <1>2, Frame DEF IndInv
<1>8. Scripts'
  BY ZenonT(30), <1>1, <1>3, <1>4 DEF IndInv, Scripts, ActiveChain, Chain
<1>9. Candidates'
  BY <1>1, <1>2 DEF Candidates, Worse
<1>10. ActiveChain'
  BY ZenonT(30), <1>1, <1>2, <1>3, <1>4 DEF ActiveChain, Usable, Failed
<1>11. mostWork # Null /\ mostWork \in candidates /\ Usable(mostWork) /\ mostWork \in Block
  BY Zenon, <1>1, <1>5 DEF IndInv, Held, Working
<1>12. Working'
  <2>1. ~Worse(mostWork, n)
    BY ZenonT(30), <1>3, <1>5, <1>11, AncestorNotBetter DEF Worse
  <2> QED BY ZenonT(30), <1>1, <1>2, <1>3, <1>11, <2>1 DEF Working, Usable, Failed
<1>13. Held'
  BY ZenonT(30), <1>1, <1>2, <1>4 DEF IndInv, Held, Usable, Failed, Worse
<1>14. Offered'
  <2> SUFFICES ASSUME unoffered = {}, NEW b \in linked \ Failed, ~Worse(b, n)
               PROVE  Covered(b)'
    BY <1>1, <1>2 DEF Offered, Worse, Failed
  <2>1. tip \in Ancestors[n]
    BY ZenonT(30), <1>3, <1>5, AncestorsType DEF Chain
  <2>2. ~Worse(n, tip)
    BY ZenonT(30), <1>3, <1>5, <2>1, AncestorNotBetter DEF Worse
  <2>3. ~Worse(b, tip)
    BY ZenonT(30), <1>3, <1>5, <2>2, WorseOrder DEF Worse
  <2>4. Covered(b)
    BY <1>1, <2>3 DEF IndInv, Offered
  <2>5. CASE b \in candidates
    BY <1>1, <2>5 DEF Covered
  <2>6. CASE \E r \in scripts \cap candidates : Usable(r) /\ ~Worse(r, b)
    <3>1. PICK r \in scripts \cap candidates : Usable(r) /\ ~Worse(r, b)
      BY <2>6
    <3>2. ~Worse(r, n)
      BY ZenonT(30), <1>3, <1>5, <3>1, WorseOrder DEF Worse
    <3> QED BY ZenonT(30), <1>1, <1>2, <1>4, <3>1, <3>2 DEF Covered, Usable, Failed, Worse
  <2> QED BY ZenonT(30), <2>4, <2>5, <2>6 DEF Covered
<1> QED BY ZenonT(30), <1>6, <1>7, <1>8, <1>9, <1>10, <1>12, <1>13, <1>14 DEF IndInv

LEMMA RipenInv ==
    ASSUME IndInv, Ripen
    PROVE  IndInv'
<1>1. unripe' = {}
  BY Zenon DEF Ripen
<1>2. UNCHANGED <<index, data, linked, scripts, failedValid, failedChild, failedBlocks, unlinked,
                  seq, nextSeq, reverseSeq, lastPrecious, candidates, tip, pc,
                  mostWork, startTip, stepTip, due, fStall, target, toMark, byWork,
                  commands, restarts, unqueued, unoffered, unjustified, leftOut>>
  BY Zenon DEF Ripen, status, order, activation, calls, invalidation, gaps
<1>3. TypeOK'
  BY ZenonT(30), <1>1, <1>2 DEF IndInv, TypeOK
<1> QED BY <1>2, <1>3, Frame DEF IndInv
-----------------------------------------------------------------------------
(* InvalidateBlock, ResetBlockFailureFlags, PreciousBlock, restart *)

LEMMA CommandType ==
    ASSUME IndInv, Command
    PROVE  commands' \in 0..MaxCommands
BY ChainAssumption DEF IndInv, TypeOK, Command

LEMMA InvStartInv ==
    ASSUME IndInv, NEW b \in Block, InvStart(b)
    PROVE  IndInv'
<1>1. /\ b \in index \ {Genesis} /\ target' = b /\ toMark' = b /\ pc' = "inv"
      /\ byWork' \subseteq index \cap linked
  BY Zenon DEF InvStart, Connectable
<1>2. UNCHANGED <<index, data, linked, scripts, failedValid, failedChild, failedBlocks, unlinked,
                  seq, nextSeq, reverseSeq, lastPrecious, candidates, tip, unripe,
                  mostWork, startTip, stepTip, due, fStall, restarts,
                  unqueued, unoffered, unjustified, leftOut>>
  BY DEF InvStart, status, order, activation, calls, gaps
<1>3. TypeOK'
  <2>1. commands' \in 0..MaxCommands
    BY CommandType DEF InvStart
  <2> QED BY ZenonT(30), <1>1, <1>2, <2>1 DEF IndInv, TypeOK
<1>4. Links'
  BY ZenonT(30), <1>1, <1>2 DEF IndInv, Links, LinksExact
<1>5. Index' /\ Scripts' /\ Sequence' /\ Candidates' /\ Marks' /\ ActiveChain'
  BY <1>2, Frame DEF IndInv
<1>6. Working' /\ Held' /\ Offered'
  BY Zenon, <1>1, <1>2 DEF Working, Held, Offered
<1> QED BY <1>3, <1>4, <1>5, <1>6 DEF IndInv

LEMMA InvDisconnectInv ==
    ASSUME IndInv, InvDisconnect
    PROVE  IndInv'
<1> DEFINE down == Parent[tip]
           add == {c \in byWork : ~Worse(c, down)}
<1>1. /\ index \subseteq Block /\ tip \in Block /\ linked \subseteq index /\ scripts \subseteq linked
      /\ candidates \subseteq linked /\ byWork \subseteq linked /\ seq \in [Block -> Int]
  BY Zenon DEF IndInv, TypeOK, Links
<1>2. tip # Genesis
  BY ZenonT(30), AncestorsUnfold DEF InvDisconnect, IndInv, Held, Chain
<1>3. /\ down \in Block /\ Ancestors[tip] = {tip} \cup Ancestors[down]
      /\ tip \notin Ancestors[down] /\ down \in Ancestors[down]
  BY Zenon, <1>1, <1>2, AncestorsUnfold, AncestorsType, Acyclic
<1>4. Ancestors[tip] \subseteq scripts /\ Usable(tip)
  BY DEF IndInv, Scripts, ActiveChain
<1>5. down \notin Failed
  BY Zenon, <1>3, <1>4 DEF Usable
<1>6. /\ pc = "inv" /\ tip' = down /\ toMark' = tip
      /\ failedValid' = failedValid \cup {tip} /\ failedChild' = failedChild
      /\ candidates' = (candidates \ {tip}) \cup {down} \cup add
      /\ byWork' = byWork \ add
  BY Zenon, <1>5 DEF InvDisconnect, Failed
<1>7. UNCHANGED <<index, data, linked, scripts, failedBlocks, unlinked,
                  seq, nextSeq, reverseSeq, lastPrecious, unripe, pc, mostWork, startTip, stepTip,
                  due, fStall, target, commands, restarts, unqueued, unoffered, unjustified, leftOut>>
  BY Zenon DEF InvDisconnect, order, activation, calls, gaps
<1> HIDE DEF down
<1>8. Failed' = Failed \cup {tip}
  BY <1>6 DEF Failed
<1>9. TypeOK'
  BY ZenonT(30), <1>1, <1>3, <1>4, <1>6, <1>7 DEF IndInv, TypeOK
<1>10. Links'
  BY ZenonT(30), <1>6, <1>7 DEF IndInv, Links, LinksExact
<1>11. Index' /\ Scripts' /\ Sequence'
  BY ZenonT(30), <1>7, Frame DEF IndInv
<1>12. Candidates'
  <2>1. ~Worse(tip, down) /\ ~Worse(down, down)
    BY Zenon, <1>1, <1>3, AncestorNotBetter, WorseOrder DEF Worse
  <2>2. ASSUME NEW c \in candidates PROVE ~Worse(c, down)
    <3>1. ~Worse(c, tip) /\ c \in Block
      BY <1>1 DEF IndInv, Candidates
    <3> QED BY ZenonT(30), <1>1, <1>3, <2>1, <3>1, WorseOrder DEF Worse
  <2> QED BY <1>6, <1>7, <2>1, <2>2 DEF Candidates, Worse
<1>13. Marks'
  BY Zenon, <1>3, <1>6, <1>7, <1>8 DEF IndInv, Marks, InvalidAbove
<1>14. ActiveChain'
  BY ZenonT(30), <1>3, <1>4, <1>6, <1>7, <1>8 DEF ActiveChain, Usable
<1>15. Working' /\ Offered'
  BY Zenon, <1>6, <1>7 DEF Working, Offered
<1>16. Held'
  BY ZenonT(30), <1>1, <1>2, <1>3, <1>4, <1>6, <1>7 DEF IndInv, Held, Chain
<1> QED BY ZenonT(30), <1>9, <1>10, <1>11, <1>12, <1>13, <1>14, <1>15, <1>16 DEF IndInv

LEMMA InvFinishInv ==
    ASSUME IndInv, InvFinish
    PROVE  IndInv'
<1>1. /\ pc = "inv" /\ target \notin Chain /\ pc' = "idle"
      /\ failedValid' = failedValid \cup {toMark} /\ failedBlocks' = failedBlocks \cup {toMark}
      /\ candidates' = (candidates \ {toMark}) \cup
                       {c \in index \ {toMark} : Connectable(c) /\ ~Worse(c, tip)}
      /\ target' = Null /\ toMark' = Null /\ byWork' = {} /\ due' = TRUE
      /\ unoffered' = {} /\ leftOut' = {}
  BY Zenon DEF InvFinish
<1>2. UNCHANGED <<index, data, linked, scripts, failedChild, unlinked,
                  seq, nextSeq, reverseSeq, lastPrecious, tip, unripe, mostWork, startTip, stepTip,
                  fStall, commands, restarts, unqueued, unjustified>>
  BY DEF InvFinish, order, activation
<1>3. toMark \in index /\ toMark \notin Chain
  BY <1>1 DEF IndInv, Held
<1>4. Failed' = Failed \cup {toMark} /\ toMark \in Ancestors[toMark]
  BY Zenon, <1>1, <1>2, <1>3, AncestorsType DEF Failed, IndInv, TypeOK
<1>5. TypeOK'
  BY Zenon, <1>1, <1>2, <1>3 DEF IndInv, TypeOK, Connectable
<1>6. Links'
  BY ZenonT(30), <1>1, <1>2 DEF IndInv, Links, LinksExact
<1>7. Index' /\ Scripts' /\ Sequence'
  BY ZenonT(30), <1>2, Frame DEF IndInv
<1>8. Candidates'
  BY <1>1, <1>2 DEF IndInv, Candidates, Worse
<1>9. Marks'
  BY ZenonT(30), <1>1, <1>2, <1>4 DEF IndInv, Marks, InvalidAbove
<1>10. ActiveChain'
  BY Zenon, <1>2, <1>3, <1>4 DEF IndInv, ActiveChain, Usable, Chain
<1>11. Working' /\ Held'
  BY Zenon, <1>1 DEF Working, Held
<1>12. Offered'
  <2> SUFFICES ASSUME NEW b \in linked \ Failed', ~Worse(b, tip)
               PROVE  b \in candidates'
    BY ZenonT(30), <1>2 DEF Offered, Covered, Worse
  <2>1. b \in index /\ b \in data /\ b \notin Failed /\ b # toMark
    BY <1>4 DEF IndInv, TypeOK
  <2> QED BY Zenon, <1>1, <2>1 DEF Connectable
<1> QED BY ZenonT(30), <1>5, <1>6, <1>7, <1>8, <1>9, <1>10, <1>11, <1>12 DEF IndInv

LEMMA ReconsiderInv ==
    ASSUME IndInv, NEW b \in Block, Reconsider(b)
    PROVE  IndInv'
<1> DEFINE desc == {d \in index \cap Failed : b \in Ancestors[d]}
           clear == desc \cup (Ancestors[b] \cap Failed)
           left == {d \in Failed \ clear : Ancestors[d] \cap Ancestors[b] \cap failedValid # {}}
<1>1. /\ Unlocked /\ due' = TRUE
      /\ failedValid' = failedValid \ clear /\ failedChild' = failedChild \ clear
      /\ failedBlocks' = failedBlocks \ clear
      /\ candidates' = candidates \cup {d \in desc : d \in data \cap linked /\ Worse(tip, d)}
      /\ unoffered' = unoffered \cup {a \in clear \cap linked : Worse(tip, a) /\ a \notin candidates'}
      /\ unjustified' = unjustified \cup left
  BY Zenon DEF Reconsider
<1>2. UNCHANGED <<index, data, linked, scripts, unlinked, seq, nextSeq, reverseSeq, lastPrecious,
                  tip, unripe, pc, mostWork, startTip, stepTip, fStall, target, toMark, byWork,
                  restarts, unqueued, leftOut>>
  BY ZenonT(30) DEF Reconsider, order, activation, invalidation
<1>3. /\ index \subseteq Block /\ tip \in Block /\ linked \subseteq index
      /\ Failed \subseteq index /\ seq \in [Block -> Int]
  BY DEF IndInv, TypeOK, Failed
<1>4. Failed' = Failed \ clear
  BY Zenon, <1>1 DEF Failed
<1>5. TypeOK'
  <2>1. commands' \in 0..MaxCommands
    BY Zenon, CommandType DEF Reconsider
  <2>2. unoffered' \subseteq index /\ unjustified' \subseteq index /\ candidates' \subseteq linked
    BY Zenon, <1>1, <1>3 DEF IndInv, TypeOK
  <2> HIDE DEF desc, clear, left
  <2> QED BY ZenonT(30), <1>1, <1>2, <2>1, <2>2 DEF IndInv, TypeOK
<1>6. Index' /\ Links' /\ Scripts' /\ Sequence'
  BY Zenon, <1>2, Frame DEF IndInv
<1>7. Candidates'
  <2>1. \A d \in linked : Worse(tip, d) => ~Worse(d, tip)
    BY <1>3, WorseOrder DEF Worse
  <2> QED BY ZenonT(30), <1>1, <1>2, <2>1 DEF IndInv, Candidates, Worse
<1>8. Marks'
  <2>1. failedBlocks' \subseteq failedValid'
    BY ZenonT(30), <1>1 DEF IndInv, Marks
  <2>2. ASSUME NEW d \in Failed' PROVE InvalidAbove(d)' \/ Ancestors[d] \cap unjustified' # {}
    <3>1. d \in Failed \ clear /\ d \in Block /\ d \in index
      BY <1>3, <1>4
    <3>2. CASE Ancestors[d] \cap unjustified # {}
      BY ZenonT(30), <1>1, <3>2
    <3>3. CASE InvalidAbove(d)
      <4>1. PICK f \in Ancestors[d] : f \in failedValid
        BY Zenon, <3>3 DEF InvalidAbove
      <4>2. CASE f \in desc
        <5>1. b \in Ancestors[d]
          BY <3>1, <4>1, <4>2, AncestorsTrans
        <5> QED BY ZenonT(30), <3>1, <5>1
      <4>3. CASE f \in Ancestors[b]
        <5>1. d \in left /\ d \in Ancestors[d]
          BY Zenon, <3>1, <4>1, <4>3, AncestorsType
        <5> QED BY Zenon, <1>1, <5>1
      <4>4. CASE f \notin clear
        BY ZenonT(30), <1>1, <4>1, <4>4 DEF InvalidAbove
      <4> QED BY <4>2, <4>3, <4>4
    <3> QED BY ZenonT(30), <3>1, <3>2, <3>3 DEF IndInv, Marks
  <2> QED BY <2>1, <2>2 DEF Marks
<1> HIDE DEF desc, clear, left
<1>9. \A x : Usable(x) => Usable(x)'
  BY <1>4 DEF Usable
<1>10. ActiveChain' /\ Working'
  BY Zenon, <1>1, <1>2, <1>9 DEF IndInv, ActiveChain, Working
<1>11. Held'
  BY Zenon, <1>1, <1>2 DEF IndInv, Held, Unlocked, Chain
<1>12. Offered'
  <2> SUFFICES ASSUME pc # "inv", unoffered' = {}, NEW c \in linked \ Failed', ~Worse(c, tip)
               PROVE  Covered(c)'
    BY Zenon, <1>2 DEF Offered, Worse
  <2>1. CASE c \notin Failed
    <3>1. Covered(c)
      BY ZenonT(30), <1>1, <2>1 DEF IndInv, Offered
    <3> QED BY ZenonT(30), <1>1, <1>2, <1>9, <3>1 DEF Covered, Worse
  <2>2. CASE c \in Failed
    <3>1. c \in clear /\ c # tip /\ c \in Block
      BY ZenonT(30), <1>3, <1>4, <2>2, AncestorsType DEF IndInv, ActiveChain, Usable
    <3>2. Worse(tip, c)
      BY ZenonT(30), <1>3, <3>1, WorseOrder DEF Worse
    <3> QED BY <1>1, <3>1, <3>2 DEF Covered
  <2> QED BY Zenon, <2>1, <2>2
<1> QED BY <1>5, <1>6, <1>7, <1>8, <1>10, <1>11, <1>12 DEF IndInv

(* PreciousBlock moves one block in the order.  A candidate it drops is     *)
(* worse than the tip, or was not usable; a block that was not a candidate  *)
(* because b was as good is noted in unoffered when b is now worse.         *)
LEMMA PreciousBlockInv ==
    ASSUME IndInv, NEW b \in Block, PreciousBlock(b)
    PROVE  IndInv'
<1> DEFINE rev == IF Height[tip] > lastPrecious THEN -1 ELSE reverseSeq
<1>1. /\ Unlocked /\ b \in index /\ due' = TRUE
      /\ seq' = [seq EXCEPT ![b] = rev] /\ reverseSeq' = rev - 1
      /\ lastPrecious' = Height[tip]
      /\ candidates' = IF Connectable(b)
                       THEN {c \in candidates \cup {b} : ~WorseBy(seq', c, tip)}
                       ELSE candidates \ {b}
      /\ unoffered' = unoffered \cup
             {c \in linked \ candidates' : Worse(c, b) /\ WorseBy(seq', b, c)}
  BY Zenon DEF PreciousBlock, PruneBlockIndexCandidates
<1>2. UNCHANGED <<index, data, linked, scripts, failedValid, failedChild, failedBlocks, unlinked,
                  nextSeq, tip, unripe, pc, mostWork, startTip, stepTip, fStall,
                  target, toMark, byWork, unqueued, unjustified, leftOut, restarts>>
  BY Zenon DEF PreciousBlock, status, activation, invalidation
<1>3. /\ linked \subseteq data /\ data \subseteq index /\ index \subseteq Block /\ tip \in Block
      /\ scripts \subseteq linked /\ candidates \subseteq linked /\ seq \in [Block -> Int]
      /\ unoffered \subseteq index /\ reverseSeq \in Int
  BY Zenon DEF IndInv, TypeOK
<1>4. rev \in Int /\ rev < 0 /\ reverseSeq' \in Int /\ reverseSeq' < 0
  <2>1. Height[tip] \in Nat /\ lastPrecious \in Nat /\ reverseSeq < 0
    BY ZenonT(30), <1>3, HeightUnfold DEF IndInv, TypeOK, Sequence
  <2> QED BY <1>1, <1>3, <2>1
<1> HIDE DEF rev
<1>5. /\ seq' \in [Block -> Int] /\ seq'[b] = rev
      /\ \A x \in Block \ {b} : seq'[x] = seq[x]
  BY <1>1, <1>3, <1>4
<1>6. \A x, y \in Block \ {b} : WorseBy(seq', x, y) <=> Worse(x, y)
  BY ZenonT(30), <1>5 DEF Worse, WorseBy
<1>7. UNCHANGED Failed
  BY <1>2 DEF Failed
<1>8. \A x \in linked : Usable(x) => x \notin Failed /\ (~Connectable(b) => x # b)
  BY ZenonT(30), <1>3, AncestorsType DEF Usable, Connectable
<1>9. tip \in linked /\ tip \notin Failed /\ (~Connectable(b) => tip # b)
  BY <1>3, <1>8 DEF IndInv, ActiveChain
<1>10. TypeOK'
  <2>1. commands' \in 0..MaxCommands
    BY Zenon, CommandType DEF PreciousBlock
  <2>2. candidates' \subseteq linked
    BY ZenonT(30), <1>1, <1>3 DEF Connectable
  <2>3. unoffered' \subseteq index
    BY <1>1, <1>3
  <2>4. lastPrecious' \in Nat
    BY ZenonT(30), <1>1, <1>3, HeightUnfold
  <2>5. due' \in BOOLEAN
    BY <1>1
  <2> QED BY ZenonT(30), <1>2, <1>4, <1>5, <2>1, <2>2, <2>3, <2>4, <2>5 DEF IndInv, TypeOK
<1>11. Index' /\ Links' /\ Scripts' /\ Marks' /\ ActiveChain'
  BY ZenonT(30), <1>2, Frame DEF IndInv
<1>12. Sequence'
  <2>1. ASSUME NEW x \in Block \ linked PROVE seq'[x] <= 0
    <3>1. CASE x = b
      BY <1>4, <1>5, <3>1
    <3>2. CASE x # b
      BY ZenonT(30), <1>5, <2>1, <3>2 DEF IndInv, Sequence
    <3> QED BY <3>1, <3>2
  <2> QED BY <1>2, <1>4, <2>1 DEF Sequence
<1>13. Candidates'
  <2>1. ASSUME NEW c \in candidates' PROVE ~WorseBy(seq', c, tip)
    <3>1. CASE Connectable(b)
      BY <1>1, <2>1, <3>1
    <3>2. CASE ~Connectable(b)
      <4>1. c \in candidates /\ c # b /\ tip # b /\ c \in Block
        BY <1>1, <1>3, <1>9, <2>1, <3>2
      <4>2. ~Worse(c, tip)
        BY <4>1 DEF IndInv, Candidates
      <4> QED BY ZenonT(30), <1>3, <1>6, <4>1, <4>2
    <3> QED BY ZenonT(30), <3>1, <3>2
  <2> QED BY <1>2, <2>1 DEF Candidates, Worse
<1>14. Working'
  <2> SUFFICES ASSUME pc \in {"again", "find", "connect"}, mostWork # Null
               PROVE  mostWork \in candidates'
    BY Zenon, <1>2, <1>7 DEF IndInv, Working, Usable
  <2>1. pc = "again" /\ mostWork \in candidates /\ Usable(mostWork) /\ tip \in Ancestors[mostWork]
    BY ZenonT(30), <1>1 DEF IndInv, Working, Unlocked
  <2>2. mostWork \in Block
    BY Zenon, <1>3, <2>1
  <2>3. ~WorseBy(seq', mostWork, tip)
    BY ZenonT(30), <1>5, <2>1, <2>2, AncestorNotBetter
  <2>4. ~Connectable(b) => mostWork # b
    BY <1>3, <1>8, <2>1
  <2> QED BY ZenonT(30), <1>1, <2>1, <2>3, <2>4
<1>15. Held'
  BY ZenonT(30), <1>1, <1>2 DEF IndInv, Held, Unlocked, Chain
<1>16. Offered'
  <2> SUFFICES ASSUME pc # "inv", unoffered' = {},
                      NEW c \in linked \ Failed, ~WorseBy(seq', c, tip), c \notin candidates'
               PROVE  \E r \in scripts \cap candidates' : Usable(r) /\ ~WorseBy(seq', r, c)
    BY ZenonT(30), <1>2, <1>7 DEF Offered, Covered, Worse, Usable
  <2>1. unoffered = {} /\ ~(Worse(c, b) /\ WorseBy(seq', b, c)) /\ c \in Block
    BY Zenon, <1>1, <1>3
  <2>2. c # b /\ c \notin candidates
    <3>1. CASE Connectable(b)
      BY ZenonT(30), <1>1, <3>1
    <3>2. CASE ~Connectable(b)
      BY <1>1, <1>3, <3>2 DEF Connectable
    <3> QED BY Zenon, <3>1, <3>2
  <2>3. ~Worse(c, tip)
    <3>1. CASE tip # b
      BY <1>3, <1>6, <2>1, <2>2, <3>1
    <3>2. CASE tip = b
      <4>1. WorseBy(seq', b, c)
        BY ZenonT(30), <1>3, <1>5, <2>1, <2>2, <3>2, WorseOrder
      <4> QED BY Zenon, <2>1, <3>2, <4>1
    <3> QED BY ZenonT(30), <3>1, <3>2
  <2>4. PICK r \in scripts \cap candidates : Usable(r) /\ ~Worse(r, c)
    BY <2>1, <2>2, <2>3 DEF IndInv, Offered, Covered
  <2>5. r \in Block /\ r \in linked
    BY <1>3
  <2>6. ~WorseBy(seq', r, c)
    <3>1. CASE r # b
      BY <1>6, <2>1, <2>2, <2>4, <2>5, <3>1
    <3>2. CASE r = b
      <4>1. Worse(c, b)
        BY ZenonT(30), <1>3, <2>1, <2>2, <2>4, <3>2, WorseOrder DEF Worse
      <4> QED BY Zenon, <2>1, <3>2, <4>1
    <3> QED BY ZenonT(30), <3>1, <3>2
  <2>7. ~WorseBy(seq', r, tip)
    BY ZenonT(30), <1>3, <1>5, <2>1, <2>5, <2>6, WorseOrder
  <2>8. r \in candidates'
    BY ZenonT(30), <1>1, <1>8, <2>4, <2>5, <2>7
  <2> QED BY <2>4, <2>6, <2>8
<1> QED BY ZenonT(30), <1>10, <1>11, <1>12, <1>13, <1>14, <1>15, <1>16 DEF IndInv

LEMMA RestartInv ==
    ASSUME IndInv, Restart
    PROVE  IndInv'
<1>0. /\ seq' = [b \in Block |-> 0]
      /\ nextSeq' = 1 /\ reverseSeq' = -1 /\ lastPrecious' = 0
      /\ restarts < MaxRestarts /\ restarts' = restarts + 1
  BY Zenon DEF Restart
<1>1. /\ failedChild' = failedChild \cup {b \in index \ Failed : Ancestors[b] \cap Failed # {}}
      /\ failedBlocks' = {}
      /\ linked' = {b \in data : Ancestors[b] \subseteq data}
      /\ unlinked' = data \ linked'
      /\ candidates' = {c \in linked' \ (failedValid \cup failedChild') : ~WorseBy(seq', c, tip)}
      /\ pc' = "idle" /\ due' = TRUE /\ fStall' = FALSE
      /\ unqueued' = {} /\ unoffered' = {} /\ leftOut' = {}
      /\ mostWork' = Null /\ target' = Null /\ toMark' = Null /\ byWork' = {}
  BY Zenon DEF Restart, PruneBlockIndexCandidates
<1>2. UNCHANGED <<index, data, scripts, failedValid, tip, unripe, startTip, stepTip,
                  unjustified, commands>>
  BY ZenonT(30) DEF Restart
<1>3. /\ linked \subseteq data /\ data \subseteq index /\ index \subseteq Block /\ tip \in Block
      /\ scripts \subseteq linked /\ Failed \subseteq index
  BY DEF IndInv, TypeOK, Failed
<1>4. linked \subseteq linked'
  BY Zenon, <1>1, <1>3 DEF IndInv, Links
<1>5. Failed' = Failed \cup {b \in index \ Failed : Ancestors[b] \cap Failed # {}}
  BY Zenon, <1>1, <1>2 DEF Failed
<1>6. TypeOK'
  <2>1. seq' \in [Block -> Int] /\ nextSeq' \in Nat /\ reverseSeq' \in Int /\ lastPrecious' \in Nat
    BY <1>0
  <2>2. restarts' \in 0..MaxRestarts
    <3>1. restarts \in 0..MaxRestarts
      BY DEF IndInv, TypeOK
    <3> QED BY <1>0, <3>1, ChainAssumption
  <2>3. linked' \subseteq data' /\ unlinked' \subseteq data' /\ scripts' \subseteq linked'
        /\ candidates' \subseteq linked' /\ failedChild' \subseteq index'
    BY ZenonT(30), <1>1, <1>2, <1>3, <1>4 DEF IndInv, TypeOK
  <2>4. due' \in BOOLEAN /\ fStall' \in BOOLEAN
    <3>1. due' = TRUE /\ fStall' = FALSE
      BY Zenon DEF Restart
    <3> QED BY <3>1
  <2> QED BY ZenonT(30), <1>1, <1>2, <2>1, <2>2, <2>3, <2>4 DEF IndInv, TypeOK
<1>7. Index' /\ Scripts'
  BY Zenon, <1>2, Frame DEF IndInv
<1>8. Links'
  <2>1. \A b \in linked' : Ancestors[b] \subseteq linked'
    BY Zenon, <1>1, <1>3, AncestorsTrans
  <2>2. LinksExact'
    BY Zenon, <1>1, <1>2 DEF LinksExact
  <2> QED BY Zenon, <1>1, <1>2, <2>1, <2>2 DEF IndInv, Links
<1>9. Sequence' /\ Candidates'
  <2>1. Sequence'
    BY <1>0 DEF Sequence
  <2>2. \A c \in candidates' : ~WorseBy(seq', c, tip')
    BY Zenon, <1>1, <1>2
  <2> QED BY <2>1, <2>2 DEF Candidates, Worse
<1>10. Marks'
  <2>1. ASSUME NEW d \in Failed PROVE InvalidAbove(d) \/ Ancestors[d] \cap unjustified # {}
    BY Zenon DEF IndInv, Marks
  <2>2. ASSUME NEW d \in Failed' PROVE InvalidAbove(d) \/ Ancestors[d] \cap unjustified # {}
    <3>1. CASE d \in Failed
      BY Zenon, <2>1, <3>1
    <3>2. CASE d \notin Failed
      <4>1. PICK f \in Failed : f \in Ancestors[d]
        BY ZenonT(30), <1>5, <2>2, <3>2
      <4>2. Ancestors[f] \subseteq Ancestors[d]
        BY <1>3, <1>5, <2>2, <3>2, <4>1, AncestorsTrans
      <4> QED BY ZenonT(30), <2>1, <4>1, <4>2 DEF InvalidAbove
    <3> QED BY Zenon, <3>1, <3>2
  <2>3. failedBlocks' \subseteq failedValid'
    BY ZenonT(30), <1>1
  <2>4. ASSUME NEW d \in Failed' PROVE InvalidAbove(d)' \/ Ancestors[d] \cap unjustified' # {}
    BY Zenon, <1>2, <2>2, <2>4 DEF InvalidAbove
  <2> QED BY Zenon, <2>3, <2>4 DEF Marks
<1>11. ActiveChain'
  <2>1. tip \in scripts /\ Ancestors[tip] \cap Failed = {}
    BY DEF IndInv, ActiveChain, Usable
  <2>2. \A d \in Failed' \ Failed : \E x \in Failed : x \in Ancestors[d]
    BY ZenonT(30), <1>5
  <2>3. Ancestors[tip] \cap Failed' = {}
    BY <1>3, <2>1, <2>2, MarkAbove
  <2> QED BY ZenonT(30), <1>2, <2>1, <2>3 DEF ActiveChain, Usable
<1>12. Working' /\ Held'
  BY Zenon, <1>1 DEF Working, Held
<1>13. Offered'
  <2> SUFFICES ASSUME NEW b \in linked' \ Failed', ~WorseBy(seq', b, tip)
               PROVE  b \in candidates'
    BY ZenonT(30), <1>2 DEF Offered, Covered, Worse
  <2> QED BY ZenonT(30), <1>1, <1>2 DEF Failed
<1> QED BY <1>6, <1>7, <1>8, <1>9, <1>10, <1>11, <1>12, <1>13 DEF IndInv
-----------------------------------------------------------------------------
LEMMA NextInv ==
    ASSUME IndInv, [Next]_vars
    PROVE  IndInv'
<1>1. ASSUME NEW b \in Block, AcceptHeader(b) PROVE IndInv'
  BY <1>1, AcceptHeaderInv
<1>2. ASSUME NEW b \in Block, RejectHeader(b) PROVE IndInv'
  BY <1>2, RejectHeaderInv
<1>3. ASSUME NEW b \in Block, RejectBlock(b) PROVE IndInv'
  BY <1>3, RejectBlockInv
<1>4. ASSUME NEW b \in Block, AcceptBlock(b) PROVE IndInv'
  BY <1>4, AcceptBlockInv
<1>5. ASSUME NEW b \in Block, InvStart(b) PROVE IndInv'
  BY <1>5, InvStartInv
<1>6. ASSUME NEW b \in Block, Reconsider(b) PROVE IndInv'
  BY <1>6, ReconsiderInv
<1>7. ASSUME NEW b \in Block, PreciousBlock(b) PROVE IndInv'
  BY <1>7, PreciousBlockInv
<1>8. CASE AbcEnter
  BY <1>8, AbcEnterInv
<1>9. CASE AbcDiscard
  BY ZenonT(30), <1>9, AbcDiscardInv
<1>10. CASE AbcDisconnect
  BY <1>10, AbcDisconnectInv
<1>11. CASE AbcStall
  BY <1>11, AbcStallInv
<1>12. CASE AbcInvalid
  BY <1>12, AbcInvalidInv
<1>13. CASE AbcConnect
  BY <1>13, AbcConnectInv
<1>14. CASE InvDisconnect
  BY <1>14, InvDisconnectInv
<1>15. CASE InvFinish
  BY <1>15, InvFinishInv
<1>16. CASE Restart
  BY <1>16, RestartInv
<1>17. CASE Ripen
  BY <1>17, RipenInv
<1>18. CASE UNCHANGED vars
  <2>1. UNCHANGED <<index, data, linked, scripts, failedValid, failedChild, failedBlocks, unlinked,
                    seq, nextSeq, reverseSeq, lastPrecious, candidates, tip, unripe, pc,
                    mostWork, startTip, stepTip, due, fStall, target, toMark, byWork,
                    commands, restarts, unqueued, unoffered, unjustified, leftOut>>
    BY <1>18 DEF vars, status, order, activation, calls, invalidation, gaps
  <2>2. TypeOK'
    BY Zenon, <2>1 DEF IndInv, TypeOK
  <2>3. /\ Index' /\ Links' /\ Scripts' /\ Sequence' /\ Candidates'
        /\ Marks' /\ ActiveChain' /\ Working' /\ Held' /\ Offered'
    BY ZenonT(30), <2>1, Frame DEF IndInv
  <2> QED BY ZenonT(30), <2>2, <2>3 DEF IndInv
<1> QED BY <1>1, <1>2, <1>3, <1>4, <1>5, <1>6, <1>7, <1>8, <1>9, <1>10, <1>11, <1>12, <1>13,
           <1>14, <1>15, <1>16, <1>17, <1>18 DEF Next

(* The steps that release cs_main.  ActivateBestChain gives up because      *)
(* pindexMostWork is the tip, or there is none, or the next block stalls,   *)
(* or a step of it ended on a tip that is no worse.                         *)
LEMMA ReleaseStep ==
    ASSUME IndInv, Next, ~Unlocked, Unlocked', unoffered = {}
    PROVE  ~Worse(tip', startTip) \/ NextToConnect \in unripe
<1>1. /\ index \subseteq Block /\ linked \subseteq index /\ scripts \subseteq linked
      /\ candidates \subseteq linked /\ tip \in Block /\ seq \in [Block -> Int]
      /\ pc \in {"find", "connect"}
  BY Zenon DEF IndInv, TypeOK, Unlocked
<1>2. startTip \in scripts /\ Usable(startTip) /\ startTip \in Block
  BY <1>1 DEF IndInv, Held
<1>3. CASE AbcDisconnect
  <2>1. /\ tip' = tip /\ mostWork' \in {tip, Null}
        /\ \/ mostWork # Null /\ mostWork' = mostWork
           \/ mostWork = Null /\ candidates = {}
           \/ mostWork = Null /\ candidates # {} /\ mostWork' = BestCandidate
    BY ZenonT(30), <1>3 DEF AbcDisconnect, Unlocked
  <2>2. CASE mostWork # Null
    BY <1>1, <2>1, <2>2 DEF IndInv, Held
  <2>3. CASE mostWork = Null /\ candidates = {}
    <3>1. startTip \in linked \ Failed
      BY Zenon, <1>1, <1>2, AncestorsType DEF Usable
    <3>2. ~Covered(startTip)
      BY <2>3 DEF Covered
    <3>3. Worse(startTip, tip)
      BY <1>1, <3>1, <3>2 DEF IndInv, Offered
    <3> QED BY ZenonT(30), <1>1, <1>2, <2>1, <3>3, WorseOrder DEF Worse
  <2>4. CASE mostWork = Null /\ candidates # {} /\ mostWork' = BestCandidate
    <3>1. BestCandidate \in Block /\ \A d \in candidates : ~Worse(BestCandidate, d)
      BY <2>4, BestCandidateSound
    <3>2. BestCandidate = tip
      BY <2>1, <2>4, <3>1, ChainAssumption
    <3>3. CASE Worse(startTip, tip)
      BY ZenonT(30), <1>1, <1>2, <2>1, <3>3, WorseOrder DEF Worse
    <3>4. CASE ~Worse(startTip, tip)
      <4>1. startTip \in linked \ Failed
        BY Zenon, <1>1, <1>2, AncestorsType DEF Usable
      <4>2. Covered(startTip)
        BY <1>1, <3>4, <4>1 DEF IndInv, Offered
      <4>3. PICK r \in candidates : r = startTip \/ ~Worse(r, startTip)
        BY <4>2 DEF Covered
      <4>4. r \in Block /\ ~Worse(tip, r)
        BY <1>1, <3>1, <3>2
      <4> QED BY ZenonT(30), <1>1, <1>2, <2>1, <4>3, <4>4, WorseOrder DEF Worse
    <3> QED BY <3>3, <3>4
  <2> QED BY Zenon, <2>1, <2>2, <2>3, <2>4
<1>4. CASE AbcStall
  BY Zenon, <1>4 DEF AbcStall
<1>5. CASE AbcInvalid
  BY ZenonT(30), <1>5 DEF AbcInvalid, AfterStep, Unlocked
<1>6. CASE AbcConnect
  BY <1>1, <1>6 DEF AbcConnect, AfterStep, Unlocked
<1>7. ~AbcEnter /\ ~InvDisconnect /\ ~InvFinish /\ ~Restart /\ ~AbcDiscard /\ ~Ripen
  BY Zenon, <1>1 DEF AbcEnter, InvDisconnect, InvFinish, Restart, AbcDiscard, Ripen, Unlocked
<1>8. \A b \in Block : /\ ~AcceptHeader(b) /\ ~RejectHeader(b) /\ ~RejectBlock(b) /\ ~AcceptBlock(b)
                       /\ ~InvStart(b) /\ ~Reconsider(b) /\ ~PreciousBlock(b)
  BY Zenon, <1>1 DEF AcceptHeader, RejectHeader, RejectBlock, AcceptBlock, InvStart, Reconsider,
              PreciousBlock, Unlocked
<1> QED BY Zenon, <1>3, <1>4, <1>5, <1>6, <1>7, <1>8 DEF Next
-----------------------------------------------------------------------------
(* The candidates are complete.  While ActivateBestChain holds cs_main the  *)
(* blocks between the tip and the one it started from may be missing.       *)

Offers(b) == b \in candidates \cup unoffered \cup leftOut

Complete ==
    /\ pc = "find" => ~Worse(startTip, tip)
    /\ pc # "inv" => \A b \in linked \ Failed :
           ~Worse(b, tip) => Offers(b) \/ (pc \in {"find", "connect"} /\ Worse(b, startTip))

LEMMA CompleteInit == Init => Complete
<1> SUFFICES ASSUME Init PROVE Complete
  OBVIOUS
<1>1. pc = "idle" /\ linked = {Genesis} /\ candidates = {Genesis}
  BY Zenon DEF Init
<1> QED BY <1>1 DEF Complete, Offers

(* Steps that move neither the tip nor the order, and drop no usable block. *)
LEMMA CompleteKept ==
    ASSUME Complete, UNCHANGED <<pc, startTip, tip, seq>>,
           \A b \in linked' \ Failed' : ~Worse(b, tip) => Offers(b)' \/ (b \in linked \ Failed /\ ~Offers(b))
    PROVE  Complete'
<1>1. pc' = "find" => ~Worse(startTip, tip)'
  BY Zenon DEF Complete, Worse
<1>2. ASSUME pc' # "inv", NEW b \in linked' \ Failed', ~Worse(b, tip)'
      PROVE  Offers(b)' \/ (pc' \in {"find", "connect"} /\ Worse(b, startTip)')
  <2>1. ~Worse(b, tip)
    BY Zenon, <1>2 DEF Worse
  <2>2. CASE Offers(b)'
    BY <2>2
  <2>3. CASE b \in linked \ Failed /\ ~Offers(b)
    <3>1. pc \in {"find", "connect"} /\ Worse(b, startTip)
      BY Zenon, <1>2, <2>1, <2>3 DEF Complete
    <3> QED BY Zenon, <3>1 DEF Worse
  <2> QED BY Zenon, <2>1, <2>2, <2>3
<1> QED BY <1>1, <1>2 DEF Complete

LEMMA CompleteAccept ==
    ASSUME IndInv, Complete, NEW b \in Block, AcceptBlock(b)
    PROVE  Complete'
<1>1. /\ UNCHANGED <<failedValid, failedChild, tip, pc, startTip, unoffered, leftOut>>
      /\ pc \notin {"find", "connect"} /\ b \notin data
  BY Zenon DEF AcceptBlock, activation, Unlocked
<1>2. Failed' = Failed
  BY <1>1 DEF Failed
<1>3. CASE ParentLinked(b)
  <2> DEFINE new == NewlyLinked(b)
  <2>1. PICK place \in QueueOrders(new) :
            /\ linked' = linked \cup new
            /\ seq' = [d \in Block |-> IF d \in new THEN nextSeq + place[d] - 1 ELSE seq[d]]
            /\ candidates' = candidates \cup {d \in new : ~WorseBy(seq', d, tip)}
    BY Zenon, <1>3 DEF AcceptBlock
  <2>2. b # Genesis
    BY Zenon, <1>1, GenesisLinked DEF IndInv, TypeOK
  <2>3. new \cap linked = {} /\ linked \subseteq Block /\ tip \in linked
    BY Zenon, <1>1, <1>3, <2>2, NewlyLinkedSound DEF IndInv, TypeOK, ActiveChain
  <2> HIDE DEF new
  <2>4. \A c \in linked : seq'[c] = seq[c]
    BY <2>1, <2>3
  <2>5. \A c \in linked : WorseBy(seq', c, tip) <=> Worse(c, tip)
    BY ZenonT(30), <2>3, <2>4 DEF Worse, WorseBy
  <2>6. ASSUME pc' # "inv", NEW c \in linked' \ Failed', ~Worse(c, tip)'
        PROVE  Offers(c)'
    <3>1. ~WorseBy(seq', c, tip)
      BY Zenon, <1>1, <2>6 DEF Worse
    <3>2. CASE c \in new
      BY Zenon, <2>1, <3>1, <3>2 DEF Offers
    <3>3. CASE c \in linked
      <4>1. Offers(c)
        BY Zenon, <1>1, <1>2, <2>5, <2>6, <3>1, <3>3 DEF Complete
      <4> QED BY <1>1, <2>1, <4>1 DEF Offers
    <3> QED BY <2>1, <2>6, <3>2, <3>3
  <2> QED BY Zenon, <1>1, <2>6 DEF Complete
<1>4. CASE ~ParentLinked(b)
  <2>1. UNCHANGED <<linked, seq, candidates>>
    BY Zenon, <1>4 DEF AcceptBlock
  <2>2. \A c : Offers(c)' <=> Offers(c)
    BY Zenon, <1>1, <2>1 DEF Offers
  <2> QED BY Zenon, <1>1, <1>2, <2>1, <2>2, CompleteKept
<1> QED BY <1>3, <1>4

(* The block order, for the steps of ActivateBestChain. *)
LEMMA BetweenTips ==
    ASSUME IndInv, NEW b \in Block, NEW c \in Block, NEW d \in Block
    PROVE  /\ Worse(b, d) => ~Worse(d, b)
           /\ ~Worse(b, c) /\ ~Worse(c, d) => ~Worse(b, d)
<1>1. seq \in [Block -> Int]
  BY Zenon DEF IndInv, TypeOK
<1> QED BY Zenon, <1>1, WorseOrder DEF Worse

LEMMA CompleteDisconnect ==
    ASSUME IndInv, Complete, AbcDisconnect
    PROVE  Complete'
<1>1. /\ pc = "find"
      /\ UNCHANGED <<linked, failedValid, failedChild, seq, candidates, startTip, unoffered>>
  BY Zenon DEF AbcDisconnect, status, order
<1>2. Failed' = Failed
  BY <1>1 DEF Failed
<1>3. linked \subseteq Block /\ tip \in Block /\ startTip \in Block
  BY Zenon DEF IndInv, TypeOK
<1>4. CASE mostWork' \in {tip, Null}
  <2>1. pc' = "idle" /\ tip' = tip /\ leftOut' = leftOut \cup NewlyLeftOut
    BY Zenon, <1>4 DEF AbcDisconnect
  <2>2. ASSUME NEW b \in linked \ Failed, ~Worse(b, tip) PROVE Offers(b)'
    <3>1. Offers(b) \/ Worse(b, startTip)
      BY Zenon, <1>1, <2>2 DEF Complete
    <3>2. CASE Offers(b)
      BY <1>1, <2>1, <3>2 DEF Offers
    <3>3. CASE Worse(b, startTip)
      BY <1>1, <2>1, <2>2, <3>3 DEF Offers, NewlyLeftOut
    <3> QED BY <3>1, <3>2, <3>3
  <2> QED BY Zenon, <1>1, <1>2, <2>1, <2>2 DEF Complete, Worse
<1>5. CASE mostWork' \notin {tip, Null}
  <2>1. pc' = "connect" /\ leftOut' = leftOut
    BY Zenon, <1>5 DEF AbcDisconnect
  <2>2. ASSUME NEW b \in linked \ Failed PROVE Offers(b)' \/ Worse(b, startTip)
    <3>1. ~Worse(startTip, tip)
      BY Zenon, <1>1 DEF Complete
    <3>2. CASE ~Worse(b, tip)
      <4>1. Offers(b) \/ Worse(b, startTip)
        BY Zenon, <1>1, <3>2 DEF Complete
      <4> QED BY <1>1, <2>1, <4>1 DEF Offers
    <3>3. CASE Worse(b, tip)
      <4>1. b \in Block
        BY <1>3
      <4>2. ~Worse(tip, b)
        BY Zenon, <1>3, <3>3, <4>1, BetweenTips
      <4>3. ~Worse(startTip, b)
        BY Zenon, <1>3, <3>1, <4>1, <4>2, BetweenTips
      <4>4. b # startTip
        BY <3>1, <3>3
      <4>5. seq \in [Block -> Int]
        BY Zenon DEF IndInv, TypeOK
      <4> QED BY Zenon, <1>3, <4>1, <4>3, <4>4, <4>5, WorseOrder DEF Worse
    <3> QED BY <3>2, <3>3
  <2>3. \A b : Worse(b, startTip)' <=> Worse(b, startTip)
    BY Zenon, <1>1 DEF Worse
  <2> QED BY Zenon, <1>1, <1>2, <2>1, <2>2, <2>3 DEF Complete
<1> QED BY <1>4, <1>5

LEMMA CompleteStall ==
    ASSUME Complete, AbcStall
    PROVE  Complete'
<1>1. /\ pc = "connect" /\ pc' = "idle" /\ leftOut' = leftOut \cup NewlyLeftOut
      /\ UNCHANGED <<linked, failedValid, failedChild, seq, tip, candidates, startTip, unoffered>>
  BY Zenon DEF AbcStall, status, order, activation
<1>2. Failed' = Failed
  BY <1>1 DEF Failed
<1>3. ASSUME NEW b \in linked \ Failed, ~Worse(b, tip) PROVE Offers(b)'
  <2>1. Offers(b) \/ Worse(b, startTip)
    BY Zenon, <1>1, <1>3 DEF Complete
  <2>2. CASE Offers(b)
    BY <1>1, <2>2 DEF Offers
  <2>3. CASE Worse(b, startTip)
    BY <1>1, <1>3, <2>3 DEF Offers, NewlyLeftOut
  <2> QED BY <2>1, <2>2, <2>3
<1> QED BY Zenon, <1>1, <1>2, <1>3 DEF Complete, Worse

(* The end of a step on tip n: what was only due to the tip at the start is *)
(* no issue once n is no worse than that.                                   *)
LEMMA CompleteAfterStep ==
    ASSUME IndInv, NEW n \in Block, NEW w, AfterStep(n, w), tip' = n,
           UNCHANGED <<linked, seq, startTip>>,
           \A b \in linked \ Failed' : ~Worse(b, n) => Offers(b)' \/ Worse(b, startTip)
    PROVE  Complete'
<1>1. linked \subseteq Block /\ startTip \in Block
  BY Zenon DEF IndInv, TypeOK
<1>2. CASE Worse(n, startTip)
  <2>1. pc' = "find" /\ ~Worse(startTip, n)
    BY Zenon, <1>1, <1>2, BetweenTips DEF AfterStep
  <2> QED BY Zenon, <2>1 DEF Complete, Worse
<1>3. CASE ~Worse(n, startTip)
  <2>1. pc' \in {"again", "idle"}
    BY Zenon, <1>3 DEF AfterStep
  <2>2. ASSUME NEW b \in linked \ Failed', ~Worse(b, n) PROVE Offers(b)'
    <3>1. ~Worse(b, startTip)
      BY Zenon, <1>1, <1>3, <2>2, BetweenTips
    <3> QED BY Zenon, <2>2, <3>1
  <2> QED BY Zenon, <2>1, <2>2 DEF Complete, Worse
<1> QED BY <1>2, <1>3

LEMMA CompleteInvalid ==
    ASSUME IndInv, Complete, AbcInvalid
    PROVE  Complete'
<1> DEFINE n == NextToConnect
<1>1. /\ pc = "connect" /\ failedValid' = failedValid \cup {n} /\ candidates' = candidates \ {n}
      /\ AfterStep(tip, Null)
      /\ UNCHANGED <<linked, failedChild, seq, tip, startTip, unoffered, leftOut>>
  BY Zenon DEF AbcInvalid, order, gaps
<1> HIDE DEF n
<1>2. Failed' = Failed \cup {n}
  BY <1>1 DEF Failed
<1>3. ASSUME NEW b \in linked \ Failed', ~Worse(b, tip) PROVE Offers(b)' \/ Worse(b, startTip)
  <2>1. b \in linked \ Failed /\ b # n
    BY <1>2
  <2>2. Offers(b) \/ Worse(b, startTip)
    BY Zenon, <1>1, <1>3, <2>1 DEF Complete
  <2> QED BY <1>1, <2>1, <2>2 DEF Offers
<1>4. tip \in Block
  BY Zenon DEF IndInv, TypeOK
<1> QED BY Zenon, <1>1, <1>3, <1>4, CompleteAfterStep

LEMMA CompleteConnect ==
    ASSUME IndInv, Complete, AbcConnect
    PROVE  Complete'
<1> DEFINE n == NextToConnect
<1>1. /\ pc = "connect" /\ tip' = n
      /\ candidates' = {c \in candidates : ~Worse(c, n)}
      /\ AfterStep(n, mostWork) \/ pc' = pc
      /\ UNCHANGED <<linked, failedValid, failedChild, seq, startTip, unoffered, leftOut>>
  BY Zenon DEF AbcConnect, PruneBlockIndexCandidates, Worse, order, activation, gaps
<1>2. n \in Block /\ tip \in Ancestors[n]
  BY Zenon, <1>1, NextToConnectSound, AncestorsType DEF Chain, IndInv, TypeOK
<1> HIDE DEF n
<1>3. Failed' = Failed
  BY <1>1 DEF Failed
<1>4. linked \subseteq Block /\ tip \in Block /\ seq \in [Block -> Int]
  BY Zenon DEF IndInv, TypeOK
<1>5. ASSUME NEW b \in linked \ Failed', ~Worse(b, n) PROVE Offers(b)' \/ Worse(b, startTip)
  <2>1. ~Worse(n, tip)
    BY Zenon, <1>2, <1>4, AncestorNotBetter DEF Worse
  <2>2. ~Worse(b, tip)
    BY Zenon, <1>2, <1>4, <1>5, <2>1, BetweenTips
  <2>3. Offers(b) \/ Worse(b, startTip)
    BY Zenon, <1>1, <1>3, <2>2 DEF Complete
  <2> QED BY <1>1, <1>5, <2>3 DEF Offers
<1>6. CASE AfterStep(n, mostWork)
  BY Zenon, <1>1, <1>2, <1>5, <1>6, CompleteAfterStep
<1>7. CASE pc' = pc
  BY Zenon, <1>1, <1>5, <1>7 DEF Complete, Worse
<1> QED BY <1>1, <1>6, <1>7

LEMMA CompleteReconsider ==
    ASSUME IndInv, Complete, NEW b \in Block, Reconsider(b)
    PROVE  Complete'
<1> DEFINE desc == {d \in index \cap Failed : b \in Ancestors[d]}
           clear == desc \cup (Ancestors[b] \cap Failed)
<1>1. /\ failedValid' = failedValid \ clear /\ failedChild' = failedChild \ clear
      /\ candidates \subseteq candidates'
      /\ unoffered' = unoffered \cup {a \in clear \cap linked : Worse(tip, a) /\ a \notin candidates'}
      /\ UNCHANGED <<linked, seq, tip, pc, startTip, leftOut>>
  BY Zenon DEF Reconsider, order, activation
<1>2. Failed' = Failed \ clear
  BY Zenon, <1>1 DEF Failed
<1> HIDE DEF desc, clear
<1>3. linked \subseteq Block /\ tip \in Block /\ seq \in [Block -> Int]
  BY Zenon DEF IndInv, TypeOK
<1>4. ASSUME NEW c \in linked' \ Failed', ~Worse(c, tip)
      PROVE  Offers(c)' \/ (c \in linked \ Failed /\ ~Offers(c))
  <2>1. CASE c \in Failed
    <3>1. c \in clear /\ c \in linked /\ c \in Block
      BY <1>1, <1>2, <1>3, <2>1
    <3>2. c # tip
      BY Zenon, <2>1, <3>1, AncestorsType DEF IndInv, ActiveChain, Usable
    <3>3. Worse(tip, c)
      BY Zenon, <1>3, <1>4, <3>1, <3>2, WorseOrder DEF Worse
    <3> QED BY <1>1, <3>1, <3>3 DEF Offers
  <2>2. CASE c \notin Failed /\ Offers(c)
    BY <1>1, <2>2 DEF Offers
  <2> QED BY <1>1, <2>1, <2>2
<1> QED BY Zenon, <1>1, <1>4, CompleteKept

LEMMA CompletePrecious ==
    ASSUME IndInv, Complete, NEW b \in Block, PreciousBlock(b)
    PROVE  Complete'
<1> DEFINE rev == IF Height[tip] > lastPrecious THEN -1 ELSE reverseSeq
<1>1. /\ seq' = [seq EXCEPT ![b] = rev]
      /\ candidates' = IF Connectable(b)
                       THEN {c \in candidates \cup {b} : ~WorseBy(seq', c, tip)}
                       ELSE candidates \ {b}
      /\ unoffered' = unoffered \cup
             {c \in linked \ candidates' : Worse(c, b) /\ WorseBy(seq', b, c)}
      /\ pc \notin {"find", "connect"}
      /\ UNCHANGED <<index, data, linked, failedValid, failedChild, tip, pc, leftOut>>
  BY Zenon DEF PreciousBlock, PruneBlockIndexCandidates, Unlocked, status
<1> HIDE DEF rev
<1>2. Failed' = Failed
  BY <1>1 DEF Failed
<1>3. /\ linked \subseteq Block /\ tip \in Block /\ linked \subseteq index /\ linked \subseteq data
      /\ seq \in [Block -> Int] /\ seq' \in [Block -> Int]
  <2>1. TypeOK'
    BY Zenon, PreciousBlockInv DEF IndInv
  <2> QED BY Zenon, <2>1 DEF IndInv, TypeOK
<1>4. \A x, y \in Block \ {b} : WorseBy(seq', x, y) <=> Worse(x, y)
  <2>1. \A x \in Block \ {b} : seq'[x] = seq[x]
    BY <1>1, <1>3
  <2> QED BY ZenonT(30), <2>1 DEF Worse, WorseBy
<1>5. ASSUME pc # "inv", NEW c \in linked \ Failed, ~WorseBy(seq', c, tip) PROVE Offers(c)'
  <2> SUFFICES ASSUME c \notin candidates' PROVE c \in unoffered' \cup leftOut'
    BY Zenon DEF Offers
  <2>1. c # b /\ c \notin candidates /\ c \in Block
    BY <1>1, <1>3, <1>5 DEF Connectable
  <2>2. CASE Worse(c, tip)
    <3>1. tip = b
      BY Zenon, <1>3, <1>4, <1>5, <2>1, <2>2
    <3>2. WorseBy(seq', b, c)
      BY Zenon, <1>3, <1>5, <2>1, <3>1, WorseOrder
    <3> QED BY <1>1, <2>2, <3>1, <3>2
  <2>3. CASE ~Worse(c, tip)
    <3>1. Offers(c)
      BY Zenon, <1>1, <1>5, <2>3 DEF Complete
    <3> QED BY <1>1, <2>1, <3>1 DEF Offers
  <2> QED BY <2>2, <2>3
<1> QED BY Zenon, <1>1, <1>2, <1>5 DEF Complete, Worse

LEMMA CompleteCollected ==
    ASSUME IndInv, InvFinish \/ Restart
    PROVE  Complete'
<1>1. CASE InvFinish
  <2>1. /\ pc' = "idle" /\ UNCHANGED <<linked, seq, tip, failedChild>>
        /\ failedValid' = failedValid \cup {toMark}
        /\ {c \in index \ {toMark} : Connectable(c) /\ ~Worse(c, tip)} \subseteq candidates'
    BY Zenon, <1>1 DEF InvFinish, order
  <2>2. Failed' = Failed \cup {toMark}
    BY <2>1 DEF Failed
  <2>3. ASSUME NEW c \in linked \ Failed', ~Worse(c, tip) PROVE c \in candidates'
    <3>1. c \in index /\ c \in data /\ c \notin Failed /\ c # toMark
      BY <2>2 DEF IndInv, TypeOK
    <3> QED BY Zenon, <2>1, <2>3, <3>1 DEF Connectable
  <2> QED BY Zenon, <2>1, <2>3 DEF Complete, Offers, Worse
<1>2. CASE Restart
  <2>1. /\ pc' = "idle" /\ UNCHANGED <<tip, failedValid>>
        /\ candidates' = {c \in linked' \ (failedValid \cup failedChild') : ~WorseBy(seq', c, tip)}
    BY Zenon, <1>2 DEF Restart, PruneBlockIndexCandidates
  <2>2. ASSUME NEW c \in linked' \ Failed', ~WorseBy(seq', c, tip) PROVE c \in candidates'
    BY Zenon, <2>1, <2>2 DEF Failed
  <2> QED BY Zenon, <2>1, <2>2 DEF Complete, Offers, Worse
<1> QED BY <1>1, <1>2

LEMMA CompleteNext ==
    ASSUME IndInv, Complete, [Next]_vars
    PROVE  Complete'
<1>1. ASSUME NEW b \in Block, AcceptHeader(b) \/ RejectHeader(b) \/ RejectBlock(b) PROVE Complete'
  <2>1. /\ UNCHANGED <<pc, startTip, tip, seq, linked, candidates, unoffered, leftOut>>
        /\ Failed \subseteq Failed'
    BY Zenon, <1>1 DEF AcceptHeader, RejectHeader, RejectBlock, order, activation, gaps, Failed
  <2> QED BY Zenon, <2>1, CompleteKept DEF Offers
<1>2. ASSUME NEW b \in Block, AcceptBlock(b) PROVE Complete'
  BY Zenon, <1>2, CompleteAccept
<1>3. ASSUME NEW b \in Block, InvStart(b) PROVE Complete'
  BY Zenon, <1>3 DEF InvStart, Complete
<1>4. ASSUME NEW b \in Block, Reconsider(b) PROVE Complete'
  BY Zenon, <1>4, CompleteReconsider
<1>5. ASSUME NEW b \in Block, PreciousBlock(b) PROVE Complete'
  BY Zenon, <1>5, CompletePrecious
<1>6. CASE AbcEnter
  <2>1. /\ pc \in {"idle", "again"} /\ pc' = "find" /\ startTip' = tip
        /\ UNCHANGED <<linked, failedValid, failedChild, tip, seq, candidates, unoffered, leftOut>>
    BY Zenon, <1>6 DEF AbcEnter, status, order, gaps
  <2>2. ~Worse(tip, tip)
    BY Zenon, WorseOrder DEF IndInv, TypeOK, Worse
  <2>3. Failed' = Failed
    BY <2>1 DEF Failed
  <2>4. pc \notin {"find", "connect", "inv"}
    BY <2>1
  <2> QED BY Zenon, <2>1, <2>2, <2>3, <2>4 DEF Complete, Offers, Worse
<1>7. CASE AbcDiscard
  <2>1. /\ UNCHANGED <<pc, startTip, tip, seq, linked, unoffered, leftOut, failedValid>>
        /\ failedChild \subseteq failedChild'
        /\ candidates \ candidates' \subseteq Failed'
    <3> DEFINE bad == Highest(FailedOnPath)
               above == (Ancestors[BestCandidate] \ Chain) \ Ancestors[bad]
    <3>1. /\ FailedOnPath # {} /\ candidates # {} /\ failedChild' = failedChild \cup above
          /\ candidates' = candidates \ (above \cup {bad})
      BY ZenonT(30), <1>7 DEF AbcDiscard
    <3>2. BestCandidate \in Block
      BY Zenon, <3>1, BestCandidateSound
    <3>3. FailedOnPath \subseteq Ancestors[BestCandidate] /\ FailedOnPath \in SUBSET Block
      BY <3>2, AncestorsType DEF FailedOnPath
    <3>4. bad \in Failed
      BY <3>1, <3>2, <3>3, HighestOnChain DEF FailedOnPath
    <3>5. UNCHANGED <<pc, startTip, tip, seq, linked, unoffered, leftOut, failedValid>>
      BY Zenon, <1>7 DEF AbcDiscard, order, activation, gaps
    <3> HIDE DEF bad, above
    <3> QED BY <3>1, <3>4, <3>5 DEF Failed
  <2>2. Failed \subseteq Failed'
    BY <2>1 DEF Failed
  <2>3. \A b \in linked' \ Failed' : Offers(b)' \/ (b \in linked \ Failed /\ ~Offers(b))
    BY <2>1, <2>2 DEF Offers
  <2> QED BY Zenon, <2>1, <2>3, CompleteKept
<1>8. CASE AbcDisconnect \/ AbcStall
  BY Zenon, <1>8, CompleteDisconnect, CompleteStall
<1>9. CASE AbcInvalid \/ AbcConnect
  BY Zenon, <1>9, CompleteInvalid, CompleteConnect
<1>10. CASE InvDisconnect
  BY Zenon, <1>10 DEF InvDisconnect, Complete
<1>11. CASE InvFinish \/ Restart
  BY Zenon, <1>11, CompleteCollected
<1>12. CASE Ripen \/ UNCHANGED vars
  <2>1. UNCHANGED <<pc, startTip, tip, seq, linked, candidates, unoffered, leftOut, failedValid, failedChild>>
    BY Zenon, <1>12 DEF Ripen, vars, status, order, activation, gaps
  <2> QED BY Zenon, <2>1, CompleteKept DEF Offers, Failed
<1> QED BY Zenon, <1>1, <1>2, <1>3, <1>4, <1>5, <1>6, <1>7, <1>8, <1>9, <1>10, <1>11, <1>12 DEF Next
-----------------------------------------------------------------------------
(* The inductive invariant holds in every state. *)
LEMMA Invariance == Spec => []IndInv
<1>1. IndInv /\ [Next]_vars => IndInv'
  BY NextInv
<1> QED BY <1>1, InitInv, PTL DEF Spec

(* The variables keep their types: candidates have all the data up to the   *)
(* genesis block, connected blocks are linked ones, and the tip is a block. *)
THEOREM ChainTypeCorrect == Spec => []TypeOK
<1>1. IndInv => TypeOK
  BY DEF IndInv
<1> QED BY <1>1, Invariance, PTL

(* Whenever cs_main is free, every block of the active chain had its        *)
(* scripts checked and none is marked as failed, for every block tree and   *)
(* any interleaving of ActivateBestChain with blocks, commands, restarts.   *)
THEOREM ActiveChainValid == Spec => []ChainValid
BY IndInvImplies, Invariance, PTL

(* Links, validity, sequence numbers, marks and candidates agree after      *)
(* every critical section, but for data that was never queued and for marks *)
(* that ResetBlockFailureFlags left on a branch of another block.           *)
THEOREM BlockIndexConsistent == Spec => []FlagsConsistent
BY IndInvImplies, Invariance, PTL

(* Outside InvalidateBlock setBlockIndexCandidates holds every usable block *)
(* that is as good as the tip, and the tip, but for those that a command    *)
(* did not offer or that a stalled call of ActivateBestChain left out.      *)
THEOREM CandidatesAlwaysComplete == Spec => []CandidatesComplete
<1>1. IndInv /\ Complete /\ [Next]_vars => Complete'
  BY CompleteNext
<1>2. Init => Complete
  BY CompleteInit
<1>3. Complete => CandidatesComplete
  BY Zenon DEF Complete, CandidatesComplete, Unlocked, Offers
<1> QED BY <1>1, <1>2, <1>3, Invariance, PTL DEF Spec

(* setBlockIndexCandidates never loses the last usable block that is better *)
(* than the tip, unless a command did not offer one.                        *)
THEOREM NoBlockForgotten == Spec => []NothingForgotten
BY IndInvImplies, Invariance, PTL

(* The comment "may not unlock cs_main until we've made forward progress"   *)
(* in ActivateBestChain: a release of cs_main leaves no worse a tip, unless *)
(* it stalls on a peg-in or a command left a better block unoffered.        *)
THEOREM ForwardProgress == Spec => ProgressUnlessStalled
<1>1. IndInv /\ [Next]_vars =>
          [(~Unlocked /\ Unlocked' /\ unoffered = {}) =>
               ~Worse(tip', startTip) \/ NextToConnect \in unripe]_vars
  BY ReleaseStep
<1> QED BY <1>1, Invariance, PTL DEF Spec, ProgressUnlessStalled
=============================================================================
