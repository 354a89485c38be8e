-------------------------- MODULE BlockTreeProofs --------------------------
(***************************************************************************)
(* Facts about every block tree.  Height and Ancestors are recursive       *)
(* functions; that a function with their defining equation exists is shown *)
(* first, from a definition without recursion, and nothing later looks     *)
(* behind the two equations.  Induction over the tree is the well-         *)
(* foundedness that TreeAssumption states.                                 *)
(***************************************************************************)
EXTENDS BlockTree, TLAPS

(* Induction over the tree: what holds of the genesis block and of every    *)
(* block whose parent it holds of, holds of every block.                    *)
LEMMA TreeInduction ==
    ASSUME NEW S, Genesis \in S,
           \A b \in Block \ {Genesis} : Parent[b] \in S => b \in S
    PROVE  Block \subseteq S
<1> SUFFICES ASSUME Block \ S # {} PROVE FALSE
  OBVIOUS
<1>1. PICK b \in Block \ S : b = Genesis \/ Parent[b] \notin Block \ S
  BY TreeAssumption
<1> QED BY <1>1, TreeAssumption
-----------------------------------------------------------------------------
(* The two functions exist. *)

Closed(S) == S \subseteq Block /\ \A c \in S \ {Genesis} : Parent[c] \in S

Anc(b) == {a \in Block : \A S \in SUBSET Block : Closed(S) /\ b \in S => a \in S}

LEMMA AncUnfold ==
    \A b \in Block : Anc(b) = {b} \cup (IF b = Genesis THEN {} ELSE Anc(Parent[b]))
<1> TAKE b \in Block
<1>0. Genesis \in Block
  BY DEF Block
<1>1. CASE b = Genesis
  <2>1. Closed({Genesis})
    BY <1>0 DEF Closed
  <2>2. {Genesis} \in SUBSET Block
    BY <1>0
  <2> QED BY <1>0, <1>1, <2>1, <2>2 DEF Anc
<1>2. CASE b # Genesis
  <2>1. ASSUME NEW a \in Anc(b), a # b PROVE a \in Anc(Parent[b])
    <3> SUFFICES ASSUME NEW S \in SUBSET Block, Closed(S), Parent[b] \in S
                 PROVE  a \in S
      BY DEF Anc
    <3>1. Closed(S \cup {b})
      BY DEF Closed
    <3>2. S \cup {b} \in SUBSET Block
      OBVIOUS
    <3> QED BY <2>1, <3>1, <3>2 DEF Anc
  <2>2. ASSUME NEW a \in Anc(Parent[b]) PROVE a \in Anc(b)
    BY <1>2 DEF Anc, Closed
  <2>3. b \in Anc(b)
    BY DEF Anc
  <2>4. Anc(b) \subseteq {b} \cup Anc(Parent[b])
    BY <2>1
  <2>5. Anc(Parent[b]) \subseteq Anc(b)
    BY <2>2
  <2> QED BY <1>2, <2>3, <2>4, <2>5
<1> QED BY <1>1, <1>2

LEMMA AncestorsDef ==
    Ancestors = [b \in Block |-> {b} \cup (IF b = Genesis THEN {} ELSE Ancestors[Parent[b]])]
<1> DEFINE Def(f) == [b \in Block |-> {b} \cup (IF b = Genesis THEN {} ELSE f[Parent[b]])]
           g == [b \in Block |-> Anc(b)]
<1>1. \A b \in Block : g[b] = {b} \cup (IF b = Genesis THEN {} ELSE g[Parent[b]])
  BY AncUnfold, TreeAssumption
<1>2. g = Def(g)
  BY <1>1
<1>3. Ancestors = CHOOSE f : f = Def(f)
  BY DEF Ancestors
<1> HIDE DEF Def, g
<1>4. Ancestors = Def(Ancestors)
  BY <1>2, <1>3
<1> QED BY <1>4 DEF Def

(* The chain to the genesis block is that block; to any other, that of its  *)
(* parent and the block itself.                                             *)
LEMMA AncestorsUnfold ==
    /\ Genesis \in Block
    /\ Ancestors[Genesis] = {Genesis}
    /\ \A b \in Block \ {Genesis} : /\ Parent[b] \in Block
                                    /\ Ancestors[b] = {b} \cup Ancestors[Parent[b]]
<1>1. Genesis \in Block
  BY DEF Block
<1>2. \A b \in Block : Ancestors[b] = {b} \cup (IF b = Genesis THEN {} ELSE Ancestors[Parent[b]])
  BY AncestorsDef
<1> QED BY <1>1, <1>2, TreeAssumption

(* A chain is a set of blocks and holds its last block and the genesis      *)
(* block.                                                                   *)
LEMMA AncestorsType ==
    \A b \in Block : /\ Ancestors[b] \subseteq Block
                     /\ b \in Ancestors[b]
                     /\ Genesis \in Ancestors[b]
<1> DEFINE S == {b \in Block : /\ Ancestors[b] \subseteq Block
                               /\ b \in Ancestors[b]
                               /\ Genesis \in Ancestors[b]}
<1>1. Genesis \in S
  BY AncestorsUnfold
<1>2. ASSUME NEW b \in Block \ {Genesis}, Parent[b] \in S PROVE b \in S
  BY <1>2, AncestorsUnfold
<1> HIDE DEF S
<1>3. Block \subseteq S
  BY <1>1, <1>2, TreeInduction
<1> QED BY <1>3 DEF S

(* The ancestors of an ancestor are ancestors. *)
LEMMA AncestorsTrans ==
    ASSUME NEW b \in Block, NEW a \in Ancestors[b]
    PROVE  Ancestors[a] \subseteq Ancestors[b]
<1> DEFINE S == {c \in Block : \A x \in Ancestors[c] : Ancestors[x] \subseteq Ancestors[c]}
<1>1. Genesis \in S
  BY AncestorsUnfold
<1>2. ASSUME NEW c \in Block \ {Genesis}, Parent[c] \in S PROVE c \in S
  BY <1>2, AncestorsUnfold
<1> HIDE DEF S
<1>3. Block \subseteq S
  BY <1>1, <1>2, TreeInduction
<1> QED BY <1>3 DEF S

(* No block is an ancestor of its parent. *)
LEMMA Acyclic ==
    ASSUME NEW b \in Block \ {Genesis}
    PROVE  b \notin Ancestors[Parent[b]]
<1> SUFFICES ASSUME b \in Ancestors[Parent[b]] PROVE FALSE
  OBVIOUS
<1> DEFINE S == {c \in Block \ {Genesis} : b \in Ancestors[c]}
<1>1. b \in S
  BY AncestorsType
<1>2. ASSUME NEW c \in S PROVE Parent[c] \in S
  BY AncestorsUnfold
<1>3. S \in SUBSET Block /\ S # {}
  BY <1>1
<1>4. PICK c \in S : c = Genesis \/ Parent[c] \notin S
  BY <1>3, TreeAssumption
<1> QED BY <1>2, <1>4

(* The heights of a block: the least relation that gives the genesis block  *)
(* 0 and every other block one more than its parent.                        *)
Rising(S) ==
    /\ <<Genesis, 0>> \in S
    /\ \A b \in Block \ {Genesis}, n \in Nat : <<Parent[b], n>> \in S => <<b, n + 1>> \in S

Levels(b) == {n \in Nat : \A S \in SUBSET (Block \X Nat) : Rising(S) => <<b, n>> \in S}

LEMMA LevelsRise ==
    /\ 0 \in Levels(Genesis)
    /\ \A b \in Block \ {Genesis} : \A n \in Levels(Parent[b]) : n + 1 \in Levels(b)
<1>1. 0 \in Levels(Genesis)
  BY DEF Levels, Rising
<1>2. ASSUME NEW b \in Block \ {Genesis}, NEW n \in Levels(Parent[b])
      PROVE  n + 1 \in Levels(b)
  <2>1. n \in Nat /\ n + 1 \in Nat
    BY DEF Levels
  <2>2. ASSUME NEW S \in SUBSET (Block \X Nat), Rising(S) PROVE <<b, n + 1>> \in S
    <3>1. <<Parent[b], n>> \in S
      BY <2>2 DEF Levels
    <3> QED BY <2>1, <2>2, <3>1 DEF Rising
  <2> QED BY <2>1, <2>2 DEF Levels
<1> QED BY <1>1, <1>2

(* A height is the genesis block's 0, or one above a height of the parent.  *)
LEMMA LevelsUnfold ==
    ASSUME NEW b \in Block, NEW m \in Levels(b)
    PROVE  IF b = Genesis THEN m = 0 ELSE \E n \in Levels(Parent[b]) : m = n + 1
<1> DEFINE G == {x \in Block \X Nat : x[2] \in Levels(x[1])}
           S == G \ {<<b, m>>}
<1> SUFFICES ASSUME ~(IF b = Genesis THEN m = 0 ELSE \E n \in Levels(Parent[b]) : m = n + 1)
             PROVE  FALSE
  OBVIOUS
<1>1. m \in Nat /\ \A T \in SUBSET (Block \X Nat) : Rising(T) => <<b, m>> \in T
  BY DEF Levels
<1>2. \A c \in Block, n \in Nat : <<c, n>> \in S <=> n \in Levels(c) /\ (c # b \/ n # m)
  OBVIOUS
<1>3. S \in SUBSET (Block \X Nat) /\ <<b, m>> \notin S
  OBVIOUS
<1> HIDE DEF S
<1>4. <<Genesis, 0>> \in S
  BY <1>2, LevelsRise, AncestorsUnfold
<1>5. ASSUME NEW c \in Block \ {Genesis}, NEW n \in Nat, <<Parent[c], n>> \in S
      PROVE  <<c, n + 1>> \in S
  <2>1. Parent[c] \in Block /\ n + 1 \in Nat
    BY AncestorsUnfold
  <2>2. n \in Levels(Parent[c])
    BY <1>2, <1>5, <2>1
  <2>3. n + 1 \in Levels(c)
    BY <2>2, LevelsRise
  <2> QED BY <1>2, <2>1, <2>2, <2>3
<1>6. Rising(S)
  BY <1>4, <1>5 DEF Rising
<1> QED BY <1>1, <1>3, <1>6

(* Every block has one height. *)
LEMMA LevelsOne ==
    \A b \in Block : \E n \in Nat : Levels(b) = {n}
<1> DEFINE S == {b \in Block : \E n \in Nat : Levels(b) = {n}}
<1>1. Genesis \in S
  <2>1. Levels(Genesis) = {0}
    BY LevelsRise, LevelsUnfold, AncestorsUnfold
  <2> QED BY <2>1, AncestorsUnfold
<1>2. ASSUME NEW b \in Block \ {Genesis}, Parent[b] \in S PROVE b \in S
  <2>1. PICK n \in Nat : Levels(Parent[b]) = {n}
    BY <1>2
  <2>2. Levels(b) = {n + 1}
    BY <2>1, LevelsRise, LevelsUnfold
  <2> QED BY <2>1, <2>2
<1> HIDE DEF S
<1>3. Block \subseteq S
  BY <1>1, <1>2, TreeInduction
<1> QED BY <1>3 DEF S

LEMMA HeightDef ==
    Height = [b \in Block |-> IF b = Genesis THEN 0 ELSE Height[Parent[b]] + 1]
<1> DEFINE Def(f) == [b \in Block |-> IF b = Genesis THEN 0 ELSE f[Parent[b]] + 1]
           Level(b) == CHOOSE n \in Nat : Levels(b) = {n}
           g == [b \in Block |-> Level(b)]
<1>1. \A b \in Block : Level(b) \in Nat /\ Levels(b) = {Level(b)}
  BY LevelsOne
<1> HIDE DEF Level
<1>2. ASSUME NEW b \in Block
      PROVE  Level(b) = IF b = Genesis THEN 0 ELSE Level(Parent[b]) + 1
  <2>1. b # Genesis => Parent[b] \in Block
    BY AncestorsUnfold
  <2> QED BY <1>1, <2>1, LevelsRise
<1>3. g = Def(g)
  BY <1>2, AncestorsUnfold
<1>4. Height = CHOOSE f : f = Def(f)
  BY DEF Height
<1> HIDE DEF Def, g
<1>5. Height = Def(Height)
  BY <1>3, <1>4
<1> QED BY <1>5 DEF Def

(* The genesis block is at height 0, any other one above its parent. *)
LEMMA HeightUnfold ==
    /\ Height \in [Block -> Nat]
    /\ Height[Genesis] = 0
    /\ \A b \in Block \ {Genesis} : Height[b] = Height[Parent[b]] + 1
<1> DEFINE S == {b \in Block : Height[b] \in Nat}
<1>1. \A b \in Block : Height[b] = IF b = Genesis THEN 0 ELSE Height[Parent[b]] + 1
  BY HeightDef
<1>2. Genesis \in S
  BY <1>1, AncestorsUnfold
<1>3. ASSUME NEW b \in Block \ {Genesis}, Parent[b] \in S PROVE b \in S
  BY <1>1, <1>3
<1> HIDE DEF S
<1>4. Block \subseteq S
  BY <1>2, <1>3, TreeInduction
<1>5. Height \in [Block -> Nat]
  BY <1>4, HeightDef DEF S
<1> QED BY <1>1, <1>5, AncestorsUnfold
-----------------------------------------------------------------------------
(* Chains and heights. *)

(* An ancestor is lower, unless it is the block itself. *)
LEMMA AncestorsLower ==
    ASSUME NEW b \in Block, NEW a \in Ancestors[b]
    PROVE  /\ a \in Block
           /\ Height[a] <= Height[b]
           /\ Height[a] = Height[b] => a = b
<1> DEFINE S == {c \in Block : \A x \in Ancestors[c] : x = c \/ Height[x] < Height[c]}
<1>1. Genesis \in S
  BY AncestorsUnfold
<1>2. ASSUME NEW c \in Block \ {Genesis}, Parent[c] \in S PROVE c \in S
  <2> SUFFICES ASSUME NEW x \in Ancestors[c], x # c PROVE Height[x] < Height[c]
    BY DEF S
  <2>1. Parent[c] \in Block /\ x \in Ancestors[Parent[c]]
    BY AncestorsUnfold
  <2>2. x \in Block
    BY <2>1, AncestorsType
  <2>3. Height[x] \in Nat /\ Height[Parent[c]] \in Nat /\ Height[c] = Height[Parent[c]] + 1
    BY <2>1, <2>2, HeightUnfold
  <2>4. x = Parent[c] \/ Height[x] < Height[Parent[c]]
    BY <1>2, <2>1
  <2> QED BY <2>3, <2>4
<1> HIDE DEF S
<1>3. Block \subseteq S
  BY <1>1, <1>2, TreeInduction
<1>4. a \in Block
  BY AncestorsType
<1>5. Height[a] \in Nat /\ Height[b] \in Nat
  BY <1>4, HeightUnfold
<1>6. a = b \/ Height[a] < Height[b]
  BY <1>3 DEF S
<1> QED BY <1>4, <1>5, <1>6

(* Of two blocks of a chain the lower one is an ancestor of the other. *)
LEMMA AncestorsLinear ==
    ASSUME NEW b \in Block, NEW a \in Ancestors[b], NEW c \in Ancestors[b],
           Height[a] <= Height[c]
    PROVE  a \in Ancestors[c]
<1> DEFINE S == {d \in Block : \A x, y \in Ancestors[d] : x \in Ancestors[y] \/ y \in Ancestors[x]}
<1>1. Genesis \in S
  BY AncestorsUnfold
<1>2. ASSUME NEW d \in Block \ {Genesis}, Parent[d] \in S PROVE d \in S
  BY <1>2, AncestorsUnfold
<1> HIDE DEF S
<1>3. Block \subseteq S
  BY <1>1, <1>2, TreeInduction
<1>4. a \in Block /\ c \in Block
  BY AncestorsType
<1>5. a \in Ancestors[c] \/ c \in Ancestors[a]
  BY <1>3 DEF S
<1>6. CASE c \in Ancestors[a]
  <2>1. Height[c] <= Height[a] /\ (Height[c] = Height[a] => c = a)
    BY <1>4, <1>6, AncestorsLower
  <2>2. Height[a] \in Nat /\ Height[c] \in Nat
    BY <1>4, HeightUnfold
  <2>3. c = a
    BY <2>1, <2>2
  <2> QED BY <1>4, <2>3, AncestorsType
<1> QED BY <1>5, <1>6

(* What a chain has beyond one of its blocks is above that block. *)
LEMMA AncestorsAbove ==
    ASSUME NEW b \in Block, NEW f \in Ancestors[b], NEW d \in Ancestors[b] \ Ancestors[f]
    PROVE  f \in Ancestors[d] /\ d # f
<1>1. f \in Block /\ d \in Block
  BY AncestorsType
<1>2. Height[f] \in Nat /\ Height[d] \in Nat
  BY <1>1, HeightUnfold
<1>3. ~(Height[d] <= Height[f])
  BY AncestorsLinear
<1>4. Height[f] <= Height[d]
  BY <1>2, <1>3
<1> QED BY <1>1, <1>4, AncestorsLinear, AncestorsType

(* A chain has a block at every height up to that of its last one. *)
LEMMA AncestorAt ==
    ASSUME NEW b \in Block, NEW h \in Nat, h <= Height[b]
    PROVE  \E a \in Ancestors[b] : Height[a] = h
<1> DEFINE S == {c \in Block : \A k \in Nat : k <= Height[c] => \E a \in Ancestors[c] : Height[a] = k}
<1>1. Genesis \in S
  BY AncestorsUnfold, HeightUnfold
<1>2. ASSUME NEW c \in Block \ {Genesis}, Parent[c] \in S PROVE c \in S
  <2> SUFFICES ASSUME NEW k \in Nat, k <= Height[c]
               PROVE  \E a \in Ancestors[c] : Height[a] = k
    BY DEF S
  <2>1. Parent[c] \in Block /\ Ancestors[c] = {c} \cup Ancestors[Parent[c]]
    BY AncestorsUnfold
  <2>2. Height[c] \in Nat /\ Height[Parent[c]] \in Nat /\ Height[c] = Height[Parent[c]] + 1
    BY <2>1, HeightUnfold
  <2>3. k = Height[c] \/ k <= Height[Parent[c]]
    BY <2>2
  <2> QED BY <1>2, <2>1, <2>3
<1> HIDE DEF S
<1>3. Block \subseteq S
  BY <1>1, <1>2, TreeInduction
<1> QED BY <1>3 DEF S

(* Highest finds a highest block of a part of a chain. *)
LEMMA HighestOnChain ==
    ASSUME NEW b \in Block, NEW S \in SUBSET Ancestors[b], S # {}
    PROVE  Highest(S) \in S /\ \A c \in S : Height[c] <= Height[Highest(S)]
<1> DEFINE Top(T) == \E x \in T : \A c \in T : Height[c] <= Height[x]
           D == {d \in Block : \A T \in SUBSET Ancestors[d] : T # {} => Top(T)}
<1>1. Genesis \in D
  <2>1. ASSUME NEW T \in SUBSET {Genesis}, T # {} PROVE Top(T)
    <3>1. T = {Genesis} /\ Height[Genesis] <= Height[Genesis]
      BY <2>1, HeightUnfold
    <3> QED BY <3>1
  <2> HIDE DEF Top
  <2> QED BY <2>1, AncestorsUnfold
<1>2. ASSUME NEW d \in Block \ {Genesis}, Parent[d] \in D PROVE d \in D
  <2> SUFFICES ASSUME NEW T \in SUBSET Ancestors[d], T # {} PROVE Top(T)
    OBVIOUS
  <2>1. CASE d \in T
    <3>1. \A c \in T : Height[c] <= Height[d]
      BY AncestorsLower
    <3> QED BY <2>1, <3>1
  <2>2. CASE d \notin T
    <3>1. T \in SUBSET Ancestors[Parent[d]]
      BY <2>2, AncestorsUnfold
    <3> HIDE DEF Top
    <3> QED BY <1>2, <3>1
  <2> QED BY <2>1, <2>2
<1>3. Block \subseteq D
  <2> HIDE DEF D
  <2> QED BY <1>1, <1>2, TreeInduction
<1>4. Top(S)
  <2> HIDE DEF Top
  <2> QED BY <1>3
<1> QED BY <1>4 DEF Highest

(* The fork of two chains is their last common block. *)
LEMMA ForkExists ==
    ASSUME NEW a \in Block, NEW b \in Block
    PROVE  /\ Fork(a, b) \in Ancestors[a] \cap Ancestors[b]
           /\ Fork(a, b) \in Block
           /\ Ancestors[Fork(a, b)] = Ancestors[a] \cap Ancestors[b]
<1> DEFINE S == Ancestors[a] \cap Ancestors[b]
           f == Fork(a, b)
<1>1. S \in SUBSET Block /\ S \in SUBSET Ancestors[a] /\ S # {}
  BY AncestorsType
<1>2. f = Highest(S)
  BY DEF Fork
<1> HIDE DEF f, S
<1>3. f \in S /\ \A c \in S : Height[c] <= Height[f]
  BY <1>1, <1>2, HighestOnChain
<1>4. Ancestors[f] \subseteq S
  BY <1>3, AncestorsTrans DEF S
<1>5. S \subseteq Ancestors[f]
  BY <1>3, AncestorsLinear DEF S
<1> QED BY <1>1, <1>3, <1>4, <1>5 DEF S, f
=============================================================================
