--------------------------- MODULE DynaFedProofs ---------------------------
(***************************************************************************)
(* DynaFed for every epoch length, number of valid epochs, height, set of  *)
(* proposals and pattern of votes: the parameters in the headers are those *)
(* that all votes since the genesis block decide, peg-ins may use the      *)
(* scripts of the last epochs and no others, and the mempool's peg         *)
(* transactions can be mined.                                              *)
(***************************************************************************)
EXTENDS DynaFed, FiniteSetTheorems, WellFoundedInduction, TLAPS

(* The entries that are in force in some epoch. *)
Adopted ==
  {PreDynafedParameters} \cup {p \in Proposals : p.m_serialize_type = 2 /\ p.m_fedpeg_program # <<>>}

Header ==
  LET Entries == {PreDynafedParameters} \cup Proposals
  IN  [m_current  : {Null} \cup Entries \cup
                    {Compact(s, r) : s \in {e.m_signblockscript : e \in Entries},
                                     r \in ForeignRoots \cup {CalculateExtraRoot(e) : e \in Entries}},
       m_proposed : {Null} \cup Proposals]

(* The entry of the header at height h of chain c. *)
EntryVoted(c, h) ==
  LET entry    == BlockAt(c, h).m_current
      expected == InForce(c, h \div EpochLength)
      first    == deployment \in {0, h} /\ HeaderIsNull(BlockAt(c, h - 1))
  IN  IF h < deployment THEN entry = Null
      ELSE IF h % EpochLength = 0 \/ first THEN entry = expected
      ELSE /\ entry.m_serialize_type = 1
           /\ entry.m_signblockscript = expected.m_signblockscript

(* No header of c proposes an entry that elides its data. *)
Voting(c) == \A h \in 0 .. Len(c) - 1 : BlockAt(c, h).m_proposed \in {Null} \cup (Adopted \cap Proposals)

(* The headers of c passed ContextualCheckDynaFedHeader. *)
Checked(c) ==
  /\ c \in Seq(Header) /\ Len(c) > 0 /\ BlockAt(c, 0) = Genesis
  /\ Voting(c)
  /\ \A h \in 1 .. Len(c) - 1 : (h < deployment => HeaderIsNull(BlockAt(c, h))) /\ EntryVoted(c, h)

(* The federation scripts of the last epochs up to epoch q. *)
LastScripts(c, q) == [i \in 1 .. Min({TotalValidEpochs, q + 1}) |-> FedpegInForce(c, q + 1 - i)]

IndInv ==
  /\ TypeOK
  /\ Checked(chain)
  /\ phase = "idle" => \A tx \in mempool : PoolTxValid(chain, tx)
-----------------------------------------------------------------------------
(* Heights and epochs *)

LEMMA Division ==
  ASSUME NEW n \in Nat
  PROVE  /\ n \div EpochLength \in Nat
         /\ n % EpochLength \in 0 .. EpochLength - 1 /\ n % EpochLength \in Nat
         /\ n = (n \div EpochLength) * EpochLength + (n % EpochLength)
BY EpochAssumption

LEMMA DivisionIs ==
  ASSUME NEW q \in Nat, NEW r \in 0 .. EpochLength - 1
  PROVE  (q * EpochLength + r) \div EpochLength = q /\ (q * EpochLength + r) % EpochLength = r
BY EpochAssumption

LEMMA Product ==
  ASSUME NEW q \in Nat
  PROVE  /\ q * EpochLength \in Nat /\ (q + 1) * EpochLength = q * EpochLength + EpochLength
         /\ q > 0 => (q - 1) * EpochLength = q * EpochLength - EpochLength
BY EpochAssumption

LEMMA ProductMonotone ==
  ASSUME NEW p \in Nat, NEW q \in Nat
  PROVE  /\ p <= q => p * EpochLength <= q * EpochLength
         /\ p < q => p * EpochLength + EpochLength <= q * EpochLength
BY EpochAssumption

LEMMA EpochOf ==
  ASSUME NEW n \in Nat
  PROVE  /\ n \div EpochLength \in Nat /\ (n \div EpochLength) * EpochLength \in Nat
         /\ (n \div EpochLength) * EpochLength <= n
<1> DEFINE q == n \div EpochLength
           r == n % EpochLength
<1>1. q \in Nat /\ r \in Nat /\ n = q * EpochLength + r /\ q * EpochLength \in Nat
  BY Zenon, Division, Product
<1> HIDE DEF q, r
<1>2. q * EpochLength <= n
  BY <1>1
<1> QED BY <1>1, <1>2 DEF q

LEMMA NextHeight ==
  ASSUME NEW n \in Nat
  PROVE  /\ n % EpochLength = EpochLength - 1 =>
                (n + 1) % EpochLength = 0 /\ (n + 1) \div EpochLength = (n \div EpochLength) + 1
         /\ n % EpochLength # EpochLength - 1 =>
                (n + 1) % EpochLength = (n % EpochLength) + 1 /\ (n + 1) \div EpochLength = n \div EpochLength
<1> DEFINE q == n \div EpochLength
           r == n % EpochLength
<1>1. q \in Nat /\ r \in 0 .. EpochLength - 1 /\ n = q * EpochLength + r /\ EpochLength \in Nat \ {0}
  BY Division, EpochAssumption
<1> HIDE DEF q, r
<1>2. CASE r = EpochLength - 1
  <2>1. n + 1 = (q + 1) * EpochLength + 0
    BY <1>1, <1>2, Product
  <2>2. (n + 1) \div EpochLength = q + 1 /\ (n + 1) % EpochLength = 0
    <3>1. q + 1 \in Nat /\ 0 \in 0 .. EpochLength - 1
      BY <1>1
    <3> QED BY <2>1, <3>1, DivisionIs
  <2> QED BY <1>2, <2>2 DEF q, r
<1>3. CASE r # EpochLength - 1
  <2>1. n + 1 = q * EpochLength + (r + 1) /\ r + 1 \in 0 .. EpochLength - 1
    BY <1>1, <1>3, Product
  <2>2. (n + 1) \div EpochLength = q /\ (n + 1) % EpochLength = r + 1
    BY <1>1, <2>1, DivisionIs
  <2> QED BY <1>3, <2>2 DEF q, r
<1> QED BY <1>2, <1>3

LEMMA MinimumExists ==
  ASSUME NEW S \in SUBSET Nat, S # {}
  PROVE  Min(S) \in S /\ \A y \in S : Min(S) <= y
<1>1. PICK x \in S : \A y \in S : ~(<<y, x>> \in OpToRel(<, Nat))
  BY NatLessThanWellFounded, WFMin
<1>2. ASSUME NEW y \in S PROVE x <= y
  <2>1. ASSUME y < x PROVE <<y, x>> \in OpToRel(<, Nat)
    BY <2>1 DEF OpToRel
  <2>2. ~(y < x)
    BY <1>1, <2>1, Zenon
  <2> QED BY <2>2
<1>3. \E z \in S : \A y \in S : z <= y
  BY <1>2
<1> QED BY <1>3, Zenon DEF Min

LEMMA MaximumExists ==
  ASSUME NEW n \in Nat, NEW S \in SUBSET (0 .. n), S # {}
  PROVE  Max(S) \in S /\ \A y \in S : y <= Max(S)
<1> DEFINE D == {n - i : i \in S}
<1>1. \A i \in S : i \in Nat /\ n - i \in Nat
  OBVIOUS
<1>2. D \in SUBSET Nat /\ D # {}
  BY <1>1
<1>3. Min(D) \in D /\ \A e \in D : Min(D) <= e
  BY Zenon, <1>2, MinimumExists
<1>4. PICK x \in S : Min(D) = n - x
  BY <1>3
<1>5. ASSUME NEW i \in S PROVE x >= i
  <2>1. n - x <= n - i
    BY Zenon, <1>3, <1>4
  <2> QED BY <1>1, <2>1
<1>6. \E z \in S : \A y \in S : z >= y
  BY <1>5
<1>7. Max(S) \in S /\ \A y \in S : Max(S) >= y
  BY <1>6, Zenon DEF Max
<1> QED BY <1>7
-----------------------------------------------------------------------------
(* Entries *)

LEMMA ProposalFields ==
  ASSUME NEW p \in Proposals
  PROVE  /\ p.m_serialize_type \in {1, 2} /\ p # Null
         /\ p.m_serialize_type = 1 => p.m_fedpeg_program = <<>>
         /\ p.m_serialize_type = 2 =>
              p = Full(p.m_signblockscript, p.m_fedpeg_program, p.m_fedpegscript, p.m_extension_space)
<1>1. CASE p = Compact(p.m_signblockscript, p.m_elided_root)
  <2>1. PICK s, r : p = Compact(s, r)
    BY <1>1, Zenon
  <2>2. p.m_serialize_type = 1 /\ p.m_fedpeg_program = <<>> /\ Null.m_serialize_type = 0
    BY <2>1 DEF Compact, Null, Entry
  <2> QED BY <2>2
<1>2. CASE p = Full(p.m_signblockscript, p.m_fedpeg_program, p.m_fedpegscript, p.m_extension_space)
  <2>1. PICK s, g, f, x : p = Full(s, g, f, x)
    BY <1>2, Zenon
  <2>2. p.m_serialize_type = 2 /\ Null.m_serialize_type = 0
    BY <2>1 DEF Full, Null, Entry
  <2> QED BY <1>2, <2>2
<1> QED BY <1>1, <1>2, ProposalsAssumption

LEMMA AdoptedFields ==
  ASSUME NEW p \in Adopted
  PROVE  /\ p.m_serialize_type = 2 /\ p.m_fedpeg_program # <<>> /\ p # Null
         /\ p = Full(p.m_signblockscript, p.m_fedpeg_program, p.m_fedpegscript, p.m_extension_space)
<1>1. CASE p = PreDynafedParameters
  BY <1>1 DEF PreDynafedParameters, Full, Entry, P2WSH, P2SHP2WSH, Null
<1>2. CASE p \in Proposals /\ p.m_serialize_type = 2 /\ p.m_fedpeg_program # <<>>
  BY <1>2, ProposalFields
<1> QED BY <1>1, <1>2 DEF Adopted

(* Votes with the same root are the same. *)
LEMMA RootInjective ==
  ASSUME NEW p \in {Null} \cup (Adopted \cap Proposals), NEW q \in {Null} \cup (Adopted \cap Proposals)
  PROVE  /\ CalculateRoot(p) = <<>> <=> p = Null
         /\ CalculateRoot(p) = CalculateRoot(q) <=> p = q
<1>1. CalculateRoot(Null) = <<>>
  BY DEF CalculateRoot, Null, Entry
<1>2. ASSUME NEW x \in Adopted
      PROVE  CalculateRoot(x) = <<x.m_signblockscript,
                                  <<x.m_fedpeg_program, x.m_fedpegscript, x.m_extension_space>> >>
  BY <1>2, AdoptedFields DEF CalculateRoot, CalculateExtraRoot
<1>3. ASSUME NEW x \in Adopted PROVE CalculateRoot(x) # <<>>
  BY <1>2
<1>4. ASSUME NEW x \in Adopted, NEW y \in Adopted, CalculateRoot(x) = CalculateRoot(y) PROVE x = y
  <2>1. /\ x.m_signblockscript = y.m_signblockscript
        /\ <<x.m_fedpeg_program, x.m_fedpegscript, x.m_extension_space>>
             = <<y.m_fedpeg_program, y.m_fedpegscript, y.m_extension_space>>
    BY <1>2, <1>4
  <2>2. /\ x.m_fedpeg_program = y.m_fedpeg_program /\ x.m_fedpegscript = y.m_fedpegscript
        /\ x.m_extension_space = y.m_extension_space
    BY <2>1
  <2> QED BY <2>1, <2>2, AdoptedFields
<1> QED BY <1>1, <1>3, <1>4, AdoptedFields
-----------------------------------------------------------------------------
(* Votes *)

LEMMA EpochBlocks ==
  ASSUME NEW e \in Nat \ {0}
  PROVE  LET blocks == (e - 1) * EpochLength .. e * EpochLength - 1
         IN  /\ e * EpochLength \in Nat \ {0} /\ (e - 1) * EpochLength \in Nat
             /\ (e - 1) * EpochLength = e * EpochLength - EpochLength
             /\ IsFiniteSet(blocks) /\ Cardinality(blocks) = EpochLength
<1>1. /\ e * EpochLength \in Nat \ {0} /\ (e - 1) * EpochLength \in Nat
      /\ (e - 1) * EpochLength = e * EpochLength - EpochLength
  BY Product, EpochAssumption
<1>2. (e - 1) * EpochLength \in Int /\ e * EpochLength - 1 \in Int
  BY <1>1
<1>3. IsFiniteSet((e - 1) * EpochLength .. e * EpochLength - 1)
  BY <1>2, FS_Interval, Zenon
<1>4. Cardinality((e - 1) * EpochLength .. e * EpochLength - 1) = EpochLength
  BY <1>1, <1>2, FS_Interval, EpochAssumption
<1> QED BY <1>1, <1>3, <1>4

LEMMA VotesFinite ==
  ASSUME NEW c, NEW e \in Nat \ {0}, NEW p
  PROVE  /\ Votes(c, e, p) \subseteq 0 .. e * EpochLength - 1
         /\ IsFiniteSet(Votes(c, e, p)) /\ Cardinality(Votes(c, e, p)) \in Nat
         /\ Votes(c, e, p) # {} =>
              /\ Max(Votes(c, e, p)) \in Votes(c, e, p)
              /\ \A h \in Votes(c, e, p) : h <= Max(Votes(c, e, p))
              /\ Min(Votes(c, e, p)) \in Votes(c, e, p)
              /\ \A h \in Votes(c, e, p) : Min(Votes(c, e, p)) <= h
<1>1. Votes(c, e, p) \subseteq (e - 1) * EpochLength .. e * EpochLength - 1
  BY DEF Votes
<1>2. Votes(c, e, p) \subseteq 0 .. e * EpochLength - 1
  BY <1>1, EpochBlocks
<1>3. IsFiniteSet(Votes(c, e, p)) /\ Cardinality(Votes(c, e, p)) \in Nat
  BY <1>1, EpochBlocks, FS_Subset, FS_CardinalityType, Zenon
<1>4. e * EpochLength - 1 \in Nat /\ Votes(c, e, p) \in SUBSET Nat
  BY <1>2, EpochBlocks
<1> QED BY Zenon, <1>2, <1>3, <1>4, MaximumExists, MinimumExists

(* The threshold is four fifths of the epoch, rounded down. *)
LEMMA WinnersReach ==
  ASSUME NEW c, NEW e \in Nat \ {0}, NEW p
  PROVE  p \in Winners(c, e) <=> /\ p \in Proposals /\ Votes(c, e, p) # {}
                                 /\ Cardinality(Votes(c, e, p)) >= Threshold
<1>1. \A n \in Nat : 5 * (n + 1) > 4 * EpochLength <=> n >= Threshold
  BY EpochAssumption DEF Threshold
<1>2. Cardinality(Votes(c, e, p)) \in Nat
  BY Zenon, VotesFinite
<1> QED BY <1>1, <1>2 DEF Winners

(* Four fifths of three or more blocks are more than half of them. *)
LEMMA OneWinner ==
  ASSUME EpochLength >= 3, NEW c, NEW e \in Nat \ {0},
         NEW p \in Winners(c, e), NEW q \in Winners(c, e)
  PROVE  p = q
<1> DEFINE P == Votes(c, e, p)
           Q == Votes(c, e, q)
           blocks == (e - 1) * EpochLength .. e * EpochLength - 1
<1> SUFFICES ASSUME p # q PROVE FALSE
  OBVIOUS
<1>1. Cardinality(P) >= Threshold /\ Cardinality(Q) >= Threshold
  BY Zenon, WinnersReach
<1>2. Threshold \in Nat /\ 2 * Threshold > EpochLength
  BY EpochAssumption DEF Threshold
<1>3. P \cap Q = {} /\ P \cup Q \subseteq blocks
  BY DEF Votes
<1>4. IsFiniteSet(P) /\ IsFiniteSet(Q) /\ Cardinality(P) \in Nat /\ Cardinality(Q) \in Nat
  BY VotesFinite, Zenon
<1>5. IsFiniteSet(blocks) /\ Cardinality(blocks) = EpochLength
  BY EpochBlocks, Zenon
<1> HIDE DEF P, Q, blocks
<1>6. Cardinality(P \cup Q) = Cardinality(P) + Cardinality(Q) - Cardinality(P \cap Q)
  BY <1>4, FS_Union, Zenon
<1>7. Cardinality(P \cap Q) = 0
  BY <1>3, FS_EmptySet, Zenon
<1>8. Cardinality(P \cup Q) <= EpochLength
  BY <1>3, <1>5, FS_Subset
<1> QED BY <1>1, <1>2, <1>4, <1>6, <1>7, <1>8, EpochAssumption

LEMMA WinnerIs ==
  ASSUME NEW c, NEW e \in Nat \ {0}, Winners(c, e) # {}
  PROVE  /\ Winner(c, e) \in Winners(c, e)
         /\ \A q \in Winners(c, e) : Max(Votes(c, e, q)) <= Max(Votes(c, e, Winner(c, e)))
<1> DEFINE S == UNION {Votes(c, e, p) : p \in Winners(c, e)}
<1>1. \A p \in Winners(c, e) : Votes(c, e, p) # {}
  BY DEF Winners
<1>2. S \in SUBSET (0 .. e * EpochLength - 1) /\ S # {}
  BY <1>1, VotesFinite
<1>3. Max(S) \in S /\ \A h \in S : h <= Max(S)
  <2>1. e * EpochLength - 1 \in Nat
    BY EpochBlocks
  <2> HIDE DEF S
  <2> QED BY Zenon, <1>2, <2>1, MaximumExists
<1>4. PICK p \in Winners(c, e) : Max(S) \in Votes(c, e, p)
  BY <1>3
<1>5. ASSUME NEW q \in Winners(c, e) PROVE Max(Votes(c, e, q)) <= Max(Votes(c, e, p))
  <2>1. Max(Votes(c, e, q)) \in Votes(c, e, q) /\ Max(Votes(c, e, p)) \in Votes(c, e, p)
    BY <1>1, VotesFinite
  <2>2. Max(Votes(c, e, q)) <= Max(S) /\ Max(S) <= Max(Votes(c, e, p))
    BY <1>1, <1>3, <1>4, <2>1, VotesFinite
  <2>3. /\ Max(Votes(c, e, q)) \in 0 .. e * EpochLength - 1 /\ Max(S) \in 0 .. e * EpochLength - 1
        /\ Max(Votes(c, e, p)) \in 0 .. e * EpochLength - 1
    BY <1>4, <2>1, VotesFinite
  <2> QED BY <2>2, <2>3, EpochBlocks
<1>6. \E w \in Winners(c, e) : \A q \in Winners(c, e) : Max(Votes(c, e, q)) <= Max(Votes(c, e, w))
  BY <1>5
<1> QED BY <1>6, Zenon DEF Winner

(* What the tally, kept backwards from the end of the epoch, counts at a   *)
(* height of the last epoch.                                               *)
LEMMA VotesSinceIs ==
  ASSUME NEW c, NEW e \in Nat \ {0}, Len(c) = e * EpochLength, Voting(c),
         NEW h \in (e - 1) * EpochLength .. e * EpochLength - 1,
         NEW p, p = BlockAt(c, h).m_proposed
  PROVE  /\ p \in {Null} \cup (Adopted \cap Proposals)
         /\ CalculateRoot(p) # <<>> <=> p \in Adopted \cap Proposals
         /\ VotesSince(c, h) = {k \in Votes(c, e, p) : k >= h}
         /\ h \in VotesSince(c, h)
<1>1. /\ (e - 1) * EpochLength \in Nat /\ e * EpochLength \in Nat /\ h \in 0 .. Len(c) - 1
      /\ \A k \in h .. Len(c) - 1 : k \in 0 .. Len(c) - 1 /\ k \in (e - 1) * EpochLength .. e * EpochLength - 1
  BY EpochBlocks
<1>2. p \in {Null} \cup (Adopted \cap Proposals)
  BY <1>1 DEF Voting
<1>3. CalculateRoot(p) # <<>> <=> p \in Adopted \cap Proposals
  BY <1>2, RootInjective, AdoptedFields
<1>4. ASSUME NEW k \in h .. Len(c) - 1
      PROVE  CalculateRoot(BlockAt(c, k).m_proposed) = CalculateRoot(p) <=> BlockAt(c, k).m_proposed = p
  BY <1>1, <1>2, RootInjective DEF Voting
<1>5. VotesSince(c, h) = {k \in h .. Len(c) - 1 : BlockAt(c, k).m_proposed = p}
  BY <1>4 DEF VotesSince
<1>6. ASSUME NEW k
      PROVE  k \in h .. Len(c) - 1 <=> k \in (e - 1) * EpochLength .. e * EpochLength - 1 /\ k >= h
  BY <1>1
<1>7. VotesSince(c, h) = {k \in Votes(c, e, p) : k >= h}
  BY <1>5, <1>6 DEF Votes
<1>8. h \in VotesSince(c, h)
  BY <1>1, <1>5
<1> QED BY <1>2, <1>3, <1>7, <1>8

(* NextBlockIsParameterTransition counts the votes of the last epoch. *)
LEMMA Tally ==
  ASSUME NEW c, NEW e \in Nat \ {0}, Len(c) = e * EpochLength, Voting(c)
  PROVE  /\ ReachesThreshold(c) # {} <=> Winners(c, e) # {}
         /\ Winners(c, e) # {} => WinningEntry(c) = Winner(c, e)
<1> DEFINE blocks == (e - 1) * EpochLength .. e * EpochLength - 1
           Vote(h) == BlockAt(c, h).m_proposed
           R == ReachesThreshold(c)
           counted(h) == Cardinality(VotesSince(c, h))
<1>1. /\ (e - 1) * EpochLength \in Nat /\ e * EpochLength - 1 \in Nat
      /\ Len(c) - EpochLength = (e - 1) * EpochLength
      /\ Threshold \in Nat
  BY EpochBlocks, EpochAssumption DEF Threshold
<1>2. R = {h \in blocks : Vote(h) \in Adopted \cap Proposals /\ counted(h) >= Threshold}
  <2>1. R = {h \in blocks : CalculateRoot(Vote(h)) # <<>> /\ counted(h) >= Threshold}
    BY <1>1 DEF ReachesThreshold
  <2>2. \A h \in blocks : CalculateRoot(Vote(h)) # <<>> <=> Vote(h) \in Adopted \cap Proposals
    BY VotesSinceIs
  <2> HIDE DEF R, blocks, Vote, counted
  <2> QED BY <2>1, <2>2
<1>3. ASSUME NEW h \in blocks
      PROVE  /\ VotesSince(c, h) = {k \in Votes(c, e, Vote(h)) : k >= h} /\ h \in VotesSince(c, h)
             /\ h \in Votes(c, e, Vote(h))
  <2>1. VotesSince(c, h) = {k \in Votes(c, e, Vote(h)) : k >= h} /\ h \in VotesSince(c, h)
    BY VotesSinceIs
  <2> QED BY <2>1
<1>4. ASSUME NEW h \in blocks
      PROVE  counted(h) \in Nat /\ counted(h) >= 1 /\ counted(h) <= Cardinality(Votes(c, e, Vote(h)))
  <2> DEFINE V == Votes(c, e, Vote(h))
             W == VotesSince(c, h)
  <2>1. W \subseteq V /\ h \in W /\ IsFiniteSet(V)
    BY <1>3, VotesFinite
  <2> HIDE DEF V, W
  <2>2. IsFiniteSet(W) /\ Cardinality(W) \in Nat /\ Cardinality(W) <= Cardinality(V)
    BY Zenon, <2>1, FS_Subset, FS_CardinalityType
  <2>3. Cardinality(W) # 0
    BY <2>1, <2>2, FS_EmptySet, Zenon
  <2> QED BY <2>2, <2>3 DEF V, W
<1>5. ASSUME NEW h \in R PROVE Vote(h) \in Winners(c, e) /\ h \in blocks
  <2>1. h \in blocks /\ Vote(h) \in Proposals /\ counted(h) >= Threshold
    BY <1>2
  <2>2. Cardinality(Votes(c, e, Vote(h))) >= Threshold
    <3> HIDE DEF counted, Vote, blocks
    <3>1. Cardinality(Votes(c, e, Vote(h))) \in Nat
      BY Zenon, VotesFinite
    <3> QED BY <1>1, <1>4, <2>1, <3>1
  <2>3. Votes(c, e, Vote(h)) # {}
    BY <1>3, <2>1
  <2> HIDE DEF Vote, blocks
  <2> QED BY Zenon, <2>1, <2>2, <2>3, WinnersReach
<1>6. ASSUME NEW p \in Winners(c, e) PROVE Min(Votes(c, e, p)) \in R
  <2> DEFINE h == Min(Votes(c, e, p))
  <2>1. /\ Votes(c, e, p) # {} /\ p \in Proposals /\ Cardinality(Votes(c, e, p)) >= Threshold
        /\ h \in Votes(c, e, p) /\ \A k \in Votes(c, e, p) : h <= k
    BY Zenon, VotesFinite, WinnersReach
  <2>2. h \in blocks /\ Vote(h) = p
    BY <2>1 DEF Votes
  <2>3. VotesSince(c, h) = Votes(c, e, p)
    BY Zenon, <1>3, <2>1, <2>2, VotesFinite
  <2>4. p \in Adopted
    BY <2>1, <2>2, VotesSinceIs, ProposalFields
  <2> HIDE DEF h, blocks, R
  <2>5. Vote(h) \in Adopted \cap Proposals /\ counted(h) >= Threshold
    BY <2>1, <2>2, <2>3, <2>4
  <2> QED BY <1>2, <2>2, <2>5 DEF h
<1>7. R # {} <=> Winners(c, e) # {}
  BY <1>5, <1>6
<1>8. ASSUME Winners(c, e) # {} PROVE WinningEntry(c) = Winner(c, e)
  <2> DEFINE last == Max(R)
  <2>1. last \in R /\ \A h \in R : h <= last
    <3>1. R \in SUBSET (0 .. e * EpochLength - 1) /\ R # {}
      BY <1>1, <1>2, <1>7, <1>8
    <3> HIDE DEF R
    <3> QED BY Zenon, <1>1, <3>1, MaximumExists
  <2>2. WinningEntry(c) = Vote(last) /\ Vote(last) \in Winners(c, e) /\ last \in blocks
    BY <1>5, <2>1 DEF WinningEntry
  <2>3. /\ Winner(c, e) \in Winners(c, e)
        /\ Max(Votes(c, e, Vote(last))) <= Max(Votes(c, e, Winner(c, e)))
    BY <1>8, <2>2, WinnerIs
  <2>4. CASE EpochLength >= 3
    BY <2>2, <2>3, <2>4, OneWinner
  <2>5. CASE EpochLength < 3
    <3> DEFINE w == Winner(c, e)
               top == Max(Votes(c, e, w))
    <3>1. Threshold <= 1
      BY <2>5, EpochAssumption DEF Threshold
    <3>2. top \in Votes(c, e, w) /\ top \in 0 .. e * EpochLength - 1
      BY <2>3, VotesFinite DEF Winners
    <3>3. top \in blocks /\ Vote(top) = w
      BY <3>2 DEF Votes
    <3>4. w \in Adopted \cap Proposals
      BY <3>3, <2>3, VotesSinceIs, ProposalFields DEF Winners
    <3>5. top \in R
      <4> HIDE DEF top, w, R, blocks, Vote, counted
      <4> QED BY <1>1, <1>2, <1>4, <3>1, <3>3, <3>4
    <3>6. last \in Votes(c, e, Vote(last)) /\ last \in 0 .. e * EpochLength - 1
      BY <1>3, <2>2, VotesFinite
    <3>7. last <= Max(Votes(c, e, Vote(last))) /\ Max(Votes(c, e, Vote(last))) \in 0 .. e * EpochLength - 1
      <4> HIDE DEF last, Vote
      <4>1. Votes(c, e, Vote(last)) # {}
        BY <3>6
      <4> QED BY <3>6, <4>1, VotesFinite
    <3>8. top <= last
      BY <2>1, <3>5
    <3>9. top = last
      <4> HIDE DEF top, last, Vote
      <4> QED BY <2>3, <3>2, <3>6, <3>7, <3>8 DEF top
    <3> QED BY <2>2, <3>3, <3>9
  <2> QED BY <2>4, <2>5, EpochAssumption
<1> QED BY <1>7, <1>8
-----------------------------------------------------------------------------
(* Parameters in force *)

LEMMA InForceFirst ==
  ASSUME NEW c
  PROVE  InForce(c, 0) = PreDynafedParameters
BY DEF InForce

LEMMA InForceNext ==
  ASSUME NEW c, NEW e \in Nat \ {0}
  PROVE  /\ Winners(c, e) # {} => InForce(c, e) = Winner(c, e)
         /\ Winners(c, e) = {} => InForce(c, e) = InForce(c, e - 1)
<1> DEFINE decided(n) == {d \in 1 .. n : Winners(c, d) # {}}
<1>1. ASSUME Winners(c, e) # {} PROVE InForce(c, e) = Winner(c, e)
  <2>1. decided(e) \in SUBSET (0 .. e) /\ e \in decided(e)
    BY <1>1
  <2>2. Max(decided(e)) \in decided(e) /\ e <= Max(decided(e))
    <3> HIDE DEF decided
    <3> QED BY Zenon, <2>1, MaximumExists
  <2>3. Max(decided(e)) = e
    <3>1. \A d \in decided(e) : d \in Nat /\ d <= e
      OBVIOUS
    <3> HIDE DEF decided
    <3> QED BY <2>2, <3>1
  <2> QED BY <2>1, <2>3 DEF InForce
<1>2. ASSUME Winners(c, e) = {} PROVE InForce(c, e) = InForce(c, e - 1)
  <2>1. decided(e) = decided(e - 1)
    <3>1. \A d : d \in 1 .. e <=> d \in 1 .. e - 1 \/ d = e
      OBVIOUS
    <3> QED BY <1>2, <3>1
  <2> QED BY <2>1, Zenon DEF InForce
<1> QED BY <1>1, <1>2

(* Votes of later epochs do not count. *)
LEMMA InForcePrefix ==
  ASSUME NEW c, NEW d, NEW e \in Nat,
         \A h \in 0 .. e * EpochLength - 1 : BlockAt(c, h) = BlockAt(d, h)
  PROVE  InForce(c, e) = InForce(d, e)
<1>1. ASSUME NEW k \in 1 .. e, NEW p PROVE Votes(c, k, p) = Votes(d, k, p)
  <2>1. k * EpochLength <= e * EpochLength /\ (k - 1) * EpochLength \in Nat /\ k * EpochLength \in Nat
    <3>1. k \in Nat /\ k - 1 \in Nat /\ k <= e
      OBVIOUS
    <3> QED BY Zenon, <3>1, ProductMonotone, Product
  <2>2. \A h \in (k - 1) * EpochLength .. k * EpochLength - 1 : h \in 0 .. e * EpochLength - 1
    BY <2>1, Product
  <2> QED BY <2>2 DEF Votes
<1>2. ASSUME NEW k \in 1 .. e PROVE Winners(c, k) = Winners(d, k) /\ Winner(c, k) = Winner(d, k)
  <2>1. Winners(c, k) = Winners(d, k)
    BY <1>1, Zenon DEF Winners
  <2> QED BY <1>1, <2>1, Zenon DEF Winner
<1> DEFINE decided == {k \in 1 .. e : Winners(c, k) # {}}
<1>3. decided = {k \in 1 .. e : Winners(d, k) # {}}
  BY <1>2
<1>4. ASSUME decided # {} PROVE Max(decided) \in 1 .. e
  <2>1. decided \in SUBSET (0 .. e)
    OBVIOUS
  <2>2. Max(decided) \in decided
    <3> HIDE DEF decided
    <3> QED BY Zenon, <1>4, <2>1, MaximumExists
  <2> QED BY <2>2
<1>5. InForce(c, e) = IF decided = {} THEN PreDynafedParameters ELSE Winner(c, Max(decided))
  BY DEF InForce
<1>6. InForce(d, e) = IF decided = {} THEN PreDynafedParameters ELSE Winner(d, Max(decided))
  BY <1>3, Zenon DEF InForce
<1> HIDE DEF decided
<1>7. CASE decided = {}
  BY <1>5, <1>6, <1>7, Zenon
<1>8. CASE decided # {}
  <2>1. Winner(c, Max(decided)) = Winner(d, Max(decided))
    BY <1>2, <1>4, <1>8
  <2> QED BY <1>5, <1>6, <1>8, <2>1, Zenon
<1> QED BY <1>7, <1>8

LEMMA InForceAdopted ==
  ASSUME NEW c, NEW e \in Nat, Len(c) \in Nat, e * EpochLength <= Len(c), Voting(c)
  PROVE  InForce(c, e) \in Adopted
<1> DEFINE decided == {k \in 1 .. e : Winners(c, k) # {}}
           last == Max(decided)
<1>1. CASE decided = {}
  BY <1>1 DEF InForce, Adopted
<1>2. CASE decided # {}
  <2>1. last \in decided
    <3>1. decided \in SUBSET (0 .. e)
      OBVIOUS
    <3> HIDE DEF decided
    <3> QED BY Zenon, <1>2, <3>1, MaximumExists
  <2>2. InForce(c, e) = Winner(c, last)
    BY <1>2, Zenon DEF InForce
  <2> HIDE DEF last
  <2>3. last \in Nat \ {0} /\ last <= e /\ Winners(c, last) # {}
    BY <2>1
  <2>4. Winner(c, last) \in Winners(c, last)
    BY <2>3, WinnerIs
  <2>5. PICK h \in Votes(c, last, Winner(c, last)) : TRUE
    BY <2>4 DEF Winners
  <2>6. h \in 0 .. Len(c) - 1
    <3>1. h \in 0 .. last * EpochLength - 1
      BY <2>5, <2>3, VotesFinite
    <3>2. last * EpochLength <= e * EpochLength /\ last * EpochLength \in Nat /\ e * EpochLength \in Nat
      BY <2>3, ProductMonotone, Product
    <3> QED BY <3>1, <3>2
  <2>7. BlockAt(c, h).m_proposed = Winner(c, last) /\ Winner(c, last) \in Proposals
    BY <2>4 DEF Votes, Winners
  <2> QED BY <2>2, <2>6, <2>7, ProposalFields DEF Voting
<1> QED BY <1>1, <1>2

(* Without a vote the parameters do not change. *)
LEMMA InForceUnvoted ==
  ASSUME NEW c, NEW e \in Nat,
         \A h \in 0 .. e * EpochLength - 1 : BlockAt(c, h).m_proposed = Null
  PROVE  InForce(c, e) = PreDynafedParameters
<1>1. ASSUME NEW k \in 1 .. e PROVE Winners(c, k) = {}
  <2> SUFFICES ASSUME NEW p \in Winners(c, k) PROVE FALSE
    OBVIOUS
  <2>1. PICK h \in Votes(c, k, p) : TRUE
    BY DEF Winners
  <2>2. h \in 0 .. e * EpochLength - 1
    <3>1. h \in 0 .. k * EpochLength - 1
      BY <2>1, VotesFinite
    <3>2. k * EpochLength <= e * EpochLength /\ k * EpochLength \in Nat /\ e * EpochLength \in Nat
      <4>1. k \in Nat /\ k <= e
        OBVIOUS
      <4> QED BY Zenon, <4>1, ProductMonotone, Product
    <3> QED BY <3>1, <3>2
  <2> QED BY <2>1, <2>2, ProposalFields DEF Votes, Winners
<1> QED BY <1>1 DEF InForce
-----------------------------------------------------------------------------
(* The block that ComputeNextBlockFullCurrentParameters reads when no vote *)
(* has won.                                                                *)
LEMMA StartBlockIs ==
  ASSUME NEW c, Checked(c), deployment \in Nat, NEW q \in Nat,
         q * EpochLength < Len(c), Len(c) <= q * EpochLength + EpochLength,
         NEW start, start = IF q * EpochLength = 0 /\ Len(c) > 1 /\ deployment = 0 THEN 1 ELSE q * EpochLength
  PROVE  InForce(c, q) = IF HeaderIsNull(BlockAt(c, start)) THEN PreDynafedParameters
                         ELSE BlockAt(c, start).m_current
<1>1. Len(c) \in Nat /\ q * EpochLength \in Nat /\ EpochLength \in Nat \ {0}
  BY Product, EpochAssumption DEF Checked
<1>2. InForce(c, q) \in Adopted /\ InForce(c, q) # Null
  BY <1>1, InForceAdopted, AdoptedFields DEF Checked
<1>3. PreDynafedParameters # Null
  BY AdoptedFields DEF Adopted
<1>4. CASE q = 0
  <2>1. InForce(c, q) = PreDynafedParameters /\ q * EpochLength = 0
    BY <1>4, InForceFirst, EpochAssumption
  <2>2. HeaderIsNull(BlockAt(c, 0))
    BY DEF Checked, Genesis, HeaderIsNull
  <2>3. CASE Len(c) > 1 /\ deployment = 0
    <3>1. 1 \div EpochLength = 0 /\ 1 \in 1 .. Len(c) - 1
      BY <1>1, <2>1, <2>3
    <3>2. EntryVoted(c, 1) /\ HeaderIsNull(BlockAt(c, 1 - 1))
      BY <2>2, <3>1 DEF Checked
    <3>3. BlockAt(c, 1).m_current = InForce(c, 0)
      BY <2>3, <3>1, <3>2 DEF EntryVoted
    <3>4. start = 1
      BY <2>1, <2>3
    <3> QED BY <1>2, <1>4, <3>3, <3>4 DEF HeaderIsNull
  <2>4. CASE ~(Len(c) > 1 /\ deployment = 0)
    BY <2>1, <2>2, <2>4
  <2> QED BY <2>3, <2>4
<1>5. CASE q # 0
  <2>1. start = q * EpochLength /\ start \in 1 .. Len(c) - 1
    <3>1. q * EpochLength # 0
      BY <1>5, EpochBlocks
    <3> QED BY <1>1, <3>1
  <2>2. start \div EpochLength = q /\ start % EpochLength = 0
    <3>1. 0 \in 0 .. EpochLength - 1 /\ start = q * EpochLength + 0
      BY <1>1, <2>1
    <3> QED BY <3>1, DivisionIs
  <2>3. (start < deployment => HeaderIsNull(BlockAt(c, start))) /\ EntryVoted(c, start)
    BY <2>1 DEF Checked
  <2>4. CASE start < deployment
    <3>1. ASSUME NEW h \in 0 .. q * EpochLength - 1 PROVE BlockAt(c, h).m_proposed = Null
      <4>1. h = 0 \/ (h \in 1 .. Len(c) - 1 /\ h < deployment)
        BY <1>1, <2>1, <2>4
      <4> QED BY <4>1 DEF Checked, Genesis, HeaderIsNull
    <3> QED BY Zenon, <2>3, <2>4, <3>1, InForceUnvoted
  <2>5. CASE ~(start < deployment)
    <3>1. BlockAt(c, start).m_current = InForce(c, q)
      BY <2>2, <2>3, <2>5 DEF EntryVoted
    <3> QED BY Zenon, <1>2, <3>1 DEF HeaderIsNull
  <2> QED BY <2>4, <2>5
<1> QED BY <1>4, <1>5

(* ComputeNextBlockFullCurrentParameters finds the parameters that all     *)
(* votes decide.                                                           *)
LEMMA ComputesInForce ==
  ASSUME NEW c, Checked(c), deployment \in Nat
  PROVE  ComputeNextBlockFullCurrentParameters(c) = InForce(c, Len(c) \div EpochLength)
<1> DEFINE n == Len(c)
           q == n \div EpochLength
           r == n % EpochLength
           first(s) == IF s = 0 /\ n > 1 /\ deployment = 0 THEN 1 ELSE s
           read(h) == IF HeaderIsNull(BlockAt(c, h)) THEN PreDynafedParameters ELSE BlockAt(c, h).m_current
<1>1. n \in Nat \ {0} /\ EpochLength \in Nat \ {0}
  BY EpochAssumption DEF Checked
<1>2. q \in Nat /\ r \in 0 .. EpochLength - 1 /\ n = q * EpochLength + r /\ q * EpochLength \in Nat
  BY Zenon, <1>1, Division, Product
<1> HIDE DEF n, q, r, read, first
<1>3. CASE r # 0
  <2>1. ComputeNextBlockFullCurrentParameters(c) = read(EpochStartHeight(c))
    BY <1>3 DEF ComputeNextBlockFullCurrentParameters, NextBlockIsParameterTransition, r, n, read
  <2>2. EpochStartHeight(c) = first(n - r - 0)
    BY <1>3 DEF EpochStartHeight, n, r, first
  <2>3. EpochStartHeight(c) = first(q * EpochLength)
    BY <1>2, <2>2
  <2>4. q * EpochLength < n /\ n <= q * EpochLength + EpochLength
    BY <1>1, <1>2, <1>3
  <2>5. InForce(c, q) = read(first(q * EpochLength))
    BY <1>2, <2>4, StartBlockIs DEF n, read, first
  <2> QED BY <2>1, <2>3, <2>5 DEF q, n
<1>4. CASE r = 0
  <2>1. q \in Nat \ {0} /\ n = q * EpochLength
    <3>1. q # 0
      BY <1>1, <1>2, <1>4
    <3> QED BY <1>2, <1>4, <3>1
  <2>2. Voting(c)
    BY DEF Checked
  <2>3. /\ ReachesThreshold(c) # {} <=> Winners(c, q) # {}
        /\ Winners(c, q) # {} => WinningEntry(c) = Winner(c, q)
    BY <2>1, <2>2, Tally DEF n
  <2>4. CASE Winners(c, q) # {}
    <3>1. ComputeNextBlockFullCurrentParameters(c) = WinningEntry(c)
      BY <1>4, <2>3, <2>4 DEF ComputeNextBlockFullCurrentParameters, NextBlockIsParameterTransition, r, n
    <3> QED BY <2>1, <2>3, <2>4, <3>1, InForceNext DEF q, n
  <2>5. CASE Winners(c, q) = {}
    <3>1. ComputeNextBlockFullCurrentParameters(c) = read(EpochStartHeight(c))
      BY <2>3, <2>5 DEF ComputeNextBlockFullCurrentParameters, NextBlockIsParameterTransition, read
    <3>2. EpochStartHeight(c) = first(n - 0 - EpochLength)
      BY <1>4 DEF EpochStartHeight, n, r, first
    <3>3. /\ (q - 1) * EpochLength = n - 0 - EpochLength /\ q - 1 \in Nat
          /\ (q - 1) * EpochLength < n /\ n <= (q - 1) * EpochLength + EpochLength
      BY <1>1, <2>1, EpochBlocks
    <3>4. InForce(c, q - 1) = read(first((q - 1) * EpochLength))
      BY <3>3, StartBlockIs DEF n, read, first
    <3>5. InForce(c, q) = InForce(c, q - 1)
      BY <2>1, <2>5, InForceNext
    <3> QED BY Zenon, <3>1, <3>2, <3>3, <3>4, <3>5 DEF q, n
  <2> QED BY <2>4, <2>5
<1> QED BY <1>3, <1>4
-----------------------------------------------------------------------------
(* Chains *)

LEMMA Appended ==
  ASSUME NEW S, NEW c \in Seq(S), NEW hdr \in S
  PROVE  LET d == Append(c, hdr)
         IN  /\ d \in Seq(S) /\ Len(c) \in Nat /\ Len(d) = Len(c) + 1
             /\ BlockAt(d, Len(c)) = hdr
             /\ \A h \in 0 .. Len(c) - 1 : BlockAt(d, h) = BlockAt(c, h)
             /\ Tip(d) = hdr
             /\ SubSeq(d, 1, Len(d) - 1) = c
<1> DEFINE d == Append(c, hdr)
<1>1. d \in Seq(S) /\ Len(c) \in Nat /\ Len(d) = Len(c) + 1
  OBVIOUS
<1>2. d[Len(c) + 1] = hdr /\ \A i \in 1 .. Len(c) : d[i] = c[i]
  OBVIOUS
<1> HIDE DEF d
<1>3. BlockAt(d, Len(c)) = hdr /\ Tip(d) = hdr
  BY <1>1, <1>2 DEF BlockAt, Tip
<1>4. \A h \in 0 .. Len(c) - 1 : BlockAt(d, h) = BlockAt(c, h)
  BY <1>1, <1>2 DEF BlockAt
<1>5. SubSeq(d, 1, Len(d) - 1) = c
  <2> DEFINE s == SubSeq(d, 1, Len(d) - 1)
  <2>1. s \in Seq(S) /\ Len(s) = Len(c) /\ \A i \in 1 .. Len(c) : s[i] = c[i]
    BY <1>1, <1>2
  <2> HIDE DEF s
  <2>2. s = c
    BY <2>1
  <2> QED BY <2>2 DEF s
<1> QED BY <1>1, <1>3, <1>4, <1>5 DEF d

LEMMA Shortened ==
  ASSUME NEW S, NEW c \in Seq(S), Len(c) > 1
  PROVE  LET d == SubSeq(c, 1, Len(c) - 1)
         IN  /\ d \in Seq(S) /\ Len(c) \in Nat /\ Len(d) = Len(c) - 1
             /\ \A h \in 0 .. Len(d) - 1 : BlockAt(d, h) = BlockAt(c, h)
<1> DEFINE d == SubSeq(c, 1, Len(c) - 1)
<1>1. d \in Seq(S) /\ Len(c) \in Nat /\ Len(d) = Len(c) - 1 /\ \A i \in 1 .. Len(c) - 1 : d[i] = c[i]
  OBVIOUS
<1> HIDE DEF d
<1>2. \A h \in 0 .. Len(d) - 1 : BlockAt(d, h) = BlockAt(c, h)
  BY <1>1 DEF BlockAt
<1> QED BY <1>1, <1>2 DEF d

(* The entry of a header depends on no later block. *)
LEMMA EntryPrefix ==
  ASSUME NEW c, NEW d, NEW n \in Nat, \A h \in 0 .. n - 1 : BlockAt(d, h) = BlockAt(c, h),
         NEW h \in 1 .. n - 1
  PROVE  EntryVoted(d, h) <=> EntryVoted(c, h)
<1> DEFINE q == h \div EpochLength
<1>1. q \in Nat /\ q * EpochLength <= h
  BY Division, Product
<1> HIDE DEF q
<1>2. InForce(d, q) = InForce(c, q)
  <2>1. \A k \in 0 .. q * EpochLength - 1 : BlockAt(d, k) = BlockAt(c, k)
    BY <1>1, Product
  <2> QED BY <1>1, <2>1, InForcePrefix
<1>3. BlockAt(d, h) = BlockAt(c, h) /\ BlockAt(d, h - 1) = BlockAt(c, h - 1)
  OBVIOUS
<1> QED BY <1>2, <1>3, Zenon DEF EntryVoted, q

LEMMA ShortenedChecked ==
  ASSUME NEW c, Checked(c), Len(c) > 1
  PROVE  Checked(SubSeq(c, 1, Len(c) - 1))
<1> DEFINE d == SubSeq(c, 1, Len(c) - 1)
<1>1. c \in Seq(Header) /\ BlockAt(c, 0) = Genesis /\ Voting(c)
  BY DEF Checked
<1>2. /\ d \in Seq(Header) /\ Len(c) \in Nat /\ Len(d) = Len(c) - 1
      /\ \A h \in 0 .. Len(d) - 1 : BlockAt(d, h) = BlockAt(c, h)
  BY <1>1, Shortened
<1> HIDE DEF d
<1>3. Len(d) \in Nat /\ Len(d) > 0 /\ BlockAt(d, 0) = Genesis
  BY <1>1, <1>2
<1>4. Voting(d)
  BY <1>1, <1>2, <1>3 DEF Voting
<1>5. ASSUME NEW h \in 1 .. Len(d) - 1
      PROVE  (h < deployment => HeaderIsNull(BlockAt(d, h))) /\ EntryVoted(d, h)
  <2>1. h \in 1 .. Len(c) - 1 /\ BlockAt(d, h) = BlockAt(c, h)
    BY <1>2, <1>3
  <2>2. EntryVoted(d, h) <=> EntryVoted(c, h)
    BY Zenon, <1>2, <1>3, EntryPrefix
  <2> QED BY <2>1, <2>2 DEF Checked
<1> QED BY <1>2, <1>3, <1>4, <1>5 DEF Checked, d

(* Before dynafed is active, and only then, the last header is null. *)
LEMMA NullTip ==
  ASSUME NEW c, Checked(c), deployment \in Nat, HeaderIsNull(Tip(c))
  PROVE  Len(c) = 1 \/ Len(c) - 1 < deployment
<1> DEFINE n == Len(c)
           h == n - 1
           q == h \div EpochLength
<1>1. n \in Nat \ {0} /\ Tip(c) = BlockAt(c, h)
  BY DEF Checked, Tip, BlockAt
<1> SUFFICES ASSUME n # 1, ~(h < deployment) PROVE FALSE
  OBVIOUS
<1> HIDE DEF n
<1>2. h \in 1 .. n - 1 /\ h \in Nat
  BY <1>1
<1>3. EntryVoted(c, h)
  BY <1>2 DEF Checked, n
<1> HIDE DEF h
<1>4. q \in Nat /\ q * EpochLength <= h
  BY <1>2, Division, Product
<1> HIDE DEF q
<1>5. InForce(c, q) # Null
  <2>1. q * EpochLength <= n
    BY <1>1, <1>4, <1>2, Product
  <2> QED BY <1>1, <1>4, <2>1, InForceAdopted, AdoptedFields DEF Checked, n
<1>6. BlockAt(c, h).m_current # Null
  <2>1. Null.m_serialize_type = 0
    BY DEF Null, Entry
  <2> QED BY <1>3, <1>5, <2>1 DEF EntryVoted, q
<1> QED BY <1>1, <1>6 DEF HeaderIsNull

(* The rules on proposals let no entry in that elides its data. *)
LEMMA ProposalAdopted ==
  ASSUME NEW p \in Proposals, NEW current \in Adopted, ProposalAllowed(p, current)
  PROVE  p \in Adopted
<1>1. p.m_fedpeg_program # <<>>
  <2> SUFFICES ASSUME p.m_fedpeg_program = <<>> PROVE FALSE
    OBVIOUS
  <2>1. p.m_fedpeg_program # current.m_fedpeg_program
    BY AdoptedFields
  <2>2. IsWitnessProgram(p.m_fedpeg_program)
    BY <2>1 DEF ProposalAllowed
  <2> QED BY <2>2 DEF IsWitnessProgram
<1> QED BY <1>1, ProposalFields DEF Adopted

LEMMA CompactFields ==
  ASSUME NEW s, NEW r
  PROVE  Compact(s, r).m_serialize_type = 1 /\ Compact(s, r).m_signblockscript = s
BY DEF Compact, Entry

LEMMA CandidateIsHeader ==
  ASSUME NEW c, Checked(c), deployment \in Nat, NEW hdr \in CandidateHeaders(c)
  PROVE  hdr \in Header
<1> DEFINE F == ComputeNextBlockFullCurrentParameters(c)
           X == ComputeNextBlockCurrentParameters(c)
           Entries == {PreDynafedParameters} \cup Proposals
           Signs == {e.m_signblockscript : e \in Entries}
           Roots == ForeignRoots \cup {CalculateExtraRoot(e) : e \in Entries}
<1>1. F \in Entries
  <2> DEFINE q == Len(c) \div EpochLength
  <2>1. Len(c) \in Nat /\ q \in Nat /\ q * EpochLength <= Len(c)
    BY EpochOf DEF Checked
  <2> HIDE DEF q
  <2>2. InForce(c, q) \in Adopted
    BY <2>1, InForceAdopted DEF Checked
  <2> QED BY <2>2, ComputesInForce DEF Adopted, q
<1> HIDE DEF F
<1>2. X = F \/ X = Compact(F.m_signblockscript, CalculateExtraRoot(F))
  BY DEF ComputeNextBlockCurrentParameters, F
<1>3. X.m_signblockscript = F.m_signblockscript
  BY <1>2, CompactFields
<1> HIDE DEF X
<1>4. F.m_signblockscript \in Signs /\ CalculateExtraRoot(F) \in Roots
  BY <1>1
<1>5. hdr \in [m_current : {Null, X} \cup {Compact(X.m_signblockscript, r) : r \in ForeignRoots},
               m_proposed : {Null} \cup Proposals]
  BY DEF CandidateHeaders, X
<1> HIDE DEF Entries, Signs, Roots
<1>6. X \in Entries \cup {Compact(s, r) : s \in Signs, r \in Roots}
  BY <1>1, <1>2, <1>4
<1>7. ASSUME NEW r \in ForeignRoots
      PROVE  Compact(X.m_signblockscript, r) \in {Compact(s, t) : s \in Signs, t \in Roots}
  BY <1>3, <1>4 DEF Roots
<1>8. hdr \in [m_current : {Null} \cup Entries \cup {Compact(s, r) : s \in Signs, r \in Roots},
               m_proposed : {Null} \cup Proposals]
  BY <1>5, <1>6, <1>7
<1> QED BY <1>8 DEF Header, Entries, Signs, Roots

(* A header that passes ContextualCheckDynaFedHeader carries the entry     *)
(* that the votes demand.                                                  *)
LEMMA NewEntryVoted ==
  ASSUME NEW c, Checked(c), deployment \in Nat, NEW hdr \in CandidateHeaders(c),
         ContextualCheckDynaFedHeader(c, hdr), Len(c) >= deployment,
         NEW F, F = InForce(c, Len(c) \div EpochLength)
  PROVE  LET first == deployment \in {0, Len(c)} /\ HeaderIsNull(Tip(c))
         IN  IF Len(c) % EpochLength = 0 \/ first THEN hdr.m_current = F
             ELSE /\ hdr.m_current.m_serialize_type = 1
                  /\ hdr.m_current.m_signblockscript = F.m_signblockscript
<1> DEFINE entry == hdr.m_current
           X == ComputeNextBlockCurrentParameters(c)
           n == Len(c)
           whole == n % EpochLength = 0 \/ HeaderIsNull(Tip(c))
<1>1. ComputeNextBlockFullCurrentParameters(c) = F /\ n \in Nat \ {0} /\ n >= deployment
  BY ComputesInForce DEF Checked
<1>2. X = IF whole THEN F ELSE Compact(F.m_signblockscript, CalculateExtraRoot(F))
  BY <1>1, Zenon DEF ComputeNextBlockCurrentParameters
<1>3. entry # Null /\ SameEntry(X, entry)
  BY DEF ContextualCheckDynaFedHeader, DeploymentActiveAfter
<1>4. entry \in {Null, X} \cup {Compact(X.m_signblockscript, r) : r \in ForeignRoots}
  BY Zenon DEF CandidateHeaders
<1>5. F.m_serialize_type = 2 /\ DOMAIN F = DOMAIN Null
  <2> DEFINE q == n \div EpochLength
  <2>1. q \in Nat /\ q * EpochLength <= n
    BY <1>1, EpochOf
  <2> HIDE DEF q
  <2>2. F \in Adopted
    BY Zenon, <1>1, <2>1, InForceAdopted DEF Checked, q
  <2>3. PICK s, g, f, x : F = Full(s, g, f, x)
    BY <2>2, AdoptedFields
  <2> QED BY <2>3 DEF Full, Null, Entry
<1>6. DOMAIN X = DOMAIN Null
  BY <1>2, <1>5 DEF Compact, Null, Entry
<1>7. "m_serialize_type" \in DOMAIN Null \ {"m_elided_root"} /\ "m_signblockscript" \in DOMAIN Null \ {"m_elided_root"}
  BY DEF Null, Entry
<1>8. entry.m_serialize_type = X.m_serialize_type /\ entry.m_signblockscript = X.m_signblockscript
  BY <1>3, <1>6, <1>7 DEF SameEntry
<1> HIDE DEF entry, X
<1>9. CASE whole
  <2>1. entry = F
    BY <1>2, <1>3, <1>4, <1>5, <1>8, <1>9, CompactFields
  <2>2. n % EpochLength = 0 \/ (deployment \in {0, n} /\ HeaderIsNull(Tip(c)))
    <3>1. CASE HeaderIsNull(Tip(c))
      <4>1. n = 1 \/ n - 1 < deployment
        BY <3>1, NullTip
      <4> HIDE DEF n
      <4>2. deployment \in {0, n}
        BY <1>1, <4>1
      <4> QED BY <3>1, <4>2
    <3> QED BY <1>9, <3>1
  <2> QED BY Zenon, <2>1, <2>2 DEF entry
<1>10. CASE ~whole
  <2>1. X.m_serialize_type = 1 /\ X.m_signblockscript = F.m_signblockscript
    BY ZenonT(30), <1>2, <1>10, CompactFields
  <2> HIDE DEF n
  <2> QED BY Zenon, <1>8, <1>10, <2>1 DEF entry, n
<1> QED BY <1>9, <1>10

LEMMA AppendedChecked ==
  ASSUME NEW c, Checked(c), deployment \in Nat, NEW hdr \in CandidateHeaders(c),
         ContextualCheckDynaFedHeader(c, hdr)
  PROVE  Checked(Append(c, hdr))
<1> DEFINE d == Append(c, hdr)
           n == Len(c)
           q == n \div EpochLength
<1>1. hdr \in Header /\ c \in Seq(Header) /\ n \in Nat \ {0} /\ Voting(c) /\ BlockAt(c, 0) = Genesis
  BY CandidateIsHeader DEF Checked
<1>2. /\ d \in Seq(Header) /\ Len(d) = n + 1 /\ BlockAt(d, n) = hdr
      /\ \A h \in 0 .. n - 1 : BlockAt(d, h) = BlockAt(c, h)
  BY <1>1, Appended
<1>3. q \in Nat /\ q * EpochLength \in Nat /\ q * EpochLength <= n
  BY <1>1, EpochOf
<1>4. BlockAt(c, n - 1) = Tip(c)
  BY <1>1 DEF BlockAt, Tip
<1> HIDE DEF d, n, q
<1>5. InForce(c, q) \in Adopted /\ InForce(d, q) = InForce(c, q)
  <2>1. \A h \in 0 .. q * EpochLength - 1 : BlockAt(d, h) = BlockAt(c, h)
    BY <1>1, <1>2, <1>3
  <2>2. InForce(c, q) \in Adopted
    BY ZenonT(30), <1>1, <1>3, InForceAdopted DEF n
  <2> QED BY Zenon, <1>3, <2>1, <2>2, InForcePrefix
<1>6. hdr.m_proposed \in {Null} \cup (Adopted \cap Proposals)
  <2>1. hdr.m_proposed \in {Null} \cup Proposals
    BY DEF CandidateHeaders
  <2>2. CASE DeploymentActiveAfter(c) /\ hdr.m_proposed # Null
    <3>1. ProposalAllowed(hdr.m_proposed, InForce(c, q))
      BY <2>2, ComputesInForce DEF ContextualCheckDynaFedHeader, q, n
    <3> QED BY ZenonT(30), <1>5, <2>1, <2>2, <3>1, ProposalAdopted
  <2> QED BY <2>2 DEF ContextualCheckDynaFedHeader, HeaderIsNull
<1>7. Voting(d)
  <2>1. ASSUME NEW h \in 0 .. Len(d) - 1
        PROVE  BlockAt(d, h).m_proposed \in {Null} \cup (Adopted \cap Proposals)
    <3>1. h \in 0 .. n - 1 \/ h = n
      BY <1>1, <1>2
    <3> QED BY <1>1, <1>2, <1>6, <3>1 DEF Voting, n
  <2> QED BY <2>1 DEF Voting
<1>8. ASSUME NEW h \in 1 .. Len(d) - 1
      PROVE  (h < deployment => HeaderIsNull(BlockAt(d, h))) /\ EntryVoted(d, h)
  <2>1. h \in 1 .. n - 1 \/ h = n
    BY <1>1, <1>2
  <2>2. CASE h \in 1 .. n - 1
    <3>1. BlockAt(d, h) = BlockAt(c, h)
      BY <1>1, <1>2, <2>2
    <3>2. EntryVoted(d, h) <=> EntryVoted(c, h)
      BY ZenonT(30), <1>1, <1>2, <2>2, EntryPrefix
    <3> QED BY <2>2, <3>1, <3>2 DEF Checked, n
  <2>3. CASE h = n /\ n < deployment
    <3>1. HeaderIsNull(hdr)
      BY <2>3 DEF ContextualCheckDynaFedHeader, DeploymentActiveAfter, n
    <3> QED BY <1>2, <2>3, <3>1 DEF EntryVoted, HeaderIsNull
  <2>4. CASE h = n /\ ~(n < deployment)
    <3>1. BlockAt(d, n - 1) = Tip(c)
      BY <1>1, <1>2, <1>4
    <3>2. IF n % EpochLength = 0 \/ (deployment \in {0, n} /\ HeaderIsNull(Tip(c)))
            THEN hdr.m_current = InForce(c, q)
          ELSE /\ hdr.m_current.m_serialize_type = 1
               /\ hdr.m_current.m_signblockscript = InForce(c, q).m_signblockscript
      <4>1. Len(c) >= deployment
        BY <1>1, <2>4 DEF n
      <4> QED BY <4>1, NewEntryVoted DEF n, q
    <3>3. InForce(d, n \div EpochLength) = InForce(c, q)
      BY <1>5 DEF q
    <3>4. EntryVoted(d, n)
      BY <1>2, <2>4, <3>1, <3>2, <3>3, Zenon DEF EntryVoted
    <3> QED BY <2>4, <3>4
  <2> QED BY Zenon, <2>1, <2>2, <2>3, <2>4
<1>9. Len(d) > 0 /\ BlockAt(d, 0) = Genesis
  BY <1>1, <1>2
<1> QED BY <1>2, <1>7, <1>8, <1>9 DEF Checked, d
-----------------------------------------------------------------------------
(* Federation scripts *)

(* The script that GetValidFedpegScripts reads at the start of epoch k. *)
LEMMA ScriptAt ==
  ASSUME NEW c, Checked(c), deployment \in Deployments, NEW k \in Nat, k * EpochLength <= Len(c),
         NEW h, h = k * EpochLength
  PROVE  FedpegInForce(c, k) =
           IF h > Len(c) - 1 THEN FedpegOf(ComputeNextBlockFullCurrentParameters(c))
           ELSE IF HeaderIsNull(BlockAt(c, h)) THEN <<P2SHP2WSH(FedpegScript), FedpegScript>>
           ELSE FedpegOf(BlockAt(c, h).m_current)
<1> DEFINE n == Len(c)
<1>1. deployment \in Nat /\ n \in Nat \ {0} /\ h \in Nat /\ h <= n
  BY EpochAssumption, Product DEF Checked
<1>2. h \div EpochLength = k /\ h % EpochLength = 0
  <2>1. 0 \in 0 .. EpochLength - 1 /\ h = k * EpochLength + 0
    BY <1>1, EpochAssumption
  <2> QED BY <2>1, DivisionIs
<1>3. InForce(c, k) \in Adopted /\ InForce(c, k) # Null
  BY <1>1, InForceAdopted, AdoptedFields DEF Checked
<1> HIDE DEF n
<1>4. ASSUME h < deployment \/ k = 0
      PROVE  FedpegInForce(c, k) = <<P2SHP2WSH(FedpegScript), FedpegScript>>
  BY <1>4 DEF FedpegInForce
<1>5. ASSUME ~(h < deployment), k # 0
      PROVE  FedpegInForce(c, k) = FedpegOf(InForce(c, k))
  BY Zenon, <1>5 DEF FedpegInForce
<1>6. CASE h > n - 1
  <2>1. h = n /\ k # 0
    BY <1>1, <1>6, EpochAssumption
  <2>2. ComputeNextBlockFullCurrentParameters(c) = InForce(c, k)
    BY Zenon, <1>1, <1>2, <2>1, ComputesInForce DEF n
  <2>3. CASE h < deployment
    <3>1. ASSUME NEW i \in 0 .. k * EpochLength - 1 PROVE BlockAt(c, i).m_proposed = Null
      <4>1. i = 0 \/ (i \in 1 .. n - 1 /\ i < deployment)
        BY <1>1, <2>1, <2>3
      <4> QED BY <4>1 DEF Checked, Genesis, HeaderIsNull, n
    <3>2. InForce(c, k) = PreDynafedParameters
      BY <3>1, InForceUnvoted
    <3>3. ~StartP2wsh
      BY <1>1, <2>3, StartAssumption
    <3>4. FedpegOf(PreDynafedParameters) = <<P2SHP2WSH(FedpegScript), FedpegScript>>
      BY <3>3 DEF FedpegOf, PreDynafedParameters, Full, Entry
    <3> QED BY Zenon, <1>4, <1>6, <2>2, <2>3, <3>2, <3>4 DEF n
  <2> QED BY Zenon, <1>5, <1>6, <2>1, <2>2, <2>3 DEF n
<1>7. CASE ~(h > n - 1)
  <2>1. CASE k = 0
    <3>1. h = 0
      BY <2>1, EpochAssumption
    <3> QED BY <1>4, <1>7, <2>1, <3>1 DEF Checked, Genesis, HeaderIsNull, n
  <2>2. CASE k # 0
    <3>1. h \in 1 .. n - 1
      <4>1. h # 0
        BY <2>2, EpochBlocks
      <4> QED BY <1>1, <1>7, <4>1
    <3>2. (h < deployment => HeaderIsNull(BlockAt(c, h))) /\ EntryVoted(c, h)
      BY Zenon, <3>1 DEF Checked, n
    <3>3. ~(h < deployment) => BlockAt(c, h).m_current = InForce(c, k)
      BY <1>2, <3>2 DEF EntryVoted
    <3>4. ~(h < deployment) => ~HeaderIsNull(BlockAt(c, h))
      BY <1>3, <3>3 DEF HeaderIsNull
    <3> QED BY Zenon, <1>4, <1>5, <1>7, <2>2, <3>2, <3>3, <3>4 DEF n
  <2> QED BY <2>1, <2>2
<1> QED BY <1>6, <1>7

(* GetValidFedpegScripts walks back from the start of an epoch. *)
LEMMA ScriptsFrom ==
  ASSUME NEW c, Checked(c), deployment \in Deployments, NEW q \in Nat, q * EpochLength <= Len(c)
  PROVE  LET newest == q * EpochLength
             At(h)  == IF h > Len(c) - 1 THEN FedpegOf(ComputeNextBlockFullCurrentParameters(c))
                       ELSE IF HeaderIsNull(BlockAt(c, h)) THEN <<P2SHP2WSH(FedpegScript), FedpegScript>>
                       ELSE FedpegOf(BlockAt(c, h).m_current)
         IN  [i \in 1 .. Min({TotalValidEpochs, 1 + (newest \div EpochLength)}) |->
                At(newest - (i - 1) * EpochLength)] = LastScripts(c, q)
<1> DEFINE n == Len(c)
           newest == q * EpochLength
           At(h) == IF h > n - 1 THEN FedpegOf(ComputeNextBlockFullCurrentParameters(c))
                    ELSE IF HeaderIsNull(BlockAt(c, h)) THEN <<P2SHP2WSH(FedpegScript), FedpegScript>>
                    ELSE FedpegOf(BlockAt(c, h).m_current)
           size == Min({TotalValidEpochs, q + 1})
<1>1. n \in Nat /\ newest \in Nat /\ newest <= n
  BY Product DEF Checked
<1>2. 1 + (newest \div EpochLength) = q + 1
  <2>1. 0 \in 0 .. EpochLength - 1 /\ newest = q * EpochLength + 0
    BY <1>1, EpochAssumption
  <2>2. newest \div EpochLength = q
    BY <2>1, DivisionIs
  <2> HIDE DEF newest
  <2> QED BY <2>2
<1>3. size \in Nat /\ size <= q + 1
  <2>1. {TotalValidEpochs, q + 1} \in SUBSET Nat
    BY EpochAssumption
  <2> QED BY <2>1, MinimumExists
<1> HIDE DEF size
<1>4. ASSUME NEW i \in 1 .. size
      PROVE  At(newest - (i - 1) * EpochLength) = FedpegInForce(c, q + 1 - i)
  <2> DEFINE k == q + 1 - i
  <2>1. k \in Nat /\ k <= q /\ i - 1 = q - k
    BY <1>3
  <2> HIDE DEF k
  <2>2. newest - (i - 1) * EpochLength = k * EpochLength
    <3>1. newest - (q - k) * EpochLength = k * EpochLength
      BY <2>1, EpochAssumption
    <3> QED BY <2>1, <3>1
  <2>3. k * EpochLength <= n
    <3>1. k * EpochLength <= newest /\ k * EpochLength \in Nat
      BY Zenon, <2>1, ProductMonotone, Product
    <3> HIDE DEF newest, n
    <3> QED BY <1>1, <3>1
  <2>4. At(k * EpochLength) = FedpegInForce(c, k)
    BY <2>1, <2>3, ScriptAt
  <2> HIDE DEF At, newest
  <2> QED BY <2>2, <2>4 DEF k
<1> HIDE DEF At, newest
<1>5. [i \in 1 .. Min({TotalValidEpochs, 1 + (newest \div EpochLength)}) |->
         At(newest - (i - 1) * EpochLength)] = LastScripts(c, q)
  BY Zenon, <1>2, <1>4 DEF LastScripts, size
<1> QED BY Zenon, <1>5 DEF At, newest, n

(* It starts with the epoch of the last block or of the next one. *)
LEMMA NewestEpoch ==
  ASSUME NEW m \in Nat, NEW nextblock \in BOOLEAN,
         NEW q, q = (IF nextblock THEN m + 1 ELSE m) \div EpochLength
  PROVE  /\ q \in Nat /\ q * EpochLength <= m + 1
         /\ (IF nextblock /\ m % EpochLength = EpochLength - 1 THEN m + 1 ELSE m - (m % EpochLength))
              = q * EpochLength
<1> DEFINE a == (m \div EpochLength) * EpochLength
           r == m % EpochLength
<1>1. a \in Nat /\ r \in Nat /\ m = a + r
  BY Zenon, Division, Product
<1> HIDE DEF a, r
<1>2. m - r = a /\ a <= m + 1
  BY <1>1
<1>3. CASE nextblock /\ r = EpochLength - 1
  <2>1. q = (m + 1) \div EpochLength /\ (m + 1) % EpochLength = 0 /\ m + 1 \in Nat
    BY <1>3, NextHeight DEF r
  <2>2. q \in Nat /\ m + 1 = q * EpochLength + ((m + 1) % EpochLength)
    BY <2>1, Division
  <2>3. q * EpochLength \in Nat
    BY <2>2, Product
  <2>4. q * EpochLength = m + 1
    BY <2>1, <2>2, <2>3
  <2> QED BY <1>3, <2>2, <2>4 DEF r
<1>4. CASE ~(nextblock /\ r = EpochLength - 1)
  <2>1. q = m \div EpochLength
    BY <1>4, NextHeight DEF r
  <2>2. q \in Nat
    BY <2>1, Division
  <2>3. q * EpochLength = a
    BY Zenon, <2>1 DEF a
  <2> QED BY Zenon, <1>2, <1>4, <2>2, <2>3 DEF r
<1> QED BY <1>3, <1>4

LEMMA ScriptsAre ==
  ASSUME NEW c, Checked(c), deployment \in Deployments, NEW nextblock \in BOOLEAN,
         NEW q, q = (IF nextblock THEN Len(c) ELSE Len(c) - 1) \div EpochLength
  PROVE  GetValidFedpegScripts(c, nextblock) = LastScripts(c, q)
<1> DEFINE m == Len(c) - 1
           newest == IF nextblock /\ m % EpochLength = EpochLength - 1 THEN m + 1 ELSE m - (m % EpochLength)
           At(h) == IF h > m THEN FedpegOf(ComputeNextBlockFullCurrentParameters(c))
                    ELSE IF HeaderIsNull(BlockAt(c, h)) THEN <<P2SHP2WSH(FedpegScript), FedpegScript>>
                    ELSE FedpegOf(BlockAt(c, h).m_current)
<1>1. m \in Nat /\ Len(c) = m + 1
  BY DEF Checked
<1>2. GetValidFedpegScripts(c, nextblock)
        = [i \in 1 .. Min({TotalValidEpochs, 1 + (newest \div EpochLength)}) |->
             At(newest - (i - 1) * EpochLength)]
  BY DEF GetValidFedpegScripts
<1>3. q = (IF nextblock THEN m + 1 ELSE m) \div EpochLength
  BY <1>1
<1>4. q \in Nat /\ q * EpochLength <= Len(c) /\ newest = q * EpochLength
  <2> HIDE DEF m
  <2>1. q \in Nat /\ q * EpochLength <= m + 1 /\ newest = q * EpochLength
    BY ZenonT(30), <1>1, <1>3, NewestEpoch
  <2> HIDE DEF newest
  <2> QED BY Zenon, <1>1, <2>1
<1>5. [i \in 1 .. Min({TotalValidEpochs, 1 + ((q * EpochLength) \div EpochLength)}) |->
         At(q * EpochLength - (i - 1) * EpochLength)] = LastScripts(c, q)
  BY <1>4, ScriptsFrom, Zenon
<1> HIDE DEF newest, At
<1> QED BY <1>2, <1>4, <1>5

LEMMA LastScriptsPrefix ==
  ASSUME NEW c, NEW d, NEW q \in Nat,
         \A h \in 0 .. q * EpochLength - 1 : BlockAt(d, h) = BlockAt(c, h)
  PROVE  LastScripts(d, q) = LastScripts(c, q)
<1> DEFINE size == Min({TotalValidEpochs, q + 1})
<1>1. size \in Nat /\ size <= q + 1
  <2>1. {TotalValidEpochs, q + 1} \in SUBSET Nat
    BY EpochAssumption
  <2> QED BY <2>1, MinimumExists
<1> HIDE DEF size
<1>2. ASSUME NEW i \in 1 .. size PROVE FedpegInForce(d, q + 1 - i) = FedpegInForce(c, q + 1 - i)
  <2> DEFINE k == q + 1 - i
  <2>1. k \in Nat /\ k <= q
    BY <1>1
  <2> HIDE DEF k
  <2>2. \A h \in 0 .. k * EpochLength - 1 : BlockAt(d, h) = BlockAt(c, h)
    BY <2>1, ProductMonotone, Product
  <2>3. InForce(d, k) = InForce(c, k)
    BY <2>1, <2>2, InForcePrefix
  <2> QED BY <2>3 DEF FedpegInForce, k
<1> QED BY Zenon, <1>2 DEF LastScripts, size
-----------------------------------------------------------------------------
(* Peg transactions *)

(* The mempool's checks looked at the scripts and the PAK list that a next *)
(* block is checked against.                                               *)
LEMMA NextBlockAccepts ==
  ASSUME NEW c, Checked(c), deployment \in Deployments, NEW hdr \in CandidateHeaders(c),
         ContextualCheckDynaFedHeader(c, hdr), NEW tx, PoolTxValid(c, tx)
  PROVE  BlockTxValid(Append(c, hdr), tx)
<1> DEFINE d == Append(c, hdr)
           n == Len(c)
           q == n \div EpochLength
<1>1. Checked(d) /\ deployment \in Nat /\ hdr \in Header /\ c \in Seq(Header) /\ n \in Nat
  BY AppendedChecked, CandidateIsHeader, EpochAssumption DEF Checked
<1>2. Len(d) = n + 1 /\ SubSeq(d, 1, Len(d) - 1) = c /\ \A h \in 0 .. n - 1 : BlockAt(d, h) = BlockAt(c, h)
  BY <1>1, Appended
<1>3. q \in Nat /\ q * EpochLength \in Nat /\ q * EpochLength <= n
  BY <1>1, EpochOf
<1> HIDE DEF d, n
<1>4. q = (Len(d) - 1) \div EpochLength
  BY <1>1, <1>2
<1> HIDE DEF q
<1>5. GetValidFedpegScripts(d, FALSE) = LastScripts(d, q)
  BY Zenon, <1>1, <1>4, ScriptsAre
<1>6. GetValidFedpegScripts(c, TRUE) = LastScripts(c, q)
  BY Zenon, ScriptsAre DEF q, n
<1>7. LastScripts(d, q) = LastScripts(c, q)
  BY <1>1, <1>2, <1>3, LastScriptsPrefix
<1> QED BY ZenonT(30), <1>2, <1>5, <1>6, <1>7 DEF BlockTxValid, PoolTxValid, d

(* Within an epoch the rules stay the same. *)
LEMMA SameEpochAccepts ==
  ASSUME NEW c, Checked(c), deployment \in Deployments, NEW hdr \in CandidateHeaders(c),
         ContextualCheckDynaFedHeader(c, hdr), Len(Append(c, hdr)) % EpochLength # 0,
         NEW tx, PoolTxValid(c, tx)
  PROVE  PoolTxValid(Append(c, hdr), tx)
<1> DEFINE d == Append(c, hdr)
           n == Len(c)
           q == n \div EpochLength
<1>1. Checked(d) /\ deployment \in Nat /\ hdr \in Header /\ c \in Seq(Header) /\ n \in Nat
  BY AppendedChecked, CandidateIsHeader, EpochAssumption DEF Checked
<1>2. Len(d) = n + 1 /\ \A h \in 0 .. n - 1 : BlockAt(d, h) = BlockAt(c, h)
  BY <1>1, Appended
<1>3. q \in Nat /\ q * EpochLength \in Nat /\ q * EpochLength <= n
  BY <1>1, EpochOf
<1>4. (n + 1) % EpochLength # 0
  BY <1>2
<1> HIDE DEF d, n
<1>5. q = Len(d) \div EpochLength
  BY Zenon, <1>1, <1>2, <1>4, NextHeight
<1> HIDE DEF q
<1>6. \A h \in 0 .. q * EpochLength - 1 : BlockAt(d, h) = BlockAt(c, h)
  BY <1>1, <1>2, <1>3
<1>7. GetValidFedpegScripts(d, TRUE) = LastScripts(d, q) /\ GetValidFedpegScripts(c, TRUE) = LastScripts(c, q)
  <2>1. GetValidFedpegScripts(d, TRUE) = LastScripts(d, q)
    BY Zenon, <1>1, <1>5, ScriptsAre
  <2>2. GetValidFedpegScripts(c, TRUE) = LastScripts(c, q)
    BY Zenon, ScriptsAre DEF q, n
  <2> QED BY Zenon, <2>1, <2>2
<1>8. LastScripts(d, q) = LastScripts(c, q)
  BY <1>3, <1>6, LastScriptsPrefix
<1>9. GetActivePAKList(d) = GetActivePAKList(c)
  <2>1. InForce(d, q) = InForce(c, q)
    BY <1>3, <1>6, InForcePrefix
  <2>2. ComputeNextBlockFullCurrentParameters(d) = InForce(d, q)
    BY <1>1, <1>5, ComputesInForce
  <2>3. ComputeNextBlockFullCurrentParameters(c) = InForce(c, q)
    BY <1>1, ComputesInForce DEF q, n
  <2> QED BY <2>1, <2>2, <2>3 DEF GetActivePAKList
<1> QED BY Zenon, <1>7, <1>8, <1>9 DEF PoolTxValid, d
-----------------------------------------------------------------------------
(* The steps *)

LEMMA PrimedChecked ==
  ASSUME deployment' = deployment
  PROVE  Checked(chain)' <=> Checked(chain')
<1>1. \A h : EntryVoted(chain, h)' <=> EntryVoted(chain', h)
  BY DEF EntryVoted
<1> QED BY Zenon, <1>1 DEF Checked

LEMMA PrimedValid ==
  ASSUME deployment' = deployment, NEW tx
  PROVE  PoolTxValid(chain, tx)' <=> PoolTxValid(chain', tx)
<1>1. EpochStartHeight(chain)' = EpochStartHeight(chain')
  BY DEF EpochStartHeight
<1>2. ComputeNextBlockFullCurrentParameters(chain)' = ComputeNextBlockFullCurrentParameters(chain')
  BY ZenonT(30), <1>1 DEF ComputeNextBlockFullCurrentParameters
<1>3. GetValidFedpegScripts(chain, TRUE)' = GetValidFedpegScripts(chain', TRUE)
  BY <1>2 DEF GetValidFedpegScripts
<1>4. GetActivePAKList(chain)' = GetActivePAKList(chain')
  BY Zenon, <1>2 DEF GetActivePAKList
<1> QED BY <1>3, <1>4 DEF PoolTxValid

(* The headers of a checked chain are well formed. *)
LEMMA CheckedTypes ==
  ASSUME NEW c, Checked(c), NEW i \in DOMAIN c
  PROVE  /\ c[i].m_current.m_serialize_type \in 0 .. 2
         /\ c[i].m_proposed \in {Null} \cup {p \in Proposals : p.m_serialize_type = 2}
<1>1. c \in Seq(Header) /\ i \in 1 .. Len(c) /\ Len(c) \in Nat /\ c[i] \in Header
  BY DEF Checked
<1>2. c[i].m_current.m_serialize_type \in {0, 1, 2}
  <2> DEFINE entry == c[i].m_current
  <2>1. \/ entry = Null \/ entry = PreDynafedParameters \/ entry \in Proposals
        \/ \E s, r : entry = Compact(s, r)
    BY <1>1 DEF Header
  <2> HIDE DEF entry
  <2>2. CASE entry = Null
    <3>1. Null.m_serialize_type = 0
      BY DEF Null, Entry
    <3> QED BY <2>2, <3>1 DEF entry
  <2>3. CASE entry = PreDynafedParameters
    BY Zenon, <2>3, AdoptedFields DEF Adopted, entry
  <2>4. CASE entry \in Proposals
    BY <2>4, ProposalFields DEF entry
  <2>5. CASE \E s, r : entry = Compact(s, r)
    BY <2>5, CompactFields DEF entry
  <2> QED BY ZenonT(30), <2>1, <2>2, <2>3, <2>4, <2>5
<1>3. c[i].m_proposed \in {Null} \cup (Adopted \cap Proposals)
  <2>1. i - 1 \in 0 .. Len(c) - 1 /\ c[i] = BlockAt(c, i - 1)
    BY <1>1 DEF BlockAt
  <2> QED BY <2>1 DEF Checked, Voting
<1> QED BY <1>2, <1>3, AdoptedFields

LEMMA InitInv ==
  Init => IndInv
<1> SUFFICES ASSUME Init PROVE IndInv
  OBVIOUS
<1>1. Genesis \in Header /\ Len(chain) = 1 /\ chain \in Seq(Header) /\ BlockAt(chain, 0) = Genesis
  BY DEF Init, Genesis, Header, BlockAt
<1>2. Voting(chain)
  BY <1>1 DEF Voting, Genesis
<1>3. Checked(chain)
  BY <1>1, <1>2 DEF Checked
<1>4. TypeOK
  <2>1. \A i \in DOMAIN chain :
          /\ chain[i].m_current.m_serialize_type \in 0 .. 2
          /\ chain[i].m_proposed \in {Null} \cup {p \in Proposals : p.m_serialize_type = 2}
    BY <1>3, CheckedTypes
  <2> QED BY <2>1 DEF Init, TypeOK
<1> QED BY <1>3, <1>4 DEF IndInv, Init

LEMMA ConnectTipInv ==
  ASSUME IndInv, NEW hdr \in CandidateHeaders(chain), NEW mined \in SUBSET mempool, ConnectTip(hdr, mined)
  PROVE  IndInv'
<1>1. /\ Checked(chain) /\ deployment \in Deployments /\ deployment \in Nat /\ deployment' = deployment
      /\ ContextualCheckDynaFedHeader(chain, hdr) /\ chain' = Append(chain, hdr)
      /\ mempool' = removeForBlock(chain', mempool, mined)
  BY EpochAssumption DEF IndInv, TypeOK, ConnectTip
<1>2. Checked(chain')
  BY <1>1, AppendedChecked
<1>3. ASSUME phase' = "idle", NEW tx \in mempool' PROVE PoolTxValid(chain', tx)
  <2>1. CASE Len(chain') % EpochLength = 0
    BY Zenon, <1>1, <1>3, <2>1 DEF removeForBlock
  <2>2. CASE Len(chain') % EpochLength # 0
    <3>1. tx \in mempool /\ phase = "idle"
      BY Zenon, <1>1, <1>3, <2>2 DEF removeForBlock, ConnectTip, IndInv, TypeOK
    <3>2. PoolTxValid(chain, tx)
      BY Zenon, <3>1 DEF IndInv
    <3> QED BY Zenon, <1>1, <2>2, <3>2, SameEpochAccepts
  <2> QED BY <2>1, <2>2
<1>4. mempool' \subseteq PegTxs /\ phase' \in {"idle", "disconnecting", "connecting"}
  BY Zenon, <1>1 DEF IndInv, TypeOK, removeForBlock, ConnectTip
<1>5. TypeOK'
  BY Zenon, <1>1, <1>2, <1>4, CheckedTypes DEF TypeOK
<1> QED BY ZenonT(30), <1>1, <1>2, <1>3, <1>5, PrimedChecked, PrimedValid DEF IndInv

LEMMA DisconnectTipInv ==
  ASSUME IndInv, DisconnectTip
  PROVE  IndInv'
<1>1. /\ Checked(chain) /\ deployment \in Deployments /\ deployment' = deployment /\ mempool \subseteq PegTxs
      /\ Len(chain) > 1 /\ chain' = SubSeq(chain, 1, Len(chain) - 1)
      /\ mempool' = mempool /\ phase' = "disconnecting"
  BY DEF IndInv, TypeOK, DisconnectTip
<1>2. Checked(chain')
  BY <1>1, ShortenedChecked
<1>3. TypeOK'
  BY <1>1, <1>2, CheckedTypes DEF TypeOK
<1> QED BY <1>1, <1>2, <1>3, PrimedChecked DEF IndInv

LEMMA MaybeUpdateMempoolForReorgInv ==
  ASSUME IndInv, MaybeUpdateMempoolForReorg
  PROVE  IndInv'
<1>1. /\ Checked(chain) /\ deployment \in Deployments /\ deployment' = deployment /\ mempool \subseteq PegTxs
      /\ chain' = chain /\ mempool' = removeForReorg(mempool) /\ phase' = "idle"
  BY DEF IndInv, TypeOK, MaybeUpdateMempoolForReorg
<1>2. mempool' = {}
  <2>1. \A tx \in PegTxs : tx.kind = "pegin" \/ tx.kind = "pegout"
    BY DEF PegTxs
  <2> QED BY <1>1, <2>1 DEF removeForReorg, IsPAKValidTx
<1>3. TypeOK'
  BY <1>1, <1>2, CheckedTypes DEF TypeOK
<1> QED BY Zenon, <1>1, <1>2, <1>3, PrimedChecked DEF IndInv

LEMMA AcceptToMemoryPoolInv ==
  ASSUME IndInv, NEW tx \in PegTxs, AcceptToMemoryPool(tx)
  PROVE  IndInv'
<1>1. /\ Checked(chain) /\ deployment \in Deployments /\ deployment' = deployment /\ mempool \subseteq PegTxs
      /\ phase = "idle" /\ PoolTxValid(chain, tx) /\ \A t \in mempool : PoolTxValid(chain, t)
      /\ chain' = chain /\ mempool' = mempool \cup {tx} /\ phase' = phase
  BY Zenon DEF IndInv, TypeOK, AcceptToMemoryPool
<1>2. TypeOK'
  BY <1>1, CheckedTypes DEF TypeOK
<1>3. \A t \in mempool' : PoolTxValid(chain', t)
  BY <1>1
<1> QED BY Zenon, <1>1, <1>2, <1>3, PrimedChecked, PrimedValid DEF IndInv

LEMMA NextInv ==
  ASSUME IndInv, [Next]_vars
  PROVE  IndInv'
<1>1. CASE \E hdr \in CandidateHeaders(chain), mined \in SUBSET mempool : ConnectTip(hdr, mined)
  BY <1>1, ConnectTipInv
<1>2. CASE DisconnectTip
  BY <1>2, DisconnectTipInv
<1>3. CASE MaybeUpdateMempoolForReorg
  BY <1>3, MaybeUpdateMempoolForReorgInv
<1>4. CASE \E tx \in PegTxs : AcceptToMemoryPool(tx)
  BY <1>4, AcceptToMemoryPoolInv
<1>5. CASE UNCHANGED vars
  <2>1. deployment' = deployment /\ chain' = chain /\ mempool' = mempool /\ phase' = phase
    BY <1>5 DEF vars
  <2>2. TypeOK'
    BY <2>1 DEF IndInv, TypeOK
  <2> QED BY <2>1, <2>2, PrimedChecked, PrimedValid DEF IndInv
<1> QED BY Zenon, <1>1, <1>2, <1>3, <1>4, <1>5 DEF Next

LEMMA Invariance ==
  Spec => []IndInv
BY InitInv, NextInv, PTL DEF Spec
-----------------------------------------------------------------------------
(* Type correctness of the dynamic federation model for every epoch        *)
(* length, set of proposals and height: in particular no header that       *)
(* ContextualCheckDynaFedHeader accepts proposes an entry whose data is    *)
(* elided.                                                                 *)
THEOREM DynaFedTypeCorrect ==
  Spec => []TypeOK
<1>1. IndInv => TypeOK
  BY DEF IndInv
<1> QED BY <1>1, Invariance, PTL

(* ComputeNextBlockCurrentParameters, which reads one epoch back, puts     *)
(* every header under the parameters that all the votes since the genesis  *)
(* block decide, whatever the epoch length, down to one block, wherever    *)
(* dynafed is activated, and across reorganisations.                       *)
THEOREM HeadersUnderVotedParameters ==
  Spec => []ParametersVoted
<1>1. IndInv => ParametersVoted
  <2> SUFFICES ASSUME IndInv PROVE ParametersVoted
    OBVIOUS
  <2>1. \A h \in 1 .. Len(chain) - 1 : EntryVoted(chain, h)
    BY DEF IndInv, Checked
  <2> QED BY <2>1, Zenon DEF ParametersVoted, EntryVoted
<1> QED BY <1>1, Invariance, PTL

(* GetValidFedpegScripts returns the scripts in force in the last          *)
(* total_valid_epochs epochs, for every number of them.                    *)
THEOREM PeginScriptsExact ==
  Spec => []ValidScriptsExact
<1>1. IndInv => ValidScriptsExact
  <2> SUFFICES ASSUME IndInv PROVE ValidScriptsExact
    OBVIOUS
  <2> DEFINE q == (Len(chain) - 1) \div EpochLength
  <2>1. GetValidFedpegScripts(chain, FALSE) = LastScripts(chain, q)
    BY ZenonT(30), ScriptsAre DEF IndInv, TypeOK
  <2> QED BY Zenon, <2>1 DEF ValidScriptsExact, LastScripts
<1> QED BY <1>1, Invariance, PTL

(* What AcceptToMemoryPool, removeForBlock and removeForReorg leave in the *)
(* mempool, ConnectBlock accepts in any next block, at the end of an epoch *)
(* and at the activation of dynafed too.                                   *)
THEOREM MempoolAlwaysMinable ==
  Spec => []MempoolMinable
<1>1. IndInv => MempoolMinable
  BY NextBlockAccepts DEF IndInv, TypeOK, MempoolMinable
<1> QED BY <1>1, Invariance, PTL
=============================================================================
