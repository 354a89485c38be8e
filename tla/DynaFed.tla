------------------------------ MODULE DynaFed ------------------------------
(***************************************************************************)
(* Dynamic federations: the consensus parameters of the chain (the block   *)
(* signing script, the federation's peg-in script and the list of peg-out  *)
(* authorisation keys) are changed by votes in the block headers.  Every   *)
(* dynamic_epoch_length blocks the votes of the last epoch are counted     *)
(* (dynafed.cpp); each header repeats the parameters it is under, in full  *)
(* or with all but the signing script elided, and is checked against them  *)
(* (validation.cpp).  Peg-in claims may use the federation scripts of the  *)
(* last total_valid_epochs epochs (pegins.cpp).  The mempool accepts and   *)
(* keeps transactions for the rules of the next block, so it looks one     *)
(* block ahead (validation.cpp, txmempool.cpp).                            *)
(*                                                                         *)
(* The chain is a sequence: chain[h + 1] is the header at height h and     *)
(* Len(chain) the height of the next block.  Hashes are injective, so a    *)
(* root is the tuple of the data under it.  The chain has signed blocks    *)
(* and enforces PAK.                                                       *)
(***************************************************************************)
EXTENDS Integers, Sequences, FiniteSets, FiniteSetsExt

CONSTANTS
  EpochLength,        \* consensus.dynamic_epoch_length
  TotalValidEpochs,   \* consensus.total_valid_epochs
  Deployments,        \* deployments to consider: 0 is ALWAYS_ACTIVE, any other
                      \* number the first height at which dynafed is active
  StartP2wsh,         \* consensus.start_p2wsh_script
  SignBlockScript,    \* the challenge of the blocks before dynafed
  FedpegScript,       \* consensus.fedpegScript
  FirstExtension,     \* consensus.first_extension_space
  OpDepthScripts,     \* the scripts that start with OP_DEPTH
  PakExtensions,      \* the extension spaces that parse as non-empty PAK lists
  Proposals,          \* the entries block signers put in m_proposed
  ForeignRoots,       \* elided roots of other parameters that they may write
  MaxForeignRoots,    \* bound: headers of a chain with such a root
  MaxHeight           \* bound: the height of the chain

ASSUME EpochAssumption ==
  /\ EpochLength \in Nat \ {0}
  /\ TotalValidEpochs \in Nat \ {0}
  /\ Deployments \subseteq Nat
  /\ MaxHeight \in Nat

\* -con_start_p2wsh_script is for "starting in dynafed mode".
ASSUME StartAssumption == StartP2wsh => Deployments \subseteq {0}

VARIABLES
  deployment,   \* when dynafed is active; never changes
  chain,        \* the headers of the active chain, genesis first
  mempool,      \* its transactions that peg in or out
  phase         \* "idle", or where ActivateBestChainStep is in a reorganisation

vars == <<deployment, chain, mempool, phase>>

-----------------------------------------------------------------------------
(* DynaFedParamEntry.  Empty scripts and lists are the values of Null.     *)

Entry(type, sign, program, script, ext, root) ==
  [m_serialize_type |-> type, m_signblockscript |-> sign,
   m_fedpeg_program |-> program, m_fedpegscript |-> script,
   m_extension_space |-> ext, m_elided_root |-> root]

Null == Entry(0, <<>>, <<>>, "", "", <<>>)
Compact(sign, root) == Entry(1, sign, <<>>, "", "", root)
Full(sign, program, script, ext) == Entry(2, sign, program, script, ext, <<>>)

\* What Unserialize makes of an entry: the other format's fields are empty.
ASSUME ProposalsAssumption ==
  \A p \in Proposals :
    \/ p = Compact(p.m_signblockscript, p.m_elided_root)
    \/ p = Full(p.m_signblockscript, p.m_fedpeg_program, p.m_fedpegscript, p.m_extension_space)

\* DynaFedParams::IsNull.
HeaderIsNull(hdr) == hdr.m_current = Null /\ hdr.m_proposed = Null

\* operator==: every field but the elided root.
SameEntry(a, b) ==
  \A f \in DOMAIN a \ {"m_elided_root"} : a[f] = b[f]

CalculateExtraRoot(e) ==
  <<e.m_fedpeg_program, e.m_fedpegscript, e.m_extension_space>>

CalculateRoot(e) ==
  IF e.m_serialize_type = 0 THEN <<>>
  ELSE <<e.m_signblockscript,
         IF e.m_serialize_type = 1 THEN e.m_elided_root
         ELSE CalculateExtraRoot(e)>>

P2WSH(script) == <<"v0", script>>
P2SHP2WSH(script) == <<"p2sh", script>>
IsWitnessProgram(program) == program # <<>> /\ program[1] \in {"v0", "v1"}

-----------------------------------------------------------------------------
(* dynafed.cpp                                                             *)

BlockAt(c, height) == c[height + 1]
Tip(c) == c[Len(c)]

\* The blocks from the given height up to the end of c with the same vote.
VotesSince(c, height) ==
  {h \in height .. Len(c) - 1 :
     CalculateRoot(BlockAt(c, h).m_proposed) = CalculateRoot(BlockAt(c, height).m_proposed)}

\* Rounded up instead of down.
Threshold_Up == (EpochLength * 4 + 4) \div 5

Threshold == (EpochLength * 4) \div 5

\* The heights of the last epoch where the tally, kept from the end of the
\* epoch backwards, reaches the threshold.
ReachesThreshold(c) ==
  {h \in Len(c) - EpochLength .. Len(c) - 1 :
     /\ CalculateRoot(BlockAt(c, h).m_proposed) # <<>>
     /\ Cardinality(VotesSince(c, h)) >= Threshold}

NextBlockIsParameterTransition(c) ==
  Len(c) % EpochLength = 0 /\ ReachesThreshold(c) # {}

WinningEntry(c) == BlockAt(c, Max(ReachesThreshold(c))).m_proposed

\* The parameters of a chain that has not seen dynafed yet.
PreDynafedParameters ==
  Full(P2WSH(SignBlockScript),
       IF StartP2wsh THEN P2WSH(FedpegScript) ELSE P2SHP2WSH(FedpegScript),
       FedpegScript, FirstExtension)

\* The height of the block that holds the parameters when no vote has won.
EpochStartHeight(c) ==
  LET age   == Len(c) % EpochLength
      start == Len(c) - age - (IF age = 0 THEN EpochLength ELSE 0)
  IN  IF start = 0 /\ Len(c) > 1 /\ deployment = 0 THEN 1 ELSE start

ComputeNextBlockFullCurrentParameters(c) ==
  IF NextBlockIsParameterTransition(c) THEN WinningEntry(c)
  ELSE LET start == BlockAt(c, EpochStartHeight(c))
       IN  IF HeaderIsNull(start) THEN PreDynafedParameters ELSE start.m_current

ComputeNextBlockCurrentParameters(c) ==
  LET entry == ComputeNextBlockFullCurrentParameters(c)
  IN  IF Len(c) % EpochLength = 0 \/ HeaderIsNull(Tip(c)) THEN entry
      ELSE Compact(entry.m_signblockscript, CalculateExtraRoot(entry))

-----------------------------------------------------------------------------
(* The header check of validation.cpp.                                     *)

\* BIP9 state of DEPLOYMENT_DYNA_FED for the block that follows c.
DeploymentActiveAfter(c) == Len(c) >= deployment

CreatePAKListFromExtensionSpace(ext) ==
  IF ext \in PakExtensions THEN ext ELSE "reject"

ProposalAllowed_AnyFedpeg(proposed, current) ==
  /\ proposed.m_signblockscript # current.m_signblockscript
       => IsWitnessProgram(proposed.m_signblockscript)
  /\ proposed.m_extension_space \notin {current.m_extension_space, ""}
       => CreatePAKListFromExtensionSpace(proposed.m_extension_space) # "reject"

\* The rules on a proposal that is not a null vote.
ProposalAllowed(proposed, current) ==
  LET program == proposed.m_fedpeg_program
      script  == proposed.m_fedpegscript
  IN  /\ proposed.m_signblockscript # current.m_signblockscript
           => IsWitnessProgram(proposed.m_signblockscript)
      /\ program # current.m_fedpeg_program \/ script # current.m_fedpegscript
           => /\ IsWitnessProgram(program)
              /\ program[1] = "v0" => program = P2WSH(script) /\ script \notin OpDepthScripts
      /\ proposed.m_extension_space \notin {current.m_extension_space, ""}
           => CreatePAKListFromExtensionSpace(proposed.m_extension_space) # "reject"

\* Before dynafed the header must repeat the challenge of its predecessor,
\* which a header with dynafed parameters does not have (CheckChallenge).
ContextualCheckDynaFedHeader(c, hdr) ==
  IF ~DeploymentActiveAfter(c) THEN HeaderIsNull(hdr)
  ELSE /\ hdr.m_current # Null
       /\ SameEntry(ComputeNextBlockCurrentParameters(c), hdr.m_current)
       /\ \/ hdr.m_proposed = Null
          \/ ProposalAllowed(hdr.m_proposed, ComputeNextBlockFullCurrentParameters(c))

-----------------------------------------------------------------------------
(* pegins.cpp and primitives/pak.cpp: what the peg transactions of a block *)
(* are checked against.  A script is valid with its program.               *)

FedpegOf(entry) == <<entry.m_fedpeg_program, entry.m_fedpegscript>>

GetValidFedpegScripts_FromTip(c, nextblock) ==
  LET height == Len(c) - 1
      At(h)  == IF HeaderIsNull(BlockAt(c, h)) THEN <<P2SHP2WSH(FedpegScript), FedpegScript>>
                ELSE FedpegOf(BlockAt(c, h).m_current)
  IN  [i \in 1 .. Min({TotalValidEpochs, 1 + height \div EpochLength}) |->
         At(height - (i - 1) * EpochLength)]

\* The federation scripts of the last epochs up to that of c's last block or,
\* with nextblock, of the block that follows it.
GetValidFedpegScripts(c, nextblock) ==
  LET height == Len(c) - 1
      start  == height - (height % EpochLength)
      newest == IF nextblock /\ height % EpochLength = EpochLength - 1 THEN height + 1 ELSE start
      At(h)  == IF h > height THEN FedpegOf(ComputeNextBlockFullCurrentParameters(c))
                ELSE IF HeaderIsNull(BlockAt(c, h)) THEN <<P2SHP2WSH(FedpegScript), FedpegScript>>
                ELSE FedpegOf(BlockAt(c, h).m_current)
  IN  [i \in 1 .. Min({TotalValidEpochs, 1 + (newest \div EpochLength)}) |->
         At(newest - (i - 1) * EpochLength)]

GetActivePAKList(c) ==
  CreatePAKListFromExtensionSpace(ComputeNextBlockFullCurrentParameters(c).m_extension_space)

\* A peg-in pays to a federation script, a peg-out is signed for a PAK list.
PegTxs ==
  LET Entries == {PreDynafedParameters} \cup {p \in Proposals : p.m_serialize_type = 2}
  IN  [kind : {"pegin"}, to : {FedpegOf(e) : e \in Entries}]
      \cup [kind : {"pegout"}, to : {e.m_extension_space : e \in Entries}]

IsValidPeginWitness(tx, scripts) == tx.kind = "pegin" => \E i \in DOMAIN scripts : scripts[i] = tx.to
IsPAKValidTx(tx, list) == tx.kind = "pegout" => list # "reject" /\ tx.to = list

\* The checks of ConnectBlock on a peg transaction of c's last block; PAK is
\* enforced on blocks with dynafed parameters.
BlockTxValid(c, tx) ==
  /\ IsValidPeginWitness(tx, GetValidFedpegScripts(c, FALSE))
  /\ ~HeaderIsNull(Tip(c)) => IsPAKValidTx(tx, GetActivePAKList(SubSeq(c, 1, Len(c) - 1)))

\* The checks of AcceptToMemoryPool.
PoolTxValid(c, tx) ==
  /\ IsValidPeginWitness(tx, GetValidFedpegScripts(c, TRUE))
  /\ IsPAKValidTx(tx, GetActivePAKList(c))

\* removeForBlock: the block's transactions leave the mempool, and before an
\* epoch begins those that its rules refuse.
removeForBlock_AfterBoundary(c, pool, mined) ==
  IF (Len(c) - 1) % EpochLength = 0
    THEN {tx \in pool \ mined : PoolTxValid(c, tx)}
    ELSE pool \ mined
removeForBlock(c, pool, mined) ==
  IF Len(c) % EpochLength = 0
    THEN {tx \in pool \ mined : PoolTxValid(c, tx)}
    ELSE pool \ mined

\* removeForReorg: all peg-ins, and all peg-outs (no one is valid for the
\* empty list).
removeForReorg(pool) ==
  {tx \in pool : IsPAKValidTx(tx, "reject") /\ tx.kind # "pegin"}

-----------------------------------------------------------------------------
Genesis == [m_current |-> Null, m_proposed |-> Null]

Init ==
  /\ deployment \in Deployments
  /\ chain = <<Genesis>>
  /\ mempool = {}
  /\ phase = "idle"

\* The headers of c whose elided root is not that of the parameters.
ForeignRootHeights(c) ==
  {h \in 1 .. Len(c) - 1 :
     /\ BlockAt(c, h).m_current.m_serialize_type = 1
     /\ BlockAt(c, h).m_current.m_elided_root \in ForeignRoots}

\* The headers a block signer may propose on top of c.
CandidateHeaders(c) ==
  LET expected == ComputeNextBlockCurrentParameters(c)
      foreign  == IF Cardinality(ForeignRootHeights(c)) < MaxForeignRoots
                  THEN {Compact(expected.m_signblockscript, r) : r \in ForeignRoots} ELSE {}
  IN  [m_current : {Null, expected} \cup foreign, m_proposed : {Null} \cup Proposals]

\* ConnectTip, for the next block of the best chain: the header passed its
\* check when it was accepted, ConnectBlock checks the transactions.
ConnectTip(hdr, mined) ==
  LET c == Append(chain, hdr)
  IN  /\ Len(chain) <= MaxHeight
      /\ ContextualCheckDynaFedHeader(chain, hdr)
      /\ \A tx \in mined : BlockTxValid(c, tx)
      /\ chain' = c
      /\ mempool' = removeForBlock(c, mempool, mined)
      /\ phase' = IF phase = "idle" THEN "idle" ELSE "connecting"
      /\ UNCHANGED deployment

\* DisconnectTip in a reorganisation or in InvalidateBlock: cs_main and the
\* mempool's lock are held until MaybeUpdateMempoolForReorg has run.
DisconnectTip ==
  /\ phase \in {"idle", "disconnecting"}
  /\ Len(chain) > 1
  /\ chain' = SubSeq(chain, 1, Len(chain) - 1)
  /\ phase' = "disconnecting"
  /\ UNCHANGED <<deployment, mempool>>

\* The transactions of the disconnected blocks are accepted again first;
\* removeForReorg then takes those that peg in or out, like all others.
MaybeUpdateMempoolForReorg ==
  /\ phase # "idle"
  /\ mempool' = removeForReorg(mempool)
  /\ phase' = "idle"
  /\ UNCHANGED <<deployment, chain>>

AcceptToMemoryPool(tx) ==
  /\ phase = "idle"
  /\ PoolTxValid(chain, tx)
  /\ mempool' = mempool \cup {tx}
  /\ UNCHANGED <<deployment, chain, phase>>

Next ==
  \/ \E hdr \in CandidateHeaders(chain), mined \in SUBSET mempool : ConnectTip(hdr, mined)
  \/ DisconnectTip
  \/ MaybeUpdateMempoolForReorg
  \/ \E tx \in PegTxs : AcceptToMemoryPool(tx)

Spec == Init /\ [][Next]_vars

-----------------------------------------------------------------------------
(* The rules, stated from all votes since the genesis block.               *)

\* The blocks of the epoch before epoch e that proposed p.
Votes(c, e, p) ==
  {h \in (e - 1) * EpochLength .. e * EpochLength - 1 : BlockAt(c, h).m_proposed = p}

\* Four fifths of the blocks win, rounded down to whole blocks: with one more
\* vote a proposal would have more than four fifths.
Winners(c, e) ==
  {p \in Proposals : Votes(c, e, p) # {} /\ 5 * (Cardinality(Votes(c, e, p)) + 1) > 4 * EpochLength}

\* The winner of the votes for epoch e.  There is at most one, but in epochs
\* of less than three blocks, where the last vote decides.
Winner(c, e) ==
  CHOOSE p \in Winners(c, e) :
    \A q \in Winners(c, e) : Max(Votes(c, e, q)) <= Max(Votes(c, e, p))

\* The parameters of epoch e: the last ones that won up to then.
InForce(c, e) ==
  LET decided == {d \in 1 .. e : Winners(c, d) # {}}
  IN  IF decided = {} THEN PreDynafedParameters ELSE Winner(c, Max(decided))

\* The federation script of epoch e.  An epoch that starts without dynafed
\* parameters has the nested one, also with start_p2wsh_script.
FedpegInForce(c, e) ==
  IF e = 0 \/ e * EpochLength < deployment THEN <<P2SHP2WSH(FedpegScript), FedpegScript>>
  ELSE FedpegOf(InForce(c, e))

\* Every header carries null or full proposals, and the mempool's peg
\* transactions are well formed: ContextualCheckDynaFedHeader lets no pruned
\* entry in as a proposal, so none can be adopted.
TypeOK ==
  /\ deployment \in Deployments
  /\ \A i \in DOMAIN chain :
       /\ chain[i].m_current.m_serialize_type \in 0 .. 2
       /\ chain[i].m_proposed \in {Null} \cup {p \in Proposals : p.m_serialize_type = 2}
  /\ mempool \subseteq PegTxs
  /\ phase \in {"idle", "disconnecting", "connecting"}

\* Every header after activation is under the parameters that the votes of
\* all earlier epochs decide: ComputeNextBlockCurrentParameters, which looks
\* only at the last epoch and its first block, agrees with counting all votes
\* from the genesis block.  The first dynafed block and the first of every
\* epoch carry them in full, the others only the signing script.
ParametersVoted ==
  \A h \in 1 .. Len(chain) - 1 :
    LET entry    == BlockAt(chain, h).m_current
        expected == InForce(chain, h \div EpochLength)
        first    == deployment \in {0, h} /\ HeaderIsNull(BlockAt(chain, h - 1))
    IN  IF h < deployment THEN entry = Null
        ELSE IF h % EpochLength = 0 \/ first THEN entry = expected
        ELSE /\ entry.m_serialize_type = 1
             /\ entry.m_signblockscript = expected.m_signblockscript

\* A peg-in may use exactly the federation scripts in force in the last
\* total_valid_epochs epochs, the newest first, at every block of the chain:
\* a change of federation leaves the old script valid for that long and no
\* longer (GetValidFedpegScripts).
ValidScriptsExact ==
  LET epoch == (Len(chain) - 1) \div EpochLength
  IN  GetValidFedpegScripts(chain, FALSE)
        = [i \in 1 .. Min({TotalValidEpochs, epoch + 1}) |-> FedpegInForce(chain, epoch + 1 - i)]

\* Whenever the locks are released, every peg transaction in the mempool may
\* be mined in any next block: what AcceptToMemoryPool, removeForBlock and
\* removeForReorg let stay, looking one block ahead, ConnectBlock accepts.
MempoolMinable ==
  phase = "idle" =>
    \A hdr \in CandidateHeaders(chain) :
      ContextualCheckDynaFedHeader(chain, hdr) =>
        \A tx \in mempool : BlockTxValid(Append(chain, hdr), tx)

\* Parameters change only to what at least 4/5 of the blocks of the last epoch
\* proposed, as doc/elements-block-header-format.md and the help of
\* getnewblockhex say.
FourFifthsAgreed ==
  \A e \in 1 .. (Len(chain) - 1) \div EpochLength :
    LET entry == BlockAt(chain, e * EpochLength).m_current
    IN  entry \in Proposals /\ entry # BlockAt(chain, (e - 1) * EpochLength).m_current
          => 5 * Cardinality(Votes(chain, e, entry)) >= 4 * EpochLength
=============================================================================
