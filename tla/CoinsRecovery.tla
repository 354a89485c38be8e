--------------------------- MODULE CoinsRecovery ---------------------------
(***************************************************************************)
(* The coins database across crashes.  FlushStateToDisk writes block files *)
(* and block index, then the coins, in batches: the first one replaces     *)
(* DB_BEST_BLOCK by DB_HEAD_BLOCKS = (new tip, old tip), the last one puts *)
(* the new best block.  A node that starts and finds head blocks replays:  *)
(* it undoes the blocks from the old tip to the fork, rolls forward to the *)
(* new tip whatever part of it was written, and flushes the same way,      *)
(* so that it may crash again.  Then it loads the best block and verifies  *)
(* the last blocks by undoing them in memory, and starts only if that is   *)
(* clean.  A flush may prune: block files are unlinked between the index   *)
(* and the coins.  It also trims headers (-trim_headers): the proofs and   *)
(* federation parameters of all but the last headers are only on disk, in  *)
(* the index entry that later flushes write again.                         *)
(*                                                                         *)
(* Coins are maps from keys to values here: that a CCoinsViewCache behaves *)
(* as such a map is what CoinsCache establishes.  A coin is the height at  *)
(* which its transaction was confirmed, so a transaction that both sides   *)
(* of a reorganization confirm leaves different coins.  Only the keys whose*)
(* value differs from the database's are written: writing any other one    *)
(* changes nothing.                                                        *)
(***************************************************************************)
EXTENDS BlockTree, Sequences, FiniteSetsExt

CONSTANTS
    Outpoint, Pegin,
    Txs,            \* [Block -> Seq([ins, pegins, outs])]
    ConnectGenesisOutputs,  \* consensus.connect_genesis_outputs
    MIN_BLOCKS_TO_KEEP, nPruneAfterHeight,
    nMustKeepFullHeaders,
    nCheckDepth,    \* -checkblocks
    MaxCrashes,     \* bound: crashes in one behaviour
    Claimed, Null

ASSUME CoinsAssumption ==
    /\ Outpoint \cap Pegin = {}
    /\ \A b \in Block : Txs[b] \in Seq([ins : SUBSET Outpoint, pegins : SUBSET Pegin, outs : SUBSET Outpoint])
    /\ ConnectGenesisOutputs \in BOOLEAN
    /\ Claimed \notin Nat /\ Null \notin Nat /\ Claimed # Null /\ Null \notin Block
    /\ MaxCrashes \in Nat /\ nCheckDepth \in Nat

OutsOf(b) == UNION {Txs[b][i].outs : i \in 1..Len(Txs[b])}

(* An output is named by the hash of its transaction, which covers the       *)
(* inputs, and a transaction is not in a block twice, nor in the genesis     *)
(* block and in a later one.                                                 *)
ASSUME OutputsAssumption ==
    /\ \A b \in Block : \A i \in 1..Len(Txs[b]) : Txs[b][i].ins \cap Txs[b][i].outs = {}
    /\ \A b \in Block : \A i, j \in 1..Len(Txs[b]) : i # j => Txs[b][i].outs \cap Txs[b][j].outs = {}
    /\ \A b \in Block \ {Genesis} : OutsOf(b) \cap OutsOf(Genesis) = {}

(* As for every network; nothing else keeps nLastBlockWeCanPrune, which is  *)
(* unsigned, from wrapping around.                                         *)
ASSUME PruneAssumption ==
    /\ MIN_BLOCKS_TO_KEEP \in Nat /\ nPruneAfterHeight \in Nat
    /\ MIN_BLOCKS_TO_KEEP <= nPruneAfterHeight
    /\ nMustKeepFullHeaders \in Nat

VARIABLES
    db, dbBest, heads,  \* the coins database: coins, DB_BEST_BLOCK, DB_HEAD_BLOCKS
    indexed,            \* blocks whose index entry survives a crash
    stored,             \* of these, the ones with block and undo data (BLOCK_HAVE_DATA)
    known,              \* blocks whose data the running node has
    whole,              \* index entries on disk that hold the whole header
    dirty, trimmed,     \* m_dirty_blockindex; entries in memory without header
    best, nMinTrimHeight,   \* pindexBestHeader, and what the last walk reached
    phase,              \* "run", "flush", "stop" (the last flush), "down", "replay",
                        \* "load" (before LoadChainTip), "failed"
    mem, tip,           \* the coins cache (CoinsTip, or that of ReplayBlocks) and its block
    todo,               \* keys the flush in progress has still to write
    exposed,            \* history: the last flush pruned a block that its replay needs
    skipped,            \* history: a replay without an old tip left out the genesis outputs
    unclaimed,          \* history: a replay left out a peg-in claim of its chain
    crashes

diskVars == <<db, dbBest, heads>>
headerVars == <<whole, dirty, trimmed, best, nMinTrimHeight>>
history == <<exposed, skipped, unclaimed, crashes>>
vars == <<diskVars, headerVars, indexed, stored, known, phase, mem, tip, todo, history>>

Key == Outpoint \cup Pegin
Prev(b) == IF b = Genesis THEN Null ELSE Parent[b]
Empty == [k \in Key |-> Null]
-----------------------------------------------------------------------------
(* What a block does to the coins.  A transaction replaces the coins of the *)
(* keys it touches, whatever they were, so in a sequence of transactions    *)
(* the last one that touches a key decides.                                 *)

Touched(tx) == tx.ins \cup tx.pegins \cup tx.outs

(* UpdateCoins: inputs are spent or peg-ins claimed, then outputs added. *)
UpdatedCoin(tx, h, k) == IF k \in tx.outs THEN h ELSE IF k \in tx.ins THEN Null ELSE Claimed

(* UpdateCoins for each of the first n transactions of b. *)
UpdateCoins(m, b, n) ==
    [k \in Key |-> LET by == {i \in 1..n : k \in Touched(Txs[b][i])}
                   IN IF by = {} THEN m[k] ELSE UpdatedCoin(Txs[b][Max(by)], Height[b], k)]

(* ConnectBlock on the coins: the genesis block has outputs only by option. *)
ConnectBlock(m, b) ==
    IF b = Genesis /\ ~ConnectGenesisOutputs THEN m ELSE UpdateCoins(m, b, Len(Txs[b]))

(* The coins that the chain up to and including b leaves. *)
StateAt[b \in Block] ==
    ConnectBlock(IF b = Genesis THEN Empty ELSE StateAt[Parent[b]], b)

(* DisconnectBlock for the i-th transaction: outputs are spent and the flags *)
(* of peg-ins cleared, inputs put back from the undo data, the coins that   *)
(* the transaction spent.                                                   *)
RestoredCoin(b, i, k) ==
    IF k \in Txs[b][i].ins THEN UpdateCoins(StateAt[Parent[b]], b, i - 1)[k] ELSE Null

(* The transactions of b after the n-th, from the last one back. *)
DisconnectTxs(m, b, n) ==
    [k \in Key |-> LET by == {i \in (n + 1)..Len(Txs[b]) : k \in Touched(Txs[b][i])}
                   IN IF by = {} THEN m[k] ELSE RestoredCoin(b, Min(by), k)]

DisconnectBlock(m, b) == DisconnectTxs(m, b, 0)

(* DisconnectBlock returns DISCONNECT_OK: every output is there with the    *)
(* block's height, no input is overwritten and every peg-in is claimed.     *)
DisconnectsClean(m, b) ==
    \A i \in 1..Len(Txs[b]) :
        LET post == DisconnectTxs(m, b, i)
        IN /\ \A k \in Txs[b][i].outs : post[k] = Height[b]
           /\ \A k \in Txs[b][i].ins : post[k] = Null
           /\ \A k \in Txs[b][i].pegins : post[k] = Claimed

(* ConnectBlock refuses a block that overwrites a coin it starts from, or   *)
(* spends what is not there.                                                *)
ConnectsTo(m, b) ==
    b = Genesis \/
    \A i \in 1..Len(Txs[b]) :
        LET pre == UpdateCoins(m, b, i - 1)
        IN /\ \A k \in Txs[b][i].ins : pre[k] # Null
           /\ \A k \in Txs[b][i].pegins : pre[k] = Null
           /\ \A k \in Txs[b][i].outs : m[k] = Null
-----------------------------------------------------------------------------
(* ReplayBlocks *)

(* The inputs are not spent again. *)
RollforwardBlock_NoSpend(m, b) ==
    [k \in Key |-> LET by == {i \in 1..Len(Txs[b]) : k \in Txs[b][i].outs}
                   IN IF by = {} THEN m[k] ELSE UpdatedCoin(Txs[b][Max(by)], Height[b], k)]

(* RollforwardBlock: every input is passed to SpendCoin, which finds no     *)
(* coin for a peg-in.                                                       *)
RollforwardBlock(m, b) ==
    [k \in Key |-> LET by == {i \in 1..Len(Txs[b]) : k \in Txs[b][i].ins \cup Txs[b][i].outs}
                   IN IF by = {} THEN m[k] ELSE UpdatedCoin(Txs[b][Max(by)], Height[b], k)]

(* The blocks up to the fork: just the genesis block when there was no old  *)
(* tip (nForkHeight is 0).                                                  *)
Common(old, new) == IF old = Null THEN {Genesis} ELSE Ancestors[Fork(old, new)]

(* The blocks above the fork on the way to b. *)
Branch(b, old, new) == IF b = Null THEN {} ELSE Ancestors[b] \ Common(old, new)

(* The blocks a replay reads from disk. *)
ReplayReads(old, new) == Branch(old, old, new) \cup Branch(new, old, new)

Lowest(S) == CHOOSE b \in S : \A c \in S : Height[b] <= Height[c]

Writes(b) == UNION {Touched(Txs[b][i]) : i \in 1..Len(Txs[b])}

(* Undo from the old tip to the fork, then redo from above the fork: the    *)
(* last block of the redo that writes a key decides, else the last of the   *)
(* undo.  RollforwardBlock writes no peg-in.                                *)
ReplayedCoins(m, old, new) ==
    [k \in Key |->
        LET undo == {b \in Branch(old, old, new) : k \in Writes(b)}
            redo == {b \in Branch(new, old, new) : k \in Writes(b) \ Pegin}
        IN IF redo # {} THEN RollforwardBlock(m, Highest(redo))[k]
           ELSE IF undo # {} THEN DisconnectBlock(m, Lowest(undo))[k] ELSE m[k]]
-----------------------------------------------------------------------------
Init ==
    /\ db = Empty /\ dbBest = Null /\ heads = <<>>
    /\ indexed = {Genesis} /\ stored = {Genesis} /\ known = {Genesis}
    /\ whole = {Genesis} /\ dirty = {} /\ trimmed = {}
    /\ best = Genesis /\ nMinTrimHeight = 0
    /\ phase = "run" /\ mem = Empty /\ tip = Null /\ todo = {}
    /\ exposed = FALSE /\ skipped = FALSE /\ unclaimed = FALSE /\ crashes = 0

(* UpdateTip of a chain under dynamic federations: ForceUntrimHeader reads   *)
(* back the headers of the tip and its parent, whose entries become dirty    *)
(* next to those the caller changed.                                         *)
UpdateTip(b, changed) ==
    /\ tip' = b
    /\ trimmed' = trimmed \ {b, Prev(b)}
    /\ dirty' = dirty \cup changed \cup ({b, Prev(b)} \cap trimmed)

(* ConnectTip: block and undo data are written, not yet synced; the data of *)
(* a pruned block was downloaded again.  A new header may be the best one.   *)
ConnectTip(b) ==
    /\ phase = "run"
    /\ Prev(b) = tip
    /\ ConnectsTo(mem, b)
    /\ mem' = ConnectBlock(mem, b)
    /\ UpdateTip(b, {b} \ known)
    /\ best' = IF Height[best] < Height[b] THEN b ELSE best
    /\ known' = known \cup {b}
    /\ UNCHANGED <<diskVars, whole, nMinTrimHeight, indexed, stored, phase, todo, history>>

(* Dirty entries written as they are in memory. *)
WrittenWhole_NoUntrim(D) == D \ trimmed

(* The entries of D that WriteBlockIndexDB writes with their whole header:    *)
(* one that is trimmed is read back from its own entry on disk before.        *)
WrittenWhole(D) == {b \in D : b \in trimmed => b \in whole}

(* What follows the write: the entries of D, and those on the way to the best *)
(* header from where the last walk ended, are trimmed if they are old enough. *)
(* Every entry has been stored by now, so trim() never declines.  A node that *)
(* shuts down does not trim.                                                  *)
TrimHeaders(D, ShutdownRequested) ==
    LET trim_height == Height[best] - nMustKeepFullHeaders
        walk == {b \in Ancestors[best] : nMinTrimHeight <= Height[b]}
    IN IF trim_height > 0 /\ ~ShutdownRequested
       THEN /\ trimmed' = (trimmed \ D) \cup {b \in D \cup walk : Height[b] < trim_height}
            /\ nMinTrimHeight' = Max({nMinTrimHeight, trim_height})
       ELSE trimmed' = trimmed \ D /\ UNCHANGED nMinTrimHeight

(* FlushStateToDisk writes the blocks and the index: the files of the blocks *)
(* `gone' are unlinked, once the index says that they have no data.          *)
WriteBlockIndex(gone, ShutdownRequested) ==
    LET D == dirty \cup gone IN
    /\ indexed' = indexed \cup D
    /\ whole' = (whole \ D) \cup WrittenWhole(D)
    /\ dirty' = {}
    /\ TrimHeaders(D, ShutdownRequested)
    /\ known' = known \ gone
    /\ stored' = known'
    /\ UNCHANGED best

(* Then CoinsTip().Flush() begins, if there is a tip. *)
BeginFlush(kind) ==
    /\ phase' = IF tip # Null THEN kind ELSE IF kind = "stop" THEN "down" ELSE phase
    /\ todo' = {k \in Key : mem[k] # db[k]}

(* Shutdown: ForceFlushStateToDisk. *)
Stop ==
    /\ phase = "run"
    /\ WriteBlockIndex({}, TRUE)
    /\ BeginFlush("stop")
    /\ exposed' = FALSE
    /\ UNCHANGED <<diskVars, mem, tip, skipped, unclaimed, crashes>>

(* DisconnectTip; when the block cannot be read or DisconnectBlock is not    *)
(* clean the view is discarded and ActivateBestChainStep aborts the node,    *)
(* which shuts down.                                                         *)
DisconnectTip ==
    /\ phase = "run"
    /\ tip \notin {Null, Genesis}
    /\ IF tip \in known /\ DisconnectsClean(mem, tip)
       THEN /\ mem' = DisconnectBlock(mem, tip)
            /\ UpdateTip(Parent[tip], {})
            /\ UNCHANGED <<diskVars, whole, best, nMinTrimHeight, indexed, stored, known, phase, todo, history>>
       ELSE Stop

(* FlushStateToDisk that only has to write block files and index. *)
PeriodicWrite ==
    /\ phase = "run"
    /\ dirty # {}
    /\ WriteBlockIndex({}, FALSE)
    /\ UNCHANGED <<diskVars, phase, mem, tip, todo, history>>

(* A full flush that writes the coins without the block index. *)
FullFlush_CoinsOnly ==
    /\ phase = "run"
    /\ tip # Null
    /\ BeginFlush("flush")
    /\ exposed' = FALSE
    /\ UNCHANGED <<diskVars, headerVars, indexed, stored, known, mem, tip, skipped, unclaimed, crashes>>

(* A full flush: block files and index first, then CoinsTip().Flush(). *)
FullFlush ==
    /\ phase = "run"
    /\ tip # Null
    /\ WriteBlockIndex({}, FALSE)
    /\ BeginFlush("flush")
    /\ exposed' = FALSE
    /\ UNCHANGED <<diskVars, mem, tip, skipped, unclaimed, crashes>>

(* What FindFilesToPrune and FindFilesToPruneManual may choose.  A file holds *)
(* blocks in the order they arrived, so any set of blocks up to the limit may *)
(* make up the first one.                                                     *)
FilesToPrune ==
    IF Height[tip] < nPruneAfterHeight THEN {}
    ELSE SUBSET {b \in known : Height[b] <= Height[tip] - MIN_BLOCKS_TO_KEEP} \ {{}}

(* The same full flush for pruning: files are unlinked before the coins are  *)
(* written.                                                                  *)
PruneAndFlush ==
    /\ phase = "run"
    /\ tip # Null
    /\ \E gone \in FilesToPrune :
        /\ WriteBlockIndex(gone, FALSE)
        /\ exposed' = (gone \cap ReplayReads(dbBest, tip) # {})
    /\ BeginFlush("flush")
    /\ UNCHANGED <<diskVars, mem, tip, skipped, unclaimed, crashes>>

(* An old tip that is forgotten when the flush of a replay starts. *)
OldTip_BestOnly == dbBest

(* CCoinsViewDB::BatchWrite: the old tip it writes to DB_HEAD_BLOCKS. *)
OldTip == IF dbBest # Null THEN dbBest
          ELSE IF heads # <<>> THEN heads[2] ELSE Null

(* One partial batch.  A batch may hold several entries; a crash can only   *)
(* come after it, in a state that smaller batches reach too.                *)
WritePartialBatch(k) ==
    /\ phase \in {"flush", "stop", "replay"}
    /\ k \in todo
    /\ db' = [db EXCEPT ![k] = mem[k]]
    /\ dbBest' = Null
    /\ heads' = <<tip, OldTip>>
    /\ todo' = todo \ {k}
    /\ UNCHANGED <<headerVars, indexed, stored, known, phase, mem, tip, history>>

(* The memory of a node that is not running. *)
Down ==
    /\ phase' = "down"
    /\ mem' = Empty /\ tip' = Null /\ todo' = {}
    /\ dirty' = {} /\ trimmed' = {} /\ best' = Genesis /\ nMinTrimHeight' = 0
    /\ known' = stored

(* What follows the last batch: the end of a shutdown, or running on; after *)
(* a replay its cache goes and the node loads what it wrote.                *)
Flushed ==
    IF phase = "stop" THEN Down
    ELSE /\ IF phase = "flush" THEN phase' = "run" /\ UNCHANGED <<mem, tip>>
            ELSE phase' = "load" /\ mem' = Empty /\ tip' = Null
         /\ todo' = {}
         /\ UNCHANGED <<known, dirty, trimmed, best, nMinTrimHeight>>

(* The last batch. *)
WriteFinalBatch ==
    /\ phase \in {"flush", "stop", "replay"}
    /\ db' = [k \in Key |-> IF k \in todo THEN mem[k] ELSE db[k]]
    /\ dbBest' = tip
    /\ heads' = <<>>
    /\ Flushed
    /\ UNCHANGED <<whole, indexed, stored, history>>

Crash ==
    /\ phase \in {"run", "flush", "stop", "replay", "load"}
    /\ crashes < MaxCrashes
    /\ crashes' = crashes + 1
    /\ Down
    /\ UNCHANGED <<diskVars, whole, indexed, stored, exposed, skipped, unclaimed>>

(* LoadBlockIndex: every header is trimmed but the best one, a tie being      *)
(* decided by the addresses of the entries; to read it back makes it dirty.   *)
LoadBlockIndex ==
    /\ \E b \in indexed :
        /\ \A c \in indexed : Height[c] <= Height[b]
        /\ best' = b /\ trimmed' = indexed \ {b} /\ dirty' = {b}
    /\ nMinTrimHeight' = 0
    /\ UNCHANGED whole

(* LoadChainstate, when ReplayBlocks finds no head blocks. *)
StartConsistent ==
    /\ phase \in {"down", "failed"}
    /\ heads = <<>>
    /\ phase' = "load"
    /\ LoadBlockIndex
    /\ UNCHANGED <<diskVars, indexed, stored, known, mem, tip, todo, history>>

(* LoadChainstate with head blocks: ReplayBlocks up to its Flush. *)
StartReplay ==
    /\ phase \in {"down", "failed"}
    /\ heads # <<>>
    /\ IF /\ heads[1] \in indexed /\ heads[2] \in indexed \cup {Null}
          /\ ReplayReads(heads[2], heads[1]) \subseteq stored
       THEN /\ phase' = "replay"
            /\ mem' = ReplayedCoins(db, heads[2], heads[1])
            /\ tip' = heads[1]
            /\ todo' = {k \in Key : mem'[k] # db[k]}
            /\ skipped' = (skipped \/ (heads[2] = Null /\ ConnectGenesisOutputs))
            /\ unclaimed' = (unclaimed \/ \E p \in Pegin : StateAt[tip'][p] = Claimed /\ mem'[p] # Claimed)
       ELSE phase' = "failed" /\ UNCHANGED <<mem, tip, todo, skipped, unclaimed>>
    /\ LoadBlockIndex
    /\ UNCHANGED <<diskVars, indexed, stored, known, exposed, crashes>>

(* The coins m of the chain up to b with the blocks above a undone. *)
UndoneCoins(m, a, b) ==
    [k \in Key |-> LET undo == {c \in Ancestors[b] \ Ancestors[a] : k \in Writes(c)}
                   IN IF undo = {} THEN m[k] ELSE DisconnectBlock(m, Lowest(undo))[k]]

(* VerifyDB undoes the last n blocks below b, or those above the first one   *)
(* without data, and not the genesis block.  At level 3, the default.        *)
VerifyDB(n, b) ==
    \A a \in Ancestors[b] \ {Genesis} :
        \/ Height[a] <= Height[b] - n
        \/ \E c \in Ancestors[b] \ known : Height[c] >= Height[a]
        \/ DisconnectsClean(UndoneCoins(db, a, b), a)

(* LoadChainTip, unless the coins are empty, and VerifyLoadedChainstate.     *)
(* VerifyDB stops to undo blocks when its cache is full.                     *)
LoadChainTip ==
    /\ phase = "load"
    /\ \E n \in 0..nCheckDepth :
         IF dbBest = Null \/ (dbBest \in indexed /\ VerifyDB(n, dbBest))
         THEN phase' = "run" /\ mem' = db /\ tip' = dbBest
         ELSE phase' = "failed" /\ UNCHANGED <<mem, tip>>
    /\ UNCHANGED <<diskVars, headerVars, indexed, stored, known, todo, history>>

Next ==
    \/ \E b \in Block : ConnectTip(b)
    \/ DisconnectTip
    \/ PeriodicWrite
    \/ FullFlush
    \/ PruneAndFlush
    \/ Stop
    \/ \E k \in Key : WritePartialBatch(k)
    \/ WriteFinalBatch
    \/ Crash
    \/ StartConsistent
    \/ StartReplay
    \/ LoadChainTip

Spec == Init /\ [][Next]_vars
-----------------------------------------------------------------------------
(* The type invariant. *)
TypeOK ==
    /\ db \in [Key -> Nat \cup {Claimed, Null}]
    /\ mem \in [Key -> Nat \cup {Claimed, Null}]
    /\ dbBest \in Block \cup {Null}
    /\ tip \in Block \cup {Null}
    /\ heads = <<>> \/ (Len(heads) = 2 /\ heads[1] \in Block /\ heads[2] \in Block \cup {Null})
    /\ stored \subseteq known /\ known \subseteq Block
    /\ stored \subseteq indexed /\ indexed \subseteq Block
    /\ phase \in {"run", "flush", "stop", "down", "replay", "load", "failed"}
    /\ todo \subseteq Key
    /\ whole \subseteq indexed
    /\ dirty \subseteq Block /\ trimmed \subseteq indexed
    /\ best \in Block /\ nMinTrimHeight \in Nat
    /\ exposed \in BOOLEAN /\ skipped \in BOOLEAN /\ unclaimed \in BOOLEAN
    /\ crashes \in 0..MaxCrashes

GenesisOutputs == OutsOf(Genesis)

(* Coins m are those of the chain up to b, but for genesis outputs that a   *)
(* replay of the very first flush left out and peg-ins that one left        *)
(* unclaimed.                                                               *)
CoinsOf(m, b) ==
    LET coins == IF b = Null THEN Empty ELSE StateAt[b]
    IN  /\ \A o \in Outpoint : m[o] = coins[o] \/ (skipped /\ o \in GenesisOutputs /\ m[o] = Null)
        /\ \A p \in Pegin : m[p] = Claimed => coins[p] = Claimed
        /\ \A p \in Pegin : coins[p] = Claimed => m[p] = Claimed \/ unclaimed

(* Whenever the database names a best block, its coins are exactly those of *)
(* the chain up to that block, whichever batches of whichever flushes and   *)
(* replays were lost before; and so are the coins of the running node.  A   *)
(* peg-in that is held as claimed was claimed on that chain: no crash,      *)
(* replay or reorganization leaves one behind that was rolled back.         *)
CoinsRecovered ==
    /\ dbBest # Null => CoinsOf(db, dbBest)
    /\ phase = "run" => CoinsOf(mem, tip)

(* What the comment on RollforwardBlock says of the whole state, peg-ins    *)
(* included: replay applies the effects of a block.                         *)
ClaimsRecovered ==
    dbBest # Null =>
        \A p \in Pegin : StateAt[dbBest][p] = Claimed => db[p] = Claimed

(* The node refuses to start only when the flush that was interrupted had   *)
(* itself unlinked a block between the old and the new tip, the coins on    *)
(* disk being further behind than MIN_BLOCKS_TO_KEEP, or when a replay has  *)
(* left out a peg-in claim.  Otherwise the head blocks and the best block   *)
(* are in the index on disk, which is written first, what a replay reads is *)
(* in the block files, nothing pruned by an earlier flush being needed, and *)
(* VerifyDB undoes the last blocks cleanly, however often the node crashed. *)
StartSucceeds == phase = "failed" => exposed \/ unclaimed

(* A reorganization can take off the tip whenever its data is there, also   *)
(* after crashes and replays: DisconnectBlock finds every output, spent     *)
(* input and claim as the block left it, and does not abort the node,       *)
(* unless a replay has left out a claim.                                    *)
TipDisconnects ==
    phase = "run" /\ tip \notin {Null, Genesis} => DisconnectsClean(mem, tip) \/ unclaimed

(* The whole header of every block index entry is on disk, or the entry is   *)
(* still to be written and has it in memory: what trim() drops can be read   *)
(* back, however often the entry was written again since, with the data it   *)
(* described pruned, or the node crashed and loaded the index trimmed.       *)
HeadersKept ==
    /\ indexed \cup trimmed \subseteq whole
    /\ known \ whole \subseteq dirty
=============================================================================
