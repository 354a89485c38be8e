# A verification project for Elements

Elements is a Bitcoin Core fork for side chains: blocks are signed by a
federation instead of mined, coins move in from a parent chain by peg-ins and
out by peg-outs, and the federation's parameters are changed by votes in block
headers (dynamic federations, "dynafed"). This directory models the parts of the
node that keep the chain and its state, checks them with TLC on small instances,
and proves the safety results of seven of them with TLAPS for every size.

`PROJECT.json` lists the components, runs, mutants (bugs the properties must
catch), the source lines behind every definition, findings, hazards and theorems.

## The system

| Part | State | Operations | Who calls them |
|---|---|---|---|
| Coins views (`coins.cpp`) | cached coins and peg-in flags with DIRTY/FRESH, best block | fetch, add, spend, claim, flush, uncache | block connection, mempool acceptance |
| Coins database (`txdb.cpp`), recovery (`validation.cpp`) | coins, DB_BEST_BLOCK, DB_HEAD_BLOCKS, block index on disk | batched flush, replay at start | FlushStateToDisk, LoadChainstate |
| Chain selection (`validation.cpp`) | block index and its status flags, candidates, unlinked and failed blocks, tip | accept header and block, activate best chain, invalidate, reconsider, prefer | network threads, RPC threads |
| Dynafed (`dynafed.cpp`, `pegins.cpp`, `pak.cpp`) | header parameters | tally, header check, valid peg-in scripts, PAK list | header acceptance, block connection, miner, mempool |
| Memory pool (`txmempool.cpp`) | transactions | accept, evict for block, evict for reorganisation | network, block connection |
| Script check queue (`checkqueue.h`) | queue, counters, result | add, wait, work | ConnectBlock, worker threads |
| Scheduler, validation interface | task queue, callbacks, subscribers | schedule, process, register, unregister | all threads |
| Indexes (`index/base.cpp`) | best indexed block, synced flag | sync thread, block connected, flush | own thread, validation interface |
| Transaction requests, orphans | announcements, orphan pool | announce, request, expire, limit | network |
| Header trimming, block files, pruning | headers in memory or on disk, files | trim, untrim, prune | flush, header reads |

What makes these hard: `ActivateBestChain` and `InvalidateBlock` release
`cs_main` in the middle of their work; a block can wait for the parent chain (its
peg-ins are not deep enough yet) and stall the chain until a later call tries
again; a flush of the coins is many database writes and may be cut by a crash,
and so may the replay that repairs it; block data arrives before the data of
ancestors; parameters change at heights that the mempool has to anticipate and
that a reorganisation can take back; an index is fed by a thread of its own and by
queued notifications that saw the chain at different times; a transaction is asked
of one peer at a time while peers stay silent, answer late or leave.

Threads meet at `cs_main` or at a mutex of their own. An action is a critical
section, or a part of one where the part is itself interesting; then no other action is
enabled until it is complete.

## Modules

| Module | Models | Extended by |
|---|---|---|
| `CoinsView` | what a coins view promises: one map and a working copy that is committed or dropped | |
| `CoinsCache` | the database, `CoinsTip` and the view opened over it | `CoinsCacheProofs`, `MCCoinsCache` |
| `BlockTree` | the tree of headers: heights, ancestors, forks | `BlockTreeProofs`, `CoinsRecovery`, `ChainState`, `FilterIndex` |
| `CoinsRecovery` | flush, pruning, header trimming, shutdown, crash, restart and replay | `CoinsRecoveryProofs`, `MCCoinsRecovery` |
| `ChainState` | block index, candidates, active chain, stalls, commands, restart | `ChainStateProofs`, `MCChainState` |
| `DynaFed` | votes, header check, valid peg scripts and keys, peg transactions in the mempool | `DynaFedProofs`, `MCDynaFed` |
| `CheckQueue` | the threads that check the scripts of a block | `CheckQueueProofs`, `MCCheckQueue` |
| `SerialQueue` | what the notification queue promises: callbacks one at a time, in order, all of them | |
| `Notifications` | scheduler, its single-threaded client, subscriber list, shutdown | `NotificationsProofs`, `MCNotifications` |
| `FilterIndex` | the base index and the block filter tables, with the chain that feeds them | `FilterIndexProofs`, `MCFilterIndex` |
| `TxRequest` | the transaction request tracker | `TxRelay` |
| `TxRelay` | the messages, filters, orphans, mempool and blocks around it | `MCTxRelay` |

Definitions named `X_Something` just before `X` are mutants: plausible wrong
versions of `X`, used only to show that a property can fail.

### CoinsView and CoinsCache

Keys are outpoints (the value is a coin or spent) and peg-ins (the value is the
claimed flag). `db`, `tip` and `view` are the database, the entries of `CoinsTip`
and those of the view `ConnectTip`, `DisconnectTip` and `TestBlockValidity` open;
`tipBest` and `viewBest` are the lazily read `hashBlock` of the two caches.
`AddCoin`, `SpendCoin`, `IsPeginSpent`, `SetPeginSpent`, `FetchCoin`, `Uncache` and
`BatchWrite` are operators on one entry, and the actions apply them. `threw` is set
where the code throws `std::logic_error`. Callers keep their contracts: a coin is
added without `possible_overwrite` only where there is none. Memory accounting is
left out.

`CoinsView` is the abstract specification: reading, uncaching, the FRESH shortcuts
and the flush to disk are invisible in it. The refinement mapping of `CoinsCache`
takes the answer of `CoinsTip` for every key as the committed map, and the answer
of the open view as the working copy.

### CoinsRecovery

Coins are maps, which `CoinsCache` justifies, and a coin is the height at which it
was created, so that a transaction confirmed on both branches leaves different
coins. What a block leaves is defined key by key (the last transaction that touches a key
decides its value), not as a fold over the transactions; so are `DisconnectBlock` and
`RollforwardBlock` over blocks. `FlushStateToDisk` writes the block index first (`WriteBlockIndex`), unlinks
pruned files, and then writes the coins in batches; the first batch replaces the
best block by the two head blocks. A batch has one entry, because a larger one only
skips crash points. `Crash` is possible while running, in a flush, in the flush of a
shutdown (`Stop`), in a replay and while the tip is loaded. A start replays if there are
head blocks: `DisconnectBlock` from the old tip to the fork, `RollforwardBlock` to the new
one, flush. Then it loads the best block and verifies it (`LoadChainTip`): `VerifyDB`, at
its default level, undoes the last `-checkblocks` blocks in memory, fewer if one has no
data or its cache is full, and an unclean one stops the start. While running, a block that
cannot be read or disconnected cleanly aborts the node. The histories `exposed` (the last
flush pruned a block that its own replay reads), `skipped` (a replay without an old tip
left the genesis outputs out) and `unclaimed` (a replay left out a peg-in claim of its
chain) name the exceptions exactly. Level 4 of `VerifyDB`, which connects the blocks again,
is left out.

Three sets describe the block index: the entries on disk (`indexed`), those whose
block and undo data are on disk (`stored`), and the data the running node has
(`known`). Pruning takes any set of blocks deep enough, because a file holds blocks in
the order of their arrival. With `-trim_headers` an old entry keeps its header only on
disk (`trimmed`); it is read back when its block becomes the tip and before the entry
is written again. Readers in `dynafed.cpp` and `pegins.cpp` read headers back in the
same way and are not repeated. `whole` are the entries on disk that hold their
header.

### ChainState

The blocks that may ever arrive are a constant tree, every one with work 1
because blocks are signed. `pc` says where the holder of `m_chainstate_mutex`
is: outside (`idle`), in a critical section of `ActivateBestChain` (`find`,
`connect`), between two of them (`again`), or in `InvalidateBlock` (`inv`).
Headers, blocks and commands are possible whenever `cs_main` is free, also between the
steps of the other two. ConnectBlock's verdict and the ripeness of peg-ins are
constants of the block, the latter until `Ripen`. The comparator with sequence
numbers and pointer ties is as in the code. `ReceivedBlockTransactions` links waiting
descendants in any order its multimap allows. Four histories name the exceptions of
the properties: `unoffered` (a command made a block usable or better without offering
it as a candidate), `leftOut` (a call of `ActivateBestChain` disconnected blocks and
stalled, and these blocks, as good as the tip now, are no candidates), `unqueued` (data
that arrived over a failed, unlinked parent) and `unjustified` (an invalid ancestor was
cleared while a branch above it stays marked).
Pruning, snapshots, `m_best_invalid`
and system errors are left out.

### DynaFed

The active chain is a sequence of headers with `m_current` and `m_proposed`. The
functions of `dynafed.cpp`, the header check, `GetValidFedpegScripts` and
`GetActivePAKList` are operators with the names they have in the code. Scripts are
names; a program is tagged with its kind and holds its script, so that the
rules on native segwit programs, on programs that match their script and on
`OP_DEPTH` can be told apart. Roots are tuples (hashes are injective). The state
also has the peg transactions in the mempool and the phase of a reorganisation:
disconnect, connect and the mempool update are separate steps under the locks.
Activation (BIP9) is a height, or from the start; the chain has signed blocks
and enforces PAK. The depth of a peg-in on the parent chain is not modelled here
(`ChainState` has it).

The reference is stated from all votes since the genesis block: `Votes` and `Winners` of
each epoch, `InForce` as the last winner so far, `FedpegInForce` for peg-ins. The code
reads one epoch back and the header at its start. `StartAssumption` says that
`-con_start_p2wsh_script` is used on chains that start with dynafed, as its help text
says; `ProposalsAssumption` is what `Unserialize` can produce.

### CheckQueue

`pc` of every thread is its place in `CCheckQueue::Loop`, `Add` or the control object;
a thread that waits on a condition variable is woken by a notification or spuriously.
`ConnectBlock` adds checks in any portions, may return before `Wait` (then the
destructor waits), and goes on to the next block; `StopWorkerThreads` runs once no
block is being checked.

### SerialQueue and Notifications

Producers call `AddToProcessQueue` or `SyncWithValidationInterfaceQueue`; servers are
threads in `CScheduler::serviceQueue`; the flusher is the shutdown thread, which stops
the scheduler and then runs `EmptyQueue`. `MainSignalsInstance` is the list with its
reference counts, its entries numbered in the order of registration, which is the order
of the list; `Iterate` releases the mutex during each visit, and any thread may
register or unregister then. The node starts one scheduler thread; two are modelled,
as the client is written for any number. Timed tasks, `MockForward` and
`StopWhenDrained` are left out. `SerialQueue` is the abstract specification that
`Notifications` implements (`RunsSerially`), liveness included.

### FilterIndex

The sync thread, the notification callbacks, the validation thread that moves the tip
and flushes, a reader in `BlockUntilSyncedToCurrentChain`, and restarts. Every write to
the database is a step of its own, so the process can die between any two. The
database has the locator and filter position (one batch), the table by height and the
table by hash; the filter file is a function from positions to blocks. Two steps take the
process down on the spot: the assertion at the head of `Rewind`, and a reader that comes when
the index is synced with an empty chain and has no best block yet (`ReadNull`). Histories:
`kept` are blocks whose filter must be found, `lost` the ones a restart gave up. Death
of the process is modelled, not of the machine; block data is never missing; a filter
takes one position. The tables of the transaction index and the coin statistics are
left out.

### TxRequest and TxRelay

`TxRequest` is the tracker as a value and its methods as operators, with times relative
to the clock. `TxRelay` has the handlers of `net_processing.cpp` that use it:
announcements, `TX`, `NOTFOUND`, the request part of `SendMessages`, peers that leave,
transactions submitted or evicted on the node, and `BlockConnected` in its three
separately locked steps. Init picks a scene: a small set of peers and
transactions and how often the environment may act. Left out: errors of the bloom
filters, replacement (no transaction signals it), reorganisations, Relay and ForceRelay permissions, large
orphans, peers that come back (node ids are not reused), initial block download, a
mempool too full for the transaction itself, the order within one getdata, equal
priorities. The expiry of orphans may take any of them. `RequestedTx` has its branch for
a hash that is not the best candidate, which `SendMessages` never takes.

## Runs

| Run | Instance | What it shows |
|---|---|---|
| `coins_cache` | 1 outpoint, 1 peg-in, 2 coins, 2 blocks | flags stay consistent with what lies below (`EntriesConsistent`), and `CoinsView` is implemented: whatever is cached, uncached or flushed, a read sees the last write |
| `coins_recovery` | branches of 2 and 3 blocks that confirm the same transaction at different heights, spent genesis outputs, 2 crashes, blocks pruned and headers trimmed close to the tip, any depth of `VerifyDB` | coins on disk with a best block are exactly those of that chain, but for genesis outputs after a replay of the very first flush and claims a replay left out; no claim of a rolled back peg-in stays; no trimmed header is lost; the node starts again (`StartSucceeds`) and can take off its tip (`TipDisconnects`) unless a replay left out a claim, or, for the start, the interrupted flush had itself pruned a block the replay reads |
| `recovery_pegins` | the same without genesis outputs, 1 crash | **violated**: a replay restores the claimed peg-ins |
| `chain` | a branch of 1 and one of 2 that forks again, one block invalid in context, one in its scripts, a late peg-in, 1 command, 1 restart | the active chain is valid whenever `cs_main` is free, marks and links agree (`FlagsConsistent`), the candidates hold every usable block as good as the tip but for the ones named (`CandidatesComplete`) and cover what is better (`NothingForgotten`), `cs_main` is released on no worse a tip unless the call stalled, and the tip ends on the best usable chain unless the last call stalled |
| `chain_retry` | the same tree, a late peg-in, no command | **violated**: the stalled chain is tried again |
| `dynafed` | epochs of 3 blocks, 2 valid epochs, 8 headers, 2 legal and 3 illegal proposals, dynafed from the start or from height 4 | headers carry what was voted, scripts are valid for exactly their epochs, every peg transaction in the mempool can be mined in any next block |
| `dynafed_votes` | the same | **violated**: four fifths of the blocks of an epoch agreed on the parameters that the next one adopts |
| `check_queue` | 2 workers, 4 checks of which 2 may fail, batches of 2, any number of blocks | `Wait` is right, nothing outlives its block, no wake-up is lost, the stop joins everyone |
| `notifications` | 1 producer, 2 servers, 2 subscribers, 3 callbacks, 3 registrations | `SerialQueue` is implemented, list entries live as long as they are used, every subscriber that stays is reached, a sync drains the queue |
| `index` | 2 branches of 2 blocks, 3 moves, 1 restart, 11 filter positions | filters are found and are the block's own, the best block is indexed, a reader finds the tip it asked for, `FatalError` is called only after a restart lost a block, and the index catches up (`EventuallySynced`) unless the assertion of `Rewind` is met, a reader found no best block, a restart lost a block or the index was interrupted |
| `index_rewind` | the same | **violated**: `Rewind` is called with the published best block |
| `tx_relay` | 13 scenes of up to 3 peers and 4 transactions | counters and selection of the tracker (`SanityCheck`), what it may ask for, no request for what the node has, nothing acceptable is barred, no orphan is passed over, nothing outlives its peer, a peer is asked once and every announcement is acted on |

Bounds. Operations on different keys of a cache do not interact, so one key of
each kind is enough for `coins_cache` up to the whole-view operations, and the
theorems drop the bound. Two crashes are one in a flush and one in the replay it
causes; a third would meet the same situation. `MIN_BLOCKS_TO_KEEP` and
`nMustKeepFullHeaders` are 1, so that blocks between the tip on disk and the one in
memory can be pruned and headers above the genesis block trimmed. A branch of three is
the least that has an unlinked block over an unlinked block, and two blocks over one
parent the least where a command clears marks on one branch only. In `dynafed` a script
voted in during the first epoch enters at height 3 and another at height 6, when the
first one of the chain expires; height 4 activates in the middle of an epoch. An epoch
of 3 has a threshold of 2, so that one vote does not win and two rivals cannot both
win; lengths 1 and 2, where they can, are covered by the theorems. Four checks in batches of two keep two workers and the master busy at once; the
theorems drop the bound. Two subscribers and a third registration let an entry go
and a new one come during a visit. Three moves of the tip are a reorganisation of two
blocks and one way back; eleven positions bound the filter file (a guard on the
writing steps). In `tx_relay` the clock may go back by one unit, requests expire after three, and
each peer may have two announcements and one request before it counts as overloaded.

Fairness. `chain`: a call of `ActivateBestChain` or `InvalidateBlock`,
once begun, runs to its end, and the parent chain catches up; nothing calls
`ActivateBestChain` again by itself. `check_queue` and `notifications`: a thread that can
run does; a thread asleep on a condition variable needs its notification, a spurious
wake-up is possible and never counted on. `index`: the sync thread, the callbacks and a
reader run on. `tx_relay`: time passes, and the message handler visits every connected
peer. Arrivals, commands, votes, restarts and crashes have no fairness. Where `ENABLED`
would be too slow to evaluate, weak fairness is written out as "infinitely often not
enabled, or infinitely often taken" (`TxRelay`). `coins_cache`, `coins_recovery` and
`dynafed` check safety only and assume none.

`EventuallyAsked` is checked for one watched announcement in each scene.

## Findings

Each violated property is a sentence of the repository, quoted in `PROJECT.json`.

* Replay after a crash (`recovery_pegins`): `RollforwardBlock` passes peg-in inputs
  to `SpendCoin`, so a claim whose batch was lost is not set again. `VerifyDB` notices at
  the same start if the block is among those it undoes.
* Stalled chain (`chain_retry`): the periodic call of `ActivateBestChain` is put on a
  scheduler that no thread serves, so a stall that is the last event stays.
* Votes (`dynafed_votes`): the threshold of votes rounds down, so that less than 4/5
  suffice if the epoch length is no multiple of 5. `ParametersVoted` holds with the
  threshold of the code.
* Index during a reorganisation (`index_rewind`): the sync thread publishes its position now
  and then, and `Rewind` asserts that the position is the published one.

Met on the way and not kept as runs. The properties name the exceptions exactly where
they need them.

* Recovery: with `connect_genesis_outputs` a crash in the very first flush loses the
  genesis outputs, because the replay starts above the genesis block. Block files are
  unlinked before the coins are flushed, so after a crash in between, with coins on disk
  more than `MIN_BLOCKS_TO_KEEP` behind, the replay misses a block and the node needs a
  reindex (`StartSucceeds`). `nLastBlockWeCanPrune` is unsigned and wraps around if
  `-npruneafterheight` is set below `MIN_BLOCKS_TO_KEEP` (`PruneAssumption`).
* Chain selection: some assertions of `CheckBlockIndex` (run after every change with
  `-checkblockindex`, the default on regtest only) do not hold of what the code does. That
  a block which is as good as the tip, usable and linked
  is a candidate, the tip included (`validation.cpp:4976-4990`), fails for an ancestor whose
  marks `ResetBlockFailureFlags` cleared without offering it, while `InvalidateBlock` is at
  work, and for the tip that a reorganisation leaves when it disconnects and then stalls;
  `CandidatesComplete` names these cases. That a block with the data of all its ancestors
  is linked and one without waits in `m_blocks_unlinked` (4963, 4964, 5011) fails for data
  that arrived over a failed, unlinked parent, once the mark is cleared (`unqueued`), and
  that a marked block is invalid or has an invalid ancestor (4974) fails for a branch that
  keeps BLOCK_FAILED_CHILD when its invalid ancestor is cleared as the ancestor of a block
  of another branch (`unjustified`); `FlagsConsistent` names these two.
  Every block that `InvalidateBlock` disconnects stays BLOCK_FAILED_VALID, unlike its
  comment. With two commands that leave a better block unoffered, `ActivateBestChain` may
  release `cs_main` on a worse tip without a stall, unlike its comment on forward progress
  (`ProgressUnlessStalled`).
* Dynafed: for an epoch length of 2 both proposals can reach the threshold and the later
  one wins, and for a length of 1 every vote does. The equality used by the header check
  leaves `m_elided_root` out, so a header may elide the parameters under a root that commits
  to others, unlike the comment at `primitives/block.h:64`; the properties of `dynafed` hold
  with such headers on the chain. With `-con_start_p2wsh_script` the
  peg-in script of the first epoch is still the P2SH-wrapped one (`FedpegInForce`); if
  dynafed were activated later, the mempool would look ahead to the other one.
* Notifications: `BlockChecked` and `NewPoWValidBlock` run on the validation thread, beside
  a queued callback; a subscriber that registers again during a delivery may get it
  twice.
* Index: the sync thread publishes and commits a block before it writes its filter
  (`base.cpp:175`); if the process dies before the next commit, the filter is missing or
  overwritten after the restart (`lost`). A reader that comes after the index has synced with
  an empty chain and before its first block dereferences a null best block (`ReadNull`). A
  start after which the locator is off the chain moves the best block to the fork without
  `Rewind`.
* Transactions: one submitted on the node is not forgotten by the tracker
  (`HadIsForgotten`); an orphan is not reconsidered when its parent comes by a block or
  is submitted, or when the peer whose work set has it leaves (`OrphansScheduled`); a
  copy of a mempool transaction without its witness is a conflict, so that its id, the
  txid of both, is put in the reject filter, and a child that still misses another parent
  is then rejected by both its ids until the next block, "regardless of what witness is
  provided", though its parent is in the mempool (`Contested` in `NeverHadNotRejected`).

## Proofs

| Module | Theorems | For every |
|---|---|---|
| `CoinsCacheProofs` | `CacheInvariant`, `CacheRefinesView` | set of outpoints, peg-ins, coins and blocks |
| `CoinsRecoveryProofs` | `RecoveryTypeCorrect`, `CoinsAlwaysRecovered`, `StartsUnlessPruned`, `TipAlwaysDisconnects`, `HeadersNeverLost` | block tree, content of blocks, pruning, trimming and verification depth, number of crashes |
| `ChainStateProofs` | `ChainTypeCorrect`, `ActiveChainValid`, `BlockIndexConsistent`, `CandidatesAlwaysComplete`, `NoBlockForgotten`, `ForwardProgress` | block tree, order of addresses, verdict on blocks, number of commands and restarts |
| `DynaFedProofs` | `DynaFedTypeCorrect`, `HeadersUnderVotedParameters`, `PeginScriptsExact`, `MempoolAlwaysMinable` | epoch length, number of valid epochs, activation height, set of proposals, height |
| `CheckQueueProofs` | `WaitIsExact`, `BlocksAreSeparate`, `CountersAreExact` | number of workers and checks, batch size |
| `NotificationsProofs` | `NotificationsTypeCorrect`, `EntriesLiveWhileUsed`, `SubscribersReached`, `SyncDrainsQueue`, `CallbacksSerial` | number of threads, subscribers, callbacks and registrations |
| `FilterIndexProofs` | `IndexTypeCorrect`, `FiltersFound`, `BestBlockIndexed`, `FatalOnlyWhenLost`, `ReadersSeeTheirTip` | block tree, number of moves, filters and restarts |

`BlockTreeProofs` has the lemmas on trees that three of them share. Constants that bound
TLC's instances (`MaxCrashes`, `MaxCommands`, `MaxHeight`, ...) are arbitrary numbers in the
theorems. `TypeOK` of `CoinsRecovery` is
proved and not checked by its run. Every inductive invariant was checked by TLC on the instance of its run before it
was proved.

Only model-checked: liveness (`ConvergesUnlessStalled`, `EventuallySynced`,
`EventuallyAsked`, the progress properties of `check_queue` and `notifications`), which is
out of the prover's reach, and everything about transaction requests, whose operators fold
over sets.

### CoinsCacheProofs

`CoinsCacheProofs` proves, for all sets of outpoints, peg-ins, coins and blocks:

* `CacheInvariant`: `Spec => [](TypeOK /\ EntriesConsistent /\ NoLogicError)`;
* `CacheRefinesView`: `Spec => ImplementsCoinsView`.

Assumptions: the two kinds of keys are disjoint, and the special values are none
of the coins, blocks and entries they are used beside (`KeysAssumption`,
`NoEntryAssumption`).

`EntriesConsistent` says of every entry, relative to the answer of the cache below:
an entry that is not DIRTY repeats that answer, and a FRESH one means that the
answer is "nothing". It is inductive with the type invariant: a flush merges an
entry into one below whose own base is one level deeper, and exactly this relation
of the two levels makes the FRESH shortcuts (erase instead of write) right. The
argument has three layers: lemmas on an operator and one entry (`AddCoinOK`,
`MergeEntryOK`, ...), lemmas that lift them to a cache in a state that satisfies the
invariant (`TipReadOK`, `ViewStepOK`), and one lemma per action that gives the
invariant and the abstract step together (`ViewFlushStep`, `TipFlushStep`, ...),
joined in `Step`. `TypeOK` and `NoLogicError` (nothing throws) need no run beside the
theorem.

### CheckQueueProofs

`CheckQueueProofs` proves, for all finite sets of workers and checks and every batch
size:

* `WaitIsExact`: `Spec => []VerdictExact`;
* `BlocksAreSeparate`: `Spec => []NothingLeft`;
* `CountersAreExact`: `Spec => []CountersExact`, that `nTodo`, `nIdle` and `nTotal` are the
  cardinalities of the sets their comments describe (proved only, as is `TypeOK`).

Assumptions: the master is no worker and the batch size is positive. The inductive
invariant `IInv` adds where threads can be (`Places`), that a check is in one place only
(`Disjoint`), and that while `fAllOk` is true every failing check is still to do
(`Status`). The counters are needed in it: `Wait` decides by `nTodo = 0`, so the verdict is
only right if that means that nothing is queued or running. One lemma covers the turn of
a thread in `Loop` (`TurnPreserves`), the other steps have a lemma each, and `NextPreserves`
joins them.

### BlockTreeProofs

`TreeAssumption` says that every block but the genesis block has a parent and that every
set of blocks has one whose parent is outside, which is how headers arrive. From it follow
an induction principle over sets of blocks (`TreeInduction`), that the recursive functions
`Ancestors` and `Height` are what their equations say, and the order of a chain: two
ancestors of a block are comparable (`AncestorsLinear`), heights identify them, and two
blocks have a fork (`ForkExists`).

### CoinsRecoveryProofs

`IndInv` has three parts. `CoinsInv`: the coins in memory are those of the tip; on disk they
are those of the best block, or, while there are head blocks, each coin is that of the old
tip or that of the new one (`Mixed`); what a flush has written agrees with memory. `Mixed` is
why a replay works: disconnecting from any mixture leaves at each key either the coin of the
fork or what the new branch will overwrite (`DisconnectRestores`, `ReplayOutpoints`), and
`FreshChain`, that a block of the chains in question creates nothing that was there before,
is what makes it so for a transaction confirmed on both branches. `IndexInv`: the block index
on disk is closed under parents, holds every block the coins database names, and every
entry in it has its header. `ReplayInv`: what a replay from the coins on disk would read is
in the block files, or the flush in progress has pruned it (`exposed`). The theorems show in
passing that the failure of `LoadChainTip` for a best block that is not in the index cannot
happen.

`StartsUnlessPruned` and `TipAlwaysDisconnects` rest on one more argument (`DisconnectClean`):
undoing the blocks above any block of a chain from the coins of the tip leaves the coins of
that block, at each of which `DisconnectBlock` finds what `ConnectBlock` left. The genesis
outputs that a first replay may have lost do not disturb it, as no block creates them again
and spending them leaves nothing.

Assumptions: keys and special values are distinct (`CoinsAssumption`); a transaction does not
spend its own outputs, and no two transactions of a block, nor one of the genesis block and a
later one, have an output in common (`OutputsAssumption`: outputs are named by the hash of
their transaction); and `MIN_BLOCKS_TO_KEEP <= nPruneAfterHeight` (`PruneAssumption`), which holds on every network
unless an option changes it.

### ChainStateProofs

The comparator is shown to be a total order (`WorseOrder`), so that a finite set of
candidates has a best one. `IndInv` is the conjunction of what the handlers rely on without
saying so. `Links` and `Scripts`: linked blocks have all ancestors, validated blocks are
linked and closed under parents. `Working`: `pindexMostWork`, chosen before `cs_main` is
released, is still a usable candidate above the tip when it is used. `Held`: the tip that
`cs_main` was taken with stays validated and usable, so that it can be returned to, and what
`InvalidateBlock` marks is no longer in the chain. `Offered`: a usable block no worse than
the tip is a candidate or is covered by a validated candidate as good. The last one is the
strengthening that `NothingForgotten` needs: a candidate that fails is erased, and what
remains must still cover every block, which only a validated candidate, that no later
failure can take out, guarantees. `CandidatesAlwaysComplete` adds `Complete`: while
`ActivateBestChain` holds `cs_main`, the blocks that became as good as the tip by its
disconnecting may be missing, which are the ones worse than the tip it started from; at the
end they are worse than the tip again, or the call stalled (`leftOut`).

Assumptions: addresses are distinct and the genesis block is valid (`ChainAssumption`).

### NotificationsProofs

`Exclusive` (at most one worker is in a callback, and `m_are_callbacks_running` says so),
`Current` and `Order` (finished, running and pending callbacks are the numbers 1, 2, ... in
this order) give serial execution and the sync. `EntriesCounted` is inductive together with
`Visiting` (a thread refers to an entry exactly while it visits it); `Ahead` says that what a
visit still owes lies behind its position in the list, so that unlinking and appending
entries during the visit loses none. `CallbacksSerial` is the safety part of the refinement of
`SerialQueue`: each step is a step of it or leaves its variables alone (`Promise!Safety`).

Assumptions: finitely many threads of disjoint kinds, and a registration for each of the
subscribers there are at the start.

### FilterIndexProofs

The proofs cover what holds while nothing is lost; a lost block makes every theorem but the
first vacuous, and the run shows that only the crash described above loses one. `IndInv` has
the control state of the sync thread and of the callback (`Control`), the shape of the tables
(`Shape`), the queue (`Backlog`), and, while nothing is lost, `Tables` and `Awaited`. `Tables`:
everything up to the last finished block is stored; what the locator stands for is stored
below the stored position; entries by hash stay good for ever; and a kept block whose entry
by height the next write may replace has an entry by hash (`Reachable`), which is why `Rewind`
copies before it goes back. `Backlog` and `Awaited`: after a queued notification of a block,
those of the blocks that lead from it to the tip are queued too (`Ordered`), so what is queued
before a reader brings the index from its best block to the reader's tip (`Brings`), whatever
stale notifications lie in between.

Assumptions: bounds are numbers, `None` is no block and no record (`BoundsAssumption`,
`NoneAssumption`), and the chain is at some block or empty at the start (`StartedAssumption`).

### DynaFedProofs

`Checked(c)` says of a chain that its votes are null or whole entries, that its headers are
null before activation, and that each has the entry that counting all votes demands; the
invariant adds that the mempool's transactions pass the mempool's checks whenever the locks
are free. The argument:

1. `Tally`: the backward walk over an epoch finds a winner exactly if there is one, and the
   same one. From three blocks on the threshold is more than half (`OneWinner`); below it is
   at most 1, so the walk stops at the last vote, which the reference chooses too.
2. `StartBlockIs` and `ComputesInForce`: without a winner the header at the start of the epoch
   (block 1 for a chain that starts with dynafed) has the parameters in force, or is null
   and nobody has voted yet.
3. `AppendedChecked`: a header that passes the check extends a checked chain. It uses that
   the parameters in force are whole, so that an entry with an empty program differs from
   them and is refused (`ProposalAdopted`).
4. `ScriptsAre`: `GetValidFedpegScripts` walks over the starts of the last epochs, with or
   without the look-ahead. Hence what the mempool checked is what the next block is checked
   against (`NextBlockAccepts`), and it stays so until the epoch ends (`SameEpochAccepts`),
   when `removeForBlock` checks anew.

Assumptions: positive epoch length and number of valid epochs (`EpochAssumption`),
`StartAssumption` and `ProposalsAssumption` (above). Hashes are injective, as in the model.

### Only model-checked

Everything about `FilterIndex`, `TxRequest` and `TxRelay`; and all liveness (`Recovers`,
`ConvergesUnlessStalled`, `RunsSerially`'s fairness part, and the liveness of `CheckQueue`,
`FilterIndex` and `TxRelay`), because TLAPS proves nothing about fairness or `ENABLED` here.
The findings are counterexamples and
need no proof.

## Not modelled

The script interpreter, Simplicity, signatures, range proofs and hashes (pure
functions or cryptography: their verdict is a constant of a block or transaction),
the wallet, the graphical interface, tools, vendored libraries and encodings.
`PROJECT.json` gives the reason for each. The definitions stand for about 5,400 lines,
a third of `validation.cpp` and most of the smaller files they name, which is a small share
of the whole repository. Of the modelled parts, failing disk writes,
the layout of block files, snapshots, block download and compact blocks are left out.

## Plan

1. Mempool: conflicts over one peg-in, replacement, ancestors and descendants, composed
   with connecting and disconnecting blocks and with `TxRelay`.
2. Block download: stalling peers, compact blocks, and the header download limit of
   trimming nodes.
3. The work queue of the HTTP server, after the pattern of `CheckQueue`.
4. Version bits, so that `DynaFed` gets its activation from the chain; explicit asset
   balances with their width; the signature cache.
5. Proofs: `BestIndexed` and `Findable` of `FilterIndex`, with the invariant that ties
   the two tables to the chain at each of its writes; the counters and the selection of
   `TxRequest`.
