----------------------------- MODULE FilterIndex -----------------------------
(***************************************************************************)
(* An index over the active chain: BaseIndex with the tables of            *)
(* BlockFilterIndex.  A sync thread walks the active chain until it has    *)
(* caught up and sets m_synced; from then on the notifications of          *)
(* validation, which were queued all along, keep the index up to date.     *)
(* The database holds a locator, the position in the filter file, a table  *)
(* by height and, for blocks that were reorganised away, one by hash.      *)
(*                                                                         *)
(* An action is what happens under one lock, or between two writes to the  *)
(* database, so the process can die at any point in between.  A restart    *)
(* takes the chain back to its last flush.  Writes survive the death of    *)
(* the process (not of the machine); block data is never missing; a        *)
(* filter takes one position of the file.                                  *)
(***************************************************************************)
EXTENDS BlockTree, Sequences

CONSTANTS
    Started,            \* the tips the node may first start with
    MaxMoves,           \* bound: changes of the tip, and flushes
    MaxRestarts,        \* bound
    MaxFilters,         \* bound: positions of the filter file
    None                \* no block: the tip of an empty chain

ASSUME BoundsAssumption == MaxMoves \in Nat /\ MaxRestarts \in Nat /\ MaxFilters \in Nat
ASSUME StartedAssumption == Started \subseteq Block \cup {None}
ASSUME NoneAssumption ==
    /\ None \notin Block \cup Nat
    /\ None \notin [block : Block, pos : Nat] \cup [block : Block, left : Nat]

Place == Block \cup {None}
Position == 0..MaxFilters

(* pprev, and the chain that ends in a block, also for no block. *)
Prev(b) == IF b = Genesis THEN None ELSE Parent[b]
Chain(b) == IF b = None THEN {} ELSE Ancestors[b]
Heights == {Height[b] : b \in Block}
HeightOf(b) == IF b = None THEN -1 ELSE Height[b]
FindFork(a, b) == IF None \in {a, b} THEN None ELSE Fork(a, b)
GetAncestor(b, h) == IF h \in 0..HeightOf(b) THEN CHOOSE a \in Chain(b) : Height[a] = h ELSE None

VARIABLES
    tip, flushed,       \* of the active chain: in memory, on disk
    queue,              \* notifications: [type, block]
    best, synced,       \* m_best_block_index, m_synced
    interrupt, alive,   \* m_interrupt; the process runs
    pc, pindex,         \* the sync thread
    timed,              \* last_locator_write_time is not 0
    cb,                 \* the step BlockConnected is at
    pos,                \* m_next_filter_pos
    file,               \* the filter file: the block whose filter is at a position
    locator, dbPos, byHeight, byHash,   \* the database
    uncovered,          \* history: blocks up to the locator without a filter below dbPos
    reader,             \* BlockUntilSyncedToCurrentChain: [block, left]
    moves, restarts,
    fatal,              \* history: FatalError was called since the start
    lost,               \* history: blocks at the locator whose filter a restart gave up
    kept                \* history: blocks whose filters must be found

chain == <<tip, flushed, moves>>
thread == <<pc, pindex, timed>>
committed == <<locator, dbPos, uncovered>>
db == <<committed, byHeight, byHash>>
run == <<interrupt, alive, restarts, lost>>
vars == <<chain, queue, best, synced, thread, cb, pos, file, db, reader, run, fatal, kept>>

(* The tables of an empty database; Init finds no locator. *)
Init ==
    /\ tip \in Started /\ flushed = tip /\ queue = <<>>
    /\ best = None /\ synced = (tip = None)
    /\ interrupt = FALSE /\ alive = TRUE /\ fatal = FALSE
    /\ pc = IF synced THEN "end" ELSE "loop"
    /\ pindex = None /\ timed = FALSE /\ cb = "idle"
    /\ pos = 0 /\ file = [p \in Position |-> None]
    /\ locator = None /\ dbPos = 0 /\ uncovered = {}
    /\ byHeight = [h \in Heights |-> None] /\ byHash = [b \in Block |-> None]
    /\ reader = None
    /\ moves = 0 /\ restarts = 0 /\ lost = {} /\ kept = {}
-----------------------------------------------------------------------------
(* Validation *)

Note(type, b) == [type |-> type, block |-> b]

(* ActivateBestChainStep: it disconnects down to the fork and connects      *)
(* until there is more work than before.  BlockConnected follows for each   *)
(* block, after the ChainStateFlushed of a cache that was full when block f *)
(* on the way was the tip (None: it was never full).                        *)
Activate(b, f) ==
    /\ alive /\ pc # "rewind" /\ moves < MaxMoves
    /\ Height[b] = HeightOf(tip) + 1
    /\ LET fork == HeightOf(FindFork(tip, b))
       IN /\ \/ f = None
             \/ tip # None /\ f \in (Chain(tip) \cup Chain(b)) \ {tip} /\ Height[f] >= fork
          /\ queue' = queue \o (IF f = None THEN <<>> ELSE <<Note("flushed", f)>>)
                            \o [i \in 1..(Height[b] - fork) |->
                                   Note("connected", GetAncestor(b, fork + i))]
    /\ moves' = moves + 1
    /\ tip' = b
    /\ flushed' = IF f = None THEN flushed ELSE f
    /\ UNCHANGED <<best, synced, thread, cb, pos, file, db, reader, run, fatal, kept>>

(* InvalidateBlock takes off the tip; the index ignores BlockDisconnected. *)
Disconnect ==
    /\ alive /\ pc # "rewind" /\ moves < MaxMoves
    /\ tip \notin {None, Genesis}
    /\ moves' = moves + 1
    /\ tip' = Prev(tip)
    /\ UNCHANGED <<flushed, queue, best, synced, thread, cb, pos, file, db, reader, run, fatal, kept>>

(* FlushStateToDisk *)
Flush ==
    /\ alive /\ moves < MaxMoves
    /\ tip # None /\ flushed # tip
    /\ moves' = moves + 1
    /\ flushed' = tip
    /\ queue' = queue \o <<Note("flushed", tip)>>
    /\ UNCHANGED <<tip, best, synced, thread, cb, pos, file, db, reader, run, fatal, kept>>
-----------------------------------------------------------------------------
(* BlockFilterIndex *)

Entry(b, p) == [block |-> b, pos |-> p]

(* Commit: the locator and the file position, in one batch. *)
Commit(b, written) ==
    IF b = None THEN UNCHANGED committed
    ELSE locator' = b /\ dbPos' = pos /\ uncovered' = IF written THEN {} ELSE {b}

(* The check of WriteBlock: the parent is the block at its height. *)
PrevFound(b) == b = Genesis \/ (byHeight[Height[b] - 1] # None /\ byHeight[Height[b] - 1].block = Prev(b))

(* WriteBlock: the filter, then its entry. *)
WriteBlock(b) ==
    /\ pos < MaxFilters
    /\ file' = [file EXCEPT ![pos] = b]
    /\ byHeight' = [byHeight EXCEPT ![Height[b]] = Entry(b, pos)]
    /\ pos' = pos + 1
    /\ kept' = kept \cup {b}
    /\ uncovered' = uncovered \cup {x \in Chain(locator) : Height[x] = Height[b]}
    /\ UNCHANGED <<locator, dbPos, byHash, fatal>>

(* WriteBlock fails; FatalError. *)
Fatal == fatal' = TRUE /\ UNCHANGED <<pos, file, db, kept>>

Span(lo, hi) == Height[lo]..Height[hi]

(* The entries from the new tip to the old one go to the table by hash. *)
CopyHeightIndexToHashIndex(from, to) ==
    byHash' = [b \in Block |->
        IF \E h \in Span(to, from) : byHeight[h].block = b THEN byHeight[Height[b]].pos ELSE byHash[b]]

MayCopy(from, to) == \A h \in Span(to, from) : byHeight[h] # None

(* The position is not written along with the copies. *)
RewindTables_NoPos(from, to) ==
    /\ CopyHeightIndexToHashIndex(from, to)
    /\ UNCHANGED <<committed, byHeight>>

(* The entry of b leads to its filter, below the position in use. *)
Stored(b) ==
    LET e == byHeight[Height[b]]
    IN e # None /\ e.block = b /\ e.pos < pos /\ file[e.pos] = b

(* BlockFilterIndex::Rewind, its batch. *)
RewindTables(from, to) ==
    /\ CopyHeightIndexToHashIndex(from, to)
    /\ dbPos' = pos
    /\ uncovered' = {b \in uncovered : ~Stored(b)}
    /\ UNCHANGED <<locator, byHeight>>
-----------------------------------------------------------------------------
(* The sync thread *)

(* The block after b in the active chain, or after its fork with it. *)
NextSyncBlock(b) ==
    LET f == FindFork(b, tip) IN IF f = tip THEN None ELSE GetAncestor(tip, HeightOf(f) + 1)

(* m_interrupt, seen also before the block is written. *)
SyncInterrupted_BeforeWrite ==
    /\ alive /\ pc \in {"loop", "write"} /\ interrupt
    /\ best' = pindex
    /\ Commit(pindex, TRUE)
    /\ pc' = "end"
    /\ UNCHANGED <<chain, queue, synced, pindex, timed, cb, pos, file, byHeight, byHash, reader, run, fatal, kept>>

(* m_interrupt, seen at the top of the loop. *)
SyncInterrupted ==
    /\ alive /\ pc = "loop" /\ interrupt
    /\ best' = pindex
    /\ Commit(pindex, TRUE)
    /\ pc' = "end"
    /\ UNCHANGED <<chain, queue, synced, pindex, timed, cb, pos, file, byHeight, byHash, reader, run, fatal, kept>>

(* The section under cs_main when there is nothing left to sync. *)
SyncDone ==
    /\ alive /\ pc = "loop" /\ ~interrupt
    /\ NextSyncBlock(pindex) = None
    /\ best' = pindex
    /\ Commit(pindex, TRUE)
    /\ synced' = TRUE
    /\ pc' = "end"
    /\ UNCHANGED <<chain, queue, pindex, timed, cb, pos, file, byHeight, byHash, reader, run, fatal, kept>>

(* The same section when there is a block: on top of the last one, ... *)
SyncNext ==
    /\ alive /\ pc = "loop" /\ ~interrupt
    /\ NextSyncBlock(pindex) # None
    /\ Prev(NextSyncBlock(pindex)) = pindex
    /\ pindex' = NextSyncBlock(pindex)
    /\ pc' = "publish"
    /\ UNCHANGED <<chain, queue, best, synced, timed, cb, pos, file, db, reader, run, fatal, kept>>

(* ... or after a reorganisation: Rewind writes its batch, then requires    *)
(* the published best block to be the last one, and aborts if it is not.    *)
SyncRewind ==
    /\ alive /\ pc = "loop" /\ ~interrupt
    /\ NextSyncBlock(pindex) # None
    /\ LET next == NextSyncBlock(pindex)
       IN /\ Prev(next) # pindex
          /\ IF MayCopy(pindex, Prev(next))
             THEN /\ RewindTables(pindex, Prev(next))
                  /\ pc' = "rewind" /\ alive' = (pindex = best)
                  /\ fatal' = fatal
             ELSE pc' = "end" /\ Fatal /\ UNCHANGED alive
    /\ UNCHANGED <<chain, queue, best, synced, pindex, timed, cb, pos, file, byHeight, reader,
                   interrupt, restarts, lost, kept>>

(* The rest of Rewind, with cs_main still held. *)
SyncRewound ==
    /\ alive /\ pc = "rewind"
    /\ pindex' = NextSyncBlock(pindex)
    /\ best' = Prev(pindex')
    /\ Commit(best', TRUE)
    /\ pc' = "publish"
    /\ UNCHANGED <<chain, queue, synced, timed, cb, pos, file, byHeight, byHash, reader, run, fatal, kept>>

(* Every 30 seconds, and the first time, the position is published and      *)
(* committed, before the block is written.                                  *)
SyncPublish ==
    /\ alive /\ pc = "publish"
    /\ pc' = "write"
    /\ \/ /\ best' = pindex /\ timed' = TRUE
          /\ Commit(pindex, FALSE)
       \/ timed /\ UNCHANGED <<best, timed, committed>>
    /\ UNCHANGED <<chain, queue, synced, pindex, cb, pos, file, byHeight, byHash, reader, run, fatal, kept>>

SyncWrite ==
    /\ alive /\ pc = "write"
    /\ IF PrevFound(pindex)
       THEN WriteBlock(pindex) /\ pc' = "loop"
       ELSE Fatal /\ pc' = "end"
    /\ UNCHANGED <<chain, queue, best, synced, pindex, timed, cb, reader, run>>

ThreadSync ==
    SyncInterrupted \/ SyncDone \/ SyncNext \/ SyncRewind \/ SyncRewound \/ SyncPublish \/ SyncWrite
-----------------------------------------------------------------------------
(* Notifications, on the scheduler's thread *)

Front == Head(queue)

(* A callback has returned; a reader waits for those queued before it. *)
Pop ==
    /\ queue' = Tail(queue)
    /\ reader' = IF reader = None THEN None ELSE [reader EXCEPT !.left = IF @ > 0 THEN @ - 1 ELSE 0]

(* A block on a stale branch is taken for one on the chain. *)
Connects_Always(b) == TRUE

(* Only a block on top of the best one connects. *)
Connects_Parent(b) == best = Prev(b)

(* The block's parent is an ancestor of the best block. *)
Connects(b) == GetAncestor(best, Height[b] - 1) = Prev(b)

(* BlockConnected when it does nothing. *)
ConnectedIgnored ==
    /\ alive /\ cb = "idle" /\ queue # <<>> /\ Front.type = "connected"
    /\ \/ ~synced
       \/ IF best = None THEN Height[Front.block] # 0 ELSE ~Connects(Front.block)
    /\ fatal' = (fatal \/ (synced /\ best = None))
    /\ Pop
    /\ UNCHANGED <<chain, best, synced, thread, cb, pos, file, db, run, kept>>

(* Rewind, its batch; the best block is the published one. *)
ConnectedRewind ==
    /\ alive /\ cb = "idle" /\ queue # <<>> /\ Front.type = "connected"
    /\ synced /\ best # None /\ Connects(Front.block)
    /\ LET to == Prev(Front.block)
       IN /\ best # to
          /\ IF MayCopy(best, to)
             THEN /\ RewindTables(best, to)
                  /\ cb' = "commit" /\ fatal' = fatal
                  /\ UNCHANGED <<queue, reader>>
             ELSE /\ Pop /\ fatal' = TRUE
                  /\ UNCHANGED <<cb, db>>
    /\ UNCHANGED <<chain, best, synced, thread, pos, file, run, kept>>

ConnectedCommit ==
    /\ alive /\ cb = "commit"
    /\ best' = Prev(Front.block)
    /\ Commit(best', TRUE)
    /\ cb' = "write"
    /\ UNCHANGED <<chain, queue, synced, thread, pos, file, byHeight, byHash, reader, run, fatal, kept>>

(* A block goes on top of the best one. *)
OnTop(b) == synced /\ IF best = None THEN Height[b] = 0 ELSE best = Prev(b)

ConnectedWrite ==
    /\ alive /\ queue # <<>> /\ Front.type = "connected"
    /\ cb = "write" \/ (cb = "idle" /\ OnTop(Front.block))
    /\ IF PrevFound(Front.block)
       THEN WriteBlock(Front.block) /\ best' = Front.block
       ELSE Fatal /\ best' = best
    /\ cb' = "idle"
    /\ Pop
    /\ UNCHANGED <<chain, synced, thread, run>>

(* ChainStateFlushed *)
ChainStateFlushed ==
    /\ alive /\ cb = "idle" /\ queue # <<>> /\ Front.type = "flushed"
    /\ IF synced /\ GetAncestor(best, Height[Front.block]) = Front.block
       THEN Commit(best, TRUE)
       ELSE UNCHANGED committed
    /\ Pop
    /\ UNCHANGED <<chain, best, synced, thread, cb, pos, file, byHeight, byHash, run, fatal, kept>>

Callback ==
    ConnectedIgnored \/ ConnectedRewind \/ ConnectedCommit \/ ConnectedWrite \/ ChainStateFlushed
-----------------------------------------------------------------------------
(* BlockUntilSyncedToCurrentChain after the first start of an empty node,   *)
(* before the notification of the genesis block: m_synced is set, there is  *)
(* no best block, and asking it for its ancestor takes the process down.    *)
ReadNull ==
    /\ alive /\ reader = None
    /\ synced /\ pc = "end"
    /\ best = None /\ tip # None
    /\ alive' = FALSE
    /\ UNCHANGED <<chain, queue, best, synced, thread, cb, pos, file, db, reader,
                   interrupt, restarts, lost, fatal, kept>>

(* BlockUntilSyncedToCurrentChain, for a tip the index does not have yet. *)
Read ==
    /\ alive /\ reader = None
    /\ synced /\ pc = "end"
    /\ best # None /\ tip # None /\ tip \notin Chain(best)
    /\ reader' = [block |-> tip, left |-> Len(queue)]
    /\ UNCHANGED <<chain, queue, best, synced, thread, cb, pos, file, db, run, fatal, kept>>

(* The queue is not waited for. *)
Return_AtOnce ==
    /\ alive /\ reader # None
    /\ reader' = None
    /\ UNCHANGED <<chain, queue, best, synced, thread, cb, pos, file, db, run, fatal, kept>>

(* SyncWithValidationInterfaceQueue returns. *)
Return ==
    /\ alive /\ reader # None
    /\ reader.left = 0
    /\ reader' = None
    /\ UNCHANGED <<chain, queue, best, synced, thread, cb, pos, file, db, run, fatal, kept>>

Interrupt ==
    /\ alive /\ ~interrupt
    /\ interrupt' = TRUE
    /\ UNCHANGED <<chain, queue, best, synced, thread, cb, pos, file, db, reader, alive, restarts, lost, fatal, kept>>

(* A position that was never stored is the null one of FlatFilePos. *)
StoredFilterPos_Null == IF dbPos = 0 THEN -1 ELSE dbPos

(* BlockFilterIndex::Init: the stored position, or the first one. *)
StoredFilterPos == dbPos

(* The process dies, or ends, and starts again: the chain is the one last   *)
(* flushed, and BaseIndex::Init finds the fork of the locator with it.      *)
Restart ==
    /\ restarts < MaxRestarts
    /\ restarts' = restarts + 1
    /\ tip' = flushed
    /\ queue' = <<>>
    /\ best' = FindFork(locator, flushed)
    /\ synced' = (best' = tip')
    /\ pc' = IF synced' THEN "end" ELSE "loop"
    /\ pindex' = best' /\ timed' = FALSE
    /\ cb' = "idle"
    /\ pos' = StoredFilterPos
    /\ reader' = None /\ interrupt' = FALSE /\ alive' = TRUE /\ fatal' = FALSE
    /\ lost' = lost \cup (uncovered \cap Chain(best'))
    /\ kept' = Chain(best') \cup
                 {b \in Block : LET e == byHeight[Height[b]]
                                IN byHash[b] # None /\ (e.block = b => e.pos = byHash[b])}
    /\ UNCHANGED <<flushed, moves, file, db>>

Next ==
    \/ \E b \in Block, f \in Place : Activate(b, f)
    \/ Disconnect \/ Flush
    \/ ThreadSync \/ Callback
    \/ ReadNull \/ Read \/ Return \/ Interrupt \/ Restart

(* The sync thread and the scheduler's thread run. *)
Fairness == WF_vars(ThreadSync) /\ WF_vars(Callback) /\ WF_vars(Return)

Spec == Init /\ [][Next]_vars /\ Fairness
-----------------------------------------------------------------------------
(* The type invariant. *)
TypeOK ==
    /\ tip \in Place /\ flushed \in Place /\ moves \in 0..MaxMoves
    /\ queue \in Seq([type : {"connected", "flushed"}, block : Block])
    /\ best \in Place /\ synced \in BOOLEAN
    /\ interrupt \in BOOLEAN /\ alive \in BOOLEAN /\ fatal \in BOOLEAN
    /\ pc \in {"loop", "rewind", "publish", "write", "end"}
    /\ pindex \in Place /\ timed \in BOOLEAN
    /\ cb \in {"idle", "commit", "write"}
    /\ pos \in Position /\ dbPos \in Position /\ file \in [Position -> Place]
    /\ locator \in Place
    /\ byHeight \in [Heights -> [block : Block, pos : Position] \cup {None}]
    /\ byHash \in [Block -> Position \cup {None}]
    /\ reader \in [block : Block, left : Nat] \cup {None}
    /\ restarts \in 0..MaxRestarts
    /\ lost \subseteq Block /\ uncovered \subseteq Block /\ kept \subseteq Block

(* LookupOne: the entry at the block's height if it is the block's, else    *)
(* the one by hash; ReadFilterFromDisk reads what is at its position.       *)
Filter(b) ==
    LET e == byHeight[Height[b]]
    IN IF e = None THEN None
       ELSE IF e.block = b THEN file[e.pos]
       ELSE IF byHash[b] # None THEN file[byHash[b]] ELSE None

(* "so we can still find them when the height index entries are             *)
(* overwritten": the filter of a block that was indexed is found, and is    *)
(* the block's own, through reorganisations, notifications of stale         *)
(* branches and restarts.  Entries above the best block of a restart are    *)
(* given up, and nothing is said once a restart lost a block: it took as    *)
(* done, from the locator, one whose filter was not stored.                 *)
Findable == lost = {} => \A b \in kept : Filter(b) = b

(* m_best_block_index is "The last block in the chain that the index is in  *)
(* sync with": it and its ancestors are indexed, up to the one block the    *)
(* sync thread announces before it writes it.                               *)
BestIndexed ==
    lost = {} => Chain(best) \ kept \subseteq IF pc = "write" THEN {pindex} ELSE {}

(* The index shuts the node down (FatalError) only after a restart lost a   *)
(* block.                                                                   *)
FatalJustified == fatal => lost # {}

(* BlockUntilSyncedToCurrentChain "Blocks the current thread until the      *)
(* index is caught up to the current state of the block chain": the tip it  *)
(* was called for can be looked up when it returns.                         *)
ReadYourTip ==
    [][(reader # None /\ reader' = None /\ restarts' = restarts) =>
           (fatal \/ lost # {} \/ Filter(reader.block) = reader.block)]_vars

(* assert(current_tip == m_best_block_index): when the sync thread rewinds, *)
(* the best block it has published is the one it has reached.               *)
RewindAtBest == pc = "rewind" => pindex = best

(* The index ends up at the tip for good, with two ways for it to take the  *)
(* process down: that assertion, and a reader before the genesis block was  *)
(* notified.  Otherwise only an interrupt or FatalError stops it, and what  *)
(* calls FatalError is said by FatalJustified.                              *)
EventuallySynced ==
    <>[](\/ synced /\ Chain(tip) \subseteq Chain(best)
         \/ ~RewindAtBest
         \/ ~alive /\ best = None
         \/ fatal \/ interrupt)
==============================================================================
