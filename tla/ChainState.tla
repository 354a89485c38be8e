----------------------------- MODULE ChainState -----------------------------
(***************************************************************************)
(* The block index, the candidate set and the active chain of one          *)
(* chainstate.  Network threads accept headers and blocks, RPC threads     *)
(* invalidate, reconsider and prefer blocks, and ActivateBestChain moves   *)
(* the tip.  Every action is one critical section of cs_main, or, inside   *)
(* ActivateBestChain, a part of one: cs_main is held while pc is "find" or *)
(* "connect", and nothing else runs then.  m_chainstate_mutex, which       *)
(* ActivateBestChain and InvalidateBlock hold from beginning to end while  *)
(* they release and retake cs_main, is free when pc is "idle".             *)
(*                                                                         *)
(* The blocks that can ever arrive form a constant tree.  Blocks are       *)
(* signed, so each adds work 1 and the work of a chain is its height.      *)
(* Nothing is pruned, so BLOCK_HAVE_DATA, BLOCK_VALID_TRANSACTIONS and     *)
(* nTx > 0 coincide.  System errors (disk full, failed reads) stop the     *)
(* node and are left out, and so are m_best_invalid and pindexBestHeader,  *)
(* which feed warnings and header download.                                *)
(***************************************************************************)
EXTENDS BlockTree, FiniteSets, Functions

CONSTANTS
    Addr,           \* [Block -> Int], the order of the CBlockIndex pointers
    BadScripts,     \* blocks that ConnectBlock finds invalid
    BadContext,     \* blocks that ContextualCheckBlock finds invalid
    PeginBlocks,    \* blocks with peg-ins the parent chain has yet to confirm
    MaxCommands,    \* bound: invalidations, reconsiderations and preferences
    MaxRestarts,    \* bound
    Null

(* Two CBlockIndex objects never share an address, and the genesis block,   *)
(* which the software contains, passes the checks.                          *)
ASSUME ChainAssumption ==
    /\ Addr \in [Block -> Int]
    /\ \A a, b \in Block : Addr[a] = Addr[b] => a = b
    /\ Genesis \notin BadScripts \cup BadContext
    /\ MaxCommands \in Nat /\ MaxRestarts \in Nat
    /\ Null \notin Block

VARIABLES
    index,          \* m_block_index
    data,           \* BLOCK_HAVE_DATA
    linked,         \* HaveTxsDownloaded(): nChainTx > 0
    scripts,        \* BLOCK_VALID_SCRIPTS
    failedValid,    \* BLOCK_FAILED_VALID
    failedChild,    \* BLOCK_FAILED_CHILD
    failedBlocks,   \* m_failed_blocks
    unlinked,       \* m_blocks_unlinked, by its second component
    candidates,     \* setBlockIndexCandidates
    seq,            \* nSequenceId
    nextSeq, reverseSeq, lastPrecious,
    tip,            \* m_chain.Tip()
    unripe,         \* blocks whose peg-ins CheckPeginRipeness still refuses
    pc,             \* "idle", "find", "connect", "again", "inv"
    mostWork,       \* pindexMostWork
    startTip,       \* starting_tip
    stepTip,        \* pindexOldTip
    target, toMark, byWork,  \* pindex, to_mark_failed, candidate_blocks_by_work
    due,            \* a thread is about to call ActivateBestChain
    fStall,         \* the last call of ActivateBestChain gave up waiting for a peg-in
    unqueued,       \* history: data that ReceivedBlockTransactions neither linked nor queued
    unoffered,      \* history: blocks that a command made better than the tip, or than
                    \* a block it preferred, without offering them
    unjustified,    \* history: blocks left marked when the invalid ancestor was cleared
    leftOut,        \* history: blocks no candidates any more when ActivateBestChain ended
                    \* on a worse tip than the one they had been dropped for
    commands, restarts

status == <<index, data, linked, scripts, failedValid, failedChild, failedBlocks, unlinked>>
order == <<seq, nextSeq, reverseSeq, lastPrecious>>
activation == <<mostWork, startTip, stepTip>>
calls == <<due, fStall>>
gaps == <<unqueued, unoffered, unjustified, leftOut>>
invalidation == <<target, toMark, byWork>>
vars == <<status, order, candidates, tip, unripe, pc, activation, calls, gaps, invalidation, commands, restarts>>

Chain == Ancestors[tip]
Failed == failedValid \cup failedChild

(* CBlockIndexWorkComparator: less work, then later, then higher pointer. *)
WorseBy(s, a, b) ==
    \/ Height[a] < Height[b]
    \/ /\ Height[a] = Height[b]
       /\ \/ s[a] > s[b]
          \/ s[a] = s[b] /\ Addr[a] > Addr[b]

Worse(a, b) == WorseBy(seq, a, b)

(* The tip itself is dropped along with what is worse. *)
PruneBlockIndexCandidates_Tip(S, s, t) == {c \in S : WorseBy(s, t, c)}

PruneBlockIndexCandidates(S, s, t) == {c \in S : ~WorseBy(s, c, t)}

(* A candidate that need not have all its ancestors. *)
Connectable_AnyData(b) == b \in index \cap data /\ b \notin Failed

(* IsValid(BLOCK_VALID_TRANSACTIONS) && HaveTxsDownloaded() *)
Connectable(b) == b \in index \cap data \cap linked /\ b \notin Failed

(* cs_main is free. *)
Unlocked == pc \in {"idle", "again", "inv"}

(* A node that has just connected the genesis block. *)
Init ==
    /\ index = {Genesis} /\ data = {Genesis} /\ linked = {Genesis} /\ scripts = {Genesis}
    /\ failedValid = {} /\ failedChild = {} /\ failedBlocks = {} /\ unlinked = {}
    /\ candidates = {Genesis}
    /\ seq = [b \in Block |-> IF b = Genesis THEN 1 ELSE 0]
    /\ nextSeq = 2 /\ reverseSeq = -1 /\ lastPrecious = 0
    /\ tip = Genesis
    /\ unripe = PeginBlocks
    /\ pc = "idle"
    /\ mostWork = Null /\ startTip = Genesis /\ stepTip = Genesis
    /\ target = Null /\ toMark = Null /\ byWork = {}
    /\ due = FALSE /\ fStall = FALSE
    /\ unqueued = {} /\ unoffered = {} /\ unjustified = {} /\ leftOut = {}
    /\ commands = 0 /\ restarts = 0
-----------------------------------------------------------------------------
(* Headers and blocks arrive. *)

(* AcceptBlockHeader gets past the index lookups for a new header. *)
ParentUsable(b) ==
    b # Genesis /\ b \notin index /\ Parent[b] \in index /\ Parent[b] \notin Failed

FailedAncestors(b) ==
    IF Parent[b] \in scripts THEN {} ELSE failedBlocks \cap Ancestors[Parent[b]]

(* AcceptBlockHeader returns true. *)
HeaderAccepted(b) ==
    \/ b \in index \ Failed
    \/ ParentUsable(b) /\ FailedAncestors(b) = {}

(* ProcessNewBlockHeaders, or a block AcceptBlock does not process further. *)
AcceptHeader(b) ==
    /\ Unlocked
    /\ b \notin index
    /\ HeaderAccepted(b)
    /\ index' = index \cup {b}
    /\ UNCHANGED <<data, linked, scripts, failedValid, failedChild, failedBlocks, unlinked,
                   order, candidates, tip, unripe, pc, activation, calls, invalidation, commands, restarts, gaps>>

(* AcceptBlockHeader finds that the parent descends from a failed block. *)
RejectHeader(b) ==
    /\ Unlocked
    /\ ParentUsable(b)
    /\ \E f \in FailedAncestors(b) :
           failedChild' = failedChild \cup (Ancestors[Parent[b]] \ Ancestors[f])
    /\ UNCHANGED <<index, data, linked, scripts, failedValid, failedBlocks, unlinked,
                   order, candidates, tip, unripe, pc, activation, calls, invalidation, commands, restarts, gaps>>

(* AcceptBlock of a block that fails ContextualCheckBlock. *)
RejectBlock(b) ==
    /\ Unlocked
    /\ HeaderAccepted(b)
    /\ b \in BadContext
    /\ index' = index \cup {b}
    /\ failedValid' = failedValid \cup {b}
    /\ UNCHANGED <<data, linked, scripts, failedChild, failedBlocks, unlinked,
                   order, candidates, tip, unripe, pc, activation, calls, invalidation, commands, restarts, gaps>>

(* Linking to a parent that is itself unlinked. *)
ParentLinked_HasData(b) == Parent[b] \in data

ParentLinked(b) == Parent[b] \in linked

(* ReceivedBlockTransactions: b and the unlinked blocks that now have all   *)
(* their ancestors, and the places they can have in the breadth-first queue. *)
NewlyLinked(b) ==
    {b} \cup {d \in unlinked : b \in Ancestors[d] /\ (Ancestors[d] \ Ancestors[b]) \subseteq unlinked}

QueueOrders(S) ==
    {place \in Bijection(S, 1..Cardinality(S)) :
        \A c, d \in S : Height[c] < Height[d] => place[c] < place[d]}

(* AcceptBlock of a block that passes its checks. *)
AcceptBlock(b) ==
    /\ Unlocked
    /\ HeaderAccepted(b)
    /\ b \notin data \cup BadContext
    /\ index' = index \cup {b}
    /\ data' = data \cup {b}
    /\ due' = TRUE
    /\ IF ParentLinked(b)
       THEN LET new == NewlyLinked(b) IN
            \E place \in QueueOrders(new) :
               /\ linked' = linked \cup new
               /\ unlinked' = unlinked \ new
               /\ seq' = [d \in Block |-> IF d \in new THEN nextSeq + place[d] - 1 ELSE seq[d]]
               /\ nextSeq' = nextSeq + Cardinality(new)
               /\ candidates' = candidates \cup {d \in new : ~WorseBy(seq', d, tip)}
               /\ unqueued' = unqueued
       ELSE /\ IF Parent[b] \in Failed
               THEN unlinked' = unlinked /\ unqueued' = unqueued \cup {b}
               ELSE unlinked' = unlinked \cup {b} /\ unqueued' = unqueued
            /\ UNCHANGED <<linked, seq, nextSeq, candidates>>
    /\ UNCHANGED <<scripts, failedValid, failedChild, failedBlocks, reverseSeq, lastPrecious,
                   tip, unripe, pc, activation, fStall, unoffered, unjustified, leftOut, invalidation, commands, restarts>>
-----------------------------------------------------------------------------
(* ActivateBestChain *)

(* Takes m_chainstate_mutex, or comes back to it, and locks cs_main.  Every *)
(* call that a block, an RPC or the import thread owes (due) is made; calls *)
(* that answer a peer's getblocks or getdata may come at any time.          *)
AbcEnter ==
    /\ pc \in {"idle", "again"}
    /\ due' = (due /\ pc = "again")
    /\ fStall' = FALSE
    /\ mostWork' = IF pc = "idle" THEN Null ELSE mostWork
    /\ startTip' = tip
    /\ pc' = "find"
    /\ UNCHANGED <<status, order, candidates, tip, unripe, stepTip, invalidation, commands, restarts, gaps>>

BestCandidate == CHOOSE c \in candidates : \A d \in candidates : ~Worse(c, d)

(* A check of the candidate alone. *)
FailedOnPath_TipOnly == {BestCandidate} \cap Failed

(* The failed blocks between the best candidate and the active chain. *)
FailedOnPath == (Ancestors[BestCandidate] \ Chain) \cap Failed

(* FindMostWorkChain, one turn: the best candidate has a failed block       *)
(* between it and the active chain; everything down to that block goes.     *)
AbcDiscard ==
    /\ pc = "find"
    /\ mostWork = Null
    /\ candidates # {}
    /\ LET path == Ancestors[BestCandidate] \ Chain
           bad == Highest(FailedOnPath)
           above == path \ Ancestors[bad]
       IN /\ FailedOnPath # {}
          /\ failedChild' = failedChild \cup above
          /\ candidates' = candidates \ (above \cup {bad})
    /\ UNCHANGED <<index, data, linked, scripts, failedValid, failedBlocks, unlinked,
                   order, tip, unripe, pc, activation, calls, invalidation, commands, restarts, gaps>>

(* Blocks as good as the tip, but not as the tip at the start: they were    *)
(* dropped from the candidates, or never offered, because of the latter.    *)
NewlyLeftOut == {b \in linked \ candidates : ~Worse(b, tip) /\ Worse(b, startTip)}

(* FindMostWorkChain returns, or pindexMostWork is still set; then          *)
(* ActivateBestChainStep disconnects to the fork, unless there is nothing   *)
(* better than the tip.                                                     *)
AbcDisconnect ==
    /\ pc = "find"
    /\ \/ mostWork # Null /\ mostWork' = mostWork
       \/ mostWork = Null /\ candidates = {} /\ mostWork' = Null
       \/ /\ mostWork = Null /\ candidates # {}
          /\ FailedOnPath = {}
          /\ mostWork' = BestCandidate
    /\ IF mostWork' \in {tip, Null}
       THEN /\ pc' = "idle"
            /\ leftOut' = leftOut \cup NewlyLeftOut
            /\ UNCHANGED <<tip, stepTip>>
       ELSE /\ pc' = "connect"
            /\ stepTip' = tip
            /\ tip' = Fork(tip, mostWork')
            /\ UNCHANGED leftOut
    /\ UNCHANGED <<status, order, candidates, unripe, startTip, calls, invalidation, commands, restarts,
                   unqueued, unoffered, unjustified>>

NextToConnect == CHOOSE b \in Ancestors[mostWork] : Height[b] = Height[tip] + 1

(* A step after which cs_main is always released. *)
AfterStep_Release(newTip, work) == pc' = IF newTip # work THEN "again" ELSE "idle"

(* The end of a step: cs_main is released only when the tip is no worse     *)
(* than when it was taken, and the function is left only on pindexMostWork. *)
AfterStep(newTip, work) ==
    pc' = IF Worse(newTip, startTip) THEN "find"
          ELSE IF newTip # work THEN "again" ELSE "idle"

(* A stalled block that is dropped as if it were invalid. *)
AbcStall_Forget ==
    /\ pc = "connect"
    /\ NextToConnect \in unripe
    /\ pc' = "idle"
    /\ fStall' = TRUE
    /\ candidates' = candidates \ {mostWork}
    /\ leftOut' = leftOut \cup NewlyLeftOut
    /\ UNCHANGED <<status, order, tip, unripe, activation, due, invalidation, commands, restarts,
                   unqueued, unoffered, unjustified>>

(* ConnectTip stalls: the parent chain has not confirmed a peg-in. *)
AbcStall ==
    /\ pc = "connect"
    /\ NextToConnect \in unripe
    /\ pc' = "idle"
    /\ fStall' = TRUE
    /\ leftOut' = leftOut \cup NewlyLeftOut
    /\ UNCHANGED <<status, order, candidates, tip, unripe, activation, due, invalidation, commands, restarts,
                   unqueued, unoffered, unjustified>>

(* ConnectTip fails; InvalidBlockFound. *)
AbcInvalid ==
    /\ pc = "connect"
    /\ NextToConnect \in BadScripts \ unripe
    /\ failedValid' = failedValid \cup {NextToConnect}
    /\ failedBlocks' = failedBlocks \cup {NextToConnect}
    /\ candidates' = candidates \ {NextToConnect}
    /\ mostWork' = Null
    /\ AfterStep(tip, Null)
    /\ UNCHANGED <<index, data, linked, scripts, failedChild, unlinked,
                   order, tip, unripe, startTip, stepTip, calls, invalidation, commands, restarts, gaps>>

(* ConnectTip succeeds; PruneBlockIndexCandidates. *)
AbcConnect ==
    /\ pc = "connect"
    /\ NextToConnect \notin unripe \cup BadScripts
    /\ LET b == NextToConnect IN
       /\ tip' = b
       /\ scripts' = IF b \in Failed THEN scripts ELSE scripts \cup {b}
       /\ candidates' = PruneBlockIndexCandidates(candidates, seq, b)
       /\ IF b = mostWork \/ Height[b] > Height[stepTip]
          THEN AfterStep(b, mostWork)
          ELSE pc' = pc
    /\ UNCHANGED <<index, data, linked, failedValid, failedChild, failedBlocks, unlinked,
                   order, unripe, activation, calls, invalidation, commands, restarts, gaps>>

(* The parent chain daemon catches up. *)
Ripen ==
    /\ unripe # {}
    /\ unripe' = {}
    /\ UNCHANGED <<status, order, candidates, tip, pc, activation, calls, invalidation, commands, restarts, gaps>>
-----------------------------------------------------------------------------
(* InvalidateBlock, ResetBlockFailureFlags, PreciousBlock, restart *)

Command == commands < MaxCommands /\ commands' = commands + 1

(* InvalidateBlock takes m_chainstate_mutex and builds its candidate map. *)
InvStart(b) ==
    /\ pc = "idle"
    /\ b \in index \ {Genesis}
    /\ Command
    /\ target' = b /\ toMark' = b
    /\ byWork' = {c \in index \ Chain : ~Worse(c, Parent[b]) /\ Connectable(c)}
    /\ pc' = "inv"
    /\ UNCHANGED <<status, order, candidates, tip, unripe, activation, calls, gaps, restarts>>

(* One turn of its loop, in one critical section. *)
InvDisconnect ==
    /\ pc = "inv"
    /\ target \in Chain
    /\ LET walk == tip
           down == Parent[tip]
           add == {c \in byWork : ~Worse(c, down)}
           child == down = toMark /\ toMark \in failedValid
       IN /\ tip' = down
          /\ failedValid' = (failedValid \cup {walk}) \ (IF child THEN {toMark} ELSE {})
          /\ failedChild' = failedChild \cup (IF child THEN {toMark} ELSE {})
          /\ candidates' = (candidates \ {walk}) \cup {down} \cup add
          /\ byWork' = byWork \ add
          /\ toMark' = walk
    /\ UNCHANGED <<index, data, linked, scripts, failedBlocks, unlinked,
                   order, unripe, pc, activation, calls, target, commands, restarts, gaps>>

(* An end that relies on the candidate map built at the start. *)
InvFinish_NoRescan ==
    /\ pc = "inv"
    /\ target \notin Chain
    /\ failedValid' = failedValid \cup {toMark}
    /\ failedBlocks' = failedBlocks \cup {toMark}
    /\ candidates' = candidates \ {toMark}
    /\ pc' = "idle"
    /\ target' = Null /\ toMark' = Null /\ byWork' = {}
    /\ due' = TRUE
    /\ UNCHANGED <<index, data, linked, scripts, failedChild, unlinked,
                   order, tip, unripe, activation, fStall, commands, restarts, gaps>>

(* The loop is done: mark the block and add the candidates it missed. *)
InvFinish ==
    /\ pc = "inv"
    /\ target \notin Chain
    /\ failedValid' = failedValid \cup {toMark}
    /\ failedBlocks' = failedBlocks \cup {toMark}
    /\ candidates' = (candidates \ {toMark}) \cup
                     {c \in index \ {toMark} : Connectable(c) /\ ~Worse(c, tip)}
    /\ pc' = "idle"
    /\ target' = Null /\ toMark' = Null /\ byWork' = {}
    /\ due' = TRUE
    /\ unoffered' = {} /\ leftOut' = {}
    /\ UNCHANGED <<index, data, linked, scripts, failedChild, unlinked,
                   order, tip, unripe, activation, fStall, unqueued, unjustified, commands, restarts>>

(* ResetBlockFailureFlags: descendants, which may become candidates, and    *)
(* ancestors.                                                               *)
Reconsider(b) ==
    /\ Unlocked
    /\ b \in index
    /\ Command
    /\ due' = TRUE
    /\ LET desc == {d \in index \cap Failed : b \in Ancestors[d]}
           clear == desc \cup (Ancestors[b] \cap Failed)
       IN /\ failedValid' = failedValid \ clear
          /\ failedChild' = failedChild \ clear
          /\ failedBlocks' = failedBlocks \ clear
          /\ candidates' = candidates \cup {d \in desc : d \in data \cap linked /\ Worse(tip, d)}
          /\ unoffered' = unoffered \cup {a \in clear \cap linked : Worse(tip, a) /\ a \notin candidates'}
          /\ unjustified' = unjustified \cup
                 {d \in Failed \ clear : Ancestors[d] \cap Ancestors[b] \cap failedValid # {}}
    /\ UNCHANGED <<index, data, linked, scripts, unlinked,
                   order, tip, unripe, pc, activation, fStall, invalidation, unqueued, leftOut, restarts>>

(* PreciousBlock up to its call of ActivateBestChain. *)
PreciousBlock(b) ==
    /\ Unlocked
    /\ b \in index
    /\ Height[b] >= Height[tip]
    /\ Command
    /\ LET rev == IF Height[tip] > lastPrecious THEN -1 ELSE reverseSeq
       IN seq' = [seq EXCEPT ![b] = rev] /\ reverseSeq' = rev - 1
    /\ lastPrecious' = Height[tip]
    /\ due' = TRUE
    /\ candidates' = IF Connectable(b)
                     THEN PruneBlockIndexCandidates(candidates \cup {b}, seq', tip)
                     ELSE candidates \ {b}
    /\ unoffered' = unoffered \cup
           {c \in linked \ candidates' : Worse(c, b) /\ WorseBy(seq', b, c)}
    /\ UNCHANGED <<status, nextSeq, tip, unripe, pc, activation, fStall, invalidation,
                   unqueued, unjustified, leftOut, restarts>>

(* A clean shutdown, then LoadBlockIndex and LoadChainTip; ThreadImport will *)
(* call ActivateBestChain.  A shutdown cuts ActivateBestChain and             *)
(* InvalidateBlock short where they release cs_main.                          *)
Restart ==
    /\ Unlocked
    /\ restarts < MaxRestarts
    /\ restarts' = restarts + 1
    /\ failedChild' = failedChild \cup {b \in index \ Failed : Ancestors[b] \cap Failed # {}}
    /\ failedBlocks' = {}
    /\ linked' = {b \in data : Ancestors[b] \subseteq data}
    /\ unlinked' = data \ linked'
    /\ seq' = [b \in Block |-> 0]
    /\ nextSeq' = 1 /\ reverseSeq' = -1 /\ lastPrecious' = 0
    /\ candidates' = PruneBlockIndexCandidates(linked' \ (failedValid \cup failedChild'), seq', tip)
    /\ pc' = "idle"
    /\ due' = TRUE /\ fStall' = FALSE
    /\ unqueued' = {} /\ unoffered' = {} /\ leftOut' = {}
    /\ mostWork' = Null /\ target' = Null /\ toMark' = Null /\ byWork' = {}
    /\ UNCHANGED <<index, data, scripts, failedValid, tip, unripe, startTip, stepTip, unjustified, commands>>
-----------------------------------------------------------------------------
Abc == (AbcEnter /\ (due \/ pc = "again")) \/ AbcDiscard \/ AbcDisconnect \/ AbcStall \/ AbcInvalid \/ AbcConnect
Inv == InvDisconnect \/ InvFinish

Next ==
    \/ \E b \in Block :
        \/ AcceptHeader(b) \/ RejectHeader(b) \/ RejectBlock(b) \/ AcceptBlock(b)
        \/ InvStart(b) \/ Reconsider(b) \/ PreciousBlock(b)
    \/ AbcEnter \/ AbcDiscard \/ AbcDisconnect \/ AbcStall \/ AbcInvalid \/ AbcConnect
    \/ InvDisconnect \/ InvFinish
    \/ Restart
    \/ Ripen

(* A thread that is to call ActivateBestChain does, and it and              *)
(* InvalidateBlock run to their end; the parent chain keeps growing.  The   *)
(* periodic call is not among the callers: init.cpp schedules it on a       *)
(* CScheduler whose queue no thread serves.                                 *)
Fairness == WF_vars(Abc) /\ WF_vars(Inv) /\ WF_vars(Ripen)

Spec == Init /\ [][Next]_vars /\ Fairness
-----------------------------------------------------------------------------
(* pindexFirstInvalid of CheckBlockIndex is set. *)
InvalidAbove(b) == Ancestors[b] \cap failedValid # {}

(* The type invariant; a candidate has all the data up to the genesis block. *)
TypeOK ==
    /\ index \subseteq Block /\ Genesis \in index
    /\ data \subseteq index /\ linked \subseteq data /\ scripts \subseteq linked
    /\ failedValid \subseteq index /\ failedChild \subseteq index /\ failedBlocks \subseteq index
    /\ unlinked \subseteq data
    /\ candidates \subseteq linked
    /\ seq \in [Block -> Int] /\ nextSeq \in Nat /\ reverseSeq \in Int /\ lastPrecious \in Nat
    /\ tip \in index
    /\ unripe \subseteq PeginBlocks
    /\ pc \in {"idle", "find", "connect", "again", "inv"}
    /\ mostWork \in index \cup {Null} /\ startTip \in index /\ stepTip \in index
    /\ target \in index \cup {Null} /\ toMark \in index \cup {Null} /\ byWork \subseteq index
    /\ due \in BOOLEAN /\ fStall \in BOOLEAN
    /\ unqueued \subseteq data /\ unoffered \subseteq index /\ unjustified \subseteq index /\ leftOut \subseteq index
    /\ commands \in 0..MaxCommands /\ restarts \in 0..MaxRestarts

(* Whenever cs_main is free, every block of the active chain has passed     *)
(* ConnectBlock and none is marked failed, whatever was invalidated,        *)
(* reconsidered or marked by AcceptBlockHeader between the steps of         *)
(* ActivateBestChain.                                                       *)
ChainValid ==
    Unlocked => /\ Chain \subseteq scripts
                /\ Chain \cap Failed = {}

(* Outside InvalidateBlock, a usable block better than the tip is never     *)
(* forgotten: some usable candidate is at least as good, so that            *)
(* ActivateBestChain leaves the tip for it.  The exception lasts until a    *)
(* restart or InvalidateBlock collects the candidates anew: it begins when  *)
(* ResetBlockFailureFlags clears the mark of an ancestor better than the    *)
(* tip, which it does not offer, or when PreciousBlock, its counter reset,  *)
(* gives a block a later sequence number than it had.                       *)
NothingForgotten ==
    (Unlocked /\ pc # "inv" /\ unoffered = {}) =>
        \A b \in linked : Ancestors[b] \cap Failed = {} /\ Worse(tip, b) =>
            \E c \in candidates : Ancestors[c] \cap Failed = {} /\ ~Worse(c, b)

(* HaveTxsDownloaded() and m_blocks_unlinked against nStatus: a linked      *)
(* block has all its ancestors, and of the blocks with data exactly those   *)
(* that miss an ancestor are in m_blocks_unlinked, so that they are linked  *)
(* once the last gap closes.  Data that arrived on top of a failed, not yet *)
(* linked parent is the one exception, together with what builds on it.     *)
LinksExact ==
    /\ \A b \in linked : Ancestors[b] \subseteq data
    /\ \A b \in data : Ancestors[b] \cap unqueued = {} =>
           /\ b \in linked <=> Ancestors[b] \subseteq data
           /\ b \in unlinked <=> b \notin linked

(* The flags, links and candidates that every handler maintains in passing: *)
(* links are exact; the parents of a block with valid scripts have them     *)
(* too; only a linked block has a positive nSequenceId; what                *)
(* m_failed_blocks holds is marked BLOCK_FAILED_VALID; the block that       *)
(* ActivateBestChain works towards stays a candidate, and no candidate      *)
(* sorts worse than the tip; and a block is marked failed only if it or an  *)
(* ancestor was found invalid itself.  CheckBlockIndex asserts all but the  *)
(* fourth and fifth of these, without the two exceptions made here, where   *)
(* its assertions fail: on HaveTxsDownloaded and foundInUnlinked for blocks *)
(* on top of one of unqueued, and on BLOCK_FAILED_MASK for branches above   *)
(* an invalid block that ResetBlockFailureFlags cleared as the ancestor of  *)
(* a block on another branch.                                               *)
FlagsConsistent ==
    /\ LinksExact
    /\ \A b \in scripts : Ancestors[b] \subseteq scripts
    /\ \A b \in index \ linked : seq[b] <= 0
    /\ failedBlocks \subseteq failedValid
    /\ pc = "connect" => mostWork \in candidates
    /\ \A c \in candidates : ~Worse(c, tip)
    /\ \A b \in Failed : InvalidAbove(b) \/ Ancestors[b] \cap unjustified # {}

(* "If this block sorts at least as good as the current tip and is valid    *)
(* and we have all data for its parents, it must be in                      *)
(* setBlockIndexCandidates" (CheckBlockIndex), the tip among them.  The     *)
(* assertion fails, and this makes exceptions, for what a command did not   *)
(* offer; for what was as good as the tip only after a call of              *)
(* ActivateBestChain had disconnected blocks and then stalled; and, while   *)
(* InvalidateBlock runs, for what arrives after its map was built.          *)
CandidatesComplete ==
    (Unlocked /\ pc # "inv") =>
        \A b \in linked \ Failed : ~Worse(b, tip) => b \in candidates \cup unoffered \cup leftOut

(* The comment in ActivateBestChain: cs_main is not released before there   *)
(* is forward progress; the tip is never worse than when it was taken,      *)
(* except when the next block waits for its peg-ins to ripen, or when a     *)
(* command left a better block without offering it.                         *)
ProgressUnlessStalled ==
    [][(~Unlocked /\ Unlocked' /\ unoffered = {}) =>
           ~Worse(tip', startTip) \/ NextToConnect \in unripe]_vars

(* No usable block is better than the tip, unless a command did not offer one. *)
TipIsBest ==
    unoffered = {} => \A b \in linked : Ancestors[b] \cap Failed = {} => ~Worse(tip, b)

(* Once nothing arrives any more, the tip is as good as any usable block,   *)
(* unless the last call of ActivateBestChain gave up waiting for a peg-in:  *)
(* no invalid block, interrupted call, command or restart, and no earlier   *)
(* stall, leaves the node on a worse chain for ever.                        *)
ConvergesUnlessStalled == <>[](fStall \/ TipIsBest)

(* The comment in AppInitMain: ActivateBestChain is called every 30 seconds *)
(* for the case that nothing else calls it once the parent chain has caught *)
(* up, so the tip ends on the best usable chain whatever stalled.           *)
Converges == <>[]TipIsBest
=============================================================================
