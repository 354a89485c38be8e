----------------------------- MODULE TxRelay -----------------------------
(***************************************************************************)
(* How PeerManagerImpl (src/net_processing.cpp) fetches transactions: the  *)
(* INV, TX and NOTFOUND messages, the getdata part of SendMessages, peers  *)
(* that leave, blocks that confirm a transaction, and the filters of what  *)
(* was rejected or confirmed, around the tracker of module TxRequest and   *)
(* the orphanage of src/txorphanage.cpp.                                   *)
(*                                                                         *)
(* Every handler runs under cs_main, the ones that touch orphans also      *)
(* under g_cs_orphans, and is one action; BlockConnected takes three locks *)
(* in turn and is three steps.  The clock may go back, at most MaxBack     *)
(* times by one unit; a time further in the past than that cannot come     *)
(* back and is kept at -MaxBack.                                           *)
(*                                                                         *)
(* Transactions have constant ids, inputs and a constant verdict of the    *)
(* mempool once their inputs are there; none signals that it may be        *)
(* replaced.  Left out: bloom-filter errors, reorganisations, a mempool    *)
(* too full for the transaction at hand, initial block download, the Relay *)
(* and ForceRelay permissions.                                             *)
(***************************************************************************)
EXTENDS TxRequest

CONSTANTS
    Txs,            \* transactions
    Txid, Wtxid,    \* [Txs -> Hashes]
    Inputs,         \* [Txs -> sets of outpoints <<txid, n>>]
    Fault,          \* [Txs -> verdict of the mempool when the inputs are there]
    Buried,         \* transactions confirmed long ago, in no filter
    WtxidRelay,     \* peers that negotiated m_wtxid_relay
    MAX_PEER_TX_ANNOUNCEMENTS, MAX_PEER_TX_REQUEST_IN_FLIGHT,
    NONPREF_PEER_TX_DELAY, TXID_RELAY_DELAY, OVERLOADED_PEER_TX_DELAY,
    GETDATA_TX_INTERVAL,
    Scenes,         \* what the environment may do: see scene
    MaxBack         \* bound on the steps back of the clock in any scene

Valid == "VALID"
Stripped == "TX_WITNESS_STRIPPED"
InputsNotStandard == "TX_INPUTS_NOT_STANDARD"
Missing == "TX_MISSING_INPUTS"
Conflict == "TX_CONFLICT"
Policy == "TX_MEMPOOL_POLICY"

VARIABLES
    m_txrequest,
    connected,               \* mapNodeState: peers not yet finalized
    m_orphans,               \* partial function from txids to [tx, from]
    m_orphan_work_set,       \* [Peers -> SUBSET Hashes]
    mempool, mined,          \* sets of transactions
    m_recent_confirmed, m_recent_rejects,
    tipMoved,                \* the tip is not hashRecentRejectsChainTip
    queue, step,             \* BlockConnected calls to come, place in the first
    asked, had, missed,      \* history: see AskedOnce, NeverHadNotRejected, OrphansScheduled
    local,                   \* history: transactions submitted on this node
    scene                    \* peers and transactions there are, the announcement
                             \* EventuallyAsked watches, -maxorphantx, and how many
                             \* announcements, clock steps back, local submissions,
                             \* evictions and blocks may still come

relayVars == <<m_orphans, m_orphan_work_set, missed>>
poolVars == <<mempool, mined, had, local>>
filterVars == <<m_recent_confirmed, m_recent_rejects, tipMoved, queue, step>>
vars == <<m_txrequest, asked, connected, relayVars, poolVars, filterVars, scene>>

Ids(t) == {Txid[t], Wtxid[t]}
Parents(t) == {o[1] : o \in Inputs[t]}

Init ==
    /\ m_txrequest = EmptyTracker
    /\ scene \in Scenes /\ connected = scene.peers
    /\ m_orphans = [h \in {} |-> 0]
    /\ m_orphan_work_set = [p \in Peers |-> {}]
    /\ mempool = {} /\ mined = Buried
    /\ m_recent_confirmed = {} /\ m_recent_rejects = {}
    /\ tipMoved = FALSE
    /\ queue = << >> /\ step = "orphans"
    /\ asked = {} /\ had = {} /\ missed = {} /\ local = {}

----------------------------------------------------------------------------
(* What the node has. *)

MempoolHas(h, wtx) == \E t \in mempool : h = (IF wtx THEN Wtxid ELSE Txid)[t]

\* TxOrphanage::HaveTx.
OrphanageHas(h, wtx) ==
    IF wtx THEN \E k \in DOMAIN m_orphans : Wtxid[m_orphans[k].tx] = h
           ELSE h \in DOMAIN m_orphans

\* The reject filter as AlreadyHaveTx leaves it: empty once the tip moved.
Rejects == IF tipMoved THEN {} ELSE m_recent_rejects

AlreadyHaveTx(h, wtx) ==
    \/ OrphanageHas(h, wtx)
    \/ h \in m_recent_confirmed
    \/ h \in Rejects
    \/ MempoolHas(h, wtx)

\* A coin of the chain or of this mempool that no transaction of the chain spends.
HaveCoin(o, pool) ==
    /\ \E u \in pool \cup mined : Txid[u] = o[1]
    /\ ~\E u \in mined : o \in Inputs[u]

DoubleSpend(t, u) == Inputs[t] \cap Inputs[u] # {}

\* ProcessTransaction with this mempool.  Whether a transaction that is in the
\* chain is told from one with missing inputs depends on its outputs being in
\* the cache.
ProcessTransaction(t, pool, cached) ==
    IF \E u \in pool : Txid[u] = Txid[t] THEN Conflict
    ELSE IF \E u \in pool : DoubleSpend(t, u) THEN Policy
    ELSE IF \A o \in Inputs[t] : HaveCoin(o, pool) THEN Fault[t]
    ELSE IF cached /\ \E u \in mined : Txid[u] = Txid[t] THEN Conflict
    ELSE Missing

----------------------------------------------------------------------------
(* The tracker and its callers. *)

\* Every change of the tracker goes through here, for the history of requests.
Track(T) ==
    /\ m_txrequest' = T
    /\ asked' = (asked \cap DOMAIN T.index)
                  \cup {a \in DOMAIN T.index : T.index[a].state = Requested}

\* AlreadyHaveTx was called: the filter is the one of this tip.
FilterRead(ids) ==
    /\ m_recent_rejects' = Rejects \cup ids
    /\ tipMoved' = FALSE
    /\ UNCHANGED <<m_recent_confirmed, queue, step>>

\* A mutant: one announcement too many.
AddTxAnnouncement_OffByOne(T, p, h, wtx) ==
    IF Count(T, p) > MAX_PEER_TX_ANNOUNCEMENTS THEN T ELSE ReceivedInv(T, p, h, wtx, 0)

AddTxAnnouncement(T, p, h, wtx) ==
    LET delay == (IF p \in Preferred THEN 0 ELSE NONPREF_PEER_TX_DELAY)
               + (IF ~wtx /\ connected \cap WtxidRelay # {} THEN TXID_RELAY_DELAY ELSE 0)
               + (IF CountInFlight(T, p) >= MAX_PEER_TX_REQUEST_IN_FLIGHT
                    THEN OVERLOADED_PEER_TX_DELAY ELSE 0)
    IN  IF Count(T, p) >= MAX_PEER_TX_ANNOUNCEMENTS THEN T
        ELSE ReceivedInv(T, p, h, wtx, delay)

\* A peer's next message is taken once its work set is empty.
Listens(p) == p \in connected /\ m_orphan_work_set[p] = {}

\* The INV message, with the kind of hash the peer is to announce.
Inv(p, t) ==
    LET wtx == p \in WtxidRelay
        h == (IF wtx THEN Wtxid ELSE Txid)[t]
    IN  /\ Listens(p) /\ scene.invs > 0 /\ t \in scene.txs
        /\ scene' = [scene EXCEPT !.invs = @ - 1]
        /\ Track(IF AlreadyHaveTx(h, wtx) THEN m_txrequest
                 ELSE AddTxAnnouncement(m_txrequest, p, h, wtx))
        /\ FilterRead({})
        /\ UNCHANGED <<connected, relayVars, poolVars>>

\* The NOTFOUND message, for a hash the peer has announced.
NotFound(p, h) ==
    /\ Listens(p) /\ <<p, h>> \in DOMAIN m_txrequest.index
    /\ Track(ReceivedResponse(m_txrequest, p, h))
    /\ UNCHANGED <<connected, relayVars, poolVars, filterVars, scene>>

\* The getdata part of SendMessages for p, with a tracker at the current time.
AskAll(T, p) ==
    LET Ask(h, U) == IF AlreadyHaveTx(h, T.index[<<p, h>>].wtx)
                       THEN ForgetTxHash(U, h)
                       ELSE RequestedTx(U, p, h, GETDATA_TX_INTERVAL)
    IN  FoldSet(Ask, T, GetRequestable(T, p))

SendMessages(p) ==
    /\ p \in connected
    /\ UNCHANGED <<connected, relayVars, poolVars, scene>>
    /\ Track(AskAll(SetTimePoint(m_txrequest), p))
    /\ IF GetRequestable(SetTimePoint(m_txrequest), p) = {}
         THEN UNCHANGED filterVars
         ELSE FilterRead({})

\* The clock, forward and back.
Shifted(T, d) ==
    [T EXCEPT !.index = [a \in DOMAIN @ |->
        IF @[a].state = Completed THEN @[a]
        ELSE [@[a] EXCEPT !.time = Max({@ + d, -MaxBack})]]]

Tick ==
    /\ Track(Shifted(m_txrequest, -1))
    /\ UNCHANGED <<connected, relayVars, poolVars, filterVars, scene>>

ClockBack ==
    /\ scene.backs > 0
    /\ scene' = [scene EXCEPT !.backs = @ - 1]
    /\ Track(Shifted(m_txrequest, 1))
    /\ UNCHANGED <<connected, relayVars, poolVars, filterVars>>

----------------------------------------------------------------------------
(* Orphans. *)

\* AddChildrenToWorkSet: the orphans that spend an output of t.
Children(t, orphans) == {k \in DOMAIN orphans : Txid[t] \in Parents(orphans[k].tx)}

AddTx(orphans, t, p) ==
    IF Txid[t] \in DOMAIN orphans THEN orphans
    ELSE (Txid[t] :> [tx |-> t, from |-> p]) @@ orphans

EraseTx(orphans, txids) == Restrict(orphans, DOMAIN orphans \ txids)

\* What may be left: the sweep takes some that were there before, then random
\* ones go until the limit is met.
LimitOrphans(orphans, fresh) ==
    LET Left(swept) == DOMAIN orphans \ swept
        Trimmed(swept) ==
            {keep \in SUBSET Left(swept) :
                Cardinality(keep) = Min({Cardinality(Left(swept)), scene.limit})}
    IN  {Restrict(orphans, keep) : keep \in
            UNION {Trimmed(swept) : swept \in SUBSET (DOMAIN orphans \ fresh)}}

\* A mutant: the hash of a transaction without its witness is rejected.
RejectedIds_Stripped(t, verdict) ==
    IF verdict = InputsNotStandard THEN Ids(t) ELSE {Wtxid[t]}

\* The hashes a verdict rejects: the wtxid, and the txid if no witness matters.
RejectedIds(t, verdict) ==
    CASE verdict = Stripped -> {}
      [] verdict = InputsNotStandard -> Ids(t)
      [] OTHER -> {Wtxid[t]}

\* A mutant: accepting an orphan does not schedule its own children.
ProcessOrphanTx_NoChildren(work, orphans, pool, cached) ==
    LET Verdict(k) == ProcessTransaction(orphans[k].tx, pool, cached)
        decided == {k \in work \cap DOMAIN orphans : Verdict(k) # Missing}
        k == Min(decided)
        valid == decided # {} /\ Verdict(k) = Valid
    IN  [work |-> IF decided = {} THEN {} ELSE {j \in work : j > k},
         orphans |-> IF decided = {} THEN orphans ELSE EraseTx(orphans, {k}),
         pool |-> IF valid THEN pool \cup {orphans[k].tx} ELSE pool,
         rejected |-> {}]

\* The first orphan of the work set that is not missing inputs is decided; the
\* ones before it are dropped from the set and stay orphans.
ProcessOrphanTx(work, orphans, pool, cached) ==
    LET Verdict(k) == ProcessTransaction(orphans[k].tx, pool, cached)
        decided == {k \in work \cap DOMAIN orphans : Verdict(k) # Missing}
    IN  IF decided = {}
          THEN [work |-> {}, orphans |-> orphans, pool |-> pool, rejected |-> {}]
          ELSE LET k == Min(decided)
                   t == orphans[k].tx
                   later == {j \in work : j > k}
                   valid == Verdict(k) = Valid
               IN  [work |-> IF valid THEN later \cup Children(t, orphans) ELSE later,
                    orphans |-> EraseTx(orphans, {k}),
                    pool |-> IF valid THEN pool \cup {t} ELSE pool,
                    rejected |-> IF valid THEN {} ELSE RejectedIds(t, Verdict(k))]

\* An orphanage and work sets, and which orphans were passed over.
Orphanage(orphans, work, passedOver) ==
    /\ m_orphans' = orphans
    /\ m_orphan_work_set' = work
    /\ missed' = ((missed \ UNION Range(work)) \cup passedOver) \cap DOMAIN orphans

Pool(pool) ==
    /\ mempool' = pool
    /\ had' = had \cup pool
    /\ UNCHANGED mined

\* The start of ProcessMessages for a peer with orphans to reconsider.
OrphanStep(p) ==
    /\ p \in connected /\ m_orphan_work_set[p] # {}
    /\ \E cached \in BOOLEAN :
        LET r == ProcessOrphanTx(m_orphan_work_set[p], m_orphans, mempool, cached)
        IN  /\ Orphanage(r.orphans, [m_orphan_work_set EXCEPT ![p] = r.work], {})
            /\ Pool(r.pool)
            /\ m_recent_rejects' = m_recent_rejects \cup r.rejected
    /\ UNCHANGED <<m_txrequest, asked, connected, local, scene>>
    /\ UNCHANGED <<m_recent_confirmed, tipMoved, queue, step>>

----------------------------------------------------------------------------
(* The TX message, solicited or not: one action for each way it ends. *)

ForgetAll(T, ids) == FoldSet(LAMBDA h, U : ForgetTxHash(U, h), T, ids)

\* The tracker after the two ReceivedResponse calls.
Answered(p, t) ==
    LET T == ReceivedResponse(m_txrequest, p, Txid[t])
    IN  IF Wtxid[t] = Txid[t] THEN T ELSE ReceivedResponse(T, p, Wtxid[t])

Delivers(p, t) == Listens(p) /\ t \in scene.txs

TxKnown(p, t) ==
    /\ Delivers(p, t) /\ AlreadyHaveTx(Wtxid[t], TRUE)
    /\ Track(Answered(p, t))
    /\ FilterRead({})
    /\ UNCHANGED <<connected, relayVars, poolVars, scene>>

\* Accepted: no request for it is needed, and one waiting orphan is decided.
TxAccepted(p, t) ==
    /\ Delivers(p, t) /\ ~AlreadyHaveTx(Wtxid[t], TRUE)
    /\ \E cached \in BOOLEAN :
        /\ ProcessTransaction(t, mempool, cached) = Valid
        /\ LET r == ProcessOrphanTx(Children(t, m_orphans), m_orphans, mempool \cup {t}, cached)
           IN  /\ Orphanage(r.orphans, [m_orphan_work_set EXCEPT ![p] = r.work], {})
               /\ Pool(r.pool)
               /\ FilterRead(r.rejected)
    /\ Track(ForgetAll(Answered(p, t), Ids(t)))
    /\ UNCHANGED <<connected, local, scene>>

\* The parents are asked for by txid, of the peer that sent the child.
AskParents(T, p, t) ==
    FoldLeft(LAMBDA U, h : IF AlreadyHaveTx(h, FALSE) THEN U
                           ELSE AddTxAnnouncement(U, p, h, FALSE),
             T, SetToSortSeq(Parents(t), <))

TxOrphaned(p, t) ==
    /\ Delivers(p, t) /\ ~AlreadyHaveTx(Wtxid[t], TRUE)
    /\ \E cached \in BOOLEAN : ProcessTransaction(t, mempool, cached) = Missing
    /\ IF Parents(t) \cap Rejects = {}
         THEN /\ Track(ForgetAll(AskParents(Answered(p, t), p, t), Ids(t)))
              /\ \E orphans \in LimitOrphans(AddTx(m_orphans, t, p),
                                             {Txid[t]} \ DOMAIN m_orphans) :
                    Orphanage(orphans, m_orphan_work_set, {})
              /\ FilterRead({})
         ELSE /\ Track(ForgetAll(Answered(p, t), Ids(t)))
              /\ FilterRead(Ids(t))
              /\ UNCHANGED relayVars
    /\ UNCHANGED <<connected, poolVars, scene>>

TxRejected(p, t) ==
    /\ Delivers(p, t) /\ ~AlreadyHaveTx(Wtxid[t], TRUE)
    /\ \E cached \in BOOLEAN :
        LET verdict == ProcessTransaction(t, mempool, cached)
        IN  /\ verdict \notin {Valid, Missing}
            /\ Track(ForgetAll(Answered(p, t), RejectedIds(t, verdict)))
            /\ FilterRead(RejectedIds(t, verdict))
    /\ UNCHANGED <<connected, relayVars, poolVars, scene>>

----------------------------------------------------------------------------
(* Peers that leave, and what happens to transactions beside the peers. *)

\* The peer's work set goes with it; it may hold orphans of other peers.
FinalizeNode(p) ==
    /\ p \in connected
    /\ connected' = connected \ {p}
    /\ Orphanage(EraseTx(m_orphans, {k \in DOMAIN m_orphans : m_orphans[k].from = p}),
                 [m_orphan_work_set EXCEPT ![p] = {}], m_orphan_work_set[p])
    /\ Track(DisconnectedPeer(m_txrequest, p))
    /\ UNCHANGED <<poolVars, filterVars, scene>>

\* The orphans that spend an output of t and no work set holds.
Unscheduled(t) == Children(t, m_orphans) \ UNION Range(m_orphan_work_set)

\* BroadcastTransaction, for sendrawtransaction and the wallet.
Submit(t) ==
    /\ t \in scene.txs /\ ProcessTransaction(t, mempool, TRUE) = Valid
    /\ scene.submits > 0
    /\ scene' = [scene EXCEPT !.submits = @ - 1]
    /\ Pool(mempool \cup {t})
    /\ local' = local \cup {t}
    /\ Orphanage(m_orphans, m_orphan_work_set, Unscheduled(t))
    /\ UNCHANGED <<m_txrequest, asked, connected, filterVars>>

\* The transactions of T and those of the mempool that depend on them.
Descendants(T) ==
    LET Closed(X) == \A u \in X, v \in mempool : Txid[u] \in Parents(v) => v \in X
    IN  {u \in mempool : \A X \in SUBSET mempool : T \subseteq X /\ Closed(X) => u \in X}

\* The mempool is trimmed when some other transaction enters it.
LimitMempoolSize(t) ==
    /\ t \in mempool /\ scene.evictions > 0
    /\ scene' = [scene EXCEPT !.evictions = @ - 1]
    /\ mempool' = mempool \ Descendants({t})
    /\ UNCHANGED <<m_txrequest, asked, connected, relayVars, mined, had, local, filterVars>>

\* removeForBlock: the transaction, and what spends the same coins with all that
\* depends on it.
RemoveForBlock(t) ==
    LET others == {u \in mempool : Txid[u] # Txid[t]}
    IN  others \ Descendants({u \in others : DoubleSpend(t, u)})

\* ConnectTip of a block with one transaction, standard or not; the callback
\* comes later.
ConnectTip(t) ==
    /\ t \in scene.txs \ mined /\ scene.blocks > 0
    /\ scene' = [scene EXCEPT !.blocks = @ - 1]
    /\ Fault[t] # Stripped /\ \A o \in Inputs[t] : HaveCoin(o, {})
    /\ mempool' = RemoveForBlock(t)
    /\ mined' = mined \cup {t}
    /\ had' = had \cup {t}
    /\ tipMoved' = TRUE
    /\ queue' = Append(queue, t)
    /\ Orphanage(m_orphans, m_orphan_work_set, Unscheduled(t))
    /\ UNCHANGED <<m_txrequest, asked, connected, local>>
    /\ UNCHANGED <<m_recent_confirmed, m_recent_rejects, step>>

\* A mutant: announcements are dropped before the filter knows the block.
AfterStep_ForgetFirst == [orphans |-> "forget", forget |-> "filter", filter |-> "orphans"]

\* The three parts of BlockConnected, each under its own lock.
AfterStep == [orphans |-> "filter", filter |-> "forget", forget |-> "orphans"]

\* EraseForBlock: the orphans that the block includes or precludes.
Precluded(t) == {k \in DOMAIN m_orphans : DoubleSpend(t, m_orphans[k].tx)}

BlockConnected ==
    /\ queue # << >>
    /\ LET t == Head(queue)
       IN  /\ IF step = "orphans"
                THEN Orphanage(EraseTx(m_orphans, Precluded(t)), m_orphan_work_set, {})
                ELSE UNCHANGED relayVars
           /\ m_recent_confirmed' =
                IF step = "filter" THEN m_recent_confirmed \cup Ids(t) ELSE m_recent_confirmed
           /\ IF step = "forget"
                THEN Track(ForgetAll(m_txrequest, Ids(t)))
                ELSE UNCHANGED <<m_txrequest, asked>>
    /\ step' = AfterStep[step]
    /\ queue' = IF step' = "orphans" THEN Tail(queue) ELSE queue
    /\ UNCHANGED <<connected, poolVars, m_recent_rejects, tipMoved, scene>>

----------------------------------------------------------------------------

Next ==
    \/ \E p \in Peers :
        \/ \E t \in Txs : \/ Inv(p, t) \/ TxKnown(p, t) \/ TxAccepted(p, t)
                          \/ TxOrphaned(p, t) \/ TxRejected(p, t)
        \/ \E h \in Hashes : NotFound(p, h)
        \/ SendMessages(p) \/ OrphanStep(p) \/ FinalizeNode(p)
    \/ \E t \in Txs : Submit(t) \/ LimitMempoolSize(t) \/ ConnectTip(t)
    \/ Tick \/ ClockBack \/ BlockConnected

\* There is nothing for SendMessages to do.
Idle(p) == p \notin connected \/ AskAll(SetTimePoint(m_txrequest), p) = m_txrequest

\* Time passes, and the message handler visits every peer it still has, again
\* and again (ThreadMessageHandler): WF_vars(SendMessages(p)), spelled out.
Fairness ==
    /\ WF_vars(Tick)
    /\ \A p \in Peers : []<>Idle(p) \/ []<><<SendMessages(p)>>_vars

Spec == Init /\ [][Next]_vars /\ Fairness

----------------------------------------------------------------------------
(* Properties. *)

Announcement == [state : DOMAIN StateRank, wtx : BOOLEAN,
                 time : -MaxBack .. MaxBack + Max({GETDATA_TX_INTERVAL,
                   NONPREF_PEER_TX_DELAY + TXID_RELAY_DELAY + OVERLOADED_PEER_TX_DELAY})]

\* Types, and the two limits: MAX_PEER_TX_ANNOUNCEMENTS for each peer, which
\* AddTxAnnouncement checks before it adds, and -maxorphantx, which
\* LimitOrphans restores after an orphan was added.  Announcements, orphans and
\* work sets are those of connected peers, whichever handlers ran before a peer
\* left: FinalizeNode asserts that nothing is left with the last one.
TypeOK ==
    /\ DOMAIN m_txrequest.index \subseteq connected \X Hashes
    /\ Range(m_txrequest.index) \subseteq Announcement
    /\ DOMAIN m_txrequest.info \subseteq Peers
    /\ \A p \in DOMAIN m_txrequest.info :
        m_txrequest.info[p] \in [total : 1 .. MAX_PEER_TX_ANNOUNCEMENTS,
                                 completed : 0 .. MAX_PEER_TX_ANNOUNCEMENTS,
                                 requested : 0 .. MAX_PEER_TX_ANNOUNCEMENTS]
    /\ DOMAIN m_orphans \subseteq Hashes
    /\ Range(m_orphans) \subseteq [tx : Txs, from : connected]
    /\ Cardinality(DOMAIN m_orphans) <= scene.limit
    /\ m_orphan_work_set \in [Peers -> SUBSET Hashes]
    /\ \A p \in Peers \ connected : m_orphan_work_set[p] = {}
    /\ mempool \subseteq Txs /\ mined \subseteq Txs /\ connected \subseteq Peers
    /\ m_recent_confirmed \cup m_recent_rejects \subseteq Hashes
    /\ queue \in Seq(Txs) /\ step \in DOMAIN AfterStep

\* How many announcements of p are in a state of S.
Tally(p, S) ==
    Cardinality({a \in OfPeer(m_txrequest, p) : m_txrequest.index[a].state \in S})

\* m_peerinfo, which Erase, Modify and
\* ReceivedInv maintain in passing, is what the index says, without entries for
\* peers that have no announcement; the limits of AddTxAnnouncement rest on it.
CountersExact ==
    /\ DOMAIN m_txrequest.info = {a[1] : a \in DOMAIN m_txrequest.index}
    /\ \A p \in DOMAIN m_txrequest.info :
        m_txrequest.info[p] = [total |-> Tally(p, DOMAIN StateRank),
                               completed |-> Tally(p, {Completed}),
                               requested |-> Tally(p, {Requested})]

\* For every hash: never only COMPLETED announcements; at most one BEST or
\* REQUESTED; one of them if any is READY; and no READY one of higher priority
\* than the BEST one.
SelectionSound ==
    \A h \in Hashes :
        LET In(s) == {a \in OfHash(m_txrequest, h) : m_txrequest.index[a].state = s}
        IN  /\ OfHash(m_txrequest, h) # In(Completed) \/ OfHash(m_txrequest, h) = {}
            /\ Cardinality(In(Best) \cup In(Requested)) <= 1
            /\ In(Ready) # {} => In(Best) \cup In(Requested) # {}
            /\ \A a \in In(Ready), b \in In(Best) : HigherPriority(b, a)

\* What TxRequestTracker::SanityCheck asserts after any sequence of calls: the
\* counters of m_peerinfo are those of the index, and of each hash the index
\* holds one selection, made by priority.
SanityCheck == CountersExact /\ SelectionSound

\* The rules at the head of txrequest.h: p may be asked for h now.
ToAsk(p) ==
    LET T == m_txrequest
        Viable(a) == T.index[a].state \in Candidates /\ T.index[a].time <= 0
        Outstanding(a) == T.index[a].state = Requested /\ T.index[a].time > 0
    IN  {h \in Hashes :
            /\ <<p, h>> \in DOMAIN T.index /\ Viable(<<p, h>>)
            /\ \A b \in OfHash(T, h) \ {<<p, h>>} :
                 ~Outstanding(b) /\ (Viable(b) => HigherPriority(<<p, h>>, b))}

\* The three CANDIDATE states are only an index: whenever GetRequestable is
\* called, for any peer and also after the clock went back, it returns what the
\* rules of txrequest.h say of the announcements, their times and priorities:
\* nothing before its reqtime, nothing while a request is outstanding, and of
\* several candidates the preferred one with the highest priority.
RequestableExact ==
    LET T == SetTimePoint(m_txrequest)
    IN  \A p \in Peers : GetRequestable(T, p) = ToAsk(p)

IsRequested(T, a) == a \in DOMAIN T.index /\ T.index[a].state = Requested

\* txrequest.h: "The same transaction is never requested twice from the same
\* peer, unless the announcement was forgotten in between, and re-announced",
\* whatever times out, is answered, or is announced again meanwhile.
AskedOnce ==
    [][\A a \in Peers \X Hashes :
        IsRequested(m_txrequest', a) /\ ~IsRequested(m_txrequest, a) => a \notin asked]_vars

\* SendMessages calls its own check `just a belt-and-suspenders, as this should
\* already be called whenever a transaction becomes AlreadyHaveTx()': no
\* announcement is kept for a hash the node has, by either id, while blocks and
\* messages come in any order.  The exceptions are a block whose callback is
\* between its filter and its ForgetTxHash, and a transaction submitted on this
\* node.
HadIsForgotten ==
    \A a \in DOMAIN m_txrequest.index :
        AlreadyHaveTx(a[2], m_txrequest.index[a].wtx) =>
            \/ queue # << >> /\ step = "forget" /\ a[2] \in Ids(Head(queue))
            \/ \E t \in local : a[2] \in Ids(t)

\* The node would take t, after some version of each of its parents.
Acceptable[t \in Txs] ==
    /\ Fault[t] = Valid
    /\ \A h \in Parents(t) : \E u \in Txs : Txid[u] = h /\ (u \in mined \/ Acceptable[u])

\* The node had a transaction that spends a coin of t, or rejected an ancestor of
\* t of which this is so.
Contested[t \in Txs] ==
    \/ \E u \in had : DoubleSpend(t, u)
    \/ \E u \in Txs : Txid[u] \in Parents(t) \cap Rejects /\ Contested[u]

\* No hash of an acceptable transaction is in the reject filter, so it can be
\* fetched from any peer: a copy without its witness, an invalid relative or a
\* missing parent does not bar it.  The exceptions all start from a transaction
\* the node had: it bars its double spends and other versions of itself, and as
\* the id of a version without witness is the txid they share, with the next
\* descendants that come as orphans.
NeverHadNotRejected ==
    \A t \in scene.txs : Acceptable[t] /\ Ids(t) \cap Rejects # {} => Contested[t]

\* An orphan whose inputs are all there and unspent is in some peer's work set,
\* so that ProcessOrphanTx decides it.  The exceptions (history missed): the last
\* parent came by a block or was submitted on this node, or the peer whose work
\* set held the orphan left.
OrphansScheduled ==
    \A k \in DOMAIN m_orphans :
        (\A o \in Inputs[m_orphans[k].tx] : HaveCoin(o, mempool)) =>
            k \in UNION Range(m_orphan_work_set) \cup missed

\* The announcement the scene watches waits to be acted on.
Waits == /\ scene.watch \in DOMAIN m_txrequest.index
         /\ m_txrequest.index[scene.watch].state \in Candidates

\* Every announcement is acted on: its peer is asked, or it is no longer needed
\* or gone with its peer, though other peers are preferred, let requests time
\* out, answer late or leave.
EventuallyAsked == Waits ~> ~Waits

============================================================================
