----------------------------- MODULE CoinsCache -----------------------------
(***************************************************************************)
(* The stack of coins views of a running node: the coins database at the   *)
(* bottom, CoinsTip (a CCoinsViewCache that lives as long as the node)     *)
(* over it, and the CCoinsViewCache that ConnectTip, DisconnectTip and     *)
(* TestBlockValidity open over CoinsTip, change, and then flush into it or *)
(* drop.  Every operation runs under cs_main, so each is one action; they  *)
(* follow one another in any order the callers' contracts allow.           *)
(*                                                                         *)
(* A cache entry keeps its value and the flags DIRTY and FRESH; the flag   *)
(* PEGIN is the kind of its key.  The value of a native key is its coin or *)
(* Null for a spent coin (Coin::IsSpent); that of a peg-in key is          *)
(* peginSpent, Claimed for true and Null for false.                        *)
(***************************************************************************)
CONSTANTS Outpoint, Pegin, Coin, Block, Claimed, Null, NoView, NoEntry

ASSUME KeysAssumption ==
    /\ Outpoint \cap Pegin = {}
    /\ Claimed \notin Coin /\ Null \notin Coin /\ Claimed # Null
    /\ Null \notin Block

VARIABLES
    db,         \* CCoinsViewDB: the coins and peg-in flags on disk
    dbBest,     \* DB_BEST_BLOCK
    tip,        \* cacheCoins of CoinsTip
    tipBest,    \* hashBlock of CoinsTip; Null until it is first read
    view,       \* cacheCoins of the view over CoinsTip, or NoView
    viewBest,   \* its hashBlock
    threw       \* a std::logic_error was thrown

vars == <<db, dbBest, tip, tipBest, view, viewBest, threw>>

Key == Outpoint \cup Pegin

Values(k) == IF k \in Outpoint THEN Coin \cup {Null} ELSE {Claimed, Null}

Value == Coin \cup {Claimed, Null}

Entry == [val : Value, dirty : BOOLEAN, fresh : BOOLEAN]

Cache == [Key -> Entry \cup {NoEntry}]

ASSUME NoEntryAssumption ==
    NoEntry \notin Entry /\ NoView \notin Cache /\ NoView \notin [Key -> Value]

EmptyCache == [k \in Key |-> NoEntry]

-----------------------------------------------------------------------------
(* The operations of CCoinsViewCache, as functions of the entry e that the  *)
(* cache has for the key and of the value b that its base reports.          *)

(* What the cache answers for the key. *)
Lookup(e, b) == IF e = NoEntry THEN b ELSE e.val

(* FetchCoin: a miss copies the base's coin, if it has an unspent one. *)
FetchCoin(e, b) ==
    IF e = NoEntry /\ b # Null
    THEN [val |-> b, dirty |-> FALSE, fresh |-> FALSE]
    ELSE e

(* AddCoin: an entry that is not waiting to tell the base of a spend may be *)
(* marked FRESH when the caller rules out an overwrite.                     *)
AddCoin(e, c, possible_overwrite) ==
    IF e = NoEntry
    THEN [val |-> c, dirty |-> TRUE, fresh |-> ~possible_overwrite]
    ELSE [val |-> c, dirty |-> TRUE,
          fresh |-> e.fresh \/ (~possible_overwrite /\ ~e.dirty)]

AddCoinThrows(e, possible_overwrite) ==
    ~possible_overwrite /\ e # NoEntry /\ e.val # Null

(* SpendCoin, after its FetchCoin: a FRESH entry is forgotten, any other    *)
(* stays as a dirty spent one; an outpoint nobody knows is left alone.      *)
SpendCoin(e) ==
    IF e = NoEntry THEN NoEntry
    ELSE IF e.fresh THEN NoEntry
    ELSE [val |-> Null, dirty |-> TRUE, fresh |-> FALSE]

(* IsPeginSpent: a miss copies the base's flag, FRESH when it is not set. *)
IsPeginSpent(e, b) ==
    IF e = NoEntry
    THEN [val |-> b, dirty |-> FALSE, fresh |-> b = Null]
    ELSE e

(* SetPeginSpent: nothing happens unless the flag changes. *)
SetPeginSpent(e, b, v) ==
    IF Lookup(e, b) = v THEN e
    ELSE [val |-> v, dirty |-> TRUE,
          fresh |-> IF e = NoEntry THEN b = Null ELSE e.fresh]

(* BatchWrite that passes FRESH on to an entry the parent already had. *)
MergeEntry_PassFresh(p, e) ==
    IF e = NoEntry THEN p
    ELSE IF ~e.dirty THEN p
    ELSE IF p = NoEntry
    THEN IF e.fresh /\ e.val = Null THEN NoEntry ELSE e
    ELSE IF p.fresh /\ e.val = Null THEN NoEntry
    ELSE [val |-> e.val, dirty |-> TRUE, fresh |-> p.fresh \/ e.fresh]

(* BatchWrite, for one entry e of the child and the entry p of the parent   *)
(* under the same key.                                                      *)
MergeEntry(p, e) ==
    IF e = NoEntry THEN p
    ELSE IF ~e.dirty THEN p
    ELSE IF p = NoEntry
    THEN IF e.fresh /\ e.val = Null THEN NoEntry ELSE e
    ELSE IF p.fresh /\ e.val = Null THEN NoEntry
    ELSE [val |-> e.val, dirty |-> TRUE, fresh |-> p.fresh]

BatchWrite(parent, child) == [k \in Key |-> MergeEntry(parent[k], child[k])]

(* The coin of a peg-in entry is always empty, so only native keys throw. *)
BatchWriteThrows(parent, child) ==
    \E o \in Outpoint :
        /\ child[o] # NoEntry /\ child[o].dirty /\ child[o].fresh
        /\ parent[o] # NoEntry /\ parent[o].val # Null

(* CCoinsViewDB::BatchWrite, all of it on disk. *)
DBBatchWrite(disk, child) ==
    [k \in Key |-> IF child[k] = NoEntry THEN disk[k]
                   ELSE IF child[k].dirty THEN child[k].val ELSE disk[k]]
-----------------------------------------------------------------------------
(* What CoinsTip, and the view over it, report for a key. *)
TipValue(k) == Lookup(tip[k], db[k])
ViewValue(k) == Lookup(view[k], TipValue(k))

TipBestBlock == IF tipBest = Null THEN dbBest ELSE tipBest

(* A miss in the view reads through CoinsTip, which caches what it read. *)
TipAfterFetch(o) ==
    IF view[o] = NoEntry THEN [tip EXCEPT ![o] = FetchCoin(tip[o], db[o])] ELSE tip
TipAfterPeginRead(p) ==
    IF view[p] = NoEntry THEN [tip EXCEPT ![p] = IsPeginSpent(tip[p], db[p])] ELSE tip

Init ==
    /\ db \in {m \in [Key -> Value] : \A k \in Key : m[k] \in Values(k)}
    /\ dbBest \in Block
    /\ tip = EmptyCache
    /\ tipBest = Null
    /\ view = NoView
    /\ viewBest = Null
    /\ threw = FALSE

(* CCoinsViewCache view(&CoinsTip()) *)
OpenView ==
    /\ view = NoView
    /\ view' = EmptyCache
    /\ viewBest' = Null
    /\ UNCHANGED <<db, dbBest, tip, tipBest, threw>>

(* view.HaveCoin, AccessCoin and GetCoin *)
ViewFetch(o) ==
    /\ view # NoView
    /\ tip' = TipAfterFetch(o)
    /\ view' = [view EXCEPT ![o] = FetchCoin(view[o], TipValue(o))]
    /\ UNCHANGED <<db, dbBest, tipBest, viewBest, threw>>

(* view.AddCoin: the callers rule out an overwrite (possible_overwrite is   *)
(* false) only for an output that HaveCoin told them is not there.          *)
ViewAdd(o, c, possible_overwrite) ==
    /\ view # NoView
    /\ possible_overwrite \/ ViewValue(o) = Null
    /\ IF AddCoinThrows(view[o], possible_overwrite)
       THEN threw' = TRUE /\ UNCHANGED view
       ELSE view' = [view EXCEPT ![o] = AddCoin(view[o], c, possible_overwrite)] /\ UNCHANGED threw
    /\ UNCHANGED <<db, dbBest, tip, tipBest, viewBest>>

(* view.SpendCoin *)
ViewSpend(o) ==
    /\ view # NoView
    /\ tip' = TipAfterFetch(o)
    /\ view' = [view EXCEPT ![o] = SpendCoin(FetchCoin(view[o], TipValue(o)))]
    /\ UNCHANGED <<db, dbBest, tipBest, viewBest, threw>>

(* view.IsPeginSpent *)
ViewIsPeginSpent(p) ==
    /\ view # NoView
    /\ tip' = TipAfterPeginRead(p)
    /\ view' = [view EXCEPT ![p] = IsPeginSpent(view[p], TipValue(p))]
    /\ UNCHANGED <<db, dbBest, tipBest, viewBest, threw>>

(* view.SetPeginSpent *)
ViewSetPeginSpent(p, v) ==
    /\ view # NoView
    /\ tip' = TipAfterPeginRead(p)
    /\ view' = [view EXCEPT ![p] = SetPeginSpent(view[p], TipValue(p), v)]
    /\ UNCHANGED <<db, dbBest, tipBest, viewBest, threw>>

(* view.GetBestBlock: read through to the base, and remembered on the way. *)
ViewGetBestBlock ==
    /\ view # NoView
    /\ viewBest = Null
    /\ tipBest' = TipBestBlock
    /\ viewBest' = TipBestBlock
    /\ UNCHANGED <<db, dbBest, tip, view, threw>>

(* view.SetBestBlock *)
ViewSetBestBlock(b) ==
    /\ view # NoView
    /\ viewBest' = b
    /\ UNCHANGED <<db, dbBest, tip, tipBest, view, threw>>

(* view.Flush into CoinsTip: ConnectBlock and DisconnectBlock have set the  *)
(* view's best block by then.                                               *)
ViewFlush ==
    /\ view # NoView
    /\ viewBest # Null
    /\ IF BatchWriteThrows(tip, view)
       THEN threw' = TRUE /\ UNCHANGED <<tip, tipBest, view, viewBest>>
       ELSE /\ tip' = BatchWrite(tip, view)
            /\ tipBest' = viewBest
            /\ view' = NoView
            /\ viewBest' = Null
            /\ UNCHANGED threw
    /\ UNCHANGED <<db, dbBest>>

(* The view goes out of scope unflushed: ConnectBlock rejected the block, *)
(* or TestBlockValidity only asked.                                       *)
ViewDrop ==
    /\ view # NoView
    /\ view' = NoView
    /\ viewBest' = Null
    /\ UNCHANGED <<db, dbBest, tip, tipBest, threw>>

(* CoinsTip read directly: the mempool and the RPCs. *)
TipFetch(o) ==
    /\ view = NoView
    /\ tip' = [tip EXCEPT ![o] = FetchCoin(tip[o], db[o])]
    /\ UNCHANGED <<db, dbBest, tipBest, view, viewBest, threw>>

TipIsPeginSpent(p) ==
    /\ view = NoView
    /\ tip' = [tip EXCEPT ![p] = IsPeginSpent(tip[p], db[p])]
    /\ UNCHANGED <<db, dbBest, tipBest, view, viewBest, threw>>

(* An Uncache that does not look at the flags. *)
TipUncache_AnyFlags(o) ==
    /\ view = NoView
    /\ tip[o] # NoEntry
    /\ tip' = [tip EXCEPT ![o] = NoEntry]
    /\ UNCHANGED <<db, dbBest, tipBest, view, viewBest, threw>>

(* CoinsTip().Uncache: only an entry without any flag may go. *)
TipUncache(o) ==
    /\ view = NoView
    /\ tip[o] # NoEntry /\ ~tip[o].dirty /\ ~tip[o].fresh
    /\ tip' = [tip EXCEPT ![o] = NoEntry]
    /\ UNCHANGED <<db, dbBest, tipBest, view, viewBest, threw>>

(* CoinsTip().Flush, from FlushStateToDisk, which first reads the best block. *)
TipFlush ==
    /\ view = NoView
    /\ db' = DBBatchWrite(db, tip)
    /\ dbBest' = TipBestBlock
    /\ tipBest' = TipBestBlock
    /\ tip' = EmptyCache
    /\ UNCHANGED <<view, viewBest, threw>>

Next ==
    \/ OpenView
    \/ \E o \in Outpoint : ViewFetch(o) \/ ViewSpend(o) \/ TipFetch(o) \/ TipUncache(o)
    \/ \E o \in Outpoint, c \in Coin, w \in BOOLEAN : ViewAdd(o, c, w)
    \/ \E p \in Pegin : ViewIsPeginSpent(p) \/ TipIsPeginSpent(p)
    \/ \E p \in Pegin, v \in {Claimed, Null} : ViewSetPeginSpent(p, v)
    \/ ViewGetBestBlock
    \/ \E b \in Block : ViewSetBestBlock(b)
    \/ ViewFlush
    \/ ViewDrop
    \/ TipFlush

Spec == Init /\ [][Next]_vars
-----------------------------------------------------------------------------
(* The type invariant. *)
TypeOK ==
    /\ db \in [Key -> Value] /\ \A k \in Key : db[k] \in Values(k)
    /\ dbBest \in Block
    /\ tip \in Cache
    /\ tipBest \in Block \cup {Null}
    /\ view \in Cache \cup {NoView}
    /\ viewBest \in Block \cup {Null}
    /\ threw \in BOOLEAN

(* Neither of the two std::logic_errors is ever thrown: AddCoin never finds *)
(* an unspent coin its caller ruled out, and BatchWrite never finds a coin  *)
(* marked FRESH by the child that the parent has.                           *)
NoLogicError == ~threw

(* An entry e over a base that reports b may only be what the comment on    *)
(* CCoinsCacheEntry lists: a native entry is one of the five combinations,  *)
(* a clean entry repeats its base, and FRESH means the base has nothing.    *)
EntryOK(k, e, b) ==
    e # NoEntry =>
        /\ e.val \in Values(k)
        /\ e.fresh => b = Null
        /\ ~e.dirty => e.val = b
        /\ (k \in Outpoint /\ e.val = Null) => (e.fresh # e.dirty)
        /\ (k \in Outpoint /\ e.val # Null /\ e.fresh) => e.dirty

(* In both caches every entry is consistent with what lies below it: a      *)
(* FRESH entry can be dropped when it is spent without the base ever        *)
(* hearing of it, and a clean one can be dropped at any time.               *)
EntriesConsistent ==
    /\ \A k \in Key : EntryOK(k, tip[k], db[k])
    /\ view # NoView => \A k \in Key : EntryOK(k, view[k], TipValue(k))

(* The stack implements CoinsView: what the callers read through it changes *)
(* only by AddCoin, SpendCoin and SetPeginSpent, by the commit of a whole   *)
(* view (with its best block) or by its end; caching, uncaching, FRESH      *)
(* shortcuts and the flush to disk are invisible.                           *)
AbstractBest == TipBestBlock
AbstractWork == IF view = NoView THEN NoView ELSE [k \in Key |-> ViewValue(k)]
AbstractWorkBest == IF viewBest = Null THEN TipBestBlock ELSE viewBest

CV == INSTANCE CoinsView WITH
    coins <- [k \in Key |-> TipValue(k)],
    best <- AbstractBest,
    work <- AbstractWork,
    workBest <- AbstractWorkBest

ImplementsCoinsView == CV!AbstractSpec
=============================================================================
