-------------------------- MODULE CoinsCacheProofs --------------------------
(***************************************************************************)
(* For every set of outpoints, peg-ins, coins and blocks: the flags of both *)
(* caches stay consistent with what lies below them, no logic_error is      *)
(* thrown, and the stack implements CoinsView.                              *)
(***************************************************************************)
EXTENDS CoinsCache, TLAPS

(* The inductive invariant: each conjunct is needed by another one.  The    *)
(* two checks of AddCoin and BatchWrite cannot throw because FRESH entries  *)
(* have nothing below them, which is preserved because a clean entry        *)
(* repeats its base and a spent native entry is FRESH or DIRTY, not both.   *)
IInv == TypeOK /\ EntriesConsistent /\ NoLogicError

Slot == Entry \cup {NoEntry}
-----------------------------------------------------------------------------
(* The operations on one entry preserve EntryOK and answer what they should. *)

LEMMA EntryIsNotNoEntry ==
    ASSUME NEW v \in Value, NEW d \in BOOLEAN, NEW f \in BOOLEAN
    PROVE  /\ [val |-> v, dirty |-> d, fresh |-> f] \in Entry
           /\ [val |-> v, dirty |-> d, fresh |-> f] # NoEntry
BY NoEntryAssumption DEF Entry

LEMMA ValuesAreValues ==
    ASSUME NEW k, NEW v \in Values(k)
    PROVE  v \in Value
BY DEF Values, Value

(* FetchCoin keeps the entry consistent and the answer as it was. *)
LEMMA FetchCoinOK ==
    ASSUME NEW o \in Outpoint, NEW e \in Slot, NEW b \in Values(o), EntryOK(o, e, b)
    PROVE  /\ FetchCoin(e, b) \in Slot
           /\ EntryOK(o, FetchCoin(e, b), b)
           /\ Lookup(FetchCoin(e, b), b) = Lookup(e, b)
           /\ FetchCoin(e, b) = NoEntry => b = Null
BY Zenon, EntryIsNotNoEntry, ValuesAreValues DEF FetchCoin, EntryOK, Lookup, Slot, Entry

(* AddCoin stores the coin; FRESH only when the base has none. *)
LEMMA AddCoinOK ==
    ASSUME NEW o \in Outpoint, NEW e \in Slot, NEW b \in Values(o), EntryOK(o, e, b),
           NEW c \in Coin, NEW w \in BOOLEAN, w \/ Lookup(e, b) = Null
    PROVE  /\ AddCoin(e, c, w) \in Slot
           /\ EntryOK(o, AddCoin(e, c, w), b)
           /\ Lookup(AddCoin(e, c, w), b) = c
           /\ ~AddCoinThrows(e, w)
<1>1. c \in Values(o) /\ c \in Value /\ c # Null
  BY KeysAssumption DEF Values, Value
<1>2. AddCoinThrows(e, w) = FALSE
  BY DEF AddCoinThrows, Lookup
<1> DEFINE f == IF e = NoEntry THEN ~w ELSE e.fresh \/ (~w /\ ~e.dirty)
           n == [val |-> c, dirty |-> TRUE, fresh |-> f]
<1>3. f \in BOOLEAN
  BY Zenon DEF Slot, Entry
<1>4. f => b = Null
  BY <1>3 DEF EntryOK, Lookup, Slot, Entry
<1>5. AddCoin(e, c, w) = n
  BY Zenon DEF AddCoin
<1> HIDE DEF f
<1>6. n \in Entry /\ n # NoEntry /\ n.val = c /\ n.dirty = TRUE /\ n.fresh = f
  BY Zenon, <1>1, <1>3, EntryIsNotNoEntry
<1> HIDE DEF n
<1> QED BY <1>1, <1>2, <1>3, <1>4, <1>5, <1>6 DEF EntryOK, Lookup, Slot

(* SpendCoin leaves nothing to be found. *)
LEMMA SpendCoinOK ==
    ASSUME NEW o \in Outpoint, NEW e \in Slot, NEW b \in Values(o), EntryOK(o, e, b),
           e = NoEntry => b = Null
    PROVE  /\ SpendCoin(e) \in Slot
           /\ EntryOK(o, SpendCoin(e), b)
           /\ Lookup(SpendCoin(e), b) = Null
<1> DEFINE n == [val |-> Null, dirty |-> TRUE, fresh |-> FALSE]
<1>1. n \in Entry /\ n # NoEntry /\ Null \in Values(o)
  BY Zenon, EntryIsNotNoEntry DEF Value, Values
<1> HIDE DEF n
<1>2. n.val = Null /\ n.dirty = TRUE /\ n.fresh = FALSE
  BY DEF n
<1> QED BY <1>1, <1>2 DEF SpendCoin, EntryOK, Lookup, Slot, n

(* IsPeginSpent keeps the entry consistent and the answer as it was. *)
LEMMA IsPeginSpentOK ==
    ASSUME NEW p \in Pegin, NEW e \in Slot, NEW b \in Values(p), EntryOK(p, e, b)
    PROVE  /\ IsPeginSpent(e, b) \in Slot
           /\ EntryOK(p, IsPeginSpent(e, b), b)
           /\ Lookup(IsPeginSpent(e, b), b) = Lookup(e, b)
<1>1. p \notin Outpoint
  BY KeysAssumption
<1>2. CASE e = NoEntry
  <2> DEFINE n == [val |-> b, dirty |-> FALSE, fresh |-> (b = Null)]
  <2>1. n \in Entry /\ n # NoEntry
    BY Zenon, EntryIsNotNoEntry, ValuesAreValues
  <2>2. n.val = b /\ n.dirty = FALSE /\ n.fresh = (b = Null)
    OBVIOUS
  <2> HIDE DEF n
  <2>3. IsPeginSpent(e, b) = n
    BY <1>2 DEF IsPeginSpent, n
  <2> QED BY Zenon, <1>1, <1>2, <2>1, <2>2, <2>3 DEF EntryOK, Lookup, Slot
<1>3. CASE e # NoEntry
  BY <1>3 DEF IsPeginSpent
<1> QED BY <1>2, <1>3

(* SetPeginSpent makes the answer v. *)
LEMMA SetPeginSpentOK ==
    ASSUME NEW p \in Pegin, NEW e \in Slot, NEW b \in Values(p), EntryOK(p, e, b),
           NEW v \in {Claimed, Null}
    PROVE  /\ SetPeginSpent(e, b, v) \in Slot
           /\ EntryOK(p, SetPeginSpent(e, b, v), b)
           /\ Lookup(SetPeginSpent(e, b, v), b) = v
<1>1. p \notin Outpoint /\ v \in Values(p) /\ v \in Value
  BY KeysAssumption DEF Values, Value
<1>2. CASE Lookup(e, b) = v
  BY <1>2 DEF SetPeginSpent
<1>3. CASE Lookup(e, b) # v
  <2> DEFINE f == IF e = NoEntry THEN b = Null ELSE e.fresh
             n == [val |-> v, dirty |-> TRUE, fresh |-> f]
  <2>1. f \in BOOLEAN
    BY Zenon DEF Slot, Entry
  <2>2. f => b = Null
    BY DEF EntryOK
  <2> HIDE DEF f
  <2>3. n \in Entry /\ n # NoEntry
    BY Zenon, <1>1, <2>1, EntryIsNotNoEntry
  <2>4. n.val = v /\ n.dirty = TRUE /\ n.fresh = f
    OBVIOUS
  <2>5. SetPeginSpent(e, b, v) = n
    BY <1>3 DEF SetPeginSpent, n, f
  <2> HIDE DEF n
  <2> QED BY <1>1, <2>1, <2>2, <2>3, <2>4, <2>5 DEF EntryOK, Lookup, Slot
<1> QED BY <1>2, <1>3

(* A flushed entry moves its answer to the parent: over the same base the   *)
(* parent now answers what the child answered, and stays consistent.        *)
LEMMA MergeEntryOK ==
    ASSUME NEW k \in Key, NEW p \in Slot, NEW e \in Slot, NEW b \in Values(k),
           EntryOK(k, p, b), EntryOK(k, e, Lookup(p, b))
    PROVE  /\ MergeEntry(p, e) \in Slot
           /\ EntryOK(k, MergeEntry(p, e), b)
           /\ Lookup(MergeEntry(p, e), b) = Lookup(e, Lookup(p, b))
<1>1. CASE e = NoEntry \/ ~e.dirty
  BY Zenon, <1>1 DEF MergeEntry, Lookup, EntryOK
<1>2. CASE e # NoEntry /\ e.dirty /\ p = NoEntry
  BY <1>2 DEF MergeEntry, Lookup, EntryOK, Slot, Entry
<1>3. CASE e # NoEntry /\ e.dirty /\ p # NoEntry
  <2>1. CASE p.fresh /\ e.val = Null
    BY <1>3, <2>1 DEF MergeEntry, Lookup, EntryOK, Slot
  <2>2. CASE ~(p.fresh /\ e.val = Null)
    <3> DEFINE n == [val |-> e.val, dirty |-> TRUE, fresh |-> p.fresh]
    <3>1. e.val \in Value /\ e.val \in Values(k)
      BY <1>3, ValuesAreValues DEF EntryOK
    <3>2. p \in Entry
      BY <1>3 DEF Slot
    <3>3. n \in Entry /\ n.val = e.val /\ n.dirty = TRUE /\ n.fresh = p.fresh
      BY <3>1, <3>2, EntryIsNotNoEntry DEF Entry
    <3>4. MergeEntry(p, e) = n
      BY <1>3, <2>2 DEF MergeEntry
    <3>5. n # NoEntry
      BY Zenon, <3>3, NoEntryAssumption
    <3> HIDE DEF n
    <3>6. p.fresh \in BOOLEAN
      BY <3>2 DEF Entry
    <3> QED BY <1>3, <2>2, <3>1, <3>3, <3>4, <3>5, <3>6 DEF Lookup, EntryOK, Slot
  <2> QED BY <2>1, <2>2
<1> QED
  <2>1. e = NoEntry \/ ~e.dirty \/ (e # NoEntry /\ e.dirty)
    OBVIOUS
  <2> QED BY <1>1, <1>2, <1>3, <2>1
-----------------------------------------------------------------------------
(* The same, for the caches of a state that satisfies the invariant. *)

LEMMA StateFacts ==
    ASSUME IInv
    PROVE  /\ \A k \in Key : db[k] \in Values(k) /\ tip[k] \in Slot
           /\ \A k \in Key : TipValue(k) \in Values(k)
           /\ view # NoView => \A k \in Key : view[k] \in Slot /\ ViewValue(k) \in Values(k)
           /\ Outpoint \subseteq Key /\ Pegin \subseteq Key
<1>1. \A k \in Key : db[k] \in Values(k) /\ tip[k] \in Slot
  BY DEF IInv, TypeOK, Cache, Slot
<1>2. \A k \in Key : TipValue(k) \in Values(k)
  BY <1>1 DEF IInv, EntriesConsistent, EntryOK, TipValue, Lookup
<1>3. ASSUME view # NoView
      PROVE \A k \in Key : view[k] \in Slot /\ ViewValue(k) \in Values(k)
  <2>1. view \in Cache
    BY <1>3 DEF IInv, TypeOK
  <2> QED BY <1>2, <1>3, <2>1 DEF IInv, EntriesConsistent, EntryOK, ViewValue, Lookup, Cache, Slot
<1> QED BY <1>1, <1>2, <1>3 DEF Key

(* Reading through CoinsTip keeps it consistent and changes no answer. *)
LEMMA TipReadOK ==
    ASSUME IInv, NEW k \in Key, NEW e \in Slot,
           \/ k \in Outpoint /\ e = FetchCoin(tip[k], db[k])
           \/ k \in Pegin /\ e = IsPeginSpent(tip[k], db[k]),
           tip' = [tip EXCEPT ![k] = e], db' = db
    PROVE  /\ tip' \in Cache
           /\ \A j \in Key : EntryOK(j, tip'[j], db'[j])
           /\ \A j \in Key : TipValue(j)' = TipValue(j)
<1>1. tip \in Cache /\ EntryOK(k, tip[k], db[k]) /\ tip[k] \in Slot /\ db[k] \in Values(k)
  BY StateFacts DEF IInv, TypeOK, EntriesConsistent
<1>2. EntryOK(k, e, db[k]) /\ Lookup(e, db[k]) = Lookup(tip[k], db[k])
  BY <1>1, FetchCoinOK, IsPeginSpentOK
<1>3. tip' \in Cache /\ tip'[k] = e /\ \A j \in Key \ {k} : tip'[j] = tip[j]
  BY <1>1 DEF Cache, Slot
<1>4. \A j \in Key : EntryOK(j, tip'[j], db'[j])
  BY <1>2, <1>3 DEF IInv, EntriesConsistent
<1>5. \A j \in Key : TipValue(j)' = TipValue(j)
  BY <1>2, <1>3 DEF TipValue
<1> QED BY <1>3, <1>4, <1>5

LEMMA TipAfterFetchOK ==
    ASSUME IInv, view # NoView, NEW o \in Outpoint, tip' = TipAfterFetch(o), db' = db
    PROVE  /\ tip' \in Cache
           /\ \A j \in Key : EntryOK(j, tip'[j], db'[j])
           /\ \A j \in Key : TipValue(j)' = TipValue(j)
<1>1. CASE view[o] = NoEntry
  <2>1. FetchCoin(tip[o], db[o]) \in Slot /\ o \in Key
    BY StateFacts, FetchCoinOK DEF IInv, EntriesConsistent
  <2> QED BY Zenon, <1>1, <2>1, TipReadOK DEF TipAfterFetch
<1>2. CASE view[o] # NoEntry
  BY <1>2 DEF TipAfterFetch, IInv, TypeOK, EntriesConsistent, TipValue
<1> QED BY <1>1, <1>2

LEMMA TipAfterPeginReadOK ==
    ASSUME IInv, view # NoView, NEW p \in Pegin, tip' = TipAfterPeginRead(p), db' = db
    PROVE  /\ tip' \in Cache
           /\ \A j \in Key : EntryOK(j, tip'[j], db'[j])
           /\ \A j \in Key : TipValue(j)' = TipValue(j)
<1>1. CASE view[p] = NoEntry
  <2>1. IsPeginSpent(tip[p], db[p]) \in Slot /\ p \in Key
    BY StateFacts, IsPeginSpentOK DEF IInv, EntriesConsistent
  <2> QED BY Zenon, <1>1, <2>1, TipReadOK DEF TipAfterPeginRead
<1>2. CASE view[p] # NoEntry
  BY <1>2 DEF TipAfterPeginRead, IInv, TypeOK, EntriesConsistent, TipValue
<1> QED BY <1>1, <1>2

(* A step that changes one entry of the view, and CoinsTip at most by       *)
(* reading, keeps the invariant and changes one answer.                     *)
LEMMA ViewStepOK ==
    ASSUME IInv, view # NoView, NEW k \in Key, NEW e \in Slot, NEW v,
           view' = [view EXCEPT ![k] = e],
           EntryOK(k, e, TipValue(k)), Lookup(e, TipValue(k)) = v,
           tip' \in Cache,
           \A j \in Key : EntryOK(j, tip'[j], db'[j]),
           \A j \in Key : TipValue(j)' = TipValue(j),
           UNCHANGED <<db, dbBest, tipBest, viewBest, threw>>
    PROVE  /\ IInv'
           /\ view' # NoView
           /\ ViewValue(k)' = v
           /\ \A j \in Key \ {k} : ViewValue(j)' = ViewValue(j)
<1>1. view \in Cache
  BY DEF IInv, TypeOK
<1>2. view' \in Cache /\ view'[k] = e /\ \A j \in Key \ {k} : view'[j] = view[j]
  BY <1>1 DEF Cache, Slot
<1>3. view' # NoView
  BY Zenon, <1>2, NoEntryAssumption
<1>4. TypeOK'
  BY <1>2 DEF IInv, TypeOK
<1>5. \A j \in Key : EntryOK(j, view'[j], TipValue(j)')
  BY <1>2 DEF IInv, EntriesConsistent
<1>6. EntriesConsistent' /\ NoLogicError'
  BY <1>5 DEF IInv, EntriesConsistent, NoLogicError
<1>7. ViewValue(k)' = v /\ \A j \in Key \ {k} : ViewValue(j)' = ViewValue(j)
  BY <1>2 DEF ViewValue
<1> QED BY <1>3, <1>4, <1>6, <1>7 DEF IInv

(* ... which CoinsView takes as a Put, or as no step when v was the answer. *)
LEMMA ViewStepAbstract ==
    ASSUME IInv, IInv', view # NoView, view' # NoView, NEW k \in Key, NEW v \in Values(k),
           ViewValue(k)' = v,
           \A j \in Key \ {k} : ViewValue(j)' = ViewValue(j),
           \A j \in Key : TipValue(j)' = TipValue(j),
           UNCHANGED <<dbBest, tipBest, viewBest>>
    PROVE  CV!Put(k, v)
<1>1. AbstractWork = [j \in Key |-> ViewValue(j)] /\ AbstractWork' = [j \in Key |-> ViewValue(j)']
  BY DEF AbstractWork
<1>2. [j \in Key |-> ViewValue(j)] \in [Key -> Value]
  BY StateFacts, ValuesAreValues
<1>3. AbstractWork # NoView
  BY <1>1, <1>2, NoEntryAssumption
<1>4. AbstractWork' = [AbstractWork EXCEPT ![k] = v]
  BY <1>1
<1>5. [j \in Key |-> TipValue(j)]' = [j \in Key |-> TipValue(j)]
  OBVIOUS
<1>6. AbstractBest' = AbstractBest /\ AbstractWorkBest' = AbstractWorkBest
  BY DEF AbstractBest, AbstractWorkBest, TipBestBlock
<1> QED BY <1>3, <1>4, <1>5, <1>6 DEF CV!Put
-----------------------------------------------------------------------------
LEMMA KeyIsKey == CV!Key = Key /\ \A k : CV!Values(k) = Values(k)
BY DEF CV!Key, Key, CV!Values, Values

(* One lemma per action: it preserves the invariant and is a step of        *)
(* CoinsView or none.                                                       *)
AbstractStep == [CV!AbstractNext]_CV!abstractVars

LEMMA PutIsStep ==
    ASSUME NEW k \in Key, NEW v \in Values(k), CV!Put(k, v)
    PROVE  AbstractStep
BY KeyIsKey DEF AbstractStep, CV!AbstractNext

LEMMA OpenViewStep ==
    ASSUME IInv, OpenView PROVE IInv' /\ AbstractStep
<1>1. EmptyCache \in Cache /\ \A k \in Key : EmptyCache[k] = NoEntry
  BY DEF EmptyCache, Cache
<1>2. TypeOK'
  BY <1>1 DEF IInv, TypeOK, OpenView
<1>3. \A k \in Key : TipValue(k)' = TipValue(k)
  BY Zenon DEF OpenView, TipValue
<1>4. EntriesConsistent' /\ NoLogicError'
  BY <1>1, <1>3 DEF IInv, EntriesConsistent, NoLogicError, OpenView, EntryOK
<1>5. view' # NoView
  BY <1>1, NoEntryAssumption DEF OpenView
<1>6. AbstractWork = NoView /\ AbstractWork' = [k \in Key |-> TipValue(k)]
  <2>1. \A k \in Key : ViewValue(k)' = TipValue(k)
    BY <1>1, <1>3 DEF OpenView, ViewValue, Lookup
  <2> QED BY <1>5, <2>1 DEF AbstractWork, OpenView
<1>7. [k \in Key |-> TipValue(k)]' = [k \in Key |-> TipValue(k)]
  BY <1>3
<1>8. AbstractBest' = AbstractBest /\ AbstractWorkBest' = AbstractBest
  BY DEF AbstractBest, AbstractWorkBest, TipBestBlock, OpenView
<1>9. CV!Begin
  BY <1>6, <1>7, <1>8 DEF CV!Begin
<1> QED BY <1>2, <1>4, <1>9 DEF IInv, AbstractStep, CV!AbstractNext

LEMMA ViewFetchStep ==
    ASSUME IInv, NEW o \in Outpoint, ViewFetch(o) PROVE IInv' /\ AbstractStep
<1> DEFINE e == FetchCoin(view[o], TipValue(o))
<1>1. /\ view # NoView /\ o \in Key /\ view[o] \in Slot /\ TipValue(o) \in Values(o)
      /\ ViewValue(o) \in Values(o) /\ EntryOK(o, view[o], TipValue(o))
  BY StateFacts DEF ViewFetch, IInv, EntriesConsistent
<1>2. /\ e \in Slot /\ EntryOK(o, e, TipValue(o))
      /\ Lookup(e, TipValue(o)) = ViewValue(o)
  BY <1>1, FetchCoinOK DEF ViewValue
<1>3. /\ tip' \in Cache
      /\ \A j \in Key : EntryOK(j, tip'[j], db'[j])
      /\ \A j \in Key : TipValue(j)' = TipValue(j)
  BY <1>1, TipAfterFetchOK DEF ViewFetch
<1>4. view' = [view EXCEPT ![o] = e] /\ UNCHANGED <<db, dbBest, tipBest, viewBest, threw>>
  BY DEF ViewFetch
<1> HIDE DEF e
<1>5. /\ IInv' /\ view' # NoView /\ ViewValue(o)' = ViewValue(o)
      /\ \A j \in Key \ {o} : ViewValue(j)' = ViewValue(j)
  BY Zenon, <1>1, <1>2, <1>3, <1>4, ViewStepOK
<1> QED BY <1>1, <1>3, <1>4, <1>5, ViewStepAbstract, PutIsStep

LEMMA ViewAddStep ==
    ASSUME IInv, NEW o \in Outpoint, NEW c \in Coin, NEW w \in BOOLEAN, ViewAdd(o, c, w) PROVE IInv' /\ AbstractStep
<1> DEFINE e == AddCoin(view[o], c, w)
<1>1. /\ view # NoView /\ o \in Key /\ view[o] \in Slot /\ TipValue(o) \in Values(o)
      /\ ViewValue(o) \in Values(o) /\ EntryOK(o, view[o], TipValue(o))
  BY StateFacts DEF ViewAdd, IInv, EntriesConsistent
<1>0. (w \/ Lookup(view[o], TipValue(o)) = Null) /\ ~AddCoinThrows(view[o], w)
  BY <1>1, AddCoinOK DEF ViewAdd, ViewValue
<1>2. /\ e \in Slot /\ EntryOK(o, e, TipValue(o))
      /\ Lookup(e, TipValue(o)) = c /\ c \in Values(o)
  BY <1>0, <1>1, AddCoinOK DEF Values
<1>3. /\ tip' \in Cache
      /\ \A j \in Key : EntryOK(j, tip'[j], db'[j])
      /\ \A j \in Key : TipValue(j)' = TipValue(j)
  BY DEF ViewAdd, IInv, TypeOK, EntriesConsistent, TipValue
<1>4. view' = [view EXCEPT ![o] = e] /\ UNCHANGED <<db, dbBest, tipBest, viewBest, threw>>
  BY <1>0 DEF ViewAdd
<1> HIDE DEF e
<1>5. /\ IInv' /\ view' # NoView /\ ViewValue(o)' = c
      /\ \A j \in Key \ {o} : ViewValue(j)' = ViewValue(j)
  BY Zenon, <1>1, <1>2, <1>3, <1>4, ViewStepOK
<1> QED BY <1>1, <1>2, <1>3, <1>4, <1>5, ViewStepAbstract, PutIsStep

LEMMA ViewSpendStep ==
    ASSUME IInv, NEW o \in Outpoint, ViewSpend(o) PROVE IInv' /\ AbstractStep
<1> DEFINE e == SpendCoin(FetchCoin(view[o], TipValue(o)))
<1>1. /\ view # NoView /\ o \in Key /\ view[o] \in Slot /\ TipValue(o) \in Values(o)
      /\ ViewValue(o) \in Values(o) /\ EntryOK(o, view[o], TipValue(o))
  BY StateFacts DEF ViewSpend, IInv, EntriesConsistent
<1>2. /\ e \in Slot /\ EntryOK(o, e, TipValue(o))
      /\ Lookup(e, TipValue(o)) = Null /\ Null \in Values(o)
  BY <1>1, FetchCoinOK, SpendCoinOK DEF Values
<1>3. /\ tip' \in Cache
      /\ \A j \in Key : EntryOK(j, tip'[j], db'[j])
      /\ \A j \in Key : TipValue(j)' = TipValue(j)
  BY <1>1, TipAfterFetchOK DEF ViewSpend
<1>4. view' = [view EXCEPT ![o] = e] /\ UNCHANGED <<db, dbBest, tipBest, viewBest, threw>>
  BY DEF ViewSpend
<1> HIDE DEF e
<1>5. /\ IInv' /\ view' # NoView /\ ViewValue(o)' = Null
      /\ \A j \in Key \ {o} : ViewValue(j)' = ViewValue(j)
  BY Zenon, <1>1, <1>2, <1>3, <1>4, ViewStepOK
<1> QED BY <1>1, <1>2, <1>3, <1>4, <1>5, ViewStepAbstract, PutIsStep

LEMMA ViewIsPeginSpentStep ==
    ASSUME IInv, NEW p \in Pegin, ViewIsPeginSpent(p) PROVE IInv' /\ AbstractStep
<1> DEFINE e == IsPeginSpent(view[p], TipValue(p))
<1>1. /\ view # NoView /\ p \in Key /\ view[p] \in Slot /\ TipValue(p) \in Values(p)
      /\ ViewValue(p) \in Values(p) /\ EntryOK(p, view[p], TipValue(p))
  BY StateFacts DEF ViewIsPeginSpent, IInv, EntriesConsistent
<1>2. /\ e \in Slot /\ EntryOK(p, e, TipValue(p))
      /\ Lookup(e, TipValue(p)) = ViewValue(p) /\ ViewValue(p) \in Values(p)
  BY <1>1, IsPeginSpentOK DEF ViewValue
<1>3. /\ tip' \in Cache
      /\ \A j \in Key : EntryOK(j, tip'[j], db'[j])
      /\ \A j \in Key : TipValue(j)' = TipValue(j)
  BY <1>1, TipAfterPeginReadOK DEF ViewIsPeginSpent
<1>4. view' = [view EXCEPT ![p] = e] /\ UNCHANGED <<db, dbBest, tipBest, viewBest, threw>>
  BY DEF ViewIsPeginSpent
<1> HIDE DEF e
<1>5. /\ IInv' /\ view' # NoView /\ ViewValue(p)' = ViewValue(p)
      /\ \A j \in Key \ {p} : ViewValue(j)' = ViewValue(j)
  BY Zenon, <1>1, <1>2, <1>3, <1>4, ViewStepOK
<1> QED BY <1>1, <1>2, <1>3, <1>4, <1>5, ViewStepAbstract, PutIsStep

LEMMA ViewSetPeginSpentStep ==
    ASSUME IInv, NEW p \in Pegin, NEW v \in {Claimed, Null}, ViewSetPeginSpent(p, v) PROVE IInv' /\ AbstractStep
<1> DEFINE e == SetPeginSpent(view[p], TipValue(p), v)
<1>1. /\ view # NoView /\ p \in Key /\ view[p] \in Slot /\ TipValue(p) \in Values(p)
      /\ ViewValue(p) \in Values(p) /\ EntryOK(p, view[p], TipValue(p))
  BY StateFacts DEF ViewSetPeginSpent, IInv, EntriesConsistent
<1>2. /\ e \in Slot /\ EntryOK(p, e, TipValue(p))
      /\ Lookup(e, TipValue(p)) = v /\ v \in Values(p)
  BY <1>1, SetPeginSpentOK, KeysAssumption DEF Values
<1>3. /\ tip' \in Cache
      /\ \A j \in Key : EntryOK(j, tip'[j], db'[j])
      /\ \A j \in Key : TipValue(j)' = TipValue(j)
  BY <1>1, TipAfterPeginReadOK DEF ViewSetPeginSpent
<1>4. view' = [view EXCEPT ![p] = e] /\ UNCHANGED <<db, dbBest, tipBest, viewBest, threw>>
  BY DEF ViewSetPeginSpent
<1> HIDE DEF e
<1>5. /\ IInv' /\ view' # NoView /\ ViewValue(p)' = v
      /\ \A j \in Key \ {p} : ViewValue(j)' = ViewValue(j)
  BY Zenon, <1>1, <1>2, <1>3, <1>4, ViewStepOK
<1> QED BY <1>1, <1>2, <1>3, <1>4, <1>5, ViewStepAbstract, PutIsStep

LEMMA BestBlockSteps ==
    ASSUME IInv, ViewGetBestBlock \/ \E b \in Block : ViewSetBestBlock(b)
    PROVE  IInv' /\ AbstractStep
<1>1. /\ view # NoView /\ UNCHANGED <<db, dbBest, tip, view, threw>>
      /\ tipBest' \in Block \cup {Null} /\ viewBest' \in Block
  BY DEF ViewGetBestBlock, ViewSetBestBlock, IInv, TypeOK, TipBestBlock
<1>2. (\A k \in Key : TipValue(k)' = TipValue(k)) /\ (\A k \in Key : ViewValue(k)' = ViewValue(k))
  BY <1>1 DEF TipValue, ViewValue
<1>3. IInv'
  BY <1>1, <1>2 DEF IInv, TypeOK, EntriesConsistent, NoLogicError
<1>4. AbstractWork' = AbstractWork /\ AbstractWork # NoView
  <2>1. AbstractWork \in [Key -> Value]
    BY <1>1, StateFacts, ValuesAreValues DEF AbstractWork
  <2> QED BY <1>1, <1>2, <2>1, NoEntryAssumption DEF AbstractWork
<1>5. [k \in Key |-> TipValue(k)]' = [k \in Key |-> TipValue(k)]
  BY <1>2
<1>6. AbstractBest' = AbstractBest
  BY <1>1, KeysAssumption DEF AbstractBest, TipBestBlock, ViewGetBestBlock, ViewSetBestBlock, IInv, TypeOK
<1>7. AbstractWorkBest' = viewBest'
  BY <1>1, KeysAssumption DEF AbstractWorkBest
<1>8. CV!MoveBest(viewBest')
  BY <1>4, <1>5, <1>6, <1>7 DEF CV!MoveBest
<1> QED BY <1>1, <1>3, <1>8 DEF AbstractStep, CV!AbstractNext

LEMMA ViewFlushStep ==
    ASSUME IInv, ViewFlush PROVE IInv' /\ AbstractStep
<1>1. view # NoView /\ view \in Cache /\ tip \in Cache
  BY DEF ViewFlush, IInv, TypeOK
<1>2. ~BatchWriteThrows(tip, view)
  <2> SUFFICES ASSUME NEW o \in Outpoint,
                      view[o] # NoEntry, view[o].fresh, tip[o] # NoEntry, tip[o].val # Null
               PROVE  FALSE
    BY DEF BatchWriteThrows
  <2> QED BY <1>1, StateFacts DEF IInv, EntriesConsistent, EntryOK, TipValue, Lookup
<1>3. /\ tip' = BatchWrite(tip, view) /\ tipBest' = viewBest /\ view' = NoView
      /\ viewBest' = Null /\ UNCHANGED <<db, dbBest, threw>> /\ viewBest # Null
  BY Zenon, <1>2 DEF ViewFlush
<1>4. ASSUME NEW k \in Key
      PROVE  /\ tip'[k] \in Slot /\ EntryOK(k, tip'[k], db[k])
             /\ Lookup(tip'[k], db[k]) = ViewValue(k)
  <2>1. tip'[k] = MergeEntry(tip[k], view[k])
    BY <1>3 DEF BatchWrite
  <2>2. /\ tip[k] \in Slot /\ view[k] \in Slot /\ db[k] \in Values(k)
        /\ EntryOK(k, tip[k], db[k]) /\ EntryOK(k, view[k], Lookup(tip[k], db[k]))
    BY <1>1, StateFacts DEF IInv, EntriesConsistent, TipValue
  <2> QED BY <2>1, <2>2, MergeEntryOK DEF ViewValue, TipValue
<1>5. tip' \in Cache
  BY <1>3, <1>4 DEF BatchWrite, Cache, Slot
<1>6. IInv'
  BY <1>3, <1>4, <1>5 DEF IInv, TypeOK, EntriesConsistent, NoLogicError
<1>7. [k \in Key |-> TipValue(k)]' = [k \in Key |-> ViewValue(k)]
  BY <1>3, <1>4 DEF TipValue
<1>8. AbstractWork = [k \in Key |-> ViewValue(k)] /\ AbstractWork' = NoView
  BY <1>1, <1>3 DEF AbstractWork
<1>9. AbstractWork # NoView
  BY <1>1, <1>8, StateFacts, ValuesAreValues, NoEntryAssumption
<1>10. AbstractBest' = AbstractWorkBest /\ AbstractWorkBest' = AbstractWorkBest
  BY <1>3 DEF AbstractBest, AbstractWorkBest, TipBestBlock
<1>11. CV!Commit
  BY <1>7, <1>8, <1>9, <1>10 DEF CV!Commit
<1> QED BY <1>6, <1>11 DEF AbstractStep, CV!AbstractNext

LEMMA ViewDropStep ==
    ASSUME IInv, ViewDrop PROVE IInv' /\ AbstractStep
<1>1. \A k \in Key : TipValue(k)' = TipValue(k)
  BY DEF ViewDrop, TipValue
<1>2. IInv'
  BY <1>1 DEF ViewDrop, IInv, TypeOK, EntriesConsistent, NoLogicError
<1>3. AbstractWork # NoView /\ AbstractWork' = NoView
  <2>1. view # NoView => [k \in Key |-> ViewValue(k)] \in [Key -> Value]
    BY StateFacts, ValuesAreValues
  <2> QED BY <2>1, NoEntryAssumption DEF AbstractWork, ViewDrop
<1>4. AbstractBest' = AbstractBest /\ AbstractWorkBest' = AbstractBest
  BY DEF ViewDrop, AbstractBest, AbstractWorkBest, TipBestBlock
<1>5. [k \in Key |-> TipValue(k)]' = [k \in Key |-> TipValue(k)]
  BY <1>1
<1>6. CV!Drop
  BY <1>3, <1>4, <1>5 DEF CV!Drop
<1> QED BY <1>2, <1>6 DEF AbstractStep, CV!AbstractNext

(* A step that leaves every answer of CoinsTip as it was, with no view      *)
(* open, is invisible.                                                      *)
LEMMA InvisibleStep ==
    ASSUME view = NoView, view' = NoView, viewBest' = viewBest, AbstractBest' = AbstractBest,
           \A k \in Key : TipValue(k)' = TipValue(k)
    PROVE  AbstractStep
<1>1. AbstractWork' = AbstractWork /\ AbstractWorkBest' = AbstractWorkBest
  BY DEF AbstractWork, AbstractWorkBest, AbstractBest
<1>2. [k \in Key |-> TipValue(k)]' = [k \in Key |-> TipValue(k)]
  OBVIOUS
<1> QED BY <1>1, <1>2 DEF AbstractStep, CV!abstractVars

LEMMA TipReadSteps ==
    ASSUME IInv, \/ \E o \in Outpoint : TipFetch(o)
                 \/ \E p \in Pegin : TipIsPeginSpent(p)
    PROVE  IInv' /\ AbstractStep
<1>1. /\ tip' \in Cache
      /\ \A j \in Key : EntryOK(j, tip'[j], db'[j])
      /\ \A j \in Key : TipValue(j)' = TipValue(j)
  <2>1. ASSUME NEW o \in Outpoint, TipFetch(o) PROVE <1>1!:
    <3>1. FetchCoin(tip[o], db[o]) \in Slot /\ o \in Key
      BY StateFacts, FetchCoinOK DEF IInv, EntriesConsistent
    <3> QED BY Zenon, <2>1, <3>1, TipReadOK DEF TipFetch
  <2>2. ASSUME NEW p \in Pegin, TipIsPeginSpent(p) PROVE <1>1!:
    <3>1. IsPeginSpent(tip[p], db[p]) \in Slot /\ p \in Key
      BY StateFacts, IsPeginSpentOK DEF IInv, EntriesConsistent
    <3> QED BY Zenon, <2>2, <3>1, TipReadOK DEF TipIsPeginSpent
  <2> QED BY Zenon, <2>1, <2>2
<1>2. view = NoView /\ UNCHANGED <<db, dbBest, tipBest, view, viewBest, threw>>
  BY DEF TipFetch, TipIsPeginSpent
<1>3. IInv'
  BY <1>1, <1>2 DEF IInv, TypeOK, EntriesConsistent, NoLogicError
<1>4. AbstractBest' = AbstractBest
  BY <1>2 DEF AbstractBest, TipBestBlock
<1> QED BY <1>1, <1>2, <1>3, <1>4, InvisibleStep

LEMMA TipUncacheStep ==
    ASSUME IInv, NEW o \in Outpoint, TipUncache(o) PROVE IInv' /\ AbstractStep
<1>1. o \in Key /\ tip \in Cache /\ tip[o].val = db[o]
  BY StateFacts DEF TipUncache, IInv, TypeOK, EntriesConsistent, EntryOK
<1>2. tip' \in Cache /\ tip'[o] = NoEntry /\ \A j \in Key \ {o} : tip'[j] = tip[j]
  BY <1>1 DEF TipUncache, Cache
<1>3. /\ view = NoView /\ tip[o] # NoEntry
      /\ UNCHANGED <<db, dbBest, tipBest, view, viewBest, threw>>
  BY Zenon DEF TipUncache
<1>4. \A j \in Key : EntryOK(j, tip'[j], db'[j])
  BY Zenon, <1>2, <1>3 DEF IInv, EntriesConsistent, EntryOK
<1>5. \A j \in Key : TipValue(j)' = TipValue(j)
  BY <1>1, <1>2, <1>3 DEF TipValue, Lookup
<1>6. IInv'
  BY <1>2, <1>3, <1>4 DEF IInv, TypeOK, EntriesConsistent, NoLogicError
<1>7. AbstractBest' = AbstractBest
  BY <1>3 DEF AbstractBest, TipBestBlock
<1> QED BY <1>3, <1>5, <1>6, <1>7, InvisibleStep

LEMMA TipFlushStep ==
    ASSUME IInv, TipFlush PROVE IInv' /\ AbstractStep
<1>1. EmptyCache \in Cache /\ \A k \in Key : EmptyCache[k] = NoEntry
  BY DEF EmptyCache, Cache
<1>2. ASSUME NEW k \in Key PROVE db'[k] = TipValue(k)
  BY Zenon, StateFacts DEF TipFlush, DBBatchWrite, TipValue, Lookup, IInv, EntriesConsistent, EntryOK
<1>3. db' \in [Key -> Value] /\ \A k \in Key : db'[k] \in Values(k)
  BY <1>2, StateFacts, ValuesAreValues DEF TipFlush, DBBatchWrite
<1>4. \A k \in Key : TipValue(k)' = TipValue(k)
  BY <1>1, <1>2 DEF TipFlush, TipValue, Lookup
<1>5. TipBestBlock \in Block
  BY Zenon DEF IInv, TypeOK, TipBestBlock
<1>6. IInv'
  BY <1>1, <1>3, <1>5 DEF TipFlush, IInv, TypeOK, EntriesConsistent, EntryOK, NoLogicError
<1>7. AbstractBest' = AbstractBest
  BY <1>5, KeysAssumption DEF TipFlush, AbstractBest, TipBestBlock
<1> QED BY Zenon, <1>4, <1>6, <1>7, InvisibleStep DEF TipFlush

(* Every step preserves the invariant and is a step of CoinsView or none. *)
LEMMA Step ==
    ASSUME IInv, [Next]_vars PROVE IInv' /\ AbstractStep
<1>1. CASE OpenView
  BY <1>1, OpenViewStep
<1>2. CASE \E o \in Outpoint : ViewFetch(o)
  BY <1>2, ViewFetchStep
<1>3. CASE \E o \in Outpoint : ViewSpend(o)
  BY <1>3, ViewSpendStep
<1>4. CASE \/ \E o \in Outpoint : TipFetch(o)
           \/ \E p \in Pegin : TipIsPeginSpent(p)
  BY <1>4, TipReadSteps
<1>5. CASE \E o \in Outpoint : TipUncache(o)
  BY <1>5, TipUncacheStep
<1>6. CASE \E o \in Outpoint, c \in Coin, w \in BOOLEAN : ViewAdd(o, c, w)
  BY <1>6, ViewAddStep
<1>7. CASE \E p \in Pegin : ViewIsPeginSpent(p)
  BY <1>7, ViewIsPeginSpentStep
<1>8. CASE \E p \in Pegin, v \in {Claimed, Null} : ViewSetPeginSpent(p, v)
  BY <1>8, ViewSetPeginSpentStep
<1>9. CASE ViewGetBestBlock \/ \E b \in Block : ViewSetBestBlock(b)
  BY <1>9, BestBlockSteps
<1>10. CASE ViewFlush
  BY <1>10, ViewFlushStep
<1>11. CASE ViewDrop
  BY <1>11, ViewDropStep
<1>12. CASE TipFlush
  BY <1>12, TipFlushStep
<1>13. CASE UNCHANGED vars
  <2>1. (\A k \in Key : TipValue(k)' = TipValue(k)) /\ (\A k \in Key : ViewValue(k)' = ViewValue(k))
    BY <1>13 DEF vars, TipValue, ViewValue
  <2>2. IInv'
    BY <1>13, <2>1 DEF vars, IInv, TypeOK, EntriesConsistent, NoLogicError
  <2>3. UNCHANGED <<AbstractWork, AbstractBest, AbstractWorkBest>>
    BY <1>13, <2>1 DEF vars, AbstractWork, AbstractBest, AbstractWorkBest, TipBestBlock
  <2>4. [k \in Key |-> TipValue(k)]' = [k \in Key |-> TipValue(k)]
    BY <2>1
  <2> QED BY <2>2, <2>3, <2>4 DEF AbstractStep, CV!abstractVars
<1> QED BY <1>1, <1>2, <1>3, <1>4, <1>5, <1>6, <1>7, <1>8, <1>9, <1>10, <1>11, <1>12, <1>13 DEF Next

LEMMA InitOK ==
    ASSUME Init PROVE IInv /\ CV!AbstractInit
<1>1. EmptyCache \in Cache /\ \A k \in Key : EmptyCache[k] = NoEntry
  BY DEF EmptyCache, Cache
<1>2. IInv
  BY Zenon, <1>1 DEF Init, IInv, TypeOK, EntriesConsistent, EntryOK, NoLogicError
<1>3. \A k \in Key : TipValue(k) = db[k]
  BY <1>1 DEF Init, TipValue, Lookup
<1>4. [k \in Key |-> TipValue(k)] = db
  BY <1>3 DEF Init
<1>5. db \in CV!CoinsMap
  BY KeyIsKey DEF Init, CV!CoinsMap, Value
<1>6. AbstractWork = NoView /\ AbstractBest = dbBest /\ AbstractWorkBest = dbBest
  BY DEF Init, AbstractWork, AbstractBest, AbstractWorkBest, TipBestBlock
<1> QED BY <1>2, <1>4, <1>5, <1>6 DEF CV!AbstractInit, Init

(* In every reachable state the flags of both caches are consistent with    *)
(* what lies below (CCoinsCacheEntry) and no logic_error was thrown by      *)
(* AddCoin or BatchWrite.                                                   *)
THEOREM CacheInvariant == Spec => [](TypeOK /\ EntriesConsistent /\ NoLogicError)
<1>1. Init => IInv
  BY InitOK
<1>2. IInv /\ [Next]_vars => IInv'
  BY Step
<1> QED BY <1>1, <1>2, PTL DEF Spec, IInv

(* The caches over the database behave as the one map of CoinsView: reads,  *)
(* uncaching, FRESH shortcuts and the flush to disk are invisible, and a    *)
(* view is committed as a whole together with its best block.               *)
THEOREM CacheRefinesView == Spec => ImplementsCoinsView
<1>1. Init => IInv /\ CV!AbstractInit
  BY InitOK
<1>2. IInv /\ [Next]_vars => IInv' /\ [CV!AbstractNext]_CV!abstractVars
  BY Step DEF AbstractStep
<1> QED BY <1>1, <1>2, PTL DEF Spec, ImplementsCoinsView, CV!AbstractSpec

=============================================================================
