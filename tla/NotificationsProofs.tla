------------------------- MODULE NotificationsProofs -------------------------
(***************************************************************************)
(* Notifications for any number of threads, subscribers, callbacks and     *)
(* registrations: callbacks run one at a time and in order, list entries   *)
(* live exactly as long as they are used, a subscriber that stays is       *)
(* reached, and SyncWithValidationInterfaceQueue drains the queue.         *)
(***************************************************************************)
EXTENDS Notifications, FiniteSetTheorems, WellFoundedInduction, TLAPS

(* The threads that run callbacks. *)
Worker == Server \cup {Flusher}
Busy(t) == pc[t] \in {"call", "visit", "end"}

(* Only workers process the queue, and the flusher only in EmptyQueue. *)
Places ==
    /\ \A p \in Producer : pc[p] \notin {"process", "end"}
    /\ flush # "run" => pc[Flusher] = "idle"

(* m_are_callbacks_running is set while a worker runs a callback. *)
Exclusive ==
    /\ \A t, u \in Worker : Busy(t) /\ Busy(u) => t = u
    /\ \A t \in Worker : Busy(t) => running

(* The callback that runs is the one after those that have finished. *)
Current ==
    \A t \in Thread :
        /\ cur[t] # None <=> t \in Worker /\ pc[t] \in {"call", "visit"}
        /\ cur[t] # None => cur[t] = Len(done) + 1

Idle == \A t \in Thread : cur[t] = None
Started == IF Idle THEN Len(done) ELSE Len(done) + 1

(* Finished, running and pending callbacks are all those added, in order. *)
Order ==
    /\ \A i \in 1..Len(done) : done[i] = i
    /\ events = Started + Len(pending)
    /\ \A i \in 1..Len(pending) : pending[i] = Started + i

Awaiting == \A p \in Producer : pc[p] = "await" => awaited[p] # None

QueueInv == Places /\ Exclusive /\ Current /\ Order /\ Awaiting

(* A thread refers to an entry exactly while it visits it. *)
Visiting == \A t \in Thread : it[t] # None <=> pc[t] = "visit"

(* A number is given once. *)
Numbered == \A i \in list : i <= entries

(* What a visit must still reach lies ahead of it. *)
Ahead ==
    \A t \in Thread :
        /\ owed[t] \subseteq map
        /\ pc[t] = "visit" => \A i \in owed[t] \ seen[t] : i > it[t]

ListInv == Visiting /\ EntriesCounted /\ Numbered /\ Ahead

IndInv == TypeOK /\ QueueInv /\ ListInv
-----------------------------------------------------------------------------
(* The list *)

(* A set of entries has a first one, which First returns. *)
LEMMA FirstSound ==
    ASSUME NEW S \in SUBSET Entry
    PROVE  /\ First(S) = None <=> S = {}
           /\ S # {} => First(S) \in S /\ \A j \in S : First(S) <= j
<1>1. S \subseteq Nat /\ None \notin S
  <2>1. Entry \subseteq Nat
    BY BoundAssumption DEF Entry
  <2> QED BY <2>1, BoundAssumption
<1>2. ASSUME S # {} PROVE \E i \in S : \A j \in S : i <= j
  <2>1. PICK i \in S : \A j \in S : <<j, i>> \notin OpToRel(<, Nat)
    BY <1>1, <1>2, NatLessThanWellFounded, WFMin, Zenon
  <2>2. \A j \in S : ~(j < i)
    BY <1>1, <2>1, Zenon DEF OpToRel
  <2> QED BY <1>1, <2>2
<1> QED BY Zenon, <1>1, <1>2 DEF First

LEMMA ThreadsFinite == \A S \in SUBSET Thread : IsFiniteSet(S) /\ Cardinality(S) \in Nat
<1>1. IsFiniteSet(Thread)
  BY ThreadAssumption, FS_Union, FS_Singleton DEF Thread
<1> QED BY <1>1, FS_Subset, FS_CardinalityType, Zenon

(* The threads that visit entry k, and how they change when thread t goes to entry j. *)
Executions(f, k) == Cardinality({u \in Thread : f[u] = k})

LEMMA ExecutionsMove ==
    ASSUME it \in [Thread -> Entry \cup {None}], NEW t \in Thread, NEW j \in Entry \cup {None},
           it' = [it EXCEPT ![t] = j], NEW k \in Entry
    PROVE  /\ Executions(it, k) \in Nat
           /\ k # j /\ it[t] # k => Executions(it', k) = Executions(it, k)
           /\ k # j /\ it[t] = k =>
                  Executions(it', k) \in Nat /\ Executions(it, k) = Executions(it', k) + 1
           /\ k = j /\ it[t] # k => Executions(it', k) = Executions(it, k) + 1
<1> DEFINE F == {u \in Thread : it[u] = k}
           G == {u \in Thread : it'[u] = k}
<1>1. IsFiniteSet(F) /\ Cardinality(F) \in Nat /\ IsFiniteSet(G) /\ Cardinality(G) \in Nat
  BY ThreadsFinite
<1>2. ASSUME k # j, it[t] # k PROVE G = F
  BY <1>2
<1>3. ASSUME k # j, it[t] = k PROVE Cardinality(F) = Cardinality(G) + 1
  <2>1. t \notin G /\ F = G \cup {t}
    BY <1>3
  <2> QED BY <1>1, <2>1, FS_AddElement, Zenon
<1>4. ASSUME k = j, it[t] # k PROVE Cardinality(G) = Cardinality(F) + 1
  <2>1. t \notin F /\ G = F \cup {t}
    BY <1>4
  <2> QED BY <1>1, <2>1, FS_AddElement, Zenon
<1>5. Executions(it, k) = Cardinality(F) /\ Executions(it', k) = Cardinality(G)
  BY DEF Executions
<1> HIDE DEF F, G
<1> QED BY <1>1, <1>2, <1>3, <1>4, <1>5

(* The list is left alone. *)
LEMMA ListFrame ==
    ASSUME ListInv, UNCHANGED <<list, count, map, entries, it, owed, seen>>,
           \A t \in Thread : pc'[t] = "visit" <=> pc[t] = "visit"
    PROVE  ListInv'
BY DEF ListInv, Visiting, EntriesCounted, Numbered, Ahead

(* The queue is left alone. *)
LEMMA QueueFrame ==
    ASSUME QueueInv, UNCHANGED <<pc, cur, pending, running, events, awaited, done, flush>>
    PROVE  QueueInv'
BY DEF QueueInv, Places, Exclusive, Busy, Current, Order, Started, Idle, Awaiting
-----------------------------------------------------------------------------
(* Register, Unregister *)

LEMMA RegisterInv ==
    ASSUME IndInv, NEW s \in Subscriber, Register(s)
    PROVE  IndInv'
<1> DEFINE n == entries + 1
<1>1. /\ entries < MaxEntries /\ entries' = n /\ list' = list \cup {n} /\ map' = map \cup {n}
      /\ callbacks' = [callbacks EXCEPT ![n] = s] /\ count' = [count EXCEPT ![n] = 1]
  BY DEF Register
<1>2. UNCHANGED <<pc, cur, pending, running, events, awaited, tasks, stop, done, it, owed, seen, flush>>
  BY DEF Register, client, visits
<1>3. n \in Entry /\ n \in 0..MaxEntries /\ n \notin list /\ list \subseteq Nat
  <2>1. entries \in 0..MaxEntries /\ list \subseteq 1..MaxEntries
    BY DEF IndInv, TypeOK, Entry
  <2>2. \A i \in list : i <= entries
    BY DEF IndInv, ListInv, Numbered
  <2> QED BY <1>1, <2>1, <2>2, BoundAssumption DEF Entry
<1>4. count[n] = 0 /\ n \notin map /\ Cardinality({t \in Thread : it[t] = n}) = 0
  <2>1. /\ count[n] = Cardinality({t \in Thread : it[t] = n}) + (IF n \in map THEN 1 ELSE 0)
        /\ count[n] = 0
    BY <1>3 DEF IndInv, ListInv, EntriesCounted
  <2>2. Cardinality({t \in Thread : it[t] = n}) \in Nat
    BY ThreadsFinite
  <2> QED BY <2>1, <2>2
<1> HIDE DEF n
<1>5. TypeOK'
  BY <1>1, <1>2, <1>3 DEF IndInv, TypeOK
<1>6. QueueInv'
  BY <1>2, QueueFrame DEF IndInv
<1>7. EntriesCounted'
  <2>1. count \in [Entry -> Nat]
    BY DEF IndInv, TypeOK
  <2>2. ASSUME NEW i \in Entry
        PROVE  count'[i] = Cardinality({t \in Thread : it[t] = i}) + (IF i \in map' THEN 1 ELSE 0)
    <3>1. CASE i = n
      BY <1>1, <1>3, <1>4, <2>1, <3>1
    <3>2. CASE i # n
      BY <1>1, <2>1, <3>2 DEF IndInv, ListInv, EntriesCounted
    <3> QED BY <3>1, <3>2
  <2>3. list' = {i \in Entry : count'[i] # 0}
    BY <1>1, <1>3, <2>1 DEF IndInv, ListInv, EntriesCounted
  <2> QED BY <1>2, <2>2, <2>3 DEF EntriesCounted
<1>8. Numbered'
  <2>1. \A i \in list : i <= n
    BY <1>3 DEF IndInv, ListInv, Numbered, TypeOK, n
  <2> QED BY <1>1, <1>3, <2>1 DEF Numbered
<1>9. Visiting' /\ Ahead'
  BY <1>1, <1>2 DEF IndInv, ListInv, Visiting, Ahead
<1> QED BY <1>5, <1>6, <1>7, <1>8, <1>9 DEF IndInv, ListInv

LEMMA UnregisterInv ==
    ASSUME IndInv, NEW i \in Entry, Unregister(i)
    PROVE  IndInv'
<1>1. /\ i \in map /\ map' = map \ {i}
      /\ count' = [count EXCEPT ![i] = @ - 1]
      /\ list' = IF count'[i] = 0 THEN list \ {i} ELSE list
      /\ owed' = [t \in Thread |-> owed[t] \ {i}]
  BY DEF Unregister
<1>2. UNCHANGED <<pc, cur, pending, running, events, awaited, tasks, stop, done, callbacks, entries,
                  it, seen, flush>>
  BY DEF Unregister, client
<1>3. /\ count \in [Entry -> Nat] /\ list = {j \in Entry : count[j] # 0}
      /\ \A j \in Entry : count[j] = Cardinality({t \in Thread : it[t] = j}) + (IF j \in map THEN 1 ELSE 0)
      /\ owed \in [Thread -> SUBSET Entry]
  BY DEF IndInv, TypeOK, ListInv, EntriesCounted
<1>4. \A j \in Entry : Cardinality({t \in Thread : it[t] = j}) \in Nat
  BY ThreadsFinite
<1>5. count[i] \in Nat /\ count[i] >= 1 /\ count' \in [Entry -> Nat]
  <2> DEFINE c == Cardinality({t \in Thread : it[t] = i})
  <2>1. count[i] = c + 1 /\ c \in Nat
    BY <1>1, <1>3, <1>4
  <2> HIDE DEF c
  <2>2. count[i] - 1 \in Nat /\ count[i] \in Nat /\ count[i] >= 1
    BY <2>1
  <2> QED BY <1>1, <1>3, <2>2
<1>6. TypeOK'
  BY <1>1, <1>2, <1>3, <1>5 DEF IndInv, TypeOK
<1>7. QueueInv'
  BY <1>2, QueueFrame DEF IndInv
<1>8. EntriesCounted'
  <2>1. ASSUME NEW j \in Entry
        PROVE  count'[j] = Cardinality({t \in Thread : it[t] = j}) + (IF j \in map' THEN 1 ELSE 0)
    BY <1>1, <1>3, <1>4
  <2>2. list' = {j \in Entry : count'[j] # 0}
    BY <1>1, <1>3, <1>5
  <2> QED BY <1>2, <2>1, <2>2 DEF EntriesCounted
<1>9. Visiting' /\ Numbered' /\ Ahead'
  BY <1>1, <1>2, <1>3 DEF IndInv, ListInv, Visiting, Numbered, Ahead
<1> QED BY <1>6, <1>7, <1>8, <1>9 DEF IndInv, ListInv
-----------------------------------------------------------------------------
(* Visits *)

LEMMA EventsNumbers ==
    Event \subseteq Nat \ {0} /\ Entry \subseteq Nat /\ None \notin Event /\ None \notin Entry
BY BoundAssumption DEF Event, Entry

(* At most one callback runs. *)
LEMMA OneCurrent ==
    ASSUME IndInv, NEW t \in Thread, cur[t] # None
    PROVE  \A u \in Thread : cur[u] # None => u = t
BY DEF IndInv, QueueInv, Current, Exclusive, Busy

(* A visit goes on, or it is the last and the callback ends. *)
LEMMA VisitQueue ==
    ASSUME IndInv, NEW t \in Thread, pc[t] \in {"call", "visit"}, NEW j \in Entry \cup {None},
           NEW cnt, NEW reached, Visit(t, j, cnt, reached),
           UNCHANGED <<pending, running, events, awaited, flush>>
    PROVE  QueueInv' /\ done' \in Seq(Event)
<1>1. /\ pc = [u \in Thread |-> pc[u]] /\ cur \in [Thread -> Event \cup {None}]
      /\ done \in Seq(Event) /\ Places /\ Exclusive /\ Current /\ Order /\ Awaiting
  BY DEF IndInv, TypeOK, QueueInv
<1>2. t = Flusher => flush = "run"
  BY <1>1 DEF Places
<1>3. CASE j # None
  <2>1. pc' = [pc EXCEPT ![t] = "visit"] /\ UNCHANGED <<done, cur>>
    BY <1>3 DEF Visit
  <2>2. Places' /\ Awaiting'
    BY <1>1, <1>2, <2>1 DEF Places, Awaiting, Thread
  <2>3. Exclusive' /\ Current'
    BY <1>1, <2>1 DEF Exclusive, Busy, Current, Worker, Thread
  <2>4. Order'
    BY <1>1, <2>1 DEF Order, Started, Idle
  <2> QED BY <1>1, <2>1, <2>2, <2>3, <2>4 DEF QueueInv
<1>4. CASE j = None /\ t \in Producer
  <2>1. pc' = [pc EXCEPT ![t] = "idle"] /\ done' = done /\ cur' = [cur EXCEPT ![t] = None]
    BY <1>4 DEF Visit
  <2>2. t \notin Worker
    BY <1>4, ThreadAssumption DEF Worker
  <2>3. cur' = cur
    BY <1>1, <2>1, <2>2 DEF Current
  <2>4. Places' /\ Awaiting'
    BY <1>1, <1>2, <2>1 DEF Places, Awaiting, Thread
  <2>5. Exclusive' /\ Current'
    BY <1>1, <2>1, <2>2, <2>3 DEF Exclusive, Busy, Current, Worker, Thread
  <2>6. Order'
    BY <1>1, <2>1, <2>3 DEF Order, Started, Idle
  <2> QED BY <1>1, <2>1, <2>4, <2>5, <2>6 DEF QueueInv
<1>5. CASE j = None /\ t \notin Producer
  <2>1. /\ pc' = [pc EXCEPT ![t] = "end"] /\ done' = Append(done, cur[t])
        /\ cur' = [cur EXCEPT ![t] = None]
    BY <1>5 DEF Visit
  <2>2. t \in Worker
    BY <1>5 DEF Worker, Thread
  <2>3. cur[t] # None /\ cur[t] \in Event /\ cur[t] = Len(done) + 1
    BY <1>1, <2>2 DEF Current
  <2>4. \A u \in Thread : cur'[u] = None
    BY <1>1, <2>1, <2>3, OneCurrent
  <2>5. Places' /\ Awaiting'
    BY <1>1, <1>2, <1>5, <2>1 DEF Places, Awaiting, Thread
  <2>6. Exclusive'
    BY ZenonT(30), <1>1, <2>1, <2>2 DEF Exclusive, Busy, Worker, Thread
  <2>7. Current'
    <3>1. ASSUME NEW u \in Worker PROVE pc'[u] \notin {"call", "visit"}
      BY <1>1, <2>1, <2>2 DEF Exclusive, Busy, Worker, Thread
    <3> QED BY <2>4, <3>1 DEF Current
  <2>8. /\ done' \in Seq(Event) /\ Len(done') = Len(done) + 1
        /\ \A i \in 1..Len(done) + 1 : done'[i] = IF i = Len(done) + 1 THEN cur[t] ELSE done[i]
    BY <1>1, <2>1, <2>3
  <2>9. Started' = Started
    BY <2>3, <2>4, <2>8 DEF Started, Idle
  <2>10. Order'
    BY <1>1, <2>3, <2>8, <2>9 DEF Order
  <2> QED BY <2>5, <2>6, <2>7, <2>8, <2>10 DEF QueueInv
<1> QED BY <1>3, <1>4, <1>5

(* The counts when thread t goes from its entry, if any, to entry j. *)
LEMMA VisitCounts ==
    ASSUME IndInv, NEW t \in Thread, NEW j \in list \cup {None}, j = None \/ j # it[t],
           NEW cnt, NEW reached, Visit(t, j, cnt, reached), map' = map,
           \/ it[t] = None /\ cnt = count /\ list' = list
           \/ /\ it[t] # None /\ cnt = [count EXCEPT ![it[t]] = @ - 1]
              /\ list' = IF cnt[it[t]] = 0 THEN list \ {it[t]} ELSE list
    PROVE  EntriesCounted' /\ count' \in [Entry -> Nat]
<1> DEFINE reg(k) == IF k \in map THEN 1 ELSE 0
<1>1. /\ count \in [Entry -> Nat] /\ it \in [Thread -> Entry \cup {None}]
      /\ list = {k \in Entry : count[k] # 0} /\ \A k \in Entry : count[k] = Executions(it, k) + reg(k)
  BY DEF IndInv, TypeOK, ListInv, EntriesCounted, Executions
<1>2. /\ it' = [it EXCEPT ![t] = j] /\ j \in Entry \cup {None}
      /\ count' = IF j = None THEN cnt ELSE [cnt EXCEPT ![j] = @ + 1]
  BY <1>1 DEF Visit
<1>3. ASSUME NEW k \in Entry
      PROVE  /\ Executions(it, k) \in Nat
             /\ k # j /\ it[t] # k => Executions(it', k) = Executions(it, k)
             /\ k # j /\ it[t] = k =>
                    Executions(it', k) \in Nat /\ Executions(it, k) = Executions(it', k) + 1
             /\ k = j /\ it[t] # k => Executions(it', k) = Executions(it, k) + 1
  BY Zenon, <1>1, <1>2, ExecutionsMove
<1>4. ASSUME NEW k \in Entry
      PROVE  /\ k # j /\ it[t] # k => count'[k] = count[k]
             /\ k # j /\ it[t] = k => count'[k] = count[k] - 1
             /\ k = j => count'[k] = count[k] + 1
  BY <1>1, <1>2, EventsNumbers
<1>5. ASSUME NEW k \in Entry PROVE count'[k] = Executions(it', k) + reg(k) /\ count'[k] \in Nat
  <2>1. count[k] = Executions(it, k) + reg(k) /\ reg(k) \in {0, 1} /\ count[k] \in Nat
    BY <1>1
  <2> HIDE DEF reg
  <2>2. CASE k # j /\ it[t] # k
    BY <1>3, <1>4, <2>1, <2>2
  <2>3. CASE k # j /\ it[t] = k
    BY <1>3, <1>4, <2>1, <2>3
  <2>4. CASE k = j
    BY <1>1, <1>3, <1>4, <2>1, <2>4, EventsNumbers
  <2> QED BY <2>2, <2>3, <2>4
<1>6. count' \in [Entry -> Nat]
  <2>1. DOMAIN count' = Entry /\ count' = [k \in Entry |-> count'[k]]
    BY <1>1, <1>2
  <2> QED BY <1>5, <2>1
<1>7. list' = {k \in Entry : count'[k] # 0}
  <2>1. CASE it[t] = None
    <3>1. \A k \in Entry : count'[k] # 0 <=> count[k] # 0
      BY <1>1, <1>4, <2>1, EventsNumbers
    <3> QED BY <1>1, <2>1, <3>1
  <2>2. CASE it[t] # None
    <3>1. it[t] \in Entry /\ j # it[t] /\ cnt[it[t]] = count[it[t]] - 1
      BY <1>1, <2>2
    <3>2. ASSUME NEW k \in Entry \ {it[t]} PROVE count'[k] # 0 <=> count[k] # 0
      <4>1. CASE k = j
        BY <1>1, <1>4, <4>1, EventsNumbers
      <4>2. CASE k # j
        BY <1>4, <4>2
      <4> QED BY <4>1, <4>2
    <3>3. count'[it[t]] = cnt[it[t]] /\ it[t] \in list
      BY <1>1, <1>3, <1>4, <1>5, <3>1
    <3> QED BY <1>1, <2>2, <3>1, <3>2, <3>3
  <2> QED BY <2>1, <2>2
<1> QED BY <1>5, <1>6, <1>7 DEF EntriesCounted, Executions

(* The state outside the queue and the list after a visit. *)
LEMMA VisitType ==
    ASSUME IndInv, NEW t \in Thread, NEW j \in Entry \cup {None},
           NEW cnt, NEW reached \in SUBSET Entry, Visit(t, j, cnt, reached),
           done' \in Seq(Event), count' \in [Entry -> Nat], list' \subseteq Entry,
           owed' \in [Thread -> SUBSET Entry],
           UNCHANGED <<pending, running, events, awaited, tasks, stop, callbacks, map, entries, flush>>
    PROVE  TypeOK'
<1>1. it' = [it EXCEPT ![t] = j] /\ it \in [Thread -> Entry \cup {None}]
  BY DEF Visit, IndInv, TypeOK
<1>2. seen' \in [Thread -> SUBSET Entry]
  <2>1. \E S \in SUBSET Entry : seen' = [seen EXCEPT ![t] = S]
    BY Zenon DEF Visit
  <2> QED BY <2>1 DEF IndInv, TypeOK
<1>3. cur' \in [Thread -> Event \cup {None}]
  BY DEF Visit, IndInv, TypeOK
<1>4. \E x \in {"idle", "end", "visit"} : pc' = [pc EXCEPT ![t] = x]
  BY DEF Visit
<1>5. it' \in [Thread -> Entry \cup {None}]
  BY <1>1
<1> QED BY ZenonT(30), <1>2, <1>3, <1>4, <1>5 DEF IndInv, TypeOK

(* A registered entry is in the list. *)
LEMMA MapListed == IndInv => map \subseteq list /\ list \subseteq Entry
<1> SUFFICES ASSUME IndInv, NEW i \in map PROVE i \in list
  BY DEF IndInv, TypeOK
<1> DEFINE c == Cardinality({t \in Thread : it[t] = i})
<1>1. i \in Entry /\ count[i] = c + 1 /\ list = {k \in Entry : count[k] # 0}
  BY DEF IndInv, TypeOK, ListInv, EntriesCounted
<1>2. c \in Nat
  BY ThreadsFinite
<1> HIDE DEF c
<1> QED BY <1>1, <1>2

LEMMA SetPromiseInv ==
    ASSUME IndInv, NEW t \in Thread, SetPromise(t)
    PROVE  IndInv'
<1>1. pc[t] = "call" /\ Visit(t, None, count, {})
  BY DEF SetPromise
<1>2. UNCHANGED <<pending, running, events, awaited, tasks, stop, list, callbacks, map, entries, owed, flush>>
  BY DEF SetPromise, client
<1>3. it[t] = None
  BY <1>1 DEF IndInv, ListInv, Visiting
<1>4. QueueInv' /\ done' \in Seq(Event)
  BY <1>1, <1>2, VisitQueue
<1>5. EntriesCounted' /\ count' \in [Entry -> Nat]
  BY <1>1, <1>2, <1>3, VisitCounts
<1>6. TypeOK'
  <2>1. {} \in SUBSET Entry /\ owed' \in [Thread -> SUBSET Entry] /\ list' \subseteq Entry
    BY <1>2 DEF IndInv, TypeOK
  <2> QED BY ZenonT(30), <1>1, <1>2, <1>4, <1>5, <2>1, VisitType
<1>7. /\ it' = [it EXCEPT ![t] = None] /\ seen' = [seen EXCEPT ![t] = {}]
      /\ pc' = [pc EXCEPT ![t] = IF t \in Producer THEN "idle" ELSE "end"]
  BY <1>1 DEF Visit
<1>8. Visiting' /\ Numbered' /\ Ahead'
  BY <1>2, <1>7 DEF IndInv, TypeOK, ListInv, Visiting, Numbered, Ahead
<1> QED BY <1>4, <1>5, <1>6, <1>8 DEF IndInv, ListInv

LEMMA IterateInv ==
    ASSUME IndInv, NEW t \in Thread, Iterate(t)
    PROVE  IndInv'
<1> DEFINE j == First(list)
<1>1. pc[t] = "call" /\ Visit(t, j, count, {}) /\ owed' = [owed EXCEPT ![t] = map]
  BY DEF Iterate
<1>2. UNCHANGED <<pending, running, events, awaited, tasks, stop, list, callbacks, map, entries, flush>>
  BY DEF Iterate, client
<1>3. it[t] = None
  BY <1>1 DEF IndInv, ListInv, Visiting
<1>4. list \subseteq Entry /\ map \subseteq list
  BY MapListed
<1>5. /\ j = None <=> list = {}
      /\ j # None => j \in list /\ \A k \in list : j <= k
  BY <1>4, FirstSound
<1> HIDE DEF j
<1>6. j \in list \cup {None} /\ j \in Entry \cup {None}
  BY <1>4, <1>5
<1>7. QueueInv' /\ done' \in Seq(Event)
  BY <1>1, <1>2, <1>6, VisitQueue
<1>8. EntriesCounted' /\ count' \in [Entry -> Nat]
  BY <1>1, <1>2, <1>3, <1>6, VisitCounts
<1>9. TypeOK'
  <2>1. {} \in SUBSET Entry /\ owed' \in [Thread -> SUBSET Entry] /\ list' \subseteq Entry
    BY <1>1, <1>2, <1>4 DEF IndInv, TypeOK
  <2> QED BY ZenonT(30), <1>1, <1>2, <1>6, <1>7, <1>8, <2>1, VisitType
<1>10. /\ it' = [it EXCEPT ![t] = j]
       /\ pc' = [pc EXCEPT ![t] = IF j # None THEN "visit" ELSE IF t \in Producer THEN "idle" ELSE "end"]
       /\ seen' = [seen EXCEPT ![t] = IF j = None THEN {} ELSE {j}]
  BY <1>1 DEF Visit
<1>11. Visiting' /\ Numbered'
  BY <1>2, <1>10 DEF IndInv, TypeOK, ListInv, Visiting, Numbered
<1>12. Ahead'
  <2>1. /\ it \in [Thread -> Entry \cup {None}] /\ seen \in [Thread -> SUBSET Entry]
        /\ owed \in [Thread -> SUBSET Entry] /\ pc = [u \in Thread |-> pc[u]]
    BY DEF IndInv, TypeOK
  <2>2. ASSUME NEW u \in Thread, u # t
        PROVE  owed'[u] \subseteq map' /\ (pc'[u] = "visit" => \A i \in owed'[u] \ seen'[u] : i > it'[u])
    BY <1>1, <1>2, <1>10, <2>1, <2>2 DEF IndInv, ListInv, Ahead
  <2>3. owed'[t] = map /\ it'[t] = j /\ seen'[t] = IF j = None THEN {} ELSE {j}
    BY <1>1, <1>10, <2>1
  <2>4. ASSUME j # None, NEW i \in map \ {j} PROVE i > j
    <3>1. i \in Nat /\ j \in Nat /\ j <= i
      BY ZenonT(30), <1>4, <1>5, <2>4, EventsNumbers
    <3> QED BY <2>4, <3>1
  <2>5. pc'[t] = "visit" => j # None
    BY <1>10, <2>1
  <2> QED BY <1>2, <2>2, <2>3, <2>4, <2>5 DEF Ahead
<1> QED BY <1>7, <1>8, <1>9, <1>11, <1>12 DEF IndInv, ListInv

LEMMA IterateNextInv ==
    ASSUME IndInv, NEW t \in Thread, IterateNext(t)
    PROVE  IndInv'
<1> DEFINE i == it[t]
           j == Following(i)
           cnt == [count EXCEPT ![i] = @ - 1]
<1>1. /\ pc[t] = "visit" /\ Visit(t, j, cnt, seen[t])
      /\ list' = IF cnt[i] = 0 THEN list \ {i} ELSE list
      /\ owed' = IF j = None THEN [owed EXCEPT ![t] = {}] ELSE owed
  BY DEF IterateNext
<1>2. UNCHANGED <<pending, running, events, awaited, tasks, stop, callbacks, map, entries, flush>>
  BY DEF IterateNext, client
<1>3. it[t] # None /\ i \in Entry
  BY <1>1 DEF IndInv, TypeOK, ListInv, Visiting
<1>4. list \subseteq Entry /\ map \subseteq list
  BY MapListed
<1>5. /\ j = None <=> {k \in list : k > i} = {}
      /\ j # None => j \in list /\ j > i /\ \A k \in list : k > i => j <= k
  BY <1>4, FirstSound DEF Following
<1>6. list \subseteq Nat /\ i \in Nat
  BY <1>3, <1>4, BoundAssumption DEF Entry
<1> HIDE DEF j
<1>7. j \in list \cup {None} /\ j \in Entry \cup {None} /\ (j = None \/ j # it[t])
  <2>1. CASE j # None
    <3>1. j \in list /\ j \in Nat /\ i \in Nat /\ j > i
      BY Zenon, <1>5, <1>6, <2>1
    <3>2. j # i
      BY <3>1
    <3> QED BY <1>4, <3>1, <3>2
  <2> QED BY <2>1
<1>8. QueueInv' /\ done' \in Seq(Event)
  BY <1>1, <1>2, <1>7, VisitQueue
<1>9. EntriesCounted' /\ count' \in [Entry -> Nat]
  BY <1>1, <1>2, <1>3, <1>7, VisitCounts
<1>10. TypeOK'
  <2>1. owed' \in [Thread -> SUBSET Entry] /\ list' \subseteq Entry /\ seen[t] \in SUBSET Entry
    BY <1>1, <1>2, <1>4 DEF IndInv, TypeOK
  <2> QED BY ZenonT(30), <1>1, <1>2, <1>7, <1>8, <1>9, <2>1, VisitType
<1>11. /\ it' = [it EXCEPT ![t] = j]
       /\ pc' = [pc EXCEPT ![t] = IF j # None THEN "visit" ELSE IF t \in Producer THEN "idle" ELSE "end"]
       /\ seen' = [seen EXCEPT ![t] = IF j = None THEN {} ELSE seen[t] \cup {j}]
  BY <1>1 DEF Visit
<1>12. Visiting' /\ Numbered'
  BY <1>1, <1>2, <1>11 DEF IndInv, TypeOK, ListInv, Visiting, Numbered
<1>13. Ahead'
  <2>1. /\ it \in [Thread -> Entry \cup {None}] /\ seen \in [Thread -> SUBSET Entry]
        /\ owed \in [Thread -> SUBSET Entry] /\ pc = [u \in Thread |-> pc[u]]
        /\ \A u \in Thread : owed[u] \subseteq map
        /\ \A k \in owed[t] \ seen[t] : k > i
    BY <1>1 DEF IndInv, TypeOK, ListInv, Ahead
  <2>2. ASSUME NEW u \in Thread, u # t
        PROVE  owed'[u] \subseteq map' /\ (pc'[u] = "visit" => \A k \in owed'[u] \ seen'[u] : k > it'[u])
    BY <1>1, <1>2, <1>11, <2>1, <2>2 DEF IndInv, ListInv, Ahead
  <2>3. owed'[t] \subseteq map'
    BY <1>1, <1>2, <2>1
  <2>4. ASSUME pc'[t] = "visit", NEW k \in owed'[t] \ seen'[t] PROVE k > it'[t]
    <3>1. j # None
      BY <1>11, <2>1, <2>4
    <3>2. owed'[t] = owed[t] /\ it'[t] = j /\ seen'[t] = seen[t] \cup {j}
      BY <1>1, <1>11, <2>1, <3>1
    <3>3. k \in list /\ k > i /\ k # j
      BY <1>4, <2>1, <2>4, <3>2
    <3>4. j <= k /\ j \in Nat /\ k \in Nat
      BY <1>5, <1>6, <3>1, <3>3
    <3> QED BY <3>2, <3>3, <3>4
  <2> QED BY <2>2, <2>3, <2>4 DEF Ahead
<1> QED BY <1>8, <1>9, <1>10, <1>12, <1>13 DEF IndInv, ListInv
-----------------------------------------------------------------------------
(* The scheduler and its client *)

Pc == {"idle", "maybe", "schedule", "notify", "await", "process", "call", "visit",
       "end", "check", "loop", "wait", "timed", "exit"}

(* Threads that neither start nor end a callback move. *)
LEMMA MovePreserves ==
    ASSUME IndInv, pc' \in [Thread -> Pc],
           \A u \in Thread : pc'[u] = pc[u] \/ {pc[u], pc'[u]} \cap {"call", "visit", "end"} = {},
           \A p \in Producer : pc'[p] \notin {"process", "end"},
           \A p \in Producer : pc'[p] = "await" => awaited'[p] # None,
           flush' # "run" => pc'[Flusher] = "idle",
           tasks' \in Nat, stop' \in BOOLEAN, flush' \in {"no", "stop", "run", "done"},
           awaited' \in [Producer -> Event \cup {None}],
           UNCHANGED <<cur, pending, running, events, done,
                       list, callbacks, count, map, entries, it, owed, seen>>
    PROVE  IndInv'
<1>1. TypeOK'
  BY DEF IndInv, TypeOK, Pc
<1>2. ListInv'
  <2>1. \A t \in Thread : pc'[t] = "visit" <=> pc[t] = "visit"
    OBVIOUS
  <2> QED BY <2>1, ListFrame DEF IndInv
<1>3. Places' /\ Awaiting'
  BY DEF Places, Awaiting
<1>4. \A u \in Thread : (Busy(u)' <=> Busy(u)) /\ (pc'[u] \in {"call", "visit"} <=> pc[u] \in {"call", "visit"})
  BY Zenon DEF Busy
<1>5. Exclusive' /\ Current'
  BY <1>4 DEF IndInv, QueueInv, Exclusive, Current, Worker, Thread
<1>6. Order'
  BY DEF IndInv, QueueInv, Order, Started, Idle
<1> QED BY <1>1, <1>2, <1>3, <1>5, <1>6 DEF IndInv, QueueInv

(* One thread moves and the rest stays. *)
LEMMA MoveOne ==
    ASSUME IndInv, NEW t \in Thread, NEW x \in Pc \ {"call", "visit", "end"},
           pc' = [pc EXCEPT ![t] = x], pc[t] \notin {"call", "visit", "end"},
           t \in Producer => x # "process" /\ (x = "await" => awaited'[t] # None),
           t = Flusher => flush' = "run" \/ x = "idle", flush' = flush \/ t = Flusher,
           tasks' \in Nat, flush' \in {"no", "stop", "run", "done"},
           awaited' \in [Producer -> Event \cup {None}],
           \A p \in Producer : p # t => awaited'[p] = awaited[p],
           UNCHANGED <<cur, pending, running, events, done, stop,
                       list, callbacks, count, map, entries, it, owed, seen>>
    PROVE  IndInv'
<1>1. pc \in [Thread -> Pc] /\ stop' \in BOOLEAN
  BY DEF IndInv, TypeOK, Pc
<1>2. Places /\ Awaiting
  BY DEF IndInv, QueueInv
<1>3. pc' \in [Thread -> Pc] /\ pc'[t] = x /\ \A u \in Thread : u # t => pc'[u] = pc[u]
  BY <1>1
<1>4. Flusher \in Thread /\ Producer \subseteq Thread
  BY DEF Thread
<1>5. \A p \in Producer : pc'[p] \notin {"process", "end"}
  BY <1>2, <1>3, <1>4 DEF Places
<1>6. \A p \in Producer : pc'[p] = "await" => awaited'[p] # None
  BY <1>2, <1>3, <1>4 DEF Awaiting
<1>7. flush' # "run" => pc'[Flusher] = "idle"
  BY <1>2, <1>3, <1>4 DEF Places
<1>8. \A u \in Thread : pc'[u] = pc[u] \/ {pc[u], pc'[u]} \cap {"call", "visit", "end"} = {}
  BY <1>3
<1> QED BY <1>1, <1>3, <1>5, <1>6, <1>7, <1>8, MovePreserves

(* Where Back goes suits the thread. *)
LEMMA BackSound ==
    ASSUME IndInv, NEW t \in Thread, pc[t] \notin {"idle"}
    PROVE  /\ Back(t) \in {"loop", "check", "await", "idle"}
           /\ t \in Producer /\ Back(t) = "await" => awaited[t] # None
           /\ t = Flusher => flush = "run"
<1>1. t = Flusher => flush = "run"
  BY DEF IndInv, QueueInv, Places
<1> QED BY <1>1, ThreadAssumption DEF Back, Thread

LEMMA MaybeScheduleInv ==
    ASSUME IndInv, NEW t \in Thread, MaybeScheduleProcessQueue(t)
    PROVE  IndInv'
<1> DEFINE x == IF running \/ pending = <<>> THEN Back(t) ELSE "schedule"
<1>1. pc[t] = "maybe" /\ pc' = [pc EXCEPT ![t] = x]
  BY DEF MaybeScheduleProcessQueue
<1>2. UNCHANGED <<cur, pending, running, events, awaited, tasks, stop, done, flush,
                  list, callbacks, count, map, entries, it, owed, seen>>
  BY DEF MaybeScheduleProcessQueue, client, signals, visits
<1>3. /\ x \in {"loop", "check", "await", "idle", "schedule"}
      /\ t \in Producer /\ x = "await" => awaited[t] # None
      /\ t = Flusher => flush = "run"
  BY <1>1, BackSound
<1> HIDE DEF x
<1>4. tasks' \in Nat /\ flush' \in {"no", "stop", "run", "done"}
      /\ awaited' \in [Producer -> Event \cup {None}]
  BY <1>2 DEF IndInv, TypeOK
<1>5. x \in Pc \ {"call", "visit", "end"}
  BY <1>3 DEF Pc
<1> QED BY <1>1, <1>2, <1>3, <1>4, <1>5, MoveOne

LEMMA ScheduleInv ==
    ASSUME IndInv, NEW t \in Thread, Schedule(t)
    PROVE  IndInv'
<1>1. pc[t] = "schedule" /\ pc' = [pc EXCEPT ![t] = "notify"] /\ tasks' = tasks + 1
  BY DEF Schedule
<1>2. UNCHANGED <<cur, pending, running, events, awaited, stop, done, flush,
                  list, callbacks, count, map, entries, it, owed, seen>>
  BY DEF Schedule, client, signals, visits
<1>3. t = Flusher => flush = "run"
  BY <1>1, BackSound
<1>4. tasks' \in Nat /\ flush' \in {"no", "stop", "run", "done"}
      /\ awaited' \in [Producer -> Event \cup {None}]
  BY <1>1, <1>2 DEF IndInv, TypeOK
<1>5. "notify" \in Pc \ {"call", "visit", "end"}
  BY DEF Pc
<1> QED BY <1>1, <1>2, <1>3, <1>4, <1>5, MoveOne

LEMMA NotifyOneInv ==
    ASSUME IndInv, NEW t \in Thread, NotifyOne(t)
    PROVE  IndInv'
<1>1. /\ pc[t] = "notify"
      /\ \/ \E s \in Server : pc[s] = "wait" /\ pc' = [pc EXCEPT ![t] = Back(t), ![s] = "loop"]
         \/ pc' = [pc EXCEPT ![t] = Back(t)]
  BY DEF NotifyOne
<1>2. UNCHANGED <<cur, pending, running, events, awaited, tasks, stop, done, flush,
                  list, callbacks, count, map, entries, it, owed, seen>>
  BY DEF NotifyOne, client, signals, visits
<1>3. /\ Back(t) \in {"loop", "check", "await", "idle"}
      /\ t \in Producer /\ Back(t) = "await" => awaited[t] # None
      /\ t = Flusher => flush = "run"
  BY <1>1, BackSound
<1>4. pc \in [Thread -> Pc] /\ Places /\ Awaiting /\ Back(t) \in Pc /\ "loop" \in Pc
  BY <1>3 DEF IndInv, TypeOK, QueueInv, Pc
<1>5. /\ pc' \in [Thread -> Pc] /\ pc'[t] = Back(t)
      /\ \A u \in Thread \ {t} : pc'[u] = pc[u] \/ (u \in Server /\ pc[u] = "wait" /\ pc'[u] = "loop")
  <2>1. CASE pc' = [pc EXCEPT ![t] = Back(t)]
    BY <1>4, <2>1
  <2>2. ASSUME NEW s \in Server, pc[s] = "wait", pc' = [pc EXCEPT ![t] = Back(t), ![s] = "loop"]
        PROVE  <1>5!:
    BY <1>1, <1>4, <2>2 DEF Thread
  <2> QED BY <1>1, <2>1, <2>2
<1>6. Flusher \in Thread /\ Producer \subseteq Thread /\ Flusher \notin Server /\ Producer \cap Server = {}
  BY ThreadAssumption DEF Thread
<1>7. \A p \in Producer : pc'[p] \notin {"process", "end"} /\ (pc'[p] = "await" => awaited'[p] # None)
  BY <1>2, <1>3, <1>4, <1>5, <1>6 DEF Places, Awaiting
<1>8. flush' # "run" => pc'[Flusher] = "idle"
  BY <1>2, <1>3, <1>4, <1>5, <1>6 DEF Places
<1>9. \A u \in Thread : pc'[u] = pc[u] \/ {pc[u], pc'[u]} \cap {"call", "visit", "end"} = {}
  BY <1>1, <1>3, <1>5
<1>10. /\ tasks' \in Nat /\ stop' \in BOOLEAN /\ flush' \in {"no", "stop", "run", "done"}
       /\ awaited' \in [Producer -> Event \cup {None}]
  BY <1>2 DEF IndInv, TypeOK
<1> QED BY <1>2, <1>5, <1>7, <1>8, <1>9, <1>10, MovePreserves

(* CScheduler::serviceQueue: Serve, TakeTask and Spurious move one server. *)
LEMMA ServerInv ==
    ASSUME IndInv, NEW s \in Server, Serve(s) \/ TakeTask(s) \/ Spurious(s)
    PROVE  IndInv'
<1>1. /\ pc[s] \in {"loop", "timed", "wait"}
      /\ \E x \in {"exit", "wait", "timed", "loop", "process"} : pc' = [pc EXCEPT ![s] = x]
  BY DEF Serve, TakeTask, Spurious
<1>2. UNCHANGED <<cur, pending, running, events, awaited, stop, done, flush,
                  list, callbacks, count, map, entries, it, owed, seen>>
  BY DEF Serve, TakeTask, Spurious, client, signals, visits
<1>3. tasks' \in Nat
  <2>1. tasks \in Nat /\ (tasks' = tasks \/ (tasks # 0 /\ tasks' = tasks - 1))
    BY DEF IndInv, TypeOK, Serve, TakeTask, Spurious
  <2> QED BY <2>1
<1>4. flush' \in {"no", "stop", "run", "done"} /\ awaited' \in [Producer -> Event \cup {None}]
  BY <1>2 DEF IndInv, TypeOK
<1>5. s \in Thread /\ s \notin Producer /\ s # Flusher
  BY ThreadAssumption DEF Thread
<1>6. {"exit", "wait", "timed", "loop", "process"} \subseteq Pc \ {"call", "visit", "end"}
  BY DEF Pc
<1> QED BY <1>1, <1>2, <1>3, <1>4, <1>5, <1>6, MoveOne

(* The shutdown *)
LEMMA StopInv ==
    ASSUME IndInv, Stop
    PROVE  IndInv'
<1>1. /\ flush = "no" /\ flush' = "stop" /\ stop' = TRUE
      /\ pc' = [t \in Thread |-> IF pc[t] = "wait" THEN "loop" ELSE pc[t]]
  BY DEF Stop
<1>2. UNCHANGED <<cur, pending, running, events, awaited, tasks, done,
                  list, callbacks, count, map, entries, it, owed, seen>>
  BY DEF Stop, client, signals, visits
<1>3. pc \in [Thread -> Pc] /\ Places /\ Awaiting /\ "loop" \in Pc
  BY DEF IndInv, TypeOK, QueueInv, Pc
<1>4. Flusher \in Thread /\ Producer \subseteq Thread
  BY DEF Thread
<1>5. pc' \in [Thread -> Pc]
  BY <1>1, <1>3
<1>6. \A u \in Thread : pc'[u] = pc[u] \/ {pc[u], pc'[u]} \cap {"call", "visit", "end"} = {}
  BY <1>1
<1>7. \A p \in Producer : pc'[p] \notin {"process", "end"} /\ (pc'[p] = "await" => awaited'[p] # None)
  BY <1>1, <1>2, <1>3, <1>4 DEF Places, Awaiting
<1>8. pc'[Flusher] = "idle"
  BY <1>1, <1>3, <1>4 DEF Places
<1>9. /\ tasks' \in Nat /\ stop' \in BOOLEAN /\ flush' \in {"no", "stop", "run", "done"}
      /\ awaited' \in [Producer -> Event \cup {None}]
  BY <1>1, <1>2 DEF IndInv, TypeOK
<1> QED BY <1>2, <1>5, <1>6, <1>7, <1>8, <1>9, MovePreserves

LEMMA EmptyQueueInv ==
    ASSUME IndInv, EmptyQueue \/ EmptyQueueTurn
    PROVE  IndInv'
<1>1. /\ pc[Flusher] \in {"idle", "check"}
      /\ \E x \in {"process", "idle"} : /\ pc' = [pc EXCEPT ![Flusher] = x]
                                        /\ flush' = "run" \/ x = "idle"
  BY DEF EmptyQueue, EmptyQueueTurn, IndInv, QueueInv, Places
<1>2. UNCHANGED <<cur, pending, running, events, awaited, tasks, stop, done,
                  list, callbacks, count, map, entries, it, owed, seen>>
  BY DEF EmptyQueue, EmptyQueueTurn, client, signals, visits
<1>3. /\ tasks' \in Nat /\ flush' \in {"no", "stop", "run", "done"}
      /\ awaited' \in [Producer -> Event \cup {None}]
  BY <1>2 DEF EmptyQueue, EmptyQueueTurn, IndInv, TypeOK
<1>4. Flusher \in Thread /\ Flusher \notin Producer
  BY ThreadAssumption DEF Thread
<1>5. {"process", "idle"} \subseteq Pc \ {"call", "visit", "end"}
  BY DEF Pc
<1> QED BY ZenonT(30), <1>1, <1>2, <1>3, <1>4, <1>5, MoveOne

(* A caller of SyncWithValidationInterfaceQueue goes on. *)
LEMMA SyncedInv ==
    ASSUME IndInv, NEW p \in Producer, Synced(p)
    PROVE  IndInv'
<1>1. pc[p] = "await" /\ pc' = [pc EXCEPT ![p] = "idle"] /\ awaited' = [awaited EXCEPT ![p] = None]
  BY DEF Synced
<1>2. UNCHANGED <<cur, pending, running, events, tasks, stop, done, flush,
                  list, callbacks, count, map, entries, it, owed, seen>>
  BY DEF Synced, signals, visits
<1>3. /\ tasks' \in Nat /\ flush' \in {"no", "stop", "run", "done"}
      /\ awaited' \in [Producer -> Event \cup {None}]
      /\ \A q \in Producer : q # p => awaited'[q] = awaited[q]
  BY <1>1, <1>2 DEF IndInv, TypeOK
<1>4. p \in Thread /\ p # Flusher
  BY ThreadAssumption DEF Thread
<1>5. "idle" \in Pc \ {"call", "visit", "end"}
  BY DEF Pc
<1> QED BY <1>1, <1>2, <1>3, <1>4, <1>5, MoveOne

(* BlockChecked begins on a validation thread, which is no worker. *)
LEMMA SignalInv ==
    ASSUME IndInv, NEW p \in Producer, Signal(p)
    PROVE  IndInv'
<1>1. pc[p] = "idle" /\ pc' = [pc EXCEPT ![p] = "call"]
  BY DEF Signal
<1>2. UNCHANGED <<cur, pending, running, events, awaited, tasks, stop, done, flush,
                  list, callbacks, count, map, entries, it, owed, seen>>
  BY DEF Signal, client, signals, visits
<1>3. p \in Thread /\ p \notin Worker /\ p # Flusher /\ Worker \subseteq Thread
  BY ThreadAssumption DEF Thread, Worker
<1>4. pc = [u \in Thread |-> pc[u]]
  BY DEF IndInv, TypeOK
<1>5. pc'[p] = "call" /\ \A u \in Thread : u # p => pc'[u] = pc[u]
  BY <1>1, <1>3, <1>4
<1>6. TypeOK'
  BY <1>1, <1>2 DEF IndInv, TypeOK
<1>7. ListInv'
  BY <1>1, <1>2, <1>5, ListFrame DEF IndInv
<1>8. Places' /\ Awaiting'
  BY <1>2, <1>3, <1>5 DEF IndInv, QueueInv, Places, Awaiting, Thread
<1>9. Exclusive' /\ Current'
  BY ZenonT(30), <1>2, <1>3, <1>5 DEF IndInv, QueueInv, Exclusive, Busy, Current
<1>10. Order'
  BY <1>2 DEF IndInv, QueueInv, Order, Started, Idle
<1> QED BY <1>6, <1>7, <1>8, <1>9, <1>10 DEF IndInv, QueueInv

LEMMA AddToProcessQueueInv ==
    ASSUME IndInv, NEW p \in Producer, NEW sync \in BOOLEAN, AddToProcessQueue(p, sync)
    PROVE  IndInv'
<1>1. /\ pc[p] = "idle" /\ pc' = [pc EXCEPT ![p] = "maybe"]
      /\ events < MaxEvents /\ events' = events + 1 /\ pending' = Append(pending, events + 1)
      /\ awaited' = [awaited EXCEPT ![p] = IF sync THEN events + 1 ELSE None]
  BY DEF AddToProcessQueue
<1>2. UNCHANGED <<cur, running, tasks, stop, done, flush,
                  list, callbacks, count, map, entries, it, owed, seen>>
  BY DEF AddToProcessQueue, signals, visits
<1>3. p \in Thread /\ p \notin Worker /\ p # Flusher /\ Worker \subseteq Thread
  BY ThreadAssumption DEF Thread, Worker
<1>4. /\ pc = [u \in Thread |-> pc[u]] /\ pending \in Seq(Event) /\ events \in 0..MaxEvents
      /\ awaited \in [Producer -> Event \cup {None}] /\ MaxEvents \in Nat
  BY BoundAssumption DEF IndInv, TypeOK
<1>5. pc'[p] = "maybe" /\ \A u \in Thread : u # p => pc'[u] = pc[u]
  BY <1>1, <1>3, <1>4
<1>6. events' \in 0..MaxEvents /\ events + 1 \in Event
  BY <1>1, <1>4 DEF Event
<1>7. /\ pending' \in Seq(Event) /\ Len(pending') = Len(pending) + 1
      /\ \A i \in 1..Len(pending) + 1 :
            pending'[i] = IF i = Len(pending) + 1 THEN events + 1 ELSE pending[i]
  BY <1>1, <1>4, <1>6
<1>8. TypeOK'
  <2>1. awaited' \in [Producer -> Event \cup {None}]
    BY <1>1, <1>4, <1>6
  <2> QED BY ZenonT(30), <1>1, <1>2, <1>6, <1>7, <2>1 DEF IndInv, TypeOK
<1>9. ListInv'
  BY <1>1, <1>2, <1>5, ListFrame DEF IndInv
<1>10. Places' /\ Awaiting'
  <2>1. \A q \in Producer : q # p => awaited'[q] = awaited[q]
    BY <1>1, <1>4
  <2> QED BY <1>2, <1>3, <1>5, <2>1 DEF IndInv, QueueInv, Places, Awaiting, Thread
<1>11. Exclusive' /\ Current'
  BY Zenon, <1>2, <1>3, <1>5 DEF IndInv, QueueInv, Exclusive, Busy, Current
<1>12. Order'
  <2>1. Started' = Started /\ Started \in Nat
    BY <1>2 DEF Started, Idle, IndInv, TypeOK
  <2>2. events = Started + Len(pending) /\ \A i \in 1..Len(pending) : pending[i] = Started + i
    BY DEF IndInv, QueueInv, Order
  <2>3. Len(pending) \in Nat
    BY <1>4
  <2>4. events' = Started + Len(pending') /\ \A i \in 1..Len(pending') : pending'[i] = Started + i
    BY <1>1, <1>7, <2>1, <2>2, <2>3
  <2> QED BY <1>2, <2>1, <2>4 DEF IndInv, QueueInv, Order
<1> QED BY <1>8, <1>9, <1>10, <1>11, <1>12 DEF IndInv, QueueInv

(* The next callback starts: none runs, since m_are_callbacks_running is    *)
(* not set.                                                                 *)
LEMMA ProcessQueueInv ==
    ASSUME IndInv, NEW t \in Thread, ProcessQueue(t)
    PROVE  IndInv'
<1>1. /\ pc[t] = "process"
      /\ \/ /\ ~running /\ pending # <<>>
            /\ running' = TRUE /\ cur' = [cur EXCEPT ![t] = Head(pending)]
            /\ pending' = Tail(pending) /\ pc' = [pc EXCEPT ![t] = "call"]
         \/ /\ pc' = [pc EXCEPT ![t] = Back(t)]
            /\ UNCHANGED <<cur, pending, running>>
  BY DEF ProcessQueue, MayProcess, NextCallback
<1>2. UNCHANGED <<events, awaited, tasks, stop, done, flush,
                  list, callbacks, count, map, entries, it, owed, seen>>
  BY DEF ProcessQueue, signals, visits
<1>3. /\ Back(t) \in {"loop", "check", "await", "idle"}
      /\ t \in Producer /\ Back(t) = "await" => awaited[t] # None
      /\ t = Flusher => flush = "run"
  BY <1>1, BackSound
<1>4. CASE pc' = [pc EXCEPT ![t] = Back(t)] /\ UNCHANGED <<cur, pending, running>>
  <2>1. tasks' \in Nat /\ flush' \in {"no", "stop", "run", "done"}
        /\ awaited' \in [Producer -> Event \cup {None}]
    BY <1>2 DEF IndInv, TypeOK
  <2>2. Back(t) \in Pc \ {"call", "visit", "end"} /\ Back(t) # "process"
    BY <1>3 DEF Pc
  <2> QED BY <1>1, <1>2, <1>3, <1>4, <2>1, <2>2, MoveOne
<1>5. CASE /\ ~running /\ pending # <<>>
           /\ running' = TRUE /\ cur' = [cur EXCEPT ![t] = Head(pending)]
           /\ pending' = Tail(pending) /\ pc' = [pc EXCEPT ![t] = "call"]
  <2>1. /\ pc = [u \in Thread |-> pc[u]] /\ pending \in Seq(Event) /\ events \in 0..MaxEvents
        /\ cur \in [Thread -> Event \cup {None}] /\ done \in Seq(Event)
        /\ Places /\ Exclusive /\ Current /\ Order /\ Awaiting
    BY DEF IndInv, TypeOK, QueueInv
  <2>2. t \notin Producer /\ t \in Worker /\ Worker \subseteq Thread /\ Producer \cap Worker = {}
    BY <1>1, <2>1, ThreadAssumption DEF Places, Worker, Thread
  <2>3. (\A u \in Worker : ~Busy(u)) /\ Idle
    BY <1>5, <2>1, <2>2 DEF Exclusive, Current, Idle, Busy
  <2>4. pc'[t] = "call" /\ \A u \in Thread : u # t => pc'[u] = pc[u]
    BY <1>5, <2>1
  <2>5. /\ Head(pending) \in Event /\ Head(pending) = pending[1] /\ Len(pending) \in Nat
        /\ Len(pending) # 0 /\ pending' \in Seq(Event) /\ Len(pending') = Len(pending) - 1
        /\ \A i \in 1..Len(pending) - 1 : pending'[i] = pending[i + 1]
    BY <1>5, <2>1
  <2>6. Started = Len(done) /\ Len(done) \in Nat /\ Head(pending) = Len(done) + 1
    BY <2>1, <2>3, <2>5 DEF Started, Order
  <2>7. /\ cur' \in [Thread -> Event \cup {None}] /\ cur'[t] = Len(done) + 1
        /\ cur'[t] # None /\ \A u \in Thread : u # t => cur'[u] = None
    BY <1>5, <2>1, <2>3, <2>5, <2>6, EventsNumbers DEF Idle
  <2>8. TypeOK'
    BY <1>2, <1>5, <2>5, <2>7 DEF IndInv, TypeOK
  <2>9. ListInv'
    BY <1>1, <1>2, <2>4, ListFrame DEF IndInv
  <2>10. Places' /\ Awaiting'
    BY ZenonT(30), <1>2, <1>3, <2>1, <2>2, <2>4 DEF Places, Awaiting, Thread
  <2>11. Exclusive'
    BY <1>5, <2>2, <2>3, <2>4 DEF Exclusive, Busy
  <2>12. Current'
    BY <1>2, <2>2, <2>3, <2>4, <2>7 DEF Current, Busy
  <2>13. Order'
    <3>1. Started' = Len(done) + 1
      BY <1>2, <2>7 DEF Started, Idle
    <3>2. events = Len(done) + Len(pending) /\ \A i \in 1..Len(pending) : pending[i] = Len(done) + i
      BY <2>1, <2>6 DEF Order
    <3>3. events = Len(done) + 1 + Len(pending')
      BY <2>5, <2>6, <3>2
    <3>4. \A i \in 1..Len(pending') : pending'[i] = Len(done) + 1 + i
      BY <2>5, <2>6, <3>2
    <3> QED BY <1>2, <2>1, <3>1, <3>3, <3>4 DEF Order
  <2> QED BY <2>8, <2>9, <2>10, <2>11, <2>12, <2>13 DEF IndInv, QueueInv
<1> QED BY Zenon, <1>1, <1>4, <1>5

LEMMA EndProcessInv ==
    ASSUME IndInv, NEW t \in Thread, EndProcess(t)
    PROVE  IndInv'
<1>1. pc[t] = "end" /\ pc' = [pc EXCEPT ![t] = "maybe"] /\ running' = FALSE
  BY DEF EndProcess
<1>2. UNCHANGED <<cur, pending, events, awaited, tasks, stop, done, flush,
                  list, callbacks, count, map, entries, it, owed, seen>>
  BY DEF EndProcess, signals, visits
<1>3. /\ pc = [u \in Thread |-> pc[u]] /\ Places /\ Exclusive /\ Current /\ Order /\ Awaiting
  BY DEF IndInv, TypeOK, QueueInv
<1>4. t \in Worker /\ t \notin Producer /\ Worker \subseteq Thread /\ (t = Flusher => flush = "run")
  BY <1>1, <1>3, ThreadAssumption DEF Places, Worker, Thread
<1>5. pc'[t] = "maybe" /\ \A u \in Thread : u # t => pc'[u] = pc[u]
  BY <1>1, <1>3
<1>6. TypeOK'
  BY Zenon, <1>1, <1>2 DEF IndInv, TypeOK
<1>7. ListInv'
  BY <1>1, <1>2, <1>5, ListFrame DEF IndInv
<1>8. Places' /\ Awaiting'
  BY <1>2, <1>3, <1>4, <1>5 DEF Places, Awaiting, Thread
<1>9. Exclusive'
  BY <1>1, <1>3, <1>4, <1>5 DEF Exclusive, Busy
<1>10. Current'
  BY <1>1, <1>2, <1>3, <1>5 DEF Current
<1>11. Order'
  BY <1>2, <1>3 DEF Order, Started, Idle
<1> QED BY <1>6, <1>7, <1>8, <1>9, <1>10, <1>11 DEF IndInv, QueueInv
-----------------------------------------------------------------------------
LEMMA InitInv == Init => IndInv
<1> SUFFICES ASSUME Init PROVE IndInv
  OBVIOUS
<1>1. /\ entries = Cardinality(Subscriber) /\ entries \in 0..MaxEntries
      /\ list = 1..entries /\ map = 1..entries /\ map \subseteq Entry
  <2>1. entries = Cardinality(Subscriber) /\ list = 1..entries /\ map = 1..entries
    BY DEF Init
  <2>2. Cardinality(Subscriber) \in Nat
    BY BoundAssumption, FS_CardinalityType
  <2> QED BY <2>1, <2>2, BoundAssumption DEF Entry
<1>2. callbacks \in [Entry -> Subscriber \cup {None}]
  <2> DEFINE order == CHOOSE f \in Bijection(1..Cardinality(Subscriber), Subscriber) : TRUE
  <2>1. order \in Bijection(1..Cardinality(Subscriber), Subscriber)
    BY BoundAssumption, FS_CardinalityType DEF ExistsBijection
  <2>2. order \in [1..Cardinality(Subscriber) -> Subscriber]
    BY <2>1 DEF Bijection, Injection
  <2>3. callbacks = [i \in Entry |-> IF i \in DOMAIN order THEN order[i] ELSE None]
    BY DEF Init
  <2> HIDE DEF order
  <2> QED BY <2>2, <2>3
<1>3. TypeOK
  <2>1. pending \in Seq(Event) /\ done \in Seq(Event)
    BY DEF Init
  <2>4. events \in 0..MaxEvents /\ tasks \in Nat
    BY BoundAssumption DEF Init
  <2>5. running \in BOOLEAN /\ stop \in BOOLEAN /\ flush \in {"no", "stop", "run", "done"}
    BY DEF Init
  <2>2. /\ pc \in [Thread -> {"idle", "maybe", "schedule", "notify", "await", "process", "call",
                             "visit", "end", "check", "loop", "wait", "timed", "exit"}]
        /\ cur \in [Thread -> Event \cup {None}] /\ awaited \in [Producer -> Event \cup {None}]
    BY DEF Init
  <2>3. /\ count \in [Entry -> Nat] /\ it \in [Thread -> Entry \cup {None}]
        /\ owed \in [Thread -> SUBSET Entry] /\ seen \in [Thread -> SUBSET Entry]
    BY DEF Init
  <2> QED BY <1>1, <1>2, <2>1, <2>2, <2>3, <2>4, <2>5 DEF TypeOK
<1>4. QueueInv
  BY ThreadAssumption DEF Init, QueueInv, Places, Exclusive, Busy, Current, Order, Started, Idle,
                          Awaiting, Worker, Thread
<1>5. EntriesCounted
  <2>1. \A i \in Entry : {t \in Thread : it[t] = i} = {}
    BY EventsNumbers DEF Init
  <2>2. \A i \in Entry : Cardinality({t \in Thread : it[t] = i}) = 0
    BY <2>1, FS_EmptySet, Zenon
  <2>3. \A i \in Entry : count[i] = IF i \in map THEN 1 ELSE 0
    BY DEF Init
  <2>4. list = {i \in Entry : count[i] # 0}
    <3>1. list = map /\ map \subseteq Entry
      BY <1>1
    <3>2. \A i \in Entry : i \in map <=> count[i] # 0
      BY <2>3
    <3> QED BY <3>1, <3>2
  <2> QED BY <2>2, <2>3, <2>4 DEF EntriesCounted
<1>6. Visiting /\ Numbered /\ Ahead
  BY <1>1 DEF Init, Visiting, Numbered, Ahead
<1> QED BY <1>3, <1>4, <1>5, <1>6 DEF IndInv, ListInv

LEMMA NextInv ==
    ASSUME IndInv, [Next]_vars
    PROVE  IndInv'
<1>1. ASSUME NEW t \in Thread, Step(t) PROVE IndInv'
  BY <1>1, MaybeScheduleInv, ScheduleInv, NotifyOneInv, ProcessQueueInv, EndProcessInv,
     SetPromiseInv, IterateInv, IterateNextInv DEF Step
<1>2. ASSUME NEW p \in Producer,
             Signal(p) \/ Synced(p) \/ \E sync \in BOOLEAN : AddToProcessQueue(p, sync)
      PROVE  IndInv'
  BY <1>2, SignalInv, SyncedInv, AddToProcessQueueInv
<1>3. ASSUME NEW s \in Server, Serve(s) \/ TakeTask(s) \/ Spurious(s) PROVE IndInv'
  BY <1>3, ServerInv
<1>4. CASE Stop \/ EmptyQueue \/ EmptyQueueTurn
  BY <1>4, StopInv, EmptyQueueInv
<1>5. ASSUME NEW s \in Subscriber, Register(s) PROVE IndInv'
  BY <1>5, RegisterInv
<1>6. ASSUME NEW i \in Entry, Unregister(i) PROVE IndInv'
  BY <1>6, UnregisterInv
<1>7. CASE UNCHANGED vars
  <2>1. UNCHANGED <<pc, cur, pending, running, events, awaited, tasks, stop, done,
                    list, callbacks, count, map, entries, it, owed, seen, flush>>
    BY <1>7 DEF vars, client, signals, visits
  <2>2. TypeOK'
    BY <2>1 DEF IndInv, TypeOK
  <2>3. QueueInv' /\ ListInv'
    BY <2>1, QueueFrame, ListFrame DEF IndInv
  <2> QED BY <2>2, <2>3 DEF IndInv
<1> QED BY <1>1, <1>2, <1>3, <1>4, <1>5, <1>6, <1>7 DEF Next

LEMMA Invariance == Spec => []IndInv
<1>1. IndInv /\ [Next]_vars => IndInv'
  BY NextInv
<1> QED BY <1>1, InitInv, PTL DEF Spec
-----------------------------------------------------------------------------
(* Which steps end a visit, a wait or a callback *)

(* Only its last visit takes a thread out of Iterate. *)
LEMMA VisitEnds ==
    ASSUME IndInv, Next, NEW t \in Thread, pc[t] = "visit", pc'[t] # "visit"
    PROVE  IterateNext(t)
<1>1. pc = [u \in Thread |-> pc[u]] /\ Producer \cup Server \cup {Flusher} \subseteq Thread
      /\ (flush # "run" => pc[Flusher] = "idle")
  BY DEF IndInv, TypeOK, QueueInv, Places, Thread
<1>2. ASSUME NEW u \in Thread, Step(u) PROVE IterateNext(t)
  <2>1. CASE NotifyOne(u)
    BY <1>1, <2>1 DEF NotifyOne
  <2>2. CASE MaybeScheduleProcessQueue(u) \/ Schedule(u) \/ ProcessQueue(u) \/ EndProcess(u)
    BY <1>1, <2>2 DEF MaybeScheduleProcessQueue, Schedule, ProcessQueue, EndProcess
  <2>3. CASE SetPromise(u) \/ Iterate(u)
    BY <1>1, <2>3 DEF SetPromise, Iterate, Visit
  <2>4. CASE IterateNext(u)
    BY ZenonT(30), <1>1, <2>4 DEF IterateNext, Visit
  <2> QED BY <1>2, <2>1, <2>2, <2>3, <2>4 DEF Step
<1>3. ASSUME NEW p \in Producer,
             Signal(p) \/ Synced(p) \/ \E sync \in BOOLEAN : AddToProcessQueue(p, sync)
      PROVE  IterateNext(t)
  BY <1>1, <1>3 DEF Signal, Synced, AddToProcessQueue
<1>4. ASSUME NEW s \in Server, Serve(s) \/ TakeTask(s) \/ Spurious(s) PROVE IterateNext(t)
  BY <1>1, <1>4 DEF Serve, TakeTask, Spurious
<1>5. CASE Stop \/ EmptyQueue \/ EmptyQueueTurn
  BY <1>1, <1>5 DEF Stop, EmptyQueue, EmptyQueueTurn
<1>6. ASSUME NEW s \in Subscriber, Register(s) PROVE IterateNext(t)
  BY <1>6 DEF Register
<1>7. ASSUME NEW i \in Entry, Unregister(i) PROVE IterateNext(t)
  BY <1>7 DEF Unregister
<1> QED BY <1>2, <1>3, <1>4, <1>5, <1>6, <1>7 DEF Next

(* Only its future takes a caller out of SyncWithValidationInterfaceQueue. *)
LEMMA AwaitEnds ==
    ASSUME IndInv, Next, NEW p \in Producer, pc[p] = "await", pc'[p] # "await"
    PROVE  Synced(p)
<1>1. /\ pc = [u \in Thread |-> pc[u]] /\ Producer \cup Server \cup {Flusher} \subseteq Thread
      /\ p \in Thread /\ p \notin Server /\ p # Flusher
  BY ThreadAssumption DEF IndInv, TypeOK, Thread
<1>2. ASSUME NEW u \in Thread, Step(u) PROVE Synced(p)
  <2>1. CASE NotifyOne(u)
    BY <1>1, <2>1 DEF NotifyOne
  <2>2. CASE MaybeScheduleProcessQueue(u) \/ Schedule(u) \/ ProcessQueue(u) \/ EndProcess(u)
    BY <1>1, <2>2 DEF MaybeScheduleProcessQueue, Schedule, ProcessQueue, EndProcess
  <2>3. CASE SetPromise(u) \/ Iterate(u) \/ IterateNext(u)
    BY <1>1, <2>3 DEF SetPromise, Iterate, IterateNext, Visit
  <2> QED BY ZenonT(30), <1>2, <2>1, <2>2, <2>3 DEF Step
<1>3. ASSUME NEW q \in Producer,
             Signal(q) \/ Synced(q) \/ \E sync \in BOOLEAN : AddToProcessQueue(q, sync)
      PROVE  Synced(p)
  BY <1>1, <1>3 DEF Signal, Synced, AddToProcessQueue
<1>4. ASSUME NEW s \in Server, Serve(s) \/ TakeTask(s) \/ Spurious(s) PROVE Synced(p)
  BY <1>1, <1>4 DEF Serve, TakeTask, Spurious
<1>5. CASE Stop \/ EmptyQueue \/ EmptyQueueTurn
  BY <1>1, <1>5 DEF Stop, EmptyQueue, EmptyQueueTurn
<1>6. ASSUME NEW s \in Subscriber, Register(s) PROVE Synced(p)
  BY <1>6 DEF Register
<1>7. ASSUME NEW i \in Entry, Unregister(i) PROVE Synced(p)
  BY <1>7 DEF Unregister
<1> QED BY ZenonT(30), <1>2, <1>3, <1>4, <1>5, <1>6, <1>7 DEF Next
-----------------------------------------------------------------------------
(* The callback that runs *)
Callback == IF Running = {} THEN None ELSE CHOOSE e \in Running : TRUE

CallbackIs ==
    /\ Idle => Callback = None
    /\ \A t \in Thread : cur[t] # None => Callback = cur[t]

LEMMA CallbackSound == IndInv => CallbackIs
<1> SUFFICES ASSUME IndInv PROVE CallbackIs
  OBVIOUS
<1>1. Worker \subseteq Thread /\ Running = {cur[t] : t \in Worker} \ {None}
  BY DEF Worker, Thread, Running
<1>2. ASSUME Idle PROVE Callback = None
  <2>1. Running = {}
    BY <1>1, <1>2 DEF Idle
  <2> QED BY <2>1 DEF Callback
<1>3. ASSUME NEW t \in Thread, cur[t] # None PROVE Callback = cur[t]
  <2>1. t \in Worker
    BY <1>3 DEF IndInv, QueueInv, Current
  <2>2. \A u \in Worker : cur[u] # None => u = t
    BY <1>1, <1>3, OneCurrent
  <2>3. Running = {cur[t]}
    BY <1>1, <1>3, <2>1, <2>2
  <2> QED BY <2>3 DEF Callback
<1> QED BY <1>2, <1>3 DEF CallbackIs

LEMMA CallbackStep == IndInv /\ IndInv' => CallbackIs /\ CallbackIs'
BY CallbackSound, PTL

LEMMA QueuePut ==
    ASSUME IndInv, NEW p \in Producer, NEW sync \in BOOLEAN, AddToProcessQueue(p, sync)
    PROVE  Promise!Next
<1>1. pending' = Append(pending, events + 1) /\ cur' = cur /\ done' = done /\ events < MaxEvents
  BY DEF AddToProcessQueue
<1>2. events + 1 \in Event
  BY <1>1, BoundAssumption DEF IndInv, TypeOK, Event
<1>3. Running' = Running
  BY <1>1 DEF Running
<1>4. Promise!Put(events + 1)
  BY <1>1, <1>3 DEF Promise!Put
<1> QED BY <1>2, <1>4 DEF Promise!Next

LEMMA QueueStart ==
    ASSUME IndInv, IndInv', NEW t \in Thread, ProcessQueue(t)
    PROVE  Promise!Next \/ UNCHANGED <<pending, Running, done>>
<1>1. CASE ~MayProcess
  BY <1>1 DEF ProcessQueue, Running
<1>2. CASE MayProcess
  <2>1. /\ pc[t] = "process" /\ pending # <<>> /\ ~running /\ done' = done
        /\ cur' = [cur EXCEPT ![t] = Head(pending)] /\ pending' = Tail(pending)
    BY <1>2 DEF ProcessQueue, MayProcess, NextCallback
  <2>2. Idle
    <3>1. \A u \in Worker : ~Busy(u)
      BY <2>1 DEF IndInv, QueueInv, Exclusive
    <3> QED BY Zenon, <3>1 DEF IndInv, QueueInv, Current, Idle, Busy
  <2>3. Head(pending) \in Event /\ cur \in [Thread -> Event \cup {None}]
    BY <2>1 DEF IndInv, TypeOK
  <2>4. cur'[t] = Head(pending) /\ cur'[t] # None
    BY <2>1, <2>3, EventsNumbers
  <2>5. Callback = None /\ Callback' = Head(pending)
    BY <2>2, <2>4, CallbackStep DEF CallbackIs
  <2>6. Promise!Start
    BY <2>1, <2>5 DEF Promise!Start, Callback
  <2> QED BY <2>6 DEF Promise!Next
<1> QED BY <1>1, <1>2

LEMMA QueueFinish ==
    ASSUME IndInv, IndInv', NEW t \in Thread, pc[t] \in {"call", "visit"}, NEW j,
           NEW cnt, NEW reached, Visit(t, j, cnt, reached), pending' = pending
    PROVE  Promise!Next \/ UNCHANGED <<pending, Running, done>>
<1>0. cur \in [Thread -> Event \cup {None}] /\ Producer \cap Worker = {} /\ Thread = Producer \cup Worker
  BY ThreadAssumption DEF IndInv, TypeOK, Worker, Thread
<1>1. CASE j # None
  BY <1>1 DEF Visit, Running
<1>2. CASE j = None /\ t \in Producer
  <2>1. cur[t] = None
    BY <1>0, <1>2 DEF IndInv, QueueInv, Current
  <2>2. cur' = cur /\ done' = done
    BY <1>0, <1>2, <2>1 DEF Visit
  <2> QED BY ZenonT(30), <2>2 DEF Running
<1>3. CASE j = None /\ t \notin Producer
  <2>1. cur[t] # None
    BY <1>0, <1>3 DEF IndInv, QueueInv, Current
  <2>2. done' = Append(done, cur[t]) /\ cur' = [cur EXCEPT ![t] = None]
    BY <1>3 DEF Visit
  <2>3. Idle'
    BY <1>0, <2>1, <2>2, OneCurrent DEF Idle
  <2>4. Callback = cur[t] /\ Callback' = None
    BY <2>1, <2>3, CallbackStep DEF CallbackIs
  <2>5. Promise!Finish
    BY ZenonT(30), <2>1, <2>2, <2>4 DEF Promise!Finish, Callback
  <2> QED BY <2>5 DEF Promise!Next
<1> QED BY <1>1, <1>2, <1>3

LEMMA QueueStep ==
    ASSUME IndInv, IndInv', [Next]_vars
    PROVE  Promise!Next \/ UNCHANGED <<pending, Running, done>>
<1>1. ASSUME NEW t \in Thread, Step(t) PROVE Promise!Next \/ UNCHANGED <<pending, Running, done>>
  <2>1. CASE MaybeScheduleProcessQueue(t) \/ Schedule(t) \/ NotifyOne(t) \/ EndProcess(t)
    BY <2>1 DEF MaybeScheduleProcessQueue, Schedule, NotifyOne, EndProcess, client, Running
  <2>2. CASE ProcessQueue(t)
    BY <2>2, QueueStart
  <2>3. CASE SetPromise(t)
    BY <2>3, QueueFinish DEF SetPromise, client
  <2>4. CASE Iterate(t)
    BY <2>4, QueueFinish DEF Iterate, client
  <2>5. CASE IterateNext(t)
    BY <2>5, QueueFinish DEF IterateNext, client
  <2> QED BY <1>1, <2>1, <2>2, <2>3, <2>4, <2>5 DEF Step
<1>2. ASSUME NEW p \in Producer, NEW sync \in BOOLEAN, AddToProcessQueue(p, sync) PROVE Promise!Next
  BY <1>2, QueuePut
<1>3. ASSUME NEW p \in Producer, Signal(p) \/ Synced(p) PROVE UNCHANGED <<pending, Running, done>>
  <2>1. UNCHANGED <<pending, cur, done>>
    BY <1>3 DEF Signal, Synced, client
  <2> QED BY <2>1 DEF Running
<1>4. ASSUME NEW s \in Server, Serve(s) \/ TakeTask(s) \/ Spurious(s)
      PROVE  UNCHANGED <<pending, Running, done>>
  BY <1>4 DEF Serve, TakeTask, Spurious, client, Running
<1>5. CASE Stop \/ EmptyQueue \/ EmptyQueueTurn \/ UNCHANGED vars
  BY <1>5 DEF Stop, EmptyQueue, EmptyQueueTurn, client, vars, Running
<1>6. ASSUME NEW s \in Subscriber, Register(s) PROVE UNCHANGED <<pending, Running, done>>
  BY ZenonT(30), <1>6 DEF Register, client, Running
<1>7. ASSUME NEW i \in Entry, Unregister(i) PROVE UNCHANGED <<pending, Running, done>>
  BY Zenon, <1>7 DEF Unregister, client, Running
<1> QED BY <1>1, <1>2, <1>3, <1>4, <1>5, <1>6, <1>7 DEF Next
-----------------------------------------------------------------------------
(* The threads, the callback queue, the list of subscribers and the counts  *)
(* of its entries keep their types.                                         *)
THEOREM NotificationsTypeCorrect == Spec => []TypeOK
<1>1. IndInv => TypeOK
  BY DEF IndInv
<1> QED BY <1>1, Invariance, PTL

(* MainSignalsInstance: an entry counts its registration and each thread    *)
(* that is at it, and is in the list exactly as long as the count is not    *)
(* zero, for any number of threads that iterate, register and unregister.   *)
THEOREM EntriesLiveWhileUsed == Spec => []EntriesCounted
<1>1. IndInv => EntriesCounted
  BY DEF IndInv, ListInv
<1> QED BY <1>1, Invariance, PTL

(* MainSignalsInstance::Iterate leaves out no subscriber that stays         *)
(* registered throughout, whatever the other threads do to the list.        *)
THEOREM SubscribersReached == Spec => ReachesAll
<1>1. ASSUME IndInv, [Next]_vars, NEW t \in Thread, pc[t] = "visit", pc'[t] # "visit"
      PROVE  owed[t] \subseteq seen[t]
  <2>1. Next
    BY <1>1 DEF vars
  <2>2. IterateNext(t)
    BY <1>1, <2>1, VisitEnds
  <2>3. Following(it[t]) = None
    BY <1>1, <2>2 DEF IterateNext, Visit, IndInv, TypeOK
  <2>4. map \subseteq list /\ list \subseteq Entry
    BY <1>1, MapListed
  <2>5. {j \in list : j > it[t]} = {}
    BY <2>3, <2>4, FirstSound DEF Following
  <2>6. owed[t] \subseteq map /\ \A i \in owed[t] \ seen[t] : i > it[t]
    BY <1>1 DEF IndInv, ListInv, Ahead
  <2> QED BY <2>4, <2>5, <2>6
<1>2. IndInv /\ [Next]_vars =>
      [\A t \in Thread : (pc[t] = "visit" /\ pc'[t] # "visit") => owed[t] \subseteq seen[t]]_vars
  BY <1>1
<1> QED BY <1>2, Invariance, PTL DEF Spec, ReachesAll

(* SyncWithValidationInterfaceQueue returns only when every callback added  *)
(* before its own has finished.                                             *)
THEOREM SyncDrainsQueue == Spec => SyncDrains
<1>1. ASSUME IndInv, [Next]_vars, NEW p \in Producer, pc[p] = "await", pc'[p] = "idle",
             NEW e \in 1..awaited[p]
      PROVE  \E i \in DOMAIN done : done[i] = e
  <2>1. Next /\ pc'[p] # "await"
    BY <1>1 DEF vars
  <2>2. PICK i \in DOMAIN done : done[i] = awaited[p]
    BY <1>1, <2>1, AwaitEnds DEF Synced
  <2>3. done \in Seq(Event) /\ \A k \in 1..Len(done) : done[k] = k
    BY <1>1 DEF IndInv, TypeOK, QueueInv, Order
  <2>4. DOMAIN done = 1..Len(done) /\ Len(done) \in Nat
    BY <2>3
  <2>5. awaited[p] = i /\ i \in 1..Len(done)
    BY <2>2, <2>3, <2>4
  <2>6. e \in DOMAIN done
    BY <1>1, <2>4, <2>5
  <2> QED BY <2>3, <2>4, <2>6
<1>2. IndInv /\ [Next]_vars =>
      [\A p \in Producer : (pc[p] = "await" /\ pc'[p] = "idle") =>
           \A e \in 1..awaited[p] : \E i \in DOMAIN done : done[i] = e]_vars
  BY <1>1
<1> QED BY <1>2, Invariance, PTL DEF Spec, SyncDrains

(* SingleThreadedSchedulerClient keeps the safety part of what SerialQueue  *)
(* promises: callbacks run one at a time and in the order in which they     *)
(* were added, whichever threads service the scheduler and whether the last *)
(* ones run in EmptyQueue.                                                  *)
THEOREM CallbacksSerial == Spec => Promise!Safety
<1>1. Init => Promise!Init
  <2> SUFFICES ASSUME Init PROVE Promise!Init
    OBVIOUS
  <2>1. Running = {}
    BY DEF Init, Running, Thread
  <2> QED BY <2>1 DEF Init, Promise!Init
<1>2. IndInv /\ IndInv' /\ [Next]_vars => [Promise!Next]_Promise!vars
  <2> SUFFICES ASSUME IndInv, IndInv', [Next]_vars PROVE [Promise!Next]_Promise!vars
    OBVIOUS
  <2>1. Promise!Next \/ UNCHANGED <<pending, Running, done>>
    BY QueueStep
  <2>2. CASE UNCHANGED <<pending, Running, done>>
    <3>1. pending' = pending /\ Running' = Running /\ done' = done
      BY <2>2
    <3>2. UNCHANGED Promise!vars
      BY <3>1 DEF Promise!vars
    <3> QED BY <3>2
  <2>3. CASE Promise!Next
    BY <2>3, Zenon
  <2> QED BY <2>1, <2>2, <2>3
<1> QED BY <1>1, <1>2, Invariance, PTL DEF Spec, Promise!Safety
=============================================================================
