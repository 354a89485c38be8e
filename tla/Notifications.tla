---------------------------- MODULE Notifications ----------------------------
(***************************************************************************)
(* How validation tells its subscribers what happened.  Validation threads *)
(* append callbacks to the list of a SingleThreadedSchedulerClient, which  *)
(* schedules ProcessQueue on a CScheduler; the threads that serve it run   *)
(* one callback at a time, and a callback visits the subscriber list of    *)
(* MainSignalsInstance, which releases its mutex during each visit.        *)
(* BlockChecked and NewPoWValidBlock visit the list from the validation    *)
(* thread.  At shutdown the scheduler stops and EmptyQueue runs the rest.  *)
(*                                                                         *)
(* An action is one critical section or a step between two.  Callbacks are *)
(* numbered in the order of AddToProcessQueue, list entries in the order   *)
(* of Register.  Every task is due at once, so a server that finds one     *)
(* waits with a time that has passed; other timed tasks are left out.      *)
(***************************************************************************)
EXTENDS Naturals, Sequences, FiniteSets, Functions

CONSTANTS
    Producer,       \* validation threads
    Server,         \* threads in CScheduler::serviceQueue
    Flusher,        \* the shutdown thread in EmptyQueue
    Subscriber,
    MaxEvents,      \* bound: callbacks added
    MaxEntries,     \* bound: registrations
    None

ASSUME ThreadAssumption ==
    /\ IsFiniteSet(Producer) /\ IsFiniteSet(Server) /\ Producer \cap Server = {}
    /\ Flusher \notin Producer \cup Server

ASSUME BoundAssumption ==
    /\ IsFiniteSet(Subscriber)
    /\ MaxEvents \in Nat /\ MaxEntries \in Nat /\ Cardinality(Subscriber) <= MaxEntries
    /\ None \notin Nat

Thread == Producer \cup Server \cup {Flusher}
Event == 1..MaxEvents
Entry == 1..MaxEntries

VARIABLES
    pc, cur,        \* of each thread: where it is and which callback it runs
    pending, running,   \* m_callbacks_pending, m_are_callbacks_running
    tasks,          \* ProcessQueue tasks in taskQueue
    stop,           \* stopRequested
    events,         \* callbacks added so far
    awaited,        \* of each producer: the callback SyncWithValidationInterfaceQueue waits for
    done,           \* history: callbacks that have finished
    list,           \* the entries in m_list, which holds them in the order of their numbers
    callbacks,      \* the subscriber of each entry
    count,          \* of each entry
    map,            \* the entries in m_map
    entries,        \* registrations so far
    it,             \* of each thread: the entry it visits
    owed, seen,     \* history of each visit: entries it must reach, entries reached
    flush           \* shutdown: "no", "stop", "run", "done"

client == <<pending, running, events, awaited>>
signals == <<list, callbacks, count, map, entries>>
visits == <<it, owed, seen>>
vars == <<pc, cur, client, tasks, stop, done, signals, visits, flush>>

(* Every subscriber is registered once; the servers have just started. *)
Init ==
    /\ pc = [t \in Thread |-> IF t \in Server THEN "loop" ELSE "idle"]
    /\ cur = [t \in Thread |-> None]
    /\ pending = <<>> /\ running = FALSE /\ tasks = 0 /\ stop = FALSE
    /\ events = 0 /\ awaited = [p \in Producer |-> None] /\ done = <<>>
    /\ callbacks = LET order == CHOOSE f \in Bijection(1..Cardinality(Subscriber), Subscriber) : TRUE
                   IN [i \in Entry |-> IF i \in DOMAIN order THEN order[i] ELSE None]
    /\ entries = Cardinality(Subscriber)
    /\ list = 1..entries
    /\ map = 1..entries
    /\ count = [i \in Entry |-> IF i \in map THEN 1 ELSE 0]
    /\ it = [t \in Thread |-> None]
    /\ owed = [t \in Thread |-> {}] /\ seen = [t \in Thread |-> {}]
    /\ flush = "no"

(* Where a thread continues after a call of the client. *)
Back(t) ==
    CASE t \in Server -> "loop"
      [] t = Flusher -> "check"
      [] t \in Producer /\ awaited[t] # None -> "await"
      [] OTHER -> "idle"
-----------------------------------------------------------------------------
(* SingleThreadedSchedulerClient *)

(* AddToProcessQueue, its critical section; once the scheduler is stopped   *)
(* only the shutdown itself adds callbacks (ChainStateFlushed), after it    *)
(* has joined the servers and before it empties the queue.                  *)
AddToProcessQueue(p, sync) ==
    /\ pc[p] = "idle"
    /\ \/ flush = "no"
       \/ flush = "stop" /\ ~sync /\ \A s \in Server : pc[s] = "exit"
    /\ events < MaxEvents
    /\ events' = events + 1
    /\ pending' = Append(pending, events')
    /\ awaited' = [awaited EXCEPT ![p] = IF sync THEN events' ELSE None]
    /\ pc' = [pc EXCEPT ![p] = "maybe"]
    /\ UNCHANGED <<cur, running, tasks, stop, done, signals, visits, flush>>

(* MaybeScheduleProcessQueue, its critical section. *)
MaybeScheduleProcessQueue(t) ==
    /\ pc[t] = "maybe"
    /\ pc' = [pc EXCEPT ![t] = IF running \/ pending = <<>> THEN Back(t) ELSE "schedule"]
    /\ UNCHANGED <<cur, client, tasks, stop, done, signals, visits, flush>>

(* CScheduler::schedule *)
Schedule(t) ==
    /\ pc[t] = "schedule"
    /\ tasks' = tasks + 1
    /\ pc' = [pc EXCEPT ![t] = "notify"]
    /\ UNCHANGED <<cur, client, stop, done, signals, visits, flush>>

(* newTaskScheduled.notify_one(), after the unlock; a server that waits for *)
(* the time of a task may be the one that is notified.                      *)
NotifyOne(t) ==
    /\ pc[t] = "notify"
    /\ \/ /\ \E s \in Server : pc[s] = "wait" /\ pc' = [pc EXCEPT ![t] = Back(t), ![s] = "loop"]
       \/ /\ (\E s \in Server : pc[s] = "timed") \/ (\A s \in Server : pc[s] # "wait")
          /\ pc' = [pc EXCEPT ![t] = Back(t)]
    /\ UNCHANGED <<cur, client, tasks, stop, done, signals, visits, flush>>

(* A second ProcessQueue does not look at m_are_callbacks_running. *)
MayProcess_Always == pending # <<>>

MayProcess == ~running /\ pending # <<>>

(* The newest callback first. *)
NextCallback_Newest == pending[Len(pending)]

NextCallback == Head(pending)

(* The critical section of ProcessQueue. *)
ProcessQueue(t) ==
    /\ pc[t] = "process"
    /\ IF MayProcess
       THEN /\ running' = TRUE
            /\ cur' = [cur EXCEPT ![t] = NextCallback]
            /\ pending' = Tail(pending)
            /\ pc' = [pc EXCEPT ![t] = "call"]
       ELSE /\ pc' = [pc EXCEPT ![t] = Back(t)]
            /\ UNCHANGED <<cur, pending, running>>
    /\ UNCHANGED <<tasks, stop, events, awaited, done, signals, visits, flush>>

(* ~RAIICallbacksRunning, which goes on to MaybeScheduleProcessQueue. *)
EndProcess(t) ==
    /\ pc[t] = "end"
    /\ running' = FALSE
    /\ pc' = [pc EXCEPT ![t] = "maybe"]
    /\ UNCHANGED <<cur, pending, tasks, stop, events, awaited, done, signals, visits, flush>>

(* The future of SyncWithValidationInterfaceQueue is ready. *)
Synced(p) ==
    /\ pc[p] = "await"
    /\ \E i \in DOMAIN done : done[i] = awaited[p]
    /\ pc' = [pc EXCEPT ![p] = "idle"]
    /\ awaited' = [awaited EXCEPT ![p] = None]
    /\ UNCHANGED <<cur, pending, running, events, tasks, stop, done, signals, visits, flush>>
-----------------------------------------------------------------------------
(* CScheduler::serviceQueue *)

(* The loop, up to the wait. *)
Serve(s) ==
    /\ pc[s] = "loop"
    /\ pc' = [pc EXCEPT ![s] = IF stop THEN "exit" ELSE IF tasks = 0 THEN "wait" ELSE "timed"]
    /\ UNCHANGED <<cur, client, tasks, stop, done, signals, visits, flush>>

(* The task is taken without another look at the queue. *)
TakeTask_NoRecheck(s) ==
    /\ pc[s] = "timed"
    /\ tasks' = tasks - 1 /\ pc' = [pc EXCEPT ![s] = "process"]
    /\ UNCHANGED <<cur, client, stop, done, signals, visits, flush>>

(* wait_until is over: another server may have taken the task meanwhile. *)
TakeTask(s) ==
    /\ pc[s] = "timed"
    /\ IF stop \/ tasks = 0
       THEN tasks' = tasks /\ pc' = [pc EXCEPT ![s] = "loop"]
       ELSE tasks' = tasks - 1 /\ pc' = [pc EXCEPT ![s] = "process"]
    /\ UNCHANGED <<cur, client, stop, done, signals, visits, flush>>

(* A condition variable may wake a thread for no reason. *)
Spurious(s) ==
    /\ pc[s] = "wait"
    /\ pc' = [pc EXCEPT ![s] = "loop"]
    /\ UNCHANGED <<cur, client, tasks, stop, done, signals, visits, flush>>

(* CScheduler::stop, when the other threads are gone. *)
Stop ==
    /\ flush = "no"
    /\ \A p \in Producer : pc[p] = "idle"
    /\ flush' = "stop"
    /\ stop' = TRUE
    /\ pc' = [t \in Thread |-> IF pc[t] = "wait" THEN "loop" ELSE pc[t]]
    /\ UNCHANGED <<cur, client, tasks, done, signals, visits>>

(* stop() has joined the threads; FlushBackgroundCallbacks calls EmptyQueue. *)
EmptyQueue ==
    /\ flush = "stop"
    /\ \A s \in Server : pc[s] = "exit"
    /\ \A p \in Producer : pc[p] = "idle"
    /\ flush' = "run"
    /\ pc' = [pc EXCEPT ![Flusher] = "process"]
    /\ UNCHANGED <<cur, client, tasks, stop, done, signals, visits>>

(* The end of a turn of its loop. *)
EmptyQueueTurn ==
    /\ pc[Flusher] = "check"
    /\ IF pending # <<>>
       THEN pc' = [pc EXCEPT ![Flusher] = "process"] /\ flush' = flush
       ELSE pc' = [pc EXCEPT ![Flusher] = "idle"] /\ flush' = "done"
    /\ UNCHANGED <<cur, client, tasks, stop, done, signals, visits>>
-----------------------------------------------------------------------------
(* MainSignalsInstance *)

(* Register: a subscriber without an entry in m_map gets a new one. *)
Register(s) ==
    /\ flush # "done"
    /\ entries < MaxEntries
    /\ \A i \in map : callbacks[i] # s
    /\ entries' = entries + 1
    /\ list' = list \cup {entries'}
    /\ map' = map \cup {entries'}
    /\ callbacks' = [callbacks EXCEPT ![entries'] = s]
    /\ count' = [count EXCEPT ![entries'] = 1]
    /\ UNCHANGED <<pc, cur, client, tasks, stop, done, visits, flush>>

(* The entry goes although it is being visited. *)
Unregister_Erase(i) ==
    /\ flush # "done"
    /\ i \in map
    /\ map' = map \ {i}
    /\ count' = [count EXCEPT ![i] = @ - 1]
    /\ list' = list \ {i}
    /\ owed' = [t \in Thread |-> owed[t] \ {i}]
    /\ UNCHANGED <<pc, cur, client, tasks, stop, done, callbacks, entries, it, seen, flush>>

(* Unregister, and Clear for each entry: the last reference erases it. *)
Unregister(i) ==
    /\ flush # "done"
    /\ i \in map
    /\ map' = map \ {i}
    /\ count' = [count EXCEPT ![i] = @ - 1]
    /\ list' = IF count'[i] = 0 THEN list \ {i} ELSE list
    /\ owed' = [t \in Thread |-> owed[t] \ {i}]
    /\ UNCHANGED <<pc, cur, client, tasks, stop, done, callbacks, entries, it, seen, flush>>

(* Thread t is at entry i of the list, or at its end (None). *)
Visit(t, i, cnt, reached) ==
    /\ it' = [it EXCEPT ![t] = i]
    /\ IF i = None
       THEN /\ count' = cnt
            /\ pc' = [pc EXCEPT ![t] = IF t \in Producer THEN "idle" ELSE "end"]
            /\ done' = IF t \in Producer THEN done ELSE Append(done, cur[t])
            /\ cur' = [cur EXCEPT ![t] = None]
            /\ seen' = [seen EXCEPT ![t] = {}]
       ELSE /\ count' = [cnt EXCEPT ![i] = @ + 1]
            /\ pc' = [pc EXCEPT ![t] = "visit"]
            /\ seen' = [seen EXCEPT ![t] = reached \cup {i}]
            /\ UNCHANGED <<done, cur>>

(* BlockChecked and NewPoWValidBlock, on the validation thread. *)
Signal(p) ==
    /\ pc[p] = "idle"
    /\ flush = "no"
    /\ pc' = [pc EXCEPT ![p] = "call"]
    /\ UNCHANGED <<cur, client, tasks, stop, done, signals, visits, flush>>

(* The first of some entries of the list. *)
First(S) == IF S = {} THEN None ELSE CHOOSE i \in S : \A j \in S : i <= j

IsPromise(t) == \E p \in Producer : awaited[p] # None /\ cur[t] = awaited[p]

(* The callback of SyncWithValidationInterfaceQueue sets its promise. *)
SetPromise(t) ==
    /\ pc[t] = "call"
    /\ IsPromise(t)
    /\ Visit(t, None, count, {})
    /\ UNCHANGED <<client, tasks, stop, list, callbacks, map, entries, owed, flush>>

(* Iterate takes the mutex and goes to the first entry. *)
Iterate(t) ==
    /\ pc[t] = "call"
    /\ ~IsPromise(t)
    /\ Visit(t, First(list), count, {})
    /\ owed' = [owed EXCEPT ![t] = map]
    /\ UNCHANGED <<client, tasks, stop, list, callbacks, map, entries, flush>>

(* A visit that keeps no reference: an entry unregistered meanwhile is gone *)
(* from the list and the iteration ends.                                    *)
Following_Lost(i) == IF i \notin map THEN None ELSE First({j \in list : j > i})

(* The entry after entry i, std::next(it) or what erase returns. *)
Following(i) == First({j \in list : j > i})

(* The subscriber returns; the next visit begins in the same critical       *)
(* section.                                                                 *)
IterateNext(t) ==
    /\ pc[t] = "visit"
    /\ LET i == it[t]
           cnt == [count EXCEPT ![i] = @ - 1]
       IN /\ Visit(t, Following(i), cnt, seen[t])
          /\ list' = IF cnt[i] = 0 THEN list \ {i} ELSE list
          /\ owed' = IF Following(i) = None THEN [owed EXCEPT ![t] = {}] ELSE owed
    /\ UNCHANGED <<client, tasks, stop, callbacks, map, entries, flush>>
-----------------------------------------------------------------------------
Step(t) ==
    \/ MaybeScheduleProcessQueue(t) \/ Schedule(t) \/ NotifyOne(t)
    \/ ProcessQueue(t) \/ EndProcess(t)
    \/ SetPromise(t) \/ Iterate(t) \/ IterateNext(t)

Next ==
    \/ \E t \in Thread : Step(t)
    \/ \E p \in Producer : Signal(p) \/ Synced(p) \/ \E sync \in BOOLEAN : AddToProcessQueue(p, sync)
    \/ \E s \in Server : Serve(s) \/ TakeTask(s) \/ Spurious(s)
    \/ Stop \/ EmptyQueue \/ EmptyQueueTurn
    \/ \E s \in Subscriber : Register(s)
    \/ \E i \in Entry : Unregister(i)

(* Every thread that can go on does, and callbacks return. *)
Fairness ==
    /\ \A t \in Thread : WF_vars(Step(t))
    /\ \A s \in Server : WF_vars(Serve(s) \/ TakeTask(s))
    /\ \A p \in Producer : WF_vars(Synced(p))
    /\ WF_vars(EmptyQueue) /\ WF_vars(EmptyQueueTurn)

Spec == Init /\ [][Next]_vars /\ Fairness
-----------------------------------------------------------------------------
(* The type invariant. *)
TypeOK ==
    /\ pc \in [Thread -> {"idle", "maybe", "schedule", "notify", "await", "process", "call", "visit",
                          "end", "check", "loop", "wait", "timed", "exit"}]
    /\ cur \in [Thread -> Event \cup {None}]
    /\ pending \in Seq(Event) /\ done \in Seq(Event)
    /\ running \in BOOLEAN /\ stop \in BOOLEAN
    /\ tasks \in Nat /\ events \in 0..MaxEvents /\ entries \in 0..MaxEntries
    /\ awaited \in [Producer -> Event \cup {None}]
    /\ list \subseteq Entry /\ map \subseteq Entry
    /\ callbacks \in [Entry -> Subscriber \cup {None}]
    /\ count \in [Entry -> Nat]
    /\ it \in [Thread -> Entry \cup {None}]
    /\ owed \in [Thread -> SUBSET Entry] /\ seen \in [Thread -> SUBSET Entry]
    /\ flush \in {"no", "stop", "run", "done"}

(* The comment on ListEntry: the count is the number of current executions, *)
(* plus 1 if it is registered, and the list holds exactly the entries whose *)
(* count is not 0, so no thread visits an entry that was erased.            *)
EntriesCounted ==
    /\ \A i \in Entry :
          count[i] = Cardinality({t \in Thread : it[t] = i}) + (IF i \in map THEN 1 ELSE 0)
    /\ list = {i \in Entry : count[i] # 0}

(* A subscriber that stays registered while a signal is delivered is        *)
(* reached by it, whoever else registers, unregisters or is visited by      *)
(* another thread meanwhile.                                                *)
ReachesAll ==
    [][\A t \in Thread : (pc[t] = "visit" /\ pc'[t] # "visit") => owed[t] \subseteq seen[t]]_vars

(* CallFunctionInValidationInterfaceQueue: "any callbacks generated prior   *)
(* to now are finished when the function is called", so they are when       *)
(* SyncWithValidationInterfaceQueue returns.                                *)
SyncDrains ==
    [][\A p \in Producer : (pc[p] = "await" /\ pc'[p] = "idle") =>
           \A e \in 1..awaited[p] : \E i \in DOMAIN done : done[i] = e]_vars

(* The callback that runs, or has run while its end is not yet published. *)
Running == {cur[t] : t \in Server \cup {Flusher}} \ {None}

Promise == INSTANCE SerialQueue WITH
    current <- IF Running = {} THEN None ELSE CHOOSE e \in Running : TRUE

(* What SingleThreadedSchedulerClient promises: callbacks run one at a      *)
(* time, in order, and each of them does, even if the scheduler stops.      *)
RunsSerially == Promise!Spec

=============================================================================
