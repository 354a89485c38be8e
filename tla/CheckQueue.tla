----------------------------- MODULE CheckQueue -----------------------------
(***************************************************************************)
(* CCheckQueue and CCheckQueueControl: ConnectBlock queues the script and  *)
(* amount checks of a block, worker threads and in the end ConnectBlock    *)
(* itself (the master) run them in batches, and Wait() returns whether all *)
(* of them passed.  An action is a critical section of m_mutex or a step   *)
(* between two of them; a thread that waits on a condition variable is     *)
(* woken by a notification or spuriously.  A check is an identity and the  *)
(* set failing says which ones fail; a batch is any nNow of the queued     *)
(* checks, as the order of the queue is of no consequence.                 *)
(***************************************************************************)
EXTENDS Integers, FiniteSets

CONSTANTS
    Worker,         \* the threads of StartWorkerThreads
    Master,         \* the thread in ConnectBlock, which holds m_control_mutex
    Check,          \* the checks a block can have
    MayFail,        \* those of them that a block may have fail: a bound
    nBatchSize,
    None            \* no verdict

ASSUME Finiteness == IsFiniteSet(Worker) /\ IsFiniteSet(Check)
ASSUME Threads == Master \notin Worker
ASSUME BatchSize == nBatchSize \in Nat \ {0}
ASSUME NoVerdict == None \notin BOOLEAN

Thread == Worker \cup {Master}

VARIABLES
    pc,             \* where each thread is, see Place
    queue, nIdle, nTotal, fAllOk, nTodo, m_request_stop,
    batch,          \* vChecks of each thread
    fOk,            \* of each thread, when it took its batch
    added,          \* the checks the current block has queued so far
    failing,        \* those of them that fail
    early,          \* ConnectBlock returned before its call of Wait
    verdict,        \* what Wait returned for the last block
    stopper         \* StopWorkerThreads: "no", "notify", "join", "done"

block == <<added, failing, early, verdict>>
vars == <<pc, queue, nIdle, nTotal, fAllOk, nTodo, m_request_stop, batch, fOk, block, stopper>>

(* The worker threads have been created. *)
Init ==
    /\ pc = [t \in Thread |-> IF t = Master THEN "out" ELSE "start"]
    /\ queue = {} /\ nIdle = 0 /\ nTotal = 0 /\ fAllOk = TRUE /\ nTodo = 0
    /\ m_request_stop = FALSE
    /\ batch = [t \in Thread |-> {}]
    /\ fOk = [t \in Thread |-> TRUE]
    /\ added = {} /\ failing = {} /\ early = FALSE /\ verdict = None
    /\ stopper = "no"
-----------------------------------------------------------------------------
(* ConnectBlock *)

(* The constructor of CCheckQueueControl. *)
Begin ==
    /\ pc[Master] = "out"
    /\ stopper = "no"
    /\ pc' = [pc EXCEPT ![Master] = "adding"]
    /\ added' = {} /\ failing' = {} /\ early' = FALSE /\ verdict' = None
    /\ UNCHANGED <<queue, nIdle, nTotal, fAllOk, nTodo, m_request_stop, batch, fOk, stopper>>

(* The critical section of Add. *)
Add(new, bad) ==
    /\ pc[Master] = "adding"
    /\ queue' = queue \cup new
    /\ nTodo' = nTodo + Cardinality(new)
    /\ added' = added \cup new
    /\ failing' = failing \cup bad
    /\ pc' = [pc EXCEPT ![Master] = IF Cardinality(new) = 1 THEN "notify one" ELSE "notify all"]
    /\ UNCHANGED <<nIdle, nTotal, fAllOk, m_request_stop, batch, fOk, early, verdict, stopper>>

(* The end of Add, after m_mutex is released. *)
Notify ==
    /\ \/ /\ pc[Master] = "notify all"
          /\ pc' = [t \in Thread |-> IF t = Master THEN "adding"
                                     ELSE IF pc[t] = "wait" THEN "woken" ELSE pc[t]]
       \/ /\ pc[Master] = "notify one"
          /\ \E w \in Worker : pc[w] = "wait" /\ pc' = [pc EXCEPT ![Master] = "adding", ![w] = "woken"]
       \/ /\ pc[Master] = "notify one"
          /\ \A w \in Worker : pc[w] # "wait"
          /\ pc' = [pc EXCEPT ![Master] = "adding"]
    /\ UNCHANGED <<queue, nIdle, nTotal, fAllOk, nTodo, m_request_stop, batch, fOk, block, stopper>>

(* ConnectBlock calls Wait, or returns early and the destructor of          *)
(* CCheckQueueControl calls it.                                             *)
EndBlock ==
    /\ pc[Master] = "adding"
    /\ pc' = [pc EXCEPT ![Master] = "start"]
    /\ early' \in BOOLEAN
    /\ UNCHANGED <<queue, nIdle, nTotal, fAllOk, nTodo, m_request_stop, batch, fOk, added, failing, verdict, stopper>>
-----------------------------------------------------------------------------
(* Loop: what a thread that gets m_mutex finds after the clean-up of its    *)
(* previous turn.                                                           *)

Runnable(t) == pc[t] \in {"start", "woken", "work"}

(* The first iteration counts the thread in. *)
Total(t) == IF pc[t] = "start" THEN nTotal + 1 ELSE nTotal

Idle(t) == IF pc[t] = "woken" THEN nIdle - 1 ELSE nIdle

(* Executing the batch: checks are skipped once one has failed. *)
BatchOk(t) == fOk[t] /\ batch[t] \cap failing = {}

(* The last batch decides. *)
AllOk_Last(t) == IF pc[t] = "work" THEN BatchOk(t) ELSE fAllOk

AllOk(t) == IF pc[t] = "work" THEN fAllOk /\ BatchOk(t) ELSE fAllOk

Left(t) == IF pc[t] = "work" THEN nTodo - Cardinality(batch[t]) ELSE nTodo

(* The test before the subtraction. *)
WakesMaster_Before(t) == pc[t] = "work" /\ nTodo = 0 /\ t # Master

(* m_master_cv.notify_one() *)
WakesMaster(t) == pc[t] = "work" /\ Left(t) = 0 /\ t # Master

(* pc after thread t goes to state s. *)
Go(t, s) ==
    pc' = [u \in Thread |-> IF u = t THEN s
                            ELSE IF u = Master /\ WakesMaster(t) /\ pc[u] = "wait" THEN "woken"
                            ELSE pc[u]]

(* The master leaves as soon as nothing is queued. *)
MayReturn_QueueEmpty(t) == t = Master

MayReturn(t) == t = Master /\ Left(t) = 0

(* The master finds everything done. *)
LoopReturn ==
    /\ Runnable(Master)
    /\ queue = {} /\ ~m_request_stop /\ MayReturn(Master)
    /\ nTotal' = Total(Master) - 1
    /\ nIdle' = Idle(Master)
    /\ nTodo' = Left(Master)
    /\ verdict' = IF early THEN None ELSE AllOk(Master)
    /\ fAllOk' = TRUE
    /\ batch' = [batch EXCEPT ![Master] = {}]
    /\ Go(Master, "out")
    /\ UNCHANGED <<queue, m_request_stop, fOk, added, failing, early, stopper>>

(* Nothing to do: wait. *)
LoopWait(t) ==
    /\ Runnable(t)
    /\ queue = {} /\ ~m_request_stop /\ ~MayReturn(t)
    /\ nTotal' = Total(t)
    /\ nIdle' = Idle(t) + 1
    /\ nTodo' = Left(t)
    /\ fAllOk' = AllOk(t)
    /\ batch' = [batch EXCEPT ![t] = {}]
    /\ Go(t, "wait")
    /\ UNCHANGED <<queue, m_request_stop, fOk, block, stopper>>

(* How many checks a thread takes. *)
Share(t) ==
    LET even == Cardinality(queue) \div (Total(t) + Idle(t) + 1)
        most == IF even < nBatchSize THEN even ELSE nBatchSize
    IN IF most < 1 THEN 1 ELSE most

(* Take a batch, to be executed without m_mutex. *)
LoopTake(t) ==
    /\ Runnable(t)
    /\ queue # {} /\ ~m_request_stop
    /\ \E vChecks \in {S \in SUBSET queue : Cardinality(S) = Share(t)} :
           /\ batch' = [batch EXCEPT ![t] = vChecks]
           /\ queue' = queue \ vChecks
    /\ nTotal' = Total(t)
    /\ nIdle' = Idle(t)
    /\ nTodo' = Left(t)
    /\ fAllOk' = AllOk(t)
    /\ fOk' = [fOk EXCEPT ![t] = AllOk(t)]
    /\ Go(t, "work")
    /\ UNCHANGED <<m_request_stop, block, stopper>>

(* A worker finds m_request_stop set. *)
LoopQuit(t) ==
    /\ Runnable(t)
    /\ m_request_stop
    /\ nTotal' = Total(t)
    /\ nIdle' = Idle(t)
    /\ nTodo' = Left(t)
    /\ fAllOk' = AllOk(t)
    /\ batch' = [batch EXCEPT ![t] = {}]
    /\ Go(t, "done")
    /\ UNCHANGED <<queue, m_request_stop, fOk, block, stopper>>

Loop(t) == (t = Master /\ LoopReturn) \/ LoopWait(t) \/ LoopTake(t) \/ LoopQuit(t)

(* A condition variable may wake a thread for no reason. *)
Spurious(t) ==
    /\ pc[t] = "wait"
    /\ pc' = [pc EXCEPT ![t] = "woken"]
    /\ UNCHANGED <<queue, nIdle, nTotal, fAllOk, nTodo, m_request_stop, batch, fOk, block, stopper>>
-----------------------------------------------------------------------------
(* StopWorkerThreads, called when no thread connects blocks any more. *)

StopRequest ==
    /\ stopper = "no"
    /\ pc[Master] = "out"
    /\ m_request_stop' = TRUE
    /\ stopper' = "notify"
    /\ UNCHANGED <<pc, queue, nIdle, nTotal, fAllOk, nTodo, batch, fOk, block>>

(* One worker is notified. *)
StopNotify_One ==
    /\ stopper = "notify"
    /\ stopper' = "join"
    /\ \/ \E w \in Worker : pc[w] = "wait" /\ pc' = [pc EXCEPT ![w] = "woken"]
       \/ (\A w \in Worker : pc[w] # "wait") /\ pc' = pc
    /\ UNCHANGED <<queue, nIdle, nTotal, fAllOk, nTodo, m_request_stop, batch, fOk, block>>

StopNotify ==
    /\ stopper = "notify"
    /\ stopper' = "join"
    /\ pc' = [t \in Thread |-> IF t # Master /\ pc[t] = "wait" THEN "woken" ELSE pc[t]]
    /\ UNCHANGED <<queue, nIdle, nTotal, fAllOk, nTodo, m_request_stop, batch, fOk, block>>

StopJoin ==
    /\ stopper = "join"
    /\ \A w \in Worker : pc[w] = "done"
    /\ stopper' = "done"
    /\ m_request_stop' = FALSE
    /\ UNCHANGED <<pc, queue, nIdle, nTotal, fAllOk, nTodo, batch, fOk, block>>
-----------------------------------------------------------------------------
Next ==
    \/ Begin \/ Notify \/ EndBlock
    \/ \E new \in SUBSET (Check \ added) : \E bad \in SUBSET (new \cap MayFail) : new # {} /\ Add(new, bad)
    \/ \E t \in Thread : Loop(t) \/ Spurious(t)
    \/ StopRequest \/ StopNotify \/ StopJoin

(* Threads that can run do: each gets m_mutex in the end, a block has       *)
(* finitely many checks, and a check terminates.                            *)
Fairness ==
    /\ \A t \in Thread : WF_vars(Loop(t))
    /\ WF_vars(Notify) /\ WF_vars(EndBlock)
    /\ WF_vars(StopNotify) /\ WF_vars(StopJoin)

Spec == Init /\ [][Next]_vars /\ Fairness
-----------------------------------------------------------------------------
(* The checks that are queued or in a batch. *)
Todo == queue \cup UNION {batch[t] : t \in Thread}

Asleep == {t \in Thread : pc[t] \in {"wait", "woken"}}

(* The threads in Loop, and the workers that left it because of the stop. *)
Entered == {t \in Thread : pc[t] \in {"wait", "woken", "work", "done"}}

Place == {"out", "adding", "notify one", "notify all", "start", "wait", "woken", "work", "done"}

(* The type invariant. *)
TypeOK ==
    /\ pc \in [Thread -> Place]
    /\ queue \in SUBSET Check /\ added \in SUBSET Check /\ failing \in SUBSET added
    /\ nIdle \in Nat /\ nTotal \in Nat /\ nTodo \in Nat
    /\ fAllOk \in BOOLEAN /\ m_request_stop \in BOOLEAN /\ early \in BOOLEAN
    /\ batch \in [Thread -> SUBSET Check]
    /\ fOk \in [Thread -> BOOLEAN]
    /\ verdict \in BOOLEAN \cup {None}
    /\ stopper \in {"no", "notify", "join", "done"}

(* Wait() returns true exactly if every check of this block passes: no      *)
(* failure is lost between the threads, or left over for the next block.    *)
VerdictExact == verdict # None => (verdict <=> failing = {})

(* Once CCheckQueueControl is gone no thread runs or holds a check, so what *)
(* the checks point to may go, and the next block starts with a clean       *)
(* status.                                                                  *)
NothingLeft == pc[Master] = "out" => Todo = {} /\ nTodo = 0 /\ fAllOk

(* nTodo, nIdle and nTotal count what their comments say, whatever the      *)
(* interleaving of batches, wake-ups and blocks.                            *)
CountersExact ==
    /\ nTodo = Cardinality(Todo)
    /\ nIdle = Cardinality(Asleep)
    /\ nTotal = Cardinality(Entered)

(* No wake-up of the master or of the workers is lost: ConnectBlock gets    *)
(* its answer.                                                              *)
WaitReturns == pc[Master] = "start" ~> pc[Master] = "out"

(* StopWorkerThreads joins every worker. *)
StopCompletes == stopper = "notify" ~> stopper = "done"
=============================================================================
