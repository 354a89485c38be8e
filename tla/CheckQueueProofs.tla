-------------------------- MODULE CheckQueueProofs --------------------------
(***************************************************************************)
(* For any number of workers, any set of checks and any batch size: Wait() *)
(* returns the right verdict, nothing of a block is left when its          *)
(* CCheckQueueControl is gone, and the three counters are exact.           *)
(***************************************************************************)
EXTENDS CheckQueue, FiniteSetTheorems, TLAPS

(* Where the threads can be; ConnectBlock is over when the workers stop. *)
Places ==
    /\ \A w \in Worker : pc[w] \in {"start", "wait", "woken", "work", "done"}
    /\ pc[Master] # "done"
    /\ stopper # "no" => pc[Master] = "out"
    /\ m_request_stop => stopper \in {"notify", "join"}
    /\ verdict # None => pc[Master] = "out"

(* A check is in one place, and outside the critical sections exactly the   *)
(* working threads hold any.                                                *)
Disjoint ==
    /\ \A t \in Thread : pc[t] = "work" <=> batch[t] # {}
    /\ \A t \in Thread : batch[t] \cap queue = {}
    /\ \A t, u \in Thread : t # u => batch[t] \cap batch[u] = {}
    /\ Todo \subseteq added

(* While a block is checked, fAllOk says whether a failure has been         *)
(* reported: the ones that have not are still to do.                        *)
Status ==
    /\ pc[Master] # "out" /\ fAllOk => failing \subseteq Todo
    /\ ~fAllOk => failing # {}
    /\ \A t \in Thread : pc[t] = "work" /\ ~fOk[t] => ~fAllOk

(* The inductive invariant. *)
IInv == TypeOK /\ Places /\ Disjoint /\ Status /\ CountersExact /\ NothingLeft /\ VerdictExact
-----------------------------------------------------------------------------
LEMMA TodoMember ==
    \A c : c \in Todo <=> c \in queue \/ \E t \in Thread : c \in batch[t]
BY DEF Todo

LEMMA Update ==
    ASSUME NEW f \in [Thread -> Place], NEW t \in Thread, NEW s \in Place
    PROVE  /\ [f EXCEPT ![t] = s] \in [Thread -> Place]
           /\ [f EXCEPT ![t] = s][t] = s
           /\ \A u \in Thread : u # t => [f EXCEPT ![t] = s][u] = f[u]
OBVIOUS

LEMMA PcType ==
    ASSUME TypeOK
    PROVE  pc \in [Thread -> Place] /\ Master \in Thread /\ Worker \subseteq Thread
BY DEF TypeOK, Thread

LEMMA PlacesInPlace ==
    \A s \in {"adding", "notify one", "notify all", "start", "woken"} : s \in Place
BY DEF Place

LEMMA ThreadsFinite == IsFiniteSet(Thread)
BY Finiteness, FS_AddElement DEF Thread

LEMMA AsleepFinite == IsFiniteSet(Asleep) /\ IsFiniteSet(Entered)
<1>1. Asleep \in SUBSET Thread /\ Entered \in SUBSET Thread
  BY DEF Asleep, Entered
<1> QED
  BY <1>1, ThreadsFinite, FS_Subset

LEMMA TodoFinite ==
    ASSUME TypeOK
    PROVE  Todo \in SUBSET Check /\ IsFiniteSet(Todo)
<1>1. Todo \in SUBSET Check
  BY TodoMember DEF TypeOK
<1> QED
  BY <1>1, Finiteness, FS_Subset

(* The number of checks left after the clean-up of thread t. *)
LEMMA LeftExact ==
    ASSUME IInv, NEW t \in Thread, Runnable(t)
    PROVE  /\ IsFiniteSet(Todo \ batch[t])
           /\ Left(t) = Cardinality(Todo \ batch[t])
           /\ Left(t) \in Nat
           /\ Left(t) = 0 <=> Todo \ batch[t] = {}
<1>1. IsFiniteSet(Todo) /\ nTodo = Cardinality(Todo)
  BY TodoFinite DEF IInv, CountersExact
<1>2. Todo \cap batch[t] = batch[t]
  BY TodoMember
<1>3. /\ IsFiniteSet(Todo \ batch[t])
      /\ Cardinality(Todo \ batch[t]) = nTodo - Cardinality(batch[t])
  BY <1>1, <1>2, FS_Difference
<1>4. pc[t] # "work" => Cardinality(batch[t]) = 0
  BY FS_EmptySet DEF IInv, Disjoint
<1>5. nTodo \in Nat
  BY DEF IInv, TypeOK
<1>6. Left(t) = Cardinality(Todo \ batch[t])
  BY <1>3, <1>4, <1>5 DEF Left
<1>7. /\ Cardinality(Todo \ batch[t]) \in Nat
      /\ Cardinality(Todo \ batch[t]) = 0 <=> Todo \ batch[t] = {}
  BY <1>3, FS_CardinalityType, FS_EmptySet
<1> QED
  BY <1>3, <1>6, <1>7

(* The status after the clean-up of thread t. *)
LEMMA AllOkExact ==
    ASSUME IInv, NEW t \in Thread, Runnable(t)
    PROVE  /\ AllOk(t) \in BOOLEAN
           /\ AllOk(t) => fAllOk
           /\ pc[Master] # "out" /\ AllOk(t) => failing \subseteq Todo \ batch[t]
           /\ ~AllOk(t) => failing # {}
<1>1. fAllOk \in BOOLEAN /\ fOk[t] \in BOOLEAN
  BY DEF IInv, TypeOK
<1>2. CASE pc[t] = "work"
  <2>1. AllOk(t) <=> fAllOk /\ fOk[t] /\ batch[t] \cap failing = {}
    BY <1>2 DEF AllOk, BatchOk
  <2>2. ~fOk[t] => ~fAllOk
    BY <1>2 DEF IInv, Status
  <2>3. AllOk(t) \in BOOLEAN
    BY <1>1, <1>2 DEF AllOk, BatchOk
  <2> QED
    BY <2>1, <2>2, <2>3 DEF IInv, Status
<1>3. CASE pc[t] # "work"
  <2>1. AllOk(t) = fAllOk /\ batch[t] = {}
    BY <1>3 DEF AllOk, IInv, Disjoint
  <2> QED
    BY <1>1, <2>1 DEF IInv, Status
<1> QED
  BY <1>2, <1>3

(* The counters of threads after the clean-up of thread t. *)
LEMMA CountExact ==
    ASSUME IInv, NEW t \in Thread, Runnable(t)
    PROVE  /\ Idle(t) = Cardinality(Asleep \ {t}) /\ Idle(t) \in Nat
           /\ Total(t) = Cardinality(Entered \cup {t}) /\ Total(t) \in Nat \ {0}
<1>1. IsFiniteSet(Asleep) /\ IsFiniteSet(Entered)
  BY AsleepFinite
<1>2. /\ nIdle = Cardinality(Asleep) /\ nTotal = Cardinality(Entered)
      /\ nIdle \in Nat /\ nTotal \in Nat
  BY DEF IInv, CountersExact, TypeOK
<1>3. t \in Asleep <=> pc[t] = "woken"
  BY DEF Asleep, Runnable
<1>4. t \in Entered <=> pc[t] # "start"
  BY DEF Entered, Runnable
<1>5. /\ Cardinality(Asleep \ {t}) = IF t \in Asleep THEN nIdle - 1 ELSE nIdle
      /\ IsFiniteSet(Asleep \ {t})
  BY <1>1, <1>2, FS_RemoveElement
<1>6. /\ Cardinality(Entered \cup {t}) = IF t \in Entered THEN nTotal ELSE nTotal + 1
      /\ IsFiniteSet(Entered \cup {t})
  BY <1>1, <1>2, FS_AddElement
<1>7. Cardinality(Asleep \ {t}) \in Nat /\ Cardinality(Entered \cup {t}) \in Nat
  BY <1>5, <1>6, FS_CardinalityType
<1>8. Cardinality(Entered \cup {t}) # 0
  BY <1>6, FS_EmptySet
<1>9. Idle(t) = Cardinality(Asleep \ {t})
  BY <1>3, <1>5 DEF Idle
<1>10. Total(t) = Cardinality(Entered \cup {t})
  BY <1>4, <1>6 DEF Total
<1> QED
  BY <1>7, <1>8, <1>9, <1>10
-----------------------------------------------------------------------------
(* What the four outcomes of a turn of Loop have in common: thread t goes   *)
(* to state s with the batch B.                                             *)
Turn(t, s, B) ==
    /\ Runnable(t)
    /\ B \in SUBSET queue
    /\ s = "work" <=> B # {}
    /\ s \in {"out", "wait", "work", "done"}
    /\ s = "out" => t = Master /\ queue = {} /\ Left(t) = 0
    /\ s = "done" => m_request_stop
    /\ queue' = queue \ B
    /\ batch' = [batch EXCEPT ![t] = B]
    /\ nTotal' = IF s = "out" THEN Total(t) - 1 ELSE Total(t)
    /\ nIdle' = IF s = "wait" THEN Idle(t) + 1 ELSE Idle(t)
    /\ nTodo' = Left(t)
    /\ IF s = "out"
       THEN fAllOk' = TRUE /\ verdict' = IF early THEN None ELSE AllOk(t)
       ELSE fAllOk' = AllOk(t) /\ verdict' = verdict
    /\ fOk' = IF s = "work" THEN [fOk EXCEPT ![t] = AllOk(t)] ELSE fOk
    /\ Go(t, s)
    /\ UNCHANGED <<m_request_stop, added, failing, early, stopper>>

LEMMA LoopIsTurn ==
    ASSUME NEW t \in Thread, Loop(t)
    PROVE  \E s, B : Turn(t, s, B)
<1>1. CASE t = Master /\ LoopReturn
  <2>1. Turn(t, "out", {})
    BY <1>1 DEF LoopReturn, Turn, MayReturn
  <2> QED
    BY <2>1
<1>2. CASE LoopWait(t)
  <2>1. Turn(t, "wait", {})
    BY <1>2 DEF LoopWait, Turn, block
  <2> QED
    BY <2>1
<1>3. CASE LoopTake(t)
  <2>1. PICK B \in SUBSET queue : /\ batch' = [batch EXCEPT ![t] = B] /\ queue' = queue \ B
                                  /\ Cardinality(B) = Share(t)
    BY Zenon, <1>3 DEF LoopTake
  <2>2. Share(t) # 0
    BY DEF Share
  <2>3. B # {}
    BY <2>1, <2>2, FS_EmptySet
  <2>4. Turn(t, "work", B)
    BY Zenon, <1>3, <2>1, <2>3 DEF LoopTake, Turn, block
  <2> QED
    BY <2>4
<1>4. CASE LoopQuit(t)
  <2>1. Turn(t, "done", {})
    BY <1>4 DEF LoopQuit, Turn, block
  <2> QED
    BY <2>1
<1> QED
  BY <1>1, <1>2, <1>3, <1>4 DEF Loop

(* A turn of Loop preserves the invariant. *)
LEMMA TurnPreserves ==
    ASSUME IInv, NEW t \in Thread, NEW s, NEW B, Turn(t, s, B)
    PROVE  IInv'
<1>1. /\ Left(t) = Cardinality(Todo \ batch[t]) /\ Left(t) \in Nat
      /\ Left(t) = 0 <=> Todo \ batch[t] = {}
  BY LeftExact DEF Turn
<1>2. /\ AllOk(t) \in BOOLEAN
      /\ AllOk(t) => fAllOk
      /\ pc[Master] # "out" /\ AllOk(t) => failing \subseteq Todo \ batch[t]
      /\ ~AllOk(t) => failing # {}
  BY AllOkExact DEF Turn
<1>3. /\ Idle(t) = Cardinality(Asleep \ {t}) /\ Idle(t) \in Nat
      /\ Total(t) = Cardinality(Entered \cup {t}) /\ Total(t) \in Nat \ {0}
  BY Zenon, CountExact DEF Turn
<1> HIDE DEF Left, AllOk, Idle, Total
<1>4. /\ pc' \in [Thread -> Place]
      /\ pc'[t] = s
      /\ \A u \in Thread : u # t => pc'[u] = pc[u] \/ (u = Master /\ pc[u] = "wait" /\ pc'[u] = "woken")
  <2>1. pc' = [u \in Thread |-> IF u = t THEN s
                               ELSE IF u = Master /\ WakesMaster(t) /\ pc[u] = "wait" THEN "woken"
                               ELSE pc[u]]
    BY DEF Turn, Go
  <2>2. s \in {"out", "wait", "work", "done"}
    BY DEF Turn
  <2>3. pc \in [Thread -> Place]
    BY DEF IInv, TypeOK
  <2>4. s \in Place /\ "woken" \in Place
    BY <2>2 DEF Place
  <2>5. pc' \in [Thread -> Place]
    BY <2>1, <2>3, <2>4
  <2>6. pc'[t] = s
    BY <2>1
  <2>7. \A u \in Thread : u # t => pc'[u] = IF u = Master /\ WakesMaster(t) /\ pc[u] = "wait"
                                          THEN "woken" ELSE pc[u]
    BY <2>1
  <2> QED
    BY <2>5, <2>6, <2>7
<1>5. /\ batch' \in [Thread -> SUBSET Check] /\ batch'[t] = B
      /\ \A u \in Thread : u # t => batch'[u] = batch[u]
  BY DEF Turn, IInv, TypeOK
<1>6. /\ fOk' \in [Thread -> BOOLEAN]
      /\ s = "work" => fOk'[t] = AllOk(t)
      /\ \A u \in Thread : u # t => fOk'[u] = fOk[u]
  BY <1>2 DEF Turn, IInv, TypeOK
<1>7. pc[Master] # "out" \/ t # Master
  BY DEF Turn, Runnable
<1>8. Todo' = Todo \ batch[t]
  <2>1. \A c : c \in Todo' <=> c \in queue' \/ \E u \in Thread : c \in batch'[u]
    BY DEF Todo
  <2>2. \A c \in batch[t] : c \notin queue /\ \A u \in Thread : u # t => c \notin batch[u]
    BY DEF IInv, Disjoint
  <2>3. queue' = queue \ B /\ B \subseteq queue
    BY DEF Turn
  <2> QED
    BY <1>5, <2>1, <2>2, <2>3, TodoMember
<1>9. TypeOK'
  <2>1. queue' \in SUBSET Check /\ nTodo' \in Nat
    BY <1>1 DEF Turn, IInv, TypeOK
  <2>2. nIdle' \in Nat /\ nTotal' \in Nat
    BY <1>3 DEF Turn
  <2>3. fAllOk' \in BOOLEAN /\ verdict' \in BOOLEAN \cup {None}
    BY Zenon, <1>2 DEF Turn, IInv, TypeOK
  <2> QED
    BY Zenon, <1>4, <1>5, <1>6, <2>1, <2>2, <2>3 DEF Turn, IInv, TypeOK
<1>10. Places'
  <2>1. t # Master => s \in {"wait", "work", "done"}
    BY DEF Turn
  <2>2. \A w \in Worker : pc'[w] \in {"start", "wait", "woken", "work", "done"}
    BY <1>4, <2>1, Threads DEF IInv, Places, Thread
  <2>3. pc'[Master] # "done"
    BY <1>4, <1>7 DEF Turn, IInv, Places, Thread
  <2>4. pc[Master] = "out" => pc'[Master] = "out"
    BY <1>4, <1>7 DEF Thread
  <2>5. verdict' # None => pc'[Master] = "out"
    BY <1>4, <2>4 DEF Turn, IInv, Places, Thread
  <2> QED
    BY <2>2, <2>3, <2>4, <2>5 DEF Turn, IInv, Places
<1>11. Disjoint'
  <2>1. \A u \in Thread : pc'[u] = "work" <=> batch'[u] # {}
    BY <1>4, <1>5 DEF Turn, IInv, Disjoint
  <2>2. \A u \in Thread : batch'[u] \cap queue' = {}
    BY <1>5 DEF Turn, IInv, Disjoint
  <2>3. \A u, v \in Thread : u # v => batch'[u] \cap batch'[v] = {}
    BY <1>5 DEF Turn, IInv, Disjoint
  <2>4. Todo' \subseteq added'
    BY <1>8 DEF Turn, IInv, Disjoint
  <2> QED
    BY <2>1, <2>2, <2>3, <2>4 DEF Disjoint
<1>12. Status'
  <2>1. CASE s = "out"
    <3>1. fAllOk' = TRUE /\ pc'[Master] = "out" /\ failing' = failing
      BY <1>4, <2>1 DEF Turn
    <3>2. \A u \in Thread : batch'[u] = {}
      BY <1>1, <1>8, <2>1 DEF Turn, Todo
    <3>3. \A u \in Thread : pc'[u] # "work"
      BY <3>2, <1>11 DEF Disjoint
    <3> QED
      BY <3>1, <3>3 DEF Status
  <2>2. CASE s # "out"
    <3>1. fAllOk' = AllOk(t) /\ failing' = failing
      BY <2>2 DEF Turn
    <3>2. pc'[Master] # "out" => pc[Master] # "out"
      BY <1>4, <1>7 DEF Thread
    <3>3. \A u \in Thread : pc'[u] = "work" /\ ~fOk'[u] => ~fAllOk'
      BY <1>2, <1>4, <1>6, <3>1 DEF IInv, Status
    <3> QED
      BY <1>2, <1>8, <3>1, <3>2, <3>3 DEF Status
  <2> QED
    BY <2>1, <2>2
<1>13. CountersExact'
  <2>1. nTodo' = Cardinality(Todo')
    BY <1>1, <1>8 DEF Turn
  <2>2. Asleep' = IF s = "wait" THEN (Asleep \ {t}) \cup {t} ELSE Asleep \ {t}
    <3>1. \A u \in Thread : u \in Asleep' <=> pc'[u] \in {"wait", "woken"}
      BY DEF Asleep
    <3>2. \A u \in Thread : u \in Asleep <=> pc[u] \in {"wait", "woken"}
      BY DEF Asleep
    <3>3. Asleep \subseteq Thread /\ Asleep' \subseteq Thread
      BY DEF Asleep
    <3>4. t \in Asleep' <=> s = "wait"
      BY <1>4, <3>1 DEF Turn
    <3>5. \A u \in Thread : u # t => (u \in Asleep' <=> u \in Asleep)
      BY <1>4, <3>1, <3>2
    <3> QED
      BY <3>3, <3>4, <3>5
  <2>3. Entered' = IF s = "out" THEN (Entered \cup {t}) \ {t} ELSE Entered \cup {t}
    <3>1. \A u \in Thread : u \in Entered' <=> pc'[u] \in {"wait", "woken", "work", "done"}
      BY DEF Entered
    <3>2. \A u \in Thread : u \in Entered <=> pc[u] \in {"wait", "woken", "work", "done"}
      BY DEF Entered
    <3>3. Entered \subseteq Thread /\ Entered' \subseteq Thread
      BY DEF Entered
    <3>4. t \in Entered' <=> s # "out"
      BY <1>4, <3>1 DEF Turn
    <3>5. \A u \in Thread : u # t => (u \in Entered' <=> u \in Entered)
      BY <1>4, <3>1, <3>2
    <3> QED
      BY <3>3, <3>4, <3>5
  <2>4. IsFiniteSet(Asleep \ {t}) /\ IsFiniteSet(Entered \cup {t})
    BY AsleepFinite, FS_RemoveElement, FS_AddElement
  <2>5. nIdle' = Cardinality(Asleep')
    <3>1. CASE s = "wait"
      BY ZenonT(30), <3>1, <1>3, <2>2, <2>4, FS_AddElement DEF Turn
    <3>2. CASE s # "wait"
      BY <3>2, <1>3, <2>2 DEF Turn
    <3> QED
      BY <3>1, <3>2
  <2>6. nTotal' = Cardinality(Entered')
    <3>1. CASE s = "out"
      <4>1. Cardinality((Entered \cup {t}) \ {t}) = Cardinality(Entered \cup {t}) - 1
        BY <2>4, FS_RemoveElement
      <4> QED
        BY <3>1, <4>1, <1>3, <2>3 DEF Turn
    <3>2. CASE s # "out"
      BY <3>2, <1>3, <2>3 DEF Turn
    <3> QED
      BY <3>1, <3>2
  <2> QED
    BY <2>1, <2>5, <2>6 DEF CountersExact
<1>14. NothingLeft'
  <2>1. CASE s = "out"
    BY <1>1, <1>8, <2>1 DEF Turn, NothingLeft
  <2>2. CASE s # "out"
    <3>1. SUFFICES ASSUME pc'[Master] = "out" PROVE Todo' = {} /\ nTodo' = 0 /\ fAllOk' = TRUE
      BY DEF NothingLeft
    <3>2. pc[Master] = "out"
      BY <1>4, <2>2, <3>1 DEF Thread
    <3>3. Todo = {} /\ fAllOk = TRUE
      BY <3>2 DEF IInv, NothingLeft, TypeOK
    <3>4. batch[t] = {} /\ failing \subseteq added
      BY <3>3, TodoMember DEF IInv, TypeOK
    <3>5. AllOk(t) = fAllOk
      BY <3>4 DEF AllOk, IInv, Disjoint
    <3> QED
      BY <1>1, <1>8, <2>2, <3>3, <3>5 DEF Turn
  <2> QED
    BY <2>1, <2>2
<1>15. VerdictExact'
  <2>1. CASE s = "out"
    <3>1. failing' = failing /\ verdict' = IF early THEN None ELSE AllOk(t)
      BY <2>1 DEF Turn
    <3>2. Todo \ batch[t] = {} /\ pc[Master] # "out"
      BY <1>1, <1>7, <2>1 DEF Turn
    <3>3. AllOk(t) <=> failing = {}
      BY <1>2, <3>2
    <3> QED
      BY <1>2, <3>1, <3>3 DEF VerdictExact
  <2>2. CASE s # "out"
    BY <2>2 DEF Turn, IInv, VerdictExact
  <2> QED
    BY <2>1, <2>2
<1> QED
  BY <1>9, <1>10, <1>11, <1>12, <1>13, <1>14, <1>15 DEF IInv

LEMMA LoopPreserves ==
    ASSUME IInv, NEW t \in Thread, Loop(t)
    PROVE  IInv'
BY LoopIsTurn, TurnPreserves
-----------------------------------------------------------------------------
(* The steps of ConnectBlock, of StopWorkerThreads and spurious wake-ups. *)

(* A step that only moves threads, without putting one to sleep or to work. *)
LEMMA MovePreserves ==
    ASSUME IInv, TypeOK', Places',
           \A t \in Thread : /\ pc'[t] = "work" <=> pc[t] = "work"
                             /\ pc'[t] \in {"wait", "woken"} <=> pc[t] \in {"wait", "woken"}
                             /\ pc'[t] = "done" <=> pc[t] = "done",
           pc'[Master] = "out" <=> pc[Master] = "out",
           UNCHANGED <<queue, nIdle, nTotal, fAllOk, nTodo, batch, fOk, added, failing, verdict>>
    PROVE  IInv'
<1>1. Todo' = Todo
  BY DEF Todo
<1>2. Asleep' = Asleep
  BY DEF Asleep
<1>3. Entered' = Entered
  BY DEF Entered
<1>4. Disjoint'
  BY <1>1 DEF IInv, Disjoint
<1>5. Status'
  BY <1>1 DEF IInv, Status
<1>6. CountersExact' /\ NothingLeft' /\ VerdictExact'
  BY <1>1, <1>2, <1>3 DEF IInv, CountersExact, NothingLeft, VerdictExact
<1> QED
  BY <1>4, <1>5, <1>6 DEF IInv

LEMMA BeginPreserves ==
    ASSUME IInv, Begin
    PROVE  IInv'
<1> USE DEF Begin
<1>1. pc' \in [Thread -> Place]
      /\ pc'[Master] = "adding" /\ \A t \in Thread : t # Master => pc'[t] = pc[t]
  BY PcType, PlacesInPlace, Update DEF IInv
<1>2. Todo' = Todo /\ Todo = {} /\ fAllOk
  BY DEF Todo, IInv, NothingLeft
<1>3. Asleep' = Asleep /\ Entered' = Entered
  BY <1>1 DEF Asleep, Entered
<1>4. TypeOK'
  BY Zenon, <1>1 DEF IInv, TypeOK
<1>5. Places'
  BY <1>1, Threads DEF IInv, Places, Thread
<1>6. Disjoint'
  BY <1>1, <1>2 DEF IInv, Disjoint
<1>7. Status'
  BY <1>1, <1>2 DEF IInv, Status
<1>8. CountersExact' /\ NothingLeft' /\ VerdictExact'
  BY <1>1, <1>2, <1>3 DEF IInv, CountersExact, NothingLeft, VerdictExact
<1> QED
  BY Zenon, <1>4, <1>5, <1>6, <1>7, <1>8 DEF IInv

LEMMA AddPreserves ==
    ASSUME IInv, NEW new \in SUBSET (Check \ added), NEW bad \in SUBSET new, Add(new, bad)
    PROVE  IInv'
<1> USE DEF Add
<1>1. /\ pc' \in [Thread -> Place]
      /\ pc'[Master] \in {"notify one", "notify all"}
      /\ \A t \in Thread : t # Master => pc'[t] = pc[t]
  BY PcType, PlacesInPlace, Update DEF IInv
<1>2. Todo' = Todo \cup new
  BY DEF Todo
<1>3. /\ Todo \in SUBSET added /\ IsFiniteSet(Todo) /\ IsFiniteSet(new)
      /\ Cardinality(new) \in Nat
  BY TodoFinite, Finiteness, FS_Subset, FS_CardinalityType DEF IInv, Disjoint
<1>4. Todo \cap new = {}
  BY <1>3
<1>5. nTodo' = Cardinality(Todo')
  <2>1. Cardinality(Todo \cup new) = Cardinality(Todo) + Cardinality(new) - Cardinality(Todo \cap new)
    BY <1>3, FS_Union
  <2>2. Cardinality(Todo \cap new) = 0
    BY <1>4, FS_EmptySet
  <2>3. nTodo = Cardinality(Todo) /\ nTodo \in Nat
    BY DEF IInv, CountersExact, TypeOK
  <2>4. nTodo' = nTodo + Cardinality(new)
    OBVIOUS
  <2> HIDE DEF Add
  <2> QED
    BY <1>2, <1>3, <2>1, <2>2, <2>3, <2>4
<1>6. Asleep' = Asleep /\ Entered' = Entered
  BY <1>1 DEF Asleep, Entered
<1>7. TypeOK'
  <2>1. queue' \in SUBSET Check /\ added' \in SUBSET Check /\ failing' \in SUBSET added'
    BY DEF IInv, TypeOK
  <2>2. nTodo' = nTodo + Cardinality(new) /\ nTodo \in Nat
    BY DEF IInv, TypeOK
  <2> HIDE DEF Add
  <2>3. nTodo' \in Nat
    BY <1>3, <2>2
  <2> USE DEF Add
  <2> QED
    BY <1>1, <2>1, <2>3 DEF IInv, TypeOK
<1>8. Places'
  BY <1>1, Threads DEF IInv, Places, Thread
<1>9. Disjoint'
  <2>1. \A t \in Thread : batch[t] \cap queue' = {}
    BY <1>4, TodoMember DEF IInv, Disjoint
  <2> QED
    BY <1>1, <1>2, <2>1 DEF IInv, Disjoint
<1>10. Status'
  BY <1>1, <1>2 DEF IInv, Status
<1>11. CountersExact' /\ NothingLeft' /\ VerdictExact'
  BY <1>1, <1>5, <1>6 DEF IInv, CountersExact, NothingLeft, VerdictExact, Places
<1> QED
  BY <1>7, <1>8, <1>9, <1>10, <1>11 DEF IInv
-----------------------------------------------------------------------------
LEMMA InitEstablishes == Init => IInv
<1> SUFFICES ASSUME Init PROVE IInv
  OBVIOUS
<1> USE DEF Init
<1>1. Todo = {} /\ Asleep = {} /\ Entered = {}
  BY DEF Todo, Asleep, Entered
<1>2. CountersExact
  BY <1>1, FS_EmptySet DEF CountersExact
<1>3. TypeOK
  <2>1. pc \in [Thread -> Place]
    BY DEF Place
  <2> QED
    BY Zenon, <2>1 DEF TypeOK
<1>4. Places
  BY Threads DEF Places, Thread
<1>5. Disjoint /\ Status /\ NothingLeft /\ VerdictExact
  BY <1>1 DEF Disjoint, Status, NothingLeft, VerdictExact, Thread
<1> QED
  BY <1>2, <1>3, <1>4, <1>5 DEF IInv

LEMMA NextPreserves ==
    ASSUME IInv, [Next]_vars
    PROVE  IInv'
<1>1. CASE Begin
  BY <1>1, BeginPreserves
<1>2. CASE Notify
  <2>1. /\ pc' \in [Thread -> Place]
        /\ pc'[Master] = "adding" /\ pc[Master] \in {"notify one", "notify all"}
        /\ \A w \in Worker : pc'[w] = pc[w] \/ (pc[w] = "wait" /\ pc'[w] = "woken")
    <3>1. pc \in [Thread -> Place] /\ "adding" \in Place /\ "woken" \in Place
      BY DEF IInv, TypeOK, Place
    <3>2. CASE pc' = [t \in Thread |-> IF t = Master THEN "adding"
                                       ELSE IF pc[t] = "wait" THEN "woken" ELSE pc[t]]
      <4>1. \A t \in Thread : pc'[t] \in Place
        BY <3>1, <3>2
      <4> QED
        BY <1>2, <3>1, <3>2, <4>1, Threads DEF Notify, Thread
    <3>3. CASE \E w \in Worker : pc[w] = "wait" /\ pc' = [pc EXCEPT ![Master] = "adding", ![w] = "woken"]
      <4>1. PICK w \in Worker : pc[w] = "wait" /\ pc' = [pc EXCEPT ![Master] = "adding", ![w] = "woken"]
        BY Zenon, <3>3
      <4>2. pc' = [[pc EXCEPT ![Master] = "adding"] EXCEPT ![w] = "woken"] /\ w # Master
        BY <4>1, Threads
      <4> QED
        <5> DEFINE f == [pc EXCEPT ![Master] = "adding"]
        <5>1. /\ f \in [Thread -> Place] /\ f[Master] = "adding"
              /\ \A u \in Thread : u # Master => f[u] = pc[u]
          BY <3>1, PcType, Update DEF IInv
        <5> HIDE DEF f
        <5>2. /\ pc' \in [Thread -> Place] /\ pc'[w] = "woken"
              /\ \A u \in Thread : u # w => pc'[u] = f[u]
          BY <3>1, <4>2, <5>1, PcType, Update DEF f, IInv
        <5>3. Master \in Thread /\ Worker \subseteq Thread /\ pc[Master] \in {"notify one", "notify all"}
          BY <1>2 DEF Notify, Thread
        <5> QED
          BY <4>1, <4>2, <5>1, <5>2, <5>3, Threads
    <3>4. CASE pc' = [pc EXCEPT ![Master] = "adding"]
      BY ZenonT(30), <1>2, <3>1, <3>4, PcType, Update, Threads DEF Notify, IInv
    <3> QED
      BY <1>2, <3>2, <3>3, <3>4 DEF Notify
  <2>2. TypeOK' /\ Places'
    BY <1>2, <2>1 DEF Notify, IInv, TypeOK, Places, block
  <2> QED
    BY <1>2, <2>1, <2>2, MovePreserves DEF Notify, block, Thread
<1>3. CASE EndBlock
  <2>1. /\ pc' \in [Thread -> Place]
        /\ pc'[Master] = "start" /\ pc[Master] = "adding"
        /\ \A w \in Worker : pc'[w] = pc[w]
    BY <1>3, PcType, PlacesInPlace, Update, Threads DEF EndBlock, IInv
  <2>2. TypeOK' /\ Places'
    BY <1>3, <2>1 DEF EndBlock, IInv, TypeOK, Places
  <2> QED
    BY <1>3, <2>1, <2>2, MovePreserves DEF EndBlock, Thread
<1>4. CASE \E new \in SUBSET (Check \ added) : \E bad \in SUBSET (new \cap MayFail) : new # {} /\ Add(new, bad)
  BY <1>4, AddPreserves
<1>5. CASE \E t \in Thread : Loop(t)
  BY <1>5, LoopPreserves
<1>6. CASE \E t \in Thread : Spurious(t)
  <2>1. PICK t \in Thread : Spurious(t)
    BY <1>6
  <2>2. /\ pc' \in [Thread -> Place]
        /\ \A u \in Thread : pc'[u] = pc[u] \/ (pc[u] = "wait" /\ pc'[u] = "woken")
    BY <2>1, PcType, PlacesInPlace, Update DEF Spurious, IInv
  <2>3. TypeOK' /\ Places'
    BY <2>1, <2>2 DEF Spurious, IInv, TypeOK, Places, Thread, block
  <2> QED
    BY <2>1, <2>2, <2>3, MovePreserves DEF Spurious, block, Thread
<1>7. CASE StopRequest
  <2>1. TypeOK' /\ Places'
    BY ZenonT(30), <1>7 DEF StopRequest, IInv, TypeOK, Places, block
  <2> QED
    BY Zenon, <1>7, <2>1, MovePreserves DEF StopRequest, block
<1>8. CASE StopNotify
  <2>1. /\ pc' \in [Thread -> Place]
        /\ pc'[Master] = pc[Master]
        /\ \A w \in Worker : pc'[w] = pc[w] \/ (pc[w] = "wait" /\ pc'[w] = "woken")
    <3>1. pc \in [Thread -> Place] /\ "woken" \in Place
      BY DEF IInv, TypeOK, Place
    <3>2. pc' = [t \in Thread |-> IF t # Master /\ pc[t] = "wait" THEN "woken" ELSE pc[t]]
      BY <1>8 DEF StopNotify
    <3>3. \A t \in Thread : pc'[t] \in Place
      BY Zenon, <3>1, <3>2
    <3> QED
      BY <3>1, <3>2, <3>3, Threads DEF Thread
  <2>2. TypeOK' /\ Places'
    BY <1>8, <2>1 DEF StopNotify, IInv, TypeOK, Places, block
  <2> QED
    BY <1>8, <2>1, <2>2, MovePreserves DEF StopNotify, block, Thread
<1>9. CASE StopJoin
  <2>1. TypeOK' /\ Places'
    BY Zenon, <1>9 DEF StopJoin, IInv, TypeOK, Places, block
  <2> QED
    BY Zenon, <1>9, <2>1, MovePreserves DEF StopJoin, block
<1>10. CASE UNCHANGED vars
  <2>1. TypeOK' /\ Places'
    BY <1>10 DEF vars, IInv, TypeOK, Places, block
  <2> QED
    BY <1>10, <2>1, MovePreserves DEF vars, block
<1> QED
  BY <1>1, <1>2, <1>3, <1>4, <1>5, <1>6, <1>7, <1>8, <1>9, <1>10 DEF Next

LEMMA Invariance == Spec => []IInv
BY InitEstablishes, NextPreserves, PTL DEF Spec

(* CCheckQueueControl::Wait returns true exactly if every check of its      *)
(* block passes, for every number of workers, checks and blocks.            *)
THEOREM WaitIsExact == Spec => []VerdictExact
<1>1. IInv => VerdictExact
  BY DEF IInv
<1> QED
  BY Invariance, <1>1, PTL

(* No check of a block is queued or running once its CCheckQueueControl is  *)
(* destroyed, and no failure is left for the next block.                    *)
THEOREM BlocksAreSeparate == Spec => []NothingLeft
<1>1. IInv => NothingLeft
  BY DEF IInv
<1> QED
  BY Invariance, <1>1, PTL

(* nTodo, nIdle and nTotal count the checks to do, the sleeping threads and *)
(* the threads in Loop.                                                     *)
THEOREM CountersAreExact == Spec => []CountersExact
<1>1. IInv => CountersExact
  BY DEF IInv
<1> QED
  BY Invariance, <1>1, PTL
=============================================================================
