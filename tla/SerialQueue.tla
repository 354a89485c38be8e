----------------------------- MODULE SerialQueue -----------------------------
(***************************************************************************)
(* What SingleThreadedSchedulerClient promises: callbacks run one at a     *)
(* time, in the order in which they were added, and each of them does.     *)
(***************************************************************************)
EXTENDS Naturals, Sequences

CONSTANTS Event, None

VARIABLES
    pending,        \* added, not started
    current,        \* the callback that runs
    done            \* finished, in this order

vars == <<pending, current, done>>

Init == pending = <<>> /\ current = None /\ done = <<>>

Put(e) == pending' = Append(pending, e) /\ UNCHANGED <<current, done>>

Start ==
    /\ current = None
    /\ pending # <<>>
    /\ current' = Head(pending)
    /\ pending' = Tail(pending)
    /\ done' = done

Finish ==
    /\ current # None
    /\ done' = Append(done, current)
    /\ current' = None
    /\ pending' = pending

Next == (\E e \in Event : Put(e)) \/ Start \/ Finish

Safety == Init /\ [][Next]_vars

Spec == Safety /\ WF_vars(Start) /\ WF_vars(Finish)
==============================================================================
