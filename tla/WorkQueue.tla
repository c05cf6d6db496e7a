------------------------------ MODULE WorkQueue ------------------------------
(***************************************************************************)
(* What frontend/src/thr_queue.c promises its callers, without threads     *)
(* that sleep, condition variables or ring indices: a bounded FIFO between *)
(* the listener threads that accept connections and the worker threads     *)
(* that serve them.  Every accepted task is handed to exactly one worker,  *)
(* in the order in which the tasks were queued.                            *)
(***************************************************************************)
EXTENDS Naturals, Sequences

CONSTANTS Listeners,   \* threads that call dispatch()
          Workers,     \* threads that call get_task()
          Tasks,       \* task structures
          NoTask,      \* "holds no task"
          Capacity     \* tasks that fit in the queue

VARIABLES queue,       \* tasks queued, oldest first
          pending,     \* the task each listener is about to queue
          held         \* the task each worker is working on

vars == <<queue, pending, held>>

Init ==
    /\ queue = << >>
    /\ pending = [l \in Listeners |-> NoTask]
    /\ held = [w \in Workers |-> NoTask]

Accept(l) ==
    /\ pending[l] = NoTask
    /\ \E t \in Tasks : pending' = [pending EXCEPT ![l] = t]
    /\ UNCHANGED <<queue, held>>

Put(l) ==
    /\ pending[l] # NoTask
    /\ Len(queue) < Capacity
    /\ queue' = Append(queue, pending[l])
    /\ pending' = [pending EXCEPT ![l] = NoTask]
    /\ UNCHANGED held

Take(w) ==
    /\ held[w] = NoTask
    /\ queue # << >>
    /\ held' = [held EXCEPT ![w] = Head(queue)]
    /\ queue' = Tail(queue)
    /\ UNCHANGED pending

Release(w) ==
    /\ held[w] # NoTask
    /\ held' = [held EXCEPT ![w] = NoTask]
    /\ UNCHANGED <<queue, pending>>

Next ==
    \/ \E l \in Listeners : Accept(l) \/ Put(l)
    \/ \E w \in Workers : Take(w) \/ Release(w)

Spec == Init /\ [][Next]_vars

(***************************************************************************)
(* While tasks are queued and some worker is free, some worker takes one:  *)
(* weak fairness of Take, written out with the condition that enables it   *)
(* and the step that only Take makes.                                      *)
(***************************************************************************)
CanTake == queue # << >> /\ \E w \in Workers : held[w] = NoTask
Taken   == \E w \in Workers : held[w] = NoTask /\ held'[w] # NoTask

Fairness == []<>~CanTake \/ []<><<Taken>>_held
=============================================================================
