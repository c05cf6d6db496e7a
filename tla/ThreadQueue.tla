----------------------------- MODULE ThreadQueue -----------------------------
(***************************************************************************)
(* The front end's worker pool, frontend/src/thr_queue.c: a ring of task   *)
(* pointers, one mutex, and ONE condition variable on which both the idle  *)
(* workers (queue empty) and the blocked listeners (queue full) sleep.     *)
(*                                                                         *)
(* qhead, qtail, task_queue and tasks_done are only touched with mtx_queue *)
(* held, and the mutex is given up only at pthread_cond_wait and at the    *)
(* end of get_task and dispatch.  A stretch of code between two of those   *)
(* points is therefore one action, and the mutex itself is not a variable. *)
(* A thread that pthread_cond_signal has released is not in cond_queue any *)
(* more; its next action re-tests the queue, as the while loops do.        *)
(***************************************************************************)
EXTENDS Integers, Sequences, FiniteSets

CONSTANTS Listeners,            \* HTTP and Wingman accept threads
          nth,                  \* frontend.nthreads
          PTHREAD_THREADS_MAX,  \* the platform's limit
          TaskIdWidth,          \* task ids wrap at this value (2^32 in the code)
          NoTask                \* a slot or a thread without a task

nthreads == IF nth > PTHREAD_THREADS_MAX THEN PTHREAD_THREADS_MAX ELSE nth

Workers == 0 .. nthreads - 1
Threads == Workers \cup Listeners
TaskIds == 0 .. TaskIdWidth - 1
Tasks   == [from : Listeners, id : TaskIds]
Slots   == 0 .. nthreads - 1

ASSUME ConstantsAssumption ==
    /\ nth \in Nat \ {0}
    /\ PTHREAD_THREADS_MAX \in Nat \ {0}
    /\ TaskIdWidth \in Nat \ {0}
    /\ IsFiniteSet(Listeners)
    /\ Listeners # {}
    /\ Listeners \cap Int = {}
    /\ NoTask \notin Tasks

VARIABLES qhead, qtail, task_queue,   \* the ring
          tasks_done,                 \* workers outside get_task, by count
          cond_queue,                 \* threads asleep in pthread_cond_wait
          pc,                         \* where each thread is
          pending,                    \* listener: the task given to dispatch
          held,                       \* worker: the task get_task returned
          n_reqs                      \* listener: n_httpreqs / n_wingreqs

vars == <<qhead, qtail, task_queue, tasks_done, cond_queue, pc, pending, held,
          n_reqs>>

(* The ring index after i: qhead and qtail are incremented, then reduced. *)
Advance_NoWrap(i) == i + 1
Advance(i) == (i + 1) % nthreads

QUEUE_EMPTY == qhead = qtail

QUEUE_FULL_AllSlots == FALSE
QUEUE_FULL == Advance(qtail) = qhead

Init ==
    /\ qhead = 0
    /\ qtail = 0
    /\ task_queue = [s \in Slots |-> NoTask]
    /\ tasks_done = nth
    /\ cond_queue = {}
    /\ pc = [t \in Threads |-> IF t \in Workers THEN "idle" ELSE "accept"]
    /\ pending = [l \in Listeners |-> NoTask]
    /\ held = [w \in Workers |-> NoTask]
    /\ n_reqs = [l \in Listeners |-> 1 % TaskIdWidth]

-----------------------------------------------------------------------------
(* pthread_cond_signal releases one sleeper, any one, if there is one.     *)
Signal ==
    \/ cond_queue = {} /\ UNCHANGED cond_queue
    \/ \E t \in cond_queue : cond_queue' = cond_queue \ {t}

(* pthread_cond_wait puts the caller to sleep.                             *)
CondWait(t) == cond_queue' = cond_queue \cup {t}

-----------------------------------------------------------------------------
(* A listener returns from accept with a connection, makes a task of it.   *)
Accept(l) ==
    /\ pc[l] = "accept"
    /\ pending' = [pending EXCEPT ![l] = [from |-> l, id |-> n_reqs[l]]]
    /\ n_reqs' = [n_reqs EXCEPT ![l] = (@ + 1) % TaskIdWidth]
    /\ pc' = [pc EXCEPT ![l] = "dispatch"]
    /\ UNCHANGED <<qhead, qtail, task_queue, tasks_done, cond_queue, held>>

(* dispatch finds no free slot: sleep until someone signals.               *)
WaitForSlot(l) ==
    /\ pc[l] = "dispatch"
    /\ l \notin cond_queue
    /\ QUEUE_FULL
    /\ CondWait(l)
    /\ UNCHANGED <<qhead, qtail, task_queue, tasks_done, pc, pending, held,
                   n_reqs>>

Enqueue_NoSignal(l) ==
    /\ pc[l] = "dispatch"
    /\ l \notin cond_queue
    /\ ~ QUEUE_FULL
    /\ task_queue' = [task_queue EXCEPT ![qtail] = pending[l]]
    /\ qtail' = Advance(qtail)
    /\ pending' = [pending EXCEPT ![l] = NoTask]
    /\ pc' = [pc EXCEPT ![l] = "accept"]
    /\ UNCHANGED <<qhead, tasks_done, cond_queue, held, n_reqs>>

(* dispatch queues the task and signals.                                   *)
Enqueue(l) ==
    /\ pc[l] = "dispatch"
    /\ l \notin cond_queue
    /\ ~ QUEUE_FULL
    /\ task_queue' = [task_queue EXCEPT ![qtail] = pending[l]]
    /\ qtail' = Advance(qtail)
    /\ Signal
    /\ pending' = [pending EXCEPT ![l] = NoTask]
    /\ pc' = [pc EXCEPT ![l] = "accept"]
    /\ UNCHANGED <<qhead, tasks_done, held, n_reqs>>

-----------------------------------------------------------------------------
(* A worker is at the loop test of get_task: it has just entered, or it    *)
(* was woken up.                                                           *)
AtQueueTest(w) ==
    \/ pc[w] = "idle"
    \/ pc[w] = "get_task" /\ w \notin cond_queue

DoneOnEntry_EachTest(w) == tasks_done - 1

(* tasks_done after the decrement at the entry of get_task.                *)
DoneOnEntry(w) == IF pc[w] = "idle" THEN tasks_done - 1 ELSE tasks_done

(* get_task finds the queue empty: sleep until someone signals.            *)
WaitForWork(w) ==
    /\ AtQueueTest(w)
    /\ QUEUE_EMPTY
    /\ tasks_done' = DoneOnEntry(w)
    /\ CondWait(w)
    /\ pc' = [pc EXCEPT ![w] = "get_task"]
    /\ UNCHANGED <<qhead, qtail, task_queue, pending, held, n_reqs>>

Dequeue_NoSignal(w) ==
    /\ AtQueueTest(w)
    /\ ~ QUEUE_EMPTY
    /\ tasks_done' = DoneOnEntry(w) + 1
    /\ held' = [held EXCEPT ![w] = task_queue[qhead]]
    /\ qhead' = Advance(qhead)
    /\ pc' = [pc EXCEPT ![w] = "busy"]
    /\ UNCHANGED <<qtail, task_queue, cond_queue, pending, n_reqs>>

(* get_task removes the oldest task, signals, and returns it.              *)
Dequeue(w) ==
    /\ AtQueueTest(w)
    /\ ~ QUEUE_EMPTY
    /\ tasks_done' = DoneOnEntry(w) + 1
    /\ held' = [held EXCEPT ![w] = task_queue[qhead]]
    /\ qhead' = Advance(qhead)
    /\ Signal
    /\ pc' = [pc EXCEPT ![w] = "busy"]
    /\ UNCHANGED <<qtail, task_queue, pending, n_reqs>>

(* The task's go proc returns; release_task frees the task.                *)
Release(w) ==
    /\ pc[w] = "busy"
    /\ held' = [held EXCEPT ![w] = NoTask]
    /\ pc' = [pc EXCEPT ![w] = "idle"]
    /\ UNCHANGED <<qhead, qtail, task_queue, tasks_done, cond_queue, pending,
                   n_reqs>>

-----------------------------------------------------------------------------
(* POSIX lets pthread_cond_wait return without a signal.                   *)
SpuriousWakeup(t) ==
    /\ t \in cond_queue
    /\ cond_queue' = cond_queue \ {t}
    /\ UNCHANGED <<qhead, qtail, task_queue, tasks_done, pc, pending, held,
                   n_reqs>>

dispatch(l) == WaitForSlot(l) \/ Enqueue(l)
get_task(w) == WaitForWork(w) \/ Dequeue(w)

Next ==
    \/ \E l \in Listeners : Accept(l) \/ dispatch(l)
    \/ \E w \in Workers : get_task(w) \/ Release(w)
    \/ \E t \in Threads : SpuriousWakeup(t)

Spec == Init /\ [][Next]_vars

(***************************************************************************)
(* The scheduler runs every runnable thread, and go procs return.  Nothing *)
(* makes clients connect, and nothing is assumed of which sleeper a signal *)
(* releases.                                                               *)
(***************************************************************************)
FairSpec ==
    /\ Spec
    /\ \A l \in Listeners : WF_vars(dispatch(l))
    /\ \A w \in Workers : WF_vars(get_task(w)) /\ WF_vars(Release(w))

-----------------------------------------------------------------------------
(* Tasks in the ring, and the ring read from qhead to qtail.               *)
Queued == IF qhead <= qtail THEN qtail - qhead ELSE qtail - qhead + nthreads

SlotAt(i) == IF qhead + i < nthreads THEN qhead + i ELSE qhead + i - nthreads

Contents == [i \in 1 .. Queued |-> task_queue[SlotAt(i - 1)]]

SleepingWorkers   == cond_queue \cap Workers
SleepingListeners == cond_queue \cap Listeners
InGetTask         == {w \in Workers : pc[w] = "get_task"}

(* The state of the pool: indices are slots, a thread holds a task exactly *)
(* where thr_queue.c gives it one, only threads inside get_task or         *)
(* dispatch sleep.                                                         *)
TypeOK ==
    /\ qhead \in Slots
    /\ qtail \in Slots
    /\ task_queue \in [Slots -> Tasks \cup {NoTask}]
    /\ tasks_done \in Int
    /\ pc \in [Threads -> {"idle", "get_task", "busy", "accept", "dispatch"}]
    /\ \A w \in Workers : pc[w] \in {"idle", "get_task", "busy"}
    /\ \A l \in Listeners : pc[l] \in {"accept", "dispatch"}
    /\ pending \in [Listeners -> Tasks \cup {NoTask}]
    /\ \A l \in Listeners : pc[l] = "dispatch" <=> pending[l] # NoTask
    /\ held \in [Workers -> Tasks \cup {NoTask}]
    /\ \A w \in Workers : pc[w] # "busy" => held[w] = NoTask
    /\ n_reqs \in [Listeners -> TaskIds]
    /\ cond_queue \subseteq {t \in Threads : pc[t] \in {"get_task", "dispatch"}}

(* thr_queue.c:252,259: tasks_done counts the workers outside get_task,    *)
(* whatever way they leave and re-enter the wait loop; it stays too high   *)
(* by the threads that line 83 took away from nth.                         *)
TasksDoneCount ==
    tasks_done = nth - Cardinality(InGetTask)

(* thr_queue.c:266,314: workers and listeners never all sleep on           *)
(* cond_queue, although one signal goes to an arbitrary sleeper.           *)
NoStall == cond_queue # Threads

(* thr_queue.c:253,297: every queued task has a worker of its own that is  *)
(* not asleep in get_task.                                                 *)
QueuedTasksHaveWorkers ==
    Queued <= nthreads - Cardinality(SleepingWorkers)

(* Why the pool does not stall.  Each task put in or taken out releases a  *)
(* sleeper, so listeners that fell asleep on a full queue, workers that    *)
(* fell asleep on an empty one and the free slots in between cannot all be *)
(* many at once: with a listener asleep they add up to at most one more    *)
(* than there are listeners.                                               *)
WakeupInv ==
    /\ QueuedTasksHaveWorkers
    /\ SleepingListeners # {} =>
        /\ Cardinality(SleepingWorkers) <= 1
        /\ Cardinality(SleepingListeners) + Cardinality(SleepingWorkers)
               + (nthreads - 1 - Queued) <= Cardinality(Listeners) + 1

(* A pool large enough for the argument above: two more workers than       *)
(* listeners, so at least four for the HTTP and the Wingman listener.      *)
EnoughThreads == nthreads >= Cardinality(Listeners) + 2

(* The pool is safe: state and count are as thr_queue.c means them, and    *)
(* signals that go to arbitrary sleepers never leave everybody asleep.     *)
PoolIsSafe == TypeOK /\ TasksDoneCount /\ NoStall /\ WakeupInv

-----------------------------------------------------------------------------
(* The pool implements the bounded FIFO of WorkQueue.                      *)
FIFO == INSTANCE WorkQueue
        WITH queue <- Contents, Capacity <- nthreads - 1

(* thr_queue.c:246-317: ring, sleeping and waking hand over every accepted *)
(* task once, in order, and never a slot that holds no task or an old one. *)
ImplementsFIFO == FIFO!Spec

(* ... and a queued task is taken as long as workers come back for more:   *)
(* the pool has the fairness of the FIFO as well as its steps.             *)
ImplementsFairFIFO == FIFO!Fairness

(* thr_queue.c:311 "signal a thread - somebody will wake up to do the      *)
(* work": no worker sleeps while a task is queued unless a worker is awake *)
(* in get_task, or about to enter it, to take the task.                    *)
SomebodyWakesUp ==
    Queued > 0 /\ SleepingWorkers # {} =>
        \/ \E w \in Workers : AtQueueTest(w)
        \/ \E l \in Listeners : pc[l] = "dispatch" /\ l \notin cond_queue
=============================================================================
