-------------------------- MODULE ThreadQueueProofs --------------------------
(***************************************************************************)
(* Proofs about ThreadQueue for every number of worker threads and every   *)
(* finite set of listeners.                                                *)
(***************************************************************************)
EXTENDS ThreadQueue, FiniteSetTheorems, TLAPS

(* The pool has at least one thread, and no more than were asked for.      *)
LEMMA ThreadCount == nthreads \in Nat \ {0}
BY ConstantsAssumption DEF nthreads

(* thr_queue.c:260-261,308-309: the increment wraps at the last slot.      *)
LEMMA AdvanceWraps ==
    \A i \in Slots : /\ Advance(i) = IF i + 1 = nthreads THEN 0 ELSE i + 1
                     /\ Advance(i) \in Slots
<1>1. \A n \in Nat \ {0} : \A i \in 0 .. n - 1 :
        (i + 1) % n = IF i + 1 = n THEN 0 ELSE i + 1
  OBVIOUS
<1>2. QED
  BY <1>1, ThreadCount DEF Advance, Slots

(* A thread is a worker or a listener, never both.                         *)
LEMMA ThreadKinds ==
    /\ Workers \cap Listeners = {}
    /\ Workers \subseteq Threads
    /\ Listeners \subseteq Threads
    /\ \A t \in Threads : t \in Workers \/ t \in Listeners
<1>1. Workers \subseteq Int
  BY ThreadCount DEF Workers
<1>2. QED
  BY Zenon, <1>1, ConstantsAssumption DEF Threads

(* The task a listener builds is a task, and its next id is an id.         *)
LEMMA NewTaskType ==
    /\ 1 % TaskIdWidth \in TaskIds
    /\ \A l \in Listeners, n \in TaskIds :
          /\ [from |-> l, id |-> n] \in Tasks
          /\ [from |-> l, id |-> n] # NoTask
          /\ (n + 1) % TaskIdWidth \in TaskIds
<1>1. \A w \in Nat \ {0}, n \in Nat : n % w \in 0 .. w - 1
  OBVIOUS
<1>2. \A n \in TaskIds : n \in Nat
  BY ConstantsAssumption DEF TaskIds
<1>3. QED
  BY <1>1, <1>2, ConstantsAssumption DEF TaskIds, Tasks

-----------------------------------------------------------------------------
(* Type correctness: every action keeps the indices inside the ring and    *)
(* keeps tasks, program counters and the set of sleepers consistent.       *)
THEOREM TypeCorrect == Spec => []TypeOK
<1>1. Init => TypeOK
  <2>1. 0 \in Slots /\ nth \in Int
    BY ThreadCount, ConstantsAssumption DEF Slots
  <2>2. QED
    BY <2>1, ThreadKinds, NewTaskType DEF Init, TypeOK
<1>2. TypeOK /\ [Next]_vars => TypeOK'
  <2> SUFFICES ASSUME TypeOK, [Next]_vars PROVE TypeOK'
    OBVIOUS
  <2> USE ThreadKinds
  <2>1. ASSUME NEW l \in Listeners, Accept(l) PROVE TypeOK'
    BY <2>1, NewTaskType DEF TypeOK, Accept
  <2>2. ASSUME NEW l \in Listeners, WaitForSlot(l) PROVE TypeOK'
    BY <2>2 DEF TypeOK, WaitForSlot, CondWait
  <2>3. ASSUME NEW l \in Listeners, Enqueue(l) PROVE TypeOK'
    BY <2>3, AdvanceWraps DEF TypeOK, Enqueue, Signal
  <2>4. ASSUME NEW w \in Workers, WaitForWork(w) PROVE TypeOK'
    BY <2>4 DEF TypeOK, WaitForWork, CondWait, AtQueueTest, DoneOnEntry
  <2>5. ASSUME NEW w \in Workers, Dequeue(w) PROVE TypeOK'
    BY <2>5, AdvanceWraps DEF TypeOK, Dequeue, Signal, AtQueueTest, DoneOnEntry
  <2>6. ASSUME NEW w \in Workers, Release(w) PROVE TypeOK'
    BY <2>6 DEF TypeOK, Release
  <2>7. ASSUME NEW t \in Threads, SpuriousWakeup(t) PROVE TypeOK'
    BY <2>7 DEF TypeOK, SpuriousWakeup
  <2>8. CASE UNCHANGED vars
    BY <2>8 DEF TypeOK, vars
  <2>9. QED
    BY <2>1, <2>2, <2>3, <2>4, <2>5, <2>6, <2>7, <2>8
    DEF Next, dispatch, get_task
<1>3. QED
  BY <1>1, <1>2, PTL DEF Spec

-----------------------------------------------------------------------------
(* Queued counts the slots from qhead to qtail; the two tests of the code  *)
(* say that this count is at its limits.                                   *)
LEMMA QueuedBounds ==
    ASSUME TypeOK
    PROVE  /\ Queued \in 0 .. nthreads - 1
           /\ QUEUE_EMPTY <=> Queued = 0
           /\ QUEUE_FULL <=> Queued = nthreads - 1
<1>1. qhead \in Slots /\ qtail \in Slots
  BY DEF TypeOK
<1>2. QED
  BY <1>1, ThreadCount, AdvanceWraps DEF Queued, QUEUE_EMPTY, QUEUE_FULL, Slots

(* Moving qtail adds one task, moving qhead takes one away.                *)
LEMMA QueuedSteps ==
    ASSUME TypeOK
    PROVE  /\ ~ QUEUE_FULL /\ qtail' = Advance(qtail) /\ qhead' = qhead
                => Queued' = Queued + 1
           /\ ~ QUEUE_EMPTY /\ qhead' = Advance(qhead) /\ qtail' = qtail
                => Queued' = Queued - 1
<1>1. qhead \in Slots /\ qtail \in Slots
  BY DEF TypeOK
<1>2. QED
  BY <1>1, ThreadCount, AdvanceWraps DEF Queued, QUEUE_EMPTY, QUEUE_FULL, Slots

(* The sleepers are finitely many, at most all of their kind.              *)
LEMMA SleeperCounts ==
    ASSUME TypeOK
    PROVE  /\ IsFiniteSet(SleepingWorkers)
           /\ IsFiniteSet(SleepingListeners)
           /\ Cardinality(SleepingWorkers) \in 0 .. nthreads
           /\ Cardinality(SleepingListeners) \in 0 .. Cardinality(Listeners)
           /\ Cardinality(Listeners) \in Nat
<1>1. IsFiniteSet(Workers) /\ Cardinality(Workers) = nthreads
  BY FS_Interval, ThreadCount DEF Workers
<1>2. SleepingWorkers \subseteq Workers /\ SleepingListeners \subseteq Listeners
  BY DEF SleepingWorkers, SleepingListeners
<1>3. IsFiniteSet(Listeners)
  BY ConstantsAssumption
<1>4. QED
  BY <1>1, <1>2, <1>3, FS_Subset, FS_CardinalityType, ThreadCount

(* Waking a sleeper takes one from its side and nothing from the other.    *)
LEMMA OneWakes ==
    ASSUME TypeOK, NEW t \in cond_queue, cond_queue' = cond_queue \ {t}
    PROVE  \/ /\ SleepingWorkers # {}
              /\ Cardinality(SleepingWorkers') = Cardinality(SleepingWorkers) - 1
              /\ SleepingListeners' = SleepingListeners
           \/ /\ SleepingListeners # {}
              /\ Cardinality(SleepingListeners') = Cardinality(SleepingListeners) - 1
              /\ SleepingWorkers' = SleepingWorkers
<1>1. t \in Threads
  BY DEF TypeOK
<1>2. CASE t \in Workers
  <2>1. SleepingWorkers' = SleepingWorkers \ {t} /\ t \in SleepingWorkers
    BY <1>2 DEF SleepingWorkers
  <2>2. SleepingListeners' = SleepingListeners
    BY <1>2, ThreadKinds DEF SleepingListeners
  <2>3. QED
    BY Zenon, <2>1, <2>2, SleeperCounts, FS_RemoveElement
<1>3. CASE t \in Listeners
  <2>1. SleepingListeners' = SleepingListeners \ {t} /\ t \in SleepingListeners
    BY <1>3 DEF SleepingListeners
  <2>2. SleepingWorkers' = SleepingWorkers
    BY <1>3, ThreadKinds DEF SleepingWorkers
  <2>3. QED
    BY Zenon, <2>1, <2>2, SleeperCounts, FS_RemoveElement
<1>4. QED
  BY <1>1, <1>2, <1>3, ThreadKinds

(* pthread_cond_signal wakes one sleeper, or there was none.               *)
LEMMA SignalWakes ==
    ASSUME TypeOK, Signal
    PROVE  \/ /\ SleepingWorkers = {} /\ SleepingListeners = {}
              /\ SleepingWorkers' = {} /\ SleepingListeners' = {}
           \/ /\ SleepingWorkers # {}
              /\ Cardinality(SleepingWorkers') = Cardinality(SleepingWorkers) - 1
              /\ SleepingListeners' = SleepingListeners
           \/ /\ SleepingListeners # {}
              /\ Cardinality(SleepingListeners') = Cardinality(SleepingListeners) - 1
              /\ SleepingWorkers' = SleepingWorkers
<1>1. CASE cond_queue = {} /\ UNCHANGED cond_queue
  BY <1>1 DEF SleepingWorkers, SleepingListeners
<1>2. CASE \E t \in cond_queue : cond_queue' = cond_queue \ {t}
  BY <1>2, OneWakes
<1>3. QED
  BY <1>1, <1>2 DEF Signal

(* Falling asleep adds one to its own side.                                *)
LEMMA WorkerSleeps ==
    ASSUME TypeOK, NEW w \in Workers, w \notin cond_queue, CondWait(w)
    PROVE  /\ Cardinality(SleepingWorkers') = Cardinality(SleepingWorkers) + 1
           /\ SleepingListeners' = SleepingListeners
<1>1. SleepingWorkers' = SleepingWorkers \cup {w} /\ w \notin SleepingWorkers
  BY DEF SleepingWorkers, CondWait
<1>2. SleepingListeners' = SleepingListeners
  BY ThreadKinds DEF SleepingListeners, CondWait
<1>3. QED
  BY Zenon, <1>1, <1>2, SleeperCounts, FS_AddElement

\* One more listener sleeps in dispatch, and as many workers as before.
LEMMA ListenerSleeps ==
    ASSUME TypeOK, NEW l \in Listeners, l \notin cond_queue, CondWait(l)
    PROVE  /\ Cardinality(SleepingListeners') = Cardinality(SleepingListeners) + 1
           /\ SleepingWorkers' = SleepingWorkers
           /\ SleepingListeners' # {}
<1>1. SleepingListeners' = SleepingListeners \cup {l} /\ l \notin SleepingListeners
  BY DEF SleepingListeners, CondWait
<1>2. SleepingWorkers' = SleepingWorkers
  BY ThreadKinds DEF SleepingWorkers, CondWait
<1>3. QED
  BY Zenon, <1>1, <1>2, SleeperCounts, FS_AddElement

-----------------------------------------------------------------------------
(* What an invariant about sleepers and queued tasks needs to know of a    *)
(* step: who sleeps and how many tasks are queued before and after it.     *)
LEMMA WakeupStep ==
    ASSUME EnoughThreads, TypeOK, WakeupInv, [Next]_vars
    PROVE  WakeupInv'
<1> USE DEF WakeupInv, QueuedTasksHaveWorkers
<1>a. /\ nthreads \in Nat \ {0}
      /\ Queued \in 0 .. nthreads - 1
      /\ Cardinality(SleepingWorkers) \in 0 .. nthreads
      /\ Cardinality(SleepingListeners) \in 0 .. Cardinality(Listeners)
      /\ Cardinality(Listeners) \in Nat
      /\ nthreads >= Cardinality(Listeners) + 2
  BY ThreadCount, QueuedBounds, SleeperCounts DEF EnoughThreads
<1>b. /\ SleepingListeners = {} <=> Cardinality(SleepingListeners) = 0
      /\ SleepingWorkers = {} <=> Cardinality(SleepingWorkers) = 0
  BY SleeperCounts, FS_EmptySet
<1>c. /\ Cardinality({}) = 0
      /\ SleepingListeners' = {} <=> Cardinality(SleepingListeners') = 0
  <2>1. SleepingListeners' \subseteq Listeners
    BY DEF SleepingListeners
  <2>2. QED
    BY <2>1, ConstantsAssumption, FS_Subset, FS_EmptySet
<1>d. Cardinality(SleepingWorkers') <= nthreads
  <2>1. IsFiniteSet(Workers) /\ Cardinality(Workers) = nthreads
    BY FS_Interval, ThreadCount DEF Workers
  <2>2. SleepingWorkers' \subseteq Workers
    BY DEF SleepingWorkers
  <2>3. QED
    BY <2>1, <2>2, FS_Subset
<1>1. ASSUME NEW l \in Listeners, Accept(l) PROVE WakeupInv'
  BY <1>1 DEF Accept, SleepingWorkers, SleepingListeners, Queued
<1>2. ASSUME NEW l \in Listeners, WaitForSlot(l) PROVE WakeupInv'
  <2>1. Queued' = Queued /\ Queued = nthreads - 1
    BY <1>2, QueuedBounds DEF WaitForSlot, Queued
  <2>2. /\ Cardinality(SleepingListeners') = Cardinality(SleepingListeners) + 1
        /\ SleepingWorkers' = SleepingWorkers
    BY <1>2, ListenerSleeps DEF WaitForSlot
  <2>3. Cardinality(SleepingListeners') <= Cardinality(Listeners)
    BY ConstantsAssumption, FS_Subset DEF SleepingListeners
  <2>4. QED
    BY <2>1, <2>2, <2>3, <1>a
<1>3. ASSUME NEW l \in Listeners, Enqueue(l) PROVE WakeupInv'
  <2>1. Queued' = Queued + 1 /\ Queued # nthreads - 1
    BY <1>3, QueuedSteps, QueuedBounds DEF Enqueue
  <2>2. \/ /\ SleepingWorkers = {} /\ SleepingListeners = {}
           /\ SleepingWorkers' = {} /\ SleepingListeners' = {}
        \/ /\ SleepingWorkers # {}
           /\ Cardinality(SleepingWorkers') = Cardinality(SleepingWorkers) - 1
           /\ SleepingListeners' = SleepingListeners
        \/ /\ SleepingListeners # {}
           /\ Cardinality(SleepingListeners') = Cardinality(SleepingListeners) - 1
           /\ SleepingWorkers' = SleepingWorkers
    BY <1>3, SignalWakes DEF Enqueue
  <2>3. CASE SleepingWorkers' = {} /\ SleepingListeners' = {}
    BY <2>1, <2>3, <1>a, <1>c
  <2>4. CASE /\ Cardinality(SleepingWorkers') = Cardinality(SleepingWorkers) - 1
             /\ SleepingListeners' = SleepingListeners
    BY <2>1, <2>4, <1>a
  <2>5. CASE /\ SleepingListeners # {}
             /\ Cardinality(SleepingListeners') = Cardinality(SleepingListeners) - 1
             /\ SleepingWorkers' = SleepingWorkers
    BY <2>1, <2>5, <1>a
  <2>6. QED
    BY <2>2, <2>3, <2>4, <2>5
<1>4. ASSUME NEW w \in Workers, WaitForWork(w) PROVE WakeupInv'
  <2>1. Queued' = Queued /\ Queued = 0
    BY <1>4, QueuedBounds DEF WaitForWork, Queued
  <2>2. w \notin cond_queue
    BY <1>4, ThreadKinds DEF WaitForWork, AtQueueTest, TypeOK
  <2>3. /\ Cardinality(SleepingWorkers') = Cardinality(SleepingWorkers) + 1
        /\ SleepingListeners' = SleepingListeners
    BY <1>4, <2>2, WorkerSleeps DEF WaitForWork
  <2>4. SleepingListeners = {}
    BY <2>1, <1>a, <1>b
  <2>5. QED
    BY <2>1, <2>3, <2>4, <1>a, <1>d
<1>5. ASSUME NEW w \in Workers, Dequeue(w) PROVE WakeupInv'
  <2>1. Queued' = Queued - 1 /\ Queued # 0
    BY <1>5, QueuedSteps, QueuedBounds DEF Dequeue
  <2>2. \/ /\ SleepingWorkers = {} /\ SleepingListeners = {}
           /\ SleepingWorkers' = {} /\ SleepingListeners' = {}
        \/ /\ SleepingWorkers # {}
           /\ Cardinality(SleepingWorkers') = Cardinality(SleepingWorkers) - 1
           /\ SleepingListeners' = SleepingListeners
        \/ /\ SleepingListeners # {}
           /\ Cardinality(SleepingListeners') = Cardinality(SleepingListeners) - 1
           /\ SleepingWorkers' = SleepingWorkers
    BY <1>5, SignalWakes DEF Dequeue
  <2>3. QED
    BY <2>1, <2>2, <1>a, <1>b, <1>c
<1>6. ASSUME NEW w \in Workers, Release(w) PROVE WakeupInv'
  BY <1>6 DEF Release, SleepingWorkers, SleepingListeners, Queued
<1>7. ASSUME NEW t \in Threads, SpuriousWakeup(t) PROVE WakeupInv'
  <2>1. Queued' = Queued
    BY <1>7 DEF SpuriousWakeup, Queued
  <2>2. QED
    BY <1>7, <2>1, OneWakes, <1>a, <1>b, <1>c DEF SpuriousWakeup
<1>8. CASE UNCHANGED vars
  BY <1>8 DEF vars, SleepingWorkers, SleepingListeners, Queued
<1>9. QED
  BY <1>1, <1>2, <1>3, <1>4, <1>5, <1>6, <1>7, <1>8
  DEF Next, dispatch, get_task

(* With two more workers than listeners, WakeupInv holds in every state.   *)
THEOREM WakeupCorrect == EnoughThreads => (Spec => []WakeupInv)
<1> SUFFICES ASSUME EnoughThreads PROVE Spec => []WakeupInv
  OBVIOUS
<1>1. Init => WakeupInv
  BY ThreadCount, FS_EmptySet
  DEF Init, WakeupInv, QueuedTasksHaveWorkers, Queued, SleepingWorkers,
      SleepingListeners
<1>2. TypeOK /\ WakeupInv /\ [Next]_vars => WakeupInv'
  BY WakeupStep
<1>3. QED
  BY <1>1, <1>2, TypeCorrect, PTL DEF Spec

(* thr_queue.c:246-317: with two more workers than listeners the threads   *)
(* never all sleep on cond_queue.                                          *)
THEOREM PoolNeverStalls == EnoughThreads => (Spec => []NoStall)
<1> SUFFICES ASSUME EnoughThreads PROVE Spec => []NoStall
  OBVIOUS
<1>1. TypeOK /\ WakeupInv => NoStall
  <2> SUFFICES ASSUME TypeOK, WakeupInv, cond_queue = Threads PROVE FALSE
    BY DEF NoStall
  <2>1. SleepingWorkers = Workers /\ SleepingListeners = Listeners
    BY DEF SleepingWorkers, SleepingListeners, Threads
  <2>2. Cardinality(SleepingWorkers) = nthreads
    BY <2>1, ThreadCount, FS_Interval DEF Workers
  <2>3. SleepingListeners # {}
    BY <2>1, ConstantsAssumption
  <2>4. Cardinality(Listeners) \in Nat
    BY SleeperCounts
  <2>5. QED
    BY <2>2, <2>3, <2>4, ThreadCount DEF WakeupInv, EnoughThreads
<1>2. QED
  BY <1>1, TypeCorrect, WakeupCorrect, PTL

-----------------------------------------------------------------------------
(* thr_queue.c:252,259: tasks_done is exact however often a worker is      *)
(* woken and goes back to sleep inside get_task.                           *)
THEOREM TasksDoneCorrect == Spec => []TasksDoneCount
<1>a. IsFiniteSet(InGetTask) /\ Cardinality(InGetTask) \in Nat
  <2>1. IsFiniteSet(Workers)
    BY FS_Interval, ThreadCount DEF Workers
  <2>2. QED
    BY <2>1, FS_Subset, FS_CardinalityType DEF InGetTask
<1>1. Init => TasksDoneCount
  <2> SUFFICES ASSUME Init PROVE TasksDoneCount
    OBVIOUS
  <2>1. InGetTask = {}
    BY ThreadKinds DEF Init, InGetTask
  <2>2. QED
    BY <2>1, FS_EmptySet, ConstantsAssumption DEF Init, TasksDoneCount
<1>2. TypeOK /\ TasksDoneCount /\ [Next]_vars => TasksDoneCount'
  <2> SUFFICES ASSUME TypeOK, TasksDoneCount, [Next]_vars PROVE TasksDoneCount'
    OBVIOUS
  <2>a. tasks_done = nth - Cardinality(InGetTask) /\ nth \in Int
    BY ConstantsAssumption DEF TasksDoneCount
  <2>b. tasks_done' = tasks_done /\ InGetTask' = InGetTask => TasksDoneCount'
    BY DEF TasksDoneCount
  <2>1. ASSUME NEW l \in Listeners, Accept(l) \/ dispatch(l) PROVE TasksDoneCount'
    <3>1. tasks_done' = tasks_done /\ \A w \in Workers : pc'[w] = pc[w]
      BY <2>1, ThreadKinds
      DEF TypeOK, Accept, dispatch, WaitForSlot, Enqueue
    <3>2. QED
      BY <3>1, <2>b DEF InGetTask
  <2>2. ASSUME NEW w \in Workers, WaitForWork(w) PROVE TasksDoneCount'
    <3>1. pc' = [pc EXCEPT ![w] = "get_task"] /\ InGetTask' = InGetTask \cup {w}
      BY <2>2, ThreadKinds DEF TypeOK, WaitForWork, InGetTask
    <3>2. tasks_done' = IF w \in InGetTask THEN tasks_done ELSE tasks_done - 1
      BY <2>2 DEF WaitForWork, DoneOnEntry, AtQueueTest, InGetTask
    <3>3. Cardinality(InGetTask') = IF w \in InGetTask THEN Cardinality(InGetTask)
                                    ELSE Cardinality(InGetTask) + 1
      BY <1>a, <3>1, FS_AddElement
    <3>4. QED
      BY <1>a, <2>a, <3>2, <3>3 DEF TasksDoneCount
  <2>3. ASSUME NEW w \in Workers, Dequeue(w) PROVE TasksDoneCount'
    <3>1. InGetTask' = InGetTask \ {w}
      BY <2>3, ThreadKinds DEF TypeOK, Dequeue, InGetTask
    <3>2. tasks_done' = IF w \in InGetTask THEN tasks_done + 1 ELSE tasks_done
      BY <2>3, <2>a, <1>a DEF Dequeue, DoneOnEntry, AtQueueTest, InGetTask
    <3>3. Cardinality(InGetTask') = IF w \in InGetTask THEN Cardinality(InGetTask) - 1
                                    ELSE Cardinality(InGetTask)
      BY Zenon, <1>a, <3>1, FS_RemoveElement
    <3>4. QED
      BY <1>a, <2>a, <3>2, <3>3 DEF TasksDoneCount
  <2>4. ASSUME NEW w \in Workers, Release(w) PROVE TasksDoneCount'
    <3>1. tasks_done' = tasks_done /\ InGetTask' = InGetTask
      BY <2>4, ThreadKinds DEF TypeOK, Release, InGetTask
    <3>2. QED
      BY <3>1, <2>b
  <2>5. ASSUME NEW t \in Threads, SpuriousWakeup(t) PROVE TasksDoneCount'
    BY <2>5 DEF SpuriousWakeup, TasksDoneCount, InGetTask
  <2>6. CASE UNCHANGED vars
    BY <2>6 DEF vars, TasksDoneCount, InGetTask
  <2>7. QED
    BY <2>1, <2>2, <2>3, <2>4, <2>5, <2>6 DEF Next, get_task
<1>3. QED
  BY <1>1, <1>2, TypeCorrect, PTL DEF Spec

-----------------------------------------------------------------------------
(* The slots from qhead on, in order, end at qtail and do not repeat.      *)
LEMMA SlotOrder ==
    ASSUME TypeOK
    PROVE  /\ SlotAt(Queued) = qtail
           /\ \A i \in 0 .. Queued - 1 : SlotAt(i) \in Slots \ {qtail}
           /\ Queued > 0 => SlotAt(0) = qhead
<1>1. qhead \in Slots /\ qtail \in Slots
  BY DEF TypeOK
<1>2. QED
  BY <1>1, ThreadCount DEF Queued, SlotAt, Slots

(* The contents of the ring are a sequence of tasks, as long as Queued.    *)
LEMMA ContentsType ==
    ASSUME TypeOK
    PROVE  /\ Contents \in Seq(Tasks \cup {NoTask})
           /\ Len(Contents) = Queued
<1>1. \A i \in 1 .. Queued : task_queue[SlotAt(i - 1)] \in Tasks \cup {NoTask}
  BY SlotOrder, QueuedBounds, ThreadCount DEF TypeOK
<1>2. Queued \in Nat
  BY QueuedBounds, ThreadCount
<1>3. QED
  BY <1>1, <1>2 DEF Contents

(* Writing the slot at qtail and advancing it appends to the contents.     *)
LEMMA ContentsPut ==
    ASSUME TypeOK, ~ QUEUE_FULL, NEW x, qhead' = qhead,
           qtail' = Advance(qtail), task_queue' = [task_queue EXCEPT ![qtail] = x]
    PROVE  Contents' = Append(Contents, x)
<1>1. Queued \in Nat /\ Queued' = Queued + 1
  BY QueuedBounds, QueuedSteps, ThreadCount
<1>2. \A i \in 1 .. Queued : task_queue'[SlotAt(i - 1)] = task_queue[SlotAt(i - 1)]
  BY <1>1, SlotOrder DEF TypeOK
<1>3. task_queue'[SlotAt(Queued)] = x
  BY SlotOrder DEF TypeOK
<1>4. \A i : SlotAt(i)' = SlotAt(i)
  BY DEF SlotAt
<1>5. Contents' = [i \in 1 .. Queued + 1 |-> task_queue'[SlotAt(i - 1)]]
  BY <1>1, <1>4 DEF Contents
<1>6. QED
  BY <1>1, <1>2, <1>3, <1>5 DEF Contents

(* Advancing qhead removes the head of the contents, the slot it was at.   *)
LEMMA ContentsTake ==
    ASSUME TypeOK, ~ QUEUE_EMPTY, qtail' = qtail,
           qhead' = Advance(qhead), UNCHANGED task_queue
    PROVE  /\ Contents # << >>
           /\ Head(Contents) = task_queue[qhead]
           /\ Contents' = Tail(Contents)
<1>1. Queued \in Nat \ {0} /\ Queued' = Queued - 1
  BY QueuedBounds, QueuedSteps, ThreadCount
<1>2. \A i \in 1 .. Queued - 1 : SlotAt(i - 1)' = SlotAt(i)
  <2>1. qhead \in Slots /\ qtail \in Slots
    BY DEF TypeOK
  <2>2. QED
    BY <2>1, <1>1, QueuedBounds, ThreadCount, AdvanceWraps DEF SlotAt, Slots
<1>3. Contents' = [i \in 1 .. Queued - 1 |-> task_queue[SlotAt(i)]]
  BY <1>1, <1>2 DEF Contents
<1>4. Head(Contents) = task_queue[qhead]
  BY <1>1, SlotOrder, ContentsType DEF Contents
<1>5. QED
  BY <1>1, <1>3, <1>4, ContentsType DEF Contents

(* thr_queue.c:246-317: for every number of threads and listeners the pool *)
(* is a bounded FIFO.  Queueing and taking are the abstract Put and Take,  *)
(* sleeping and waking are steps the callers cannot see.                   *)
THEOREM PoolIsFIFO == Spec => ImplementsFIFO
<1> USE DEF FIFO!vars
<1>1. Init => FIFO!Init
  <2> SUFFICES ASSUME Init PROVE FIFO!Init
    OBVIOUS
  <2>1. Queued = 0
    BY DEF Init, Queued
  <2>2. QED
    BY <2>1 DEF Init, FIFO!Init, Contents
<1>2. TypeOK /\ TypeOK' /\ [Next]_vars => [FIFO!Next]_(FIFO!vars)
  <2> SUFFICES ASSUME TypeOK, TypeOK', [Next]_vars
               PROVE  [FIFO!Next]_(FIFO!vars)
    OBVIOUS
  <2>a. qhead' = qhead /\ qtail' = qtail /\ task_queue' = task_queue
          => Contents' = Contents
    BY DEF Contents, Queued, SlotAt
  <2>1. ASSUME NEW l \in Listeners, Accept(l) PROVE FIFO!Accept(l)
    <3>1. [from |-> l, id |-> n_reqs[l]] \in Tasks
      BY NewTaskType DEF TypeOK
    <3>2. QED
      BY Zenon, <2>1, <2>a, <3>1 DEF Accept, FIFO!Accept, TypeOK
  <2>2. ASSUME NEW l \in Listeners, WaitForSlot(l) PROVE UNCHANGED FIFO!vars
    BY <2>2, <2>a DEF WaitForSlot
  <2>3. ASSUME NEW l \in Listeners, Enqueue(l) PROVE FIFO!Put(l)
    <3>1. Len(Contents) < nthreads - 1
      BY <2>3, ContentsType, QueuedBounds, ThreadCount DEF Enqueue
    <3>2. Contents' = Append(Contents, pending[l])
      BY Zenon, <2>3, ContentsPut DEF Enqueue
    <3>3. QED
      BY <2>3, <3>1, <3>2 DEF Enqueue, FIFO!Put, TypeOK
  <2>4. ASSUME NEW w \in Workers, WaitForWork(w) PROVE UNCHANGED FIFO!vars
    BY <2>4, <2>a DEF WaitForWork
  <2>5. ASSUME NEW w \in Workers, Dequeue(w) PROVE FIFO!Take(w)
    <3>1. /\ Contents # << >>
          /\ Head(Contents) = task_queue[qhead]
          /\ Contents' = Tail(Contents)
      BY <2>5, ContentsTake DEF Dequeue
    <3>2. held[w] = NoTask
      BY <2>5 DEF Dequeue, AtQueueTest, TypeOK
    <3>3. QED
      BY Zenon, <2>5, <3>1, <3>2 DEF Dequeue, FIFO!Take
  <2>6. ASSUME NEW w \in Workers, Release(w)
        PROVE  FIFO!Release(w) \/ UNCHANGED FIFO!vars
    <3>1. CASE held[w] # NoTask
      BY <2>6, <2>a, <3>1 DEF Release, FIFO!Release
    <3>2. CASE held[w] = NoTask
      BY <2>6, <2>a, <3>2 DEF Release, TypeOK
    <3>3. QED
      BY <3>1, <3>2
  <2>7. ASSUME NEW t \in Threads, SpuriousWakeup(t) PROVE UNCHANGED FIFO!vars
    BY <2>7, <2>a DEF SpuriousWakeup
  <2>8. CASE UNCHANGED vars
    BY <2>8, <2>a DEF vars
  <2>9. QED
    BY <2>1, <2>2, <2>3, <2>4, <2>5, <2>6, <2>7, <2>8
    DEF Next, dispatch, get_task, FIFO!Next
<1>3. QED
  BY <1>1, <1>2, TypeCorrect, PTL DEF Spec, FIFO!Spec, ImplementsFIFO

(***************************************************************************)
(* PoolIsSafe, all that the run of the pool checks of its states: the      *)
(* counter tasks_done is exact for every pool, and a pool with at least    *)
(* two more workers than listeners never stalls.                           *)
(***************************************************************************)
THEOREM PoolAlwaysSafe == EnoughThreads => (Spec => []PoolIsSafe)
<1> SUFFICES ASSUME EnoughThreads PROVE Spec => []PoolIsSafe
  OBVIOUS
<1>1. TypeOK /\ TasksDoneCount /\ NoStall /\ WakeupInv => PoolIsSafe
  BY DEF PoolIsSafe
<1> QED BY <1>1, TypeCorrect, TasksDoneCorrect, PoolNeverStalls, WakeupCorrect, PTL
=============================================================================
