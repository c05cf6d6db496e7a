----------------------------- MODULE ClassQueue -----------------------------
(***************************************************************************)
(* The work queues of ptm/src/share/ptmqueue.cc: one list                  *)
(* (ProducerConsumerQueue), or three lists, for the class of the client,   *)
(* of which Remove takes the first that is not empty (PriorityQueue) or    *)
(* draws one (LotteryQueue, the queue of the distillers).                  *)
(*                                                                         *)
(* Add and the parts of Remove between two waits run under the mutex, and  *)
(* are steps.  Signal wakes one of the threads that wait; until that       *)
(* thread has the mutex again, other threads may have taken the work.      *)
(***************************************************************************)
EXTENDS Integers, Sequences, FiniteSets

CONSTANTS
    Consumers,  \* threads that call Remove
    Queues,     \* a subset of {"fifo", "priority", "lottery"}
    MaxAdds     \* bound: pieces of work added

VARIABLES
    queue,          \* the class of the queue
    classLists,     \* its lists; work is numbered as it is added
    added,          \* pieces of work so far
    thread,         \* each consumer: busy, asleep in Wait, or woken
    removed         \* what left each list, in the order it left

vars == <<queue, classLists, added, thread, removed>>

\* Which list a client's work goes to: 2 and 3 only where there are three
Classes == 1 .. 3
ListFor(class) == IF queue = "fifo" THEN 1 ELSE class

Init ==
    /\ queue \in Queues
    /\ classLists = [l \in Classes |-> << >>]
    /\ added = 0
    /\ thread = [c \in Consumers |-> "busy"]
    /\ removed = [l \in Classes |-> << >>]

\* pthread_cond_signal: one of the waiting threads, when there is one
Signal_OnlyFirst ==
    IF (\E c \in Consumers : thread[c] = "asleep")
           /\ \A l \in Classes : classLists[l] = << >>
    THEN \E c \in Consumers : /\ thread[c] = "asleep"
                              /\ thread' = [thread EXCEPT ![c] = "woken"]
    ELSE UNCHANGED thread
Signal ==
    IF \E c \in Consumers : thread[c] = "asleep"
    THEN \E c \in Consumers : /\ thread[c] = "asleep"
                              /\ thread' = [thread EXCEPT ![c] = "woken"]
    ELSE UNCHANGED thread

Add(class) ==
    /\ added < MaxAdds
    /\ added' = added + 1
    /\ classLists' = [classLists EXCEPT ![ListFor(class)] = Append(@, added + 1)]
    /\ Signal
    /\ UNCHANGED <<queue, removed>>

Empty == \A l \in Classes : classLists[l] = << >>

\* The lists Remove may take from: the first one with work, or any one with
\* work, for a draw of an empty list is repeated under the mutex
Eligible ==
    {l \in Classes : /\ classLists[l] # << >>
                     /\ queue = "lottery" \/ \A k \in 1 .. l - 1 : classLists[k] = << >>}

\* Remove, from its call or from the return of Wait
Take_Newest(c, l) ==
    /\ removed' = [removed EXCEPT ![l] = Append(@, classLists[l][Len(classLists[l])])]
    /\ classLists' = [classLists EXCEPT ![l] = SubSeq(@, 1, Len(@) - 1)]
    /\ thread' = [thread EXCEPT ![c] = "busy"]
Take(c, l) ==
    /\ removed' = [removed EXCEPT ![l] = Append(@, Head(classLists[l]))]
    /\ classLists' = [classLists EXCEPT ![l] = Tail(@)]
    /\ thread' = [thread EXCEPT ![c] = "busy"]

Remove(c) ==
    /\ thread[c] \in {"busy", "woken"}
    /\ \/ /\ Empty
          /\ thread' = [thread EXCEPT ![c] = "asleep"]
          /\ UNCHANGED <<classLists, removed>>
       \/ \E l \in Eligible : Take(c, l)
    /\ UNCHANGED <<queue, added>>

Next ==
    \/ \E class \in Classes : Add(class)
    \/ \E c \in Consumers : Remove(c)

Spec == Init /\ [][Next]_vars
-----------------------------------------------------------------------------
Elements(s) == {s[k] : k \in 1 .. Len(s)}
Queued == UNION {Elements(classLists[l]) : l \in Classes}

\* No signal is lost: while a thread sleeps in Wait, every piece of queued
\* work has a thread of its own that is on its way to it, though threads
\* that never slept may take work first and send a woken one back to sleep.
WakeupForWork ==
    (\E c \in Consumers : thread[c] = "asleep") =>
        Cardinality(Queued) <= Cardinality({c \in Consumers : thread[c] = "woken"})

\* Work is removed once, none is lost, and within a class of clients it
\* leaves in the order in which it came, whichever list a draw picks.
History(l) == removed[l] \o classLists[l]

EachOnceInOrder ==
    /\ UNION {Elements(History(l)) : l \in Classes} = 1 .. added
    /\ \A l \in Classes : \A j, k \in 1 .. Len(History(l)) :
           j < k => History(l)[j] < History(l)[k]
    /\ Len(History(1)) + Len(History(2)) + Len(History(3)) = added

=============================================================================
