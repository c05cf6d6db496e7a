---------------------------- MODULE EventSystem ----------------------------
(***************************************************************************)
(* The event system of ptm/src/share/eventhan.cc: one event thread in      *)
(* Run()/GetEvent(), which sleeps in select() with the mutex released, and *)
(* other threads that post events and add or remove timers and             *)
(* communication objects.  A caller that finds the event thread in         *)
(* select() writes a chunk to a pipe the event thread selects on, then     *)
(* waits on notifyCond until the event thread has left select().           *)
(*                                                                         *)
(* Timers and communication objects are addresses: "live" holds the ones   *)
(* allocated now, and an address that was freed may be allocated again.    *)
(* Deadlines are abstract: a new timer goes anywhere in the timer queue    *)
(* and the timer at the head may be due at any moment.  Left out: running  *)
(* out of memory, and signal-safety of handlers.                           *)
(***************************************************************************)
EXTENDS Naturals, Sequences, FiniteSets

CONSTANTS Callers,      \* threads other than the event thread
          Timers,       \* addresses of gm_Timer objects
          Comms,        \* addresses of CommunicationObjects
          Repeating,    \* the timers created with repeat = gm_True
          None,         \* the NULL pointer
          PipeSize,     \* 256-byte chunks that fit in the pipe
          MaxQueued,    \* bound: no more posts while this many are queued
          Spurious      \* may Condition::Wait return without a Broadcast?

ConstantsAssumption ==
    /\ None \notin Timers \cup Comms \cup Callers
    /\ Timers \cap Comms = {}
    /\ Repeating \subseteq Timers
    /\ PipeSize \in Nat \ {0}
    /\ MaxQueued \in Nat
    /\ Spurious \in BOOLEAN
    /\ "event thread" \notin Callers \cup {None}
    /\ IsFiniteSet(Comms)
ASSUME EventSystemAssumption == ConstantsAssumption

VARIABLES pc,              \* where the event thread is
          outcome,         \* what select() returned: timeout, ready, EINTR
          ready,           \* the readable descriptors it returned
          timerObject,     \* the timer captured before select()
          descrs,          \* readFileDescrs, captured before select()
          current,         \* the event being handled
          eventQueue, blockedOnSelect, mutex, pipe,
          ti,              \* TimerInfo: timers by deadline
          ci,              \* CommunicationInfo: objects to select on
          live,            \* addresses of allocated objects
          readable,        \* descriptors with input waiting
          caller,          \* where each caller is
          dying            \* the object each caller is removing

evsVars == <<pc, outcome, ready, timerObject, descrs, current>>
objVars == <<ti, ci, live, readable>>
callVars == <<caller, dying>>
vars == <<evsVars, eventQueue, blockedOnSelect, mutex, pipe, objVars, callVars>>

EventThread == "event thread"
Objects == Timers \cup Comms
Event == [type : {"evTimer", "evSelect", "evQuit", "evUser"},
          handler : Objects \cup {None}]
Elements(s) == {s[i] : i \in DOMAIN s}
NoEvent == [type |-> "evUser", handler |-> None]

Init ==
    /\ pc = "lock" /\ outcome = "timeout" /\ ready = {}
    /\ timerObject = None /\ descrs = {} /\ current = NoEvent
    /\ eventQueue = << >> /\ blockedOnSelect = FALSE /\ mutex = None
    /\ pipe = 0 /\ ti = << >> /\ ci = {} /\ live = {} /\ readable = {}
    /\ caller = [n \in Callers |-> "idle"]
    /\ dying = [n \in Callers |-> None]
-----------------------------------------------------------------------------
(* GetEvent: the top of the loop, with the mutex held.                     *)

AtTop ==
    \/ pc = "lock" /\ mutex = None
    \/ pc = "top"

\* An event is queued: GetEvent returns it.
TakeEvent ==
    /\ AtTop
    /\ eventQueue # << >>
    /\ current' = Head(eventQueue)
    /\ eventQueue' = Tail(eventQueue)
    /\ pc' = "taken"
    /\ mutex' = None
    /\ UNCHANGED <<outcome, ready, timerObject, descrs, blockedOnSelect,
                   pipe, objVars, callVars>>

\* Nothing queued: capture the descriptors and the head timer, then select.
EnterSelect ==
    /\ AtTop
    /\ eventQueue = << >>
    /\ timerObject' = IF ti = << >> THEN None ELSE Head(ti)
    /\ descrs' = ci
    /\ blockedOnSelect' = TRUE
    /\ mutex' = None
    /\ pc' = "select"
    /\ UNCHANGED <<outcome, ready, current, eventQueue, pipe, objVars, callVars>>

\* select() returns.  The pipe, when it has input, is ready too.  A timeout
\* needs a captured timer; one that was due at once is not even preceded by a
\* select(), so a timeout does not tell that nothing was readable.
SelectReturns ==
    /\ pc = "select"
    /\ pc' = "woken"
    /\ \/ /\ outcome' = "ready"
          /\ pipe > 0 \/ readable \cap descrs # {}
          /\ ready' = (readable \cap descrs) \cup (IF pipe > 0 THEN {None} ELSE {})
       \/ /\ outcome' = "timeout"
          /\ timerObject # None
          /\ ready' = {}
    /\ UNCHANGED <<timerObject, descrs, current, eventQueue, blockedOnSelect,
                   mutex, pipe, objVars, callVars>>

\* EINTR or EBADF: the loop goes round.  Any other error ends GetEvent.
SelectFails ==
    /\ pc = "select"
    /\ pc' = "woken"
    /\ outcome' \in {"again", "error"}
    /\ ready' = {}
    /\ UNCHANGED <<timerObject, descrs, current, eventQueue, blockedOnSelect,
                   mutex, pipe, objVars, callVars>>

\* Deviation: notifyCond.Signal instead of Broadcast.
Broadcast_Signal ==
    LET asleep == {n \in Callers : caller[n] = "wait"}
    IN  IF asleep = {} THEN UNCHANGED caller
        ELSE \E n \in asleep : caller' = [caller EXCEPT ![n] = "return"]

\* notifyCond.Broadcast: every thread in Notify's Wait may return.
Broadcast ==
    caller' = [n \in Callers |-> IF caller[n] = "wait" THEN "return"
                                                       ELSE caller[n]]

\* TimerInfo::Add inserts a timer before the first one that is not earlier.
InsertedAt(q, k, t) ==
    [j \in 1..Len(q) + 1 |-> IF j < k THEN q[j]
                             ELSE IF j = k THEN t ELSE q[j - 1]]
TimerInfoAdd(q, t) == {InsertedAt(q, k, t) : k \in 1..Len(q) + 1}

\* TimerInfo::Remove takes the timer out, if it is queued.
RemovedAt(q, k) == [j \in 1..Len(q) - 1 |-> IF j < k THEN q[j] ELSE q[j + 1]]
TimerInfoRemove(q, t) ==
    IF t \in Elements(q) THEN {RemovedAt(q, k) : k \in {i \in DOMAIN q : q[i] = t}}
                      ELSE {q}

\* The evSelect events for a set of objects, in the order of the object list,
\* which is not modelled.
SelectEvents(S) ==
    {[i \in DOMAIN order |-> [type |-> "evSelect", handler |-> order[i]]] :
        order \in {f \in [1..Cardinality(S) -> S] : Elements(f) = S}}

\* The mutex is taken again after select(), and what was captured is used
\* for the last time.
Relock ==
    /\ pc = "woken" /\ mutex = None
    /\ blockedOnSelect' = FALSE
    /\ Broadcast
    /\ outcome' = "timeout" /\ ready' = {}
    /\ timerObject' = None /\ descrs' = {}

\* A timeout fires the captured timer if it is still the one at the head.
TimerFires ==
    /\ Relock
    /\ outcome = "timeout"
    /\ pc' = "top" /\ mutex' = EventThread
    /\ IF ti = << >> \/ Head(ti) # timerObject
       THEN UNCHANGED <<ti, eventQueue>>
       ELSE /\ eventQueue' = Append(eventQueue,
                                [type |-> "evTimer", handler |-> timerObject])
            /\ IF timerObject \in Repeating
               THEN ti' \in TimerInfoAdd(Tail(ti), timerObject)
               ELSE ti' = Tail(ti)
    /\ UNCHANGED <<current, pipe, ci, live, readable, dying>>

\* Deviation: the pipe is read without testing FD_ISSET.
DescriptorsReady_ReadAlways ==
    /\ Relock
    /\ outcome = "ready"
    /\ pc' = "top" /\ mutex' = EventThread
    /\ pipe' = pipe - 1
    /\ UNCHANGED <<current, eventQueue, objVars, dying>>

\* One chunk is read off the pipe, and every registered object whose
\* descriptor is ready gets an evSelect.
DescriptorsReady ==
    /\ Relock
    /\ outcome = "ready"
    /\ pc' = "top" /\ mutex' = EventThread
    /\ pipe' = IF None \in ready THEN pipe - 1 ELSE pipe
    /\ \E batch \in SelectEvents(ci \cap ready) :
           eventQueue' = eventQueue \o batch
    /\ UNCHANGED <<current, objVars, dying>>

SelectFailed ==
    /\ Relock
    /\ outcome \in {"again", "error"}
    /\ IF outcome = "again" THEN pc' = "top" /\ mutex' = EventThread
                            ELSE pc' = "stopped" /\ mutex' = None
    /\ UNCHANGED <<current, eventQueue, pipe, objVars, dying>>

GetEvent ==
    \/ TakeEvent \/ EnterSelect \/ SelectReturns
    \/ TimerFires \/ DescriptorsReady \/ SelectFailed
-----------------------------------------------------------------------------
(* What PostEvent, AddTimer, RemoveTimer, AddCommunicationObject and       *)
(* RemoveCommunicationObject do with the mutex held, before Notify.        *)

Owned(x) == x \in live /\ \A n \in Callers : dying[n] # x

PostEvent ==
    /\ Len(eventQueue) < MaxQueued
    /\ \E e \in [type : {"evUser"}, handler : live \cup {None}]
                \cup [type : {"evQuit"}, handler : {None}] :
           eventQueue' = Append(eventQueue, e)
    /\ UNCHANGED <<ti, ci, live>>

AddTimer(t) ==
    /\ t \in Timers \ live
    /\ live' = live \cup {t}
    /\ ti' \in TimerInfoAdd(ti, t)
    /\ UNCHANGED <<eventQueue, ci>>

AddCommunicationObject(c) ==
    /\ c \in Comms \ live
    /\ live' = live \cup {c}
    /\ ci' = ci \cup {c}
    /\ UNCHANGED <<eventQueue, ti>>

Add == PostEvent \/ (\E t \in Timers : AddTimer(t))
                 \/ (\E c \in Comms : AddCommunicationObject(c))

RemoveTimer(t) ==
    /\ t \in Timers /\ Owned(t)
    /\ ti' \in TimerInfoRemove(ti, t)
    /\ UNCHANGED <<eventQueue, ci>>

RemoveCommunicationObject(c) ==
    /\ c \in Comms /\ Owned(c)
    /\ ci' = ci \ {c}
    /\ UNCHANGED <<eventQueue, ti>>

Remove(x) == RemoveTimer(x) \/ RemoveCommunicationObject(x)
-----------------------------------------------------------------------------
(* A caller: the operation and Notify run under the mutex.  A write to a   *)
(* full pipe blocks with the mutex held, and never completes: the only     *)
(* reader is the event thread in DescriptorsReady, which needs the mutex.  *)

\* Deviations: Notify does not wait for the event thread, or is not called.
Notify_NoWait(n) ==
    /\ pipe' = IF blockedOnSelect /\ pipe < PipeSize THEN pipe + 1 ELSE pipe
    /\ caller' = [caller EXCEPT ![n] = "return"]
    /\ UNCHANGED mutex
Notify_NotCalled(n) ==
    /\ caller' = [caller EXCEPT ![n] = "return"]
    /\ UNCHANGED <<mutex, pipe>>

Notify(n) ==
    CASE ~blockedOnSelect ->
            /\ caller' = [caller EXCEPT ![n] = "return"]
            /\ UNCHANGED <<mutex, pipe>>
      [] blockedOnSelect /\ pipe < PipeSize ->
            /\ pipe' = pipe + 1
            /\ caller' = [caller EXCEPT ![n] = "wait"]
            /\ UNCHANGED mutex
      [] OTHER ->
            /\ mutex' = n
            /\ caller' = [caller EXCEPT ![n] = "write"]
            /\ UNCHANGED pipe

CallAdd(n) ==
    /\ caller[n] = "idle" /\ mutex = None
    /\ Add
    /\ Notify(n)
    /\ UNCHANGED <<evsVars, blockedOnSelect, readable, dying>>

CallRemove(n) ==
    /\ caller[n] = "idle" /\ mutex = None
    /\ \E x \in Objects : Remove(x) /\ dying' = [dying EXCEPT ![n] = x]
    /\ Notify(n)
    /\ UNCHANGED <<evsVars, blockedOnSelect, live, readable>>

\* Condition::Wait may return without a Broadcast; Notify does not loop.
SpuriousWakeup(n) ==
    /\ Spurious
    /\ caller[n] = "wait"
    /\ caller' = [caller EXCEPT ![n] = "return"]
    /\ UNCHANGED <<evsVars, eventQueue, blockedOnSelect, mutex, pipe, objVars,
                   dying>>

\* The call returns; a removed object is freed and its descriptor closed.
CallReturns(n) ==
    /\ caller[n] = "return" /\ mutex = None
    /\ caller' = [caller EXCEPT ![n] = "idle"]
    /\ dying' = [dying EXCEPT ![n] = None]
    /\ live' = live \ {dying[n]}
    /\ readable' = readable \ {dying[n]}
    /\ UNCHANGED <<evsVars, eventQueue, blockedOnSelect, mutex, pipe, ti, ci>>
-----------------------------------------------------------------------------
(* Run: evQuit ends it and an event without a handler is dropped.  A       *)
(* handler may use the event system itself (blockedOnSelect is FALSE, so   *)
(* Notify does nothing) before it returns.                                 *)

RunEvent ==
    /\ pc = "taken"
    /\ pc' = CASE current.type = "evQuit" -> "stopped"
               [] current.type # "evQuit" /\ current.handler = None -> "lock"
               [] OTHER -> "handle"
    /\ UNCHANGED <<outcome, ready, timerObject, descrs, current, eventQueue,
                   blockedOnSelect, mutex, pipe, objVars, callVars>>

HandlerAdds ==
    /\ pc = "handle" /\ mutex = None
    /\ Add
    /\ UNCHANGED <<evsVars, blockedOnSelect, mutex, pipe, readable, callVars>>

HandlerRemoves ==
    /\ pc = "handle" /\ mutex = None
    /\ \E x \in Objects : Remove(x) /\ live' = live \ {x} /\ readable' = readable \ {x}
    /\ UNCHANGED <<evsVars, blockedOnSelect, mutex, pipe, callVars>>

\* A handler that returns gm_False ends Run.
HandlerReturns ==
    /\ pc = "handle"
    /\ pc' \in {"lock", "stopped"}
    /\ readable' \in {readable, readable \ {current.handler}}
    /\ current' = NoEvent
    /\ UNCHANGED <<outcome, ready, timerObject, descrs, eventQueue,
                   blockedOnSelect, mutex, pipe, ti, ci, live, callVars>>

\* Input arrives on a descriptor.
InputArrives ==
    /\ \E c \in (Comms \cap live) \ readable : readable' = readable \cup {c}
    /\ UNCHANGED <<evsVars, eventQueue, blockedOnSelect, mutex, pipe, ti, ci,
                   live, callVars>>

Next ==
    \/ GetEvent \/ SelectFails \/ RunEvent
    \/ HandlerAdds \/ HandlerRemoves \/ HandlerReturns
    \/ InputArrives
    \/ \E n \in Callers : \/ CallAdd(n) \/ CallRemove(n)
                          \/ SpuriousWakeup(n) \/ CallReturns(n)

Spec == Init /\ [][Next]_vars

(***************************************************************************)
(* The event thread keeps running, handlers return, and a caller that was  *)
(* woken gets the mutex when it is free again and again.  Nothing is       *)
(* assumed of the callers' choices, of input, or of errors of select().    *)
(***************************************************************************)
Fairness ==
    /\ WF_vars(GetEvent) /\ WF_vars(RunEvent) /\ WF_vars(HandlerReturns)
    /\ \A n \in Callers : SF_vars(CallReturns(n))
FairSpec == Spec /\ Fairness
-----------------------------------------------------------------------------
(* Every variable keeps its type.                                          *)
TypeOK ==
    /\ pc \in {"lock", "top", "select", "woken", "taken", "handle",
              "stopped"}
    /\ outcome \in {"timeout", "ready", "again", "error"}
    /\ ready \subseteq Comms \cup {None}
    /\ timerObject \in Timers \cup {None} /\ descrs \subseteq Comms
    /\ current \in Event /\ eventQueue \in Seq(Event)
    /\ blockedOnSelect \in BOOLEAN
    /\ mutex \in Callers \cup {EventThread, None} /\ pipe \in 0..PipeSize
    /\ ti \in Seq(Timers) /\ ci \subseteq Comms
    /\ live \subseteq Objects /\ readable \subseteq Comms
    /\ caller \in [Callers -> {"idle", "write", "wait", "return"}]
    /\ dying \in [Callers -> Objects \cup {None}]

(* While the event thread is in select(), or on its way back to the mutex, *)
(* the timer it captured and the owners of the descriptors it waits for    *)
(* have not been freed: RemoveTimer and RemoveCommunicationObject return   *)
(* only after Notify has seen the event thread leave select().  This is    *)
(* what makes "ti.TimerAtHead() != timerObject" (eventhan.cc:327) compare  *)
(* timers and not recycled addresses, and select() use open descriptors.   *)
(* It needs a Wait that returns only after a Broadcast.                    *)
CapturedStayAllocated ==
    blockedOnSelect => /\ timerObject \in live \cup {None}
                       /\ descrs \subseteq live

(* A caller asleep in Notify has its wake-up on the way: the event thread  *)
(* still has blockedOnSelect set, and either it has left select() already  *)
(* or there is a chunk in the pipe that makes select() return, however     *)
(* many callers notify at once and whoever's chunk was read last.          *)
NoLostNotify ==
    \A n \in Callers :
        caller[n] = "wait" => /\ blockedOnSelect
                              /\ pc = "woken" \/ pipe > 0

(* The three together: what select() uses is allocated, and whoever waits  *)
(* for the event thread to leave it has its wake-up on the way.            *)
EventsAreSafe == TypeOK /\ CapturedStayAllocated /\ NoLostNotify

(* An event that is queued, by PostEvent or by GetEvent itself, comes to   *)
(* be handled unless Run() has ended, as long as no caller ever has to     *)
(* block on a full pipe (see EventThreadBlocksOnlyInSelect).               *)
PipeNeverFull == [](\A n \in Callers : caller[n] # "write")
EventsAreHandled ==
    PipeNeverFull =>
        \A x \in Objects \cup {None} :
            (\E i \in DOMAIN eventQueue : eventQueue[i].handler = x)
                ~> ((pc = "taken" /\ current.handler = x) \/ pc = "stopped")

(* No call into the event system blocks forever, under the same proviso.   *)
CallsReturn ==
    PipeNeverFull => \A n \in Callers : caller[n] # "idle" ~> caller[n] = "idle"

(* eventhan.h:137 "the event system thread can only block while doing a    *)
(* select!": outside select() the thread never waits for a mutex whose     *)
(* holder waits for the event thread to empty the pipe.                    *)
EventThreadBlocksOnlyInSelect ==
    pc \in {"lock", "woken"} => mutex \notin Callers

(* eventhan.cc:328 "the timer object has dissapeared. Ignore this event":  *)
(* Run() does not dispatch a timer event to a timer that was deleted.      *)
NoEventForDeletedTimer ==
    pc = "taken" /\ current.type = "evTimer" => current.handler \in live
=============================================================================
