------------------------- MODULE EventSystemProofs -------------------------
(***************************************************************************)
(* Proofs about EventSystem, for every set of callers, timers and          *)
(* communication objects and every pipe size.                              *)
(***************************************************************************)
EXTENDS EventSystem, FiniteSetTheorems, SequenceTheorems, TLAPS

(***************************************************************************)
(* Where the event thread is determines the flag and the mutex; a chunk    *)
(* that select() reported is still in the pipe; a caller blocked in        *)
(* write() holds the mutex; and no notification is lost.                   *)
(***************************************************************************)
SelectInv ==
    /\ blockedOnSelect <=> pc \in {"select", "woken"}
    /\ pc = "top" => mutex = EventThread
    /\ None \in ready => pc = "woken" /\ pipe > 0
    /\ \A n \in Callers : caller[n] = "write" => mutex = n
    /\ NoLostNotify

(***************************************************************************)
(* A timer is queued once; what is registered is allocated; what a caller  *)
(* removes is allocated, no longer registered, removed by nobody else and, *)
(* once the caller is past Notify, not captured by the event thread.       *)
(***************************************************************************)
Distinct(q) == \A i, j \in DOMAIN q : q[i] = q[j] => i = j
DyingInv ==
    \A n \in Callers : dying[n] # None =>
        /\ caller[n] # "idle"
        /\ dying[n] \in live /\ dying[n] \notin Elements(ti) /\ dying[n] \notin ci
        /\ caller[n] = "return" /\ blockedOnSelect =>
               dying[n] # timerObject /\ dying[n] \notin descrs
        /\ \A m \in Callers : dying[m] = dying[n] => m = n
AllocInv ==
    /\ Distinct(ti)
    /\ Elements(ti) \subseteq live /\ ci \subseteq live
    /\ CapturedStayAllocated
    /\ DyingInv

\* What the timer queue operations return.
LEMMA InsertedType ==
    ASSUME NEW S, NEW q \in Seq(S), NEW t \in S, NEW k \in 1..Len(q) + 1
    PROVE  /\ InsertedAt(q, k, t) \in Seq(S)
           /\ Elements(InsertedAt(q, k, t)) = Elements(q) \cup {t}
           /\ Distinct(q) /\ t \notin Elements(q) => Distinct(InsertedAt(q, k, t))
<1> DEFINE r == InsertedAt(q, k, t)
<1>1. /\ Len(q) \in Nat /\ DOMAIN q = 1..Len(q) /\ DOMAIN r = 1..Len(q) + 1
      /\ \A j \in 1..Len(q) : q[j] \in S
      /\ \A j \in DOMAIN r : r[j] = IF j < k THEN q[j]
                                    ELSE IF j = k THEN t ELSE q[j - 1]
  BY DEF InsertedAt
<1>2. r \in Seq(S)
  BY <1>1 DEF InsertedAt
<1>3. ASSUME NEW x \in Elements(r) PROVE x \in Elements(q) \cup {t}
  BY <1>1, <1>3 DEF Elements
<1>4. ASSUME NEW x \in Elements(q) PROVE x \in Elements(r)
  <2>1. PICK j \in 1..Len(q) : x = q[j]
    BY <1>1, <1>4 DEF Elements
  <2>2. CASE j < k
    <3>1. j \in DOMAIN r /\ r[j] = q[j]
      BY <1>1, <2>1, <2>2
    <3> QED BY <2>1, <3>1 DEF Elements
  <2>3. CASE ~(j < k)
    <3>1. j + 1 \in DOMAIN r /\ r[j + 1] = q[j]
      BY <1>1, <2>1, <2>3
    <3> QED BY <2>1, <3>1 DEF Elements
  <2> QED BY <2>2, <2>3
<1>5. t \in Elements(r)
  <2>1. k \in DOMAIN r /\ r[k] = t
    BY <1>1
  <2> QED BY <2>1 DEF Elements
<1>6. ASSUME Distinct(q), t \notin Elements(q) PROVE Distinct(r)
  BY <1>1, <1>6 DEF Distinct, Elements
<1> HIDE DEF r
<1>7. Elements(r) = Elements(q) \cup {t}
  BY <1>3, <1>4, <1>5
<1> QED BY <1>2, <1>6, <1>7 DEF r

\* Removing a timer from the timer queue leaves the others, each once.
LEMMA RemovedType ==
    ASSUME NEW S, NEW q \in Seq(S), NEW t, NEW r \in TimerInfoRemove(q, t)
    PROVE  /\ r \in Seq(S)
           /\ Elements(r) \subseteq Elements(q)
           /\ Distinct(q) => Distinct(r) /\ t \notin Elements(r)
<1>1. CASE t \notin Elements(q)
  BY <1>1 DEF TimerInfoRemove
<1>2. CASE t \in Elements(q)
  <2>1. PICK k \in DOMAIN q : q[k] = t /\ r = RemovedAt(q, k)
    BY <1>2 DEF TimerInfoRemove
  <2>2. /\ Len(q) \in Nat /\ DOMAIN q = 1..Len(q) /\ k \in 1..Len(q)
        /\ DOMAIN r = 1..Len(q) - 1
        /\ \A j \in 1..Len(q) : q[j] \in S
        /\ \A j \in DOMAIN r : r[j] = IF j < k THEN q[j] ELSE q[j + 1]
    BY <2>1 DEF RemovedAt
  <2>3. r \in Seq(S)
    BY <2>1, <2>2 DEF RemovedAt
  <2>4. Elements(r) \subseteq Elements(q)
    BY <2>2 DEF Elements
  <2>5. ASSUME Distinct(q) PROVE Distinct(r) /\ t \notin Elements(r)
    BY <2>1, <2>2, <2>5 DEF Distinct, Elements
  <2> QED BY <2>3, <2>4, <2>5
<1> QED BY <1>1, <1>2

\* Taking the first element off a queue leaves the others.
LEMMA TailType ==
    ASSUME NEW S, NEW q \in Seq(S), q # << >>
    PROVE  /\ Tail(q) \in Seq(S) /\ Head(q) \in S /\ Head(q) \in Elements(q)
           /\ Elements(Tail(q)) \subseteq Elements(q)
           /\ Distinct(q) => Distinct(Tail(q)) /\ Head(q) \notin Elements(Tail(q))
<1>1. /\ Len(q) \in Nat \ {0} /\ DOMAIN q = 1..Len(q) /\ Head(q) = q[1]
      /\ DOMAIN Tail(q) = 1..Len(q) - 1
      /\ \A j \in DOMAIN Tail(q) : Tail(q)[j] = q[j + 1]
      /\ Tail(q) \in Seq(S) /\ Head(q) \in S
  OBVIOUS
<1>2. Head(q) \in Elements(q) /\ Elements(Tail(q)) \subseteq Elements(q)
  BY <1>1 DEF Elements
<1>3. ASSUME Distinct(q) PROVE Distinct(Tail(q)) /\ Head(q) \notin Elements(Tail(q))
  BY <1>1, <1>3 DEF Distinct, Elements
<1> QED BY <1>1, <1>2, <1>3

\* What the operations on the registries do to types and registrations.
LEMMA AddTypes ==
    ASSUME TypeOK, Add
    PROVE  /\ eventQueue' \in Seq(Event) /\ ti' \in Seq(Timers) /\ ci' \subseteq Comms
           /\ live' \subseteq Objects /\ live \subseteq live'
<1>1. CASE PostEvent
  <2>1. PICK e : /\ e \in [type : {"evUser"}, handler : live \cup {None}]
                         \cup [type : {"evQuit"}, handler : {None}]
                 /\ eventQueue' = Append(eventQueue, e)
    BY <1>1 DEF PostEvent
  <2>2. e \in Event
    BY <2>1 DEF TypeOK, Event, Objects
  <2>3. eventQueue \in Seq(Event)
    BY DEF TypeOK
  <2>4. eventQueue' \in Seq(Event)
    BY <2>1, <2>2, <2>3
  <2> QED BY <1>1, <2>4 DEF PostEvent, TypeOK
<1>2. ASSUME NEW t \in Timers, AddTimer(t)
      PROVE  /\ ti' \in Seq(Timers)
             /\ UNCHANGED <<eventQueue, ci>> /\ live' = live \cup {t}
  <2>1. PICK k \in 1..Len(ti) + 1 : ti' = InsertedAt(ti, k, t)
    BY <1>2 DEF AddTimer, TimerInfoAdd
  <2>2. ti' \in Seq(Timers)
    BY <2>1, InsertedType DEF TypeOK
  <2> QED BY <1>2, <2>2 DEF AddTimer
<1>3. ASSUME NEW c \in Comms, AddCommunicationObject(c)
      PROVE  UNCHANGED <<eventQueue, ti>> /\ ci' = ci \cup {c} /\ live' = live \cup {c}
  BY <1>3 DEF AddCommunicationObject
<1>4. CASE \E t \in Timers : AddTimer(t)
  BY <1>2, <1>4 DEF TypeOK, Objects
<1>5. CASE \E c \in Comms : AddCommunicationObject(c)
  <2>1. PICK c \in Comms : AddCommunicationObject(c)
    BY <1>5
  <2> QED BY <1>3, <2>1 DEF TypeOK, Objects
<1> QED BY <1>1, <1>4, <1>5 DEF Add

\* RemoveTimer and RemoveCommunicationObject keep the types of the registries.
LEMMA RemoveTypes ==
    ASSUME TypeOK, NEW x \in Objects, Remove(x)
    PROVE  /\ UNCHANGED eventQueue /\ ti' \in Seq(Timers) /\ ci' \subseteq Comms
<1>1. CASE RemoveTimer(x)
  BY <1>1, RemovedType DEF RemoveTimer, TypeOK
<1>2. CASE RemoveCommunicationObject(x)
  BY <1>2 DEF RemoveCommunicationObject, TypeOK
<1> QED BY <1>1, <1>2 DEF Remove

\* Notify keeps the pipe within its size and leaves the caller in a known state.
LEMMA NotifyTypes ==
    ASSUME TypeOK, NEW n \in Callers, Notify(n)
    PROVE  /\ caller' \in [Callers -> {"idle", "write", "wait", "return"}]
           /\ mutex' \in Callers \cup {EventThread, None}
           /\ pipe' \in 0..PipeSize
<1>1. CASE ~blockedOnSelect
  BY <1>1 DEF Notify, TypeOK
<1>2. CASE blockedOnSelect /\ pipe < PipeSize
  <2>1. pipe' = pipe + 1 /\ caller' = [caller EXCEPT ![n] = "wait"] /\ mutex' = mutex
    BY <1>2 DEF Notify
  <2>2. pipe \in 0..PipeSize /\ PipeSize \in Nat /\ pipe < PipeSize
    BY <1>2, EventSystemAssumption DEF TypeOK, ConstantsAssumption
  <2>3. pipe' \in 0..PipeSize
    BY <2>1, <2>2
  <2> QED BY <2>1, <2>3 DEF TypeOK
<1>3. CASE blockedOnSelect /\ ~(pipe < PipeSize)
  BY <1>3 DEF Notify, TypeOK
<1> QED BY <1>1, <1>2, <1>3 DEF TypeOK

\* The batch GetEvent queues for ready descriptors consists of events.
LEMMA SelectEventsType ==
    ASSUME NEW S \in SUBSET Comms, NEW batch \in SelectEvents(S)
    PROVE  batch \in Seq(Event)
<1>1. Cardinality(S) \in Nat
  BY FS_Subset, FS_CardinalityType, EventSystemAssumption DEF ConstantsAssumption
<1>2. PICK f \in [1..Cardinality(S) -> S] :
          batch = [i \in DOMAIN f |-> [type |-> "evSelect", handler |-> f[i]]]
  BY DEF SelectEvents
<1>3. batch \in [1..Cardinality(S) -> Event]
  BY <1>2 DEF Event, Objects
<1> QED BY <1>1, <1>3, SeqDef
-----------------------------------------------------------------------------
\* The size of the pipe is a number.
LEMMA PipeSizeType == PipeSize \in Nat
  BY EventSystemAssumption DEF ConstantsAssumption

\* So is the number of chunks in it.
LEMMA PipeType == TypeOK => pipe \in Nat
<1> SUFFICES ASSUME pipe \in 0..PipeSize PROVE pipe \in Nat
  BY DEF TypeOK
<1> QED BY PipeSizeType

\* The constructor of EventSystem establishes the types.
LEMMA TypeInit == Init => TypeOK
<1>1. NoEvent \in Event
  BY DEF NoEvent, Event
<1>2. 0 \in 0..PipeSize
  BY PipeSizeType
<1>3. << >> \in Seq(Event) /\ << >> \in Seq(Timers)
  OBVIOUS
<1> QED BY Zenon, <1>1, <1>2, <1>3 DEF Init, TypeOK

\* Every step of the event thread and of its callers keeps the types; that a
\* read() of the pipe finds a chunk needs SelectInv.
LEMMA TypeStep == TypeOK /\ SelectInv /\ [Next]_vars => TypeOK'
<1> SUFFICES ASSUME TypeOK, SelectInv, [Next]_vars PROVE TypeOK'
  OBVIOUS
<1> USE DEF evsVars, objVars, callVars
<1>1. CASE TakeEvent
  <2>1. eventQueue \in Seq(Event) /\ eventQueue # << >>
    BY <1>1 DEF TakeEvent, TypeOK
  <2>2. Head(eventQueue) \in Event /\ Tail(eventQueue) \in Seq(Event)
    BY <2>1
  <2> QED BY <1>1, <2>2 DEF TakeEvent, TypeOK
<1>2. CASE EnterSelect
  <2>1. timerObject' \in Timers \cup {None}
    BY <1>2, TailType DEF EnterSelect, TypeOK
  <2> QED BY <1>2, <2>1 DEF EnterSelect, TypeOK
<1>3. CASE SelectReturns
  <2>1. ready' \subseteq Comms \cup {None} /\ outcome' \in {"ready", "timeout"}
    BY <1>3 DEF SelectReturns, TypeOK
  <2> QED BY <1>3, <2>1 DEF SelectReturns, TypeOK
<1>4. CASE SelectFails
  BY <1>4 DEF SelectFails, TypeOK
<1>5. ASSUME Relock
      PROVE  /\ outcome' = "timeout" /\ ready' = {} /\ timerObject' = None
             /\ descrs' = {} /\ blockedOnSelect' = FALSE
             /\ caller' \in [Callers -> {"idle", "write", "wait", "return"}]
  BY <1>5 DEF Relock, Broadcast, TypeOK
<1>6. CASE TimerFires
  <2>1. ti' \in Seq(Timers) /\ eventQueue' \in Seq(Event)
    <3>1. CASE ti = << >> \/ Head(ti) # timerObject
      BY <1>6, <3>1 DEF TimerFires, TypeOK
    <3>2. CASE ti # << >> /\ Head(ti) = timerObject
      <4>1. Tail(ti) \in Seq(Timers) /\ timerObject \in Timers
        BY <3>2, TailType DEF TypeOK
      <4>2. ti' \in Seq(Timers)
        <5>1. CASE timerObject \in Repeating
          <6>1. PICK k \in 1..Len(Tail(ti)) + 1 : ti' = InsertedAt(Tail(ti), k, timerObject)
            BY <1>6, <3>2, <5>1 DEF TimerFires, TimerInfoAdd
          <6> QED BY Zenon, <4>1, <6>1, InsertedType
        <5>2. CASE timerObject \notin Repeating
          BY <1>6, <3>2, <4>1, <5>2 DEF TimerFires
        <5> QED BY <5>1, <5>2
      <4>3. /\ [type |-> "evTimer", handler |-> timerObject] \in Event
            /\ eventQueue \in Seq(Event)
        BY <4>1 DEF Event, Objects, TypeOK
      <4>4. eventQueue' = Append(eventQueue, [type |-> "evTimer", handler |-> timerObject])
        BY <1>6, <3>2 DEF TimerFires
      <4> QED BY <4>2, <4>3, <4>4
    <3> QED BY <3>1, <3>2
  <2>2. Relock /\ pc' = "top" /\ mutex' = EventThread
    BY <1>6 DEF TimerFires
  <2> QED BY <1>5, <1>6, <2>1, <2>2 DEF TimerFires, TypeOK
<1>7. CASE DescriptorsReady
  <2>1. eventQueue' \in Seq(Event)
    <3>1. PICK batch \in SelectEvents(ci \cap ready) : eventQueue' = eventQueue \o batch
      BY <1>7 DEF DescriptorsReady
    <3>2. ci \cap ready \in SUBSET Comms /\ eventQueue \in Seq(Event)
      BY DEF TypeOK
    <3>3. batch \in Seq(Event)
      BY <3>2, SelectEventsType
    <3> QED BY <3>1, <3>2, <3>3
  <2>2. pipe' \in 0..PipeSize
    <3>1. pipe \in 0..PipeSize /\ PipeSize \in Nat
      BY EventSystemAssumption DEF TypeOK, ConstantsAssumption
    <3>2. None \in ready => pipe > 0
      BY DEF SelectInv
    <3>3. pipe' = IF None \in ready THEN pipe - 1 ELSE pipe
      BY <1>7 DEF DescriptorsReady
    <3> QED BY <3>1, <3>2, <3>3
  <2>3. Relock /\ pc' = "top" /\ mutex' = EventThread
    BY <1>7 DEF DescriptorsReady
  <2> QED BY <1>5, <1>7, <2>1, <2>2, <2>3 DEF DescriptorsReady, TypeOK
<1>8. CASE SelectFailed
  BY <1>5, <1>8 DEF SelectFailed, TypeOK
<1>9. CASE RunEvent
  BY <1>9 DEF RunEvent, TypeOK
<1>10. CASE HandlerAdds
  BY <1>10, AddTypes DEF HandlerAdds, TypeOK
<1>11. CASE HandlerRemoves
  <2>1. PICK x \in Objects : Remove(x) /\ live' = live \ {x} /\ readable' = readable \ {x}
    BY <1>11 DEF HandlerRemoves
  <2> QED BY <1>11, <2>1, RemoveTypes DEF HandlerRemoves, TypeOK
<1>12. CASE HandlerReturns
  <2>1. readable' \subseteq Comms /\ NoEvent \in Event
    BY <1>12 DEF HandlerReturns, TypeOK, NoEvent, Event
  <2> QED BY <1>12, <2>1 DEF HandlerReturns, TypeOK
<1>13. CASE InputArrives
  BY <1>13 DEF InputArrives, TypeOK
<1>14. ASSUME NEW n \in Callers, CallAdd(n) PROVE TypeOK'
  BY <1>14, AddTypes, NotifyTypes DEF CallAdd, TypeOK
<1>15. ASSUME NEW n \in Callers, CallRemove(n) PROVE TypeOK'
  <2>1. PICK x \in Objects : Remove(x) /\ dying' = [dying EXCEPT ![n] = x]
    BY Zenon, <1>15 DEF CallRemove
  <2>2. Notify(n)
    BY <1>15 DEF CallRemove
  <2> QED BY <1>15, <2>1, <2>2, RemoveTypes, NotifyTypes DEF CallRemove, TypeOK
<1>16. ASSUME NEW n \in Callers, SpuriousWakeup(n) PROVE TypeOK'
  BY <1>16 DEF SpuriousWakeup, TypeOK
<1>17. ASSUME NEW n \in Callers, CallReturns(n) PROVE TypeOK'
  BY <1>17 DEF CallReturns, TypeOK
<1>18. CASE UNCHANGED vars
  BY <1>18 DEF vars, TypeOK
<1> QED
  BY <1>1, <1>2, <1>3, <1>4, <1>6, <1>7, <1>8, <1>9, <1>10, <1>11, <1>12, <1>13,
     <1>14, <1>15, <1>16, <1>17, <1>18 DEF Next, GetEvent

\* No thread waits and nothing is captured at first.
LEMMA SelectInvInit == Init => SelectInv
  BY DEF Init, SelectInv, NoLostNotify

\* What Notify does to the caller that makes it, and to nobody else.
LEMMA NotifyStep ==
    ASSUME TypeOK, NEW n \in Callers, Notify(n), mutex = None
    PROVE  /\ \A m \in Callers \ {n} : caller'[m] = caller[m]
           /\ pipe' >= pipe
           /\ \/ ~blockedOnSelect /\ caller'[n] = "return" /\ mutex' = None
              \/ blockedOnSelect /\ caller'[n] = "wait" /\ pipe' > 0 /\ mutex' = None
              \/ blockedOnSelect /\ caller'[n] = "write" /\ mutex' = n
<1>1. pipe \in Nat
  BY PipeType
<1>2. CASE ~blockedOnSelect
  BY <1>1, <1>2 DEF Notify, TypeOK
<1>3. CASE blockedOnSelect /\ pipe < PipeSize
  <2>1. pipe' = pipe + 1 /\ caller' = [caller EXCEPT ![n] = "wait"] /\ mutex' = mutex
    BY <1>3 DEF Notify
  <2>2. pipe' > 0 /\ pipe' >= pipe
    BY <1>1, <2>1
  <2> QED BY <1>3, <2>1, <2>2 DEF TypeOK
<1>4. CASE blockedOnSelect /\ ~(pipe < PipeSize)
  BY <1>1, <1>4 DEF Notify, TypeOK
<1> QED BY <1>2, <1>3, <1>4

\* Every step of the event thread and of its callers keeps SelectInv.
LEMMA SelectInvStep == TypeOK /\ SelectInv /\ [Next]_vars => SelectInv'
<1> SUFFICES ASSUME TypeOK, SelectInv, [Next]_vars PROVE SelectInv'
  OBVIOUS
<1> USE DEF evsVars, objVars, callVars
<1>0. /\ pipe \in Nat
      /\ EventThread \notin Callers /\ None \notin Callers /\ EventThread # None
  BY PipeType, EventSystemAssumption DEF ConstantsAssumption, EventThread
<1>a. AtTop => mutex = None \/ mutex = EventThread
  BY DEF AtTop, SelectInv
<1>1. CASE TakeEvent
  BY <1>0, <1>1, <1>a DEF TakeEvent, AtTop, SelectInv, NoLostNotify
<1>2. CASE EnterSelect
  BY <1>0, <1>2, <1>a DEF EnterSelect, AtTop, SelectInv, NoLostNotify
<1>3. CASE SelectReturns
  <2>1. None \notin descrs
    BY EventSystemAssumption DEF ConstantsAssumption, TypeOK
  <2>2. None \in ready' => pipe > 0
    BY <1>3, <2>1 DEF SelectReturns
  <2>3. pc = "select" /\ pc' = "woken"
        /\ UNCHANGED <<blockedOnSelect, mutex, pipe, caller>>
    BY <1>3 DEF SelectReturns
  <2> QED BY <2>2, <2>3 DEF SelectInv, NoLostNotify
<1>4. CASE SelectFails
  BY <1>4 DEF SelectFails, SelectInv, NoLostNotify
<1>5. ASSUME Relock
      PROVE  /\ blockedOnSelect' = FALSE /\ ready' = {}
             /\ \A n \in Callers : caller'[n] # "wait" /\ caller'[n] # "write"
  BY <1>0, <1>5 DEF Relock, Broadcast, SelectInv
<1>6. CASE TimerFires \/ DescriptorsReady \/ SelectFailed
  <2>1. Relock /\ \/ pc' = "top" /\ mutex' = EventThread
                  \/ pc' = "stopped"
    BY <1>6 DEF TimerFires, DescriptorsReady, SelectFailed
  <2> QED BY <1>5, <2>1 DEF SelectInv, NoLostNotify
<1>7. CASE RunEvent \/ HandlerAdds \/ HandlerRemoves \/ HandlerReturns \/ InputArrives
  BY <1>7 DEF RunEvent, HandlerAdds, HandlerRemoves, HandlerReturns, InputArrives,
              SelectInv, NoLostNotify
<1>8. ASSUME NEW n \in Callers, CallAdd(n) \/ CallRemove(n) PROVE SelectInv'
  <2>1. /\ Notify(n) /\ mutex = None
        /\ UNCHANGED <<evsVars, blockedOnSelect>>
    BY <1>8 DEF CallAdd, CallRemove
  <2>2. /\ \A m \in Callers \ {n} : caller'[m] = caller[m]
        /\ pipe' >= pipe
        /\ \/ ~blockedOnSelect /\ caller'[n] = "return" /\ mutex' = None
           \/ blockedOnSelect /\ caller'[n] = "wait" /\ pipe' > 0 /\ mutex' = None
           \/ blockedOnSelect /\ caller'[n] = "write" /\ mutex' = n
    BY <2>1, NotifyStep
  <2>3. pc # "top" /\ \A m \in Callers : caller[m] # "write"
    BY <1>0, <2>1 DEF SelectInv
  <2>4. pipe' \in Nat
    <3>1. pipe' \in 0..PipeSize
      BY <2>1, NotifyTypes
    <3> QED BY <3>1, PipeSizeType
  <2>5. pipe > 0 => pipe' > 0
    BY <1>0, <2>2, <2>4
  <2>6. NoLostNotify'
    BY <2>1, <2>2, <2>5 DEF SelectInv, NoLostNotify
  <2> QED BY <2>1, <2>2, <2>3, <2>5, <2>6 DEF SelectInv
<1>9. ASSUME NEW n \in Callers, SpuriousWakeup(n) \/ CallReturns(n) PROVE SelectInv'
  BY <1>9 DEF SpuriousWakeup, CallReturns, SelectInv, NoLostNotify, TypeOK
<1>10. CASE UNCHANGED vars
  BY <1>10 DEF vars, SelectInv, NoLostNotify
<1> QED
  BY <1>1, <1>2, <1>3, <1>4, <1>6, <1>7, <1>8, <1>9, <1>10 DEF Next, GetEvent

(***************************************************************************)
(* Every variable of the event system keeps its type; in particular the    *)
(* event thread never reads from an empty pipe in GetEvent.                *)
(***************************************************************************)
THEOREM EventTypeCorrect == Spec => []TypeOK
<1>1. TypeOK /\ SelectInv /\ [Next]_vars => (TypeOK /\ SelectInv)'
  BY TypeStep, SelectInvStep
<1> QED BY <1>1, TypeInit, SelectInvInit, PTL DEF Spec

(***************************************************************************)
(* A caller asleep in Notify always has its wake-up on the way, for any    *)
(* number of callers and any pipe size.                                    *)
(***************************************************************************)
THEOREM NotifyNeverLost == Spec => []NoLostNotify
<1>1. TypeOK /\ SelectInv /\ [Next]_vars => (TypeOK /\ SelectInv)'
  BY TypeStep, SelectInvStep
<1>2. SelectInv => NoLostNotify
  BY DEF SelectInv
<1> QED BY <1>1, <1>2, TypeInit, SelectInvInit, PTL DEF Spec
-----------------------------------------------------------------------------
\* Nothing is registered, captured or being removed at first.
LEMMA AllocInvInit == Init => AllocInv
  BY DEF Init, AllocInv, DyingInv, CapturedStayAllocated, Distinct, Elements

\* What adding does to registrations: nothing becomes unallocated, and what is
\* new was not allocated before.
LEMMA AddRegisters ==
    ASSUME TypeOK, AllocInv, Add
    PROVE  /\ Distinct(ti') /\ Elements(ti') \subseteq live' /\ ci' \subseteq live'
           /\ live \subseteq live'
           /\ \A x \in live : x \notin Elements(ti) => x \notin Elements(ti')
           /\ \A x \in live : x \notin ci => x \notin ci'
<1>0. Distinct(ti) /\ Elements(ti) \subseteq live /\ ci \subseteq live /\ ti \in Seq(Timers)
  BY DEF AllocInv, TypeOK
<1>1. CASE PostEvent
  BY <1>0, <1>1 DEF PostEvent
<1>2. ASSUME NEW t \in Timers, AddTimer(t)
      PROVE  /\ Distinct(ti') /\ Elements(ti') = Elements(ti) \cup {t} /\ t \notin live
             /\ live' = live \cup {t} /\ ci' = ci
  <2>1. PICK k \in 1..Len(ti) + 1 : ti' = InsertedAt(ti, k, t)
    BY <1>2 DEF AddTimer, TimerInfoAdd
  <2>2. t \notin live /\ live' = live \cup {t} /\ ci' = ci
    BY <1>2 DEF AddTimer
  <2>3. t \notin Elements(ti)
    BY <1>0, <2>2
  <2> QED BY <1>0, <2>1, <2>2, <2>3, InsertedType
<1>3. ASSUME NEW c \in Comms, AddCommunicationObject(c)
      PROVE  ti' = ti /\ ci' = ci \cup {c} /\ live' = live \cup {c} /\ c \notin live
  BY <1>3 DEF AddCommunicationObject
<1>4. CASE \E t \in Timers : AddTimer(t)
  <2>1. PICK t \in Timers : AddTimer(t)
    BY <1>4
  <2>2. /\ Distinct(ti') /\ Elements(ti') = Elements(ti) \cup {t} /\ t \notin live
        /\ live' = live \cup {t} /\ ci' = ci
    BY <1>2, <2>1
  <2> QED BY <1>0, <2>2
<1>5. CASE \E c \in Comms : AddCommunicationObject(c)
  <2>1. PICK c \in Comms : AddCommunicationObject(c)
    BY <1>5
  <2>2. ti' = ti /\ ci' = ci \cup {c} /\ live' = live \cup {c} /\ c \notin live
    BY <1>3, <2>1
  <2> QED BY <1>0, <2>2
<1> QED BY <1>1, <1>4, <1>5 DEF Add

\* Removing unregisters the object and registers nothing.
LEMMA RemoveUnregisters ==
    ASSUME TypeOK, AllocInv, NEW x \in Objects, Remove(x)
    PROVE  /\ Owned(x) /\ Distinct(ti')
           /\ Elements(ti') \subseteq Elements(ti) \ {x} /\ ci' \subseteq ci \ {x}
<1>a. Distinct(ti) /\ ti \in Seq(Timers) /\ ci \subseteq Comms
  BY DEF AllocInv, TypeOK
<1>b. Elements(ti) \subseteq Timers
  BY <1>a DEF Elements
<1>c. Timers \cap Comms = {}
  BY EventSystemAssumption DEF ConstantsAssumption
<1>0. /\ Distinct(ti) /\ ti \in Seq(Timers) /\ ci \subseteq Comms
      /\ Elements(ti) \subseteq Timers /\ Timers \cap Comms = {}
  BY <1>a, <1>b, <1>c
<1>1. CASE RemoveTimer(x)
  <2>1. x \in Timers /\ Owned(x) /\ ti' \in TimerInfoRemove(ti, x) /\ ci' = ci
    BY <1>1 DEF RemoveTimer
  <2>2. Distinct(ti') /\ Elements(ti') \subseteq Elements(ti) /\ x \notin Elements(ti')
    BY <1>0, <2>1, RemovedType
  <2> QED BY <1>0, <2>1, <2>2
<1>2. CASE RemoveCommunicationObject(x)
  <2>1. x \in Comms /\ Owned(x) /\ ti' = ti /\ ci' = ci \ {x}
    BY <1>2 DEF RemoveCommunicationObject
  <2> QED BY <1>0, <2>1
<1> QED BY <1>1, <1>2 DEF Remove

\* Every step keeps AllocInv when waits end with a Broadcast only.
LEMMA AllocInvStep ==
    TypeOK /\ SelectInv /\ AllocInv /\ ~Spurious /\ [Next]_vars => AllocInv'
<1> SUFFICES ASSUME TypeOK, SelectInv, AllocInv, ~Spurious, [Next]_vars
             PROVE  AllocInv'
  OBVIOUS
<1> USE DEF evsVars, objVars, callVars
<1>0. /\ Distinct(ti) /\ Elements(ti) \subseteq live /\ ci \subseteq live
      /\ CapturedStayAllocated /\ DyingInv
      /\ ti \in Seq(Timers) /\ caller \in [Callers -> {"idle", "write", "wait", "return"}]
      /\ dying \in [Callers -> Objects \cup {None}] /\ None \notin Objects
  BY EventSystemAssumption DEF AllocInv, TypeOK, ConstantsAssumption, Objects
<1>1. CASE TakeEvent
  BY <1>0, <1>1 DEF TakeEvent, AllocInv, CapturedStayAllocated, DyingInv
<1>2. CASE EnterSelect
  <2>1. timerObject' = None \/ timerObject' \in Elements(ti)
    BY <1>0, <1>2, TailType DEF EnterSelect
  <2>2. descrs' = ci /\ UNCHANGED <<ti, ci, live, caller, dying>>
    BY <1>2 DEF EnterSelect
  <2>3. CapturedStayAllocated'
    BY <1>0, <2>1, <2>2 DEF CapturedStayAllocated
  <2>4. DyingInv'
    BY <1>0, <2>1, <2>2 DEF DyingInv
  <2> QED BY <1>0, <2>2, <2>3, <2>4 DEF AllocInv
<1>3. CASE SelectReturns \/ SelectFails \/ RunEvent \/ HandlerReturns \/ InputArrives
  BY <1>0, <1>3 DEF SelectReturns, SelectFails, RunEvent, HandlerReturns, InputArrives,
                    AllocInv, CapturedStayAllocated, DyingInv
<1>4. ASSUME Relock
      PROVE  /\ blockedOnSelect' = FALSE
             /\ \A n \in Callers : caller'[n] = "idle" => caller[n] = "idle"
  BY <1>0, <1>4 DEF Relock, Broadcast
<1>5. ASSUME Relock, Distinct(ti'), Elements(ti') \subseteq Elements(ti),
             UNCHANGED <<ci, live, dying>>
      PROVE  AllocInv'
  <2>1. CapturedStayAllocated'
    BY <1>4, <1>5 DEF CapturedStayAllocated
  <2>2. DyingInv'
    BY <1>0, <1>4, <1>5 DEF DyingInv
  <2> QED BY <1>0, <1>5, <2>1, <2>2 DEF AllocInv
<1>6. CASE TimerFires
  <2>1. Distinct(ti') /\ Elements(ti') \subseteq Elements(ti)
    <3>1. CASE ti = << >> \/ Head(ti) # timerObject
      BY <1>0, <1>6, <3>1 DEF TimerFires
    <3>2. CASE ti # << >> /\ Head(ti) = timerObject
      <4>1. /\ Tail(ti) \in Seq(Timers) /\ timerObject \in Timers
            /\ timerObject \in Elements(ti) /\ Elements(Tail(ti)) \subseteq Elements(ti)
            /\ Distinct(Tail(ti)) /\ timerObject \notin Elements(Tail(ti))
        BY <1>0, <3>2, TailType
      <4>2. CASE timerObject \in Repeating
        <5>1. PICK k \in 1..Len(Tail(ti)) + 1 : ti' = InsertedAt(Tail(ti), k, timerObject)
          BY <1>6, <3>2, <4>2 DEF TimerFires, TimerInfoAdd
        <5> DEFINE q == Tail(ti)
        <5>a. q \in Seq(Timers) /\ Distinct(q) /\ timerObject \notin Elements(q)
              /\ k \in 1..Len(q) + 1 /\ ti' = InsertedAt(q, k, timerObject)
          BY <4>1, <5>1
        <5> HIDE DEF q
        <5>b. Elements(ti') = Elements(q) \cup {timerObject} /\ Distinct(ti')
          BY <4>1, <5>a, InsertedType
        <5>2. Elements(ti') = Elements(Tail(ti)) \cup {timerObject} /\ Distinct(ti')
          BY <5>b DEF q
        <5> QED BY <4>1, <5>2
      <4>3. CASE timerObject \notin Repeating
        BY Zenon, <1>6, <3>2, <4>1, <4>3 DEF TimerFires
      <4> QED BY <4>2, <4>3
    <3> QED BY <3>1, <3>2
  <2>2. Relock /\ UNCHANGED <<ci, live, dying>>
    BY <1>6 DEF TimerFires
  <2> QED BY <1>5, <2>1, <2>2
<1>7. CASE DescriptorsReady \/ SelectFailed
  <2>1. Relock /\ UNCHANGED <<ti, ci, live, dying>>
    BY <1>7 DEF DescriptorsReady, SelectFailed
  <2> QED BY <1>0, <1>5, <2>1
<1>8. CASE HandlerAdds
  <2>1. Add /\ UNCHANGED <<evsVars, blockedOnSelect, caller, dying>>
    BY <1>8 DEF HandlerAdds
  <2>2. /\ Distinct(ti') /\ Elements(ti') \subseteq live' /\ ci' \subseteq live'
        /\ live \subseteq live'
        /\ \A x \in live : x \notin Elements(ti) => x \notin Elements(ti')
        /\ \A x \in live : x \notin ci => x \notin ci'
    BY <2>1, AddRegisters
  <2>3. CapturedStayAllocated'
    BY <1>0, <2>1, <2>2 DEF CapturedStayAllocated
  <2>4. DyingInv'
    <3> SUFFICES ASSUME NEW m \in Callers, dying[m] # None
                 PROVE  /\ caller[m] # "idle"
                        /\ dying[m] \in live' /\ dying[m] \notin Elements(ti')
                        /\ dying[m] \notin ci'
                        /\ caller[m] = "return" /\ blockedOnSelect =>
                               dying[m] # timerObject /\ dying[m] \notin descrs
                        /\ \A i \in Callers : dying[i] = dying[m] => i = m
      BY <2>1 DEF DyingInv
    <3>1. /\ caller[m] # "idle"
          /\ dying[m] \in live /\ dying[m] \notin Elements(ti) /\ dying[m] \notin ci
          /\ caller[m] = "return" /\ blockedOnSelect =>
                 dying[m] # timerObject /\ dying[m] \notin descrs
          /\ \A i \in Callers : dying[i] = dying[m] => i = m
      BY <1>0 DEF DyingInv
    <3>2. dying[m] \in live' /\ dying[m] \notin Elements(ti') /\ dying[m] \notin ci'
      BY <2>2, <3>1
    <3> QED BY <3>1, <3>2
  <2> QED BY <2>2, <2>3, <2>4 DEF AllocInv
<1>9. CASE HandlerRemoves
  <2>1. PICK x \in Objects : Remove(x) /\ live' = live \ {x}
    BY <1>9 DEF HandlerRemoves
  <2>2. UNCHANGED <<evsVars, blockedOnSelect, caller, dying>> /\ ~blockedOnSelect
    BY <1>9 DEF HandlerRemoves, SelectInv
  <2>3. /\ Owned(x) /\ Distinct(ti')
        /\ Elements(ti') \subseteq Elements(ti) \ {x} /\ ci' \subseteq ci \ {x}
    BY <2>1, RemoveUnregisters
  <2>4. \A n \in Callers : dying[n] # x
    BY <2>3 DEF Owned
  <2>5. CapturedStayAllocated'
    BY <2>2 DEF CapturedStayAllocated
  <2>6. DyingInv'
    BY <1>0, <2>1, <2>2, <2>3, <2>4 DEF DyingInv
  <2> QED BY <1>0, <2>1, <2>3, <2>5, <2>6 DEF AllocInv
<1>10. ASSUME NEW n \in Callers, CallAdd(n) PROVE AllocInv'
  <2>1. Add /\ Notify(n) /\ mutex = None /\ caller[n] = "idle"
        /\ UNCHANGED <<evsVars, blockedOnSelect, dying>>
    BY <1>10 DEF CallAdd
  <2>2. /\ Distinct(ti') /\ Elements(ti') \subseteq live' /\ ci' \subseteq live'
        /\ live \subseteq live'
        /\ \A x \in live : x \notin Elements(ti) => x \notin Elements(ti')
        /\ \A x \in live : x \notin ci => x \notin ci'
    BY <2>1, AddRegisters
  <2>3. \A m \in Callers \ {n} : caller'[m] = caller[m]
    BY <2>1, NotifyStep
  <2>4. dying[n] = None
    BY <1>0, <2>1 DEF DyingInv
  <2>5. CapturedStayAllocated'
    BY <1>0, <2>1, <2>2 DEF CapturedStayAllocated
  <2>6. DyingInv'
    <3> SUFFICES ASSUME NEW m \in Callers \ {n}, dying[m] # None
                 PROVE  /\ caller[m] # "idle"
                        /\ dying[m] \in live' /\ dying[m] \notin Elements(ti')
                        /\ dying[m] \notin ci'
                        /\ caller[m] = "return" /\ blockedOnSelect =>
                               dying[m] # timerObject /\ dying[m] \notin descrs
                        /\ \A i \in Callers : dying[i] = dying[m] => i = m
      BY <2>1, <2>3, <2>4 DEF DyingInv
    <3>1. /\ caller[m] # "idle"
          /\ dying[m] \in live /\ dying[m] \notin Elements(ti) /\ dying[m] \notin ci
          /\ caller[m] = "return" /\ blockedOnSelect =>
                 dying[m] # timerObject /\ dying[m] \notin descrs
          /\ \A i \in Callers : dying[i] = dying[m] => i = m
      BY <1>0 DEF DyingInv
    <3>2. dying[m] \in live' /\ dying[m] \notin Elements(ti') /\ dying[m] \notin ci'
      BY <2>2, <3>1
    <3> QED BY <3>1, <3>2
  <2> QED BY <2>2, <2>5, <2>6 DEF AllocInv
<1>11. ASSUME NEW n \in Callers, CallRemove(n) PROVE AllocInv'
  <2>1. PICK x \in Objects : Remove(x) /\ dying' = [dying EXCEPT ![n] = x]
    BY Zenon, <1>11 DEF CallRemove
  <2>2. Notify(n) /\ mutex = None /\ UNCHANGED <<evsVars, blockedOnSelect, live>>
    BY <1>11 DEF CallRemove
  <2>3. /\ Owned(x) /\ Distinct(ti')
        /\ Elements(ti') \subseteq Elements(ti) \ {x} /\ ci' \subseteq ci \ {x}
    BY <2>1, RemoveUnregisters
  <2>4. x \in live /\ \A m \in Callers : dying[m] # x
    BY <2>3 DEF Owned
  <2>5. /\ \A m \in Callers \ {n} : caller'[m] = caller[m] /\ dying'[m] = dying[m]
        /\ dying'[n] = x /\ caller'[n] # "idle"
        /\ caller'[n] = "return" => ~blockedOnSelect
    BY <1>0, <2>1, <2>2, NotifyStep
  <2>6. CapturedStayAllocated'
    BY <1>0, <2>2 DEF CapturedStayAllocated
  <2>7. DyingInv'
    BY <1>0, <2>2, <2>3, <2>4, <2>5 DEF DyingInv
  <2> QED BY <1>0, <2>2, <2>3, <2>6, <2>7 DEF AllocInv
<1>12. ASSUME NEW n \in Callers, SpuriousWakeup(n) PROVE AllocInv'
  BY <1>12 DEF SpuriousWakeup
<1>13. ASSUME NEW n \in Callers, CallReturns(n) PROVE AllocInv'
  <2>1. /\ caller[n] = "return" /\ live' = live \ {dying[n]}
        /\ UNCHANGED <<evsVars, blockedOnSelect, ti, ci>>
        /\ \A m \in Callers \ {n} : caller'[m] = caller[m] /\ dying'[m] = dying[m]
        /\ dying'[n] = None
    BY <1>0, <1>13 DEF CallReturns
  <2>2. /\ dying[n] \notin Elements(ti) /\ dying[n] \notin ci
        /\ blockedOnSelect /\ dying[n] # None =>
               dying[n] # timerObject /\ dying[n] \notin descrs
        /\ dying[n] # None => \A m \in Callers \ {n} : dying[m] # dying[n]
    BY <1>0, <2>1 DEF DyingInv, TypeOK
  <2>3. dying[n] = None => live' = live
    BY <1>0, <2>1 DEF TypeOK
  <2>4. CapturedStayAllocated'
    BY <1>0, <2>1, <2>2, <2>3 DEF CapturedStayAllocated
  <2>5. DyingInv'
    BY <1>0, <2>1, <2>2, <2>3 DEF DyingInv
  <2> QED BY <1>0, <2>1, <2>2, <2>4, <2>5 DEF AllocInv
<1>14. CASE UNCHANGED vars
  BY <1>0, <1>14 DEF vars, AllocInv, CapturedStayAllocated, DyingInv
<1> QED
  BY <1>1, <1>2, <1>3, <1>6, <1>7, <1>8, <1>9, <1>10, <1>11, <1>12, <1>13, <1>14
  DEF Next, GetEvent

(***************************************************************************)
(* Nothing that the event thread captured for select() is freed before it  *)
(* has taken the mutex again, for any number of callers, timers and        *)
(* objects, provided Condition::Wait returns only after a Broadcast.       *)
(***************************************************************************)
THEOREM CapturedNeverFreed == ~Spurious => (Spec => []CapturedStayAllocated)
<1> SUFFICES ASSUME ~Spurious PROVE Spec => []CapturedStayAllocated
  OBVIOUS
<1>1. TypeOK /\ SelectInv /\ AllocInv /\ [Next]_vars => (TypeOK /\ SelectInv /\ AllocInv)'
  BY TypeStep, SelectInvStep, AllocInvStep
<1>2. AllocInv => CapturedStayAllocated
  BY DEF AllocInv
<1> QED BY <1>1, <1>2, TypeInit, SelectInvInit, AllocInvInit, PTL DEF Spec

(***************************************************************************)
(* EventsAreSafe: types, notifiers that sleep have their wake-up on the    *)
(* way, and nothing that select() uses is freed, when waits return only    *)
(* after a Broadcast.                                                      *)
(***************************************************************************)
THEOREM EventSystemIsSafe == ~Spurious => (Spec => []EventsAreSafe)
<1> SUFFICES ASSUME ~Spurious PROVE Spec => []EventsAreSafe
  OBVIOUS
<1>1. TypeOK /\ CapturedStayAllocated /\ NoLostNotify => EventsAreSafe
  BY DEF EventsAreSafe
<1> QED BY <1>1, EventTypeCorrect, NotifyNeverLost, CapturedNeverFreed, PTL
=============================================================================
