----------------------------- MODULE Distiller -----------------------------
(***************************************************************************)
(* A distiller process: ptm/src/dist/distiller.cc and distnet.cc, with the *)
(* queue of ptm/src/share/ptmqueue.cc.                                     *)
(*                                                                         *)
(* Two threads.  The event thread (EventSystem::Run) accepts connections   *)
(* of front ends, reads requests ("works") from them, talks to the PTM and *)
(* sends replies.  The consumer takes works from the queue, runs           *)
(* DistillerMain and posts the result back as an event.  A work holds a    *)
(* counted reference on the connection it came from; a connection that     *)
(* breaks is marked and deleted with the last reference.                   *)
(*                                                                         *)
(* A handler of the event thread is one action.  What the consumer does    *)
(* without a lock (the reference count, the statistics object) is split at *)
(* its reads and writes.  A use of a deleted object sets `fault' and the   *)
(* process does nothing more.                                              *)
(*                                                                         *)
(* Covered: front ends that go away, a PTM that crashes, comes back or has *)
(* gone again when its beacon is read, commands to sleep, wake up or die,  *)
(* a DistillerMain that renames the distiller or does not come back.       *)
(* Left out: the bytes of packets, running out of memory, the averages and *)
(* reports of the load, SIGINT (it aborts).                                *)
(***************************************************************************)
EXTENDS Integers, Sequences, FiniteSets

CONSTANTS
    Conns,      \* ProxyConnection objects, each used once
    MaxWork,    \* bound: requests of all front ends
    Classes,    \* classes of clients, by address (LotteryQueue::Add)
    Types,      \* distiller types
    InitialType, \* the one on the command line
    MaxBatch,   \* bound: descriptors reported by one select()
    MaxRenames, \* bound: works of a connection that rename the distiller
    None

ASSUME DistillerConstants ==
    /\ MaxWork \in Nat /\ MaxBatch \in Nat /\ MaxRenames \in Nat
    /\ InitialType \in Types
    /\ None \notin [c : Conns, n : 1 .. MaxWork]

VARIABLES
    proc,         \* "run", "ended" (Run returned) or "aborted"
    fault,        \* which deleted object was used, or "none"
    sleepStatus,  \* "wake", "sleep" or "kill"
    stats,        \* stats and loadNotificationTimer exist
    type,         \* Opt_DistillerType
    ptm,          \* ptmConnection: "none", "up", or "gone" (peer has closed)
    ptmType,      \* what the PTM was last told on this connection
    listener,     \* listener on the shared bus exists
    conn,         \* connections: "new", "open", "marked" or "freed"
    peer,         \* the front end still has its end open
    sent,         \* number of works read from the connection
    refs,         \* numberOfRefs; the races of ConsumerUnref can make it wrong
    queue,        \* classLists
    load,         \* instTotalLatency_ms; every work costs 1
    workReceived, \* flag of the NoLoadTimer
    consumer,     \* the consumer thread
    evq,          \* eventQueue
    inSelect,     \* the event thread is in select()
    fate          \* history: what became of each work

procVars == <<proc, fault>>
ptmVars == <<ptm, ptmType, listener>>
connVars == <<conn, peer, sent, refs>>
vars == <<proc, fault, sleepStatus, stats, type, ptm, ptmType, listener, conn,
          peer, sent, refs, queue, load, workReceived, consumer, evq,
          inSelect, fate>>

Work == [c : Conns, n : 1 .. MaxWork]
Idle == [pc |-> "idle", w |-> None, n |-> 0, timer |-> FALSE, stats |-> "none"]
Ev(k, x) == [k |-> k, x |-> x]
Event == [k : {"accept", "select"}, x : Conns] \cup [k : {"reply", "stuck"}, x : Work]
           \cup [k : {"rereg"}, x : Types]
           \cup [k : {"ptm", "beacon", "noload", "quit"}, x : {None}]

TypeOK ==
    /\ proc \in {"run", "ended", "aborted"}
    /\ fault \in {"none", "connection", "ptmConnection", "timer", "stats"}
    /\ sleepStatus \in {"wake", "sleep", "kill"}
    /\ stats \in BOOLEAN /\ listener \in BOOLEAN /\ inSelect \in BOOLEAN
    /\ type \in Types /\ ptmType \in Types \cup {None}
    /\ ptm \in {"none", "up", "gone"}
    /\ conn \in [Conns -> {"new", "open", "marked", "freed"}]
    /\ peer \in [Conns -> BOOLEAN]
    /\ sent \in [Conns -> 0 .. MaxWork]
    /\ refs \in [Conns -> Int]
    /\ queue \in [Classes -> Seq(Work)]
    /\ load \in 0 .. MaxWork
    /\ workReceived \in BOOLEAN
    /\ consumer \in [pc : {"idle", "main", "count", "unref", "store", "test"},
                     w : Work \cup {None}, n : Int, timer : BOOLEAN,
                     stats : {"none", "live", "stale"}]
    /\ evq \in Seq(Event)
    /\ fate \in [Work -> {"new", "taken", "answered", "unsent", "dropped"}]

Running == proc = "run" /\ fault = "none"
Connected == ptm # "none"
-----------------------------------------------------------------------------
(* Start                                                                   *)

\* The constructor: asleep or awake, registered with the PTM named on the
\* command line or else listening on the shared bus.  Left out: Register fails
\* because this host cannot tell its own address, and the distiller listens
\* beside a connection on which nothing was registered.
Init ==
    /\ proc = "run" /\ fault = "none"
    /\ sleepStatus \in {"wake", "sleep"}
    /\ stats = (sleepStatus = "wake")
    /\ type = InitialType
    /\ \/ ptm = "none" /\ ptmType = None /\ listener = TRUE
       \/ ptm = "up" /\ ptmType = type /\ listener = FALSE
       \/ ptm = "gone" /\ ptmType = None /\ listener = FALSE
    /\ conn = [c \in Conns |-> "new"]
    /\ peer = [c \in Conns |-> TRUE]
    /\ sent = [c \in Conns |-> 0]
    /\ refs = [c \in Conns |-> 0]
    /\ queue = [k \in Classes |-> << >>]
    /\ load = 0 /\ workReceived = FALSE
    /\ consumer = Idle
    /\ evq = << >> /\ inSelect = FALSE
    /\ fate = [w \in Work |-> "new"]
-----------------------------------------------------------------------------
(* The event system as this process uses it                                *)

MoreWork == Cardinality({w \in Work : fate[w] # "new"}) < MaxWork

\* Descriptors that select() may report
Ready ==
    {Ev("accept", c) : c \in {d \in Conns : conn[d] = "new"}}
      \cup {Ev("select", c) : c \in {d \in Conns : conn[d] = "open"
                                       /\ (MoreWork \/ ~peer[d])}}
      \cup (IF Connected THEN {Ev("ptm", None)} ELSE {})
      \cup (IF listener THEN {Ev("beacon", None)} ELSE {})

\* Timers that may be due
Due ==
    {Ev("noload", None)} \cup
      (IF consumer.timer THEN {Ev("stuck", consumer.w)} ELSE {})

EnterSelect ==
    /\ Running /\ ~inSelect /\ evq = << >>
    /\ inSelect' = TRUE
    /\ UNCHANGED <<procVars, sleepStatus, stats, type, ptmVars, connVars, queue,
                   load, workReceived, consumer, evq, fate>>

\* Batches of different events that one return of select() may bring
Batches == UNION {{s \in [1 .. n -> Ready] :
                     \A i, j \in 1 .. n : i # j => s[i] # s[j]} : n \in 1 .. MaxBatch}

\* select() returns: descriptors, one timer, or only the pipe of Notify
LeaveSelect ==
    /\ Running /\ inSelect
    /\ inSelect' = FALSE
    /\ \/ \E batch \in Batches : evq' = evq \o batch /\ UNCHANGED consumer
       \/ \E t \in Due :
            /\ evq' = Append(evq, t)
            /\ consumer' = IF t.k = "stuck" THEN [consumer EXCEPT !.timer = FALSE]
                                            ELSE consumer
       \/ evq # << >> /\ UNCHANGED <<evq, consumer>>
    /\ UNCHANGED <<procVars, sleepStatus, stats, type, ptmVars, connVars, queue,
                   load, workReceived, fate>>

\* The event thread handles the event at the head of the queue; what it
\* posts goes to the tail.
Handling(k) == Running /\ ~inSelect /\ evq # << >> /\ Head(evq).k = k
Arg == Head(evq).x
Handled(posted) == evq' = Tail(evq) \o posted /\ UNCHANGED inSelect

\* Die() posts evQuit
Quit == <<Ev("quit", None)>>
-----------------------------------------------------------------------------
(* Front ends                                                              *)

\* ProxyServer::EvConnectionReceived
EvConnectionReceived ==
    /\ Handling("accept")
    /\ conn' = [conn EXCEPT ![Arg] = "open"]
    /\ Handled(<< >>)
    /\ UNCHANGED <<procVars, sleepStatus, stats, type, ptmVars, peer, sent, refs,
                   queue, load, workReceived, consumer, fate>>

\* AddReference
AddReference_Missing(c) == refs
AddReference(c) == [refs EXCEPT ![c] = @ + 1]

\* LoadReporter::NewWork and WorkDone
NewWork(l) == l + 1
WorkDone_Uncounted(l) == l
WorkDone_Twice(l) == l - 2
WorkDone(l) == l - 1

\* ProxyConnection::EvPacketReceived and WorkReceived: a new Work refers to
\* the connection and goes to the list of its client's class.
WorkReceived ==
    /\ Handling("select") /\ conn[Arg] # "freed" /\ MoreWork
    /\ sent' = [sent EXCEPT ![Arg] = @ + 1]
    /\ refs' = AddReference(Arg)
    /\ LET w == [c |-> Arg, n |-> sent'[Arg]] IN
         /\ \E k \in Classes : queue' = [queue EXCEPT ![k] = Append(@, w)]
         /\ fate' = [fate EXCEPT ![w] = "taken"]
    /\ load' = NewWork(load)
    /\ workReceived' = TRUE
    /\ Handled(<< >>)
    /\ UNCHANGED <<procVars, sleepStatus, stats, type, ptmVars, conn, peer,
                   consumer>>

\* MarkForDeletion
Marked(c) == IF refs[c] = 0 THEN "freed" ELSE "marked"

\* ProxyConnection::EvConnectionBroken: end of file
EvConnectionBroken ==
    /\ Handling("select") /\ conn[Arg] # "freed" /\ ~peer[Arg]
    /\ conn' = [conn EXCEPT ![Arg] = Marked(Arg)]
    /\ Handled(<< >>)
    /\ UNCHANGED <<procVars, sleepStatus, stats, type, ptmVars, peer, sent, refs,
                   queue, load, workReceived, consumer, fate>>

\* HandleSelectError: part of a packet or a malformed one is ignored.
HandleSelectError ==
    /\ Handling("select") /\ conn[Arg] # "freed"
    /\ Handled(<< >>)
    /\ UNCHANGED <<procVars, sleepStatus, stats, type, ptmVars, connVars, queue,
                   load, workReceived, consumer, fate>>

\* An event of a connection that was deleted after select() reported it
SelectOfDeleted ==
    /\ Handling("select") /\ conn[Arg] = "freed"
    /\ fault' = "connection"
    /\ Handled(<< >>)
    /\ UNCHANGED <<proc, sleepStatus, stats, type, ptmVars, connVars, queue, load,
                   workReceived, consumer, fate>>

\* RemoveReference: the connection's state when the count has become n
Unreferenced(st, n) == IF st = "marked" /\ n = 0 THEN "freed" ELSE st

\* What HandleEvent posts when the load has become l
DoneWhenKilled_Never(l) == << >>
DoneWhenKilled(l) == IF sleepStatus = "kill" /\ l = 0 THEN Quit ELSE << >>

\* HandleEvent, evDistillerReply: the reply is sent if the connection is not
\* marked; if the front end is gone the write may fail, which marks it; the
\* work is deleted.
DistillerReply ==
    /\ Handling("reply")
    /\ LET w == Arg
           c == w.c
           becomes(st, f) ==
              /\ conn' = [conn EXCEPT ![c] = Unreferenced(st, refs[c] - 1)]
              /\ fate' = [fate EXCEPT ![w] = f]
       IN
       \/ /\ conn[c] = "freed" /\ fault' = "connection"
          /\ UNCHANGED <<conn, refs, load, fate>>
          /\ Handled(<< >>)
       \/ /\ conn[c] # "freed" /\ UNCHANGED fault
          /\ load' = WorkDone(load)
          /\ \/ conn[c] = "open" /\ becomes("open", "answered")
             \/ conn[c] = "open" /\ ~peer[c] /\ becomes("marked", "unsent")
             \/ conn[c] = "marked" /\ becomes("marked", "unsent")
          /\ refs' = [refs EXCEPT ![c] = @ - 1]
          /\ Handled(DoneWhenKilled(load'))
    /\ UNCHANGED <<proc, sleepStatus, stats, type, ptmVars, peer, sent, queue,
                   workReceived, consumer>>

\* A front end closes its connection.
FrontEndLeaves(c) ==
    /\ Running /\ conn[c] \in {"open", "marked"} /\ peer[c]
    /\ peer' = [peer EXCEPT ![c] = FALSE]
    /\ UNCHANGED <<procVars, sleepStatus, stats, type, ptmVars, conn, sent, refs,
                   queue, load, workReceived, consumer, evq, inSelect, fate>>
-----------------------------------------------------------------------------
(* The consumer thread                                                     *)

\* LotteryQueue::Remove draws any list that has something.
Drawable_First(k) == queue[k] # << >> /\ \A j \in Classes : k <= j
Drawable(k) == queue[k] # << >>
Removed_Kept(k) == queue
Removed(k) == [queue EXCEPT ![k] = Tail(@)]

\* A work whose
\* connection is marked is deleted, for the others DistillerMain is called
\* under the DistillerMainTimer.
ConsumerTake ==
    /\ Running /\ consumer.pc = "idle"
    /\ \E k \in Classes :
         /\ Drawable(k)
         /\ queue' = Removed(k)
         /\ LET w == Head(queue[k]) IN
            CASE conn[w.c] = "freed" -> fault' = "connection" /\ UNCHANGED consumer
              [] conn[w.c] = "marked" ->
                   /\ consumer' = [Idle EXCEPT !.pc = "unref", !.w = w]
                   /\ UNCHANGED fault
              [] OTHER ->
                   /\ consumer' = [Idle EXCEPT !.pc = "main", !.w = w, !.timer = TRUE]
                   /\ UNCHANGED fault
    /\ UNCHANGED <<proc, sleepStatus, stats, type, ptmVars, connVars, load,
                   workReceived, evq, inSelect, fate>>

\* DistillerRename, called by DistillerMain; at most once for a work, which
\* consumer.n counts, and for the first works of a connection.
DistillerRename ==
    /\ Running /\ consumer.pc = "main" /\ consumer.n = 0
    /\ consumer.w.n <= MaxRenames
    /\ \E t \in Types : evq' = Append(evq, Ev("rereg", t))
    /\ consumer' = [consumer EXCEPT !.n = 1]
    /\ UNCHANGED <<procVars, sleepStatus, stats, type, ptmVars, connVars, queue,
                   load, workReceived, inSelect, fate>>

\* DistillerMain returns; the timer is deleted and the reply posted; then the
\* pointer to the statistics is read.
ConsumerPost ==
    /\ Running /\ consumer.pc = "main"
    /\ evq' = Append(evq, Ev("reply", consumer.w))
    /\ consumer' = IF stats THEN [Idle EXCEPT !.pc = "count", !.stats = "live"]
                            ELSE Idle
    /\ UNCHANGED <<procVars, sleepStatus, stats, type, ptmVars, connVars, queue,
                   load, workReceived, inSelect, fate>>

\* stats->IncrementDoneRequests()
ConsumerCount ==
    /\ Running /\ consumer.pc = "count"
    /\ fault' = IF consumer.stats = "stale" THEN "stats" ELSE fault
    /\ consumer' = Idle
    /\ UNCHANGED <<proc, sleepStatus, stats, type, ptmVars, connVars, queue, load,
                   workReceived, evq, inSelect, fate>>

\* RemoveReference on this thread: read the count, store it, test it
ConsumerUnref ==
    /\ Running
    /\ \/ /\ consumer.pc = "unref" /\ conn[consumer.w.c] # "freed"
          /\ consumer' = [consumer EXCEPT !.pc = "store", !.n = refs[consumer.w.c]]
          /\ UNCHANGED <<refs, conn, fault, fate>>
       \/ /\ consumer.pc = "store" /\ conn[consumer.w.c] # "freed"
          /\ refs' = [refs EXCEPT ![consumer.w.c] = consumer.n - 1]
          /\ consumer' = [consumer EXCEPT !.pc = "test"]
          /\ UNCHANGED <<conn, fault, fate>>
       \/ /\ consumer.pc = "test" /\ conn[consumer.w.c] # "freed"
          /\ conn' = [conn EXCEPT ![consumer.w.c] = Unreferenced(@, refs[consumer.w.c])]
          /\ fate' = [fate EXCEPT ![consumer.w] = "dropped"]
          /\ consumer' = Idle
          /\ UNCHANGED <<refs, fault>>
       \/ /\ consumer.pc \in {"unref", "store", "test"} /\ conn[consumer.w.c] = "freed"
          /\ fault' = "connection"
          /\ UNCHANGED <<refs, conn, consumer, fate>>
    /\ UNCHANGED <<proc, sleepStatus, stats, type, ptmVars, peer, sent, queue, load,
                   workReceived, evq, inSelect>>

\* DistillerMainTimer::EvTimer aborts the process; the timer may have been
\* deleted since the event was queued.
DistillerStuck ==
    /\ Handling("stuck")
    /\ IF consumer.pc = "main" /\ consumer.w = Arg
         THEN proc' = "aborted" /\ UNCHANGED fault
         ELSE fault' = "timer" /\ UNCHANGED proc
    /\ Handled(<< >>)
    /\ UNCHANGED <<sleepStatus, stats, type, ptmVars, connVars, queue, load,
                   workReceived, consumer, fate>>
-----------------------------------------------------------------------------
(* The PTM                                                                 *)

\* DELETE(stats), under the feet of a consumer that holds the pointer
StatsDeleted == [consumer EXCEPT !.stats = IF @ = "live" THEN "stale" ELSE @]

\* Sleep_WakeUp
Sleep_WakeUp(status) ==
    \/ /\ status \in {"sleep", "kill"} /\ sleepStatus \in {"sleep", "kill"}
       /\ UNCHANGED <<sleepStatus, stats, consumer>>
       /\ Handled(<< >>)
    \/ /\ status \in {"sleep", "kill"} /\ sleepStatus = "wake"
       /\ sleepStatus' = status /\ stats' = FALSE /\ consumer' = StatsDeleted
       /\ Handled(IF status = "kill" /\ load = 0 THEN Quit ELSE << >>)
    \/ /\ status = "wake"
       /\ sleepStatus' = "wake" /\ stats' = TRUE /\ UNCHANGED consumer
       /\ Handled(<< >>)

\* PTMConnection::EvPacketReceived
DistillerSleep ==
    /\ Handling("ptm") /\ ptm = "up"
    /\ \E status \in {"sleep", "kill", "wake"} : Sleep_WakeUp(status)
    /\ UNCHANGED <<procVars, type, ptmVars, connVars, queue, load, workReceived,
                   fate>>

\* ClosePTMConnection and ListenOnSharedBus
LosePTM_NotListening == ptm' = "none" /\ ptmType' = None /\ UNCHANGED listener
LosePTM == ptm' = "none" /\ ptmType' = None /\ listener' = TRUE

\* PTMConnection::EvConnectionBroken: end of file
PTMConnectionBroken ==
    /\ Handling("ptm") /\ ptm = "gone"
    /\ LosePTM
    /\ Handled(<< >>)
    /\ UNCHANGED <<procVars, sleepStatus, stats, type, connVars, queue, load,
                   workReceived, consumer, fate>>

\* The connection was deleted by Reregister after select() reported it.
PTMEventOfDeleted ==
    /\ Handling("ptm") /\ ptm = "none"
    /\ fault' = "ptmConnection"
    /\ Handled(<< >>)
    /\ UNCHANGED <<proc, sleepStatus, stats, type, ptmVars, connVars, queue, load,
                   workReceived, consumer, fate>>

\* PTMLocationReceived: connect and Register(0).  If connecting fails,
\* Register fails as well, HandleSelectError passes that on and Run ends.
PTMLocationReceived ==
    /\ Handling("beacon")
    /\ \/ /\ Connected /\ UNCHANGED <<proc, ptmVars>>
       \/ /\ ~Connected
          /\ ptm' = "up" /\ ptmType' = type /\ listener' = FALSE /\ UNCHANGED proc
       \/ /\ ~Connected
          /\ proc' = "aborted" /\ UNCHANGED ptmVars
    /\ Handled(<< >>)
    /\ UNCHANGED <<fault, sleepStatus, stats, type, connVars, queue, load,
                   workReceived, consumer, fate>>

\* Reregister: the new type is kept, and sent if there is a connection; a
\* failed write closes it.
NewType_NotKept(t) == type
NewType(t) == t

Reregister ==
    /\ Handling("rereg")
    /\ type' = NewType(Arg)
    /\ \/ ptm = "none" /\ UNCHANGED ptmVars
       \/ ptm = "up" /\ ptmType' = Arg /\ UNCHANGED <<ptm, listener>>
       \/ ptm = "gone" /\ LosePTM
       \/ ptm = "gone" /\ UNCHANGED ptmVars
    /\ Handled(<< >>)
    /\ UNCHANGED <<procVars, sleepStatus, stats, connVars, queue, load,
                   workReceived, consumer, fate>>

\* The PTM goes away.
PTMLeaves ==
    /\ Running /\ ptm = "up"
    /\ ptm' = "gone" /\ ptmType' = None
    /\ UNCHANGED <<procVars, sleepStatus, stats, type, listener, connVars, queue,
                   load, workReceived, consumer, evq, inSelect, fate>>
-----------------------------------------------------------------------------
(* The end                                                                 *)

\* NoLoadTimer::EvTimer
NoLoadTimer ==
    /\ Handling("noload")
    /\ workReceived' = FALSE
    /\ Handled(IF workReceived THEN << >> ELSE Quit)
    /\ UNCHANGED <<procVars, sleepStatus, stats, type, ptmVars, connVars, queue,
                   load, consumer, fate>>

\* SigTerm; a second evQuit would change nothing
SigTerm ==
    /\ Running /\ \A i \in 1 .. Len(evq) : evq[i].k # "quit"
    /\ evq' = evq \o Quit
    /\ UNCHANGED <<procVars, sleepStatus, stats, type, ptmVars, connVars, queue,
                   load, workReceived, consumer, inSelect, fate>>

\* evQuit: Run returns, main deregisters and the process exits.
EvQuit ==
    /\ Handling("quit")
    /\ proc' = "ended"
    /\ ptm' = "none" /\ ptmType' = None
    /\ Handled(<< >>)
    /\ UNCHANGED <<fault, sleepStatus, stats, type, listener, connVars, queue, load,
                   workReceived, consumer, fate>>

Handle ==
    \/ EvConnectionReceived \/ WorkReceived \/ EvConnectionBroken
    \/ HandleSelectError \/ SelectOfDeleted \/ DistillerReply \/ DistillerStuck \/ DistillerSleep
    \/ PTMConnectionBroken \/ PTMEventOfDeleted \/ PTMLocationReceived
    \/ Reregister \/ NoLoadTimer \/ EvQuit

Consumer ==
    ConsumerTake \/ DistillerRename \/ ConsumerPost \/ ConsumerCount \/ ConsumerUnref

Environment == PTMLeaves \/ SigTerm \/ \E c \in Conns : FrontEndLeaves(c)

Next == EnterSelect \/ LeaveSelect \/ Handle \/ Consumer \/ Environment

Spec == Init /\ [][Next]_vars

\* Both threads keep running.  select() reports every ready descriptor and
\* beacons keep coming, so that a listener is served again and again.
BeaconArrives == LeaveSelect /\ \E i \in 1 .. Len(evq') : evq'[i].k = "beacon"

Fairness ==
    /\ WF_vars(EnterSelect) /\ WF_vars(LeaveSelect) /\ WF_vars(Handle)
    /\ WF_vars(Consumer)
    /\ SF_vars(BeaconArrives)

FairSpec == Spec /\ Fairness
-----------------------------------------------------------------------------
(* Properties                                                              *)

\* Where a work is: in a list of the queue, in the consumer's hands or in an
\* event that brings its reply to the event thread
Places(w) ==
    (UNION {{<<"queue", k, i>> : i \in {j \in 1 .. Len(queue[k]) : queue[k][j] = w}}
              : k \in Classes})
      \cup {<<"event", None, i>> : i \in {j \in 1 .. Len(evq) : evq[j] = Ev("reply", w)}}
      \cup (IF consumer.w = w THEN {<<"consumer", None, 0>>} ELSE {})

\* Between the two threads no work is lost or done twice: a work that was
\* taken from a connection and has not met its fate is in exactly one place,
\* any other in none (WorkReceived, ConsumerMain, evDistillerReply).
WorkConserved ==
    Running => \A w \in Work :
       IF fate[w] = "taken" THEN \E p \in Places(w) : Places(w) = {p}
                            ELSE Places(w) = {}

\* The load that decides whether a killed distiller is done, and that is
\* reported to the PTM, counts the works in progress and those ConsumerMain
\* has dropped (NewWork, WorkDone, IsThereWork).
LoadCountsWork ==
    Running => load = Cardinality({w \in Work : fate[w] \in {"taken", "dropped"}})

\* While a connection is open its reference count is the number of works
\* that came over it and are in progress (AddReference, RemoveReference).
OpenRefsExact ==
    Running => \A c \in Conns : conn[c] = "open" =>
       refs[c] = Cardinality({w \in Work : w.c = c /\ fate[w] = "taken"})

\* Works, the load and the references of connections agree, whatever order
\* the event thread and ConsumerMain get their turns in.
WorkIsAccounted == TypeOK /\ WorkConserved /\ LoadCountsWork /\ OpenRefsExact

\* A distiller that runs either has a connection to a PTM or listens for
\* one, never both and never neither (ConnectToPTM, ClosePTMConnection,
\* ListenOnSharedBus).
ConnectedOrListening == Running => (Connected # listener)

\* The PTM at the other end knows the distiller under its current type, also
\* after it was renamed without a PTM (Reregister, Register).
KnownByCurrentType == Running /\ ptm = "up" => ptmType = type

\* The distiller and the PTM know of each other: it is connected or listens,
\* and it is known under the type it has.
KnownToPTM == ConnectedOrListening /\ KnownByCurrentType

\* A distiller that has lost its PTM registers with one again, unless the
\* process ends first (PTMLocationReceived).
FindsPTM == (Running /\ ~Connected) ~> (Connected \/ ~Running)

\* Every work that was taken is answered or deleted, unless the process ends
\* first (ConsumerMain, HandleEvent).
WorkFinishes == \A w \in Work : fate[w] = "taken" ~> (fate[w] # "taken" \/ ~Running)

\* A killed distiller ends, if it has not dropped a work (Sleep_WakeUp,
\* HandleEvent).
KilledExits ==
    sleepStatus = "kill" ~>
       (~Running \/ sleepStatus # "kill" \/ \E w \in Work : fate[w] = "dropped")

\* Work ends, and so does a distiller that was killed.
WorkEnds == WorkFinishes /\ KilledExits

\* A beacon of a PTM that cannot be reached does not end the distiller: it
\* aborts only when DistillerMain does not come back (the comment in
\* PTMLocationReceived, distiller.cc:590).
FailedConnectIsNotFatal == proc = "aborted" => consumer.pc = "main"
=============================================================================
