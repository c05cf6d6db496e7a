--------------------------------- MODULE PTM ---------------------------------
(***************************************************************************)
(* The proxy transcoder manager (ptm/src/ptm/{ptm,ptmnet,ptmdb,            *)
(* distlaunch}.cc): the process that keeps the database of registered      *)
(* distillers, tells front ends where a distiller of some type is, wakes   *)
(* sleeping distillers up and launches new ones.                           *)
(*                                                                         *)
(* The process has one thread, so a handler runs to its end before the     *)
(* next event.  The one loop whose iterations may nest (a wake-up that     *)
(* fails breaks a connection, which may relaunch a distiller, which wakes  *)
(* another one up) is unrolled on "stack", one frame for each active call  *)
(* of WakeSleepingDistiller; no event is handled before it is empty.       *)
(*                                                                         *)
(* Objects that are deleted while somebody still points at them are the    *)
(* hard part of this code.  A use of such a pointer is undefined in C++;   *)
(* here it sets "undefined" to the kind of object and the process stops.   *)
(***************************************************************************)
EXTENDS Naturals, Sequences, FiniteSets

CONSTANTS
    FrontEnds,         \* front ends, each with one PrivateConnection
    AskIds,            \* request ids a front end uses
    Distillers,        \* distiller processes
    Types,             \* distiller types
    CanSatisfy,        \* <<s, t>>: a distiller of type s serves type t
    Records,           \* addresses of LaunchRecord objects
    InitialTypes,      \* types with a "dist." line in the first options file
    MaxLaunchTimeouts, \* defines.h
    AskersMayBreak,    \* may a front end disconnect while it waits?
    None,              \* NULL
    Dangling           \* pointer to a deleted PrivateConnection

\* There are finitely many distillers, and NULL and the like are no objects.
ASSUME PTMConstants ==
    /\ IsFiniteSet(Distillers) /\ InitialTypes \subseteq Types
    /\ None \notin Records /\ None # Dangling
    /\ \A x \in {None, Dangling} : x \notin [conn : FrontEnds, id : AskIds, type : Types]

VARIABLES
    conn,      \* front ends that are connected
    dist,      \* the distiller processes and their DistillerRecords
    launchID,  \* the pending launch whose id a process was started with
    launch,    \* the LaunchRecords
    pending,   \* the PendingLaunch of each LaunchRecord
    asks,      \* requests of connected front ends not answered yet
    negative,  \* types front ends were told have no distiller
    stack,     \* calls of WakeSleepingDistiller in progress
    undefined  \* kind of deleted object the process used, or "no"

vars == <<conn, dist, launchID, launch, pending, asks, negative, stack,
          undefined>>

Status == {"wake", "sleep", "kill"}
Ask == [conn : FrontEnds, id : AskIds, type : Types]
Distiller == [state : {"off", "started", "open", "registered"},
              type : Types \cup {None}, sleep : Status, restart : BOOLEAN,
              rec : Records \cup {None}]
LaunchRecord == [state : {"free", "listed", "dying"},
                 type : Types \cup {None}, active : Nat, recent : BOOLEAN]
PendingLaunch == [on : BOOLEAN, countOfTimeouts : Nat,
                  waitingList : Seq(Ask \cup {None, Dangling})]
Frame == [type : Types, tried : BOOLEAN, ask : Ask \cup {None},
          rec : Records \cup {None}]

Satisfies(s, t) == <<s, t>> \in CanSatisfy
NotPending == [on |-> FALSE, countOfTimeouts |-> 0, waitingList |-> << >>]
Waiters(l) == {pending[l].waitingList[i] : i \in DOMAIN pending[l].waitingList}

\* DistillerDatabase: what is registered
Registered == {d \in Distillers : dist[d].state = "registered"}
Awake(t) == {d \in Registered : /\ Satisfies(dist[d].type, t)
                                /\ dist[d].sleep = "wake"}
Asleep(t) == {d \in Registered : /\ Satisfies(dist[d].type, t)
                                 /\ dist[d].sleep = "sleep"}

\* LaunchDatabase: the records FindMatchingDistiller may return for a type
Listed == {l \in Records : launch[l].state = "listed"}
Matching(t) == {l \in Listed : Satisfies(launch[l].type, t)}
MatchingOrNone(t) == IF Matching(t) = {} THEN {None} ELSE Matching(t)

\* Is the launch record of distiller d a deleted object?
Deleted(d) == dist[d].rec # None /\ launch[dist[d].rec].state = "free"

Idle == stack = << >> /\ undefined = "no"
Busy == stack # << >> /\ undefined = "no"
Top == stack[Len(stack)]
Pop == SubSeq(stack, 1, Len(stack) - 1)
Wake(t, a, l) == [type |-> t, tried |-> FALSE, ask |-> a, rec |-> l]

\* A distiller process that is not running, or not registered
Process(s) == [state |-> s, type |-> None, sleep |-> "kill",
               restart |-> FALSE, rec |-> None]
FreeRecord == [state |-> "free", type |-> None, active |-> 0,
               recent |-> FALSE]
NewRecord(t) == [state |-> "listed", type |-> t, active |-> 0, recent |-> TRUE]

Init ==
    /\ conn = {}
    /\ dist = [d \in Distillers |-> Process("off")]
    /\ launchID = [d \in Distillers |-> None]
    /\ \E at \in [InitialTypes -> Records] :
         /\ \A s, t \in InitialTypes : at[s] = at[t] => s = t
         /\ launch = [l \in Records |->
                        IF \E t \in InitialTypes : at[t] = l
                        THEN NewRecord(CHOOSE t \in InitialTypes : at[t] = l)
                        ELSE FreeRecord]
    /\ pending = [l \in Records |-> NotPending]
    /\ asks = {}
    /\ negative = {}
    /\ stack = << >>
    /\ undefined = "no"

------------------------------------------------------------------------------
(***************************************************************************)
(* Launching.                                                              *)
(***************************************************************************)

\* The launch record after a launch attempt, or after a sleeper was found
Recent(r) == [r EXCEPT !.recent = TRUE]

\* A launch that was told to start (Exec returned True): the new process
\* comes up or dies before it does anything.
Started(l) ==
    \/ UNCHANGED <<dist, launchID>>
    \/ \E d \in Distillers :
         /\ dist[d].state = "off"
         /\ dist' = [dist EXCEPT ![d] = Process("started")]
         /\ launchID' = [launchID EXCEPT ![d] = l]

\* The launch records once the pending launch of l, and with it a record
\* that must die, is deleted
WithoutPending(r) == IF r.state = "dying" THEN FreeRecord ELSE r

\* Processes started for a pending launch that no longer exists carry an
\* id that nobody knows.
ForgetID(l) == [d \in Distillers |-> IF launchID[d] = l THEN None
                                                        ELSE launchID[d]]

\* AskForDistillerReply to every waiting request of the pending launch of l
ReplyToAll(l) ==
    /\ asks' = asks \ Waiters(l)
    /\ undefined' = IF Dangling \in Waiters(l) THEN "connection" ELSE "no"

\* LaunchFailed, and the deletion of the pending launch
LaunchFailed(l) ==
    /\ ReplyToAll(l)
    /\ pending' = [pending EXCEPT ![l] = NotPending]
    /\ launch' = [launch EXCEPT ![l] = WithoutPending(Recent(@))]
    /\ launchID' = ForgetID(l)
    /\ UNCHANGED dist

\* No binary serves the type: the front end is told so at once.
NoDistiller(a) ==
    /\ asks' = asks \ {a}
    /\ negative' = IF a = None THEN negative
                               ELSE negative \cup {<<a.conn, a.type>>}
    /\ UNCHANGED <<dist, launchID, launch, pending>>

\* Deviation: the request is not remembered.
JoinLaunch_Dropped(l, a) == UNCHANGED <<dist, launchID, launch, pending, asks,
                                        negative>>

\* A launch of that binary is pending: wait for it too (InsertAtHead).  Of
\* adjacent requests that nobody waits for, one stands for all.
JoinLaunch(l, a) ==
    /\ pending' = [pending EXCEPT ![l].waitingList =
                     IF a = None /\ Head(@) = None THEN @ ELSE <<a>> \o @]
    /\ UNCHANGED <<dist, launchID, launch, asks, negative>>

\* Start a launch.  fork() may fail: then the request is answered at once.
NewLaunch(l, a) ==
    /\ launch' = [launch EXCEPT ![l] = Recent(@)]
    /\ UNCHANGED negative
    /\ \/ /\ pending' = [pending EXCEPT ![l] =
                           [on |-> TRUE, countOfTimeouts |-> 0,
                            waitingList |-> <<a>>]]
          /\ Started(l)
          /\ UNCHANGED asks
       \/ /\ asks' = asks \ {a}
          /\ UNCHANGED <<pending, dist, launchID>>

TryToLaunch(t, a) ==
    IF Matching(t) = {}
    THEN NoDistiller(a)
    ELSE \E l \in Matching(t) : IF pending[l].on THEN JoinLaunch(l, a)
                                                 ELSE NewLaunch(l, a)

\* Deviation: the timeout counter starts again with every retry.
TimeoutCount_Reset(l) == 1

\* countOfTimeouts, after its increment
TimeoutCount(l) == pending[l].countOfTimeouts + 1

\* The timer of a pending launch fires.
LaunchTimeout(l) ==
    /\ Idle
    /\ pending[l].on
    /\ IF TimeoutCount(l) >= MaxLaunchTimeouts
       THEN LaunchFailed(l)
       ELSE \/ LaunchFailed(l)       \* the relaunch failed
            \/ /\ pending' = [pending EXCEPT ![l].countOfTimeouts =
                                                TimeoutCount(l)]
               /\ launch' = [launch EXCEPT ![l] = Recent(@)]
               /\ Started(l)
               /\ UNCHANGED <<asks, undefined>>
    /\ UNCHANGED <<conn, negative, stack>>

\* More than AutoLaunchHysteresisInterval_ms has passed since lastLaunch.
HysteresisExpires(l) ==
    /\ Idle
    /\ launch[l].recent
    /\ launch' = [launch EXCEPT ![l].recent = FALSE]
    /\ UNCHANGED <<conn, dist, launchID, pending, asks, negative, stack,
                   undefined>>

------------------------------------------------------------------------------
(***************************************************************************)
(* WakeSleepingDistiller.  Its caller is EvAskForDistiller (the frame has  *)
(* a request) or TryToAutoLaunch and Relaunch (it has a launch record).    *)
(***************************************************************************)

\* The records after an awake distiller pointing at l appears or goes
CountUp(l) == IF l = None THEN launch ELSE [launch EXCEPT ![l].active = @ + 1]
CountDown(l) == IF l = None THEN launch
                            ELSE [launch EXCEPT ![l].active = @ - 1]

\* The sleeper d is woken up and returned to the caller.
WakeUp(d) ==
    /\ Busy
    /\ d \in Asleep(Top.type)
    /\ dist' = [dist EXCEPT ![d].sleep = "wake"]
    /\ IF Deleted(d)
       THEN /\ undefined' = "launch record"
            /\ UNCHANGED <<launch, asks, stack>>
       ELSE /\ launch' = LET up == CountUp(dist[d].rec)
                         IN  IF Top.rec = None THEN up
                             ELSE [up EXCEPT ![Top.rec] = Recent(@)]
            /\ asks' = asks \ {Top.ask}
            /\ stack' = Pop
            /\ UNCHANGED undefined
    /\ UNCHANGED <<conn, launchID, pending, negative>>

\* Relaunch of record l: the frame it pushes, on top of s
RelaunchOn(s, l) == Append(s, Wake(launch[l].type, None, l))

\* The packet cannot be written: EvConnectionBroken deletes the record of d
\* and the loop looks for another sleeper.
WakeUpFails(d) ==
    /\ Busy
    /\ d \in Asleep(Top.type)
    /\ dist' = [dist EXCEPT ![d] = Process("off")]
    /\ launchID' = [launchID EXCEPT ![d] = None]
    /\ LET again == [stack EXCEPT ![Len(stack)].tried = TRUE]
       IN  IF ~dist[d].restart \/ dist[d].rec = None
           THEN stack' = again /\ UNCHANGED undefined
           ELSE IF Deleted(d)
                THEN undefined' = "launch record" /\ UNCHANGED stack
                ELSE /\ stack' = RelaunchOn(again, dist[d].rec)
                     /\ UNCHANGED undefined
    /\ UNCHANGED <<conn, launch, pending, asks, negative>>

\* Nobody sleeps.  In the first iteration the caller launches a distiller;
\* in a later one finder.dist still points at the record just deleted.
NobodyAsleep ==
    /\ Busy
    /\ Asleep(Top.type) = {}
    /\ ~Top.tried
    /\ TryToLaunch(Top.type, Top.ask)
    /\ stack' = Pop
    /\ UNCHANGED <<conn, undefined>>

WakeDeletedRecord ==
    /\ Busy
    /\ Asleep(Top.type) = {}
    /\ Top.tried
    /\ undefined' = "distiller record"
    /\ UNCHANGED <<conn, dist, launchID, launch, pending, asks, negative,
                   stack>>

------------------------------------------------------------------------------
(***************************************************************************)
(* Packets and connections of distillers.                                  *)
(***************************************************************************)

\* Somebody starts a distiller by hand, with no request id.
DistillerStarts(d) ==
    /\ Idle
    /\ dist[d].state = "off"
    /\ dist' = [dist EXCEPT ![d] = Process("started")]
    /\ UNCHANGED <<conn, launchID, launch, pending, asks, negative, stack,
                   undefined>>

\* Deviation: the constructor of the record counts sleepers too.
RegisteredRecord_Any(sleep, l) == CountUp(l)

\* The launch records after the constructor of a DistillerRecord
RegisteredRecord(sleep, l) == IF sleep = "wake" THEN CountUp(l) ELSE launch

\* RegisterDistillerHandler: a launch that waits for this process is told,
\* and if the distiller is awake the launch is over.
Register(d, t, sleep, restart, l) ==
    /\ Idle
    /\ dist[d].state = "started"
    /\ l \in MatchingOrNone(t)
    /\ dist' = [dist EXCEPT ![d] =
                  [state |-> "registered", type |-> t, sleep |-> sleep,
                   restart |-> restart, rec |-> l]]
    /\ LET p == launchID[d]
           counted == RegisteredRecord(sleep, l)
       IN  IF p # None /\ sleep = "wake"
           THEN /\ ReplyToAll(p)
                /\ pending' = [pending EXCEPT ![p] = NotPending]
                /\ launch' = [counted EXCEPT ![p] = WithoutPending(@)]
                /\ launchID' = ForgetID(p)
           ELSE /\ launch' = counted
                /\ UNCHANGED <<pending, asks, undefined, launchID>>
    /\ UNCHANGED <<conn, negative, stack>>

\* The address of d is in the database already (a process that died and
\* whose connection has not broken yet had it): the new record is deleted
\* again, which undoes the count, and the connection is closed.
RegisterDuplicate(d) ==
    /\ Idle
    /\ dist[d].state = "started"
    /\ Registered # {}
    /\ dist' = [dist EXCEPT ![d] = Process("off")]
    /\ launchID' = [launchID EXCEPT ![d] = None]
    /\ UNCHANGED <<conn, launch, pending, asks, negative, stack, undefined>>

\* Deviation: the destructor of the record forgets to check that it counts.
DeleteRecord_Any(d, s) ==
    /\ dist' = [dist EXCEPT ![d] = Process(s)]
    /\ launchID' = [launchID EXCEPT ![d] = None]
    /\ launch' = CountDown(dist[d].rec)
    /\ UNCHANGED undefined

\* The DistillerRecord of d is deleted: an awake one leaves the count.
DeleteRecord(d, s) ==
    /\ dist' = [dist EXCEPT ![d] = Process(s)]
    /\ launchID' = [launchID EXCEPT ![d] = None]
    /\ IF dist[d].sleep = "wake" /\ Deleted(d)
       THEN undefined' = "launch record" /\ UNCHANGED launch
       ELSE /\ launch' = IF dist[d].sleep = "wake" THEN CountDown(dist[d].rec)
                                                   ELSE launch
            /\ UNCHANGED undefined

\* DeregisterDistillerHandler: the connection stays open.
Deregister(d) ==
    /\ Idle
    /\ d \in Registered
    /\ DeleteRecord(d, "open")
    /\ UNCHANGED <<conn, pending, asks, negative, stack>>

\* ReregisterDistillerHandler: the record is taken out of the database and
\* put back with another type; it keeps its launch record.
Reregister(d, t) ==
    /\ Idle
    /\ d \in Registered
    /\ dist' = [dist EXCEPT ![d].type = t]
    /\ UNCHANGED <<conn, launchID, launch, pending, asks, negative, stack,
                   undefined>>

\* EvConnectionBroken on the connection of a registered distiller.  Relaunch
\* runs before the record is deleted, but neither touches the other's state.
DistillerBroken(d) ==
    /\ Idle
    /\ d \in Registered
    /\ IF dist[d].restart /\ dist[d].rec # None /\ Deleted(d)
       THEN /\ undefined' = "launch record"
            /\ UNCHANGED <<dist, launchID, launch, stack>>
       ELSE /\ DeleteRecord(d, "off")
            /\ stack' = IF dist[d].restart /\ dist[d].rec # None
                        THEN RelaunchOn(stack, dist[d].rec)
                        ELSE stack
    /\ UNCHANGED <<conn, pending, asks, negative>>

\* A process dies before it registers, or after it deregistered.
UnregisteredDies(d) ==
    /\ Idle
    /\ dist[d].state \in {"started", "open"}
    /\ dist' = [dist EXCEPT ![d] = Process("off")]
    /\ launchID' = [launchID EXCEPT ![d] = None]
    /\ UNCHANGED <<conn, launch, pending, asks, negative, stack, undefined>>

\* DistillerLoadHandler: a load report that lifts the average load above
\* the limit of the launch record launches one more distiller, unless one
\* was launched recently.  (Every other report changes load figures only.)
LoadTooHigh(d) ==
    /\ Idle
    /\ d \in Registered
    /\ dist[d].rec # None
    /\ IF Deleted(d)
       THEN undefined' = "launch record" /\ UNCHANGED stack
       ELSE /\ launch[dist[d].rec].active > 0
            /\ ~launch[dist[d].rec].recent
            /\ stack' = RelaunchOn(stack, dist[d].rec)
            /\ UNCHANGED undefined
    /\ UNCHANGED <<conn, dist, launchID, launch, pending, asks, negative>>

------------------------------------------------------------------------------
(***************************************************************************)
(* Front ends, and the options file.                                       *)
(***************************************************************************)

\* A front end connects; it has flushed its negative cache by then.
FrontEndConnects(f) ==
    /\ Idle
    /\ f \notin conn
    /\ conn' = conn \cup {f}
    /\ negative' = {n \in negative : n[1] # f}
    /\ UNCHANGED <<dist, launchID, launch, pending, asks, stack, undefined>>

\* AskForDistillerHandler, EvAskForDistiller
AskForDistiller(f, i, t) ==
    /\ Idle
    /\ f \in conn
    /\ \A a \in asks : a.conn # f \/ a.id # i
    /\ IF Awake(t) # {}
       THEN UNCHANGED <<asks, stack>>       \* answered at once
       ELSE LET a == [conn |-> f, id |-> i, type |-> t]
            IN  /\ asks' = asks \cup {a}
                /\ stack' = <<Wake(t, a, None)>>
    /\ UNCHANGED <<conn, dist, launchID, launch, pending, negative, undefined>>

\* RemoveBrokenConnection on one waiting list.  The loop steps to the next
\* node before it removes "this" node, so a request of f stays and the one
\* behind it goes; what stays points at a deleted connection from now on.
IsFrom(q, f) == q \notin {None, Dangling} /\ q.conn = f
Nth(keep, k) == CHOOSE i \in keep : Cardinality({j \in keep : j <= i}) = k
Unwait(w, f) ==
    LET keep == {i \in DOMAIN w : i = 1 \/ ~IsFrom(w[i - 1], f)}
    IN  [k \in 1 .. Cardinality(keep) |->
           IF IsFrom(w[Nth(keep, k)], f) THEN Dangling ELSE w[Nth(keep, k)]]

FrontEndBroken(f) ==
    /\ Idle
    /\ f \in conn
    /\ AskersMayBreak \/ \A a \in asks : a.conn # f
    /\ conn' = conn \ {f}
    /\ asks' = {a \in asks : a.conn # f}
    /\ pending' = [l \in Records |->
                     [pending[l] EXCEPT !.waitingList = Unwait(@, f)]]
    /\ UNCHANGED <<dist, launchID, launch, negative, stack, undefined>>

\* What RExec::Update returns, whatever it is given
RExecUpdate == FALSE

\* Deviation: the record is deleted at once.
Died_AtOnce(l) == FreeRecord

\* LaunchRecord::Die: a pending launch keeps the record
Died(l) == IF pending[l].on THEN [launch[l] EXCEPT !.state = "dying"]
                            ELSE FreeRecord

\* SIGHUP: the options file now has a "dist." line for exactly the types in
\* T.  Records of other types leave the database and die, at once or with
\* their pending launch; front ends are told to flush their negative caches
\* if the launcher's update succeeded.
Fresh == {l \in Records : /\ launch[l].state = "free"
                          /\ \A d \in Registered : dist[d].rec # l}

OptionsUpdate(T) ==
    /\ Idle
    /\ LET new == T \ {launch[l].type : l \in Listed}
       IN  \E at \in [new -> Fresh] :
             /\ \A s, t \in new : at[s] = at[t] => s = t
             /\ launch' = [l \in Records |->
                  IF \E t \in new : at[t] = l
                  THEN NewRecord(CHOOSE t \in new : at[t] = l)
                  ELSE IF l \notin Listed \/ launch[l].type \in T
                       THEN launch[l]
                       ELSE Died(l)]
    /\ negative' = IF RExecUpdate THEN {} ELSE negative
    /\ UNCHANGED <<conn, dist, launchID, pending, asks, stack, undefined>>

------------------------------------------------------------------------------
DistillerNext(d) ==
    \/ DistillerStarts(d)
    \/ \E t \in Types, s \in Status, r \in BOOLEAN,
          l \in Records \cup {None} : Register(d, t, s, r, l)
    \/ RegisterDuplicate(d)
    \/ Deregister(d)
    \/ \E t \in Types : Reregister(d, t)
    \/ DistillerBroken(d)
    \/ UnregisteredDies(d)
    \/ LoadTooHigh(d)

FrontEndNext(f) ==
    \/ FrontEndConnects(f)
    \/ \E i \in AskIds, t \in Types : AskForDistiller(f, i, t)
    \/ FrontEndBroken(f)

WakeLoop ==
    \/ \E d \in Distillers : WakeUp(d) \/ WakeUpFails(d)
    \/ NobodyAsleep
    \/ WakeDeletedRecord

Next ==
    \/ WakeLoop
    \/ \E l \in Records : LaunchTimeout(l) \/ HysteresisExpires(l)
    \/ \E d \in Distillers : DistillerNext(d)
    \/ \E f \in FrontEnds : FrontEndNext(f)
    \/ \E T \in SUBSET Types : OptionsUpdate(T)

Spec == Init /\ [][Next]_vars

(***************************************************************************)
(* A handler runs to its end.  The timer of a pending launch, once due, is *)
(* served between two handlers however many other events arrive.           *)
(***************************************************************************)
FairSpec == Spec /\ WF_vars(WakeLoop)
                 /\ \A l \in Records : SF_vars(LaunchTimeout(l))

------------------------------------------------------------------------------
(***************************************************************************)
(* Every variable has its type.                                            *)
(***************************************************************************)
TypeOK ==
    /\ conn \subseteq FrontEnds
    /\ dist \in [Distillers -> Distiller]
    /\ launchID \in [Distillers -> Records \cup {None}]
    /\ launch \in [Records -> LaunchRecord]
    /\ pending \in [Records -> PendingLaunch]
    /\ asks \subseteq Ask
    /\ negative \subseteq FrontEnds \X Types
    /\ stack \in Seq(Frame)
    /\ undefined \in {"no", "connection", "launch record", "distiller record"}

(***************************************************************************)
(* numberOfActiveDistillers is the number of awake DistillerRecords that   *)
(* point at the launch record, however the distillers came and went:       *)
(* registered awake or asleep, refused as duplicates, woken up, broken     *)
(* while being woken up, re-registered under another type.  The average    *)
(* load that decides about launches divides by it.                         *)
(***************************************************************************)
Counted(l) == {d \in Registered : dist[d].rec = l /\ dist[d].sleep = "wake"}
ActiveCount ==
    undefined = "no" =>
      \A l \in Records : launch[l].state # "free" =>
                           launch[l].active = Cardinality(Counted(l))

(***************************************************************************)
(* A record that left the launch database lives exactly as long as its     *)
(* pending launch (LaunchRecord::Die and ~PendingLaunch hand the deletion  *)
(* over to each other): a launch never works on a deleted record and no    *)
(* record is left behind.  A process's id never names a launch that ended. *)
(***************************************************************************)
LaunchesOwnRecords ==
    /\ \A l \in Records :
         /\ pending[l].on => launch[l].state # "free"
         /\ launch[l].state = "dying" => pending[l].on
    /\ \A d \in Distillers : launchID[d] # None => pending[launchID[d]].on

(***************************************************************************)
(* "It simply arranges for the PTM to eventually respond to the proxy"     *)
(* (ptm.cc:232): a request of a connected front end that has no answer yet *)
(* is in exactly one place from which it will be answered: one entry of    *)
(* one waiting list, or the handler that is running.                       *)
(***************************************************************************)
InList(a, l) == {i \in DOMAIN pending[l].waitingList : pending[l].waitingList[i] = a}
InStack(a) == {i \in DOMAIN stack : stack[i].ask = a}
Places(a) == (UNION {{<<l, i>> : i \in InList(a, l)} : l \in Records})
               \cup {<<None, i>> : i \in InStack(a)}
AsksWait ==
    undefined = "no" => \A a \in asks : \E p \in Places(a) : Places(a) = {p}

(***************************************************************************)
(* The manager's records agree: the counts of distillers with the          *)
(* registered ones, launches with their records, and requests with the     *)
(* places they wait in.                                                    *)
(***************************************************************************)
PTMIsSafe == TypeOK /\ ActiveCount /\ LaunchesOwnRecords /\ AsksWait

(***************************************************************************)
(* The request itself: it is answered in the end, by a distiller, by the   *)
(* last timeout of the launch or by a launch that fails, as long as the    *)
(* front end stays connected.                                              *)
(***************************************************************************)
AsksAnswered ==
    \A a \in Ask : (a \in asks) ~> (a \notin asks \/ undefined # "no")

(***************************************************************************)
(* RemoveBrokenConnection is there to "check if it has any pending         *)
(* distiller launches associated with it" (ptmnet.cc:78): once a front     *)
(* end's connection is deleted, no launch replies to it.                   *)
(***************************************************************************)
NoReplyToDeletedConnection == undefined # "connection"

(***************************************************************************)
(* Die keeps a launch record that something still needs ("we can't die     *)
(* right away", distlaunch.cc:398): no deleted launch record is used.      *)
(***************************************************************************)
NoUseOfDeletedLaunchRecord == undefined # "launch record"

(***************************************************************************)
(* When a sleeper cannot be woken up, WakeSleepingDistiller will "try      *)
(* again" (ptmdb.cc:175), that is with a distiller that still exists.      *)
(***************************************************************************)
NoUseOfDeletedDistillerRecord == undefined # "distiller record"

(***************************************************************************)
(* A front end that was told there is no distiller for a type remembers    *)
(* it until it is told to flush; the PTM flushes after an options update   *)
(* ("Sending flush packet to frontend", ptm.cc:150).  So no connected      *)
(* front end remembers a type that has a launch record.                    *)
(***************************************************************************)
NegativeCacheCurrent ==
    \A n \in negative : n[1] \in conn => Matching(n[2]) = {}
=============================================================================
