------------------------------ MODULE Location ------------------------------
(***************************************************************************)
(* How front ends find a PTM, start one and lose it, and how PTMs that     *)
(* were started together settle which of them stays: the location part of  *)
(* ptm/src/cache/cacheman.cc and cachenet.cc, the beacons of               *)
(* ptm/src/ptm/ptm.cc and ptmnet.cc.                                       *)
(*                                                                         *)
(* A PTM multicasts beacons.  A front end without a connection connects to *)
(* the PTM of the first beacon it reads; one that has no PTM for a while   *)
(* announces that it will start one and does.  A PTM that reads a beacon   *)
(* of a greater PTM quits.  Beacons and announcements are datagrams: they  *)
(* may be lost and may be read when their sender is gone.                  *)
(*                                                                         *)
(* Threads of a front end: the manager (timers), one for the shared bus,   *)
(* one for every connection that was opened, and a worker that asks the    *)
(* PTM.  A handler that holds mgrMutex is one action; the start timer,     *)
(* which does not, is two.                                                 *)
(***************************************************************************)
EXTENDS Naturals, FiniteSets, TLAPS

CONSTANTS
    FrontEnds,
    PTMs,        \* numbers; CompareBeacon orders PTMs as these are ordered
    MaxConn,     \* bound: connection objects of a front end at one time
    MaxCrashes   \* bound

\* PTMs are compared as numbers; the bounds are numbers.
LocationConstants ==
    /\ MaxConn \in Nat /\ MaxCrashes \in Nat /\ PTMs \subseteq Nat
    /\ FrontEnds \cap PTMs = {}
ASSUME LocationAssumption == LocationConstants

VARIABLES
    up,          \* PTMs that run
    crashes,     \* number of PTMs that crashed
    beacons,     \* <<p, x>>: a beacon of p on its way to x
    announced,   \* front ends that have pktWillStartPTM still to read
    cur,         \* ptmConnection_, 0 for NULL
    sock,        \* connection objects: their PTM and state
    worker,      \* the object a worker is about to write to, or 0
    timer,       \* startPTMTimer.timer # NULL
    manager,     \* "idle", or "fired": ActualTimer::EvTimer passed its test
    beaconRecvd, \* flags of the NoBeaconTimer
    askedForUnicastBeacon,
    missed       \* history: the timer was disabled for a PTM that was gone

ptmVars == <<up, crashes>>
timerVars == <<timer, manager, missed>>
flags == <<beaconRecvd, askedForUnicastBeacon>>
connVars == <<cur, sock, worker>>
locVars == <<up, crashes, beacons, announced, cur, sock, worker, timer, manager,
          beaconRecvd, askedForUnicastBeacon, missed>>

Objects == 1 .. MaxConn
Free == [ptm |-> 0, st |-> "free"]

LocTypeOK ==
    /\ up \subseteq PTMs /\ crashes \in 0 .. MaxCrashes
    /\ beacons \subseteq PTMs \X (FrontEnds \cup PTMs)
    /\ announced \subseteq FrontEnds
    /\ cur \in [FrontEnds -> 0 .. MaxConn]
    /\ sock \in [FrontEnds -> [Objects ->
          [ptm : PTMs \cup {0}, st : {"free", "up", "gone", "exited"}]]]
    /\ worker \in [FrontEnds -> 0 .. MaxConn]
    /\ timer \in [FrontEnds -> BOOLEAN]
    /\ manager \in [FrontEnds -> {"idle", "fired"}]
    /\ beaconRecvd \in [FrontEnds -> BOOLEAN]
    /\ askedForUnicastBeacon \in [FrontEnds -> BOOLEAN]
    /\ missed \in [FrontEnds -> BOOLEAN]
    /\ \A f \in FrontEnds : cur[f] # 0 => sock[f][cur[f]].st \in {"up", "gone"}

Connected(f) == cur[f] # 0
-----------------------------------------------------------------------------
\* The CacheManager is constructed with the start timer armed.  An address
\* given in the options is handled by EvPTMLocationReceived__ as well: it
\* counts as a beacon that is there from the start, perhaps of no PTM.
LocInit ==
    /\ up \in SUBSET PTMs /\ Cardinality(up) <= 1
    /\ beacons \in SUBSET (PTMs \X FrontEnds)
    /\ \A b, c \in beacons : b[2] = c[2] => b = c
    /\ crashes = 0 /\ announced = {}
    /\ cur = [f \in FrontEnds |-> 0]
    /\ sock = [f \in FrontEnds |-> [i \in Objects |-> Free]]
    /\ worker = [f \in FrontEnds |-> 0]
    /\ timer = [f \in FrontEnds |-> TRUE]
    /\ manager = [f \in FrontEnds |-> "idle"]
    /\ beaconRecvd = [f \in FrontEnds |-> FALSE]
    /\ askedForUnicastBeacon = [f \in FrontEnds |-> FALSE]
    /\ missed = [f \in FrontEnds |-> FALSE]
-----------------------------------------------------------------------------
(* PTMs                                                                    *)

\* BeaconTimer: sends to the bus, errors are only logged
Beacon(p) ==
    /\ p \in up
    /\ beacons' = beacons \cup ({p} \X (FrontEnds \cup (up \ {p})))
    /\ UNCHANGED <<ptmVars, announced, connVars, timerVars, flags>>

LoseBeacon(b) ==
    /\ b \in beacons
    /\ beacons' = beacons \ {b}
    /\ UNCHANGED <<ptmVars, announced, connVars, timerVars, flags>>

\* The connections to a PTM that has exited read end of file.
Exited(p) ==
    [f \in FrontEnds |-> [i \in Objects |->
        IF sock[f][i].ptm = p /\ sock[f][i].st = "up"
          THEN [sock[f][i] EXCEPT !.st = "gone"] ELSE sock[f][i]]]

\* CompareBeacon: the PTM q yields to p
Yields_Always(q, p) == q # p
Yields_Never(q, p) == FALSE
Yields(q, p) == q < p

\* PTMBeaconHandler::Handle in a PTM: the lesser one quits.
BeaconAtPTM(p, q) ==
    /\ <<p, q>> \in beacons /\ q \in up
    /\ IF Yields(q, p)
         THEN /\ up' = up \ {q}
              /\ sock' = Exited(q)
              /\ beacons' = beacons \ (PTMs \X {q})
         ELSE beacons' = beacons \ {<<p, q>>} /\ UNCHANGED <<up, sock>>
    /\ UNCHANGED <<crashes, announced, cur, worker, timerVars, flags>>

Crash(p) ==
    /\ p \in up /\ crashes < MaxCrashes
    /\ crashes' = crashes + 1
    /\ up' = up \ {p}
    /\ sock' = Exited(p)
    /\ beacons' = beacons \ (PTMs \X {p})
    /\ UNCHANGED <<announced, cur, worker, timerVars, flags>>
-----------------------------------------------------------------------------
(* The shared bus of a front end                                           *)

\* EvPTMLocationReceived__: the beacon is noted; a front end without a
\* connection connects.  Whether that succeeds or not, the start timer is
\* disabled.
Disabled(f) == [timer EXCEPT ![f] = FALSE]

EvPTMLocationReceived(p, f) ==
    /\ <<p, f>> \in beacons
    /\ beacons' = beacons \ {<<p, f>>}
    /\ beaconRecvd' = [beaconRecvd EXCEPT ![f] = TRUE]
    /\ askedForUnicastBeacon' = [askedForUnicastBeacon EXCEPT ![f] = FALSE]
    /\ \/ Connected(f) /\ UNCHANGED <<cur, sock, timer, missed>>
       \/ /\ ~Connected(f) /\ p \in up
          /\ \E i \in Objects :
               /\ sock[f][i] = Free
               /\ sock' = [sock EXCEPT ![f][i] = [ptm |-> p, st |-> "up"]]
               /\ cur' = [cur EXCEPT ![f] = i]
          /\ timer' = Disabled(f)
          /\ UNCHANGED missed
       \/ /\ ~Connected(f) /\ p \notin up
          /\ timer' = Disabled(f)
          /\ missed' = [missed EXCEPT ![f] = TRUE]
          /\ UNCHANGED <<cur, sock>>
    /\ UNCHANGED <<ptmVars, announced, worker, manager>>

\* NewTimer
Armed(f) == [timer EXCEPT ![f] = TRUE]

\* SharedBus::EvPacketReceived, pktWillStartPTM
WillStartPTM(f) ==
    /\ f \in announced
    /\ announced' = announced \ {f}
    /\ IF Connected(f) THEN UNCHANGED <<timer, missed>>
         ELSE timer' = Armed(f) /\ missed' = [missed EXCEPT ![f] = FALSE]
    /\ UNCHANGED <<ptmVars, beacons, connVars, manager, flags>>

LoseAnnouncement(f) ==
    /\ f \in announced
    /\ announced' = announced \ {f}
    /\ UNCHANGED <<ptmVars, beacons, connVars, timerVars, flags>>
-----------------------------------------------------------------------------
(* Losing the connection                                                   *)

\* ClosePTMConnection__ closes whatever ptmConnection_ is now.
LostTimer_NotArmed(f) == timer
LostTimer(f) == IF Connected(f) THEN Armed(f) ELSE timer

ClosePTMConnection_KeepsPointer(f) ==
    /\ timer' = LostTimer(f)
    /\ UNCHANGED <<cur, missed>>
ClosePTMConnection(f) ==
    /\ cur' = [cur EXCEPT ![f] = 0]
    /\ timer' = LostTimer(f)
    /\ missed' = [missed EXCEPT ![f] = @ /\ ~Connected(f)]

\* The thread of a connection reads end of file, closes and exits.
ConnectionThread(f, i) ==
    /\ sock[f][i].st = "gone"
    /\ sock' = [sock EXCEPT ![f][i] = IF worker[f] = i THEN [@ EXCEPT !.st = "exited"]
                                                       ELSE Free]
    /\ ClosePTMConnection(f)
    /\ UNCHANGED <<ptmVars, beacons, announced, worker, manager, flags>>

\* AskPTMForDistiller__: a worker takes the connection under the lock,
AskPTM(f) ==
    /\ worker[f] = 0 /\ Connected(f)
    /\ worker' = [worker EXCEPT ![f] = cur[f]]
    /\ UNCHANGED <<ptmVars, beacons, announced, cur, sock, timerVars, flags>>

\* and writes to it without; a write that fails closes the connection.
AskWrite(f) ==
    /\ worker[f] # 0
    /\ worker' = [worker EXCEPT ![f] = 0]
    /\ sock' = IF sock[f][worker[f]].st = "exited"
                 THEN [sock EXCEPT ![f][worker[f]] = Free] ELSE sock
    /\ \/ UNCHANGED <<cur, timer, missed>>
       \/ sock[f][worker[f]].st # "up" /\ ClosePTMConnection(f)
    /\ UNCHANGED <<ptmVars, beacons, announced, manager, flags>>
-----------------------------------------------------------------------------
(* Timers, on the manager's thread                                         *)

\* ActualTimer::EvTimer finds that it is the current timer,
StartTimerFires(f) ==
    /\ manager[f] = "idle" /\ timer[f]
    /\ manager' = [manager EXCEPT ![f] = "fired"]
    /\ UNCHANGED <<ptmVars, beacons, announced, connVars, timer, missed, flags>>

\* and StartPTMTimer::EvTimer makes a new one and calls StartPTM__.  The new
\* PTM has an address of its own.
StartPTM(f) ==
    /\ manager[f] = "fired"
    /\ manager' = [manager EXCEPT ![f] = "idle"]
    /\ timer' = Armed(f)
    /\ missed' = [missed EXCEPT ![f] = FALSE]
    /\ announced' = FrontEnds
    /\ \E p \in PTMs \ up :
         /\ \A b \in beacons : b[1] # p
         /\ \A g \in FrontEnds, i \in Objects : sock[g][i].ptm # p
         /\ up' = up \cup {p}
    /\ UNCHANGED <<crashes, beacons, connVars, flags>>

\* NoBeaconTimer::EvTimer: what the two flags and the connection become
NoBeaconFlags(f) ==
    IF ~beaconRecvd[f] /\ Connected(f)
      THEN [recvd |-> FALSE, ask |-> ~askedForUnicastBeacon[f] /\ sock[f][cur[f]].st = "up",
            close |-> askedForUnicastBeacon[f] \/ sock[f][cur[f]].st # "up"]
      ELSE [recvd |-> TRUE, close |-> FALSE, ask |-> FALSE]

NoBeaconTimer(f) ==
    LET r == NoBeaconFlags(f) IN
    /\ manager[f] = "idle"
    /\ beaconRecvd' = [beaconRecvd EXCEPT ![f] = r.recvd]
    /\ askedForUnicastBeacon' = [askedForUnicastBeacon EXCEPT ![f] = r.ask]
    /\ IF r.close THEN ClosePTMConnection(f) ELSE UNCHANGED <<cur, timer, missed>>
    /\ UNCHANGED <<ptmVars, beacons, announced, sock, worker, manager>>
-----------------------------------------------------------------------------
FrontEnd(f) ==
    \/ \E p \in PTMs : EvPTMLocationReceived(p, f)
    \/ WillStartPTM(f) \/ LoseAnnouncement(f)
    \/ \E i \in Objects : ConnectionThread(f, i)
    \/ AskPTM(f) \/ AskWrite(f)
    \/ StartTimerFires(f) \/ StartPTM(f) \/ NoBeaconTimer(f)

PTM(p) == Beacon(p) \/ Crash(p) \/ \E q \in PTMs : BeaconAtPTM(q, p)

LocNext ==
    \/ \E f \in FrontEnds : FrontEnd(f)
    \/ \E p \in PTMs : PTM(p)
    \/ \E b \in beacons : LoseBeacon(b)

LocSpec == LocInit /\ [][LocNext]_locVars

\* Timers go off and threads run.  Beacons are sent again and again, and one
\* of a PTM that keeps sending gets through in the end.
LocFairness ==
    /\ \A p \in PTMs : WF_locVars(Beacon(p))
    /\ \A p \in PTMs, q \in PTMs : SF_locVars(BeaconAtPTM(p, q))
    /\ \A p \in PTMs, f \in FrontEnds : SF_locVars(EvPTMLocationReceived(p, f))
    /\ \A f \in FrontEnds :
         /\ WF_locVars(\E i \in Objects : ConnectionThread(f, i))
         /\ WF_locVars(AskWrite(f))
         /\ WF_locVars(StartTimerFires(f)) /\ WF_locVars(StartPTM(f))

LocFairSpec == LocSpec /\ LocFairness
-----------------------------------------------------------------------------
(* Properties                                                              *)

\* As long as none has crashed, a PTM that runs is only ever replaced by a
\* greater one: of PTMs that were started together one stays (CompareBeacon
\* and PTMBeaconHandler of ptmnet.cc).
ContestLeavesOne == [][crashes' = 0 /\ up # {} => up' # {}]_locVars

\* Several PTMs do not stay side by side, unless a front end that has a PTM
\* goes on starting others: its timer was made anew just after the
\* connection had disabled it (the same code, StartPTMTimer::EvTimer).
ContestEnds ==
    Cardinality(up) > 1 ~>
       (Cardinality(up) <= 1 \/ \E f \in FrontEnds : Connected(f) /\ timer[f])

\* A front end that is connected does not start PTMs: its timer is disabled,
\* or the manager is about to find that it is not (EvPTMLocationReceived__
\* disables the timer; cacheman.cc:433 says its expiry needs no lock).
ConnectedDisabled ==
    \A f \in FrontEnds : Connected(f) /\ manager[f] = "idle" => ~timer[f]

\* Whoever has no connection has the timer, or was misled about the PTM.
StartsOne == \A f \in FrontEnds : Connected(f) \/ timer[f] \/ missed[f]

\* A front end that has no PTM will start one, unless a beacon of a PTM that
\* was gone has disabled its timer (EvPTMLocationReceived__,
\* EvPTMConnectionLost_, RestartPTMTimer__); the variables keep their types.
WillStartOne == LocTypeOK /\ StartsOne

\* A front end without a PTM is connected to one in the end, with the same
\* exception (the whole of the location protocol).
FrontEndsFindPTM == \A f \in FrontEnds : ~Connected(f) ~> (Connected(f) \/ missed[f])
-----------------------------------------------------------------------------
(* Proofs, for any number of front ends, PTMs and connections              *)

\* A PTM that crashes or quits turns the connections to it from "up" into
\* "gone" (Exited).
LEMMA ExitedType ==
    ASSUME LocTypeOK, NEW p \in PTMs, sock' = Exited(p), UNCHANGED cur
    PROVE  /\ sock' \in [FrontEnds -> [Objects ->
                 [ptm : PTMs \cup {0}, st : {"free", "up", "gone", "exited"}]]]
           /\ \A f \in FrontEnds : cur'[f] # 0 => sock'[f][cur'[f]].st \in {"up", "gone"}
<1> DEFINE R == [ptm : PTMs \cup {0}, st : {"free", "up", "gone", "exited"}]
<1>1. ASSUME NEW f \in FrontEnds, NEW i \in Objects
      PROVE  /\ sock'[f][i] \in R
             /\ sock[f][i].st \in {"up", "gone"} => sock'[f][i].st \in {"up", "gone"}
  <2>1. sock[f][i] \in R
    BY DEF LocTypeOK
  <2>2. sock'[f][i] = IF sock[f][i].ptm = p /\ sock[f][i].st = "up"
                        THEN [sock[f][i] EXCEPT !.st = "gone"] ELSE sock[f][i]
    BY DEF Exited
  <2> QED BY <2>1, <2>2
<1>2. sock' \in [FrontEnds -> [Objects -> R]]
  <2>1. /\ sock' = [f \in FrontEnds |-> sock'[f]]
        /\ \A f \in FrontEnds : sock'[f] = [i \in Objects |-> sock'[f][i]]
    BY DEF Exited
  <2> QED BY <1>1, <2>1
<1>3. \A f \in FrontEnds : cur[f] # 0 => cur[f] \in Objects
  BY DEF LocTypeOK, Objects
<1> QED BY <1>1, <1>2, <1>3 DEF LocTypeOK

\* What LocTypeOK says of connections, and of timers
ConnectionTypes ==
    /\ cur \in [FrontEnds -> 0 .. MaxConn]
    /\ sock \in [FrontEnds -> [Objects ->
          [ptm : PTMs \cup {0}, st : {"free", "up", "gone", "exited"}]]]
    /\ worker \in [FrontEnds -> 0 .. MaxConn]
    /\ \A f \in FrontEnds : cur[f] # 0 => sock[f][cur[f]].st \in {"up", "gone"}
TimerTypes ==
    /\ timer \in [FrontEnds -> BOOLEAN]
    /\ manager \in [FrontEnds -> {"idle", "fired"}]
    /\ beaconRecvd \in [FrontEnds -> BOOLEAN]
    /\ askedForUnicastBeacon \in [FrontEnds -> BOOLEAN]
    /\ missed \in [FrontEnds -> BOOLEAN]

\* ClosePTMConnection forgets the connection and keeps the types and
\* StartsOne: whoever loses a connection arms the timer.
LEMMA Closed ==
    ASSUME LocationConstants, LocTypeOK, StartsOne, NEW f \in FrontEnds, ClosePTMConnection(f)
    PROVE  /\ cur' = [cur EXCEPT ![f] = 0] /\ cur' \in [FrontEnds -> 0 .. MaxConn]
           /\ timer' \in [FrontEnds -> BOOLEAN] /\ missed' \in [FrontEnds -> BOOLEAN]
           /\ \A g \in FrontEnds : cur'[g] # 0 => g # f /\ cur'[g] = cur[g]
           /\ StartsOne'
<1>1. /\ cur \in [FrontEnds -> 0 .. MaxConn] /\ timer \in [FrontEnds -> BOOLEAN]
      /\ missed \in [FrontEnds -> BOOLEAN]
  BY DEF LocTypeOK
<1>2. cur' = [cur EXCEPT ![f] = 0] /\ cur' \in [FrontEnds -> 0 .. MaxConn]
  BY <1>1 DEF ClosePTMConnection, LocationConstants
<1>3. timer' \in [FrontEnds -> BOOLEAN] /\ missed' \in [FrontEnds -> BOOLEAN]
  BY <1>1 DEF ClosePTMConnection, LostTimer, Armed
<1>4. StartsOne'
  <2> SUFFICES ASSUME NEW g \in FrontEnds PROVE cur'[g] # 0 \/ timer'[g] \/ missed'[g]
    BY DEF StartsOne, Connected
  <2>1. cur[g] # 0 \/ timer[g] \/ missed[g]
    BY DEF StartsOne, Connected
  <2>2. CASE g = f
    <3>1. CASE cur[f] # 0
      <4>1. timer'[f] = TRUE
        BY <1>1, <3>1 DEF ClosePTMConnection, LostTimer, Armed, Connected
      <4> QED BY <2>2, <4>1
    <3>2. CASE cur[f] = 0
      <4>1. timer'[f] = timer[f] /\ missed'[f] = (missed[f] /\ ~Connected(f)) /\ ~Connected(f)
        BY <1>1, <3>2 DEF ClosePTMConnection, LostTimer, Connected
      <4> QED BY Zenon, <2>1, <2>2, <3>2, <4>1
    <3> QED BY <3>1, <3>2
  <2>3. CASE g # f
    <3>1. cur'[g] = cur[g] /\ timer'[g] = timer[g] /\ missed'[g] = missed[g]
      BY <1>1, <2>3 DEF ClosePTMConnection, LostTimer, Armed
    <3> QED BY <2>1, <3>1
  <2> QED BY <2>2, <2>3
<1> QED BY Zenon, <1>1, <1>2, <1>3, <1>4

\* Every step of every front end and PTM keeps the types and StartsOne.
LEMMA LocationStep ==
    ASSUME LocationConstants, LocTypeOK, StartsOne, [LocNext]_locVars
    PROVE  LocTypeOK' /\ StartsOne'
<1> USE DEF ptmVars, timerVars, flags, connVars
<1>0. /\ up \subseteq PTMs /\ crashes \in 0 .. MaxCrashes
      /\ beacons \subseteq PTMs \X (FrontEnds \cup PTMs)
      /\ announced \subseteq FrontEnds
      /\ ConnectionTypes /\ TimerTypes
  BY DEF LocTypeOK, ConnectionTypes, TimerTypes
<1>d. ASSUME /\ up' \subseteq PTMs /\ crashes' \in 0 .. MaxCrashes
             /\ beacons' \subseteq PTMs \X (FrontEnds \cup PTMs)
             /\ announced' \subseteq FrontEnds
             /\ ConnectionTypes' /\ TimerTypes'
      PROVE  LocTypeOK'
  BY <1>d DEF LocTypeOK, ConnectionTypes, TimerTypes
<1>a. ASSUME UNCHANGED <<cur, sock, worker>> PROVE ConnectionTypes'
  BY <1>0, <1>a DEF ConnectionTypes
<1>b. ASSUME UNCHANGED <<timer, manager, beaconRecvd, askedForUnicastBeacon, missed>>
      PROVE  TimerTypes'
  BY <1>0, <1>b DEF TimerTypes
<1>c. ASSUME UNCHANGED <<cur, timer, missed>> PROVE StartsOne'
  BY <1>c DEF StartsOne, Connected
<1>1. ASSUME NEW p \in PTMs, Beacon(p) PROVE LocTypeOK' /\ StartsOne'
  <2>1. beacons' \subseteq PTMs \X (FrontEnds \cup PTMs)
    BY <1>0, <1>1 DEF Beacon
  <2> QED BY <1>0, <1>1, <1>a, <1>b, <1>c, <2>1, <1>d DEF Beacon
<1>2. ASSUME NEW b \in beacons, LoseBeacon(b) PROVE LocTypeOK' /\ StartsOne'
  BY <1>0, <1>2, <1>a, <1>b, <1>c, <1>d DEF LoseBeacon
<1>3. ASSUME NEW p \in PTMs, UNCHANGED <<cur, worker>>, sock' = Exited(p)
      PROVE  ConnectionTypes'
  BY <1>0, <1>3, ExitedType DEF ConnectionTypes
<1>4. ASSUME NEW p \in PTMs, NEW q \in PTMs, BeaconAtPTM(p, q)
      PROVE  LocTypeOK' /\ StartsOne'
  <2>1. up' \subseteq PTMs /\ beacons' \subseteq PTMs \X (FrontEnds \cup PTMs)
    BY <1>0, <1>4 DEF BeaconAtPTM
  <2>2. ConnectionTypes'
    BY <1>4, <1>3, <1>a DEF BeaconAtPTM
  <2> QED BY <1>0, <1>4, <1>b, <1>c, <2>1, <2>2, <1>d DEF BeaconAtPTM
<1>5. ASSUME NEW p \in PTMs, Crash(p) PROVE LocTypeOK' /\ StartsOne'
  <2>1. /\ up' \subseteq PTMs /\ beacons' \subseteq PTMs \X (FrontEnds \cup PTMs)
        /\ crashes' \in 0 .. MaxCrashes
    BY <1>0, <1>5 DEF Crash, LocationConstants
  <2>2. ConnectionTypes'
    BY <1>5, <1>3 DEF Crash
  <2> QED BY <1>0, <1>5, <1>b, <1>c, <2>1, <2>2, <1>d DEF Crash
<1>6. ASSUME NEW p \in PTMs, NEW f \in FrontEnds, EvPTMLocationReceived(p, f)
      PROVE  LocTypeOK' /\ StartsOne'
  <2>1. beacons' \subseteq PTMs \X (FrontEnds \cup PTMs)
    BY <1>0, <1>6 DEF EvPTMLocationReceived
  <2>2. TimerTypes'
    BY Zenon, <1>0, <1>6 DEF TimerTypes, EvPTMLocationReceived, Disabled
  <2>3. CASE UNCHANGED <<cur, sock, timer, missed>>
    BY <1>0, <1>6, <1>a, <1>c, <2>1, <2>2, <2>3, <1>d DEF EvPTMLocationReceived
  <2>4. CASE timer' = Disabled(f) /\ missed' = [missed EXCEPT ![f] = TRUE]
               /\ UNCHANGED <<cur, sock>>
    <3>1. StartsOne'
      BY <1>0, <2>4 DEF StartsOne, Connected, TimerTypes, Disabled
    <3> QED BY <1>0, <1>6, <1>a, <2>1, <2>2, <2>4, <3>1, <1>d DEF EvPTMLocationReceived
  <2>5. CASE /\ \E i \in Objects :
                  /\ sock[f][i] = Free
                  /\ sock' = [sock EXCEPT ![f][i] = [ptm |-> p, st |-> "up"]]
                  /\ cur' = [cur EXCEPT ![f] = i]
             /\ timer' = Disabled(f) /\ UNCHANGED missed
    <3>1. PICK i \in Objects :
                  /\ sock' = [sock EXCEPT ![f][i] = [ptm |-> p, st |-> "up"]]
                  /\ cur' = [cur EXCEPT ![f] = i]
      BY Zenon, <2>5
    <3>2. i \in 0 .. MaxConn /\ i # 0
      BY DEF Objects, LocationConstants
    <3>3. /\ cur' \in [FrontEnds -> 0 .. MaxConn] /\ cur'[f] = i
          /\ \A g \in FrontEnds \ {f} : cur'[g] = cur[g]
      BY <1>0, <3>1, <3>2 DEF ConnectionTypes
    <3>4. [ptm |-> p, st |-> "up"] \in [ptm : PTMs \cup {0}, st : {"free", "up", "gone", "exited"}]
      OBVIOUS
    <3>5. /\ sock' \in [FrontEnds -> [Objects ->
                [ptm : PTMs \cup {0}, st : {"free", "up", "gone", "exited"}]]]
          /\ sock'[f][i] = [ptm |-> p, st |-> "up"]
          /\ \A g \in FrontEnds \ {f} : sock'[g] = sock[g]
      BY <1>0, <3>1, <3>4 DEF ConnectionTypes
    <3>6. ConnectionTypes'
      BY <1>0, <1>6, <3>3, <3>5 DEF ConnectionTypes, EvPTMLocationReceived
    <3>7. StartsOne'
      BY <1>0, <2>5, <3>2, <3>3 DEF StartsOne, Connected, TimerTypes, Disabled
    <3> QED BY <1>0, <1>6, <2>1, <2>2, <3>6, <3>7, <1>d DEF EvPTMLocationReceived
  <2> QED BY <1>6, <2>3, <2>4, <2>5 DEF EvPTMLocationReceived
<1>7. ASSUME NEW f \in FrontEnds, WillStartPTM(f) PROVE LocTypeOK' /\ StartsOne'
  <2>1. TimerTypes' /\ StartsOne'
    BY Zenon, <1>0, <1>7 DEF TimerTypes, WillStartPTM, Armed, StartsOne, Connected
  <2> QED BY <1>0, <1>7, <1>a, <2>1, <1>d DEF WillStartPTM
<1>8. ASSUME NEW f \in FrontEnds, LoseAnnouncement(f) PROVE LocTypeOK' /\ StartsOne'
  BY <1>0, <1>8, <1>a, <1>b, <1>c, <1>d DEF LoseAnnouncement
<1>9. ASSUME NEW f \in FrontEnds, NEW i \in Objects, ConnectionThread(f, i)
      PROVE  LocTypeOK' /\ StartsOne'
  <2>1. /\ cur' \in [FrontEnds -> 0 .. MaxConn]
        /\ timer' \in [FrontEnds -> BOOLEAN] /\ missed' \in [FrontEnds -> BOOLEAN]
        /\ \A g \in FrontEnds : cur'[g] # 0 => g # f /\ cur'[g] = cur[g]
        /\ StartsOne'
    BY <1>9, Closed DEF ConnectionThread
  <2>2. sock[f][i] \in [ptm : PTMs \cup {0}, st : {"free", "up", "gone", "exited"}]
    BY <1>0 DEF ConnectionTypes
  <2>3. /\ Free \in [ptm : PTMs \cup {0}, st : {"free", "up", "gone", "exited"}]
        /\ [sock[f][i] EXCEPT !.st = "exited"]
             \in [ptm : PTMs \cup {0}, st : {"free", "up", "gone", "exited"}]
    BY <2>2 DEF Free
  <2>4. /\ sock' \in [FrontEnds -> [Objects ->
              [ptm : PTMs \cup {0}, st : {"free", "up", "gone", "exited"}]]]
        /\ \A g \in FrontEnds \ {f} : sock'[g] = sock[g]
    BY <1>0, <1>9, <2>3 DEF ConnectionThread, ConnectionTypes
  <2>5. ConnectionTypes'
    BY <1>0, <1>9, <2>1, <2>4 DEF ConnectionTypes, ConnectionThread
  <2>6. TimerTypes'
    BY <1>0, <1>9, <2>1 DEF TimerTypes, ConnectionThread
  <2> QED BY <1>0, <1>9, <2>1, <2>5, <2>6, <1>d DEF ConnectionThread
<1>10. ASSUME NEW f \in FrontEnds, AskPTM(f) PROVE LocTypeOK' /\ StartsOne'
  <2>1. ConnectionTypes'
    BY <1>0, <1>10 DEF AskPTM, ConnectionTypes
  <2> QED BY <1>0, <1>10, <1>b, <1>c, <2>1, <1>d DEF AskPTM
<1>11. ASSUME NEW f \in FrontEnds, AskWrite(f) PROVE LocTypeOK' /\ StartsOne'
  <2> DEFINE k == worker[f]
  <2>1. k \in Objects
    BY <1>0, <1>11 DEF AskWrite, ConnectionTypes, Objects, LocationConstants
  <2>2. /\ cur' \in [FrontEnds -> 0 .. MaxConn]
        /\ timer' \in [FrontEnds -> BOOLEAN] /\ missed' \in [FrontEnds -> BOOLEAN]
        /\ \A g \in FrontEnds : cur'[g] # 0 => cur'[g] = cur[g]
        /\ StartsOne'
    <3>1. CASE UNCHANGED <<cur, timer, missed>>
      BY <1>0, <1>c, <3>1 DEF ConnectionTypes, TimerTypes
    <3>2. CASE ClosePTMConnection(f)
      BY <3>2, Closed
    <3> QED BY <1>11, <3>1, <3>2 DEF AskWrite
  <2>3. Free \in [ptm : PTMs \cup {0}, st : {"free", "up", "gone", "exited"}]
    BY DEF Free
  <2>4. /\ sock' \in [FrontEnds -> [Objects ->
              [ptm : PTMs \cup {0}, st : {"free", "up", "gone", "exited"}]]]
        /\ \A g \in FrontEnds : \A i \in Objects :
              sock[g][i].st \in {"up", "gone"} => sock'[g][i] = sock[g][i]
    <3>1. CASE sock' = sock
      BY <1>0, <3>1 DEF ConnectionTypes
    <3>2. CASE sock[f][k].st = "exited" /\ sock' = [sock EXCEPT ![f][k] = Free]
      BY <1>0, <2>1, <2>3, <3>2 DEF ConnectionTypes
    <3> QED BY <1>11, <3>1, <3>2 DEF AskWrite
  <2>5. \A g \in FrontEnds : cur[g] # 0 => cur[g] \in Objects
    BY <1>0 DEF ConnectionTypes, Objects
  <2>6. worker' \in [FrontEnds -> 0 .. MaxConn]
    BY <1>0, <1>11 DEF ConnectionTypes, AskWrite, LocationConstants
  <2>7. ConnectionTypes'
    BY <1>0, <2>2, <2>4, <2>5, <2>6 DEF ConnectionTypes
  <2>8. TimerTypes'
    BY <1>0, <1>11, <2>2 DEF TimerTypes, AskWrite
  <2> QED BY <1>0, <1>11, <2>2, <2>7, <2>8, <1>d DEF AskWrite
<1>12. ASSUME NEW f \in FrontEnds, StartTimerFires(f) PROVE LocTypeOK' /\ StartsOne'
  <2>1. TimerTypes'
    BY <1>0, <1>12 DEF TimerTypes, StartTimerFires
  <2> QED BY <1>0, <1>12, <1>a, <1>c, <2>1, <1>d DEF StartTimerFires
<1>13. ASSUME NEW f \in FrontEnds, StartPTM(f) PROVE LocTypeOK' /\ StartsOne'
  <2>1. TimerTypes' /\ StartsOne'
    BY <1>0, <1>13 DEF TimerTypes, StartPTM, Armed, StartsOne, Connected
  <2>2. up' \subseteq PTMs /\ announced' \subseteq FrontEnds
    BY <1>0, <1>13 DEF StartPTM
  <2> QED BY <1>0, <1>13, <1>a, <2>1, <2>2, <1>d DEF StartPTM
<1>14. ASSUME NEW f \in FrontEnds, NoBeaconTimer(f) PROVE LocTypeOK' /\ StartsOne'
  <2>1. /\ beaconRecvd' \in [FrontEnds -> BOOLEAN] /\ askedForUnicastBeacon' \in [FrontEnds -> BOOLEAN]
    <3>1. NoBeaconFlags(f).recvd \in BOOLEAN /\ NoBeaconFlags(f).ask \in BOOLEAN
      BY Zenon DEF NoBeaconFlags
    <3> QED BY <1>0, <1>14, <3>1 DEF NoBeaconTimer, TimerTypes
  <2>2. /\ cur' \in [FrontEnds -> 0 .. MaxConn]
        /\ timer' \in [FrontEnds -> BOOLEAN] /\ missed' \in [FrontEnds -> BOOLEAN]
        /\ \A g \in FrontEnds : cur'[g] # 0 => cur'[g] = cur[g]
        /\ StartsOne'
    <3>1. CASE UNCHANGED <<cur, timer, missed>>
      BY <1>0, <1>c, <3>1 DEF ConnectionTypes, TimerTypes
    <3>2. CASE ClosePTMConnection(f)
      BY <3>2, Closed
    <3> QED BY <1>14, <3>1, <3>2 DEF NoBeaconTimer
  <2>3. ConnectionTypes'
    BY <1>0, <1>14, <2>2 DEF ConnectionTypes, NoBeaconTimer
  <2>4. TimerTypes'
    BY <1>0, <1>14, <2>1, <2>2 DEF TimerTypes, NoBeaconTimer
  <2> QED BY <1>0, <1>14, <2>2, <2>3, <2>4, <1>d DEF NoBeaconTimer
<1>15. CASE UNCHANGED locVars
  BY <1>15, <1>0, <1>a, <1>b, <1>c, <1>d DEF locVars
<1> QED BY <1>1, <1>2, <1>4, <1>5, <1>6, <1>7, <1>8, <1>9, <1>10, <1>11, <1>12, <1>13,
           <1>14, <1>15 DEF LocNext, FrontEnd, PTM

\* Initially the start timer is armed everywhere.
LEMMA LocationInit == LocationConstants /\ LocInit => LocTypeOK /\ StartsOne
<1> SUFFICES ASSUME LocationConstants, LocInit PROVE LocTypeOK /\ StartsOne
  OBVIOUS
<1>1. Free \in [ptm : PTMs \cup {0}, st : {"free", "up", "gone", "exited"}]
  BY DEF Free
<1>2. LocTypeOK
  BY <1>1 DEF LocInit, LocTypeOK, LocationConstants
<1> QED BY <1>2 DEF LocInit, StartsOne

\* A front end that has no PTM will start one, unless a beacon of a PTM that
\* was gone has disabled its timer (cacheman.cc), for any number of front ends,
\* PTMs, connections and crashes.
THEOREM AlwaysWillStartOne == LocSpec => []WillStartOne
<1>1. LocInit => WillStartOne
  BY LocationAssumption, LocationInit DEF WillStartOne
<1>2. WillStartOne /\ [LocNext]_locVars => WillStartOne'
  BY LocationAssumption, LocationStep DEF WillStartOne
<1> QED BY <1>1, <1>2, PTL DEF LocSpec

\* Before the first crash, whoever sent a beacon that is still on its way to a
\* PTM runs, or a greater PTM does: a PTM only quits for a greater one, which may itself
\* have quit since for one that is greater still.
GreaterRuns == crashes = 0 => \A b \in beacons : b[2] \in PTMs => \E r \in up : b[1] <= r

\* Every step keeps it, and before the first crash leaves a PTM running.
LEMMA GreaterStep ==
    ASSUME LocationConstants, LocTypeOK, GreaterRuns, LocNext
    PROVE  GreaterRuns' /\ (crashes' = 0 /\ up # {} => up' # {})
<1> USE DEF ptmVars, timerVars, flags, connVars
<1>0. /\ up \subseteq Nat /\ PTMs \subseteq Nat /\ crashes \in Nat
      /\ beacons \subseteq PTMs \X (FrontEnds \cup PTMs)
  BY DEF LocTypeOK, LocationConstants
<1>1. ASSUME up \subseteq up', crashes' = crashes, beacons' \subseteq beacons
      PROVE  GreaterRuns' /\ (crashes' = 0 /\ up # {} => up' # {})
  BY <1>1 DEF GreaterRuns
<1>2. ASSUME NEW p \in PTMs, Beacon(p)
      PROVE  GreaterRuns' /\ (crashes' = 0 /\ up # {} => up' # {})
  <2>1. \A b \in beacons' : b \in beacons \/ b[1] = p
    BY <1>2 DEF Beacon
  <2>2. p \in up /\ p <= p
    BY <1>0, <1>2 DEF Beacon
  <2> QED BY <1>2, <2>1, <2>2 DEF GreaterRuns, Beacon
<1>3. ASSUME NEW p \in PTMs, NEW q \in PTMs, BeaconAtPTM(p, q)
      PROVE  GreaterRuns' /\ (crashes' = 0 /\ up # {} => up' # {})
  <2>1. CASE Yields(q, p)
    <3> SUFFICES ASSUME crashes = 0
                 PROVE  (\A b \in beacons' : b[2] \in PTMs => \E r \in up' : b[1] <= r) /\ up' # {}
      BY <1>3 DEF GreaterRuns, BeaconAtPTM
    <3>1. PICK s \in up : p <= s
      <4>1. <<p, q>> \in beacons /\ <<p, q>>[1] = p /\ <<p, q>>[2] \in PTMs
        BY <1>3 DEF BeaconAtPTM
      <4> QED BY <4>1 DEF GreaterRuns
    <3>2. q < s /\ s \in up'
      BY <1>0, <1>3, <2>1, <3>1 DEF Yields, BeaconAtPTM
    <3>3. ASSUME NEW b \in beacons', b[2] \in PTMs PROVE \E r \in up' : b[1] <= r
      <4>0. beacons' \subseteq beacons
        BY <1>3, <2>1 DEF BeaconAtPTM
      <4>1. b \in beacons /\ b[1] \in Nat
        <5>1. b \in beacons /\ b \in PTMs \X (FrontEnds \cup PTMs)
          BY <1>0, <4>0
        <5>2. b[1] \in PTMs
          BY <5>1
        <5> QED BY Zenon, <1>0, <5>1, <5>2
      <4>2. PICK r \in up : b[1] <= r
        BY <3>3, <4>1 DEF GreaterRuns
      <4>3. CASE r = q
        <5>1. b[1] <= s
          BY <1>0, <3>2, <4>1, <4>2, <4>3
        <5> QED BY <3>2, <5>1
      <4>4. CASE r # q
        BY <1>3, <2>1, <4>2, <4>4 DEF BeaconAtPTM
      <4> QED BY <4>3, <4>4
    <3> QED BY <3>2, <3>3
  <2>2. CASE ~Yields(q, p)
    BY <1>1, <1>3, <2>2 DEF BeaconAtPTM
  <2> QED BY <2>1, <2>2
<1>4. ASSUME NEW p \in PTMs, Crash(p)
      PROVE  GreaterRuns' /\ (crashes' = 0 /\ up # {} => up' # {})
  <2>1. crashes' # 0
    BY <1>0, <1>4 DEF Crash
  <2> QED BY <2>1 DEF GreaterRuns
<1>5. ASSUME NEW b \in beacons, LoseBeacon(b)
      PROVE  GreaterRuns' /\ (crashes' = 0 /\ up # {} => up' # {})
  BY <1>1, <1>5 DEF LoseBeacon
<1>6. ASSUME NEW f \in FrontEnds, FrontEnd(f)
      PROVE  GreaterRuns' /\ (crashes' = 0 /\ up # {} => up' # {})
  <2>1. up \subseteq up' /\ crashes' = crashes /\ beacons' \subseteq beacons
    BY Zenon, <1>6 DEF FrontEnd, EvPTMLocationReceived, WillStartPTM, LoseAnnouncement,
       ConnectionThread, AskPTM, AskWrite, StartTimerFires, StartPTM, NoBeaconTimer
  <2> QED BY <1>1, <2>1
<1> QED BY <1>2, <1>3, <1>4, <1>5, <1>6 DEF LocNext, PTM

\* As long as none has crashed, a PTM that runs is only ever replaced by a
\* greater one (CompareBeacon, PTMBeaconHandler): however many PTMs are started
\* together and however their beacons are lost or delayed, one of them stays.
THEOREM ContestAlwaysLeavesOne == LocSpec => ContestLeavesOne
<1>0. LocationConstants
  BY LocationAssumption
<1>1. LocInit => LocTypeOK /\ GreaterRuns /\ StartsOne
  <2> SUFFICES ASSUME LocInit PROVE GreaterRuns
    BY <1>0, LocationInit
  <2>1. \A b \in beacons : b[2] \in FrontEnds
    BY DEF LocInit
  <2> QED BY <1>0, <2>1 DEF LocationConstants, GreaterRuns
<1>2. LocTypeOK /\ StartsOne /\ [LocNext]_locVars => (LocTypeOK /\ StartsOne)'
  BY <1>0, LocationStep
<1>3. LocTypeOK /\ GreaterRuns /\ [LocNext]_locVars => GreaterRuns'
  <2>1. CASE LocNext
    BY <1>0, <2>1, GreaterStep
  <2>2. CASE UNCHANGED locVars
    BY <2>2 DEF locVars, GreaterRuns
  <2> QED BY <2>1, <2>2
<1>4. LocTypeOK /\ GreaterRuns /\ [LocNext]_locVars => [crashes' = 0 /\ up # {} => up' # {}]_locVars
  BY <1>0, GreaterStep
<1> QED BY <1>1, <1>2, <1>3, <1>4, PTL DEF LocSpec, ContestLeavesOne
=============================================================================
