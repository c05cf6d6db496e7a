----------------------------- MODULE PTMProofs -----------------------------
(***************************************************************************)
(* Proofs about PTM, for any number of front ends, requests, distillers,   *)
(* types and launch records.                                               *)
(*                                                                         *)
(* The count of distillers and the ownership of launch records hold        *)
(* whatever front ends do.  That every request waits in one place holds as *)
(* long as a front end stays connected while it waits; it rests on what    *)
(* the other parts never do: a launch that is not pending has no waiting   *)
(* list, a frame of the wake-up loop that relaunches carries no request,   *)
(* and a request that was answered is left nowhere.                        *)
(***************************************************************************)
EXTENDS PTM, FiniteSetTheorems, SequenceTheorems, NaturalsInduction, WellFoundedInduction, TLAPS

(***************************************************************************)
(* A record that is not free has a type, and its count is right.           *)
(***************************************************************************)
RecordsOK ==
    \A l \in Records : launch[l].state # "free" =>
       launch[l].type \in Types /\ launch[l].active = Cardinality(Counted(l))

IInv == TypeOK /\ LaunchesOwnRecords /\ RecordsOK

(***************************************************************************)
(* Where requests are.  One that has no answer yet is in one entry of one  *)
(* waiting list or in one frame; any other is nowhere.                     *)
(***************************************************************************)
Waits(a) == InStack(a) = {} /\ \E l \in Records : \E i \in InList(a, l) :
               InList(a, l) = {i} /\ \A m \in Records \ {l} : InList(a, m) = {}
Runs(a) == (\E i \in InStack(a) : InStack(a) = {i}) /\ \A m \in Records : InList(a, m) = {}
Nowhere(a) == InStack(a) = {} /\ \A m \in Records : InList(a, m) = {}

WaitingOK ==
    /\ \A l \in Records : ~pending[l].on => pending[l].waitingList = << >>
    /\ \A l \in Records : \A i \in DOMAIN pending[l].waitingList :
          pending[l].waitingList[i] # Dangling
    /\ \A a \in Ask : IF a \in asks THEN Waits(a) \/ Runs(a) ELSE Nowhere(a)

WInv == undefined # "connection" /\ (undefined = "no" => WaitingOK)
-----------------------------------------------------------------------------
(***************************************************************************)
(* Does a DistillerRecord count for launch record l?                       *)
(***************************************************************************)
CountsFor(r, l) == r.state = "registered" /\ r.rec = l /\ r.sleep = "wake"

(***************************************************************************)
(* The count of a launch record after one DistillerRecord has changed.     *)
(***************************************************************************)
LEMMA CountedAfter ==
    ASSUME TypeOK, NEW d \in Distillers, NEW r, NEW l \in Records,
           dist' = [dist EXCEPT ![d] = r]
    PROVE  /\ Cardinality(Counted(l)) \in Nat
           /\ (CountsFor(r, l) <=> CountsFor(dist[d], l)) => Counted(l)' = Counted(l)
           /\ CountsFor(r, l) /\ ~CountsFor(dist[d], l) =>
                Cardinality(Counted(l)') = Cardinality(Counted(l)) + 1
           /\ ~CountsFor(r, l) /\ CountsFor(dist[d], l) =>
                /\ Cardinality(Counted(l)') = Cardinality(Counted(l)) - 1
                /\ Cardinality(Counted(l)) >= 1
<1>1. IsFiniteSet(Counted(l)) /\ Cardinality(Counted(l)) \in Nat
  <2>1. Counted(l) \subseteq Distillers
    BY DEF Counted, Registered
  <2>2. IsFiniteSet(Counted(l))
    BY <2>1, PTMConstants, FS_Subset
  <2> QED BY <2>2, FS_CardinalityType
<1>2. \A e \in Distillers : e \in Counted(l) <=> CountsFor(dist[e], l)
  BY DEF Counted, Registered, CountsFor
<1>3. \A e \in Distillers : e \in Counted(l)' <=> CountsFor(dist'[e], l)
  BY DEF Counted, Registered, CountsFor
<1>4. dist'[d] = r /\ \A e \in Distillers \ {d} : dist'[e] = dist[e]
  BY Zenon DEF TypeOK
<1>5. Counted(l) \subseteq Distillers /\ Counted(l)' \subseteq Distillers
  BY DEF Counted, Registered
<1>6. ASSUME CountsFor(r, l) <=> CountsFor(dist[d], l) PROVE Counted(l)' = Counted(l)
  <2>1. \A e \in Distillers : e \in Counted(l)' <=> e \in Counted(l)
    BY <1>2, <1>3, <1>4, <1>6, Zenon
  <2> QED BY <1>5, <2>1
<1>7. ASSUME CountsFor(r, l), ~CountsFor(dist[d], l)
      PROVE  Cardinality(Counted(l)') = Cardinality(Counted(l)) + 1
  <2>1. d \notin Counted(l) /\ Counted(l)' = Counted(l) \cup {d}
    <3>1. \A e \in Distillers : e \in Counted(l)' <=> e \in Counted(l) \/ e = d
      BY <1>2, <1>3, <1>4, <1>7, Zenon
    <3> QED BY <1>2, <1>5, <1>7, <3>1
  <2> QED BY Zenon, <1>1, <2>1, FS_AddElement
<1>8. ASSUME ~CountsFor(r, l), CountsFor(dist[d], l)
      PROVE  /\ Cardinality(Counted(l)') = Cardinality(Counted(l)) - 1
             /\ Cardinality(Counted(l)) >= 1
  <2>1. d \in Counted(l) /\ Counted(l)' = Counted(l) \ {d}
    <3>1. \A e \in Distillers : e \in Counted(l)' <=> e \in Counted(l) /\ e # d
      BY <1>2, <1>3, <1>4, <1>8, Zenon
    <3> QED BY <1>2, <1>5, <1>8, <3>1
  <2>2. Counted(l) # {}
    BY <2>1
  <2>3. Cardinality(Counted(l)) # 0
    BY <1>1, <2>2, FS_EmptySet
  <2>4. Cardinality(Counted(l)') = Cardinality(Counted(l)) - 1
    BY Zenon, <1>1, <2>1, FS_RemoveElement
  <2> QED BY <1>1, <2>3, <2>4
<1> QED BY <1>1, <1>6, <1>7, <1>8

(***************************************************************************)
(* Processes, records and the update of one of them have their types.      *)
(***************************************************************************)
LEMMA RecordTypes ==
    /\ \A s \in {"off", "started", "open", "registered"} : Process(s) \in Distiller
    /\ FreeRecord \in LaunchRecord /\ NotPending \in PendingLaunch
    /\ \A t \in Types : NewRecord(t) \in LaunchRecord
    /\ \A r \in LaunchRecord : /\ Recent(r) \in LaunchRecord
                               /\ WithoutPending(r) \in LaunchRecord
                               /\ Recent(r).state = r.state /\ Recent(r).type = r.type
                               /\ Recent(r).active = r.active
<1>1. \A s \in {"off", "started", "open", "registered"} : Process(s) \in Distiller
  BY DEF Process, Distiller, Status
<1>2. FreeRecord \in LaunchRecord /\ \A t \in Types : NewRecord(t) \in LaunchRecord
  BY DEF FreeRecord, NewRecord, LaunchRecord
<1>3. NotPending \in PendingLaunch
  BY DEF NotPending, PendingLaunch
<1>4. ASSUME NEW r \in LaunchRecord
      PROVE  /\ Recent(r) \in LaunchRecord /\ WithoutPending(r) \in LaunchRecord
             /\ Recent(r).state = r.state /\ Recent(r).type = r.type
             /\ Recent(r).active = r.active
  <2>1. /\ Recent(r).state = r.state /\ Recent(r).type = r.type
        /\ Recent(r).active = r.active
    BY DEF Recent, LaunchRecord
  <2>2. Recent(r) \in LaunchRecord
    BY Zenon DEF Recent, LaunchRecord
  <2> QED BY <1>2, <2>1, <2>2 DEF WithoutPending
<1> QED BY <1>1, <1>2, <1>3, <1>4

(***************************************************************************)
(* What the invariant says, for a step that has to keep it.                *)
(***************************************************************************)
LEMMA Kept ==
    ASSUME TypeOK',
           \A l \in Records :
              /\ pending'[l].on => launch'[l].state # "free"
              /\ launch'[l].state = "dying" => pending'[l].on
              /\ launch'[l].state # "free" =>
                    launch'[l].type \in Types /\ launch'[l].active = Cardinality(Counted(l)'),
           \A d \in Distillers : launchID'[d] # None => pending'[launchID'[d]].on
    PROVE  IInv'
BY DEF IInv, LaunchesOwnRecords, RecordsOK

(***************************************************************************)
(* The same facts before the step.                                         *)
(***************************************************************************)
LEMMA Given ==
    ASSUME IInv
    PROVE  /\ TypeOK
           /\ \A l \in Records :
                /\ pending[l].on => launch[l].state # "free"
                /\ launch[l].state = "dying" => pending[l].on
                /\ launch[l].state # "free" =>
                      launch[l].type \in Types /\ launch[l].active = Cardinality(Counted(l))
           /\ \A d \in Distillers : launchID[d] # None =>
                launchID[d] \in Records /\ pending[launchID[d]].on
<1>1. \A d \in Distillers : launchID[d] # None => launchID[d] \in Records
  BY Zenon DEF IInv, TypeOK
<1> QED BY <1>1 DEF IInv, LaunchesOwnRecords, RecordsOK

(***************************************************************************)
(* The process that a launch starts does not count yet.                    *)
(***************************************************************************)
LEMMA StartedKeeps ==
    ASSUME TypeOK, NEW l \in Records, Started(l)
    PROVE  /\ dist' \in [Distillers -> Distiller]
           /\ launchID' \in [Distillers -> Records \cup {None}]
           /\ \A m \in Records : Counted(m)' = Counted(m)
           /\ \A d \in Distillers : launchID'[d] = launchID[d] \/ launchID'[d] = l
<1>1. CASE UNCHANGED <<dist, launchID>>
  BY Zenon, <1>1 DEF TypeOK, Counted, Registered
<1>2. CASE \E d \in Distillers : /\ dist[d].state = "off"
                                 /\ dist' = [dist EXCEPT ![d] = Process("started")]
                                 /\ launchID' = [launchID EXCEPT ![d] = l]
  <2>1. PICK d \in Distillers : /\ dist[d].state = "off"
                                /\ dist' = [dist EXCEPT ![d] = Process("started")]
                                /\ launchID' = [launchID EXCEPT ![d] = l]
    BY Zenon, <1>2
  <2>2. \A m : ~CountsFor(dist[d], m) /\ ~CountsFor(Process("started"), m)
    BY <2>1 DEF CountsFor, Process
  <2>3. \A m \in Records : Counted(m)' = Counted(m)
    BY Zenon, <2>1, <2>2, CountedAfter
  <2>4. dist' \in [Distillers -> Distiller]
    BY Zenon, <2>1, RecordTypes DEF TypeOK
  <2>5. launchID' \in [Distillers -> Records \cup {None}]
    BY Zenon, <2>1 DEF TypeOK
  <2>6. \A e \in Distillers : launchID'[e] = launchID[e] \/ launchID'[e] = l
    BY Zenon, <2>1 DEF TypeOK
  <2> QED BY <2>3, <2>4, <2>5, <2>6
<1> QED BY <1>1, <1>2 DEF Started

(***************************************************************************)
(* The end of a pending launch: its record, if it must die, goes with it,  *)
(* and so do the ids of the processes that were started for it.            *)
(***************************************************************************)
LEMMA LaunchEnds ==
    ASSUME IInv, NEW p \in Records, pending[p].on,
           NEW counted \in [Records -> LaunchRecord],
           \A l \in Records : /\ counted[l].state = launch[l].state
                              /\ counted[l].type = launch[l].type
                              /\ counted[l].state # "free" =>
                                    counted[l].active = Cardinality(Counted(l)'),
           pending' = [pending EXCEPT ![p] = NotPending],
           launch' = [counted EXCEPT ![p] = WithoutPending(@)],
           launchID' = ForgetID(p),
           dist' \in [Distillers -> Distiller],
           conn' \subseteq FrontEnds, asks' \subseteq Ask,
           negative' \subseteq FrontEnds \X Types, stack' \in Seq(Frame),
           undefined' \in {"no", "connection", "launch record", "distiller record"}
    PROVE  IInv'
<1>0. /\ pending \in [Records -> PendingLaunch]
      /\ launchID \in [Distillers -> Records \cup {None}]
  BY Zenon, Given DEF TypeOK
<1>g. /\ \A l \in Records : /\ pending[l].on => launch[l].state # "free"
                            /\ launch[l].state = "dying" => pending[l].on
                            /\ launch[l].state # "free" => launch[l].type \in Types
      /\ \A d \in Distillers : launchID[d] # None =>
           launchID[d] \in Records /\ pending[launchID[d]].on
  BY Zenon, Given
<1>1. pending' \in [Records -> PendingLaunch]
  BY Zenon, <1>0, RecordTypes
<1>2. launch' \in [Records -> LaunchRecord]
  BY Zenon, RecordTypes
<1>3. /\ launchID' \in [Distillers -> Records \cup {None}]
      /\ \A d \in Distillers : launchID'[d] # None => launchID'[d] = launchID[d] /\ launchID'[d] # p
  BY Zenon, <1>0 DEF ForgetID
<1>4. TypeOK'
  BY Zenon, <1>1, <1>2, <1>3 DEF TypeOK
<1>5. /\ ~pending'[p].on /\ \A l \in Records \ {p} : pending'[l] = pending[l]
  BY Zenon, <1>0 DEF NotPending
<1>6. /\ launch'[p] = WithoutPending(counted[p])
      /\ \A l \in Records \ {p} : launch'[l] = counted[l]
  BY Zenon
<1>7. launch'[p].state # "dying" /\ (launch'[p].state # "free" => launch'[p] = counted[p])
  BY Zenon, <1>6 DEF WithoutPending, FreeRecord
<1>8. ASSUME NEW l \in Records
      PROVE  /\ pending'[l].on => launch'[l].state # "free"
             /\ launch'[l].state = "dying" => pending'[l].on
             /\ launch'[l].state # "free" =>
                   launch'[l].type \in Types /\ launch'[l].active = Cardinality(Counted(l)')
  <2>1. CASE l = p
    BY Zenon, <1>5, <1>7, <1>g, <2>1
  <2>2. CASE l # p
    <3>1. pending'[l] = pending[l] /\ launch'[l] = counted[l]
      BY Zenon, <1>5, <1>6, <2>2
    <3>2. counted[l].state = launch[l].state /\ counted[l].type = launch[l].type
      BY Zenon
    <3>3. counted[l].state # "free" => counted[l].active = Cardinality(Counted(l)')
      BY Zenon
    <3> QED BY Zenon, <1>g, <3>1, <3>2, <3>3
  <2> QED BY Zenon, <2>1, <2>2
<1>9. \A d \in Distillers : launchID'[d] # None => pending'[launchID'[d]].on
  <2> SUFFICES ASSUME NEW d \in Distillers, launchID'[d] # None
               PROVE  pending'[launchID'[d]].on
    BY Zenon
  <2>1. launchID'[d] = launchID[d] /\ launchID[d] \in Records \ {p}
    BY Zenon, <1>3, <1>g
  <2>2. pending[launchID[d]].on
    BY Zenon, <1>g, <2>1
  <2>3. pending'[launchID[d]] = pending[launchID[d]]
    BY Zenon, <1>5, <2>1
  <2> QED BY Zenon, <2>1, <2>2, <2>3
<1> QED BY Zenon, <1>4, <1>8, <1>9, Kept

(***************************************************************************)
(* A step that leaves distillers, ids and which launches are pending       *)
(* alone, and changes at most when records were last launched.             *)
(***************************************************************************)
LEMMA QuietStep ==
    ASSUME IInv, UNCHANGED launchID, \A m \in Records : Counted(m)' = Counted(m),
           launch' \in [Records -> LaunchRecord],
           \A l \in Records : /\ launch'[l].state = launch[l].state
                              /\ launch'[l].type = launch[l].type
                              /\ launch'[l].active = launch[l].active,
           pending' \in [Records -> PendingLaunch],
           \A l \in Records : pending'[l].on = pending[l].on,
           dist' \in [Distillers -> Distiller],
           conn' \subseteq FrontEnds, asks' \subseteq Ask,
           negative' \subseteq FrontEnds \X Types, stack' \in Seq(Frame),
           undefined' \in {"no", "connection", "launch record", "distiller record"}
    PROVE  IInv'
<1>g. /\ \A l \in Records :
           /\ pending[l].on => launch[l].state # "free"
           /\ launch[l].state = "dying" => pending[l].on
           /\ launch[l].state # "free" =>
                 launch[l].type \in Types /\ launch[l].active = Cardinality(Counted(l))
      /\ \A d \in Distillers : launchID[d] # None =>
           launchID[d] \in Records /\ pending[launchID[d]].on
  BY Zenon, Given
<1>1. TypeOK'
  BY Zenon, Given DEF TypeOK
<1>2. ASSUME NEW l \in Records
      PROVE  /\ pending'[l].on => launch'[l].state # "free"
             /\ launch'[l].state = "dying" => pending'[l].on
             /\ launch'[l].state # "free" =>
                   launch'[l].type \in Types /\ launch'[l].active = Cardinality(Counted(l)')
  BY Zenon, <1>g
<1>3. \A d \in Distillers : launchID'[d] # None => pending'[launchID'[d]].on
  BY Zenon, <1>g
<1> QED BY Zenon, <1>1, <1>2, <1>3, Kept

(***************************************************************************)
(* Another waiting list.                                                   *)
(***************************************************************************)
LEMMA ListChanged ==
    ASSUME pending \in [Records -> PendingLaunch], NEW l \in Records,
           NEW w \in Seq(Ask \cup {None, Dangling}),
           pending' = [pending EXCEPT ![l].waitingList = w]
    PROVE  /\ pending' \in [Records -> PendingLaunch]
           /\ \A m \in Records : pending'[m].on = pending[m].on
           /\ pending'[l].waitingList = w
           /\ \A m \in Records \ {l} : pending'[m] = pending[m]
<1>1. pending[l] \in PendingLaunch
  OBVIOUS
<1>2. /\ [pending[l] EXCEPT !.waitingList = w] \in PendingLaunch
      /\ [pending[l] EXCEPT !.waitingList = w].on = pending[l].on
      /\ [pending[l] EXCEPT !.waitingList = w].waitingList = w
  BY Zenon, <1>1 DEF PendingLaunch
<1>3. pending' = [pending EXCEPT ![l] = [pending[l] EXCEPT !.waitingList = w]]
  OBVIOUS
<1> QED BY <1>2, <1>3

(***************************************************************************)
(* A request joins a launch, or starts one, or is answered at once.        *)
(***************************************************************************)
LEMMA Joined ==
    ASSUME TypeOK, NEW l \in Records, NEW a \in Ask \cup {None}, JoinLaunch(l, a)
    PROVE  \E w \in Seq(Ask \cup {None, Dangling}) :
              /\ pending' = [pending EXCEPT ![l].waitingList = w]
              /\ \/ a = None /\ w = pending[l].waitingList
                 \/ w = <<a>> \o pending[l].waitingList
<1> DEFINE W == Seq(Ask \cup {None, Dangling})
           old == pending[l].waitingList
           w == IF a = None /\ Head(old) = None THEN old ELSE <<a>> \o old
<1>1. pending \in [Records -> PendingLaunch] /\ pending[l] \in PendingLaunch
  BY Zenon DEF TypeOK
<1>2. old \in W
  BY <1>1 DEF PendingLaunch
<1>3. <<a>> \in W
  OBVIOUS
<1>4. <<a>> \o old \in W
  BY <1>2, <1>3, ConcatProperties
<1>5. pending' = [pending EXCEPT ![l].waitingList = w]
  BY <1>1 DEF JoinLaunch
<1> QED BY Zenon, <1>2, <1>4, <1>5

(***************************************************************************)
(* A launch that starts, is joined or cannot be started.                   *)
(***************************************************************************)
LEMMA TryToLaunchKeeps ==
    ASSUME IInv, NEW t \in Types, NEW a \in Ask \cup {None}, TryToLaunch(t, a),
           UNCHANGED <<conn, undefined>>, stack' \in Seq(Frame)
    PROVE  IInv'
<1>0. /\ dist \in [Distillers -> Distiller] /\ launch \in [Records -> LaunchRecord]
      /\ pending \in [Records -> PendingLaunch] /\ conn' \subseteq FrontEnds
      /\ asks \subseteq Ask /\ negative \subseteq FrontEnds \X Types
      /\ undefined' \in {"no", "connection", "launch record", "distiller record"}
  BY Zenon, Given DEF TypeOK
<1>1. CASE NoDistiller(a)
  <2>1. asks' \subseteq Ask
    BY Zenon, <1>0, <1>1 DEF NoDistiller
  <2>2. negative' \subseteq FrontEnds \X Types
    <3>1. a # None => <<a.conn, a.type>> \in FrontEnds \X Types
      BY DEF Ask
    <3> QED BY Zenon, <1>0, <1>1, <3>1 DEF NoDistiller
  <2>3. /\ UNCHANGED <<dist, launchID, launch, pending>>
        /\ \A m \in Records : Counted(m)' = Counted(m)
    BY <1>1 DEF NoDistiller, Counted, Registered
  <2> QED BY Zenon, <1>0, <2>1, <2>2, <2>3, QuietStep
<1>2. ASSUME NEW l \in Records, JoinLaunch(l, a) PROVE IInv'
  <2>1. PICK w \in Seq(Ask \cup {None, Dangling}) :
           pending' = [pending EXCEPT ![l].waitingList = w]
    BY Zenon, <1>2, Joined, Given
  <2>2. /\ pending' \in [Records -> PendingLaunch]
        /\ \A m \in Records : pending'[m].on = pending[m].on
    BY Zenon, <1>0, <2>1, ListChanged
  <2>3. /\ UNCHANGED <<dist, launchID, launch, asks, negative>>
        /\ \A m \in Records : Counted(m)' = Counted(m)
    BY <1>2 DEF JoinLaunch, Counted, Registered
  <2> QED BY Zenon, <1>0, <2>2, <2>3, QuietStep
<1>3. ASSUME NEW l \in Records, launch[l].state = "listed", NewLaunch(l, a) PROVE IInv'
  <2>1. /\ launch' \in [Records -> LaunchRecord]
        /\ \A m \in Records : /\ launch'[m].state = launch[m].state
                              /\ launch'[m].type = launch[m].type
                              /\ launch'[m].active = launch[m].active
    BY Zenon, <1>0, <1>3, RecordTypes DEF NewLaunch
  <2>2. CASE asks' = asks \ {a} /\ UNCHANGED <<pending, dist, launchID>>
    <3>1. asks' \subseteq Ask /\ negative' \subseteq FrontEnds \X Types
      BY Zenon, <1>0, <1>3, <2>2 DEF NewLaunch
    <3>2. \A m \in Records : Counted(m)' = Counted(m)
      BY <2>2 DEF Counted, Registered
    <3> QED BY Zenon, <1>0, <2>1, <2>2, <3>1, <3>2, QuietStep
  <2>3. CASE /\ pending' = [pending EXCEPT ![l] = [on |-> TRUE, countOfTimeouts |-> 0,
                                                   waitingList |-> <<a>>]]
             /\ Started(l) /\ UNCHANGED asks
    <3>1. [on |-> TRUE, countOfTimeouts |-> 0, waitingList |-> <<a>>] \in PendingLaunch
      BY DEF PendingLaunch
    <3>2. /\ pending' \in [Records -> PendingLaunch] /\ pending'[l].on
          /\ \A m \in Records \ {l} : pending'[m] = pending[m]
      BY Zenon, <1>0, <2>3, <3>1
    <3>3. /\ dist' \in [Distillers -> Distiller]
          /\ launchID' \in [Distillers -> Records \cup {None}]
          /\ \A m \in Records : Counted(m)' = Counted(m)
          /\ \A d \in Distillers : launchID'[d] = launchID[d] \/ launchID'[d] = l
      BY <2>3, StartedKeeps, Given
    <3>4. TypeOK'
      BY Zenon, <1>0, <1>3, <2>1, <2>3, <3>2, <3>3 DEF TypeOK, NewLaunch
    <3>5. ASSUME NEW m \in Records
          PROVE  /\ pending'[m].on => launch'[m].state # "free"
                 /\ launch'[m].state = "dying" => pending'[m].on
                 /\ launch'[m].state # "free" =>
                      launch'[m].type \in Types /\ launch'[m].active = Cardinality(Counted(m)')
      <4>1. /\ pending[m].on => launch[m].state # "free"
            /\ launch[m].state = "dying" => pending[m].on
            /\ launch[m].state # "free" =>
                 launch[m].type \in Types /\ launch[m].active = Cardinality(Counted(m))
        BY Given
      <4>2. CASE m = l
        BY <1>3, <2>1, <3>2, <3>3, <4>1, <4>2
      <4>3. CASE m # l
        BY <2>1, <3>2, <3>3, <4>1, <4>3
      <4> QED BY <4>2, <4>3
    <3>6. \A d \in Distillers : launchID'[d] # None => pending'[launchID'[d]].on
      <4> SUFFICES ASSUME NEW d \in Distillers, launchID'[d] # None
                   PROVE  pending'[launchID'[d]].on
        OBVIOUS
      <4>1. CASE launchID'[d] = l
        BY <3>2, <4>1
      <4>2. CASE launchID'[d] = launchID[d] /\ launchID[d] # l
        <5>1. launchID[d] \in Records \ {l} /\ pending[launchID[d]].on
          BY <4>2, Given
        <5> QED BY <3>2, <4>2, <5>1
      <4> QED BY <3>3, <4>1, <4>2
    <3> QED BY <3>4, <3>5, <3>6, Kept
  <2> QED BY <1>3, <2>2, <2>3 DEF NewLaunch
<1>4. \A l \in Matching(t) : l \in Records /\ launch[l].state = "listed"
  BY DEF Matching, Listed
<1> QED BY <1>1, <1>2, <1>3, <1>4 DEF TryToLaunch

(***************************************************************************)
(* The timer of a pending launch.                                          *)
(***************************************************************************)
LEMMA LaunchTimeoutKeeps ==
    ASSUME IInv, NEW l \in Records, LaunchTimeout(l)
    PROVE  IInv'
<1>0. /\ TypeOK /\ dist \in [Distillers -> Distiller] /\ launch \in [Records -> LaunchRecord]
      /\ pending \in [Records -> PendingLaunch] /\ conn' \subseteq FrontEnds
      /\ asks \subseteq Ask /\ negative' \subseteq FrontEnds \X Types
      /\ stack' \in Seq(Frame) /\ pending[l].on
  BY Zenon, Given DEF TypeOK, LaunchTimeout
<1>1. CASE LaunchFailed(l)
  <2> DEFINE counted == [launch EXCEPT ![l] = Recent(@)]
  <2>1. /\ counted \in [Records -> LaunchRecord]
        /\ \A m \in Records : /\ counted[m].state = launch[m].state
                              /\ counted[m].type = launch[m].type
                              /\ counted[m].active = launch[m].active
    BY <1>0, RecordTypes
  <2>2. launch' = [counted EXCEPT ![l] = WithoutPending(@)]
    BY Zenon, <1>0, <1>1 DEF LaunchFailed
  <2>3. dist' \in [Distillers -> Distiller] /\ \A m \in Records : Counted(m)' = Counted(m)
    BY <1>0, <1>1 DEF LaunchFailed, Counted, Registered
  <2>4. /\ asks' \subseteq Ask
        /\ undefined' \in {"no", "connection", "launch record", "distiller record"}
    BY <1>0, <1>1 DEF LaunchFailed, ReplyToAll
  <2>5. \A m \in Records : launch[m].state # "free" => launch[m].active = Cardinality(Counted(m))
    BY Given
  <2>6. /\ pending' = [pending EXCEPT ![l] = NotPending]
        /\ launchID' = ForgetID(l)
    BY <1>1 DEF LaunchFailed
  <2> HIDE DEF counted
  <2>7. \A m \in Records : /\ counted[m].state = launch[m].state
                           /\ counted[m].type = launch[m].type
                           /\ counted[m].state # "free" =>
                                 counted[m].active = Cardinality(Counted(m)')
    BY <2>1, <2>3, <2>5
  <2> QED BY Zenon, <1>0, <2>1, <2>2, <2>3, <2>4, <2>6, <2>7, LaunchEnds
<1>2. CASE /\ pending' = [pending EXCEPT ![l].countOfTimeouts = TimeoutCount(l)]
           /\ launch' = [launch EXCEPT ![l] = Recent(@)]
           /\ Started(l)
           /\ UNCHANGED <<asks, undefined>>
  <2>1. /\ launch' \in [Records -> LaunchRecord]
        /\ \A m \in Records : /\ launch'[m].state = launch[m].state
                              /\ launch'[m].type = launch[m].type
                              /\ launch'[m].active = launch[m].active
    BY <1>0, <1>2, RecordTypes
  <2>2. /\ pending' \in [Records -> PendingLaunch]
        /\ \A m \in Records : pending'[m].on = pending[m].on
    <3>1. pending[l] \in PendingLaunch /\ TimeoutCount(l) \in Nat
      BY <1>0 DEF TimeoutCount, PendingLaunch
    <3>2. /\ [pending[l] EXCEPT !.countOfTimeouts = TimeoutCount(l)] \in PendingLaunch
          /\ [pending[l] EXCEPT !.countOfTimeouts = TimeoutCount(l)].on = pending[l].on
      BY <3>1 DEF PendingLaunch
    <3>3. pending' = [pending EXCEPT ![l] =
                        [pending[l] EXCEPT !.countOfTimeouts = TimeoutCount(l)]]
      BY <1>2
    <3> QED BY <1>0, <3>2, <3>3
  <2>3. /\ dist' \in [Distillers -> Distiller]
        /\ launchID' \in [Distillers -> Records \cup {None}]
        /\ \A m \in Records : Counted(m)' = Counted(m)
        /\ \A d \in Distillers : launchID'[d] = launchID[d] \/ launchID'[d] = l
    BY <1>0, <1>2, StartedKeeps
  <2>4. TypeOK'
    BY Zenon, <1>0, <1>2, <2>1, <2>2, <2>3 DEF TypeOK
  <2>5. ASSUME NEW m \in Records
        PROVE  /\ pending'[m].on => launch'[m].state # "free"
               /\ launch'[m].state = "dying" => pending'[m].on
               /\ launch'[m].state # "free" =>
                    launch'[m].type \in Types /\ launch'[m].active = Cardinality(Counted(m)')
    <3>1. /\ pending[m].on => launch[m].state # "free"
          /\ launch[m].state = "dying" => pending[m].on
          /\ launch[m].state # "free" =>
               launch[m].type \in Types /\ launch[m].active = Cardinality(Counted(m))
      BY Given
    <3> QED BY <2>1, <2>2, <2>3, <3>1
  <2>6. \A d \in Distillers : launchID'[d] # None => pending'[launchID'[d]].on
    <3> SUFFICES ASSUME NEW d \in Distillers, launchID'[d] # None
                 PROVE  pending'[launchID'[d]].on
      OBVIOUS
    <3>1. launchID'[d] \in Records /\ pending[launchID'[d]].on
      BY <1>0, <2>3, Given
    <3> QED BY <2>2, <3>1
  <2> QED BY <2>4, <2>5, <2>6, Kept
<1> QED BY <1>1, <1>2 DEF LaunchTimeout

(***************************************************************************)
(* A DistillerRecord that does not count, before or after, is replaced.    *)
(***************************************************************************)
LEMMA Uncounted ==
    ASSUME TypeOK, NEW d \in Distillers, NEW s \in {"off", "started", "open"},
           dist[d].state # "registered" \/ dist[d].sleep # "wake",
           dist' = [dist EXCEPT ![d] = Process(s)]
    PROVE  dist' \in [Distillers -> Distiller] /\ \A m \in Records : Counted(m)' = Counted(m)
<1>1. \A m : ~CountsFor(dist[d], m) /\ ~CountsFor(Process(s), m)
  BY DEF CountsFor, Process
<1>2. \A m \in Records : Counted(m)' = Counted(m)
  BY Zenon, <1>1, CountedAfter
<1>3. Process(s) \in Distiller
  BY RecordTypes
<1> QED BY Zenon, <1>2, <1>3 DEF TypeOK

(***************************************************************************)
(* A process loses its id: QuietStep holds as well.                        *)
(***************************************************************************)
LEMMA IDForgotten ==
    ASSUME IInv, NEW d \in Distillers, launchID' = [launchID EXCEPT ![d] = None],
           \A m \in Records : Counted(m)' = Counted(m), dist' \in [Distillers -> Distiller],
           UNCHANGED <<conn, launch, pending, asks, negative>>, stack' \in Seq(Frame),
           undefined' \in {"no", "connection", "launch record", "distiller record"}
    PROVE  IInv'
<1>1. launchID \in [Distillers -> Records \cup {None}]
  BY Zenon, Given DEF TypeOK
<1>2. /\ launchID' \in [Distillers -> Records \cup {None}]
      /\ \A e \in Distillers : launchID'[e] # None => launchID'[e] = launchID[e]
  BY Zenon, <1>1
<1>3. TypeOK'
  BY Zenon, <1>2, Given DEF TypeOK
<1>4. \A l \in Records :
         /\ pending'[l].on => launch'[l].state # "free"
         /\ launch'[l].state = "dying" => pending'[l].on
         /\ launch'[l].state # "free" =>
               launch'[l].type \in Types /\ launch'[l].active = Cardinality(Counted(l)')
  BY Zenon, Given
<1>5. \A e \in Distillers : launchID'[e] # None => pending'[launchID'[e]].on
  <2> SUFFICES ASSUME NEW e \in Distillers, launchID'[e] # None
               PROVE  pending'[launchID'[e]].on
    BY Zenon
  <2>1. launchID[e] # None /\ launchID'[e] = launchID[e]
    BY Zenon, <1>2
  <2>2. pending[launchID[e]].on
    BY Zenon, <2>1, Given
  <2> QED BY Zenon, <2>1, <2>2
<1> QED BY Zenon, <1>3, <1>4, <1>5, Kept

(***************************************************************************)
(* The stack of calls of WakeSleepingDistiller.                            *)
(***************************************************************************)
Again == [stack EXCEPT ![Len(stack)].tried = TRUE]

(***************************************************************************)
(* The frames of the wake-up loop have their type.                         *)
(***************************************************************************)
LEMMA StackTypes ==
    ASSUME stack \in Seq(Frame), stack # << >>
    PROVE  /\ Len(stack) \in Nat \ {0} /\ Top \in Frame
           /\ Pop \in Seq(Frame) /\ Len(Pop) = Len(stack) - 1
           /\ \A i \in 1 .. Len(stack) - 1 : Pop[i] = stack[i]
           /\ Again \in Seq(Frame) /\ Len(Again) = Len(stack)
           /\ \A i \in 1 .. Len(stack) : Again[i].ask = stack[i].ask
<1>1. Len(stack) \in Nat \ {0} /\ Top \in Frame
  BY DEF Top
<1>2. /\ Pop \in Seq(Frame) /\ Len(Pop) = Len(stack) - 1
      /\ \A i \in 1 .. Len(stack) - 1 : Pop[i] = stack[i]
  <2> DEFINE n == Len(stack) - 1
  <2>1. 1 \in 1 .. Len(stack) + 1 /\ n \in 1 - 1 .. Len(stack) /\ n \in Nat
    BY <1>1
  <2> HIDE DEF n
  <2>2. /\ SubSeq(stack, 1, n) \in Seq(Frame)
        /\ Len(SubSeq(stack, 1, n)) = (IF 1 <= n THEN n - 1 + 1 ELSE 0)
        /\ \A i \in 1 .. n - 1 + 1 : SubSeq(stack, 1, n)[i] = stack[1 + i - 1]
    BY <2>1, SubSeqProperties
  <2>3. /\ Len(SubSeq(stack, 1, n)) = n
        /\ \A i \in 1 .. n : SubSeq(stack, 1, n)[i] = stack[i]
    BY <2>1, <2>2
  <2> QED BY <2>2, <2>3 DEF Pop, n
<1>3. stack \in [1 .. Len(stack) -> Frame]
  OBVIOUS
<1>4. /\ [Top EXCEPT !.tried = TRUE] \in Frame
      /\ [Top EXCEPT !.tried = TRUE].ask = Top.ask
  BY Zenon, <1>1 DEF Frame
<1>5. Again = [stack EXCEPT ![Len(stack)] = [Top EXCEPT !.tried = TRUE]]
  BY <1>1 DEF Again, Top
<1>6. Again \in Seq(Frame) /\ Len(Again) = Len(stack)
  BY <1>1, <1>4, <1>5
<1>7. \A i \in 1 .. Len(stack) : Again[i].ask = stack[i].ask
  BY <1>1, <1>3, <1>4, <1>5 DEF Top
<1> QED BY <1>1, <1>2, <1>6, <1>7

(***************************************************************************)
(* A frame that relaunches carries no request.                             *)
(***************************************************************************)
LEMMA RelaunchTypes ==
    ASSUME NEW s \in Seq(Frame), NEW l \in Records, launch[l].type \in Types
    PROVE  /\ RelaunchOn(s, l) \in Seq(Frame) /\ Len(RelaunchOn(s, l)) = Len(s) + 1
           /\ \A i \in 1 .. Len(s) : RelaunchOn(s, l)[i] = s[i]
           /\ RelaunchOn(s, l)[Len(s) + 1].ask = None
<1>1. /\ Wake(launch[l].type, None, l) \in Frame
      /\ Wake(launch[l].type, None, l).ask = None
  BY DEF Wake, Frame
<1> QED BY <1>1, AppendProperties DEF RelaunchOn

(***************************************************************************)
(* CountUp and CountDown move the count of one record by one.              *)
(***************************************************************************)
LEMMA CountMoves ==
    ASSUME TypeOK, NEW l \in Records \cup {None}
    PROVE  /\ CountUp(l) \in [Records -> LaunchRecord]
           /\ \A m \in Records :
                /\ CountUp(l)[m].state = launch[m].state /\ CountUp(l)[m].type = launch[m].type
                /\ l # m => CountUp(l)[m].active = launch[m].active
                /\ l = m => CountUp(l)[m].active = launch[m].active + 1
           /\ (l # None => launch[l].active >= 1) =>
                /\ CountDown(l) \in [Records -> LaunchRecord]
                /\ \A m \in Records :
                     /\ CountDown(l)[m].state = launch[m].state
                     /\ CountDown(l)[m].type = launch[m].type
                     /\ l # m => CountDown(l)[m].active = launch[m].active
                     /\ l = m => CountDown(l)[m].active = launch[m].active - 1
<1>0. launch \in [Records -> LaunchRecord]
  BY Zenon DEF TypeOK
<1>1. CASE l = None
  BY <1>0, <1>1, PTMConstants DEF CountUp, CountDown
<1>2. CASE l # None
  <2>1. l \in Records /\ launch[l] \in LaunchRecord
    BY <1>0, <1>2
  <2>2. launch[l].active \in Nat
    BY <2>1 DEF LaunchRecord
  <2>3. ASSUME NEW n \in Nat
        PROVE  LET v == [launch[l] EXCEPT !.active = n]
               IN  /\ v \in LaunchRecord /\ v.state = launch[l].state
                   /\ v.type = launch[l].type /\ v.active = n
    BY <2>1 DEF LaunchRecord
  <2>4. ASSUME NEW n \in Nat, NEW c, c = [launch EXCEPT ![l] = [launch[l] EXCEPT !.active = n]]
        PROVE  /\ c \in [Records -> LaunchRecord]
               /\ \A m \in Records :
                    /\ c[m].state = launch[m].state /\ c[m].type = launch[m].type
                    /\ l # m => c[m].active = launch[m].active
                    /\ l = m => c[m].active = n
    <3> DEFINE v == [launch[l] EXCEPT !.active = n]
    <3>1. /\ v \in LaunchRecord /\ v.state = launch[l].state
          /\ v.type = launch[l].type /\ v.active = n
      BY <2>3
    <3>2. c = [launch EXCEPT ![l] = v]
      BY <2>4
    <3> HIDE DEF v
    <3> QED BY <1>0, <2>1, <3>1, <3>2
  <2>5. CountUp(l) = [launch EXCEPT ![l] = [launch[l] EXCEPT !.active = launch[l].active + 1]]
    BY <1>2 DEF CountUp
  <2>6. CountDown(l) = [launch EXCEPT ![l] = [launch[l] EXCEPT !.active = launch[l].active - 1]]
    BY <1>2 DEF CountDown
  <2> DEFINE u == launch[l].active + 1
             w == launch[l].active - 1
  <2>7. u \in Nat /\ (launch[l].active >= 1 => w \in Nat)
    BY <2>2
  <2>8. /\ CountUp(l) \in [Records -> LaunchRecord]
        /\ \A m \in Records :
             /\ CountUp(l)[m].state = launch[m].state /\ CountUp(l)[m].type = launch[m].type
             /\ l # m => CountUp(l)[m].active = launch[m].active
             /\ l = m => CountUp(l)[m].active = u
    <3> HIDE DEF u
    <3>1. CountUp(l) = [launch EXCEPT ![l] = [launch[l] EXCEPT !.active = u]]
      BY <2>5 DEF u
    <3> QED BY Zenon, <2>4, <2>7, <3>1
  <2>9. ASSUME launch[l].active >= 1
        PROVE  /\ CountDown(l) \in [Records -> LaunchRecord]
               /\ \A m \in Records :
                    /\ CountDown(l)[m].state = launch[m].state
                    /\ CountDown(l)[m].type = launch[m].type
                    /\ l # m => CountDown(l)[m].active = launch[m].active
                    /\ l = m => CountDown(l)[m].active = w
    <3> HIDE DEF w
    <3>1. CountDown(l) = [launch EXCEPT ![l] = [launch[l] EXCEPT !.active = w]]
      BY <2>6 DEF w
    <3>2. w \in Nat
      BY <2>7, <2>9
    <3>3. \A c : c = [launch EXCEPT ![l] = [launch[l] EXCEPT !.active = w]] =>
             /\ c \in [Records -> LaunchRecord]
             /\ \A m \in Records :
                  /\ c[m].state = launch[m].state /\ c[m].type = launch[m].type
                  /\ l # m => c[m].active = launch[m].active
                  /\ l = m => c[m].active = w
      BY Zenon, <2>4, <3>2
    <3> HIDE DEF CountDown
    <3> QED BY Zenon, <3>1, <3>3
  <2> QED BY <1>2, <2>8, <2>9
<1> QED BY <1>1, <1>2

(***************************************************************************)
(* A sleeper that is woken up counts from then on.                         *)
(***************************************************************************)
LEMMA WakeUpKeeps ==
    ASSUME IInv, NEW d \in Distillers, WakeUp(d)
    PROVE  IInv'
<1> DEFINE r == [dist[d] EXCEPT !.sleep = "wake"]
<1>0. /\ TypeOK /\ dist \in [Distillers -> Distiller] /\ launch \in [Records -> LaunchRecord]
      /\ pending \in [Records -> PendingLaunch] /\ asks \subseteq Ask
      /\ stack \in Seq(Frame) /\ stack # << >> /\ dist[d] \in Distiller
      /\ UNCHANGED <<conn, launchID, pending, negative>>
      /\ dist[d].state = "registered" /\ dist[d].sleep = "sleep"
      /\ dist' = [dist EXCEPT ![d] = r]
  BY Zenon, Given DEF TypeOK, WakeUp, Busy, Asleep, Registered
<1>1. /\ r \in Distiller /\ r.state = "registered" /\ r.sleep = "wake" /\ r.rec = dist[d].rec
      /\ dist[d].rec \in Records \cup {None}
  BY <1>0 DEF Distiller, Status
<1> HIDE DEF r
<1>2. dist' \in [Distillers -> Distiller]
  BY <1>0, <1>1
<1>3. \A m \in Records : /\ ~CountsFor(dist[d], m)
                         /\ CountsFor(r, m) <=> dist[d].rec = m
  BY <1>0, <1>1 DEF CountsFor
<1>4. \A m \in Records : /\ Cardinality(Counted(m)) \in Nat
                         /\ dist[d].rec # m => Counted(m)' = Counted(m)
                         /\ dist[d].rec = m =>
                              Cardinality(Counted(m)') = Cardinality(Counted(m)) + 1
  BY Zenon, <1>0, <1>3, CountedAfter
<1>5. /\ \A m \in Records :
           /\ pending[m].on => launch[m].state # "free"
           /\ launch[m].state = "dying" => pending[m].on
           /\ launch[m].state # "free" =>
                 launch[m].type \in Types /\ launch[m].active = Cardinality(Counted(m))
      /\ \A e \in Distillers : launchID'[e] # None => pending'[launchID'[e]].on
  <2>1. \A e \in Distillers : launchID[e] # None => pending[launchID[e]].on
    BY Given
  <2>2. \A e \in Distillers : launchID'[e] # None => pending'[launchID'[e]].on
    BY <1>0, <2>1
  <2> QED BY <2>2, Given
<1>6. CASE Deleted(d)
  <2>1. /\ UNCHANGED <<launch, asks, stack>>
        /\ undefined' = "launch record"
    BY Zenon, <1>6 DEF WakeUp
  <2>2. dist[d].rec \in Records /\ launch[dist[d].rec].state = "free"
    BY <1>1, <1>6 DEF Deleted
  <2>3. TypeOK'
    BY Zenon, <1>0, <1>2, <2>1 DEF TypeOK
  <2>4. \A m \in Records :
           /\ pending'[m].on => launch'[m].state # "free"
           /\ launch'[m].state = "dying" => pending'[m].on
           /\ launch'[m].state # "free" =>
                 launch'[m].type \in Types /\ launch'[m].active = Cardinality(Counted(m)')
    BY Zenon, <1>0, <1>4, <1>5, <2>1, <2>2
  <2> QED BY <1>5, <2>3, <2>4, Kept
<1>7. CASE ~Deleted(d)
  <2> DEFINE up == CountUp(dist[d].rec)
  <2>1. /\ launch' = (IF Top.rec = None THEN up ELSE [up EXCEPT ![Top.rec] = Recent(@)])
        /\ asks' = asks \ {Top.ask}
        /\ stack' = Pop
        /\ UNCHANGED undefined
    BY <1>7 DEF WakeUp
  <2>2. Top \in Frame /\ Pop \in Seq(Frame)
    BY <1>0, StackTypes
  <2>3. Top.rec \in Records \cup {None}
    BY <2>2 DEF Frame
  <2>4. /\ up \in [Records -> LaunchRecord]
        /\ \A m \in Records : /\ up[m].state = launch[m].state /\ up[m].type = launch[m].type
                              /\ dist[d].rec # m => up[m].active = launch[m].active
                              /\ dist[d].rec = m => up[m].active = launch[m].active + 1
    BY <1>0, <1>1, CountMoves
  <2> HIDE DEF up
  <2>5. /\ launch' \in [Records -> LaunchRecord]
        /\ \A m \in Records : /\ launch'[m].state = up[m].state /\ launch'[m].type = up[m].type
                              /\ launch'[m].active = up[m].active
    BY <2>1, <2>3, <2>4, RecordTypes
  <2>6. TypeOK'
    BY Zenon, <1>0, <1>2, <2>1, <2>2, <2>5 DEF TypeOK
  <2>7. ASSUME NEW m \in Records
        PROVE  /\ pending'[m].on => launch'[m].state # "free"
               /\ launch'[m].state = "dying" => pending'[m].on
               /\ launch'[m].state # "free" =>
                    launch'[m].type \in Types /\ launch'[m].active = Cardinality(Counted(m)')
    <3>1. /\ pending'[m].on => launch'[m].state # "free"
          /\ launch'[m].state = "dying" => pending'[m].on
      BY <1>0, <1>5, <2>4, <2>5
    <3>2. launch'[m].state # "free" =>
             launch'[m].type \in Types /\ launch'[m].active = Cardinality(Counted(m)')
      BY <1>4, <1>5, <2>4, <2>5
    <3> QED BY <3>1, <3>2
  <2> QED BY <1>5, <2>6, <2>7, Kept
<1> QED BY <1>6, <1>7

(***************************************************************************)
(* A sleeper that cannot be told to wake up was not counted.               *)
(***************************************************************************)
LEMMA WakeUpFailsKeeps ==
    ASSUME IInv, NEW d \in Distillers, WakeUpFails(d)
    PROVE  IInv'
<1>0. /\ TypeOK /\ stack \in Seq(Frame) /\ stack # << >> /\ dist[d] \in Distiller
      /\ undefined = "no"
      /\ dist[d].sleep # "wake"
      /\ dist' = [dist EXCEPT ![d] = Process("off")]
      /\ launchID' = [launchID EXCEPT ![d] = None]
      /\ UNCHANGED <<conn, launch, pending, asks, negative>>
  BY Zenon, Given DEF TypeOK, WakeUpFails, Busy, Asleep
<1>1. dist' \in [Distillers -> Distiller] /\ \A m \in Records : Counted(m)' = Counted(m)
  BY Zenon, <1>0, Uncounted
<1>2. Again \in Seq(Frame)
  BY <1>0, StackTypes
<1>3. /\ stack' \in Seq(Frame)
      /\ undefined' \in {"no", "connection", "launch record", "distiller record"}
  <2>1. CASE stack' = Again /\ UNCHANGED undefined
    BY <1>0, <1>2, <2>1
  <2>2. CASE undefined' = "launch record" /\ UNCHANGED stack
    BY Zenon, <1>0, <2>2
  <2>3. CASE /\ dist[d].rec # None /\ ~Deleted(d)
             /\ stack' = RelaunchOn(Again, dist[d].rec) /\ UNCHANGED undefined
    <3>1. dist[d].rec \in Records
      BY <1>0, <2>3 DEF Distiller
    <3>2. launch[dist[d].rec].type \in Types
      BY <2>3, <3>1, Given DEF Deleted
    <3>3. stack' \in Seq(Frame)
      BY <1>2, <2>3, <3>1, <3>2, RelaunchTypes
    <3> QED BY <1>0, <2>3, <3>3
  <2> QED BY Zenon, <2>1, <2>2, <2>3 DEF WakeUpFails, Again
<1> QED BY Zenon, <1>0, <1>1, <1>3, IDForgotten

(***************************************************************************)
(* The end of the wake-up loop is TryToLaunch.                             *)
(***************************************************************************)
LEMMA NobodyAsleepKeeps ==
    ASSUME IInv, NobodyAsleep
    PROVE  IInv'
<1>1. stack \in Seq(Frame) /\ stack # << >>
  BY Given DEF TypeOK, NobodyAsleep, Busy
<1>2. Top \in Frame /\ Pop \in Seq(Frame)
  BY <1>1, StackTypes
<1>3. Top.type \in Types /\ Top.ask \in Ask \cup {None}
  BY <1>2 DEF Frame
<1> QED BY <1>2, <1>3, TryToLaunchKeeps DEF NobodyAsleep

(***************************************************************************)
(* Steps that change none of the records, counts and ids.                  *)
(***************************************************************************)
LEMMA OtherKeeps ==
    ASSUME IInv, UNCHANGED <<dist, launchID, launch, pending>>, conn' \subseteq FrontEnds,
           asks' \subseteq Ask, negative' \subseteq FrontEnds \X Types,
           stack' \in Seq(Frame),
           undefined' \in {"no", "connection", "launch record", "distiller record"}
    PROVE  IInv'
<1>1. \A m \in Records : Counted(m)' = Counted(m)
  BY Zenon DEF Counted, Registered
<1> QED BY Zenon, <1>1, QuietStep, Given DEF TypeOK

(***************************************************************************)
(* A front end that connects or asks changes no record.                    *)
(***************************************************************************)
LEMMA FrontEndKeeps ==
    ASSUME IInv, NEW f \in FrontEnds,
           FrontEndConnects(f) \/ \E i \in AskIds, t \in Types : AskForDistiller(f, i, t)
    PROVE  IInv'
<1>0. /\ conn \subseteq FrontEnds /\ asks \subseteq Ask /\ stack \in Seq(Frame)
      /\ negative \subseteq FrontEnds \X Types
      /\ undefined \in {"no", "connection", "launch record", "distiller record"}
  BY Zenon, Given DEF TypeOK
<1>1. CASE FrontEndConnects(f)
  <2>1. conn' \subseteq FrontEnds /\ negative' \subseteq FrontEnds \X Types
    BY Zenon, <1>0, <1>1 DEF FrontEndConnects
  <2> QED BY Zenon, <1>0, <1>1, <2>1, OtherKeeps DEF FrontEndConnects
<1>2. CASE \E i \in AskIds, t \in Types : AskForDistiller(f, i, t)
  <2>1. PICK i \in AskIds, t \in Types : AskForDistiller(f, i, t)
    BY <1>2
  <2> DEFINE a == [conn |-> f, id |-> i, type |-> t]
  <2>2. a \in Ask /\ Wake(t, a, None) \in Frame
    BY DEF Ask, Wake, Frame
  <2>3. asks' \subseteq Ask /\ stack' \in Seq(Frame)
    <3>1. CASE UNCHANGED <<asks, stack>>
      BY Zenon, <1>0, <3>1
    <3>2. CASE asks' = asks \cup {a} /\ stack' = <<Wake(t, a, None)>>
      <4>1. <<Wake(t, a, None)>> \in Seq(Frame)
        BY <2>2
      <4>2. asks' \subseteq Ask
        BY Zenon, <1>0, <2>2, <3>2
      <4> QED BY <3>2, <4>1, <4>2
    <3> QED BY <2>1, <3>1, <3>2 DEF AskForDistiller
  <2> QED BY Zenon, <1>0, <2>1, <2>3, OtherKeeps DEF AskForDistiller
<1> QED BY <1>1, <1>2

(***************************************************************************)
(* A process that is not registered comes or goes.                         *)
(***************************************************************************)
LEMMA ProcessKeeps ==
    ASSUME IInv, NEW d \in Distillers,
           DistillerStarts(d) \/ RegisterDuplicate(d) \/ UnregisteredDies(d)
    PROVE  IInv'
<1>0. TypeOK /\ stack \in Seq(Frame) /\ undefined \in {"no", "connection", "launch record",
                                                       "distiller record"}
  BY Zenon, Given DEF TypeOK
<1>1. CASE DistillerStarts(d)
  <2>1. dist' \in [Distillers -> Distiller] /\ \A m \in Records : Counted(m)' = Counted(m)
    BY Zenon, <1>0, <1>1, Uncounted DEF DistillerStarts
  <2>2. UNCHANGED <<conn, launchID, launch, pending, asks, negative, stack, undefined>>
    BY <1>1 DEF DistillerStarts
  <2> QED BY Zenon, <1>0, <2>1, <2>2, QuietStep DEF TypeOK
<1>2. CASE RegisterDuplicate(d) \/ UnregisteredDies(d)
  <2>1. dist' \in [Distillers -> Distiller] /\ \A m \in Records : Counted(m)' = Counted(m)
    BY Zenon, <1>0, <1>2, Uncounted DEF RegisterDuplicate, UnregisteredDies
  <2>2. /\ launchID' = [launchID EXCEPT ![d] = None]
        /\ UNCHANGED <<conn, launch, pending, asks, negative, stack, undefined>>
    BY <1>2 DEF RegisterDuplicate, UnregisteredDies
  <2> QED BY Zenon, <1>0, <2>1, <2>2, IDForgotten
<1> QED BY <1>1, <1>2

(***************************************************************************)
(* A distiller that registers under another type keeps its launch record.  *)
(***************************************************************************)
LEMMA ReregisterKeeps ==
    ASSUME IInv, NEW d \in Distillers, NEW t \in Types, Reregister(d, t)
    PROVE  IInv'
<1> DEFINE r == [dist[d] EXCEPT !.type = t]
<1>0. /\ TypeOK /\ dist \in [Distillers -> Distiller] /\ dist[d] \in Distiller
      /\ dist' = [dist EXCEPT ![d] = r]
      /\ UNCHANGED <<conn, launchID, launch, pending, asks, negative, stack, undefined>>
  BY Zenon, Given DEF TypeOK, Reregister
<1>1. /\ r \in Distiller /\ r.state = dist[d].state /\ r.sleep = dist[d].sleep
      /\ r.rec = dist[d].rec
  BY <1>0 DEF Distiller
<1> HIDE DEF r
<1>2. \A m : CountsFor(r, m) <=> CountsFor(dist[d], m)
  BY <1>1 DEF CountsFor
<1>3. dist' \in [Distillers -> Distiller]
  BY <1>0, <1>1
<1>4. \A m \in Records : Counted(m)' = Counted(m)
  BY Zenon, <1>0, <1>2, CountedAfter
<1> QED BY Zenon, <1>0, <1>3, <1>4, QuietStep DEF TypeOK

(***************************************************************************)
(* A high load only pushes the frame of a relaunch.                        *)
(***************************************************************************)
LEMMA LoadTooHighKeeps ==
    ASSUME IInv, NEW d \in Distillers, LoadTooHigh(d)
    PROVE  IInv'
<1>0. /\ conn' \subseteq FrontEnds /\ asks' \subseteq Ask /\ stack \in Seq(Frame)
      /\ negative' \subseteq FrontEnds \X Types
      /\ UNCHANGED <<dist, launchID, launch, pending>>
      /\ undefined \in {"no", "connection", "launch record", "distiller record"}
      /\ dist[d] \in Distiller
  BY Zenon, Given DEF TypeOK, LoadTooHigh
<1>1. dist[d].rec \in Records
  BY Zenon, <1>0 DEF LoadTooHigh, Distiller
<1>2. CASE Deleted(d)
  <2>1. stack' \in Seq(Frame)
         /\ undefined' \in {"no", "connection", "launch record", "distiller record"}
    BY Zenon, <1>0, <1>2 DEF LoadTooHigh
  <2> QED BY Zenon, <1>0, <2>1, OtherKeeps
<1>3. CASE ~Deleted(d)
  <2>1. launch[dist[d].rec].type \in Types
    BY <1>1, <1>3, PTMConstants, Given DEF Deleted
  <2>2. RelaunchOn(stack, dist[d].rec) \in Seq(Frame)
    BY Zenon, <1>0, <1>1, <2>1, RelaunchTypes
  <2>3. stack' \in Seq(Frame)
         /\ undefined' \in {"no", "connection", "launch record", "distiller record"}
    BY Zenon, <1>0, <1>3, <2>2 DEF LoadTooHigh
  <2> QED BY Zenon, <1>0, <2>3, OtherKeeps
<1> QED BY <1>2, <1>3

(***************************************************************************)
(* A step that changes the counts of the records with their distillers.    *)
(***************************************************************************)
LEMMA CountStep ==
    ASSUME IInv, launch' \in [Records -> LaunchRecord],
           \A l \in Records : /\ launch'[l].state = launch[l].state
                              /\ launch'[l].type = launch[l].type
                              /\ launch'[l].state # "free" =>
                                    launch'[l].active = Cardinality(Counted(l)'),
           dist' \in [Distillers -> Distiller],
           launchID' \in [Distillers -> Records \cup {None}],
           \A d \in Distillers : launchID'[d] # None => launchID'[d] = launchID[d],
           UNCHANGED <<conn, pending, asks, negative>>, stack' \in Seq(Frame),
           undefined' \in {"no", "connection", "launch record", "distiller record"}
    PROVE  IInv'
<1>g. /\ \A l \in Records :
           /\ pending[l].on => launch[l].state # "free"
           /\ launch[l].state = "dying" => pending[l].on
           /\ launch[l].state # "free" => launch[l].type \in Types
      /\ \A d \in Distillers : launchID[d] # None =>
           launchID[d] \in Records /\ pending[launchID[d]].on
  BY Zenon, Given
<1>1. TypeOK'
  BY Zenon, Given DEF TypeOK
<1>2. ASSUME NEW l \in Records
      PROVE  /\ pending'[l].on => launch'[l].state # "free"
             /\ launch'[l].state = "dying" => pending'[l].on
             /\ launch'[l].state # "free" =>
                   launch'[l].type \in Types /\ launch'[l].active = Cardinality(Counted(l)')
  BY Zenon, <1>g
<1>3. \A d \in Distillers : launchID'[d] # None => pending'[launchID'[d]].on
  BY Zenon, <1>g
<1> QED BY Zenon, <1>1, <1>2, <1>3, Kept

(***************************************************************************)
(* A distiller registers: it counts if it is awake, and the launch that    *)
(* waited for it is over.                                                  *)
(***************************************************************************)
LEMMA RegisterKeeps ==
    ASSUME IInv, NEW d \in Distillers, NEW t \in Types, NEW s \in Status, NEW b \in BOOLEAN,
           NEW l \in Records \cup {None}, Register(d, t, s, b, l)
    PROVE  IInv'
<1> DEFINE r == [state |-> "registered", type |-> t, sleep |-> s, restart |-> b, rec |-> l]
           counted == RegisteredRecord(s, l)
           p == launchID[d]
<1>0. /\ TypeOK /\ dist \in [Distillers -> Distiller] /\ dist[d].state = "started"
      /\ launchID \in [Distillers -> Records \cup {None}]
      /\ dist' = [dist EXCEPT ![d] = r]
      /\ conn' \subseteq FrontEnds /\ negative' \subseteq FrontEnds \X Types
      /\ stack' \in Seq(Frame) /\ UNCHANGED <<conn, negative, stack>>
      /\ asks \subseteq Ask /\ undefined = "no"
  BY Zenon, Given DEF TypeOK, Register, Idle
<1>1. /\ r \in Distiller
      /\ \A m : ~CountsFor(dist[d], m) /\ (CountsFor(r, m) <=> (l = m /\ s = "wake"))
  BY <1>0 DEF Distiller, CountsFor
<1>2. \/ /\ p # None /\ s = "wake" /\ ReplyToAll(p)
         /\ pending' = [pending EXCEPT ![p] = NotPending]
         /\ launch' = [counted EXCEPT ![p] = WithoutPending(@)]
         /\ launchID' = ForgetID(p)
      \/ launch' = counted /\ UNCHANGED <<pending, asks, undefined, launchID>>
  BY DEF Register
<1>3. dist' \in [Distillers -> Distiller]
  BY <1>0, <1>1
<1> HIDE DEF r
<1>4. \A m \in Records :
         /\ l = m /\ s = "wake" => Cardinality(Counted(m)') = Cardinality(Counted(m)) + 1
         /\ ~(l = m /\ s = "wake") => Counted(m)' = Counted(m)
  BY Zenon, <1>0, <1>1, CountedAfter
<1>5. \A m \in Records : launch[m].state # "free" => launch[m].active = Cardinality(Counted(m))
  BY Given
<1>6. /\ counted \in [Records -> LaunchRecord]
      /\ \A m \in Records : /\ counted[m].state = launch[m].state
                            /\ counted[m].type = launch[m].type
                            /\ counted[m].state # "free" =>
                                  counted[m].active = Cardinality(Counted(m)')
  <2>1. CASE s = "wake"
    <3>1. counted = CountUp(l)
      BY <2>1 DEF RegisteredRecord
    <3> HIDE DEF counted
    <3>2. /\ counted \in [Records -> LaunchRecord]
          /\ \A m \in Records :
               /\ counted[m].state = launch[m].state /\ counted[m].type = launch[m].type
               /\ l # m => counted[m].active = launch[m].active
               /\ l = m => counted[m].active = launch[m].active + 1
      BY Zenon, <1>0, <3>1, CountMoves
    <3> QED BY <1>4, <1>5, <2>1, <3>2
  <2>2. CASE s # "wake"
    <3>1. counted = launch
      BY <2>2 DEF RegisteredRecord
    <3> HIDE DEF counted
    <3> QED BY <1>0, <1>4, <1>5, <2>2, <3>1 DEF TypeOK
  <2> QED BY <2>1, <2>2
<1> HIDE DEF counted
<1>7. CASE /\ p # None /\ s = "wake" /\ ReplyToAll(p)
           /\ pending' = [pending EXCEPT ![p] = NotPending]
           /\ launch' = [counted EXCEPT ![p] = WithoutPending(@)]
           /\ launchID' = ForgetID(p)
  <2>1. p \in Records /\ pending[p].on
    BY Zenon, <1>7, Given
  <2>2. asks' \subseteq Ask /\ undefined' \in {"no", "connection", "launch record",
                                               "distiller record"}
    BY <1>0, <1>7 DEF ReplyToAll
  <2> HIDE DEF p
  <2> QED BY Zenon, <1>0, <1>3, <1>6, <1>7, <2>1, <2>2, LaunchEnds
<1>8. CASE launch' = counted /\ UNCHANGED <<pending, asks, undefined, launchID>>
  <2>1. launchID' \in [Distillers -> Records \cup {None}]
    BY <1>0, <1>8
  <2> HIDE DEF p
  <2> QED BY <1>0, <1>3, <1>6, <1>8, <2>1, CountStep
<1> QED BY <1>2, <1>7, <1>8

(***************************************************************************)
(* The destructor of a DistillerRecord takes an awake one out of the count *)
(* of a launch record that still exists.                                   *)
(***************************************************************************)
LEMMA DeleteRecordKeeps ==
    ASSUME IInv, NEW d \in Distillers, NEW s \in {"off", "open"}, d \in Registered,
           DeleteRecord(d, s), undefined = "no",
           UNCHANGED <<conn, pending, asks, negative>>, stack' \in Seq(Frame)
    PROVE  IInv'
<1> DEFINE l == dist[d].rec
<1>0. /\ TypeOK /\ dist \in [Distillers -> Distiller] /\ dist[d].state = "registered"
      /\ launchID \in [Distillers -> Records \cup {None}] /\ dist[d] \in Distiller
      /\ dist' = [dist EXCEPT ![d] = Process(s)]
      /\ launchID' = [launchID EXCEPT ![d] = None]
  BY Zenon, Given DEF TypeOK, DeleteRecord, Registered
<1>1. l \in Records \cup {None}
  BY <1>0 DEF Distiller
<1>2. dist' \in [Distillers -> Distiller]
  BY <1>0, RecordTypes
<1>3. /\ launchID' \in [Distillers -> Records \cup {None}]
      /\ \A e \in Distillers : launchID'[e] # None => launchID'[e] = launchID[e]
  BY <1>0
<1>4. \A m : /\ ~CountsFor(Process(s), m)
             /\ CountsFor(dist[d], m) <=> l = m /\ dist[d].sleep = "wake"
  BY <1>0 DEF Process, CountsFor
<1>5. \A m \in Records :
         /\ l = m /\ dist[d].sleep = "wake" =>
               /\ Cardinality(Counted(m)') = Cardinality(Counted(m)) - 1
               /\ Cardinality(Counted(m)) >= 1
         /\ ~(l = m /\ dist[d].sleep = "wake") => Counted(m)' = Counted(m)
  BY Zenon, <1>0, <1>4, CountedAfter
<1>6. \A m \in Records : launch[m].state # "free" => launch[m].active = Cardinality(Counted(m))
  BY Given
<1>7. /\ launch' \in [Records -> LaunchRecord]
      /\ \A m \in Records : /\ launch'[m].state = launch[m].state
                            /\ launch'[m].type = launch[m].type
                            /\ launch'[m].state # "free" =>
                                  launch'[m].active = Cardinality(Counted(m)')
      /\ undefined' \in {"no", "connection", "launch record", "distiller record"}
  <2>1. CASE dist[d].sleep = "wake" /\ Deleted(d)
    <3>1. UNCHANGED launch /\ undefined' = "launch record"
      BY Zenon, <2>1 DEF DeleteRecord
    <3>2. l \in Records /\ launch[l].state = "free"
      BY <1>1, <2>1 DEF Deleted
    <3> HIDE DEF l
    <3> QED BY Zenon, <1>0, <1>5, <1>6, <3>1, <3>2 DEF TypeOK
  <2>2. CASE dist[d].sleep = "wake" /\ ~Deleted(d)
    <3>1. launch' = CountDown(l) /\ UNCHANGED undefined
      BY <2>2 DEF DeleteRecord
    <3>2. l # None => launch[l].state # "free" /\ l \in Records
      BY <1>1, <2>2 DEF Deleted
    <3> HIDE DEF l
    <3>3. l # None => launch[l].active >= 1
      BY <1>5, <1>6, <2>2, <3>2
    <3>4. /\ launch' \in [Records -> LaunchRecord]
          /\ \A m \in Records :
               /\ launch'[m].state = launch[m].state /\ launch'[m].type = launch[m].type
               /\ l # m => launch'[m].active = launch[m].active
               /\ l = m => launch'[m].active = launch[m].active - 1
      BY <1>0, <1>1, <3>1, <3>3, CountMoves
    <3> QED BY <1>5, <1>6, <2>2, <3>1, <3>4
  <2>3. CASE dist[d].sleep # "wake"
    <3>1. UNCHANGED <<launch, undefined>>
      BY <2>3 DEF DeleteRecord
    <3> QED BY <1>0, <1>5, <1>6, <2>3, <3>1 DEF TypeOK
  <2> QED BY Zenon, <2>1, <2>2, <2>3
<1> QED BY Zenon, <1>2, <1>3, <1>7, CountStep

(***************************************************************************)
(* A registered distiller deregisters, or its connection breaks.           *)
(***************************************************************************)
LEMMA DistillerGoes ==
    ASSUME IInv, NEW d \in Distillers, Deregister(d) \/ DistillerBroken(d)
    PROVE  IInv'
<1>0. stack \in Seq(Frame) /\ dist[d] \in Distiller /\ TypeOK
  BY Zenon, Given DEF TypeOK
<1>1. CASE Deregister(d)
  <2>1. /\ DeleteRecord(d, "open") /\ d \in Registered /\ undefined = "no"
        /\ UNCHANGED <<conn, pending, asks, negative>> /\ stack' \in Seq(Frame)
    BY <1>0, <1>1 DEF Deregister, Idle
  <2> QED BY <2>1, DeleteRecordKeeps
<1>2. CASE DistillerBroken(d)
  <2>0. /\ d \in Registered /\ undefined = "no"
        /\ UNCHANGED <<conn, pending, asks, negative>>
    BY Zenon, <1>2 DEF DistillerBroken, Idle
  <2>1. CASE dist[d].restart /\ dist[d].rec # None /\ Deleted(d)
    <3>1. /\ undefined' = "launch record"
          /\ UNCHANGED <<dist, launchID, launch, stack>>
      BY Zenon, <1>2, <2>1 DEF DistillerBroken
    <3> QED BY Zenon, <1>0, <2>0, <3>1, OtherKeeps DEF TypeOK
  <2>2. CASE ~(dist[d].restart /\ dist[d].rec # None /\ Deleted(d))
    <3>1. /\ DeleteRecord(d, "off")
          /\ stack' = IF dist[d].restart /\ dist[d].rec # None
                      THEN RelaunchOn(stack, dist[d].rec)
                      ELSE stack
      BY Zenon, <1>2, <2>2 DEF DistillerBroken
    <3>2. stack' \in Seq(Frame)
      <4>1. CASE ~(dist[d].restart /\ dist[d].rec # None)
        BY <1>0, <3>1, <4>1
      <4>2. CASE dist[d].restart /\ dist[d].rec # None
        <5>1. dist[d].rec \in Records
          BY <1>0, <4>2 DEF Distiller
        <5>2. launch[dist[d].rec].type \in Types
          BY <2>2, <4>2, <5>1, Given DEF Deleted
        <5>3. RelaunchOn(stack, dist[d].rec) \in Seq(Frame)
          BY <1>0, <5>1, <5>2, RelaunchTypes
        <5> QED BY <3>1, <4>2, <5>3
      <4> QED BY <4>1, <4>2
    <3> QED BY <2>0, <3>1, <3>2, DeleteRecordKeeps
  <2> QED BY <2>1, <2>2
<1> QED BY <1>1, <1>2

(***************************************************************************)
(* Every nonempty set of naturals has a least element.                     *)
(***************************************************************************)
LEMMA LeastExists ==
    ASSUME NEW S \in SUBSET Nat, S # {}
    PROVE  \E n \in S : \A k \in S : n <= k
<1> DEFINE R == OpToRel(<, Nat)
<1>1. IsWellFoundedOn(R, Nat)
  BY Zenon, NatLessThanWellFounded
<1>0. \A k, n \in Nat : k < n => <<k, n>> \in R
  BY Zenon DEF OpToRel
<1> HIDE DEF R
<1>2. PICK n \in S : \A k \in S : ~(<<k, n>> \in R)
  BY Zenon, <1>1, WFMin
<1>3. \A k \in S : n <= k
  <2> SUFFICES ASSUME NEW k \in S PROVE n <= k
    OBVIOUS
  <2>1. k \in Nat /\ n \in Nat
    OBVIOUS
  <2>2. ~(k < n)
    BY <1>0, <1>2, <2>1, Zenon
  <2> QED BY <2>1, <2>2
<1> QED BY <1>3

(***************************************************************************)
(* Nth is what it says: a finite set of positions has a k-th one.          *)
(***************************************************************************)
LEMMA NthExists ==
    ASSUME NEW n \in Nat, NEW K, K \subseteq 1 .. n, NEW k \in Nat, 1 <= k, k <= Cardinality(K)
    PROVE  Nth(K, k) \in K /\ Cardinality({j \in K : j <= Nth(K, k)}) = k
<1> DEFINE Upto(i) == {j \in K : j <= i}
           T == {i \in Nat : Cardinality(Upto(i)) >= k}
<1>0. \A j \in K : j \in Nat /\ 1 <= j /\ j <= n
  OBVIOUS
<1>1. IsFiniteSet(K) /\ Cardinality(K) \in Nat
  <2>1. IsFiniteSet(1 .. n)
    BY FS_Interval
  <2> QED BY Zenon, <2>1, FS_Subset, FS_CardinalityType
<1>2. \A i \in Nat : IsFiniteSet(Upto(i)) /\ Cardinality(Upto(i)) \in Nat
  BY <1>1, FS_Subset, FS_CardinalityType
<1>3. n \in T
  <2>1. Upto(n) = K
    BY Zenon, <1>0
  <2> QED BY <1>1, <2>1
<1>4. PICK i \in T : \A m \in T : i <= m
  <2> HIDE DEF T
  <2>1. T \in SUBSET Nat
    BY DEF T
  <2> QED BY <1>3, <2>1, LeastExists
<1>t. i \in Nat /\ Cardinality(Upto(i)) >= k /\ \A m \in Nat : Cardinality(Upto(m)) >= k => i <= m
  BY <1>4
<1>5. i # 0
  <2>0. \A j \in K : ~(j <= 0)
    BY <1>0
  <2>1. Upto(0) = {}
    BY Zenon, <2>0
  <2>2. Cardinality(Upto(0)) = 0
    BY <2>1, FS_EmptySet
  <2> HIDE DEF Upto
  <2> QED BY <1>t, <2>2
<1>6. i - 1 \in Nat /\ ~(i <= i - 1)
  BY <1>t, <1>5
<1>7. Cardinality(Upto(i - 1)) \in Nat /\ Cardinality(Upto(i - 1)) < k
  <2> HIDE DEF Upto
  <2> QED BY <1>2, <1>6, <1>t
<1>8. i \in K
  <2>1. SUFFICES ASSUME i \notin K PROVE FALSE
    OBVIOUS
  <2>2. \A j \in K : j <= i <=> j <= i - 1
    BY <1>0, <1>t, <2>1
  <2>3. Upto(i) = Upto(i - 1)
    BY Zenon, <2>2
  <2> HIDE DEF Upto
  <2> QED BY <1>7, <1>t, <2>3
<1>9. Cardinality(Upto(i)) = k
  <2>1. \A j \in K : j <= i <=> (j <= i - 1 \/ j = i)
    BY <1>0, <1>t
  <2>2. Upto(i) = Upto(i - 1) \cup {i}
    BY Zenon, <1>8, <1>t, <2>1
  <2>3. i \notin Upto(i - 1)
    BY <1>6
  <2> HIDE DEF Upto
  <2>4. IsFiniteSet(Upto(i - 1))
    BY <1>2, <1>6
  <2>5. Cardinality(Upto(i)) = Cardinality(Upto(i - 1)) + 1
    BY <2>2, <2>3, <2>4, FS_AddElement
  <2> QED BY <1>7, <1>t, <2>5
<1> QED BY Zenon, <1>8, <1>9 DEF Nth

(***************************************************************************)
(* RemoveBrokenConnection leaves a waiting list, whatever it does to it.   *)
(***************************************************************************)
LEMMA UnwaitTypes ==
    ASSUME NEW w \in Seq(Ask \cup {None, Dangling}), NEW f \in FrontEnds
    PROVE  Unwait(w, f) \in Seq(Ask \cup {None, Dangling})
<1> DEFINE keep == {i \in DOMAIN w : i = 1 \/ ~IsFrom(w[i - 1], f)}
           u == Unwait(w, f)
<1>1. /\ DOMAIN w = 1 .. Len(w) /\ Len(w) \in Nat
      /\ \A i \in 1 .. Len(w) : w[i] \in Ask \cup {None, Dangling}
  OBVIOUS
<1>2. keep \in SUBSET (1 .. Len(w))
  BY <1>1
<1>3. Cardinality(keep) \in Nat
  <2> HIDE DEF keep
  <2>1. IsFiniteSet(1 .. Len(w))
    BY <1>1, FS_Interval
  <2>2. IsFiniteSet(keep)
    BY Zenon, <1>2, <2>1, FS_Subset
  <2> QED BY <2>2, FS_CardinalityType
<1>4. u = [k \in 1 .. Cardinality(keep) |->
             IF IsFrom(w[Nth(keep, k)], f) THEN Dangling ELSE w[Nth(keep, k)]]
  BY DEF Unwait
<1> HIDE DEF keep
<1>5. \A k \in 1 .. Cardinality(keep) : Nth(keep, k) \in 1 .. Len(w)
  <2>1. ASSUME NEW k \in 1 .. Cardinality(keep) PROVE Nth(keep, k) \in 1 .. Len(w)
    <3>1. k \in Nat /\ 1 <= k /\ k <= Cardinality(keep)
      BY <1>3
    <3>2. Nth(keep, k) \in keep
      BY Zenon, <1>1, <1>2, <3>1, NthExists
    <3> QED BY Zenon, <1>2, <3>2
  <2> QED BY <2>1
<1>6. u \in [1 .. Cardinality(keep) -> Ask \cup {None, Dangling}]
  <2> HIDE DEF u
  <2> QED BY <1>1, <1>4, <1>5
<1> HIDE DEF u
<1>7. u \in Seq(Ask \cup {None, Dangling})
  BY <1>3, <1>6, SeqDef
<1> QED BY <1>7 DEF u

(***************************************************************************)
(* The connection of a front end breaks: only waiting lists change.        *)
(***************************************************************************)
LEMMA FrontEndBrokenKeeps ==
    ASSUME IInv, NEW f \in FrontEnds, FrontEndBroken(f)
    PROVE  IInv'
<1>0. /\ TypeOK /\ pending \in [Records -> PendingLaunch]
      /\ conn' = conn \ {f} /\ asks' = {a \in asks : a.conn # f}
      /\ pending' = [l \in Records |-> [pending[l] EXCEPT !.waitingList = Unwait(@, f)]]
      /\ UNCHANGED <<dist, launchID, launch, negative, stack, undefined>>
  BY Zenon, Given DEF TypeOK, FrontEndBroken
<1>1. /\ pending' \in [Records -> PendingLaunch]
      /\ \A l \in Records : pending'[l].on = pending[l].on
  <2>1. ASSUME NEW l \in Records
        PROVE  /\ [pending[l] EXCEPT !.waitingList = Unwait(@, f)] \in PendingLaunch
               /\ [pending[l] EXCEPT !.waitingList = Unwait(@, f)].on = pending[l].on
    <3>1. pending[l] \in PendingLaunch
      BY <1>0
    <3>2. pending[l].waitingList \in Seq(Ask \cup {None, Dangling})
      BY <3>1 DEF PendingLaunch
    <3>3. Unwait(pending[l].waitingList, f) \in Seq(Ask \cup {None, Dangling})
      BY Zenon, <3>2, UnwaitTypes
    <3> QED BY <3>1, <3>3 DEF PendingLaunch
  <2> QED BY Zenon, <1>0, <2>1
<1>2. \A m \in Records : Counted(m)' = Counted(m)
  BY <1>0 DEF Counted, Registered
<1>3. /\ launch' \in [Records -> LaunchRecord] /\ dist' \in [Distillers -> Distiller]
      /\ conn' \subseteq FrontEnds /\ asks' \subseteq Ask
      /\ negative' \subseteq FrontEnds \X Types /\ stack' \in Seq(Frame)
      /\ undefined' \in {"no", "connection", "launch record", "distiller record"}
  BY Zenon, <1>0 DEF TypeOK
<1> QED BY Zenon, <1>0, <1>1, <1>2, <1>3, QuietStep

(***************************************************************************)
(* The options file is read again: records of new types, none of which a   *)
(* distiller points at, and records that leave the database.               *)
(***************************************************************************)
LEMMA OptionsUpdateKeeps ==
    ASSUME IInv, NEW T \in SUBSET Types, OptionsUpdate(T)
    PROVE  IInv'
<1> DEFINE new == T \ {launch[l].type : l \in Listed}
<1>0. /\ TypeOK /\ launch \in [Records -> LaunchRecord]
      /\ UNCHANGED <<conn, dist, launchID, pending, asks, stack, undefined>>
      /\ negative' \in {negative, {}}
  BY Zenon, Given DEF TypeOK, OptionsUpdate
<1>1. PICK at \in [new -> Fresh] :
         /\ \A s, t \in new : at[s] = at[t] => s = t
         /\ launch' = [l \in Records |->
              IF \E t \in new : at[t] = l
              THEN NewRecord(CHOOSE t \in new : at[t] = l)
              ELSE IF l \notin Listed \/ launch[l].type \in T
                   THEN launch[l]
                   ELSE Died(l)]
  BY Zenon DEF OptionsUpdate
<1> HIDE DEF new
<1>2. \A m \in Records : Counted(m)' = Counted(m)
  BY <1>0 DEF Counted, Registered
<1>g. \A l \in Records :
         /\ pending[l].on => launch[l].state # "free"
         /\ launch[l].state = "dying" => pending[l].on
         /\ launch[l].state # "free" =>
               launch[l].type \in Types /\ launch[l].active = Cardinality(Counted(l))
  BY Zenon, Given
<1>3. ASSUME NEW l \in Records
      PROVE  /\ launch'[l] \in LaunchRecord
             /\ pending[l].on => launch'[l].state # "free"
             /\ launch'[l].state = "dying" => pending[l].on
             /\ launch'[l].state # "free" =>
                   launch'[l].type \in Types /\ launch'[l].active = Cardinality(Counted(l))
  <2>1. CASE \E t \in new : at[t] = l
    <3> DEFINE c == CHOOSE t \in new : at[t] = l
    <3>1. c \in new /\ l \in Fresh
      BY <1>1, <2>1
    <3>2. launch'[l] = NewRecord(c)
      BY <1>1, <2>1
    <3> HIDE DEF c
    <3>3. c \in Types
      BY <3>1 DEF new
    <3>4. Counted(l) = {}
      BY <3>1 DEF Fresh, Counted
    <3>5. Cardinality(Counted(l)) = 0
      BY <3>4, FS_EmptySet
    <3>6. launch'[l] \in LaunchRecord
      BY <3>2, <3>3, RecordTypes
    <3>7. launch'[l].state = "listed" /\ launch'[l].type = c /\ launch'[l].active = 0
      BY <3>2 DEF NewRecord
    <3> QED BY Zenon, <3>3, <3>5, <3>6, <3>7
  <2>2. CASE /\ ~(\E t \in new : at[t] = l)
             /\ l \notin Listed \/ launch[l].type \in T
    <3>1. launch'[l] = launch[l]
      BY <1>1, <2>2
    <3> QED BY <1>0, <1>g, <3>1
  <2>3. CASE /\ ~(\E t \in new : at[t] = l)
             /\ ~(l \notin Listed \/ launch[l].type \in T)
    <3>1. launch'[l] = Died(l) /\ launch[l].state = "listed"
      BY <1>1, <2>3 DEF Listed
    <3>2. CASE pending[l].on
      <4> DEFINE v == [launch[l] EXCEPT !.state = "dying"]
      <4>1. launch'[l] = v
        BY <3>1, <3>2 DEF Died
      <4>2. /\ v \in LaunchRecord /\ v.state = "dying"
            /\ v.type = launch[l].type /\ v.active = launch[l].active
        BY <1>0 DEF LaunchRecord
      <4> HIDE DEF v
      <4> QED BY <1>g, <3>1, <3>2, <4>1, <4>2
    <3>3. CASE ~pending[l].on
      <4>1. launch'[l] = FreeRecord
        BY <3>1, <3>3 DEF Died
      <4>2. launch'[l] \in LaunchRecord /\ launch'[l].state = "free"
        BY <4>1, RecordTypes DEF FreeRecord
      <4> QED BY <3>3, <4>2
    <3> QED BY <3>2, <3>3
  <2> QED BY Zenon, <2>1, <2>2, <2>3
<1>4. launch' \in [Records -> LaunchRecord]
  <2>1. launch' = [l \in Records |-> launch'[l]]
    BY <1>1
  <2> QED BY <1>3, <2>1
<1>5. TypeOK'
  BY Zenon, <1>0, <1>4 DEF TypeOK
<1>6. \A l \in Records :
         /\ pending'[l].on => launch'[l].state # "free"
         /\ launch'[l].state = "dying" => pending'[l].on
         /\ launch'[l].state # "free" =>
               launch'[l].type \in Types /\ launch'[l].active = Cardinality(Counted(l)')
  BY <1>0, <1>2, <1>3
<1>7. \A d \in Distillers : launchID'[d] # None => pending'[launchID'[d]].on
  <2>1. \A d \in Distillers : launchID[d] # None => pending[launchID[d]].on
    BY Given
  <2> QED BY <1>0, <2>1
<1> QED BY <1>5, <1>6, <1>7, Kept

(***************************************************************************)
(* The PTM starts with one record for each line of the options file.       *)
(***************************************************************************)
LEMMA IInvInit ==
    ASSUME Init
    PROVE  IInv
<1>1. PICK at \in [InitialTypes -> Records] :
         launch = [l \in Records |->
                     IF \E t \in InitialTypes : at[t] = l
                     THEN NewRecord(CHOOSE t \in InitialTypes : at[t] = l)
                     ELSE FreeRecord]
  BY DEF Init
<1>2. ASSUME NEW l \in Records
      PROVE  /\ launch[l] \in LaunchRecord
             /\ launch[l].state # "dying"
             /\ launch[l].state # "free" => launch[l].type \in Types /\ launch[l].active = 0
  <2>1. CASE \E t \in InitialTypes : at[t] = l
    <3> DEFINE c == CHOOSE t \in InitialTypes : at[t] = l
    <3>1. launch[l] = NewRecord(c)
      BY <1>1, <2>1
    <3>2. c \in Types
      BY <2>1, PTMConstants
    <3> HIDE DEF c
    <3> QED BY <3>1, <3>2, RecordTypes DEF NewRecord
  <2>2. CASE ~(\E t \in InitialTypes : at[t] = l)
    <3>1. launch[l] = FreeRecord
      BY <1>1, <2>2
    <3> QED BY <3>1, RecordTypes DEF FreeRecord
  <2> QED BY <2>1, <2>2
<1>3. launch \in [Records -> LaunchRecord]
  <2>1. launch = [l \in Records |-> launch[l]]
    BY <1>1
  <2> QED BY <1>2, <2>1
<1>4. \A d \in Distillers : dist[d].state = "off"
  BY DEF Init, Process
<1>5. \A l \in Records : Cardinality(Counted(l)) = 0
  <2>1. \A l \in Records : Counted(l) = {}
    BY <1>4 DEF Counted, Registered
  <2> QED BY <2>1, FS_EmptySet
<1>6. TypeOK
  BY <1>3, RecordTypes DEF Init, TypeOK
<1>7. \A l \in Records : ~pending[l].on
  BY DEF Init, NotPending
<1>8. \A d \in Distillers : launchID[d] = None
  BY DEF Init
<1> QED BY <1>2, <1>5, <1>6, <1>7, <1>8 DEF IInv, LaunchesOwnRecords, RecordsOK

(***************************************************************************)
(* Every handler and every event keeps the invariant.                      *)
(***************************************************************************)
LEMMA IInvStep ==
    ASSUME IInv, [Next]_vars
    PROVE  IInv'
<1>0. TypeOK
  BY Given
<1>1. CASE UNCHANGED vars
  BY Zenon, <1>0, <1>1, OtherKeeps DEF vars, TypeOK
<1>2. CASE WakeLoop
  <2>1. CASE WakeDeletedRecord
    BY Zenon, <1>0, <2>1, OtherKeeps DEF WakeDeletedRecord, TypeOK
  <2> QED BY <1>2, <2>1, WakeUpKeeps, WakeUpFailsKeeps, NobodyAsleepKeeps DEF WakeLoop
<1>3. ASSUME NEW l \in Records, LaunchTimeout(l) \/ HysteresisExpires(l)
      PROVE  IInv'
  <2>1. CASE HysteresisExpires(l)
    <3> DEFINE v == [launch[l] EXCEPT !.recent = FALSE]
    <3>1. /\ launch' = [launch EXCEPT ![l] = v]
          /\ UNCHANGED <<conn, dist, launchID, pending, asks, negative, stack, undefined>>
      BY <2>1 DEF HysteresisExpires
    <3>2. launch[l] \in LaunchRecord
      BY Zenon, <1>0 DEF TypeOK
    <3>3. /\ v \in LaunchRecord /\ v.state = launch[l].state /\ v.type = launch[l].type
          /\ v.active = launch[l].active
      BY Zenon, <3>2 DEF LaunchRecord
    <3> HIDE DEF v
    <3>4. /\ launch' \in [Records -> LaunchRecord]
          /\ \A m \in Records : /\ launch'[m].state = launch[m].state
                                /\ launch'[m].type = launch[m].type
                                /\ launch'[m].active = launch[m].active
      BY Zenon, <1>0, <3>1, <3>3 DEF TypeOK
    <3>5. \A m \in Records : Counted(m)' = Counted(m)
      BY <3>1 DEF Counted, Registered
    <3> QED BY Zenon, <1>0, <3>1, <3>4, <3>5, QuietStep DEF TypeOK
  <2> QED BY <1>3, <2>1, LaunchTimeoutKeeps
<1>4. ASSUME NEW d \in Distillers, DistillerNext(d)
      PROVE  IInv'
  BY <1>4, RegisterKeeps, ProcessKeeps, DistillerGoes, ReregisterKeeps, LoadTooHighKeeps
     DEF DistillerNext
<1>5. ASSUME NEW f \in FrontEnds, FrontEndNext(f)
      PROVE  IInv'
  BY <1>5, FrontEndKeeps, FrontEndBrokenKeeps DEF FrontEndNext
<1>6. ASSUME NEW T \in SUBSET Types, OptionsUpdate(T)
      PROVE  IInv'
  BY <1>6, OptionsUpdateKeeps
<1> QED BY <1>1, <1>2, <1>3, <1>4, <1>5, <1>6 DEF Next

(***************************************************************************)
(* numberOfActiveDistillers is the number of awake distillers that point   *)
(* at the launch record, and launch records live as long as their pending  *)
(* launches, whoever comes, goes, sleeps, wakes up or breaks off, and      *)
(* whatever the options file says.                                         *)
(***************************************************************************)
THEOREM RecordsAlwaysCounted == Spec => [](TypeOK /\ ActiveCount /\ LaunchesOwnRecords)
<1>1. Init => IInv
  BY IInvInit
<1>2. IInv /\ [Next]_vars => IInv'
  BY IInvStep
<1>3. IInv => TypeOK /\ ActiveCount /\ LaunchesOwnRecords
  BY DEF IInv, ActiveCount, RecordsOK
<1> QED BY <1>1, <1>2, <1>3, PTL DEF Spec
-----------------------------------------------------------------------------
(***************************************************************************)
(* Where requests wait, as long as no front end breaks off while it does.  *)
(* A request that is somewhere is unanswered, and is nowhere else.         *)
(***************************************************************************)
LEMMA Placed ==
    ASSUME WaitingOK, NEW a \in Ask
    PROVE  /\ InStack(a) # {} =>
                /\ a \in asks /\ \E i : InStack(a) = {i}
                /\ \A m \in Records : InList(a, m) = {}
           /\ \A l \in Records : InList(a, l) # {} =>
                /\ a \in asks /\ InStack(a) = {} /\ \E i : InList(a, l) = {i}
                /\ \A m \in Records \ {l} : InList(a, m) = {}
<1>0. IF a \in asks THEN Waits(a) \/ Runs(a) ELSE Nowhere(a)
  BY DEF WaitingOK
<1>1. CASE a \in asks /\ Waits(a)
  <2>1. PICK l \in Records : \E i \in InList(a, l) :
               InList(a, l) = {i} /\ \A m \in Records \ {l} : InList(a, m) = {}
    BY <1>1 DEF Waits
  <2> QED BY <1>1, <2>1 DEF Waits
<1>2. CASE a \in asks /\ Runs(a)
  BY <1>2 DEF Runs
<1>3. CASE a \notin asks /\ Nowhere(a)
  BY <1>3 DEF Nowhere
<1> QED BY <1>0, <1>1, <1>2, <1>3

(***************************************************************************)
(* What has to be shown of one request after a step.                       *)
(***************************************************************************)
LEMMA PlacedAgain ==
    ASSUME \A l \in Records : ~pending'[l].on => pending'[l].waitingList = << >>,
           \A l \in Records : \A i \in DOMAIN pending'[l].waitingList :
              pending'[l].waitingList[i] # Dangling,
           \A a \in Ask :
              \/ /\ a \in asks' /\ InStack(a)' = {}
                 /\ \E l \in Records : /\ \E i : InList(a, l)' = {i}
                                       /\ \A m \in Records \ {l} : InList(a, m)' = {}
              \/ /\ a \in asks' /\ \E i : InStack(a)' = {i}
                 /\ \A m \in Records : InList(a, m)' = {}
              \/ /\ a \notin asks' /\ InStack(a)' = {}
                 /\ \A m \in Records : InList(a, m)' = {}
    PROVE  WaitingOK'
<1>1. ASSUME NEW a \in Ask
      PROVE  (IF a \in asks THEN Waits(a) \/ Runs(a) ELSE Nowhere(a))'
  <2>1. CASE /\ a \in asks' /\ InStack(a)' = {}
             /\ \E l \in Records : /\ \E i : InList(a, l)' = {i}
                                   /\ \A m \in Records \ {l} : InList(a, m)' = {}
    <3>1. PICK l \in Records : /\ \E i : InList(a, l)' = {i}
                               /\ \A m \in Records \ {l} : InList(a, m)' = {}
      BY Zenon, <2>1
    <3>2. PICK i : InList(a, l)' = {i}
      BY <3>1
    <3>3. i \in InList(a, l)'
      BY <3>2
    <3>4. Waits(a)'
      BY <2>1, <3>1, <3>2, <3>3 DEF Waits
    <3> QED BY <2>1, <3>4
  <2>2. CASE /\ a \in asks' /\ \E i : InStack(a)' = {i}
             /\ \A m \in Records : InList(a, m)' = {}
    <3>1. PICK i : InStack(a)' = {i}
      BY <2>2
    <3>2. Runs(a)'
      BY <2>2, <3>1 DEF Runs
    <3> QED BY <2>2, <3>2
  <2>3. CASE /\ a \notin asks' /\ InStack(a)' = {}
             /\ \A m \in Records : InList(a, m)' = {}
    BY <2>3 DEF Nowhere
  <2> QED BY Zenon, <2>1, <2>2, <2>3
<1> QED BY <1>1 DEF WaitingOK

(***************************************************************************)
(* A step after which every request is where it was.                       *)
(***************************************************************************)
LEMMA SamePlaces ==
    ASSUME WaitingOK, UNCHANGED asks,
           \A l \in Records : /\ pending'[l].on = pending[l].on
                              /\ pending'[l].waitingList = pending[l].waitingList,
           \A a \in Ask : InStack(a)' = InStack(a)
    PROVE  WaitingOK'
<1>1. \A l \in Records : /\ ~pending[l].on => pending[l].waitingList = << >>
                         /\ \A i \in DOMAIN pending[l].waitingList :
                               pending[l].waitingList[i] # Dangling
  BY Zenon DEF WaitingOK
<1>2. \A l \in Records : ~pending'[l].on => pending'[l].waitingList = << >>
  BY <1>1
<1>3. \A l \in Records : \A i \in DOMAIN pending'[l].waitingList :
              pending'[l].waitingList[i] # Dangling
  BY <1>1
<1>4. \A a \in Ask, l \in Records : InList(a, l)' = InList(a, l)
  BY DEF InList
<1>5. ASSUME NEW a \in Ask
      PROVE  \/ /\ a \in asks' /\ InStack(a)' = {}
                /\ \E l \in Records : /\ \E i : InList(a, l)' = {i}
                                      /\ \A m \in Records \ {l} : InList(a, m)' = {}
             \/ /\ a \in asks' /\ \E i : InStack(a)' = {i}
                /\ \A m \in Records : InList(a, m)' = {}
             \/ /\ a \notin asks' /\ InStack(a)' = {}
                /\ \A m \in Records : InList(a, m)' = {}
  <2>1. IF a \in asks THEN Waits(a) \/ Runs(a) ELSE Nowhere(a)
    BY DEF WaitingOK
  <2> QED BY Zenon, <1>4, <2>1 DEF Waits, Runs, Nowhere
<1> QED BY Zenon, <1>2, <1>3, <1>5, PlacedAgain

(***************************************************************************)
(* Frames that are pushed by a relaunch carry no request, and the loop     *)
(* keeps the request of the frame it tries again.                          *)
(***************************************************************************)
LEMMA FramesKept ==
    ASSUME TypeOK, stack # << >>, NEW a \in Ask
    PROVE  /\ {i \in DOMAIN Again : Again[i].ask = a} = InStack(a)
           /\ {i \in DOMAIN Pop : Pop[i].ask = a} = InStack(a) \ {Len(stack)}
           /\ Len(stack) \in InStack(a) <=> Top.ask = a
<1>0. /\ stack \in Seq(Frame) /\ Len(stack) \in Nat /\ DOMAIN stack = 1 .. Len(stack)
      /\ Len(stack) \in 1 .. Len(stack)
  <2>1. stack \in Seq(Frame)
    BY Zenon DEF TypeOK
  <2> QED BY <2>1
<1>1. \A i \in 1 .. Len(stack) : stack[i] \in Frame
  BY <1>0
<1>2. {i \in DOMAIN Again : Again[i].ask = a} = InStack(a)
  <2>1. DOMAIN Again = 1 .. Len(stack)
    BY <1>0 DEF Again
  <2>2. \A i \in 1 .. Len(stack) : i # Len(stack) => Again[i] = stack[i]
    BY <1>0 DEF Again
  <2>3. Again[Len(stack)].ask = stack[Len(stack)].ask
    <3>1. Again[Len(stack)] = [stack[Len(stack)] EXCEPT !.tried = TRUE]
      BY <1>0 DEF Again
    <3> QED BY <1>0, <1>1, <3>1 DEF Frame
  <2>4. \A i \in 1 .. Len(stack) : Again[i].ask = stack[i].ask
    BY <2>2, <2>3
  <2> HIDE DEF Again
  <2> QED BY <1>0, <2>1, <2>4 DEF InStack
<1>3. {i \in DOMAIN Pop : Pop[i].ask = a} = InStack(a) \ {Len(stack)}
  <2>1. /\ DOMAIN Pop = 1 .. Len(stack) - 1
        /\ \A i \in 1 .. Len(stack) - 1 : Pop[i] = stack[i]
    <3> DEFINE n == Len(stack) - 1
    <3>1. n \in Int /\ n >= 0 /\ \A i \in 1 .. n : stack[i] \in Frame
      BY <1>0, <1>1
    <3> HIDE DEF n
    <3>2. /\ Pop \in Seq(Frame) /\ Len(Pop) = (IF 1 <= n THEN n - 1 + 1 ELSE 0)
          /\ \A i \in 1 .. n - 1 + 1 : Pop[i] = stack[1 + i - 1]
      BY <3>1, SubSeqProperties DEF Pop, n
    <3> HIDE DEF Pop
    <3>3. DOMAIN Pop = 1 .. Len(Pop)
      BY <3>2
    <3>4. DOMAIN Pop = 1 .. n
      BY <3>1, <3>2, <3>3
    <3>5. \A i \in 1 .. n : Pop[i] = stack[i]
      BY <3>1, <3>2
    <3> QED BY <3>4, <3>5 DEF n
  <2>2. \A i : i \in 1 .. Len(stack) - 1 <=> i \in 1 .. Len(stack) /\ i # Len(stack)
    BY <1>0
  <2> HIDE DEF Pop
  <2> QED BY <1>0, <2>1, <2>2 DEF InStack
<1>4. Len(stack) \in InStack(a) <=> Top.ask = a
  BY <1>0 DEF InStack, Top
<1> QED BY <1>2, <1>3, <1>4

(***************************************************************************)
(* The same of the frame that Relaunch pushes.                             *)
(***************************************************************************)
LEMMA RelaunchKept ==
    ASSUME NEW s \in Seq(Frame), NEW l \in Records, NEW a \in Ask
    PROVE  {i \in DOMAIN RelaunchOn(s, l) : RelaunchOn(s, l)[i].ask = a}
             = {i \in DOMAIN s : s[i].ask = a}
<1> DEFINE t == RelaunchOn(s, l)
           fr == Wake(launch[l].type, None, l)
<1>1. fr.ask # a
  BY PTMConstants DEF Wake, Ask
<1>2. t = Append(s, fr)
  BY DEF RelaunchOn
<1> HIDE DEF t, fr
<1>3. /\ Len(s) \in Nat /\ DOMAIN s = 1 .. Len(s) /\ DOMAIN t = 1 .. Len(s) + 1
      /\ \A i \in 1 .. Len(s) : t[i] = s[i]
      /\ t[Len(s) + 1] = fr
  BY <1>2
<1>4. \A i : i \in 1 .. Len(s) + 1 /\ t[i].ask = a <=> i \in 1 .. Len(s) /\ s[i].ask = a
  BY <1>1, <1>3
<1>5. {i \in DOMAIN t : t[i].ask = a} = {i \in DOMAIN s : s[i].ask = a}
  BY <1>3, <1>4
<1> QED BY <1>5 DEF t

(***************************************************************************)
(* A pending launch ends, and every request of its list is answered.       *)
(***************************************************************************)
LEMMA LaunchEndsWaiting ==
    ASSUME TypeOK, WaitingOK, NEW p \in Records, ReplyToAll(p), UNCHANGED stack,
           pending' = [pending EXCEPT ![p] = NotPending]
    PROVE  WaitingOK' /\ undefined' = "no"
<1>0. /\ \A l \in Records : /\ ~pending[l].on => pending[l].waitingList = << >>
                            /\ \A i \in DOMAIN pending[l].waitingList :
                                  pending[l].waitingList[i] # Dangling
      /\ pending \in [Records -> PendingLaunch]
  BY Zenon DEF WaitingOK, TypeOK
<1>1. Dangling \notin Waiters(p)
  BY <1>0 DEF Waiters
<1>2. asks' = asks \ Waiters(p) /\ undefined' = "no"
  BY <1>1 DEF ReplyToAll
<1>3. /\ pending'[p] = NotPending /\ \A m \in Records \ {p} : pending'[m] = pending[m]
  BY <1>0
<1>4. \A l \in Records : ~pending'[l].on => pending'[l].waitingList = << >>
  BY <1>0, <1>3 DEF NotPending
<1>5. \A l \in Records : \A i \in DOMAIN pending'[l].waitingList :
              pending'[l].waitingList[i] # Dangling
  <2>1. \A i \in DOMAIN pending'[p].waitingList : FALSE
    BY <1>3 DEF NotPending
  <2> QED BY <1>0, <1>3, <2>1
<1>6. ASSUME NEW a \in Ask
      PROVE  \/ /\ a \in asks' /\ InStack(a)' = {}
                /\ \E l \in Records : /\ \E i : InList(a, l)' = {i}
                                      /\ \A m \in Records \ {l} : InList(a, m)' = {}
             \/ /\ a \in asks' /\ \E i : InStack(a)' = {i}
                /\ \A m \in Records : InList(a, m)' = {}
             \/ /\ a \notin asks' /\ InStack(a)' = {}
                /\ \A m \in Records : InList(a, m)' = {}
  <2>1. InStack(a)' = InStack(a)
    BY DEF InStack
  <2>2. InList(a, p)' = {} /\ \A m \in Records \ {p} : InList(a, m)' = InList(a, m)
    BY <1>3 DEF InList, NotPending
  <2>3. a \in Waiters(p) <=> InList(a, p) # {}
    BY Zenon DEF Waiters, InList
  <2>4. CASE InList(a, p) # {}
    <3>1. InStack(a) = {} /\ \A m \in Records \ {p} : InList(a, m) = {}
      BY <2>4, Placed
    <3> QED BY <1>2, <2>1, <2>2, <2>3, <2>4, <3>1
  <2>5. CASE InList(a, p) = {}
    <3>1. \A m \in Records : InList(a, m)' = InList(a, m)
      BY <2>2, <2>5
    <3>2. a \in asks' <=> a \in asks
      BY <1>2, <2>3, <2>5
    <3>3. IF a \in asks THEN Waits(a) \/ Runs(a) ELSE Nowhere(a)
      BY DEF WaitingOK
    <3> QED BY Zenon, <2>1, <3>1, <3>2, <3>3 DEF Waits, Runs, Nowhere
  <2> QED BY Zenon, <2>4, <2>5
<1> QED BY Zenon, <1>2, <1>4, <1>5, <1>6, PlacedAgain

(***************************************************************************)
(* The top frame's request is answered when the frame goes.                *)
(***************************************************************************)
LEMMA FrameAnswered ==
    ASSUME TypeOK, WaitingOK, stack # << >>, stack' = Pop, asks' = asks \ {Top.ask},
           UNCHANGED pending
    PROVE  WaitingOK'
<1>0. \A l \in Records : /\ ~pending[l].on => pending[l].waitingList = << >>
                         /\ \A i \in DOMAIN pending[l].waitingList :
                                  pending[l].waitingList[i] # Dangling
  BY DEF WaitingOK
<1>6. ASSUME NEW a \in Ask
      PROVE  \/ /\ a \in asks' /\ InStack(a)' = {}
                /\ \E l \in Records : /\ \E i : InList(a, l)' = {i}
                                      /\ \A m \in Records \ {l} : InList(a, m)' = {}
             \/ /\ a \in asks' /\ \E i : InStack(a)' = {i}
                /\ \A m \in Records : InList(a, m)' = {}
             \/ /\ a \notin asks' /\ InStack(a)' = {}
                /\ \A m \in Records : InList(a, m)' = {}
  <2>1. /\ InStack(a)' = InStack(a) \ {Len(stack)}
        /\ Len(stack) \in InStack(a) <=> Top.ask = a
    BY FramesKept DEF InStack
  <2>2. \A m \in Records : InList(a, m)' = InList(a, m)
    BY DEF InList
  <2>4. CASE Top.ask = a
    <3>1. (\E i : InStack(a) = {i}) /\ \A m \in Records : InList(a, m) = {}
      BY Zenon, <2>1, <2>4, Placed
    <3>2. InStack(a)' = {}
      BY <2>1, <2>4, <3>1
    <3> QED BY <2>2, <2>4, <3>1, <3>2
  <2>5. CASE Top.ask # a
    <3>1. InStack(a)' = InStack(a) /\ (a \in asks' <=> a \in asks)
      BY <2>1, <2>5
    <3>3. IF a \in asks THEN Waits(a) \/ Runs(a) ELSE Nowhere(a)
      BY DEF WaitingOK
    <3> QED BY Zenon, <2>2, <3>1, <3>3 DEF Waits, Runs, Nowhere
  <2> QED BY Zenon, <2>4, <2>5
<1>7. /\ \A l \in Records : ~pending'[l].on => pending'[l].waitingList = << >>
      /\ \A l \in Records : \A i \in DOMAIN pending'[l].waitingList :
              pending'[l].waitingList[i] # Dangling
  BY <1>0
<1> QED BY Zenon, <1>6, <1>7, PlacedAgain

(***************************************************************************)
(* The top frame's request moves to the head of a waiting list.  Every     *)
(* other request keeps its list and its place behind the others.           *)
(***************************************************************************)
LEMMA FrameJoins ==
    ASSUME TypeOK, WaitingOK, stack # << >>, stack' = Pop, UNCHANGED asks,
           NEW l \in Records,
           NEW w \in Seq(Ask \cup {None, Dangling}), w = pending[l].waitingList,
           pending'[l].on, pending'[l].waitingList = <<Top.ask>> \o w,
           \A m \in Records \ {l} : pending'[m] = pending[m]
    PROVE  WaitingOK'
<1>0. \A m \in Records : /\ ~pending[m].on => pending[m].waitingList = << >>
                         /\ \A i \in DOMAIN pending[m].waitingList :
                                  pending[m].waitingList[i] # Dangling
  BY Zenon DEF WaitingOK
<1>1. Top.ask \in Ask \cup {None} /\ Top.ask # Dangling
  <2>1. Top \in Frame
    BY Zenon, StackTypes DEF TypeOK
  <2>2. Dangling \notin Ask \cup {None}
    BY PTMConstants DEF Ask
  <2> QED BY <2>1, <2>2 DEF Frame
<1> DEFINE q == Top.ask
           v == <<q>> \o w
<1> HIDE DEF q
<1>2. /\ Len(w) \in Nat /\ DOMAIN w = 1 .. Len(w) /\ DOMAIN v = 1 .. Len(w) + 1
      /\ v[1] = q /\ \A i \in 1 .. Len(w) : v[i + 1] = w[i]
  OBVIOUS
<1>3. pending'[l].waitingList = v
  BY DEF q
<1> HIDE DEF v
<1>4. \A i \in 1 .. Len(w) + 1 : i = 1 \/ (i - 1 \in 1 .. Len(w) /\ v[i] = w[i - 1])
  <2>1. ASSUME NEW i \in 1 .. Len(w) + 1, i # 1
        PROVE  i - 1 \in 1 .. Len(w) /\ v[i] = w[i - 1]
    <3>1. i - 1 \in 1 .. Len(w) /\ (i - 1) + 1 = i
      BY <1>2, <2>1
    <3> QED BY Zenon, <1>2, <3>1
  <2> QED BY <2>1
<1>e. ASSUME NEW x, \A i \in 1 .. Len(w) : w[i] # x,
             NEW i \in 1 .. Len(w) + 1, v[i] = x
      PROVE  i = 1 /\ q = x
  <2>1. i = 1
    <3>1. SUFFICES ASSUME i # 1 PROVE FALSE
      OBVIOUS
    <3>2. i - 1 \in 1 .. Len(w) /\ v[i] = w[i - 1]
      BY <1>4, <3>1
    <3> QED BY <1>e, <3>2
  <2> QED BY <1>2, <1>e, <2>1
<1>5. /\ \A m \in Records : ~pending'[m].on => pending'[m].waitingList = << >>
      /\ \A m \in Records : \A i \in DOMAIN pending'[m].waitingList :
              pending'[m].waitingList[i] # Dangling
  <2>1. \A i \in DOMAIN v : v[i] # Dangling
    <3>1. \A i \in 1 .. Len(w) : w[i] # Dangling
      BY <1>0, <1>2
    <3> QED BY Zenon, <1>1, <1>2, <1>e, <3>1 DEF q
  <2> QED BY <1>0, <1>3, <2>1
<1>6. ASSUME NEW a \in Ask
      PROVE  \/ /\ a \in asks' /\ InStack(a)' = {}
                /\ \E n \in Records : /\ \E i : InList(a, n)' = {i}
                                      /\ \A m \in Records \ {n} : InList(a, m)' = {}
             \/ /\ a \in asks' /\ \E i : InStack(a)' = {i}
                /\ \A m \in Records : InList(a, m)' = {}
             \/ /\ a \notin asks' /\ InStack(a)' = {}
                /\ \A m \in Records : InList(a, m)' = {}
  <2>1. /\ InStack(a)' = InStack(a) \ {Len(stack)}
        /\ Len(stack) \in InStack(a) <=> q = a
    BY FramesKept DEF InStack, q
  <2>2. \A m \in Records \ {l} : InList(a, m)' = InList(a, m)
    BY DEF InList
  <2>3. /\ InList(a, l) = {i \in 1 .. Len(w) : w[i] = a}
        /\ InList(a, l)' = {i \in 1 .. Len(w) + 1 : v[i] = a}
    BY Zenon, <1>2, <1>3 DEF InList
  <2>4. CASE q = a
    <3>1. /\ a \in asks /\ \E i : InStack(a) = {i}
          /\ \A m \in Records : InList(a, m) = {}
      BY Zenon, <2>1, <2>4, Placed
    <3>2. InStack(a)' = {}
      BY <2>1, <2>4, <3>1
    <3>3. InList(a, l)' = {1}
      <4>1. \A i \in 1 .. Len(w) : w[i] # a
        BY <2>3, <3>1
      <4>2. \A i : i \in 1 .. Len(w) + 1 /\ v[i] = a <=> i = 1
        <5>1. 1 \in 1 .. Len(w) + 1 /\ v[1] = a
          BY <1>2, <2>4
        <5> QED BY Zenon, <1>e, <4>1, <5>1
      <4> QED BY <2>3, <4>2
    <3> QED BY Zenon, <2>2, <3>1, <3>2, <3>3
  <2>5. CASE q # a
    <3>1. InStack(a)' = InStack(a) /\ (a \in asks' <=> a \in asks)
      BY <2>1, <2>5
    <3>2. InList(a, l) = {} => InList(a, l)' = {}
      <4>1. ASSUME InList(a, l) = {} PROVE \A i \in 1 .. Len(w) + 1 : v[i] # a
        <5>1. \A i \in 1 .. Len(w) : w[i] # a
          BY Zenon, <2>3, <4>1
        <5> QED BY Zenon, <1>e, <2>5, <5>1
      <4> QED BY <2>3, <4>1
    <3>3. ASSUME NEW j, InList(a, l) = {j} PROVE InList(a, l)' = {j + 1}
      <4>1. j \in 1 .. Len(w) /\ w[j] = a /\ \A i \in 1 .. Len(w) : w[i] = a => i = j
        BY Zenon, <2>3, <3>3
      <4>2. j \in Nat /\ j + 1 \in 1 .. Len(w) + 1 /\ v[j + 1] = a
        <5>1. j \in Nat /\ j + 1 \in 1 .. Len(w) + 1
          BY <1>2, <4>1
        <5>2. v[j + 1] = w[j]
          BY <1>2, <4>1
        <5> QED BY <4>1, <5>1, <5>2
      <4>3. ASSUME NEW i \in 1 .. Len(w) + 1, v[i] = a PROVE i = j + 1
        <5>1. i # 1
          BY <1>2, <2>5, <4>3
        <5>2. i - 1 \in 1 .. Len(w) /\ w[i - 1] = a
          BY <1>4, <4>3, <5>1
        <5>3. i - 1 = j
          BY <4>1, <5>2
        <5> QED BY <1>2, <4>2, <5>3
      <4> QED BY <2>3, <4>2, <4>3
    <3>4. IF a \in asks THEN Waits(a) \/ Runs(a) ELSE Nowhere(a)
      BY DEF WaitingOK
    <3>5. CASE a \in asks /\ Waits(a)
      <4>1. PICK n \in Records : \E i \in InList(a, n) :
               InList(a, n) = {i} /\ \A m \in Records \ {n} : InList(a, m) = {}
        BY Zenon, <3>5 DEF Waits
      <4>2. \E i : InList(a, n)' = {i}
        BY Zenon, <2>2, <3>3, <4>1
      <4>3. \A m \in Records \ {n} : InList(a, m)' = {}
        BY <2>2, <3>2, <4>1
      <4> QED BY Zenon, <3>1, <3>5, <4>2, <4>3 DEF Waits
    <3>6. CASE ~(a \in asks /\ Waits(a))
      <4>1. \A m \in Records : InList(a, m) = {}
        BY <3>4, <3>6 DEF Runs, Nowhere
      <4>2. \A m \in Records : InList(a, m)' = {}
        BY <2>2, <3>2, <4>1
      <4> QED BY Zenon, <3>1, <3>4, <3>6, <4>2 DEF Runs, Nowhere
    <3> QED BY Zenon, <3>5, <3>6
  <2> QED BY Zenon, <2>4, <2>5
<1> QED BY Zenon, <1>5, <1>6, PlacedAgain

(***************************************************************************)
(* RemoveBrokenConnection leaves a list alone that has no request of the   *)
(* broken connection.                                                      *)
(***************************************************************************)
LEMMA UnwaitSame ==
    ASSUME NEW w \in Seq(Ask \cup {None, Dangling}), NEW f,
           \A i \in DOMAIN w : ~IsFrom(w[i], f)
    PROVE  Unwait(w, f) = w
<1> DEFINE n == Len(w)
<1>1. n \in Nat /\ DOMAIN w = 1 .. n
  OBVIOUS
<1>2. {i \in DOMAIN w : i = 1 \/ ~IsFrom(w[i - 1], f)} = 1 .. n
  <2>1. \A i \in 1 .. n : i = 1 \/ i - 1 \in 1 .. n
    BY <1>1
  <2> QED BY <1>1, <2>1
<1> HIDE DEF n
<1>3. \A i \in 1 .. n : Cardinality({j \in 1 .. n : j <= i}) = i
  <2>1. ASSUME NEW i \in 1 .. n PROVE Cardinality({j \in 1 .. n : j <= i}) = i
    <3>1. {j \in 1 .. n : j <= i} = 1 .. i
      BY <1>1
    <3>2. Cardinality(1 .. i) = i
      BY <1>1, FS_Interval
    <3> QED BY Zenon, <3>1, <3>2
  <2> QED BY <2>1
<1>4. Cardinality(1 .. n) = n
  BY <1>1, FS_Interval
<1>5. \A k \in 1 .. n : Nth(1 .. n, k) = k
  BY <1>3 DEF Nth
<1>6. Unwait(w, f) = [k \in 1 .. n |-> IF IsFrom(w[k], f) THEN Dangling ELSE w[k]]
  BY Zenon, <1>2, <1>4, <1>5 DEF Unwait
<1>7. Unwait(w, f) = [k \in 1 .. n |-> w[k]]
  BY <1>1, <1>6
<1> QED BY <1>1, <1>7

(***************************************************************************)
(* The connection of a front end that waits for nothing breaks.            *)
(***************************************************************************)
LEMMA FrontEndBrokenWaiting ==
    ASSUME IInv, WaitingOK, AskersMayBreak = FALSE, NEW f \in FrontEnds, FrontEndBroken(f)
    PROVE  WaitingOK'
<1>0. /\ pending \in [Records -> PendingLaunch] /\ asks \subseteq Ask
      /\ \A a \in asks : a.conn # f
      /\ asks' = {a \in asks : a.conn # f}
      /\ pending' = [l \in Records |-> [pending[l] EXCEPT !.waitingList = Unwait(@, f)]]
      /\ UNCHANGED stack
  BY Zenon, Given DEF TypeOK, FrontEndBroken
<1>1. UNCHANGED asks
  BY <1>0
<1>2. ASSUME NEW l \in Records
      PROVE  pending'[l].on = pending[l].on /\ pending'[l].waitingList = pending[l].waitingList
  <2> DEFINE w == pending[l].waitingList
  <2>1. pending[l] \in PendingLaunch /\ w \in Seq(Ask \cup {None, Dangling})
    BY <1>0 DEF PendingLaunch
  <2>2. \A i \in DOMAIN w : ~IsFrom(w[i], f)
    <3>1. SUFFICES ASSUME NEW i \in DOMAIN w, IsFrom(w[i], f) PROVE FALSE
      OBVIOUS
    <3>2. w[i] \in Ask /\ w[i].conn = f
      BY <2>1, <3>1 DEF IsFrom
    <3>3. i \in InList(w[i], l)
      BY DEF InList
    <3>4. w[i] \in asks
      BY <3>2, <3>3, Placed
    <3> QED BY <1>0, <3>2, <3>4
  <2> HIDE DEF w
  <2>3. Unwait(w, f) = w
    BY <2>1, <2>2, UnwaitSame
  <2>4. pending'[l] = [pending[l] EXCEPT !.waitingList = w]
    BY <1>0, <2>3 DEF w
  <2> QED BY <2>1, <2>4 DEF w, PendingLaunch
<1>3. \A a \in Ask : InStack(a)' = InStack(a)
  BY <1>0 DEF InStack
<1> QED BY <1>1, <1>2, <1>3, SamePlaces

(***************************************************************************)
(* A new request is in the frame that EvAskForDistiller pushes.            *)
(***************************************************************************)
LEMMA AskWaiting ==
    ASSUME IInv, WaitingOK, NEW f \in FrontEnds, NEW id \in AskIds, NEW t \in Types,
           AskForDistiller(f, id, t)
    PROVE  WaitingOK'
<1> DEFINE q == [conn |-> f, id |-> id, type |-> t]
           fr == Wake(t, q, None)
<1>0. /\ stack = << >> /\ UNCHANGED pending
      /\ \A a \in asks : a.conn # f \/ a.id # id
  BY DEF AskForDistiller, Idle
<1>1. CASE UNCHANGED <<asks, stack>>
  BY <1>0, <1>1, SamePlaces DEF InStack
<1>2. CASE asks' = asks \cup {q} /\ stack' = <<fr>>
  <2>1. q \in Ask /\ q.conn = f /\ q.id = id /\ fr.ask = q
    BY DEF Ask, Wake
  <2> HIDE DEF q, fr
  <2>2. q \notin asks
    BY <1>0, <2>1
  <2>3. \A a \in Ask : InStack(a) = {}
    BY <1>0 DEF InStack
  <2>4. \A a \in Ask : InStack(a)' = IF a = q THEN {1} ELSE {}
    <3>1. DOMAIN stack' = {1} /\ stack'[1] = fr
      BY <1>2
    <3>2. \A a \in Ask : InStack(a)' = {i \in {1} : stack'[i].ask = a}
      BY <3>1 DEF InStack
    <3> QED BY <2>1, <3>1, <3>2
  <2>5. \A a \in Ask, l \in Records : InList(a, l)' = InList(a, l)
    BY <1>0 DEF InList
  <2>6. ASSUME NEW a \in Ask
        PROVE  \/ /\ a \in asks' /\ InStack(a)' = {}
                  /\ \E l \in Records : /\ \E i : InList(a, l)' = {i}
                                        /\ \A m \in Records \ {l} : InList(a, m)' = {}
               \/ /\ a \in asks' /\ \E i : InStack(a)' = {i}
                  /\ \A m \in Records : InList(a, m)' = {}
               \/ /\ a \notin asks' /\ InStack(a)' = {}
                  /\ \A m \in Records : InList(a, m)' = {}
    <3>1. IF a \in asks THEN Waits(a) \/ Runs(a) ELSE Nowhere(a)
      BY DEF WaitingOK
    <3>2. CASE a = q
      <4>1. \A m \in Records : InList(a, m) = {}
        BY <2>2, <3>1, <3>2 DEF Nowhere
      <4> QED BY Zenon, <1>2, <2>4, <2>5, <3>2, <4>1
    <3>3. CASE a # q
      <4>1. a \in asks' <=> a \in asks
        BY <1>2, <3>3
      <4> QED BY <2>3, <2>4, <2>5, <3>1, <3>3, <4>1 DEF Waits, Runs, Nowhere
    <3> QED BY <3>2, <3>3
  <2>7. \A l \in Records : /\ ~pending[l].on => pending[l].waitingList = << >>
                           /\ \A i \in DOMAIN pending[l].waitingList :
                                 pending[l].waitingList[i] # Dangling
    BY DEF WaitingOK
  <2>8. /\ \A l \in Records : ~pending'[l].on => pending'[l].waitingList = << >>
        /\ \A l \in Records : \A i \in DOMAIN pending'[l].waitingList :
              pending'[l].waitingList[i] # Dangling
    BY <1>0, <2>7
  <2> QED BY Zenon, <2>6, <2>8, PlacedAgain
<1> QED BY <1>1, <1>2 DEF AskForDistiller

(***************************************************************************)
(* The end of the wake-up loop: the request of its frame is answered or    *)
(* joins a launch.                                                         *)
(***************************************************************************)
LEMMA NobodyAsleepWaiting ==
    ASSUME IInv, WaitingOK, NobodyAsleep
    PROVE  WaitingOK'
<1> DEFINE q == Top.ask
<1>0. /\ TypeOK /\ pending \in [Records -> PendingLaunch] /\ stack # << >> /\ stack' = Pop
      /\ asks \subseteq Ask
      /\ TryToLaunch(Top.type, q)
  BY Given DEF NobodyAsleep, Busy, TypeOK
<1>1. q \in Ask \cup {None} /\ None \notin asks
  <2>1. Top \in Frame
    BY Zenon, <1>0, StackTypes DEF TypeOK
  <2>2. None \notin Ask
    BY PTMConstants DEF Ask
  <2> QED BY <1>0, <2>1, <2>2 DEF Frame
<1>2. CASE NoDistiller(q)
  BY <1>0, <1>2, FrameAnswered DEF NoDistiller
<1>3. ASSUME NEW l \in Records, pending[l].on, JoinLaunch(l, q)
      PROVE  WaitingOK'
  <2> DEFINE w == pending[l].waitingList
  <2>1. pending[l] \in PendingLaunch /\ w \in Seq(Ask \cup {None, Dangling})
    BY <1>0 DEF PendingLaunch
  <2>2. /\ UNCHANGED asks
        /\ pending' = [pending EXCEPT ![l].waitingList =
                         IF q = None /\ Head(w) = None THEN w ELSE <<q>> \o w]
    BY <1>3 DEF JoinLaunch
  <2>3. CASE q = None /\ Head(w) = None
    <3>1. pending' = [pending EXCEPT ![l].waitingList = w]
      BY <2>2, <2>3
    <3>2. [pending[l] EXCEPT !.waitingList = w] = pending[l]
      BY <2>1 DEF PendingLaunch
    <3>3. pending' = [pending EXCEPT ![l] = pending[l]]
      BY Zenon, <3>1, <3>2
    <3>4. UNCHANGED pending
      BY <1>0, <3>3
    <3>5. asks' = asks \ {q}
      BY <1>1, <2>2, <2>3
    <3> QED BY <1>0, <3>4, <3>5, FrameAnswered
  <2>4. CASE ~(q = None /\ Head(w) = None)
    <3>1. <<q>> \o w \in Seq(Ask \cup {None, Dangling})
      BY <1>1, <2>1
    <3>2. pending' = [pending EXCEPT ![l].waitingList = <<q>> \o w]
      BY Zenon, <2>2, <2>4
    <3> DEFINE v == <<q>> \o w
    <3> HIDE DEF v
    <3>3. /\ pending'[l].on = pending[l].on /\ pending'[l].waitingList = v
          /\ \A m \in Records \ {l} : pending'[m] = pending[m]
      BY <1>0, <3>1, <3>2, ListChanged DEF v
    <3>4. pending'[l].waitingList = <<Top.ask>> \o w /\ pending'[l].on
      BY <1>3, <3>3 DEF v
    <3> HIDE DEF q
    <3> QED BY <1>0, <2>1, <2>2, <3>3, <3>4, FrameJoins
  <2> QED BY <2>3, <2>4
<1>4. ASSUME NEW l \in Records, ~pending[l].on, NewLaunch(l, q)
      PROVE  WaitingOK'
  <2>1. CASE asks' = asks \ {q} /\ UNCHANGED pending
    BY <1>0, <2>1, FrameAnswered
  <2>2. CASE /\ pending' = [pending EXCEPT ![l] =
                             [on |-> TRUE, countOfTimeouts |-> 0, waitingList |-> <<q>>]]
             /\ UNCHANGED asks
    <3> DEFINE w == pending[l].waitingList
    <3>1. w = << >> /\ w \in Seq(Ask \cup {None, Dangling})
      <4>1. \A m \in Records : ~pending[m].on => pending[m].waitingList = << >>
        BY DEF WaitingOK
      <4>2. w = << >>
        BY <1>4, <4>1
      <4> QED BY <4>2
    <3>2. /\ pending'[l].on /\ pending'[l].waitingList = <<q>>
          /\ \A m \in Records \ {l} : pending'[m] = pending[m]
      <4> DEFINE r == [on |-> TRUE, countOfTimeouts |-> 0, waitingList |-> <<q>>]
      <4>1. r.on /\ r.waitingList = <<q>>
        OBVIOUS
      <4> HIDE DEF r
      <4>2. pending'[l] = r /\ \A m \in Records \ {l} : pending'[m] = pending[m]
        BY <1>0, <2>2 DEF r
      <4> QED BY <4>1, <4>2
    <3>3. <<q>> \o w = <<q>>
      BY <3>1
    <3> QED BY Zenon, <1>0, <2>2, <3>1, <3>2, <3>3, FrameJoins
  <2> QED BY <1>4, <2>1, <2>2 DEF NewLaunch
<1>5. \A l \in Matching(Top.type) : l \in Records
  BY DEF Matching, Listed
<1> QED BY <1>0, <1>2, <1>3, <1>4, <1>5 DEF TryToLaunch

(***************************************************************************)
(* Every other handler and event leaves each request where it is, answers  *)
(* it, or uses a deleted object other than a connection.                   *)
(***************************************************************************)
LEMMA WakeWaiting ==
    ASSUME IInv, WaitingOK, undefined = "no", WakeLoop
    PROVE  WInv'
<1>0. /\ TypeOK /\ stack \in Seq(Frame)
  BY Given DEF TypeOK
<1>1. ASSUME NEW d \in Distillers, WakeUp(d)
      PROVE  WInv'
  <2>1. CASE Deleted(d)
    BY Zenon, <1>1, <2>1 DEF WakeUp, WInv
  <2>2. CASE ~Deleted(d)
    <3>1. /\ stack # << >> /\ stack' = Pop /\ asks' = asks \ {Top.ask}
          /\ UNCHANGED <<pending, undefined>>
      BY <1>1, <2>2 DEF WakeUp, Busy
    <3>2. WaitingOK'
      BY <1>0, <3>1, FrameAnswered
    <3> QED BY <3>1, <3>2 DEF WInv
  <2> QED BY <2>1, <2>2
<1>2. ASSUME NEW d \in Distillers, WakeUpFails(d)
      PROVE  WInv'
  <2>0. stack # << >> /\ UNCHANGED <<pending, asks>> /\ dist[d] \in Distiller
    BY Zenon, <1>0, <1>2 DEF WakeUpFails, Busy, TypeOK
  <2>1. CASE undefined' = "launch record"
    BY Zenon, <2>1 DEF WInv
  <2>2. CASE stack' = Again /\ UNCHANGED undefined
    <3>1. \A a \in Ask : InStack(a)' = InStack(a)
      BY <1>0, <2>0, <2>2, FramesKept DEF InStack
    <3>2. WaitingOK'
      BY <2>0, <3>1, SamePlaces
    <3> QED BY <2>2, <3>2 DEF WInv
  <2>3. CASE /\ dist[d].rec # None
             /\ stack' = RelaunchOn(Again, dist[d].rec) /\ UNCHANGED undefined
    <3>1. dist[d].rec \in Records
      BY <2>0, <2>3 DEF Distiller
    <3>2. Again \in Seq(Frame)
      BY <1>0, <2>0, StackTypes
    <3> HIDE DEF Again
    <3>3. ASSUME NEW a \in Ask PROVE InStack(a)' = InStack(a)
      <4>1. InStack(a)' = {i \in DOMAIN Again : Again[i].ask = a}
        <5> DEFINE l == dist[d].rec
        <5>1. InStack(a)' = {i \in DOMAIN RelaunchOn(Again, l) :
                               RelaunchOn(Again, l)[i].ask = a}
          BY <2>3 DEF InStack
        <5> QED BY <3>1, <3>2, <5>1, RelaunchKept
      <4> QED BY <1>0, <2>0, <4>1, FramesKept
    <3>4. WaitingOK'
      BY <2>0, <3>3, SamePlaces
    <3> QED BY <2>3, <3>4 DEF WInv
  <2> QED BY Zenon, <1>2, <2>1, <2>2, <2>3 DEF WakeUpFails, Again
<1>3. CASE NobodyAsleep
  BY <1>3, NobodyAsleepWaiting DEF NobodyAsleep, WInv
<1>4. CASE WakeDeletedRecord
  BY Zenon, <1>4 DEF WakeDeletedRecord, WInv
<1> QED BY <1>1, <1>2, <1>3, <1>4 DEF WakeLoop

(***************************************************************************)
(* The timer of a launch, packets and broken connections of distillers.    *)
(***************************************************************************)
LEMMA DistillerWaiting ==
    ASSUME IInv, WaitingOK, undefined = "no",
           \/ \E l \in Records : LaunchTimeout(l) \/ HysteresisExpires(l)
           \/ \E d \in Distillers : DistillerNext(d)
    PROVE  WInv'
<1>0. /\ TypeOK /\ stack \in Seq(Frame) /\ pending \in [Records -> PendingLaunch]
  BY Zenon, Given DEF TypeOK
<1>s. ASSUME UNCHANGED <<pending, asks, stack>>, undefined' \in {"no", "launch record"}
      PROVE  WInv'
  <2>1. \A a \in Ask : InStack(a)' = InStack(a)
    BY Zenon, <1>s DEF InStack
  <2>2. WaitingOK'
    BY Zenon, <1>s, <2>1, SamePlaces
  <2> QED BY Zenon, <1>s, <2>2 DEF WInv
<1>e. ASSUME NEW p \in Records, ReplyToAll(p), UNCHANGED stack,
             pending' = [pending EXCEPT ![p] = NotPending]
      PROVE  WInv'
  BY Zenon, <1>0, <1>e, LaunchEndsWaiting DEF WInv
<1>r. ASSUME NEW l \in Records, UNCHANGED <<pending, asks, undefined>>,
             stack' = RelaunchOn(stack, l)
      PROVE  WInv'
  <2>1. ASSUME NEW a \in Ask PROVE InStack(a)' = InStack(a)
    <3>1. InStack(a)' = {i \in DOMAIN RelaunchOn(stack, l) : RelaunchOn(stack, l)[i].ask = a}
      BY <1>r DEF InStack
    <3>2. InStack(a) = {i \in DOMAIN stack : stack[i].ask = a}
      BY DEF InStack
    <3>3. {i \in DOMAIN RelaunchOn(stack, l) : RelaunchOn(stack, l)[i].ask = a}
            = {i \in DOMAIN stack : stack[i].ask = a}
      BY <1>0, RelaunchKept
    <3> QED BY <3>1, <3>2, <3>3
  <2>2. WaitingOK'
    BY <1>r, <2>1, SamePlaces
  <2> QED BY <1>r, <2>2 DEF WInv
<1>1. ASSUME NEW l \in Records, LaunchTimeout(l)
      PROVE  WInv'
  <2>1. CASE LaunchFailed(l)
    BY Zenon, <1>1, <1>e, <2>1 DEF LaunchFailed, LaunchTimeout
  <2>2. CASE /\ pending' = [pending EXCEPT ![l].countOfTimeouts = TimeoutCount(l)]
             /\ UNCHANGED <<asks, undefined>>
    <3> DEFINE n == TimeoutCount(l)
               v == [pending[l] EXCEPT !.countOfTimeouts = n]
    <3>1. pending' = [pending EXCEPT ![l] = v]
      BY <2>2
    <3> HIDE DEF n
    <3>2. pending[l] \in PendingLaunch
      BY <1>0
    <3>3. v.on = pending[l].on /\ v.waitingList = pending[l].waitingList
      BY <3>2 DEF PendingLaunch
    <3> HIDE DEF v
    <3>4. \A m \in Records : /\ pending'[m].on = pending[m].on
                             /\ pending'[m].waitingList = pending[m].waitingList
      BY <1>0, <3>1, <3>3
    <3>5. \A a \in Ask : InStack(a)' = InStack(a)
      BY <1>1 DEF LaunchTimeout, InStack
    <3>6. WaitingOK'
      BY <2>2, <3>4, <3>5, SamePlaces
    <3> QED BY <2>2, <3>6 DEF WInv
  <2> QED BY <1>1, <2>1, <2>2 DEF LaunchTimeout
<1>2. ASSUME NEW l \in Records, HysteresisExpires(l)
      PROVE  WInv'
  BY <1>2, <1>s DEF HysteresisExpires
<1>3. ASSUME NEW d \in Distillers, NEW t \in Types, NEW s \in Status, NEW b \in BOOLEAN,
             NEW l \in Records \cup {None}, Register(d, t, s, b, l)
      PROVE  WInv'
  <2> DEFINE p == launchID[d]
  <2>1. CASE /\ p # None /\ ReplyToAll(p) /\ UNCHANGED stack
             /\ pending' = [pending EXCEPT ![p] = NotPending]
    <3>1. p \in Records
      BY Zenon, <2>1, Given
    <3> QED BY Zenon, <1>e, <2>1, <3>1
  <2>2. CASE UNCHANGED <<pending, asks, stack, undefined>>
    BY <1>s, <2>2
  <2> QED BY <1>3, <2>1, <2>2 DEF Register
<1>4. ASSUME NEW d \in Distillers,
             \/ DistillerStarts(d) \/ RegisterDuplicate(d) \/ UnregisteredDies(d)
             \/ \E t \in Types : Reregister(d, t)
      PROVE  WInv'
  BY Zenon, <1>4, <1>s DEF DistillerStarts, RegisterDuplicate, UnregisteredDies, Reregister
<1>5. ASSUME NEW d \in Distillers, Deregister(d)
      PROVE  WInv'
  BY Zenon, <1>5, <1>s DEF Deregister, DeleteRecord
<1>6. ASSUME NEW d \in Distillers, LoadTooHigh(d) \/ DistillerBroken(d)
      PROVE  WInv'
  <2>1. UNCHANGED <<pending, asks>> /\ dist[d] \in Distiller
    BY Zenon, <1>0, <1>6 DEF LoadTooHigh, DistillerBroken, TypeOK
  <2>2. CASE undefined' = "launch record"
    BY Zenon, <2>2 DEF WInv
  <2>3. CASE UNCHANGED <<stack, undefined>>
    BY <1>s, <2>1, <2>3
  <2>4. CASE dist[d].rec # None /\ stack' = RelaunchOn(stack, dist[d].rec) /\ UNCHANGED undefined
    <3>1. dist[d].rec \in Records
      BY <2>1, <2>4 DEF Distiller
    <3> QED BY <1>r, <2>1, <2>4, <3>1
  <2> QED BY Zenon, <1>6, <2>2, <2>3, <2>4 DEF LoadTooHigh, DistillerBroken, DeleteRecord
<1> QED BY <1>1, <1>2, <1>3, <1>4, <1>5, <1>6 DEF DistillerNext

(***************************************************************************)
(* Requests start nowhere, and every step keeps them in their places.      *)
(***************************************************************************)
LEMMA WInvStep ==
    ASSUME IInv, WInv, AskersMayBreak = FALSE, [Next]_vars
    PROVE  WInv'
<1>s. ASSUME WaitingOK, UNCHANGED <<pending, asks, stack, undefined>>
      PROVE  WInv'
  <2>1. \A a \in Ask : InStack(a)' = InStack(a)
    BY <1>s DEF InStack
  <2>2. WaitingOK'
    BY <1>s, <2>1, SamePlaces
  <2> QED BY <1>s, <2>2 DEF WInv
<1>1. CASE UNCHANGED vars /\ undefined # "no"
  BY <1>1 DEF vars, WInv
<1>2. CASE UNCHANGED vars /\ undefined = "no"
  BY <1>2, <1>s DEF vars, WInv
<1>3. ASSUME Next PROVE WInv'
  <2>1. undefined = "no"
    <3>1. WakeLoop => undefined = "no"
      BY Zenon DEF WakeLoop, WakeUp, WakeUpFails, NobodyAsleep, WakeDeletedRecord, Busy
    <3>2. \A l \in Records : LaunchTimeout(l) \/ HysteresisExpires(l) => undefined = "no"
      BY DEF LaunchTimeout, HysteresisExpires, Idle
    <3>3. \A d \in Distillers : DistillerNext(d) => undefined = "no"
      <4>1. ASSUME NEW d \in Distillers, DistillerStarts(d) \/ RegisterDuplicate(d) \/ Deregister(d)
                                            \/ \E t \in Types : Reregister(d, t)
            PROVE  undefined = "no"
        BY <4>1 DEF DistillerStarts, RegisterDuplicate, Deregister, Reregister, Idle
      <4>2. ASSUME NEW d \in Distillers, DistillerBroken(d) \/ UnregisteredDies(d) \/ LoadTooHigh(d)
            PROVE  undefined = "no"
        BY Zenon, <4>2 DEF DistillerBroken, UnregisteredDies, LoadTooHigh, Idle
      <4>3. ASSUME NEW d, NEW t, NEW s, NEW b, NEW l, Register(d, t, s, b, l)
            PROVE  undefined = "no"
        BY <4>3 DEF Register, Idle
      <4> QED BY <4>1, <4>2, <4>3 DEF DistillerNext
    <3>4. \A f \in FrontEnds : FrontEndNext(f) => undefined = "no"
      BY Zenon DEF FrontEndNext, FrontEndConnects, AskForDistiller, FrontEndBroken, Idle
    <3>5. \A T \in SUBSET Types : OptionsUpdate(T) => undefined = "no"
      BY DEF OptionsUpdate, Idle
    <3> QED BY <1>3, <3>1, <3>2, <3>3, <3>4, <3>5 DEF Next
  <2>2. WaitingOK
    BY <2>1 DEF WInv
  <2>3. ASSUME NEW f \in FrontEnds, FrontEndNext(f) PROVE WInv'
    <3>1. CASE FrontEndConnects(f)
      BY <1>s, <2>2, <3>1 DEF FrontEndConnects
    <3>2. ASSUME NEW i \in AskIds, NEW t \in Types, AskForDistiller(f, i, t) PROVE WInv'
      <4>1. UNCHANGED undefined
        BY <3>2 DEF AskForDistiller
      <4>2. WaitingOK'
        BY <2>2, <3>2, AskWaiting
      <4> QED BY <2>1, <4>1, <4>2 DEF WInv
    <3>3. CASE FrontEndBroken(f)
      <4>1. UNCHANGED undefined
        BY <3>3 DEF FrontEndBroken
      <4> QED BY Zenon, <2>1, <2>2, <3>3, <4>1, FrontEndBrokenWaiting DEF WInv
    <3> QED BY <2>3, <3>1, <3>2, <3>3 DEF FrontEndNext
  <2>4. ASSUME NEW T \in SUBSET Types, OptionsUpdate(T) PROVE WInv'
    BY <1>s, <2>2, <2>4 DEF OptionsUpdate
  <2> QED BY <1>3, <2>1, <2>2, <2>3, <2>4, WakeWaiting, DistillerWaiting DEF Next
<1> QED BY <1>1, <1>2, <1>3

(***************************************************************************)
(* Before the first event no request is anywhere.                          *)
(***************************************************************************)
LEMMA WInvInit ==
    ASSUME Init
    PROVE  WInv
<1>1. /\ stack = << >> /\ asks = {} /\ undefined = "no"
      /\ \A l \in Records : pending[l].waitingList = << >>
  BY DEF Init, NotPending
<1>2. \A a \in Ask : Nowhere(a) /\ a \notin asks
  BY <1>1 DEF Nowhere, InStack, InList
<1>3. WaitingOK
  BY <1>1, <1>2 DEF WaitingOK
<1> QED BY <1>1, <1>3 DEF WInv

(***************************************************************************)
(* One entry or one frame is one place.                                    *)
(***************************************************************************)
LEMMA OnePlace ==
    ASSUME WInv, IInv
    PROVE  AsksWait
<1>1. SUFFICES ASSUME undefined = "no", NEW a \in asks
               PROVE  \E p \in Places(a) : Places(a) = {p}
  BY DEF AsksWait
<1>2. a \in Ask
  BY Zenon, Given DEF TypeOK
<1>3. Waits(a) \/ Runs(a)
  BY <1>1, <1>2 DEF WInv, WaitingOK
<1>4. CASE Waits(a)
  <2>1. PICK l \in Records : \E i \in InList(a, l) :
               InList(a, l) = {i} /\ \A m \in Records \ {l} : InList(a, m) = {}
    BY <1>4 DEF Waits
  <2>2. PICK i : InList(a, l) = {i}
    BY <2>1
  <2>3. InStack(a) = {}
    BY <1>4 DEF Waits
  <2>4. \A p : p \in Places(a) <=> p = <<l, i>>
    <3>1. ASSUME NEW m \in Records, NEW j \in InList(a, m) PROVE <<m, j>> = <<l, i>>
      BY <2>1, <2>2, <3>1
    <3>2. i \in InList(a, l)
      BY <2>2
    <3>3. \A p : p \in Places(a) <=> \E m \in Records : \E j \in InList(a, m) : p = <<m, j>>
      <4>1. {<<None, j>> : j \in InStack(a)} = {}
        BY <2>3
      <4> DEFINE E(m) == {<<m, j>> : j \in InList(a, m)}
                 U == UNION {E(m) : m \in Records}
      <4>2. Places(a) = U
        BY <4>1 DEF Places
      <4>3. \A p : p \in U <=> \E m \in Records : p \in E(m)
        <5> HIDE DEF E
        <5> QED OBVIOUS
      <4>4. \A m : \A p : p \in E(m) <=> \E j \in InList(a, m) : p = <<m, j>>
        BY Zenon
      <4> HIDE DEF E, U
      <4> QED BY <4>2, <4>3, <4>4, Zenon
    <3> QED BY <3>1, <3>2, <3>3, Zenon
  <2>5. Places(a) = {<<l, i>>}
    BY <2>4, Zenon
  <2> QED BY <2>5
<1>5. CASE Runs(a)
  <2>1. PICK i : InStack(a) = {i}
    BY <1>5 DEF Runs
  <2>2. \A m \in Records : InList(a, m) = {}
    BY <1>5 DEF Runs
  <2>3. \A p : p \in Places(a) <=> p = <<None, i>>
    BY <2>1, <2>2, Zenon DEF Places
  <2>4. Places(a) = {<<None, i>>}
    BY <2>3, Zenon
  <2> QED BY <2>4
<1> QED BY <1>3, <1>4, <1>5

(***************************************************************************)
(* As long as no front end breaks off while it waits, everything the       *)
(* manager records agrees: counts, launches, and the one place each        *)
(* unanswered request waits in (ptm.cc:232, "It simply arranges for the    *)
(* PTM to eventually respond"); and no launch replies to a deleted         *)
(* connection (ptmnet.cc:78).                                              *)
(***************************************************************************)
THEOREM PTMAlwaysSafe ==
    ASSUME AskersMayBreak = FALSE
    PROVE  Spec => [](PTMIsSafe /\ NoReplyToDeletedConnection)
<1>1. Init => IInv /\ WInv
  BY IInvInit, WInvInit
<1>2. IInv /\ WInv /\ [Next]_vars => IInv' /\ WInv'
  BY Zenon, IInvStep, WInvStep
<1>3. IInv /\ WInv => PTMIsSafe /\ NoReplyToDeletedConnection
  <2>1. IInv => TypeOK /\ ActiveCount /\ LaunchesOwnRecords
    BY DEF IInv, ActiveCount, RecordsOK
  <2> QED BY <2>1, OnePlace DEF PTMIsSafe, NoReplyToDeletedConnection, WInv
<1> QED BY <1>1, <1>2, <1>3, PTL DEF Spec
=============================================================================
