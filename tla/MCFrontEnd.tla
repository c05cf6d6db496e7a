----------------------------- MODULE MCFrontEnd -----------------------------
(***************************************************************************)
(* Three things a front end does beside each other, for TLC in one run:    *)
(* the stages of a request (Pipeline), the reports about its threads       *)
(* (Instrumentation) and the search for a PTM (Location).  They share no   *)
(* state.  Init chooses the part that is run; the others keep their        *)
(* initial state.                                                          *)
(***************************************************************************)
EXTENDS Pipeline, Location

CONSTANTS
    a, b,
    NThreads, NumAsymptote, States, Idle, Unknown, Timed, Lossy

TwoDistillers == {a, b}
SomeRoutes == {<< >>, <<a>>, <<b, a>>, <<a, b, b>>}

VARIABLES
    part,       \* the part that is run
    state, which, readable, ms, monitor, i, asymptote, old, msg, view

Inst == INSTANCE Instrumentation WITH pc <- monitor

instVars == <<state, which, readable, ms, monitor, i, asymptote, old, msg, view>>
feVars == <<part, vars, instVars, locVars>>

FrontEndInit ==
    /\ part \in {"pipeline", "instrumentation", "location"}
    /\ Init /\ Inst!Init /\ LocInit
    /\ part # "location" => up = {} /\ beacons = {}

FrontEndNext ==
    /\ UNCHANGED part
    /\ \/ part = "pipeline" /\ Next /\ UNCHANGED <<instVars, locVars>>
       \/ part = "instrumentation" /\ Inst!Next /\ UNCHANGED <<vars, locVars>>
       \/ part = "location" /\ LocNext /\ UNCHANGED <<vars, instVars>>

\* The fairness of each module, for the part that is run
FrontEndFairness ==
    /\ WF_vars(part = "pipeline" /\ proxy_dispatch)
    /\ WF_instVars(part = "instrumentation" /\ Inst!thread_mon_proc)
    /\ \A t \in Inst!Threads :
         SF_instVars(part = "instrumentation" /\ Inst!Delivered /\ asymptote = t)
    /\ \A p \in PTMs : WF_locVars(part = "location" /\ Beacon(p))
    /\ \A p \in PTMs, q \in PTMs : SF_locVars(part = "location" /\ BeaconAtPTM(p, q))
    /\ \A f \in FrontEnds :
         /\ \A p \in PTMs : SF_locVars(part = "location" /\ EvPTMLocationReceived(p, f))
         /\ WF_locVars(part = "location" /\ \E k \in Objects : ConnectionThread(f, k))
         /\ WF_locVars(part = "location" /\ AskWrite(f))
         /\ WF_locVars(part = "location" /\ StartTimerFires(f))
         /\ WF_locVars(part = "location" /\ StartPTM(f))

FrontEndSpec == FrontEndInit /\ [][FrontEndNext]_feVars /\ FrontEndFairness
-----------------------------------------------------------------------------
(* The properties of the parts; their modules say more about each.         *)

\* Pipeline: a request that reaches the distillers leaves their loop.
PipelineEnds == part = "pipeline" => LoopEnds

\* Instrumentation: a buffer marked readable holds the milestones of a finished
\* request, and the monitor ends up with the state of every thread that stops
\* changing it, although reports are lost.
MonitorIsInformed ==
    /\ [](Inst!TypeOK /\ Inst!ReadableIsFinished)
    /\ part = "instrumentation" => Inst!MonitorCatchesUp

\* Location: as long as none has crashed, a PTM that runs is only ever replaced
\* by a greater one; several do not stay side by side, unless a front end whose
\* timer was made anew goes on starting others.
ContestSettles ==
    /\ ContestLeavesOne
    /\ part = "location" => ContestEnds

\* Location: a front end without a PTM is connected to one in the end.
FindsPTM == part = "location" => FrontEndsFindPTM
=============================================================================
