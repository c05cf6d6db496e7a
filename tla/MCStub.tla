------------------------------- MODULE MCStub -------------------------------
(***************************************************************************)
(* The libraries through which a front end reaches other machines, for TLC *)
(* in one run: the cache of distillers (StubCache) and the partitions of   *)
(* the Web cache (Partitions).  They share no state.  Init chooses the     *)
(* part that is run; the other keeps its initial state.                    *)
(***************************************************************************)
EXTENDS StubCache

CONSTANTS
    w1, w2, gif, jpg,
    h1, h2, Threads, Hosts, Config, Hashes, Retries, MaxChanges, MaxHups

TwoWorkers == {w1, w2}
OneType == {gif}
TwoTypes == {gif, jpg}
TwoHosts == <<h1, h2>>

VARIABLES
    part,       \* the part that is run
    up, list, num, hup, thr, refused, changes, hups

Part == INSTANCE Partitions

partVars == <<up, list, num, hup, thr, refused, changes, hups>>
stubVars == <<part, vars, partVars>>

\* A part that is not run has one initial state.  Of the partitions all run in
\* the beginning, or none.
StubInit ==
    /\ part \in {"cache", "partitions"}
    /\ Init /\ Part!Init
    /\ up = {} \/ (part = "partitions" /\ up = Hosts)

StubNext ==
    /\ UNCHANGED part
    /\ \/ part = "cache" /\ Next /\ UNCHANGED partVars
       \/ part = "partitions" /\ Part!Next /\ UNCHANGED vars

\* The fairness of StubCache and of Partitions, for the part that is run
StubFairness ==
    /\ \A w \in Workers :
         /\ WF_vars(part = "cache" /\ WorkerStep(w))
         /\ WF_vars(part = "cache" /\ TimerDue(w))
         /\ WF_vars(part = "cache" /\ Deliver(w))
    /\ \A i \in Slots : WF_vars(part = "cache" /\ ConnectionGone(i))
    /\ \A a \in Addrs : WF_vars(part = "cache" /\ Forget(a))
    /\ \A t \in Threads :
         WF_partVars(part = "partitions" /\ Part!Step(t) /\ ~Part!At(t, "transfer"))

StubSpec == StubInit /\ [][StubNext]_stubVars /\ StubFairness
-----------------------------------------------------------------------------
(* The properties of the parts; their modules say more about each.         *)

\* Partitions: num_partitions counts the list, a partition that is not on it has
\* refused a connection, and a thread that has seen the signal builds it again.
PartitionsAreKept == [](Part!TypeOK /\ Part!MissingHasRefused) /\ Part!SignalRebuilds

\* Partitions: an operation over TCP returns, unless a transfer never ends or
\* transfers fail for ever.
FetchReturns == Part!FetchReturns
=============================================================================
