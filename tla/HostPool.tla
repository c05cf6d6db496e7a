------------------------------ MODULE HostPool ------------------------------
(***************************************************************************)
(* The pool of machines on which the PTM starts distillers                 *)
(* (ptm/src/share/rexec.cc).  RExec counts the registered distillers of    *)
(* each host in its load level, keeps the least level in minLoadLevel and  *)
(* picks, beginning at currentHost, the host of best priority among those  *)
(* whose level is not above minLoadLevel.  The options file may change     *)
(* the list of hosts while the PTM runs.                                   *)
(***************************************************************************)
EXTENDS Integers, Sequences, FiniteSets

CONSTANTS
    Hosts,         \* machines
    Priority,      \* the number behind a host's name; low ones come first
    HostLists,     \* the values rexec.hosts may have in the options file
    MaxRunning,    \* bound: registered distillers per machine
    NoHost         \* NULL

\* The hosts of a list
Names(s) == {s[i] : i \in DOMAIN s}

HostPoolAssumption ==
    /\ Priority \in [Hosts -> Int]
    /\ HostLists \subseteq Seq(Hosts)
    /\ \A s \in HostLists : s # << >>
    /\ MaxRunning \in Nat
    /\ NoHost \notin Hosts
    /\ "spins" \notin Hosts \cup {NoHost}

ASSUME ConstantsOK == HostPoolAssumption

VARIABLES
    hosts,         \* the host array: names, from place 1
    loadLevel,     \* Host::loadLevel; 0 for a machine not in the array
    minLoadLevel,
    currentHost,   \* place where the next search begins; 0 before the first
    picked,        \* the host found by the last search since the last update;
                   \* "spins" once a search does not end
    again,         \* the last two searches, with no change between them, found
                   \* the same host
    running        \* distillers that are registered, by machine

vars == <<hosts, loadLevel, minLoadLevel, currentHost, picked, again, running>>

Init ==
    /\ hosts \in HostLists
    /\ loadLevel = [h \in Hosts |-> 0]
    /\ minLoadLevel = 0
    /\ currentHost = 0
    /\ picked = NoHost
    /\ again = FALSE
    /\ running = [h \in Hosts |-> 0]

\* Deviation: the "no minimum yet" value survives.
Least_Sentinel(level) == -1

\* RecomputeMinLoadLevel, for levels "level"
Least(level) == CHOOSE n \in {level[h] : h \in Names(hosts)} :
                  \A h \in Names(hosts) : n <= level[h]

\* PTM::Register: a distiller registers from machine h; UpLevel if h is in
\* the array
UpLevel(h) ==
    /\ picked # "spins"
    /\ running[h] < MaxRunning
    /\ running' = [running EXCEPT ![h] = @ + 1]
    /\ IF h \in Names(hosts)
       THEN /\ loadLevel' = [loadLevel EXCEPT ![h] = @ + 1]
            /\ minLoadLevel' = Least(loadLevel')
       ELSE UNCHANGED <<loadLevel, minLoadLevel>>
    /\ again' = FALSE
    /\ UNCHANGED <<hosts, currentHost, picked>>

\* Deviation: minLoadLevel is not recomputed.
DownLevel_NotRecomputed(h) ==
    /\ picked # "spins"
    /\ running[h] > 0
    /\ running' = [running EXCEPT ![h] = @ - 1]
    /\ loadLevel' = [loadLevel EXCEPT ![h] = IF @ > 0 THEN @ - 1 ELSE @]
    /\ again' = FALSE
    /\ UNCHANGED <<hosts, minLoadLevel, currentHost, picked>>

\* PTM::Deregister
DownLevel(h) ==
    /\ picked # "spins"
    /\ running[h] > 0
    /\ running' = [running EXCEPT ![h] = @ - 1]
    /\ IF h \in Names(hosts)
       THEN /\ loadLevel' = [loadLevel EXCEPT ![h] = IF @ > 0 THEN @ - 1
                                                              ELSE @]
            /\ minLoadLevel' = Least(loadLevel')
       ELSE UNCHANGED <<loadLevel, minLoadLevel>>
    /\ again' = FALSE
    /\ UNCHANGED <<hosts, currentHost, picked>>

------------------------------------------------------------------------------
\* The place the search visits in its k-th round (k = 0, 1, ...)
Start == IF currentHost = 0 THEN 1 ELSE currentHost
Visited(k) == ((Start - 1 + k) % Len(hosts)) + 1

\* Deviation: the last of equally good hosts wins.
Better_OrEqual(h, min) == loadLevel[h] <= minLoadLevel
                            /\ (min = -1 \/ Priority[h] <= min)

\* Deviation: the comparison of priorities is turned round.
Better_Reversed(h, min) == loadLevel[h] <= minLoadLevel
                             /\ (min = -1 \/ Priority[h] > min)

\* Is host h taken, when the best priority so far is min?
Better(h, min) == loadLevel[h] <= minLoadLevel
                    /\ (min = -1 \/ Priority[h] < min)

\* Place and priority of the best host of rounds 0 .. k; place 0 for none
Best[k \in Nat] ==
    LET before == IF k = 0 THEN <<0, -1>> ELSE Best[k - 1]
        h == hosts[Visited(k)]
    IN  IF Better(h, before[2]) THEN <<Visited(k), Priority[h]>> ELSE before

\* The place behind place i
After(i) == (i % Len(hosts)) + 1

\* FindLeastLoadedHost.  A currentHost beyond the array is read as it is,
\* and the loop, which goes on until it meets currentHost again, never ends.
FindLeastLoadedHost ==
    /\ picked # "spins"
    /\ IF currentHost > Len(hosts)
       THEN picked' = "spins" /\ UNCHANGED currentHost
       ELSE \E i \in 0 .. Len(hosts) :
              /\ i = Best[Len(hosts) - 1][1]
              /\ picked' = IF i = 0 THEN NoHost ELSE hosts[i]
              /\ currentHost' = IF i = 0 THEN Start ELSE After(i)
    /\ again' = (picked' = picked)
    /\ UNCHANGED <<hosts, loadLevel, minLoadLevel, running>>

\* The load levels after the host array is rebuilt from list s
Kept(s) == [h \in Hosts |-> IF h \in Names(hosts) \cap Names(s)
                            THEN loadLevel[h] ELSE 0]

\* RExec::Update: hosts in both lists keep their level; minLoadLevel and
\* currentHost stay as they are.  HostLists are lists that Initialize reads to
\* the end.  After one that it rejects (module Options) Update returns early:
\* the array then has the hosts up to the error, all at level 0.
Update(s) ==
    /\ picked # "spins"
    /\ hosts' = s
    /\ loadLevel' = Kept(s)
    /\ picked' = NoHost
    /\ again' = FALSE
    /\ UNCHANGED <<minLoadLevel, currentHost, running>>

Next ==
    \/ \E h \in Hosts : UpLevel(h) \/ DownLevel(h)
    \/ FindLeastLoadedHost
    \/ \E s \in HostLists : Update(s)

Spec == Init /\ [][Next]_vars

------------------------------------------------------------------------------
(***************************************************************************)
(* Every variable has its type.                                            *)
(***************************************************************************)
TypeOK ==
    /\ hosts \in HostLists
    /\ loadLevel \in [Hosts -> Nat]
    /\ minLoadLevel \in Nat
    /\ currentHost \in Nat
    /\ picked \in Hosts \cup {NoHost, "spins"}
    /\ again \in BOOLEAN
    /\ running \in [Hosts -> Nat]

(***************************************************************************)
(* As long as updates only reorder the hosts (SameHosts): the level of a   *)
(* host is "# of processes currently started up by the Proxy system on     *)
(* this host" (rexec.h:61), minLoadLevel is the least of the levels, and   *)
(* the search begins inside the array, whatever comes and goes and however *)
(* often the options file is read again.  ProperHosts: no host has the     *)
(* priority -1, which the search keeps for "none found yet", and no host   *)
(* is listed twice.                                                        *)
(***************************************************************************)
SameHosts == \A s, t \in HostLists : Names(s) = Names(t) /\ Len(s) = Len(t)
ProperHosts == /\ \A h \in Hosts : Priority[h] # -1
               /\ \A s \in HostLists : \A i, j \in DOMAIN s : s[i] = s[j] => i = j
PoolConsistent ==
    /\ \A h \in Names(hosts) : loadLevel[h] = running[h]
    /\ \A h \in Names(hosts) : minLoadLevel <= loadLevel[h]
    /\ \E h \in Names(hosts) : minLoadLevel = loadLevel[h]
    /\ currentHost <= Len(hosts)

(***************************************************************************)
(* A search returns a host with the fewest distillers and, among those,    *)
(* of the best priority ("hosts with lower numbered priority will be       *)
(* selected before lower priority hosts", gm_options.dist:84).             *)
(***************************************************************************)
GoodHost(h) ==
    /\ h \in Names(hosts)
    /\ \A g \in Names(hosts) : \/ running[h] < running[g]
                               \/ /\ running[h] = running[g]
                                  /\ Priority[h] <= Priority[g]
PicksGoodHost == [][FindLeastLoadedHost => GoodHost(picked')]_vars

(***************************************************************************)
(* Distillers that were launched but have not registered yet count on no   *)
(* host.  Launches in a row must not all go to one machine: a search never *)
(* returns the host of the search before it while another host is as good. *)
(***************************************************************************)
PicksAnother ==
    again => \A h \in Names(hosts) \ {picked} : ~GoodHost(h)

(***************************************************************************)
(* The pool is sound: the types, the consistency of the levels, and that   *)
(* launches in a row go to different machines where they can.              *)
(***************************************************************************)
PoolIsSound == TypeOK /\ PoolConsistent /\ PicksAnother

(***************************************************************************)
(* FindLeastLoadedHost does not return NULL: "couldn't find any distiller  *)
(* at minLoadLevel; this should never happen!" (rexec.cc:352).             *)
(***************************************************************************)
FindsHost == [][FindLeastLoadedHost => picked' # NoHost]_vars

(***************************************************************************)
(* A launch ends: it "will fail only if fork() fails i.e. no more          *)
(* processes" (distlaunch.cc:127).                                         *)
(***************************************************************************)
SearchEnds == picked # "spins"
=============================================================================
