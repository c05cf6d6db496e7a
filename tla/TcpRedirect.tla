----------------------------- MODULE TcpRedirect ----------------------------
(***************************************************************************)
(* tcp_redirect: one thread that accepts connections of clients, opens one *)
(* to a front end for each, and copies data both ways, in a loop around    *)
(* select (tcp_redirect.c, connections.c, proxies.c).                      *)
(*                                                                         *)
(* What a call on a socket returns is the environment's choice; the number *)
(* of a new descriptor is the lowest that is free.  The loop looks at the  *)
(* descriptors select reported in ascending order, and a handler may close *)
(* or open descriptors that the loop has yet to come to.                   *)
(*                                                                         *)
(* Left out: a write that returns 0 (sockets do not for a positive count), *)
(* exceptions (the exception set is always empty), and clock arithmetic:   *)
(* which disabled front ends have waited long enough is a choice.          *)
(***************************************************************************)
EXTENDS Integers, FiniteSets, FiniteSetsExt

CONSTANTS
    NumFds,     \* descriptors are 1 .. NumFds, besides the listening one
    NumFe,      \* num_fe: front ends are 1 .. NumFe, in the order of fe_list
    MaxClients, \* bound on connections of clients
    MaxFails,   \* bound on connections to front ends that fail
    MaxLen      \* READ_BLOCKSIZE

Fds == 1 .. NumFds
Servers == 1 .. NumFe
Nobody == 0

VARIABLES
    conn,       \* connections
    rd, wr,     \* read_fds, write_fds
    loop,       \* where the thread is
    avail,      \* front ends with available = 1
    enabled,    \* num_enabled
    round,      \* static variable of get_proxy
    fails, clients

vars == <<conn, rd, wr, loop, avail, enabled, round, fails, clients>>
hosts == <<avail, enabled, round, fails>>

\* A conn_st; who is, as history, the client the descriptor is for, and
\* from the client whose data is in its buffer.
Cleared == [open |-> FALSE, dir |-> "in", other |-> Nobody, forged |-> FALSE,
            otherOpen |-> FALSE, host |-> Nobody, len |-> 0,
            who |-> Nobody, from |-> Nobody]

AtSelect == [pc |-> "select", r |-> {}, w |-> {}, fd |-> Nobody]

Init ==
    /\ conn = [f \in Fds |-> Cleared] /\ rd = {} /\ wr = {}
    /\ loop = AtSelect
    /\ avail = Servers /\ enabled = NumFe /\ round = 0
    /\ fails = 0 /\ clients = 0

Free == {f \in Fds : ~conn[f].open}
-----------------------------------------------------------------------------
(* Front ends (proxies.c)                                                  *)

\* disable_proxy does not look whether the host is disabled already.
Disabled(h) ==
    /\ avail' = avail \ {h}
    /\ enabled' = enabled - 1
    /\ fails' = fails + 1
    /\ UNCHANGED round

Abs(n) == IF n < 0 THEN -n ELSE n

\* The host that get_proxy finds among those available: the i-th
Nth(av, i) ==
    CHOOSE h \in av \cup {Nobody} :
       IF i < Cardinality(av)
         THEN h \in av /\ Cardinality({g \in av : g < h}) = i
         ELSE h = Nobody
-----------------------------------------------------------------------------
(* Closing                                                                 *)

\* cleanup_fd for each of a set of descriptors
CleanedUp_BufferKept(fs) ==
    [f \in Fds |->
       IF f \in fs THEN [Cleared EXCEPT !.len = conn[f].len, !.from = conn[f].from]
       ELSE IF \E g \in fs : conn[g].otherOpen /\ conn[g].other = f
         THEN [conn[f] EXCEPT !.otherOpen = FALSE]
       ELSE conn[f]]
CleanedUp(fs) ==
    [f \in Fds |->
       IF f \in fs THEN Cleared
       ELSE IF \E g \in fs : conn[g].otherOpen /\ conn[g].other = f
         THEN [conn[f] EXCEPT !.otherOpen = FALSE]
       ELSE conn[f]]

Cleanup(fs) ==
    /\ conn' = CleanedUp(fs)
    /\ rd' = rd \ fs /\ wr' = wr \ fs

\* The descriptor and, if that is open, the other
Both_OneSided(f) == {f}
Both(f) == IF conn[f].otherOpen THEN {f, conn[f].other} ELSE {f}

Scan(l) == loop' = l
-----------------------------------------------------------------------------
(* forge_proxy_connect: one round of its loop for client descriptor s      *)

Linked(s, o, h, now) ==
    [conn EXCEPT
       ![s] = [@ EXCEPT !.dir = "in", !.forged = FALSE, !.len = 0,
                        !.otherOpen = TRUE, !.other = o, !.host = h],
       ![o] = [@ EXCEPT !.open = TRUE, !.dir = "out", !.other = s, !.forged = now,
                        !.otherOpen = TRUE, !.host = h, !.len = 0,
                        !.who = conn[s].who]]

\* The loop goes on where it was when the connection was forged.
Resumed == [loop EXCEPT !.pc = "scan", !.fd = Nobody]

\* No host, no socket, or no bind: close(stalk) and nothing else
GiveUp(s) ==
    /\ conn' = [conn EXCEPT ![s] = [@ EXCEPT !.open = FALSE, !.dir = "in", !.len = 0,
                                             !.forged = FALSE, !.otherOpen = TRUE]]
    /\ Scan(Resumed)
    /\ UNCHANGED <<rd, wr>>

Forge ==
    /\ loop.pc = "forge"
    /\ \E due \in SUBSET (Servers \ avail) :
         LET s == loop.fd
             retry == IF enabled = 0 THEN due ELSE {}  \* try_enable in get_proxy
             av == avail \cup retry
             en == enabled + Cardinality(retry)
             h == IF en = 0 THEN Nobody ELSE Nth(av, round % Abs(en))
             o == Min(Free)
         IN  /\ enabled # 0 => due = {}
             /\ UNCHANGED clients
             /\ \/ /\ GiveUp(s)
                   /\ avail' = av /\ enabled' = en
                   /\ round' = IF en = 0 THEN round ELSE (round + 1) % NumFe
                   /\ UNCHANGED fails
                \/ /\ h # Nobody /\ Free # {}
                   /\ round' = (round + 1) % NumFe
                   /\ \/ \E now \in BOOLEAN :   \* connected, or in progress
                           /\ conn' = Linked(s, o, h, now)
                           /\ rd' = IF now THEN rd \cup {s, o} ELSE rd
                           /\ wr' = IF now THEN wr ELSE wr \cup {o}
                           /\ avail' = av /\ enabled' = en
                           /\ Scan(Resumed)
                           /\ UNCHANGED fails
                      \/ /\ fails < MaxFails     \* refused: try another
                         /\ avail' = av \ {h} /\ enabled' = en - 1
                         /\ fails' = fails + 1
                         /\ UNCHANGED <<conn, rd, wr, loop>>
-----------------------------------------------------------------------------
(* The loop                                                                *)

\* handle_incoming: a client is accepted, and select reported r and w besides.
HandleIncoming(r, w) ==
    /\ clients < MaxClients /\ Free # {}
    /\ clients' = clients + 1
    /\ conn' = [conn EXCEPT ![Min(Free)].open = TRUE,
                            ![Min(Free)].who = clients + 1]
    /\ Scan([pc |-> "forge", r |-> r, w |-> w, fd |-> Min(Free)])

\* select, which may fail as accept may: then there is nothing to handle.
\* handle_incoming comes first.
Select ==
    /\ loop.pc = "select"
    /\ \E r \in SUBSET rd, w \in SUBSET wr :
         \/ /\ Scan([AtSelect EXCEPT !.pc = "scan", !.r = r, !.w = w])
            /\ UNCHANGED <<conn, clients>>
         \/ HandleIncoming(r, w)
    /\ UNCHANGED <<rd, wr, hosts>>

\* The descriptor the loop comes to next, and what remains after it
At == Min(loop.r \cup loop.w)
PassedRead == [loop EXCEPT !.r = @ \ {At}]
PassedWrite == [loop EXCEPT !.w = @ \ {At}]

\* A bit of select's answer that a handler has since taken off the set
Stale ==
    /\ loop.pc = "scan" /\ loop.r \cup loop.w # {}
    /\ \/ At \in loop.r \ rd /\ Scan(PassedRead)
       \/ At \notin loop.r /\ At \notin wr /\ Scan(PassedWrite)
    /\ UNCHANGED <<conn, rd, wr, hosts, clients>>

\* try_enable at the end of the loop
TryEnable ==
    /\ loop.pc = "scan" /\ loop.r \cup loop.w = {}
    /\ \E due \in SUBSET (Servers \ avail) :
         avail' = avail \cup due /\ enabled' = enabled + Cardinality(due)
    /\ Scan(AtSelect)
    /\ UNCHANGED <<conn, rd, wr, round, fails, clients>>

\* handle_unforged, with the loop as it goes on after it
Unforged(f, l) ==
    \/ conn[f].dir = "in" /\ Scan(l) /\ UNCHANGED <<conn, rd, wr, hosts>>
    \/ /\ conn[f].dir = "out"
       /\ \/ /\ conn' = [conn EXCEPT ![f].forged = TRUE, ![conn[f].other].forged = TRUE]
             /\ rd' = rd \cup {f, conn[f].other} /\ wr' = wr \ {f}
             /\ Scan(l) /\ UNCHANGED hosts
          \/ Scan(l) /\ UNCHANGED <<conn, rd, wr, hosts>>      \* EINTR
          \/ Cleanup(Both(f)) /\ Scan(l) /\ UNCHANGED hosts    \* end, or a byte
          \/ /\ fails < MaxFails                               \* refused
             /\ Disabled(conn[f].host)
             /\ Cleanup({f})
             /\ Scan(IF conn[f].otherOpen THEN [l EXCEPT !.pc = "forge", !.fd = conn[f].other]
                     ELSE l)

\* conn_read.  After EAGAIN the -1 that read returned stays in data_len.
ConnRead ==
    /\ loop.pc = "scan" /\ loop.r \cup loop.w # {} /\ At \in loop.r /\ At \in rd
    /\ UNCHANGED clients
    /\ LET f == At
           o == conn[f].other
       IN  IF ~conn[f].forged THEN Unforged(f, PassedRead)
           ELSE /\ Scan(PassedRead) /\ UNCHANGED hosts
                /\ IF ~conn[f].otherOpen THEN Cleanup({f})
                   ELSE IF conn[o].len # 0 THEN wr' = wr \cup {o} /\ UNCHANGED <<conn, rd>>
                   ELSE \/ Cleanup(Both(f))                    \* end of file, error
                        \/ conn' = [conn EXCEPT ![o].len = -1] /\ UNCHANGED <<rd, wr>>
                        \/ \E n \in 1 .. MaxLen :
                             /\ conn' = [conn EXCEPT ![o].len = n, ![o].from = conn[f].who]
                             /\ rd' = rd \ {f} /\ wr' = wr \cup {o}

\* conn_write
Drained_NotResumed(f) ==
    /\ conn' = [conn EXCEPT ![f].len = 0, ![f].from = Nobody]
    /\ wr' = wr \ {f} /\ UNCHANGED rd
Drained(f) ==
    IF conn[f].otherOpen
      THEN /\ conn' = [conn EXCEPT ![f].len = 0, ![f].from = Nobody]
           /\ wr' = wr \ {f} /\ rd' = rd \cup {conn[f].other}
      ELSE Cleanup({f})

ConnWrite ==
    /\ loop.pc = "scan" /\ loop.r \cup loop.w # {} /\ At \notin loop.r /\ At \in wr
    /\ UNCHANGED clients
    /\ LET f == At
       IN  IF ~conn[f].forged THEN Unforged(f, PassedWrite)
           ELSE /\ Scan(PassedWrite) /\ UNCHANGED hosts
                /\ \/ conn[f].len = 0 /\ UNCHANGED <<conn, rd, wr>>
                   \/ conn[f].len # 0 /\ Cleanup(Both(f))      \* error
                   \/ conn[f].len > 0 /\ UNCHANGED <<conn, rd, wr>>
                   \/ conn[f].len > 1 /\ conn' = [conn EXCEPT ![f].len = @ - 1]
                                      /\ UNCHANGED <<rd, wr>>
                   \/ conn[f].len > 0 /\ Drained(f)

Next == Select \/ Stale \/ TryEnable \/ Forge \/ ConnRead \/ ConnWrite

Spec == Init /\ [][Next]_vars
-----------------------------------------------------------------------------
\* The state that is not being changed: no connection is being forged.
Settled == loop.pc # "forge"

\* Closing and re-using descriptors in the middle of the loop leaves the two
\* ends of a connection pointing at each other, and both for one client.
EndsMatch ==
    Settled => \A f \in Fds : conn[f].open =>
       LET o == conn[f].other
       IN  /\ conn[f].otherOpen /\ o \in Fds /\ conn[o].open
           /\ conn[o].other = f /\ conn[o].dir # conn[f].dir
           /\ conn[o].who = conn[f].who

\* Data goes to the client, or for the client, that it came from.
NoCrossTalk == \A f \in Fds : conn[f].open /\ conn[f].len > 0 => conn[f].from = conn[f].who

\* select waits for something on every connection, data in a buffer is
\* waited for to be written, and closed descriptors are not waited for.
NoneForgotten ==
    Settled => \A f \in Fds :
       /\ conn[f].open => {f, conn[f].other} \cap (rd \cup wr) # {}
       /\ conn[f].open /\ conn[f].len > 0 => f \in wr
       /\ f \in rd \cup wr => conn[f].open

\* proxies.h says that disable_proxy returns "-1 if the proxy is already
\* disabled": num_enabled counts the front ends that are available.
EnabledCounts == enabled = Cardinality(avail)
=============================================================================
