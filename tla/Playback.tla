------------------------------ MODULE Playback -----------------------------
(***************************************************************************)
(* The trace player: its scheduler and the files of its clients.           *)
(***************************************************************************)
EXTENDS Integers, Sequences, SequencesExt, FiniteSets
-----------------------------------------------------------------------------
(***************************************************************************)
(* The trace playback engine: the timer of playback/src/bp_timer.c and the *)
(* clients that playback_sched.c schedules on it.                          *)
(*                                                                         *)
(* A client's thread takes the next entry of its trace, puts it on the     *)
(* task queue and signals the dispatcher; the dispatcher sleeps until the  *)
(* first task is due and starts a thread for it, which does the same for   *)
(* the entry after it before it plays its own.  The queue is under         *)
(* taskq_mutex, the signal is not.  How far an entry lies ahead is a       *)
(* number up to the maximal delay; the requests themselves are left out.   *)
(***************************************************************************)
CONSTANTS
    Clients,
    MaxDelay,   \* tv_maxdelay
    Nap,        \* how long the dispatcher sleeps on an empty queue
    MaxNow,     \* bound on time
    MaxThreads  \* bound on threads that have yet to signal

VARIABLES
    now,
    taskq,      \* taskq: tasks [at, client]
    disp,       \* bp_timer_mainloop
    inj,        \* thread of a client that has not yet queued its next entry
    signals     \* threads that have yet to call bp_dispatch_signal

playVars == <<now, taskq, disp, inj, signals>>

Task == [at : Nat, client : Clients]
Awake == [pc |-> "check", until |-> 0]
NoThread == [pc |-> "none", at |-> 0]

\* The variables keep their types.
TypeOK ==
    /\ now \in 0 .. MaxNow
    /\ taskq \in Seq(Task)
    /\ disp.pc \in {"check", "wait"}
    /\ \A c \in Clients : inj[c].pc \in {"none", "inject", "add"}
    /\ signals \in 0 .. MaxThreads

PlayInit ==
    /\ now = 0 /\ taskq = <<>>
    /\ disp = Awake
    /\ inj = [c \in Clients |-> [NoThread EXCEPT !.pc = "inject"]]
    /\ signals = 0

Tick ==
    /\ now < MaxNow
    /\ now' = now + 1
    /\ UNCHANGED <<taskq, disp, inj, signals>>
-----------------------------------------------------------------------------
(* Clients: readfile_thrproc at first, timerplayproc from then on          *)

\* inject_client: the entry and its delay; bp_timer_add reads the clock.
Inject(c) ==
    /\ inj[c].pc = "inject"
    /\ \E d \in 0 .. MaxDelay : inj' = [inj EXCEPT ![c] = [pc |-> "add", at |-> now + d]]
    /\ UNCHANGED <<now, taskq, disp, signals>>

\* ll_sorted_insert goes before the first task that is not earlier.
Position_Last(t) == Len(taskq) + 1
Position(t) ==
    CHOOSE i \in 1 .. Len(taskq) + 1 :
       /\ \A j \in 1 .. i - 1 : taskq[j].at < t.at
       /\ i = Len(taskq) + 1 \/ t.at <= taskq[i].at

\* bp_timer_add
Add_NotSignalled(c) ==
    LET t == [at |-> inj[c].at, client |-> c]
    IN  /\ inj[c].pc = "add" /\ signals < MaxThreads
        /\ taskq' = InsertAt(taskq, Position(t), t)
        /\ inj' = [inj EXCEPT ![c] = NoThread]
        /\ UNCHANGED <<now, disp, signals>>
Add(c) ==
    LET t == [at |-> inj[c].at, client |-> c]
    IN  /\ inj[c].pc = "add" /\ signals < MaxThreads
        /\ taskq' = InsertAt(taskq, Position(t), t)
        /\ inj' = [inj EXCEPT ![c] = NoThread]
        /\ signals' = signals + 1
        /\ UNCHANGED <<now, disp>>

\* bp_dispatch_signal: nobody may be waiting for it
Signal ==
    /\ signals > 0
    /\ signals' = signals - 1
    /\ disp' = Awake
    /\ UNCHANGED <<now, taskq, inj>>
-----------------------------------------------------------------------------
(* The dispatcher.  It has the lock from the time it wakes until it sleeps *)
(* or starts a thread.                                                     *)

Due(t) == now >= t.at

\* The first task is due: bp_dispatch_task, and look again.
Dispatch_Kept ==
    /\ disp.pc = "check" /\ taskq # <<>> /\ Due(Head(taskq))
    /\ inj' = [inj EXCEPT ![Head(taskq).client] = [NoThread EXCEPT !.pc = "inject"]]
    /\ UNCHANGED <<now, taskq, disp, signals>>
Dispatch ==
    /\ disp.pc = "check" /\ taskq # <<>> /\ Due(Head(taskq))
    /\ taskq' = Tail(taskq)
    /\ inj' = [inj EXCEPT ![Head(taskq).client] = [NoThread EXCEPT !.pc = "inject"]]
    /\ UNCHANGED <<now, disp, signals>>

\* Nothing is due: sleep until the first task is, or for a while.
Sleep ==
    /\ disp.pc = "check" /\ ~(taskq # <<>> /\ Due(Head(taskq)))
    /\ disp' = [pc |-> "wait",
                until |-> IF taskq = <<>> THEN now + Nap ELSE Head(taskq).at]
    /\ UNCHANGED <<now, taskq, inj, signals>>

\* pthread_cond_timedwait times out.
TimeOut ==
    /\ disp.pc = "wait" /\ now >= disp.until
    /\ disp' = Awake
    /\ UNCHANGED <<now, taskq, inj, signals>>

PlayNext ==
    \/ Tick \/ Signal \/ Dispatch \/ Sleep \/ TimeOut
    \/ \E c \in Clients : Inject(c) \/ Add(c)

PlaySpec == PlayInit /\ [][PlayNext]_playVars
-----------------------------------------------------------------------------
Queued(c) == {i \in DOMAIN taskq : taskq[i].client = c}

\* timerplayproc "maintain[s] exactly one entry for this client on the
\* queue": a client has one task, or a thread that is about to add one.
OneEntryPerClient ==
    \A c \in Clients :
       IF inj[c].pc = "none" THEN \E i \in DOMAIN taskq : Queued(c) = {i} ELSE Queued(c) = {}

\* The condition variable is signalled after the queue is unlocked, and the
\* signal may find nobody waiting: still the dispatcher never sleeps past
\* the first task, unless the signal for it is on its way.
NeverOversleeps ==
    disp.pc = "wait" /\ signals = 0 /\ taskq # <<>> => disp.until <= Head(taskq).at

\* A task leaves the queue at its time or later, and before every task that
\* is due after it: bp_timer_add keeps the queue sorted whatever the order
\* in which threads get the lock after they have read the clock.
FirstDueLeaves ==
    Len(taskq') < Len(taskq) =>
       /\ Head(taskq).at <= now
       /\ \A i \in DOMAIN taskq : Head(taskq).at <= taskq[i].at

-----------------------------------------------------------------------------
(***************************************************************************)
(* The simulated clients of playback/src/simclient.c.  Each client reads   *)
(* its trace file through a cache of entries; the open files are held in a *)
(* list of descriptor slots that is meant to be in LRU order.              *)
(*                                                                         *)
(* suck_in_buffer_data runs with fd_buf_ptrs_mutex held, and a client has  *)
(* one thread at a time, so get_client_entry is one action.  A trace is    *)
(* the sequence 1 .. TraceLength; an offset in a file counts entries.      *)
(***************************************************************************)
CONSTANTS
    SimClients,
    TraceLength,    \* entries of a client's file
    CacheSize,      \* ENTRY_CACHE_SIZE
    NumFds,         \* NUM_FDS_USED, at least 2
    Nobody          \* a slot without a client

Slots == 1 .. NumFds
Nil == 0

VARIABLES
    valid, pos,     \* is_fd_valid, and where the open file stands
    offset,         \* curr_fd_offset
    cache, next,    \* entry_cache, entry_cache_offset
    owner,          \* entry_with_fd of a slot
    links,          \* prev and next of the slots, head, tail
    open,           \* history: descriptors that are open, with their clients
    last            \* history: the entry a client got last

simVars == <<valid, pos, offset, cache, next, owner, links, open, last>>

\* init_list_o_clients
SimInit ==
    /\ valid = [c \in SimClients |-> FALSE] /\ pos = [c \in SimClients |-> 0]
    /\ offset = [c \in SimClients |-> 0]
    /\ cache = [c \in SimClients |-> <<>>] /\ next = [c \in SimClients |-> 1]
    /\ owner = [s \in Slots |-> Nobody]
    /\ links = [prev |-> [s \in Slots |-> s - 1],
                next |-> [s \in Slots |-> IF s = NumFds THEN Nil ELSE s + 1],
                head |-> 1, tail |-> NumFds]
    /\ open = {} /\ last = [c \in SimClients |-> 0]
-----------------------------------------------------------------------------
\* lseek(fd, amount, whence): SEEK_SET is 0, SEEK_CUR is 1.
SEEK_SET == 0
SEEK_CUR == 1
Lseek(at, amount, whence) == IF whence = SEEK_SET THEN amount ELSE at + amount

\* "Do the LRU thing - move the end to the front": tail stays where it is.
MoveToFront(l) ==
    LET s == l.tail
    IN  [prev |-> [l.prev EXCEPT ![l.head] = s],
         next |-> [l.next EXCEPT ![l.prev[s]] = Nil, ![s] = l.head],
         head |-> s, tail |-> l.tail]

\* get_fd_for_client for a client with no open file: the slot's client loses
\* its descriptor.  Both calls of lseek have their last arguments swapped.
Evicted_LeftOpen(e) == [valid |-> valid, offset |-> offset, open |-> open]
Evicted(e) ==
    IF e # Nobody /\ valid[e]
      THEN [valid |-> [valid EXCEPT ![e] = FALSE],
            offset |-> [offset EXCEPT ![e] = Lseek(pos[e], SEEK_CUR, 0)],
            open |-> open \ {e}]
      ELSE [valid |-> valid, offset |-> offset, open |-> open]

FdForClient(c) ==
    LET s == links.tail
        e == Evicted(owner[s])
    IN  IF valid[c]
          THEN [valid |-> valid, offset |-> offset, open |-> open,
                links |-> links, owner |-> owner, pos |-> pos[c]]
          ELSE [valid |-> [e.valid EXCEPT ![c] = TRUE],
                offset |-> e.offset, open |-> e.open \cup {c},
                links |-> MoveToFront(links),
                owner |-> [owner EXCEPT ![s] = c],
                pos |-> Lseek(0, SEEK_SET, e.offset[c])]

\* suck_in_buffer_data: up to CacheSize entries from where the file stands;
\* at its end the file is closed, to start again from the beginning.
Filled(c, fd) ==
    LET n == IF TraceLength - fd.pos < CacheSize THEN TraceLength - fd.pos ELSE CacheSize
        atEnd == n < CacheSize
    IN  /\ cache' = [cache EXCEPT ![c] = [i \in 1 .. n |-> fd.pos + i]]
        /\ next' = [next EXCEPT ![c] = 1]
        /\ pos' = [pos EXCEPT ![c] = fd.pos + n]
        /\ valid' = IF atEnd THEN [fd.valid EXCEPT ![c] = FALSE] ELSE fd.valid
        /\ open' = IF atEnd THEN fd.open \ {c} ELSE fd.open
        /\ offset' = IF atEnd THEN [fd.offset EXCEPT ![c] = 0] ELSE fd.offset
        /\ links' = fd.links /\ owner' = fd.owner

Fill(c) ==
    /\ next[c] > Len(cache[c])
    /\ Filled(c, FdForClient(c))
    /\ UNCHANGED last

\* get_client_entry, once there is an entry in the cache
Take(c) ==
    /\ next[c] <= Len(cache[c])
    /\ last' = [last EXCEPT ![c] = cache[c][next[c]]]
    /\ next' = [next EXCEPT ![c] = @ + 1]
    /\ UNCHANGED <<valid, pos, offset, cache, owner, links, open>>

SimNext == \E c \in SimClients : Fill(c) \/ Take(c)

SimSpec == SimInit /\ [][SimNext]_simVars
-----------------------------------------------------------------------------
\* Evictions, ends of files and the order of the slots keep the descriptors
\* accounted for: a client's descriptor is open exactly while is_fd_valid is
\* set, some slot can find it, and there are never more than NUM_FDS_USED.
DescriptorsOwned ==
    /\ open = {c \in SimClients : valid[c]}
    /\ \A c \in open : \E s \in Slots : owner[s] = c
    /\ Cardinality(open) <= NumFds

\* simclient.h: "Get the next entry for the client.  Will wrap around the
\* traces if we should hit the end of the file."
EntriesInTurn ==
    [][\A c \in SimClients : last'[c] # last[c] =>
          last'[c] = (last[c] % TraceLength) + 1]_simVars
=============================================================================
