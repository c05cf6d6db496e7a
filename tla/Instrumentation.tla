--------------------------- MODULE Instrumentation ---------------------------
(***************************************************************************)
(* The front end's instrumentation (frontend/src/thr_mon.c).  Each worker  *)
(* thread owns one Inst record: the run state it last announced, and a     *)
(* pair of milestone buffers that it fills alternately.  A monitoring      *)
(* thread reads the run states of all the others without a lock and sends  *)
(* what changed, with a few states in round-robin order, to a monitor in a *)
(* datagram that may be lost.                                              *)
(***************************************************************************)
EXTENDS Naturals

CONSTANTS NThreads,      \* nthreads
          NumAsymptote,  \* NUM_ASYMPTOTE
          States,        \* the run states, thread_state_t
          Idle,          \* THR_IDLE
          Unknown,       \* "not in the message", "the monitor never heard"
          Timed,         \* the threads whose requests are timed
          Lossy          \* may the network lose a report?

Threads == 0 .. NThreads - 1
Buffers == {0, 1}
Other(b) == 1 - b

VARIABLES state,      \* thread_inst[t].state
          which,      \* thread_inst[t].which_buffer
          readable,   \* thread_inst[t].readable
          ms,         \* thread_inst[t].ms: "empty", "filling" or "finished"
          pc,         \* the monitoring thread's place in compute_thread_state_deltas
          i,          \* its loop variable
          asymptote,  \* the first thread of this report's round-robin part
          old,        \* old_thread_state
          msg,        \* the last state of each thread in the message, or Unknown
          view        \* what the monitor believes

inst == <<which, readable, ms>>
report == <<pc, i, asymptote, old, msg, view>>
vars == <<state, inst, report>>

TypeOK ==
    /\ state \in [Threads -> States]
    /\ which \in [Threads -> Buffers]
    /\ readable \in [Threads -> [Buffers -> BOOLEAN]]
    /\ ms \in [Threads -> [Buffers -> {"empty", "filling", "finished"}]]
    /\ pc \in {"copy", "compare", "format", "store", "refresh", "send"}
    /\ i \in Nat
    /\ asymptote \in Threads
    /\ old \in [Threads -> States]
    /\ msg \in [Threads -> States \cup {Unknown}]
    /\ view \in [Threads -> States \cup {Unknown}]

\* inst_init clears every record; the monitoring thread starts at once.
Init ==
    /\ state = [t \in Threads |-> Idle]
    /\ which = [t \in Threads |-> 0]
    /\ readable = [t \in Threads |-> [b \in Buffers |-> FALSE]]
    /\ ms = [t \in Threads |-> [b \in Buffers |-> "empty"]]
    /\ pc = "copy"
    /\ i = 0
    /\ asymptote = 0
    /\ old = [t \in Threads |-> Idle]
    /\ msg = [t \in Threads |-> Unknown]
    /\ view = [t \in Threads |-> Unknown]

-----------------------------------------------------------------------------
(***************************************************************************)
(* The worker threads, each on its own record.                             *)
(***************************************************************************)
INST_set_thread_state(t) ==
    /\ \E s \in States \ {state[t]} : state' = [state EXCEPT ![t] = s]
    /\ UNCHANGED <<inst, report>>

\* Deviation: the buffer taken over stays marked as readable.
BeginBuffer_LeftReadable(t, b) ==
    /\ which' = [which EXCEPT ![t] = b]
    /\ ms' = [ms EXCEPT ![t][b] = "filling"]
    /\ UNCHANGED readable

\* The buffer to fill is wiped, and is not readable while it is filled.
BeginBuffer(t, b) ==
    /\ which' = [which EXCEPT ![t] = b]
    /\ ms' = [ms EXCEPT ![t][b] = "filling"]
    /\ readable' = [readable EXCEPT ![t][b] = FALSE]

\* A request starts: the next buffer, or the other one if that is readable.
INST_begin_timestamp(t) ==
    /\ ms[t][which[t]] # "filling"
    /\ BeginBuffer(t, IF readable[t][which[t]] THEN Other(which[t])
                                               ELSE which[t])
    /\ UNCHANGED <<state, report>>

\* A request ends: its buffer may be read, the other one is next.
INST_end_timestamp(t) ==
    /\ ms[t][which[t]] = "filling"
    /\ ms' = [ms EXCEPT ![t][which[t]] = "finished"]
    /\ readable' = [readable EXCEPT ![t][which[t]] = TRUE]
    /\ which' = [which EXCEPT ![t] = Other(@)]
    /\ UNCHANGED <<state, report>>

-----------------------------------------------------------------------------
(***************************************************************************)
(* compute_thread_state_deltas.  It reads a thread's state up to three     *)
(* times, to compare it, to print it and to remember it, and the thread    *)
(* may change it in between.                                               *)
(***************************************************************************)
GoTo(place, n) ==
    /\ pc' = place
    /\ i' = n

\* The next thread of a loop over all threads, or the place after the loop.
NextThread(loop, after) ==
    IF i + 1 < NThreads THEN GoTo(loop, i + 1) ELSE GoTo(after, 0)

\* The first report begins by copying the states; it does not send them.
CopyStates ==
    /\ pc = "copy"
    /\ old' = [old EXCEPT ![i] = state[i]]
    /\ NextThread("copy", "compare")
    /\ UNCHANGED <<state, inst, asymptote, msg, view>>

Compare ==
    /\ pc = "compare"
    /\ IF state[i] # old[i] THEN GoTo("format", i)
                            ELSE NextThread("compare", "refresh")
    /\ UNCHANGED <<state, inst, asymptote, old, msg, view>>

FormatDelta ==
    /\ pc = "format"
    /\ msg' = [msg EXCEPT ![i] = state[i]]
    /\ GoTo("store", i)
    /\ UNCHANGED <<state, inst, asymptote, old, view>>

StoreState ==
    /\ pc = "store"
    /\ old' = [old EXCEPT ![i] = state[i]]
    /\ NextThread("compare", "refresh")
    /\ UNCHANGED <<state, inst, asymptote, msg, view>>

\* The round-robin part names NumAsymptote threads whatever their state.
Refresh ==
    /\ pc = "refresh"
    /\ LET j == (asymptote + i) % NThreads
       IN  msg' = [msg EXCEPT ![j] = state[j]]
    /\ IF i + 1 < NumAsymptote THEN GoTo("refresh", i + 1) ELSE GoTo("send", 0)
    /\ UNCHANGED <<state, inst, asymptote, old, view>>

\* Deviation: every report refreshes the same threads.
NextAsymptote_Same == asymptote

\* Deviation: the position is not taken modulo the number of threads.
NextAsymptote_NoWrap == asymptote + NumAsymptote

\* Where thread_mon_proc lets the next report's round-robin part begin.
NextAsymptote == (asymptote + NumAsymptote) % NThreads

\* After the report thread_mon_proc sleeps and starts on the next one.
NextReport ==
    /\ pc = "send"
    /\ GoTo("compare", 0)
    /\ asymptote' = NextAsymptote
    /\ msg' = [t \in Threads |-> Unknown]
    /\ UNCHANGED <<state, inst, old>>

Delivered ==
    /\ NextReport
    /\ view' = [t \in Threads |-> IF msg[t] = Unknown THEN view[t] ELSE msg[t]]

Lost ==
    /\ Lossy
    /\ NextReport
    /\ UNCHANGED view

-----------------------------------------------------------------------------
Worker(t) ==
    \/ INST_set_thread_state(t)
    \/ t \in Timed /\ (INST_begin_timestamp(t) \/ INST_end_timestamp(t))

ComputeReport ==
    \/ CopyStates
    \/ Compare
    \/ FormatDelta
    \/ StoreState
    \/ Refresh

thread_mon_proc ==
    \/ ComputeReport
    \/ Delivered
    \/ Lost

Next ==
    \/ \E t \in Threads : Worker(t)
    \/ thread_mon_proc

Spec == Init /\ [][Next]_vars

(***************************************************************************)
(* The monitoring thread never blocks.  The network may lose any report    *)
(* but not, from some time on, every report that starts its round-robin    *)
(* part at the same thread.  Nothing is assumed of the workers.            *)
(***************************************************************************)
Fairness ==
    /\ WF_vars(thread_mon_proc)
    /\ \A a \in Threads : SF_vars(Delivered /\ asymptote = a)

FairSpec == Spec /\ Fairness

-----------------------------------------------------------------------------
(***************************************************************************)
(* Properties.                                                             *)
(***************************************************************************)

(***************************************************************************)
(* A buffer marked readable holds the milestones of a finished request: it *)
(* is never the one the thread is writing, whatever was left readable by   *)
(* the requests before (INST_begin_timestamp, INST_end_timestamp).         *)
(***************************************************************************)
ReadableIsFinished ==
    \A t \in Threads, b \in Buffers : readable[t][b] => ms[t][b] = "finished"

(***************************************************************************)
(* thr_cntl.h:63: "the invariant is that at most one buffer from each pair *)
(* will have this field set at any time".                                  *)
(***************************************************************************)
AtMostOneReadable ==
    \A t \in Threads : ~(readable[t][0] /\ readable[t][1])

(***************************************************************************)
(* "Asymptotically reliable updates" (thr_mon.c:298): the monitor ends up  *)
(* with the state of every thread that stops changing it, for all the      *)
(* reports that are lost and all the changes that slip in between two      *)
(* reads of the same state.                                                *)
(***************************************************************************)
MonitorCatchesUp ==
    \A t \in Threads, s \in States :
        <>[](state[t] = s) => <>[](view[t] = s)
=============================================================================
