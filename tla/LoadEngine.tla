----------------------------- MODULE LoadEngine ----------------------------
(***************************************************************************)
(* The load generators of playback: the tasks that an engine runs at a     *)
(* given rate, and the connection on which it is told the rate.            *)
(***************************************************************************)
EXTENDS Naturals, Sequences, FiniteSets, SequencesExt
-----------------------------------------------------------------------------
(***************************************************************************)
(* The engines that play a trace at a given rate: bp_engine and            *)
(* wing_engine (playback/src/main.c, wingmain.c) and the requests they     *)
(* make (http_task.c).                                                     *)
(*                                                                         *)
(* A chain of timer threads (timeraddproc) paces the load: each one waits  *)
(* until no more than "ceiling" requests run, takes the next entry of the  *)
(* trace and queues both a request for it and its own successor.  The      *)
(* timer starts a thread for each; a request counts itself (numthreads)    *)
(* only once its thread runs.  Of a request the order of its system calls, *)
(* which of them fail and what is allocated are kept; an answer is a       *)
(* number of bytes.                                                        *)
(***************************************************************************)
CONSTANTS
    Engines,     \* subset of {"http", "wing"}
    Entries,     \* trace entries: [method, whole, html, valid, nocache, ims]
    ceiling,
    ReplySizes,  \* bytes a server answers
    CHUNK,       \* HTTP_TASK_READ_CHUNK
    MaxTasks     \* bound on the requests of a run

VARIABLES
    engine,
    pacer,          \* "none", "waiting" (its thread runs) or "queued"
    timer,          \* procedures in the order they fall due
    task,           \* the requests, by number: records
    numthreads, numconnecting, reqids,
    late            \* ghost: most requests not counted when the pacer passed

engineVars == <<engine, pacer, timer, task, numthreads, numconnecting, reqids, late>>

Number(s) == {n \in DOMAIN task : task[n].pc \in s}

Fresh(e) == [pc |-> "queued", entry |-> e, id |-> 0, sent |-> << >>, cursize |-> 0,
             curbuff |-> 0, left |-> 0, fd |-> FALSE, ldata |-> FALSE,
             url |-> TRUE, host |-> e.whole, res |-> 0]

EngineInit ==
    /\ engine \in Engines
    /\ pacer = "waiting" /\ timer = << >> /\ task = << >>
    /\ numthreads = 0 /\ numconnecting = 0 /\ reqids = 0 /\ late = 0

-----------------------------------------------------------------------------
(***************************************************************************)
(* timeraddproc.  The wing engine passes over entries that are not pages.  *)
(* Of two procedures due at the same time the timer starts the one that    *)
(* was queued last.                                                        *)
(***************************************************************************)
timeraddproc ==
    /\ pacer = "waiting" /\ Len(task) < MaxTasks
    /\ numthreads <= ceiling
    /\ \E e \in Entries :
         /\ engine = "wing" => e.html
         /\ task' = Append(task, Fresh(e))
    /\ timer' = timer \o <<0, Len(task) + 1>>
    /\ pacer' = "queued"
    /\ LET u == Cardinality(Number({"queued", "start"}))
       IN  late' = IF u > late THEN u ELSE late
    /\ UNCHANGED <<engine, numthreads, numconnecting, reqids>>

\* The timer starts a thread for what is due: 0 is the pacer.
Dispatch ==
    /\ timer # << >>
    /\ timer' = Tail(timer)
    /\ IF Head(timer) = 0
       THEN pacer' = "waiting" /\ UNCHANGED task
       ELSE /\ task' = [task EXCEPT ![Head(timer)].pc = "start"]
            /\ UNCHANGED pacer
    /\ UNCHANGED <<engine, numthreads, numconnecting, reqids, late>>

-----------------------------------------------------------------------------
IsBum(e) ==
    \/ ~e.valid
    \/ e.method \notin (IF engine = "wing" THEN {"GET"}
                        ELSE {"GET", "POST", "HEAD", "PUT"})

Set(n, r) == task' = [task EXCEPT ![n] = r]

\* timerproc: the thread counts itself, drops a bad entry, adds the host.
timerproc(n) ==
    /\ task[n].pc = "start"
    /\ numthreads' = numthreads + 1
    /\ Set(n, IF IsBum(task[n].entry)
              THEN [task[n] EXCEPT !.pc = "leave", !.url = FALSE]
              ELSE [task[n] EXCEPT !.pc = "socket", !.host = TRUE])
    /\ numconnecting' = numconnecting + (IF IsBum(task[n].entry) THEN 0 ELSE 1)
    /\ UNCHANGED <<engine, pacer, timer, reqids, late>>

Leave(n) ==
    /\ task[n].pc = "leave"
    /\ Set(n, [task[n] EXCEPT !.pc = "done"])
    /\ numthreads' = numthreads - 1
    /\ UNCHANGED <<engine, pacer, timer, numconnecting, reqids, late>>

\* socket, bind and connect, any of which may fail.
Connect(n) ==
    /\ \/ /\ task[n].pc \in {"socket", "bind"}
          /\ Set(n, [task[n] EXCEPT !.fd = TRUE,
                       !.pc = IF @ = "socket" THEN "bind" ELSE "connect"])
          /\ UNCHANGED numconnecting
       \/ /\ task[n].pc \in {"socket", "bind", "connect"}
          /\ Set(n, [task[n] EXCEPT !.pc = "free", !.fd = FALSE, !.res = 1])
          /\ numconnecting' = numconnecting - 1
       \/ /\ task[n].pc = "connect"
          /\ \/ engine = "http" /\ Set(n, [task[n] EXCEPT !.pc = "write"])
             \/ engine = "wing" /\ Set(n, [task[n] EXCEPT !.pc = "number"])
          /\ numconnecting' = numconnecting - 1
    /\ UNCHANGED <<engine, pacer, timer, numthreads, reqids, late>>

\* reqids++ of do_wingtask: read, then written, with no lock.
TakeId(n) ==
    \/ /\ task[n].pc = "number"
       /\ Set(n, [task[n] EXCEPT !.pc = "numbered", !.id = reqids])
       /\ UNCHANGED <<engine, pacer, timer, numthreads, numconnecting, reqids, late>>
    \/ /\ task[n].pc = "numbered"
       /\ reqids' = task[n].id + 1
       /\ Set(n, [task[n] EXCEPT !.pc = "write"])
       /\ UNCHANGED <<engine, pacer, timer, numthreads, numconnecting, late>>

\* What the request consists of, in the order it is written.
Pieces(e) ==
    IF engine = "wing" THEN <<"header", "url">>
    ELSE <<"url", "crlf", "common">>
         \o (IF e.nocache THEN <<"no-cache">> ELSE << >>)
         \o (IF e.ims THEN <<"if-modified-since">> ELSE << >>) \o <<"crlf">>

Write(n) ==
    LET t == task[n]
        p == Pieces(t.entry)
    IN  /\ t.pc = "write"
        /\ \/ /\ Set(n, [t EXCEPT !.pc = "free", !.fd = FALSE, !.res = 1])
           \/ /\ Len(t.sent) + 1 < Len(p)
              /\ Set(n, [t EXCEPT !.sent = Append(@, p[Len(t.sent) + 1])])
           \/ /\ Len(t.sent) + 1 = Len(p)
              /\ \E r \in ReplySizes :
                   Set(n, [t EXCEPT !.sent = Append(@, p[Len(t.sent) + 1]),
                                    !.pc = "read", !.left = r])
        /\ UNCHANGED <<engine, pacer, timer, numthreads, numconnecting, reqids,
                       late>>

\* The buffer grows when what was read fills it; one byte more is for the NUL.
Grown_Before(t) ==   \* grows at the wrong moment
    IF t.curbuff = 0 \/ (t.cursize % CHUNK = CHUNK - 1)
    THEN [t EXCEPT !.ldata = TRUE, !.curbuff = @ + CHUNK] ELSE t

Grown(t) ==
    IF t.cursize % CHUNK = 0
    THEN [t EXCEPT !.ldata = TRUE, !.curbuff = @ + CHUNK] ELSE t

Smaller(a, b) == IF a < b THEN a ELSE b

Read(n) ==
    LET t == Grown(task[n])
    IN  /\ t.pc = "read"
        /\ \/ /\ t.left > 0
              /\ \E k \in 1..Smaller(t.left, t.curbuff - t.cursize) :
                   Set(n, [t EXCEPT !.cursize = @ + k, !.left = @ - k])
           \/ \* end of the answer (0) or an error (-1)
              \/ t.left = 0 /\ Set(n, [t EXCEPT !.pc = "free", !.fd = FALSE])
              \/ Set(n, [t EXCEPT !.pc = "free", !.fd = FALSE, !.res = 2])
        /\ UNCHANGED <<engine, pacer, timer, numthreads, numconnecting, reqids,
                       late>>

\* timerproc frees the answer, if there is one, and the URL.
Free(n) ==
    /\ task[n].pc = "free"
    /\ Set(n, [task[n] EXCEPT !.pc = "leave", !.ldata = FALSE, !.url = FALSE])
    /\ UNCHANGED <<engine, pacer, timer, numthreads, numconnecting, reqids, late>>

Run(n) == \/ timerproc(n) \/ Leave(n) \/ Connect(n) \/ TakeId(n) \/ Write(n)
          \/ Read(n) \/ Free(n)

EngineNext == timeraddproc \/ Dispatch \/ \E n \in DOMAIN task : Run(n)

EngineSpec == EngineInit /\ [][EngineNext]_engineVars

-----------------------------------------------------------------------------
Counted == {"socket", "bind", "connect", "number", "numbered", "write", "read",
            "free", "leave"}

(***************************************************************************)
(* Both counters are exact: numthreads counts the requests that run and    *)
(* numconnecting those without a connection yet, on every error path.      *)
(***************************************************************************)
CountsAreExact ==
    /\ numthreads = Cardinality(Number(Counted))
    /\ numconnecting = Cardinality(Number({"socket", "bind", "connect"}))

(***************************************************************************)
(* The ceiling holds up to the one request added after the check and those *)
(* that had been queued but had not counted themselves when it was made.   *)
(***************************************************************************)
CeilingHolds == numthreads <= ceiling + 1 + late

\* A read stays inside the buffer and leaves room for the final NUL.
AnswerFits ==
    \A n \in Number({"read"}) :
        /\ task[n].cursize <= task[n].curbuff
        /\ LET t == Grown(task[n]) IN t.curbuff > t.cursize /\ t.curbuff % CHUNK = 0

\* A request that ended holds no descriptor, no answer and no URL.
NothingIsLeft ==
    \A n \in Number({"leave", "done"}) :
        ~task[n].fd /\ ~task[n].ldata /\ ~task[n].url

\* An answer is only read when the request was written as a whole.
AsksBeforeReading ==
    \A n \in Number({"read"}) : task[n].sent = Pieces(task[n].entry) /\ task[n].host

(***************************************************************************)
(* The engines keep their counts, their ceiling and their memory.          *)
(***************************************************************************)
EngineIsExact ==
    CountsAreExact /\ CeilingHolds /\ AnswerFits /\ NothingIsLeft /\ AsksBeforeReading

-----------------------------------------------------------------------------
\* Not so: the ceiling is the most requests that ever run at once.
CeilingIsTheMost == numthreads <= ceiling

\* Not so: "No memory is allocated on failure" (http_task.c:125): a read error.
FailureAllocatesNothing ==
    \A n \in Number({"free"}) : task[n].res # 0 => ~task[n].ldata

\* Not so: no two requests of the wing engine have the same number.
IdsAreUnique ==
    engine = "wing" =>
        \A n, o \in Number({"write", "read", "free"}) :
            n # o /\ task[n].sent # << >> /\ task[o].sent # << >>
                => task[n].id # task[o].id
-----------------------------------------------------------------------------
(***************************************************************************)
(* The rate of a load engine is set over a connection, a line at a time:   *)
(* speed_proc of playback/src/main.c and wingmain.c.  A line is read byte  *)
(* by byte into read_buf; its length is not limited there.  Bytes are      *)
(* digits, the letter "x" and the end of line "n".                         *)
(***************************************************************************)
CONSTANTS
    RateEngines,   \* subset of {"http", "wing"}
    Digits,    \* digits, as numbers
    BUFLEN,    \* length of read_buf
    MaxBytes   \* bound on the bytes sent on all connections

VARIABLES
    rateEngine, numpersecd,
    read_buf, i, startline,
    conn,      \* a connection is open
    line,      \* ghost: bytes since the last end of line on this connection
    bogus,     \* ghost: a line of this connection was not a number
    bytes

rateVars == <<rateEngine, numpersecd, read_buf, i, startline, conn, line, bogus, bytes>>

Bytes == Digits \X {"d"} \cup {<<0, "x">>, <<0, "n">>}

RateInit ==
    /\ rateEngine \in RateEngines /\ numpersecd = 1
    /\ read_buf = << >> /\ i = 0 /\ startline = 1
    /\ conn = FALSE /\ line = << >> /\ bogus = FALSE /\ bytes = 0

\* sscanf "%lf": the digits the text begins with.
IsNumber(t) == t # << >> /\ t[1][2] = "d"
NumberOf(t) ==
    FoldLeft(LAMBDA s, c : IF s.on /\ c[2] = "d" THEN [n |-> 10 * s.n + c[1], on |-> TRUE]
                           ELSE [s EXCEPT !.on = FALSE],
             [n |-> 0, on |-> TRUE], t).n

saccept ==
    /\ ~conn /\ bytes < MaxBytes
    /\ conn' = TRUE
    /\ i' = 0 /\ startline' = 1 /\ line' = << >> /\ bogus' = FALSE
    /\ read_buf' = << >>      \* an array of the block: its old bytes are not read
    /\ UNCHANGED <<rateEngine, numpersecd, bytes>>

\* What read_buf holds as a string once position i is set.
Put(c) == Append(SubSeq(read_buf, 1, i), c)

EndLine_KeepsLine ==   \* a good line does not start the buffer anew
    /\ numpersecd' = IF IsNumber(read_buf) THEN NumberOf(read_buf) ELSE numpersecd
    /\ bogus' = (bogus \/ ~IsNumber(read_buf))
    /\ UNCHANGED <<i, startline, read_buf>>

EndLine ==
    LET text == SubSeq(read_buf, 1, i)
        good == IsNumber(text) /\ ~(rateEngine = "wing" /\ bogus)
    IN  /\ numpersecd' = IF good THEN NumberOf(text) ELSE numpersecd
        /\ i' = IF good THEN 0 ELSE i
        /\ startline' = IF good THEN 1 ELSE startline
        /\ bogus' = (bogus \/ ~good)
        /\ UNCHANGED read_buf

ReadByte(c) ==
    /\ conn /\ bytes < MaxBytes /\ i < BUFLEN
    /\ bytes' = bytes + 1
    /\ line' = IF c[2] = "n" THEN << >> ELSE Append(line, c)
    /\ \/ c[2] = "n" /\ startline = 1 /\ UNCHANGED <<numpersecd, read_buf, i, startline, bogus>>
       \/ c[2] = "n" /\ startline = 0 /\ EndLine
       \/ /\ c[2] # "n"
          /\ read_buf' = Put(c) /\ i' = i + 1 /\ startline' = 0
          /\ UNCHANGED <<numpersecd, bogus>>
    /\ UNCHANGED <<rateEngine, conn>>

\* End of the connection: what was read of an unfinished line is dropped.
Closed ==
    /\ conn
    /\ conn' = FALSE /\ line' = << >> /\ bogus' = FALSE
    /\ read_buf' = << >> /\ i' = 0 /\ startline' = 1
    /\ UNCHANGED <<rateEngine, numpersecd, bytes>>

RateNext == saccept \/ Closed \/ \E c \in Bytes : ReadByte(c)

RateSpec == RateInit /\ [][RateNext]_rateVars

-----------------------------------------------------------------------------
(***************************************************************************)
(* Until a connection sends a line that is no number, every line that is   *)
(* one sets the rate to it; empty lines, a line that the connection does   *)
(* not end and every later connection change nothing else.                 *)
(***************************************************************************)
RateFromLine ==
    /\ (conn /\ conn' /\ ~bogus /\ bytes' = bytes + 1 /\ line # << >> /\ line' = << >>
        /\ IsNumber(line))
          => numpersecd' = NumberOf(line)
    /\ (numpersecd' # numpersecd)
          => (conn /\ line' = << >> /\ IsNumber(line) /\ numpersecd' = NumberOf(line))

-----------------------------------------------------------------------------
(***************************************************************************)
(* Not so: "bogus data %s, ignoring" (main.c:245): the buffer is not       *)
(* started anew, so every later line of the connection is lost as well.    *)
(***************************************************************************)
BogusIsIgnored ==
    [][ (conn /\ conn' /\ bytes' = bytes + 1 /\ line # << >> /\ line' = << >>
         /\ IsNumber(line)) => numpersecd' = NumberOf(line) ]_rateVars

\* Not so: a line fits into read_buf; nothing limits i.
LineFits == i < BUFLEN
=============================================================================
