------------------------------ MODULE MCTools -------------------------------
(***************************************************************************)
(* Data structures, protocols and small programs, for TLC in one run.      *)
(* They share no state.  Init chooses the part that is run; it uses as     *)
(* many of the slots s1 .. s13 as it has variables, and the slots left are *)
(* zero.  The pool of machines (HostPool) keeps its own variables, which   *)
(* stay as they are while another part is run.                             *)
(***************************************************************************)
EXTENDS HostPool

CONSTANTS host_a, host_b, host_c

\* Machines with priorities 0, 0 and 1, in any order
Machines == {host_a, host_b, host_c}
Priorities == [h \in Machines |-> IF h = host_c THEN 1 ELSE 0]
Reordered == {<<host_a, host_b, host_c>>, <<host_c, host_a, host_b>>,
              <<host_b, host_a, host_c>>}

UpTo(n, S) == UNION {[1 .. k -> S] : k \in 0 .. n}

\* Messages whose numbers and data hold the bytes that delimit text, too
Arguments == [type : {"int"}, id : {1}, val : {0, 31868}]
              \cup [type : {"string"}, id : {124}, val : {<< >>, <<124>>, <<47, 65>>}]
              \cup [type : {"double"}, id : {2}, val : {-9876, 4, 996}]
              \cup [type : {"other"}, id : {3}, val : {0}]
Contents == UpTo(2, {0, 124})
MimeTypes == {<< >>, <<65, 47>>}
SomeInputs == [kind : {"input"}, args : UpTo(2, Arguments), data : Contents,
               meta : UpTo(1, {0, 65}), mime : MimeTypes]
SomeOutputs == [kind : {"output"}, status : {0, 124}, data : Contents,
                meta : Contents, mime : MimeTypes]
KnownDistillers == [rid : [ip : {<<65>>}, port : {1, 47}], type : MimeTypes,
                    load : {0, 12}, threshold : {7}, awake : BOOLEAN]
SomeBeacons == [kind : {"beacon"}, ptm : [ip : {<<65, 66>>}, port : {1, 80}],
                random : {0, 31868}, list : UpTo(2, KnownDistillers)]

\* Bodies with the ends of lines that end a header
SomeBodies == UpTo(2, {"N", "R", "c"})
               \cup {<<"R", "N", "R", "N">>, <<"c", "N", "N", "c">>, <<"c", "R", "R", "c">>}

\* Lines of a log: a request to read, one with a body, one that is invalid
LogEntry(m, w, h, v, c, i) ==
    [method |-> m, whole |-> w, html |-> h, valid |-> v, nocache |-> c, ims |-> i]
LogEntries == {LogEntry("GET", FALSE, TRUE, TRUE, TRUE, FALSE),
               LogEntry("POST", TRUE, FALSE, TRUE, FALSE, TRUE),
               LogEntry("GET", TRUE, TRUE, FALSE, FALSE, FALSE)}

\* Requests for a user's preferences, with good, bad, new and removed ones
Token(f, t, i, v) == [form |-> f, type |-> t, id |-> i, value |-> v]
PrefRequest(s, q, k) == [set |-> s, query |-> q, tokens |-> k]
PrefRequests ==
    {PrefRequest(FALSE, FALSE, << >>), PrefRequest(TRUE, FALSE, << >>),
     PrefRequest(TRUE, TRUE, << >>)}
    \cup {PrefRequest(TRUE, TRUE, k) : k \in {
        <<Token("name=val", "i", 1, "7"), Token("name=val", "s", 2, "junk")>>,
        <<Token("name=val", "i", 2, "8"), Token("name=val", "i", 3, "8"),
          Token("name=val", "i", 1, ""), Token("name=val", "i", 3, "9")>>,
        <<Token("name=val", "i", 2, "7"), Token("bad", "i", 3, "8")>>,
        <<Token("name=val", "i", 2, "7"), Token("name=val", "i", 1, "junk")>>,
        <<Token("name=val", "f", 2, ""), Token("name=val", "other", 1, "7")>>}}

\* Texts and arguments for a script: braces, a zero byte, an id used twice
ScriptTexts == {<< >>, <<"a", "a">>, <<"a", "{", "a", "}">>, <<"{", "a">>, <<"a", "0", "a">>}
ScriptArg(t, i, v) == [type |-> t, id |-> i, value |-> v]
ScriptArgs == {<< >>, <<ScriptArg("i", 1, 7), ScriptArg("f", 2, 14)>>,
               <<ScriptArg("i", 1, 8), ScriptArg("s", 1, 3), ScriptArg("i", 1, 9)>>}

\* Contents of an options file; names that share a bucket, a negative hash value
OptionFiles ==
    {<< >>,
     <<<<"multicast", "short">>, <<"hosts", "a">>, <<"hosts", "b">>>>,
     <<<<"hosts", "b">>, <<"multicast", "long">>, <<"hosts", "a">>, <<"listen", "">>,
       <<"hosts", "a">>>>,
     <<<<"multicast", "short">>, <<"multicast", "long">>>>,
     <<<<"rsh", "a">>, <<"listen", "a">>, <<"listen", "short">>>>,
     <<<<"rsh", "">>, <<"optfile", "a">>>>}
OptionHash == [k \in {"hosts", "rsh", "optfile", "multicast", "listen",
                      "multicast.ip", "listen.ip"} |->
                  CASE k = "hosts" -> 1 [] k = "rsh" -> -1 [] k = "optfile" -> 3
                    [] OTHER -> 2]

\* Four records under two keys each
RecordKeys == <<<<"a", "a", "b", "c">>, <<"x", "y", "x", "z">>>>
RecordHash == [k \in {"a", "b", "c", "x", "y", "z"} |->
                  CASE k = "a" -> 1 [] k = "b" -> -1 [] k = "c" -> 2
                    [] k = "x" -> 0 [] k = "y" -> -2 [] OTHER -> 3]

VARIABLES
    part,       \* the part that is run
    s1, s2, s3, s4, s5, s6, s7, s8, s9, s10, s11, s12, s13

toolVars == <<part, vars, s1, s2, s3, s4, s5, s6, s7, s8, s9, s10, s11, s12, s13>>

DS == INSTANCE DataStructures WITH
    Data <- {"d", "e"}, MaxNodes <- 3, None <- "none", MaxKey <- 7,
    Elements <- {1, 2}, NumSlots <- 2, LL_HEAPSIZE <- 2, MaxCells <- 4,
    MILLION <- 7, MaxSec <- 3,
    Multipliers <- {<<1, 1>>, <<1, 2>>, <<2, 3>>, <<5, 2>>},
    node <- s1, head <- s2, tail <- s3, count <- s4, op <- s5,
    tree <- s1, root <- s2, keys <- s3,
    cell <- s1, heap <- s2, first <- s3, abstract <- s4,
    ta <- s1, tb <- s2, tm <- s3

Ca == INSTANCE Caches WITH
    Types <- 1 .. 4, MaxNCSize <- 3, MaxTouches <- 6, Urls <- 1 .. 4,
    Sizes <- {0, 1, 2, 5}, cache_size <- 4, NumSlots <- 2, Block <- 2,
    MaxEntries <- 6, Width <- 4, MaxAfter <- 3,
    list <- s1, touchCounter <- s2, result <- s3,
    c <- s1, stats <- s2, ideal <- s3, lone <- s4

LS == INSTANCE LoadSharing WITH
    Costs <- {1, 3}, MaxWork <- 2, ReportWidth <- 6, ReportTime <- 3,
    Distillers <- 1 .. 3, Loads <- {0, 3, 7}, HistorySize <- 2,
    AutoLaunchLimit <- 2, Hysteresis <- 1, Width <- 6, MaxNow <- 2,
    MaxRecord <- 2, KnownLoads <- {19, 399}, MaxOut <- 1,
    time <- s1, work <- s2, reporter <- s3, asleep <- s4, truth <- s5,
    now <- s1, record <- s2, launch <- s3,
    load <- s1, pendingCount <- s2, out <- s3, phase <- s4, at <- s5,
    total <- s6, winner <- s7, found <- s8

Queue == INSTANCE ClassQueue WITH
    Consumers <- 1 .. 3, Queues <- {"fifo", "priority", "lottery"},
    MaxAdds <- 4,
    queue <- s1, classLists <- s2, added <- s3, thread <- s4,
    removed <- s5

Play == INSTANCE Playback WITH
    Clients <- 1 .. 3, MaxDelay <- 2, Nap <- 5, MaxNow <- 3,
    MaxThreads <- 2, SimClients <- 1 .. 3, TraceLength <- 5,
    CacheSize <- 2, NumFds <- 3, Nobody <- 0,
    now <- s1, taskq <- s2, disp <- s3, inj <- s4, signals <- s5,
    valid <- s1, pos <- s2, offset <- s3, cache <- s4, next <- s5,
    owner <- s6, links <- s7, open <- s8, last <- s9

Eng == INSTANCE LoadEngine WITH
    Engines <- {"http", "wing"}, Entries <- LogEntries, ceiling <- 0,
    ReplySizes <- {0, 2, 3}, CHUNK <- 2, MaxTasks <- 2,
    RateEngines <- {"http", "wing"}, Digits <- {2, 5}, BUFLEN <- 4,
    MaxBytes <- 6,
    engine <- s1, pacer <- s2, timer <- s3, task <- s4, numthreads <- s5,
    numconnecting <- s6, reqids <- s7, late <- s8,
    rateEngine <- s1, numpersecd <- s2, read_buf <- s3, i <- s4,
    startline <- s5, conn <- s6, line <- s7, bogus <- s8, bytes <- s9

Tcp == INSTANCE TcpRedirect WITH
    NumFds <- 4, NumFe <- 1, MaxClients <- 2, MaxFails <- 1, MaxLen <- 2,
    conn <- s1, rd <- s2, wr <- s3, loop <- s4, avail <- s5, enabled <- s6,
    round <- s7, fails <- s8, clients <- s9

Net == INSTANCE Sockets WITH
    IoLengths <- {0, 1, 3}, IoRoom <- 2, MaxInterrupts <- 2,
    Writers <- 1 .. 2, MaxPackets <- 3, Lengths <- 0 .. 2, Room <- 4,
    Interrupts <- 1, Words <- {-1, 0, 1}, Types <- {0, 2},
    MAXDGRAMSIZE <- 6, MaxSent <- 1,
    call <- s1, bytes <- s2, buffer <- s3, connected <- s4,
    interrupts <- s5,
    mutex <- s1, writer <- s2, wire <- s3, up <- s4, reader <- s5,
    entered <- s6, delivered <- s7, ignored <- s8, cut <- s9, eintr <- s10,
    sent <- s1, net <- s2, received <- s3, status <- s4

Msg == INSTANCE Marshal WITH
    WORD <- 2, MAX_ARG_STRING <- 6, FLT_DIG <- 2, Inputs <- SomeInputs,
    Outputs <- SomeOutputs, Beacons <- SomeBeacons,
    msg <- s1, packet <- s2, got <- s3

Cli == INSTANCE CacheClient WITH
    HTTP_READ_INCR <- 3, CLIB_CUTTHROUGH_THRESH <- 12, Bodies <- SomeBodies,
    MaxInterrupts <- 1, MaxBuff <- 20, Endian <- "little",
    Reqnums <- {<<1, 0, 0, 0>>}, URLLEN <- 7, HDRLEN <- 9, DATALEN <- 3,
    udp_retries <- 3, MaxAttempts <- 2,
    asClient <- s1, message <- s2, whole <- s3, body <- s4, cursize <- s5,
    curbuff <- s6, errno <- s7, retval <- s8, interrupts <- s9,
    call <- s1, todo <- s2, pc <- s3, conn <- s4, log <- s5, net <- s6,
    ret <- s7

Wing == INSTANCE WingRequest WITH
    MAX_REDIRECT <- 2, ListSizes <- {1, 2}, PageSizes <- {0, 3},
    pc <- s1, old <- s2, flags <- s3, url <- s4, fetching <- s5,
    saveoldurl <- s6, agglistlen <- s7, num_redirect <- s8,
    tot_num_redirect <- s9, page <- s10, fetches <- s11, inarow <- s12,
    sent <- s13

Prefs == INSTANCE UserPrefs WITH
    Threads <- {1, 2}, Users <- 0 .. 2, Requests <- PrefRequests,
    Ids <- 1 .. 3, DefaultIds <- {1}, MAX_ARGS <- 2, USERCACHE_SIZE <- 1,
    LastFile <- 1, MaxRequests <- 2, MaxRestarts <- 1,
    db <- s1, file <- s2, userCache <- s3, pc <- s4, req <- s5, al <- s6,
    got <- s7, result <- s8, base <- s9, overlap <- s10, served <- s11,
    restarts <- s12

Script == INSTANCE ScriptStub WITH
    Kinds <- {"tcl", "mash", "perl"}, Texts <- ScriptTexts,
    ArgLists <- ScriptArgs, Mimes <- {2, 4}, MaxRequests <- 2,
    MAX_MIMETYPE <- 4, MAX_ARGS <- 2,
    kind <- s1, pc <- s2, interp <- s3, toTcl <- s4, toTacc <- s5,
    stored <- s6, req <- s7, array <- s8, seen <- s9, out <- s10,
    status <- s11, stack <- s12, cmd <- s13

Opt == INSTANCE Options WITH
    MAXLINE <- 6, MAXIP <- 3, MAX_HOSTNAME <- 4, MaxText <- 6, MaxMore <- 4,
    Files <- OptionFiles,
    Hash <- OptionHash, NumBuckets <- 2, MaxTime <- 3,
    parser <- s1, text <- s2,
    file <- s1, mtime <- s2, db <- s3, value <- s4, lastModified <- s5,
    up <- s6, rsh <- s7, read <- s8

DB == INSTANCE Database WITH
    Records <- 1 .. 4, KeyOf <- RecordKeys, Hash <- RecordHash,
    NumBuckets <- 2, DuplicatesAllowed <- <<TRUE, FALSE>>,
    db <- s1, owned <- s2

Async == INSTANCE AsyncRequests WITH
    Dists <- 1 .. 2, MaxRequests <- 2, Tries <- 2, MaxLost <- 1,
    dist <- s1, pendingReq <- s2, req <- s3, nextId <- s4, call <- s5,
    gone <- s6, given <- s7, lost <- s8

\* The slots from a number on are zero, and stay so.
Zero13 == s13 = 0
Zero12 == s12 = 0 /\ Zero13
Zero11 == s11 = 0 /\ Zero12
Zero10 == s10 = 0 /\ Zero11
Zero9 == s9 = 0 /\ Zero10
Zero8 == s8 = 0 /\ Zero9
Zero7 == s7 = 0 /\ Zero8
Zero6 == s6 = 0 /\ Zero7
Zero5 == s5 = 0 /\ Zero6
Zero4 == s4 = 0 /\ Zero5
Zero3 == s3 = 0 /\ Zero4
Zero2 == s2 = 0 /\ Zero3
Zero1 == s1 = 0 /\ Zero2
Same13 == s13' = s13
Same12 == s12' = s12 /\ Same13
Same11 == s11' = s11 /\ Same12
Same10 == s10' = s10 /\ Same11
Same9 == s9' = s9 /\ Same10
Same8 == s8' = s8 /\ Same9
Same7 == s7' = s7 /\ Same8
Same6 == s6' = s6 /\ Same7
Same5 == s5' = s5 /\ Same6
Same4 == s4' = s4 /\ Same5
Same3 == s3' = s3 /\ Same4
Same2 == s2' = s2 /\ Same3
Same1 == s1' = s1 /\ Same2

ToolsInit ==
    /\ Init
    /\ \/ part = "hosts" /\ Zero1
       \/ /\ hosts = <<host_a, host_b, host_c>>
          /\ \/ part = "list" /\ DS!ListInit /\ Zero6
             \/ part = "tree" /\ DS!TreeInit /\ Zero4
             \/ part = "hash" /\ DS!HashInit /\ Zero5
             \/ part = "times" /\ DS!TimeInit /\ Zero4
             \/ part = "negative" /\ Ca!NegativeInit /\ Zero4
             \/ part = "cache" /\ Ca!SimInit /\ Zero5
             \/ part = "report" /\ LS!ReportInit /\ Zero6
             \/ part = "control" /\ LS!ControlInit /\ Zero4
             \/ part = "lottery" /\ LS!LotteryInit /\ Zero9
             \/ part = "queue" /\ Queue!Init /\ Zero6
             \/ part = "playback" /\ Play!PlayInit /\ Zero6
             \/ part = "clients" /\ Play!SimInit /\ Zero10
             \/ part = "engine" /\ Eng!EngineInit /\ Zero9
             \/ part = "rate" /\ Eng!RateInit /\ Zero10
             \/ part = "redirect" /\ Tcp!Init /\ Zero10
             \/ part = "io" /\ Net!IoInit /\ Zero6
             \/ part = "stream" /\ Net!StreamInit /\ Zero11
             \/ part = "datagrams" /\ Net!DgramInit /\ Zero5
             \/ part = "messages" /\ Msg!Init /\ Zero4
             \/ part = "http" /\ Cli!HttpInit /\ Zero10
             \/ part = "wire" /\ Cli!WireInit /\ Zero8
             \/ part = "wing" /\ Wing!Init
             \/ part = "prefs" /\ Prefs!Init /\ Zero13
             \/ part = "scripts" /\ Script!Init
             \/ part = "text" /\ Opt!TextInit /\ Zero3
             \/ part = "options" /\ Opt!OptionInit /\ Zero9
             \/ part = "database" /\ DB!Init /\ Zero3
             \/ part = "async" /\ Async!Init /\ Zero9

ToolsNext ==
    /\ part' = part
    /\ \/ part = "hosts" /\ Next /\ Same1
       \/ /\ UNCHANGED vars
          /\ \/ part = "list" /\ DS!ListNext /\ Same6
             \/ part = "tree" /\ DS!TreeNext /\ Same4
             \/ part = "hash" /\ DS!HashNext /\ Same5
             \/ part = "times" /\ DS!TimeNext /\ Same4
             \/ part = "negative" /\ Ca!NegativeNext /\ Same4
             \/ part = "cache" /\ Ca!SimNext /\ Same5
             \/ part = "report" /\ LS!ReportNext /\ Same6
             \/ part = "control" /\ LS!ControlNext /\ Same4
             \/ part = "lottery" /\ LS!LotteryNext /\ Same9
             \/ part = "queue" /\ Queue!Next /\ Same6
             \/ part = "playback" /\ Play!PlayNext /\ Same6
             \/ part = "clients" /\ Play!SimNext /\ Same10
             \/ part = "engine" /\ Eng!EngineNext /\ Same9
             \/ part = "rate" /\ Eng!RateNext /\ Same10
             \/ part = "redirect" /\ Tcp!Next /\ Same10
             \/ part = "io" /\ Net!IoNext /\ Same6
             \/ part = "stream" /\ Net!StreamNext /\ Same11
             \/ part = "datagrams" /\ Net!DgramNext /\ Same5
             \/ part = "messages" /\ Msg!Next /\ Same4
             \/ part = "http" /\ Cli!HttpNext /\ Same10
             \/ part = "wire" /\ Cli!WireNext /\ Same8
             \/ part = "wing" /\ Wing!Next
             \/ part = "prefs" /\ Prefs!Next /\ Same13
             \/ part = "scripts" /\ Script!Next
             \/ part = "text" /\ Opt!TextNext /\ Same3
             \/ part = "options" /\ Opt!OptionNext /\ Same9
             \/ part = "database" /\ DB!Next /\ Same3
             \/ part = "async" /\ Async!Next /\ Same9

ToolsSpec == ToolsInit /\ [][ToolsNext]_toolVars
-----------------------------------------------------------------------------
(* The properties of the parts, of the part that is run; their modules say *)
(* more about each.                                                        *)

\* The container libraries: the links of a list agree in both directions and
\* each operation is the one on sequences; a tree is ordered and balanced and
\* is walked in order; hashed lists share a heap of nodes without mixing them
\* up; time values are added, subtracted, scaled and compared exactly.
StructuresAreRight ==
    /\ [](/\ part = "list" => DS!WellLinked
          /\ part = "tree" => DS!SearchTree /\ DS!Balanced /\ DS!NextIsSuccessor
          /\ part = "hash" => DS!ListsKeepTheirNodes
          /\ part = "times" => DS!ArithmeticIsExact /\ DS!ComparisonsAgree)
    /\ [][part = "list" => DS!OperatesAsSequence]_toolVars

\* The two caches forget what was used least recently: the cache of types no
\* distiller could be found for, across its flushes, and the cache simulator's.
CachesForgetOldest ==
    /\ [](part = "cache" => Ca!SimulatesLRU)
    /\ [][part = "negative" => Ca!ForgetsLeastUsed]_toolVars

\* How load is shared: a distiller reports the average over the time that
\* passed; the manager's sums are those of its distillers' loads; the lottery
\* finds its winner and leaves no distiller without a ticket; a queue of
\* classes wakes a thread for all work and hands each piece out once, in order.
LoadIsShared ==
    /\ part = "report" => LS!ReportIsAverage
    /\ part = "control" => LS!LoadsAddUp
    /\ part = "lottery" => LS!WinnerFound /\ LS!TicketsInRange
    /\ part = "queue" => Queue!WakeupForWork /\ Queue!EachOnceInOrder

\* Playing a trace: a client has one entry, in its thread or in the queue, and
\* the dispatcher neither sleeps past the first task nor lets a later one go
\* first; the simulated clients' descriptors are theirs; the load engine's
\* counts are exact and its rate is what the last line read said.
LoadIsPlayed ==
    /\ [](/\ part = "playback" => Play!OneEntryPerClient /\ Play!NeverOversleeps
          /\ part = "clients" => Play!DescriptorsOwned
          /\ part = "engine" => Eng!EngineIsExact)
    /\ [][/\ part = "playback" => Play!FirstDueLeaves
          /\ part = "rate" => Eng!RateFromLine]_toolVars

\* The redirector: the two ends of a connection belong together, data goes to,
\* or for, the client it came from, and select waits for every connection.
RedirectIsRight ==
    part = "redirect" => Tcp!EndsMatch /\ Tcp!NoCrossTalk /\ Tcp!NoneForgotten

\* Messages between distillers, front ends and the manager: reads and writes
\* tell how far they came, packets of several threads arrive whole and in
\* order, a datagram is one that was sent, and what is unpacked was packed.
MessagesArrive ==
    /\ part = "io" => Net!ResultsTellTheTruth
    /\ part = "stream" => Net!FramesWhole
    /\ part = "datagrams" => Net!ReceivedWasSent
    /\ part = "messages" => Msg!ComesBack

\* HTTP, and the protocols of the cache and of the thin client: a request is
\* read whole and no more than it, an answer is read to its end and split
\* between header and body; messages to the cache carry their lengths and a
\* query tells the answer to it; the thin client gets one reply, whose header
\* announces what is written, and its redirections end.
FetchesAreWhole ==
    /\ part = "http" => Cli!RequestWhole /\ Cli!AnswerWhole /\ Cli!AnswerSplit
    /\ part = "wire" => Cli!WireIsRight
    /\ part = "wing" => /\ Wing!OneFramedReply /\ Wing!ListComesWithPage
                        /\ Wing!RedirectsBounded /\ Wing!FailuresNotCached

\* User preferences: what is stored is the user's own, a request sets what it
\* asked for or nothing, and without concurrent requests cache and file agree.
PrefsAreKept == part = "prefs" => Prefs!PrefsAreKept

\* Scripts see the request they were called for, answer it once, and their
\* output has one owner.
ScriptsServe == part = "scripts" => Script!ScriptsServe

\* Options: the values are those the file's lines say, the indices of the
\* database agree, and texts are taken apart at their separators.
OptionsAreRight ==
    /\ part = "text" => Opt!TextsAreRead
    /\ part = "options" => Opt!OptionsAreTheFiles
    /\ part = "database" => DB!IndicesAgree

\* Asynchronous requests: every record and output is released or owned once.
AsyncIsAccounted == part = "async" => Async!AsyncIsAccounted
=============================================================================
