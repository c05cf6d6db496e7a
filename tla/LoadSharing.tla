---------------------------- MODULE LoadSharing ----------------------------
(***************************************************************************)
(* How load is measured and shared: what a distiller reports               *)
(* (LoadReporter), what the PTM makes of the reports (DistillerRecord,     *)
(* LaunchRecord), and how a front end draws a distiller by the loads it    *)
(* was told (Find_Lottery_). The three run in different processes and are  *)
(* specified side by side.                                                 *)
(***************************************************************************)
EXTENDS Integers, SequencesExt, FiniteSets
-----------------------------------------------------------------------------
(***************************************************************************)
(* LoadReporter of dist/distiller.cc: the load a distiller reports is its  *)
(* latency (the cost of the work it holds) averaged over the time since    *)
(* the last report.  An area under the latency is kept, brought up to date *)
(* whenever the latency changes.  Reports are made while there is no PTM,  *)
(* too, and lost; none is made while the distiller sleeps, though it takes *)
(* the work that comes.                                                    *)
(***************************************************************************)
CONSTANTS
    Costs,      \* work->cost.estimatedTime_ms
    MaxWork,    \* bound: works held
    ReportWidth,      \* of UINT32
    ReportTime      \* bound: the clock

VARIABLES
    time,
    work,       \* the costs of the works held
    reporter,   \* instTotalLatency_ms, area, start, lastUpdate
    asleep,     \* is there no loadNotificationTimer?
    truth       \* history: the latency in every tick since start

reportVars == <<time, work, reporter, asleep, truth>>

Wrapped(n) == n % 2^ReportWidth
Total(s) == FoldLeft(LAMBDA x, y : x + y, 0, s)

ReportInit ==
    /\ time = 0 /\ work = << >> /\ truth = << >>
    /\ asleep \in BOOLEAN
    /\ reporter = [inst |-> 0, area |-> 0, start |-> 0, last |-> 0]

Tick ==
    /\ time < ReportTime
    /\ time' = time + 1
    /\ truth' = Append(truth, Total(work))
    /\ UNCHANGED <<work, reporter, asleep>>

AdjustAvgLatency_NotTimed(r) ==
    [r EXCEPT !.area = Wrapped(r.area + r.inst), !.last = time]
AdjustAvgLatency(r) ==
    [r EXCEPT !.area = Wrapped(r.area + Wrapped(r.inst * (time - r.last))), !.last = time]

NewWork(c) ==
    LET r == AdjustAvgLatency(reporter)
    IN  /\ Len(work) < MaxWork
        /\ work' = Append(work, c)
        /\ reporter' = [r EXCEPT !.inst = Wrapped(@ + c)]
        /\ UNCHANGED <<time, asleep, truth>>

WorkDone ==
    LET r == AdjustAvgLatency(reporter)
    IN  /\ work # << >>
        /\ work' = Tail(work)
        /\ reporter' = [r EXCEPT !.inst = Wrapped(@ - Head(work))]
        /\ UNCHANGED <<time, asleep, truth>>

getAvgLatency(r) ==
    LET diff == time - r.start
    IN  IF diff = 0 THEN r.inst ELSE Wrapped(r.area + diff \div 2) \div diff

\* MyDistiller::SendLoadInformation with LoadReporter::Report
SendLoadInformation ==
    LET r == AdjustAvgLatency(reporter)
    IN  /\ ~asleep
        /\ reporter' = [r EXCEPT !.area = 0, !.start = r.last]
        /\ truth' = << >>
        /\ UNCHANGED <<time, work, asleep>>

\* MyDistiller::Sleep_WakeUp: the timer goes and comes, the area stays.
Sleep_WakeUp ==
    /\ asleep' = ~asleep
    /\ UNCHANGED <<time, work, reporter, truth>>

ReportNext ==
    \/ Tick \/ WorkDone \/ SendLoadInformation \/ Sleep_WakeUp
    \/ \E c \in Costs : NewWork(c)

ReportSpec == ReportInit /\ [][ReportNext]_reportVars
-----------------------------------------------------------------------------
\* Whenever a report is due, what has been added up since the last one is
\* the latency of every tick since then, busy or idle, asleep or awake, and
\* the load is its average, rounded: never more than the highest latency of
\* the interval, never less than the lowest.
ReportIsAverage ==
    LET r == AdjustAvgLatency(reporter)
        load == getAvgLatency(r)
    IN  /\ r.inst = Total(work)
        /\ r.area = Total(truth)
        /\ truth # << >> => /\ \E x \in ToSet(truth) : load <= x
                            /\ \E x \in ToSet(truth) : load >= x
-----------------------------------------------------------------------------
(***************************************************************************)
(* What the PTM makes of the loads that distillers report (above):         *)
(* DistillerRecord::Update (ptm/ptmdb.cc) averages over the last reports   *)
(* of a distiller, LaunchRecord::UpdateLoad (distlaunch.cc) over the       *)
(* distillers of a launch record, and launches or wakes another one when   *)
(* the average is too high.  Both keep running sums in UINT32.             *)
(*                                                                         *)
(* One launch record; connections come and go, with the reports on them.   *)
(***************************************************************************)
CONSTANTS
    Distillers,
    Loads,              \* what distillers report
    HistorySize,        \* loadHistorySize
    AutoLaunchLimit,    \* autoLaunchLimit, never 0 (LaunchRecord::ParseParam)
    Hysteresis,         \* AutoLaunchHysteresisInterval_ms
    Width,              \* of UINT32
    MaxNow              \* bound: the clock

VARIABLES
    now,
    record,     \* the DistillerRecords, or none
    launch      \* the LaunchRecord: totalLoad, numberOfActiveDistillers, lastLaunch

controlVars == <<now, record, launch>>

U(n) == n % 2^Width
Avg(sum, n) == IF n = 0 THEN 0 ELSE sum \div n
NoRecord == [status |-> "none"]
Registered == {d \in Distillers : record[d] # NoRecord}
Awake == {d \in Registered : record[d].status = "awake"}
HistorySum(s) == FoldLeft(LAMBDA x, y : x + y, 0, s)

ControlInit ==
    /\ now = 0
    /\ record = [d \in Distillers |-> NoRecord]
    /\ launch = [total |-> 0, active |-> 0, last |-> 0]

ControlTick ==
    /\ now < MaxNow
    /\ now' = now + 1
    /\ UNCHANGED <<record, launch>>

\* DistillerRecord::DistillerRecord
Register(d, status) ==
    /\ record[d] = NoRecord
    /\ record' = [record EXCEPT ![d] =
                    [status |-> status, load |-> 0, over |-> 0, pos |-> 1,
                     history |-> [i \in 1 .. HistorySize |-> 0]]]
    /\ launch' = [launch EXCEPT !.active = IF status = "awake" THEN @ + 1 ELSE @]
    /\ UNCHANGED now

\* DistillerRecord::~DistillerRecord
Deregister_LoadKept(d) ==
    /\ d \in Registered
    /\ record' = [record EXCEPT ![d] = NoRecord]
    /\ launch' = IF d \in Awake THEN [launch EXCEPT !.active = @ - 1] ELSE launch
    /\ UNCHANGED now
Deregister(d) ==
    /\ d \in Registered
    /\ record' = [record EXCEPT ![d] = NoRecord]
    /\ launch' = IF d \in Awake
                   THEN [launch EXCEPT !.active = @ - 1,
                                       !.total = U(@ - record[d].load)]
                   ELSE launch
    /\ UNCHANGED now

\* DistillerRecord::Update, up to UpdateLoad
Updated(r, new) ==
    LET over == U(U(r.over - r.history[r.pos]) + new)
    IN  [r EXCEPT !.over = over, !.load = Avg(over, HistorySize),
                  !.history[r.pos] = new, !.pos = (r.pos % HistorySize) + 1]

\* LaunchRecord::UpdateLoad, up to TryToAutoLaunch
UpdateLoad(new, prev) == [launch EXCEPT !.total = U(U(@ - prev) + new)]

TooHigh(l) == l.active > 0 /\ Avg(l.total, l.active) > AutoLaunchLimit

\* LaunchRecord::TryToAutoLaunch: a sleeping distiller is woken, or another
\* one is launched, which will register, unless a launch is pending.
TryToAutoLaunch(rec, l) ==
    LET sleeping == {d \in Distillers : rec[d] # NoRecord /\ rec[d].status = "sleep"}
    IN  IF ~TooHigh(l) \/ now - l.last <= Hysteresis
          THEN record' = rec /\ launch' = l
        ELSE IF sleeping # {}
          THEN \E d \in sleeping :
                 /\ record' = [rec EXCEPT ![d].status = "awake"]
                 /\ launch' = [l EXCEPT !.active = @ + 1, !.last = now]
        ELSE /\ record' = rec
             /\ launch' \in {l, [l EXCEPT !.last = now]}

\* A distiller that is asleep has no loadNotificationTimer, and only the PTM
\* wakes it (DistillerRecord::WakeUp): of one that registered asleep nothing
\* comes before its record is awake.
Reports(d) == d \in Awake

\* DistillerLoadHandler::Handle
LoadArrives(d, new) ==
    /\ d \in Registered
    /\ LET r == Updated(record[d], new)
       IN  TryToAutoLaunch([record EXCEPT ![d] = r], UpdateLoad(r.load, record[d].load))
    /\ UNCHANGED now

ControlNext ==
    \/ ControlTick
    \/ \E d \in Distillers :
         \/ Deregister(d)
         \/ \E status \in {"awake", "sleep"} : Register(d, status)
         \/ Reports(d) /\ \E new \in Loads : LoadArrives(d, new)

ControlSpec == ControlInit /\ [][ControlNext]_controlVars
-----------------------------------------------------------------------------
\* The running sums of the PTM, from which and to which loads are subtracted
\* and added at every report, registration and departure, are the sums of
\* what they stand for: no load of a distiller that left stays behind, and
\* none is taken off twice.
LoadsAddUp ==
    /\ launch.active = Cardinality(Awake)
    /\ launch.total = MapThenSumSet(LAMBDA d : record[d].load, Awake)
    /\ \A d \in Registered : record[d].over = HistorySum(record[d].history)
-----------------------------------------------------------------------------
(***************************************************************************)
(* Find_Lottery_ of ptm/src/cache/cache.cc: a distiller of the cache is    *)
(* drawn with a chance that falls with its load.  The tickets are counted  *)
(* twice, once for the total and once to find the winner.  The cache is    *)
(* locked, but a worker that is done takes its request off a record with   *)
(* only the record's own lock, so the tickets of a record may change       *)
(* between its two counts.                                                 *)
(***************************************************************************)
CONSTANTS
    MaxRecord,  \* records are numbered in the order of the list
    KnownLoads,      \* possible values of totalLatency_ms, below 2^31
    MaxOut      \* bound: requests that are out when the cache is locked

Entries == 1 .. MaxRecord

VARIABLES
    load, pendingCount,
    out,        \* requests that may still be taken off, for each record
    phase, at,   \* the traversal: the pass and the next record
    total, winner,
    found

lotteryVars == <<load, pendingCount, out, phase, at, total, winner, found>>

\* pendingCount is set to 0 by an update, whatever is out then, and so may
\* be less than what is out, or negative.
LotteryInit ==
    /\ load \in [Entries -> KnownLoads]
    /\ out \in [Entries -> 0 .. MaxOut]
    /\ pendingCount \in {p \in [Entries -> -MaxOut .. MaxOut] :
                           \A r \in Entries : p[r] <= out[r]}
    /\ phase = 1 /\ at = 1 /\ total = 0 /\ winner = 0 /\ found = 0

\* getTickets, for a load below 2^31
Queue(l, p) == IF l < -p THEN 0 ELSE l + p
Tickets_None(l, p) == 100 \div ((Queue(l, p) \div 4) + 1)
Tickets(l, p) == (100 \div ((Queue(l, p) \div 4) + 1)) + 1

TicketsOf(r) == Tickets(load[r], pendingCount[r])

\* A record is counted in the first pass; then the winner is drawn.
Count ==
    /\ phase = 1 /\ at \in Entries
    /\ total' = total + TicketsOf(at)
    /\ at' = at + 1
    /\ UNCHANGED <<load, pendingCount, out, phase, winner, found>>

Draw ==
    /\ phase = 1 /\ at \notin Entries
    /\ winner' \in {w \in 0 .. total - 1 : total > 0}
    /\ phase' = 2 /\ at' = 1 /\ total' = 0
    /\ UNCHANGED <<load, pendingCount, out, found>>

\* A record is counted in the second pass; the search may be over.
Reached_Beyond(w, t) == w + 1 < t
Reached(w, t) == w < t

Search ==
    /\ phase = 2 /\ at \in Entries
    /\ total' = total + TicketsOf(at)
    /\ IF Reached(winner, total + TicketsOf(at))
         THEN found' = at /\ phase' = 3 /\ UNCHANGED at
         ELSE at' = at + 1 /\ UNCHANGED <<found, phase>>
    /\ UNCHANGED <<load, pendingCount, out, winner>>

\* DecrPendingCount of a worker
DecrPendingCount(r) ==
    /\ phase < 3 /\ out[r] > 0
    /\ out' = [out EXCEPT ![r] = @ - 1]
    /\ pendingCount' = [pendingCount EXCEPT ![r] = @ - 1]
    /\ UNCHANGED <<load, phase, at, total, winner, found>>

LotteryNext == Count \/ Draw \/ Search \/ \E r \in Entries : DecrPendingCount(r)

LotterySpec == LotteryInit /\ [][LotteryNext]_lotteryVars
-----------------------------------------------------------------------------
\* Find_Lottery_ does not return NULL when there is a record: whatever is
\* taken off between the two counts, the winning ticket is still there.
WinnerFound == phase = 2 => at \in Entries

\* Every record has a ticket and none has more than 101, whatever
\* pendingCount has become, so that none is starved (getTickets).
TicketsInRange == \A r \in Entries : TicketsOf(r) \in 1 .. 101
=============================================================================
