# Verification of the TranSend/Wingman proxy (GloMop)

TLA+ models, TLC runs and TLAPS proofs for the proxy in `src/tcsproxy`. Paths below are relative to that directory.

## The system

A *front end* accepts HTTP and Wingman (PalmPilot) connections, fetches the original content through a partitioned Harvest cache, and sends it through a pipeline of *distillers* (processes that shrink images, rewrite HTML, and so on). The *PTM* (proxy transcoder manager) knows the registered distillers, tells front ends where one of a given type is, wakes up sleeping ones and launches new ones on a pool of machines. A *monitor* displays what all of them report by multicast.

```
 client -> redirector -> listeners -> ThreadQueue -> worker: http_go_proc, wing_go_proc
                                                       |        |
                                     proxy_dispatch    |        +-> Web cache (client_lib)
                                                       v
                    PTM stub + distiller cache (ptm/src/cache) <-> distillers (ptm/src/dist)
                        |  ask / reply, beacon                       |  register, load reports
                        v                                            v
                       PTM: event loop (eventhan), launch and distiller databases, host pool
```

The components list of `PROJECT.json` says for every part what is modelled, its `map` which lines each definition stands for, and its hazards list where each difficulty bites and which property is about it.

## Modules

Control, concurrency and failures, one module per component:

| Module | Models | Reads as |
|---|---|---|
| `WorkQueue` | what `frontend/src/thr_queue.c` promises | a bounded FIFO between listeners and workers |
| `ThreadQueue` | `thr_queue.c`, the listeners of `httpreq.c` and `wingreq.c` | ring and condition variable; implements `WorkQueue` |
| `Pipeline` | one request in `httpgo.c`, `dispatch.c` | stages, routes, retries, answers |
| `WingRequest` | one request of a hand-held, `winggo.c` | redirections, list of aggregators, one framed reply |
| `Instrumentation` | `thr_mon.c` | workers, monitoring thread, lossy datagrams |
| `UserPrefs` | `userpref.c` | cache, file and requests of threads that overlap |
| `EventSystem` | `ptm/src/share/eventhan.cc` | event thread, callers, pipe, mutex |
| `PTM` | `ptm/src/ptm/` (`ptm.cc`, `ptmnet.cc`, `ptmdb.cc`, `distlaunch.cc`) | one process, one action per handler |
| `HostPool` | `ptm/src/share/rexec.cc` | load levels and the search for a host |
| `Distiller` | `ptm/src/dist/` (`distiller.cc`, `distnet.cc`) | event thread, consumer, connections, PTM |
| `Location` | the location part of `ptm/src/cache/cacheman.cc`, the beacons of the PTM | front ends and PTMs that find, start and give way to each other |
| `StubCache` | `ptm/src/cache/cache.cc`, `share/reqrep.cc` | cached distillers, connections, requests with timeouts, reference counts |
| `AsyncRequests` | `DistillAsync` and its like in `cacheman.cc` | handles, replies, rendezvous |
| `Partitions` | `client_lib/src/part.c` and the calls of `icp.c`, `utils.c` | list of cache partitions, failures, SIGHUP |
| `TcpRedirect` | `tcp_redirect/src` | the loop around `select()` and its tables |
| `Playback`, `LoadEngine` | `playback/src` | timer queue, simulated clients, the load engine and its rate |
| `ScriptStub` | the Tcl, Mash and Perl stubs | a request's way through an interpreter |

Protocols, containers and algorithms, each against what it should compute:

| Module | Models | Against |
|---|---|---|
| `Sockets`, `Marshal` | `ptm/src/network`, packets and messages | what was written; what was packed |
| `CacheClient` | `client_lib/src` (`icp.c`, `utils.c`): HTTP messages, messages to the cache | the message that was sent |
| `ClassQueue` | `ptm/src/share/ptmqueue.cc` | each piece once, in the order of its class |
| `LoadSharing` | load reports, load control of the PTM, the lottery among distillers | exact averages and sums |
| `Caches` | the negative cache of the stub, the cache simulator | least recently used |
| `Database`, `Options`, `DataStructures` | `database.cc`, `options.cc`, text utilities; lists, AVL tree, hashed lists, times | sequences, sets, exact arithmetic |
| `Compression`, `GifPnm`, `TwoBit` | GIF coding, blocks and interlacing, Palm text; scaling and quantizing; zooming, dithering and packing to four greys | decoders and definitions |
| `ImageDistillers` | control, buffers and errors of the image distillers | one owner per buffer, a fresh library |
| `SgmlLexer`, `HtmlMunger` | `html_munger`: the lexer, pages, URLs with arguments | the whole document; the page that was read |
| `Snprintf` | `snprintf.c` | the exact decimal or hexadecimal number |

`MCPTM`, `MCFrontEnd`, `MCStub`, `MCTools` and `MCMedia` are the instances TLC checks. The last four run several parts that share no state; `part` chooses one in the initial state, and parts that are instantiated use slots `s1`, `s2`, ... as their variables. The `*Proofs` modules hold the theorems (those about `Location` are in the module itself).

Names of actions and variables are those of the code where TLA+ allows. A definition named `Def_Something` is a deviation: what the code would be with a plausible bug. Each checked property fails when one such definition, named in the mutants of `PROJECT.json`, takes the place of `Def`; the other deviations do the same for single conjuncts of the properties that have several.

### How state and steps correspond to the code

**ThreadQueue.** The queue's variables are touched with `mtx_queue` held only, so the code between two points that give up the mutex is one action, and the mutex is no variable. `dispatch(l)` is `WaitForSlot` (queue full: join `cond_queue`) or `Enqueue`; `get_task(w)` is `WaitForWork` or `Dequeue`; both successes `Signal`, which takes an arbitrary thread out of `cond_queue`. `SpuriousWakeup` is always possible. Task ids wrap.

**Pipeline.** `pc` says how far the request is: `read`, `serve` (`server_dispatch`), `stage` and `distill` (the loop of `proxy_dispatch`), `done`. Every call of a distiller is `Ask` together with one of four outcomes: `Retry`, `DistillFails`, `Redispatch`, `DistillDone`. The client, the cache and the distillers are free to do anything. `begun`, `asked`, `saved` and `savedAt` are histories: stages begun, the distillers that the attempts of a stage asked, the static route when it was saved and the stage it was saved in. `Due` says from them which distiller an attempt should ask.

**Instrumentation.** The three unlocked reads of a thread's state in one comparison (`Compare`, `FormatDelta`, `StoreState`) are three actions, with steps of the worker in between. `view` is what the monitor believes; a report is `Delivered` or `Lost`.

**EventSystem.** The event thread is at `top` (mutex held), in `select`, `woken`, handling an event (`taken`), and so on; each caller is `idle`, or in `Notify`: blocked in `write`, in `wait` on `notifyCond`, about to `return`. Addresses are reused: `live` holds the allocated ones. Deadlines are abstract: the first timer may be due at any time and a new one may go anywhere in the queue.

**PTM.** The process has one thread, so a handler is one action. The exception is `WakeSleepingDistiller`: a wake-up that fails breaks a connection, which may relaunch a distiller, which wakes up another; `stack` has a frame per active call and no event is handled before it is empty. A use of a deleted object sets `undefined` and stops the process. A launch record is `free`, `listed` or `dying` (removed from the database while a launch is pending).

**HostPool.** `FindLeastLoadedHost` is the rotating search in one action; `Best` is its loop, a recursive function over the rounds. `Update` keeps the level of hosts that stay.

**Distiller.** A handler of the event thread is one action. The consumer is split at what it does without a lock: the reference count of a connection is loaded, stored and tested in three steps, and `DistillerRename`, which the distiller's own code may call while it works, is a step of its own. A use of a deleted object sets `fault`. The model begins behind the start-up: a distiller whose `Register` fails there ends (distiller.cc:428-438).

**Location.** A handler that holds `mgrMutex` is one action; the expiry of the start timer, which tests the timer and makes a new one in two critical sections, is two. Beacons are read or lost in the step that sends them or later; PTMs are compared as numbers. The address of a PTM given in the options goes through the handler of beacons, so it is a beacon that is there in the initial state, perhaps of a PTM that does not run.

**StubCache.** A worker's call is split where `cache.cc` gives up a lock: find or ask, `distill`, `send`, `wait`, `remove`, `mark`. Records are slots with a reference count, the distiller's connection and the set of requests that await a reply; a reply and a timer race for the request.

**Partitions.** A thread reads the list, tries a partition and reports its failure in separate steps; the signal handler only sets `hup`. A transfer may fail, or never end, also when its partition runs. `config_parse` cannot fail while the list is built again: it fails when `ll_add_to_end` does, which returns 1 always (utils.c:685-706).

**AsyncRequests.** A record counts the references of requests and of connection objects, which are dropped when their threads have ended. A broken connection disconnects and tells the pending requests; only the caller who cannot use a record marks it; `Update`, from a beacon, resets the pending count.

## Runs

| Run | Instance | Shows |
|---|---|---|
| `pool` | 2 listeners, 5 threads asked for and 4 allowed | exact `tasks_done`, no stall, the wake-up invariant; ring and sleeping implement the FIFO: each task once, in order; with fairness, queued tasks are taken while workers come back |
| `events_safety` | 2 callers, 2 timers, 2 descriptors, pipe of 2 | nothing `select()` uses is freed under it; no notification is lost |
| `events_live` | 2 callers, 1 timer, 1 descriptor, spurious wake-ups | queued events are handled, calls return, while the pipe does not fill up |
| `ptm_safety` | 1 front end; 2 distillers of one type, or 1 and 2 types of which one is a wildcard | active counts are right, also for a record of another type; launches own their records; a request waits in one place until it is answered |
| `ptm_asks` | 1 front end with 2 requests | each request is answered |
| `ptm_forgotten` | 2 front ends that may disconnect | *violated*: the request of another front end is dropped |
| `distiller` | 1 connection, 2 pieces of work in 2 classes, 2 types | no work is lost or done twice, load and open references are exact; the PTM knows the distiller's type; the PTM is found again, work and a killed distiller end |
| `frontend` | routes up to 3 long, 4 stages, 2 retries; 2 threads with lossy reports; 1 front end with or without a given address, 2 PTMs, 2 crashes | one answer, every attempt asks the distiller that is due under a static route, bounded work, the loop over the distillers ends; the monitor catches up; a front end without a PTM will look for one and finds it; the greatest PTM stays |
| `location_timer` | the location part | *violated*: the start timer is armed again behind the connection that disabled it |
| `stub` | 2 workers, a distiller that starts, dies and is renamed; 2 threads, 2 partitions | reference counts are exact, requests are known to their connection, one record per address, calls return; partitions are dropped for a reason and come back, fetches return unless a transfer hangs or transfers fail for ever |
| `tools` | 29 parts, one per behaviour; bounds in the INSTANCEs of `MCTools` | host pool, containers, caches, load sharing, queues, packets and messages, redirector, HTTP and cache protocols, preferences, options, script stubs, asynchronous requests, playback and load engine |
| `media` | 14 parts; bounds in the INSTANCEs of `MCMedia` | coders are undone by decoders, images are reduced as defined, errors leave buffers and library right, pages do not depend on how they are cut, numbers are written as they are |

### Bounds, and why they are enough

* `pool`: four workers are the least that satisfy `EnoughThreads` for two listeners, with `nth` above the limit so that pinning happens; the ring is filled, wrapped and emptied. `TaskIdWidth = 1`; the theorems cover other sizes.
* `events_*`: `PipeSize = 2` (the real pipe holds many more 256-byte chunks) so that a full pipe is reached; `MaxQueued = 1` bounds what is posted, not what `GetEvent` queues itself. One timer of two repeats.
* `ptm_*`: two record addresses are the least for a record to be deleted and its address, or another, to be used for the same type. `MaxLaunchTimeouts = 2` gives a first timeout that retries and a last one that gives up; `ptm_safety` has 1 and the constraint `OneOrTheOther` (two distillers or two types, not both) to stay small, and `PTMProofs` lifts both. `AskersMayBreak = FALSE` keeps front ends that wait connected: when they may disconnect, `ptm_forgotten` shows what happens. Symmetry is used in the runs without liveness; front ends, distillers and record addresses are interchangeable and none is picked by `CHOOSE`.
* `distiller`: two works on one connection are the least for one to be in the hands of the consumer while another is queued and the connection breaks; the first of the two may rename the distiller (`MaxRenames = 1`); `DistillerProofs` covers any number of works and connections.
* `frontend`: routes of every length from 0 to 3 against 4 stages: a static route ends before, with, or is cut off by the time to live. Two workers and one round-robin entry per report make the position wrap. Two PTMs compete; two crashes are enough for each to leave once while a front end holds a connection to it.
* `stub`: two records for one address, so that one dies while another is made; one renaming. Two partitions, so that a failure changes which one a hash value selects.
* `tools`, `media`: integer widths, buffer sizes and tables are cut down so that they overflow, wrap and fill up (for instance a GIF table of 16 codes, buffers of 4 to 9 bytes, sums modulo 16). Inputs are all sequences up to a length where that is small, and otherwise lists that contain each case of the code.

Deadlock checking is off where the system may stop: the event loop may end (`evQuit`) and really can stop when the pipe is full (below), the PTM and the distiller stop at a use of a deleted object or when they are told to, the other parts when their inputs are used up.

### Fairness

* `ThreadQueue`: weak fairness of each runnable thread, and go procs return. Nothing makes clients connect, and a signal may go to any sleeper.
* `EventSystem`: the event thread runs and handlers return (weak); a caller that was woken gets the mutex if it is free again and again (strong, since the event thread takes it in between).
* `PTM`: a handler runs to its end (weak); the timer of a pending launch, once due, is served between handlers however many other events arrive (strong: other handlers keep interrupting).
* `Distiller`: both threads run (weak), a PTM that runs sends beacons and not all of them are lost.
* `Pipeline`: the loop of `proxy_dispatch` runs and `Distill` comes back (weak; `DistillReturns` of the `stub` run is about it). Nothing is assumed of the steps around the loop: the cache is read without a timeout (client_lib's icp.c:354), `Clib_Fetch` may recurse without end (`Partitions`), `correct_write` may block (utils.c:305-326). So `PipelineEnds` is about a request that has come to the distillers.
* `Instrumentation`: the monitoring thread runs (weak); not every report that starts its round-robin part at the same thread is lost (strong). This is the assumption that "asymptotically reliable" (thr_mon.c:298) needs.
* `Location`: threads and timers run (weak); of the beacons of a PTM, not every one is lost (strong).
* `StubCache`: workers run, timers expire, a connection that is gone is noticed (weak). No reply is assumed to come.
* `Partitions`: threads run, `connect` and `select` come back (weak). Nothing is assumed of transfers, which read and write without a timeout, nor that a query is answered; `FetchReturns` names the two ways in which a fetch does not return.

## Proofs

All proofs are for arbitrary constants under the named `ASSUME` of the module.

* `ThreadQueueProofs`: `PoolIsSafe` and the refinement of `WorkQueue` (`ImplementsFIFO`), for every pool size and every finite set of listeners. The refinement maps the ring to the sequence read from `qhead` to `qtail`; lemmas `ContentsPut` and `ContentsTake` say what one increment of an index does to it. `NoStall` is not inductive. Its strengthening `WakeupInv` counts: every queued task has a worker that is not asleep, and while a listener sleeps at most one worker does, and sleeping listeners, sleeping workers and free slots together are at most one more than the listeners. It is inductive for pools with two more workers than listeners (`EnoughThreads`). With fewer, the pool can stall (see below), so the hypothesis is needed.
* `EventSystemProofs`: `EventsAreSafe`. `SelectInv` ties the place of the event thread to `blockedOnSelect` and the mutex and contains `NoLostNotify`; it is inductive together with `TypeOK`, whose bound on the pipe needs it (a chunk that `select()` reported is still there when it is read). `AllocInv` adds who registered, captured or removes which address; from it follows `CapturedStayAllocated`, under the hypothesis that waits return after a `Broadcast` only.
* `HostPoolProofs`: `PoolIsSound` and `PicksGoodHost`, for any hosts and priorities, when updates keep the same hosts (`SameHosts`) that have distinct names and priorities that are not negative (`ProperHosts`). The search is a loop, so what it finds needs an induction: from the well-foundedness of `Nat` follow a least element, an induction principle for sets of numbers (`SetInduction`) and that the recursive function `Best` satisfies its equations. Its invariant is `FirstBest`: after round k, the first host of the highest priority among the eligible ones visited. The visits of one turn are a permutation of the array, and the next search meets the host found last, so it is only picked again when no other is as good. `SearchEndsUnlessShortened` is about updates that change the hosts: whatever they do, every search ends while no list is shorter than the one before it.
* `PipelineProofs`: `PipelineIsSafe`, with `StaticRouteFollowed`: every attempt asks the distiller that is `Due`, which is the component of its stage, one further for every connection of the stage that broke, and behind the end of the route the content type's. `PipelineInv` adds to the checked properties how `task_age`, stages and tries add up (`Counting`), and that `X-Route` begins with the component of the saved route whose turn it is, one further for each attempt made in the stage, while `static_route` holds those behind it (`Following`).
* `DistillerProofs`: `WorkIsAccounted` and `KnownToPTM`, for any connections, works, classes and types. The strengthening says what the two threads hand over: which events may be queued while the event thread is in `select()`, that a connection is accepted once and before anything is read from it, that works of a connection are numbered in order, and that the consumer unreferences, without a lock, only connections that are marked. That is why the count of an open connection is exact although the count of a marked one is not.
* `PTMProofs`: `PTMIsSafe`, for any front ends, requests, distillers, types and launch records. Counts and ownership of records (`RecordsAlwaysCounted`) hold whatever front ends do; that a request is in one entry of one waiting list, or in one frame of the wake-up loop, or nowhere once it is answered (`WaitingOK`), holds when front ends stay connected while they wait. Sets of distillers are only assumed finite, so counting goes by one distiller joining or leaving a set.
* `Location`: `WillStartOne`, for any PTMs, front ends, connections and crashes (`StartsOne` follows the one timer, beacon or thread that will act through every handler), and `ContestLeavesOne`, for any number of PTMs.
* `StubCacheProofs`: `RecordsAreKept`, for any workers, addresses, types and records. `RecordOK` relates the reference count of a record to the workers that hold it, its connection and earlier connections, and its pending count to those with a request out; `RemovedOK` says that a record out of the database that is not marked has a worker about to mark it; `WorkerOK` says what a worker may rely on in each of its steps.

Only model-checked:

* liveness (`ImplementsFairFIFO`, `EventsAreHandled`, `CallsReturn`, `AsksAnswered`, `WorkEnds`, `FindsPTM`, `PipelineEnds`, the second parts of `MonitorIsInformed` and `ContestSettles`, `DistillReturns`, `FetchReturns`), which is out of the prover's reach;
* what the parts in `tools` and `media` compute, other than the host pool. They are stated with recursive operators over sequences of any length, and their modules are shared with others that declare `RECURSIVE` operators, which the prover cannot use;
* `PartitionsAreKept`, the first part of `MonitorIsInformed`, `StructuresAreRight`, `CachesForgetOldest` and `LoadIsPlayed`.

## Known deviations

Places where the code does not do what a comment, a name or a caller expects. The first two are runs. A property named here is defined in its module and does not hold: to see a behaviour, put it in the place of those of the cfg named (`tools` and `media`: through the INSTANCE of its module). Where a checked property makes an exception for one of these, its comment says so.

### Front end

| Where | What happens | Property |
|---|---|---|
| dispatch.c:651, 313 | the retry after a broken connection uses the `X-Route` that the first attempt already shortened, so it goes to the next distiller (290-292: "(re)try at most N times") | `Pipeline!RetriesSameDistiller`, and of a static route that is "the final authority" (326) `RouteIsAuthority`, FrontEnd |
| thr_queue.c:299 | three workers and two listeners can all sleep for good, contrary to 281-283 ("it will signal the condition variable"); `frontend.nthreads` accepts 3 | `NoStall`, ThreadQueue_fair with `nth = 3` |
| thr_queue.c:311 | "somebody will wake up to do the work": the signal may wake a listener, which sleeps again | `SomebodyWakesUp`, ThreadQueue_fair |
| thr_cntl.h:63 | both buffers of a pair can be readable | `Instrumentation!AtMostOneReadable`, FrontEnd |
| thr_mon.c:325-326 | a state change between the read that prints and the read that remembers is in no delta; the round-robin part of later reports repairs it (`MonitorCatchesUp`) | |
| frontend.h:22 | "max # pipe stages" is 10; `task_age <= PERF_REQUEST_TTL` lets 11 run (`WorkBounded` has the true bound) | |
| userpref.c:150, 211 | the cache is read and written by several threads: a reader can get the list of another user, a list fetched before a change can replace it in the cache, two changes can lose one; key 0 matches an empty entry | `UserPrefs!GetsOwn`, `CacheIsCoherent`, `NoChangeIsLost`, `UnknownGetsDefaults`, Tools |
| httpgo.c:210-212 | `FRONT_CLIENT_IP` is appended to the arguments without a test for room | `UserPrefs!ClientAddressFits`, Tools |
| winggo.c | the list of aggregators for an old client has a length of two bytes; an error page to such a client is sent as the list | |

### PTM, its stub and the distiller library

| Where | What happens | Property |
|---|---|---|
| distlaunch.cc:72 | `RemoveBrokenConnection` advances before it removes, so it drops the request *behind* the one of the front end that left; the one that stays is answered through a deleted connection | run `ptm_forgotten`; `NoReplyToDeletedConnection`, PTM_forgotten |
| cacheman.cc:433, 384 | the start timer's test and its renewal are two critical sections; a connection made between them does not disable it, and the front end goes on starting PTMs | run `location_timer` |
| cacheman.cc:384, 113-119 | an attempt to connect that fails, to a PTM heard of or to the address in the options, disables the start timer and reports success; the checked properties except this case by name (`missed`) | |
| eventhan.cc:432 | one chunk is written per notification, one read per wake-up; when chunks have filled the pipe, a notifier blocks in `write()` holding the mutex that the only reader needs (eventhan.h:137-138: the thread "can only block while doing a select!") | `EventThreadBlocksOnlyInSelect`, EventSystem_safety |
| eventhan.cc:433 | `Notify` waits without a loop; a wait that returns by itself lets a timer be freed while `select()` uses it | `CapturedStayAllocated`, EventSystem_safety with `Spurious = TRUE` |
| eventhan.cc:446 | an event already queued is dispatched to a timer deleted since | `NoEventForDeletedTimer`, EventSystem_safety |
| distlaunch.cc:402 | an options update deletes a launch record that registered distillers point at | `NoUseOfDeletedLaunchRecord`, PTM_safety |
| ptmdb.cc:173 | after a wake-up that fails, the search goes on with the deleted record | `NoUseOfDeletedDistillerRecord`, PTM_safety |
| rexec.cc:174 | `RExec::Update` returns `gm_False` when it succeeds, so front ends are never told to flush their negative caches (ptm.cc:150) | `NegativeCacheCurrent`, PTM_safety |
| rexec.cc:164, 344 | an update that removes a host leaves `minLoadLevel` and `currentHost` stale: a search finds nothing ("this should never happen!", 352) or never ends | `HostPool!FindsHost`, `SearchEnds`, with lists that change the hosts |
| ptm.cc:27 | the SIGHUP handler works on data the interrupted code may be using; in the model the update happens between handlers | |
| ptm.cc:69-72 | after the options file was missing at one reading, no later change is noticed; values that are not in the file lose their defaults at the first re-reading | `Options!ChangesAreNoticed`, `DefaultsSurvive`, Tools |
| options.cc:148 | the value of a key with a second line is put in an array that is one byte short | `Options!RereadingSurvives`, Tools |
| options.cc:18-61 | a line longer than its buffer is read as two, and the rest of a comment may be an option | `Options!LongLinesAreRead`, Tools |
| cachenet.cc:375, distnet.cc:190-199 | a double is written with `%f` and read into a float, so that digits are lost; `ComesBack` of `Marshal` says how many | |
| distiller.cc:595 | a beacon of a PTM that has gone ends the distiller when the connection fails | `FailedConnectIsNotFatal`, Distiller |
| distiller.cc:481 | work dropped when the connection is gone is never counted as done | |
| distiller.h:240-242 | the reference count of a marked connection is changed by two threads without a lock: it can be too low, so that the connection is deleted while work refers to it, or too high | (the count of an open one is exact: `OpenRefsExact`) |
| reqrep.cc:45 | a reply found just before its request times out is delivered to the deleted request | |
| cacheman.cc:523-556, 871-876 | a request that could not be sent is deleted but stays among the pending ones; `Destroy` takes its two locks in the opposite order | `AsyncRequests!PendingExist`, Tools |
| sockets.cc:217 | a write that fails or is interrupted in the middle of a packet leaves the reader out of step | `Sockets!FramesAlwaysWhole`, Tools |

### Web cache library, tools and stubs

| Where | What happens | Property |
|---|---|---|
| client_lib part.c, icp.c | a query over UDP that nothing answers need not return (clib.h: CLIB_SERVER_TIMEOUT) | `Partitions!QueryReturns`, Stub |
| part.c:460, clib.c:142-174, 292-324, 368-398 | a transfer that fails with a partition that runs takes nothing off the list, and the operation calls itself again, without end | `Partitions!FailuresEnd`, Stub |
| icp.c | MISS is reported as a hit (0) although the comment says 2; a failed receive uses an uninitialised message; a POST is sent again after a failed answer; CPUT writes the terminating NUL; request numbers are written with `htons` and read with `ntohl` | `CacheClient!HitsAreReal`, `PostedOnce`, `PutIsText`, `NumbersComeBack`, Tools |
| icp.c:412 | a client that closes half way after an interrupted read is never noticed | `CacheClient!ReadingEnds`, Tools |
| tcp_redirect.c | two connections to one front end that fail count it as disabled twice | `TcpRedirect!EnabledCounts`, Tools with `NumFds <- 6, MaxFails <- 3` |
| playback | the arguments of `lseek` are swapped, so that a client whose descriptor was taken away begins its trace again | `Playback!EntriesInTurn`, Tools |
| load engine, main.c:245 | requests queued while others connect exceed the ceiling; request numbers repeat (`reqids++` without a lock); after a bogus line the later ones of a connection are lost, a long line overruns the buffer | `LoadEngine!CeilingIsTheMost`, `IdsAreUnique`, `FailureAllocatesNothing`, `BogusIsIgnored`, `LineFits`, Tools |
| cachesim cache.c:88-91 | a hit on the only entry loses the tail of the list: nothing is evicted afterwards, the size is not limited (cache.h:33-34); `add_to_cache` returns 0 in all cases, so two of the statistics stay 0 | `Caches!SizeIsLimited`, Tools |
| tcl_stub.cc, mash_stub | arguments of earlier requests stay visible; a chained distiller can get more than `MAX_ARGS`; the usage text has another order (436); a MIME type of full length is not terminated; data ends at a NUL, braces are dropped; a result that is no list leaves the words of the answer unset (mash_stub.cc:378) | `ScriptStub!OnlyItsArguments`, `ChainedArgumentsFit`, `DistillAsItsUsage`, `FetchChecksWords`, `MimeTypeEnds`, `DataUnchanged`, `StackBalanced`, `ResultIsTheScripts`, Tools |
| times of client_lib | a sum of exactly one million microseconds is not carried, so that equal times compare as different | `DataStructures!SumsCompareEqual`, Tools |

### Distillers

| Where | What happens | Property |
|---|---|---|
| munge.c, munge_magic.c, url_magic.c:7 | images queued on one page can still be there on the next; a tag with two blanks behind its name is taken for a form field; numeric character references are dropped; a `*` in a form is taken for the mark of arguments; the buffer's size is not updated when it grows | `HtmlMunger!OwnImagesOnly`, `ImagesGetMagic`, `FormsAreKept`, `ReferencesAreKept`, `OutputFits`, Media |
| munge.c:54-63, munge_magic.c:441-450 | `strncasecmp` is satisfied when either string ends, so "<B" passes for "<BODY" and the icon goes in front of the body | `HtmlMunger!IconIsInBody`, Media |
| munge_magic.c:260-263, 346-367 | the url of an image without `src` is read from in front of the array of attributes, and arguments are added to a list whose length is not set: the distiller may go on or end | `HtmlMunger!PagesSurvive`, Media |
| sgml_lex.c | newlines looked at ahead of a token are counted twice; an unfinished tag at the end of the document is dropped | `LinesAreCounted`, `NothingIsDropped`, Media |
| pnmscale.c | the number of columns is rounded up and the factor down, so rows are not filled; a limit on pixels can be exceeded | `GifPnm!RowsAreFull`, `PixelsAreLimited`, Media |
| ppmquant.c, ppmtogif.c:404, 455, gif_munge.c:488 | one colour more than asked; a lowered maximum is not undone; opaque pixels can get the transparent colour, and an opaque image gets a transparent one | `GifPnm!ColorsLimited`, `BrightnessStays`, `OpaqueKeepsColor`, `OpaqueStaysOpaque`, Media |
| gif_munge.c:276, 471, ppmquant.c:282 | an opaque image is reduced as if black were its transparent colour: black pixels are not mapped (`ColorsAsAsked` counts without them) | |
| gif_munge.c:418-434 | pixels of the transparent colour become gray like the others, and the gray closest to that colour is made transparent | `GifPnm!GrayStaysTransparent`, Media |
| gif_munge.c:308, 394-409 | "allow individual args to be overridden too": after quality 1, which sets a mode, a width is not looked at | `ImageDistillers!ArgsOverride`, Media |
| giftopnm.c, ppmtogif.c | interlaced images of 2, 3 or 4 rows: the writer goes on with row 4, which is not there, and the reader stops after the first row; `CodingIsUndone` excepts these heights (`Small` of `Compression`) | |
| text2doc.c:155 | the output of a record has 6000 bytes, and a record of 4096 bytes may need 8192 | `Compression!RecordsFit`, Media |
| ditpic.c, gif2grey.c | the last pixels of a row are not written unless the width is 1 modulo 4; a code is read from one block only | `TwoBit!LastPixelIsPacked`, `AnyBlocksWillDo`, Media |
| jpg_munge.c, gifjpg_munge.c, gif_munge.c | limits computed for one image are used for the next; what was allocated before an error is not freed; a failed allocation is used; a scaled image can exceed its limits | `ImageDistillers!LimitsOfThisImage`, `ErrorsFreeMemory`, `BuffersExist`, Media; `ScaledFits`, Media with `Pin <- 4` |
| snprintf.c | a length of 1 means no limit; `#x` looks at another argument; small numbers with `%f` and `%e` have wrong digits | `Snprintf!HexIsMarked`, `DecimalsAsAsked`, Media; `OneByteIsEnough` with `Lengths <- {1, 2}` |

## Not modelled

The monitor and its user interface, Web pages and fonts, start-up, logging and MD5, the parsing of access logs, the scripts that run in the interpreters, JPEG coding (an external library), gdbm and pthreads (external; a file is an atomic map, mutexes and condition variables behave as POSIX says), `%g`, `%n` and `%p` of `snprintf.c`, a host list that cannot be read (a failing `Initialize` in `RExec::Update`), and running out of memory where the code aborts. Within the modelled parts, load figures are abstract in `PTM` and `Distiller` (a load that is too high is an event that may happen at any time) and exact in `LoadSharing`; bytes of packets are abstract except in `Sockets`, `Marshal` and `CacheClient`.
