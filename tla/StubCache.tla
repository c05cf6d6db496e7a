----------------------------- MODULE StubCache -----------------------------
(***************************************************************************)
(* The front end's cache of distillers: ptm/src/cache/cache.cc, the        *)
(* requests of cachenet.cc and reqrep.cc, and CacheManager::Distill.       *)
(*                                                                         *)
(* Worker threads look for a distiller of a type, ask the PTM if there is  *)
(* none, connect, send a request and wait.  The thread of a connection     *)
(* delivers replies and notices when the distiller is gone; the manager's  *)
(* thread delivers timeouts; beacons replace the contents of the cache.    *)
(* A record of the cache is deleted when it is marked and its last         *)
(* reference is gone: workers hold references, and so does every           *)
(* connection object until its thread has ended.                           *)
(*                                                                         *)
(* A section under cacheMutex or distMutex is one action.  A reply or a    *)
(* timeout is found in one step and delivered in another, as reqrep.cc     *)
(* looks up the request under a lock and calls it without; of a reply and  *)
(* a timeout of the same request, one is in between at a time.             *)
(*                                                                         *)
(* Left out: DistillAsync and what goes with it, running out of memory,    *)
(* the choice among several distillers (any may be drawn).                 *)
(***************************************************************************)
EXTENDS Integers, FiniteSets

CONSTANTS
    Workers,
    Addrs,      \* addresses of distillers; each is used by one distiller
    Types,      \* types of distillers
    Wanted,     \* the types that workers ask for
    MaxRecords, \* bound: records that exist at one time
    MaxRenames, \* bound
    None

Slots == 1 .. MaxRecords

ASSUME StubConstants ==
    /\ IsFiniteSet(Workers)
    /\ Wanted \subseteq Types
    /\ MaxRecords \in Nat /\ MaxRenames \in Nat
    /\ None \notin Slots

VARIABLES
    life,       \* distillers: "unborn", "alive" or "dead"
    kind,       \* the type the PTM has for the distiller at an address
    renames,    \* number of renamings
    rec,        \* records
    neg,        \* negative cache
    wrk,        \* worker threads
    late        \* replies and timeouts found and not yet delivered

vars == <<life, kind, renames, rec, neg, wrk, late>>
env == <<life, kind, renames>>

Free == [st |-> "free", addr |-> None, type |-> None, inDB |-> FALSE,
         marked |-> FALSE, refs |-> 0, pending |-> 0, conn |-> "null",
         old |-> 0, reqs |-> {}, dangling |-> FALSE]
Idle == [pc |-> "idle", type |-> None, rec |-> None, stop |-> FALSE,
         via |-> "null"]

Record == [st : {"free", "used"}, addr : Addrs \cup {None}, type : Types \cup {None},
           inDB : BOOLEAN, marked : BOOLEAN, refs : Nat, pending : Int,
           conn : {"null", "failed", "open"}, old : Nat, reqs : SUBSET Workers,
           dangling : BOOLEAN]
Worker == [pc : {"idle", "find", "ask", "refind", "negative", "distill", "send",
                 "wait", "remove", "mark"},
           type : Types \cup {None}, rec : Slots \cup {None}, stop : BOOLEAN,
           via : {"null", "failed", "open"}]

\* The variables keep their types; the workers are at a statement of Distill.
TypeOK ==
    /\ life \in [Addrs -> {"unborn", "alive", "dead"}]
    /\ kind \in [Addrs -> Types \cup {None}]
    /\ renames \in 0 .. MaxRenames
    /\ neg \subseteq Types
    /\ rec \in [Slots -> Record]
    /\ wrk \in [Workers -> Worker]
    /\ late \in [Workers -> {"none", "fresh", "stale"}]

Init ==
    /\ life = [a \in Addrs |-> "unborn"]
    /\ kind = [a \in Addrs |-> None]
    /\ renames = 0
    /\ rec = [i \in Slots |-> Free]
    /\ neg = {}
    /\ wrk = [w \in Workers |-> Idle]
    /\ late = [w \in Workers |-> "none"]
-----------------------------------------------------------------------------
(* Distillers and the PTM                                                  *)

Start(a, t) ==
    /\ life[a] = "unborn"
    /\ life' = [life EXCEPT ![a] = "alive"]
    /\ kind' = [kind EXCEPT ![a] = t]
    /\ UNCHANGED <<renames, rec, neg, wrk, late>>

Die(a) ==
    /\ life[a] = "alive"
    /\ life' = [life EXCEPT ![a] = "dead"]
    /\ UNCHANGED <<kind, renames, rec, neg, wrk, late>>

\* The PTM finds that a distiller is gone.
Forget(a) ==
    /\ life[a] = "dead" /\ kind[a] # None
    /\ kind' = [kind EXCEPT ![a] = None]
    /\ UNCHANGED <<life, renames, rec, neg, wrk, late>>

Rename(a, t) ==
    /\ life[a] = "alive" /\ kind[a] # t /\ renames < MaxRenames
    /\ kind' = [kind EXCEPT ![a] = t]
    /\ renames' = renames + 1
    /\ UNCHANGED <<life, rec, neg, wrk, late>>

\* A new connection to the PTM, or pktFlushNCache
FlushNCache ==
    /\ neg # {}
    /\ neg' = {}
    /\ UNCHANGED <<env, rec, wrk, late>>
-----------------------------------------------------------------------------
(* Operations on records                                                   *)

\* DecrReference deletes a marked record with its last reference.
Collect(r) == IF r.marked /\ r.refs = 0 THEN Free ELSE r

DecrReference(r) == Collect([r EXCEPT !.refs = @ - 1])
MarkForDeletion(r) == Collect([r EXCEPT !.marked = TRUE])

\* Disconnect_ forgets the connection and its requests.  The object of a
\* connection that was open lives on until its thread ends.
Disconnect_ThreadForgotten(r) ==
    [r EXCEPT !.conn = "null", !.reqs = {}, !.dangling = FALSE,
              !.refs = IF r.conn = "failed" THEN @ - 1 ELSE @]
Disconnect(r) ==
    [r EXCEPT !.conn = "null", !.reqs = {}, !.dangling = FALSE,
              !.refs = IF r.conn = "failed" THEN @ - 1 ELSE @,
              !.old = IF r.conn = "open" THEN @ + 1 ELSE @]

\* RemoveAllRequests_: EvDistillerConnectionBroken of every request
RemoveAllRequests(r) ==
    [w \in Workers |->
       IF w \in r.reqs /\ ~wrk[w].stop
         THEN [wrk[w] EXCEPT !.stop = TRUE] ELSE wrk[w]]
-----------------------------------------------------------------------------
(* Updates of the cache by the PTM                                         *)

AtAddr(db, a) == {i \in Slots : db[i].inDB /\ db[i].addr = a}
FreeSlots(db) == {i \in Slots : db[i].st = "free"}

\* Update_ of a record that is there: its load is new, or it is renamed.
Refreshed(r, as) ==
    IF ~r.inDB \/ r.addr \notin as THEN r
    ELSE IF r.type = kind[r.addr] THEN [r EXCEPT !.pending = 0]
    ELSE [r EXCEPT !.type = kind[r.addr]]

\* Sweep_ of what is not listed, or was renamed, and is not connected
Sweep(r, as) ==
    IF r.inDB /\ r.conn = "null" /\ (r.addr \in as => r.type # kind[r.addr])
      THEN MarkForDeletion([r EXCEPT !.inDB = FALSE])
      ELSE Refreshed(r, as)

\* A record that is made for the distiller at an address
Cached(a) ==
    [Free EXCEPT !.st = "used", !.addr = a, !.type = kind[a], !.inDB = TRUE]

\* Update_ of the addresses at which there was no record: each gets one of its
\* own, as long as there is room (a bound of the model).
New(as) == {a \in as : AtAddr(rec, a) = {}}
Places(db, as) ==
    {at \in [New(as) -> FreeSlots(db)] : \A a, b \in New(as) : at[a] = at[b] => a = b}
Room(db, as) == Places(db, as) # {}

CacheNew(db, as) ==
    LET at == CHOOSE p \in Places(db, as) : TRUE IN
    [i \in Slots |-> IF \E a \in New(as) : at[a] = i
                       THEN Cached(CHOOSE a \in New(as) : at[a] = i) ELSE db[i]]

\* A beacon is a complete update: what it does not list is swept out.
UpdateFromBeacon ==
    LET listed == {a \in Addrs : kind[a] # None}
        swept == [i \in Slots |-> Sweep(rec[i], listed)]
    IN
    /\ Room(swept, listed)
    /\ rec' = CacheNew(swept, listed)
    /\ rec' # rec
    /\ UNCHANGED <<env, neg, wrk, late>>
-----------------------------------------------------------------------------
(* The worker threads                                                      *)

At(w, pc) == wrk[w].pc = pc
Rec(w) == rec[wrk[w].rec]
Goto(w, pc) == wrk' = [wrk EXCEPT ![w].pc = pc]
Return(w) == wrk' = [wrk EXCEPT ![w] = Idle]

\* The event system forgets a request that is deleted, but not the events
\* of it that were already found.
DeleteRequest(w) ==
    late' = [late EXCEPT ![w] = IF @ = "fresh" THEN "stale" ELSE @]

Begin(w, t) ==
    /\ At(w, "idle")
    /\ wrk' = [wrk EXCEPT ![w] = [Idle EXCEPT !.pc = "find", !.type = t]]
    /\ UNCHANGED <<env, rec, neg, late>>

Candidates(t) == {i \in Slots : rec[i].inDB /\ rec[i].type = t}

Referenced_NotCounted(r) == [r EXCEPT !.pending = @ + 1]
Referenced(r) == [r EXCEPT !.refs = @ + 1, !.pending = @ + 1]

\* getDistiller found a record: it is referenced before cacheMutex is released.
Take(w) ==
    \E i \in Candidates(wrk[w].type) :
       /\ rec' = [rec EXCEPT ![i] = Referenced(@)]
       /\ wrk' = [wrk EXCEPT ![w].pc = "distill", ![w].rec = i]

GetDistiller(w) ==
    /\ At(w, "find")
    /\ \/ Take(w)
       \/ /\ Candidates(wrk[w].type) = {}
          /\ IF wrk[w].type \in neg THEN Return(w) ELSE Goto(w, "ask")
          /\ UNCHANGED rec
    /\ UNCHANGED <<env, neg, late>>

\* AskPTMForDistiller__.  The PTM answers with a distiller, which is put into
\* the cache, or that it knows of none, or not in time.
AskPTM(w) ==
    /\ At(w, "ask")
    /\ \/ \E a \in Addrs :
            LET db == [i \in Slots |-> Refreshed(rec[i], {a})] IN
            /\ kind[a] = wrk[w].type
            /\ Room(db, {a})
            /\ rec' = CacheNew(db, {a})
            /\ Goto(w, "refind")
       \/ /\ \A a \in Addrs : kind[a] # wrk[w].type
          /\ Goto(w, "negative")
          /\ UNCHANGED rec
       \/ /\ Return(w)
          /\ UNCHANGED rec
    /\ UNCHANGED <<env, neg, late>>

NegativeAdd(w) ==
    /\ At(w, "negative")
    /\ neg' = neg \cup {wrk[w].type}
    /\ Return(w)
    /\ UNCHANGED <<env, rec, late>>

FindAgain(w) ==
    /\ At(w, "refind")
    /\ \/ Take(w)
       \/ Candidates(wrk[w].type) = {} /\ Return(w) /\ UNCHANGED rec
    /\ UNCHANGED <<env, neg, late>>

\* CachedDistiller::Distill up to the release of distMutex.  An attempt to
\* connect that fails leaves the connection object behind.
AddRequest_Unlisted(r, w) == r
AddRequest(r, w) == [r EXCEPT !.reqs = @ \cup {w}]

\* DecrPendingCount
DecrPending_Missing(r) == r
DecrPending(r) == [r EXCEPT !.pending = @ - 1]

\* Remove__ takes the record out of the database.
Remove_StaysCached(r) == r
Remove(r) == [r EXCEPT !.inDB = FALSE]

Connect(r, c) == [r EXCEPT !.conn = c, !.refs = @ + 1]

DistillStart(w) ==
    /\ At(w, "distill")
    /\ LET i == wrk[w].rec
           r == rec[i]
           up == life[r.addr] = "alive"
       IN
       IF r.marked THEN Goto(w, "remove") /\ UNCHANGED rec
       ELSE IF r.conn = "null" /\ ~up
         THEN /\ rec' = [rec EXCEPT ![i] = Connect(r, "failed")]
              /\ Goto(w, "remove")
       ELSE /\ rec' = [rec EXCEPT ![i] =
                         AddRequest(IF r.conn = "null" THEN Connect(r, "open")
                                    ELSE r, w)]
            /\ wrk' = [wrk EXCEPT ![w].pc = "send", ![w].stop = FALSE,
                         ![w].via = IF r.conn = "null" THEN "open" ELSE r.conn]
    /\ UNCHANGED <<env, neg, late>>

Send(w) ==
    /\ At(w, "send") /\ wrk[w].via = "open"
    /\ Goto(w, "wait")
    /\ UNCHANGED <<env, rec, neg, late>>

\* A request that is deleted and stays in pendingRequests
Dangle(r, w) == [r EXCEPT !.dangling = r.dangling \/ w \in r.reqs, !.reqs = r.reqs \ {w}]

\* The write fails: the request is deleted.
SendFails(w) ==
    /\ At(w, "send")
    /\ wrk[w].via = "failed" \/ life[Rec(w).addr] = "dead"
    /\ Goto(w, "remove")
    /\ rec' = [rec EXCEPT ![wrk[w].rec] = Dangle(@, w)]
    /\ DeleteRequest(w)
    /\ UNCHANGED <<env, neg>>

\* SendAndWait is over; Distill returns the status of the request.
Finish(w) ==
    /\ At(w, "wait") /\ wrk[w].stop
    /\ rec' = [rec EXCEPT ![wrk[w].rec] =
                 DecrReference(DecrPending(@))]
    /\ DeleteRequest(w)
    /\ Return(w)
    /\ UNCHANGED <<env, neg>>

\* distSendError: Remove__, which disconnects the record
RemoveDistiller(w) ==
    LET i == wrk[w].rec IN
    /\ At(w, "remove")
    /\ rec' = [rec EXCEPT ![i] =
                 Disconnect(Remove(DecrPending(@)))]
    /\ wrk' = [RemoveAllRequests(rec[i]) EXCEPT ![w].pc = "mark"]
    /\ UNCHANGED <<env, neg, late>>

\* MarkForDeletion and DecrReference, and another attempt
MarkAndRetry(w) ==
    /\ At(w, "mark")
    /\ rec' = [rec EXCEPT ![wrk[w].rec] = DecrReference([@ EXCEPT !.marked = TRUE])]
    /\ wrk' = [wrk EXCEPT ![w] = [Idle EXCEPT !.pc = "find", !.type = wrk[w].type]]
    /\ UNCHANGED <<env, neg, late>>
-----------------------------------------------------------------------------
(* The threads of the connections and of the manager                       *)

HasRequest(w) == wrk[w].pc \in {"send", "wait"}

\* SendReplyReceivedEvent finds the request of a reply.
ReplyFound(w) ==
    /\ At(w, "wait") /\ ~wrk[w].stop
    /\ late[w] = "none"
    /\ late' = [late EXCEPT ![w] = "fresh"]
    /\ UNCHANGED <<env, rec, neg, wrk>>

\* The timer of a request is due.
TimerDue(w) ==
    /\ HasRequest(w) /\ ~wrk[w].stop
    /\ late[w] = "none"
    /\ late' = [late EXCEPT ![w] = "fresh"]
    /\ UNCHANGED <<env, rec, neg, wrk>>

\* EvReplyReceived or EvTimer; the request may be deleted by now.
Deliver(w) ==
    /\ late[w] # "none"
    /\ late' = [late EXCEPT ![w] = "none"]
    /\ IF late[w] = "fresh" /\ ~wrk[w].stop
         THEN /\ wrk' = [wrk EXCEPT ![w].stop = TRUE]
              /\ rec' = [rec EXCEPT ![wrk[w].rec].reqs = @ \ {w}]
         ELSE UNCHANGED <<wrk, rec>>
    /\ UNCHANGED <<env, neg>>

\* EvConnectionBroken in the thread of a connection, which ends: the current
\* connection is disconnected, be it this one or a later one.
ConnectionGone(i) ==
    LET r == rec[i] IN
    /\ r.st = "used" /\ life[r.addr] = "dead"
    /\ r.conn = "open" \/ r.old > 0
    /\ rec' = [rec EXCEPT ![i] =
                 LET d == Disconnect(r) IN DecrReference([d EXCEPT !.old = @ - 1])]
    /\ wrk' = RemoveAllRequests(r)
    /\ UNCHANGED <<env, neg, late>>
-----------------------------------------------------------------------------
Environment ==
    \/ \E a \in Addrs : Die(a) \/ Forget(a)
    \/ \E a \in Addrs : \E t \in Wanted : Start(a, t)
    \/ \E a \in Addrs : \E t \in Types : Rename(a, t)
    \/ FlushNCache

WorkerStep(w) ==
    \/ GetDistiller(w) \/ AskPTM(w) \/ NegativeAdd(w) \/ FindAgain(w)
    \/ DistillStart(w) \/ Send(w) \/ SendFails(w) \/ Finish(w)
    \/ RemoveDistiller(w) \/ MarkAndRetry(w)

Next ==
    \/ Environment
    \/ UpdateFromBeacon
    \/ \E w \in Workers :
         \/ \E t \in Wanted : Begin(w, t)
         \/ WorkerStep(w)
         \/ ReplyFound(w) \/ TimerDue(w)
         \/ Deliver(w)
    \/ \E i \in Slots : ConnectionGone(i)

Spec == Init /\ [][Next]_vars

\* Threads are scheduled, the timer of a request runs, a connection to a dead
\* distiller breaks and the PTM finds out that the distiller is gone.
Fairness ==
    /\ \A w \in Workers :
         /\ WF_vars(WorkerStep(w))
         /\ WF_vars(TimerDue(w))
         /\ WF_vars(Deliver(w))
    /\ \A i \in Slots : WF_vars(ConnectionGone(i))
    /\ \A a \in Addrs : WF_vars(Forget(a))

FairSpec == Spec /\ Fairness
-----------------------------------------------------------------------------
Holders(i) == {w \in Workers : wrk[w].rec = i}

\* Reference counting of CachedDistiller (IncrReference in getDistiller and
\* in ~DistillerConnection's counterpart): the count of a record is the number
\* of workers that use it, plus its connection, plus the connections whose
\* threads have not ended, so it is deleted neither early nor never.
RefsExact ==
    \A i \in Slots :
       /\ rec[i].st = "free" => Holders(i) = {}
       /\ rec[i].refs = Cardinality(Holders(i)) + rec[i].old
                          + (IF rec[i].conn = "null" THEN 0 ELSE 1)
       /\ rec[i].st = "used" => rec[i].inDB \/ rec[i].refs > 0

\* Update_ and the unique main index: two records of the database never have
\* the same address, whatever was renamed, swept or removed meanwhile.
OneRecordPerAddress ==
    \A i, j \in Slots :
       rec[i].inDB /\ rec[j].inDB /\ rec[i].addr = rec[j].addr => i = j

\* pendingCount is set to 0 by an update while requests are out, so it may
\* become negative; getTickets is right as long as it stays within the number
\* of workers.
PendingBounded ==
    \A i \in Slots : /\ rec[i].pending <= Cardinality(Workers)
                     /\ -rec[i].pending <= Cardinality(Workers)

\* A request that waits is in pendingRequests of its record, or it has been
\* told its result: a broken connection leaves no worker waiting.
WaitingIsPending ==
    \A w \in Workers :
       HasRequest(w) => wrk[w].stop \/ (w \in Rec(w).reqs /\ Rec(w).conn # "null")

\* Records, their references and the requests that wait on them agree, while
\* beacons, sweeps and broken connections change them.
RecordsAreKept ==
    TypeOK /\ RefsExact /\ OneRecordPerAddress /\ PendingBounded /\ WaitingIsPending

\* Distill returns, whatever happens to distillers and connections.
DistillReturns ==
    \A w \in Workers : (wrk[w].pc # "idle") ~> (wrk[w].pc = "idle")
=============================================================================
