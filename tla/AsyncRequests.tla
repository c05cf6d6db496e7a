--------------------------- MODULE AsyncRequests ---------------------------
(***************************************************************************)
(* Asynchronous distillation: DistillAsync, DistillRendezvous and          *)
(* DistillDestroy of ptm/src/cache/cacheman.cc, CachedDistiller::          *)
(* DistillAsync of cache.cc and the requests of cachenet.cc, called as     *)
(* xs/clib.xs calls them.                                                  *)
(*                                                                         *)
(* One thread starts requests and later collects or abandons them; the     *)
(* threads of the connections deliver replies and notice broken            *)
(* connections, and the manager's thread delivers timeouts; beacons update *)
(* the records of the cache.  A record is deleted when it is marked and    *)
(* its last reference is gone: requests hold references, and so does every *)
(* connection object until its thread has ended.  What is done under       *)
(* distMutex, or under the mutex of a request, is one action.  A request   *)
(* is numbered by its transaction id, which is not used again.             *)
(*                                                                         *)
(* Every outcome of Connect_, of AddRequest_ and of Send is possible.      *)
(* Renaming a distiller is in StubCache.                                   *)
(***************************************************************************)
EXTENDS Integers, FiniteSets, FiniteSetsExt

CONSTANTS Dists,        \* records of the cache, all of the type wanted
          MaxRequests,  \* bound: requests that are made
          Tries,        \* 5: distillers that DistillAsync tries
          MaxLost       \* bound: calls that run out of memory

Ids == 1 .. MaxRequests

VARIABLES
    dist,       \* records, see New
    pendingReq, \* pendingRequests of each record
    req,        \* request objects
    nextId,     \* transactionCount
    call,       \* the call of DistillAsync that goes on
    gone,       \* requests whose object is deleted
    given,      \* how often the output of a request was handed to the caller
    lost        \* references left behind by calls that ran out of memory

vars == <<dist, pendingReq, req, nextId, call, gone, given, lost>>

NoCall == [pc |-> "idle", try |-> 0, dist |-> 0, id |-> 0, via |-> "null"]
NoRequest == [dist |-> 0, stopWaiting |-> FALSE, status |-> "none", output |-> "none"]
\* All that is left of a request is what became of its output.
Deleted(output) == [NoRequest EXCEPT !.output = output]

\* old counts the connections that were given up and whose threads have not
\* ended; base is a history, the users there were at the last update.
New == [freed |-> FALSE, cached |-> TRUE, marked |-> FALSE, refs |-> 0, pending |-> 0,
        conn |-> "null", old |-> 0, base |-> 0]
Freed == [New EXCEPT !.freed = TRUE, !.cached = FALSE]

Init ==
    /\ dist = [d \in Dists |-> New]
    /\ pendingReq = [d \in Dists |-> {}]
    /\ req = [i \in Ids |-> NoRequest]
    /\ nextId = 1
    /\ call = NoCall
    /\ gone = {}
    /\ given = [i \in Ids |-> 0]
    /\ lost = [d \in Dists |-> 0]

Live == {i \in 1 .. nextId - 1 : i \notin gone}
\* The requests that the caller holds.
Held == Live \ {call.id}

\* Those that a record counts as pending, and those that refer to it
Counted(d) ==
    Cardinality({i \in Held : req[i].dist = d}) + lost[d]
        + (IF call.pc \in {"distill", "send", "error"} /\ call.dist = d THEN 1 ELSE 0)
Users(d) == Counted(d) + (IF call.pc = "mark" /\ call.dist = d THEN 1 ELSE 0)
-----------------------------------------------------------------------------
(* Operations on records                                                   *)

Collect(r) == IF r.marked /\ r.refs = 0 THEN Freed ELSE r
DecrReference(r) == Collect([r EXCEPT !.refs = @ - 1])
MarkForDeletion(r) == Collect([r EXCEPT !.marked = TRUE])

\* A connection that could not be made has no thread, yet it stays in the
\* record until it is disconnected.
Connect(r, outcome) ==
    IF r.conn = "null" THEN [r EXCEPT !.conn = outcome, !.refs = @ + 1] ELSE r

Disconnect(r) ==
    [r EXCEPT !.conn = "null",
              !.refs = IF r.conn = "failed" THEN @ - 1 ELSE @,
              !.old = IF r.conn = "open" THEN @ + 1 ELSE @]

\* RemoveAllRequests_ tells every request in pendingRequests.
Told(d) == [i \in Ids |->
    IF i \in pendingReq[d] /\ i \notin gone /\ ~req[i].stopWaiting
    THEN [req[i] EXCEPT !.stopWaiting = TRUE, !.status = "distConnectionBroken"]
    ELSE req[i]]

RemoveAllRequests(d) ==
    IF dist[d].conn = "null" THEN UNCHANGED <<req, pendingReq>>
    ELSE req' = Told(d) /\ pendingReq' = [pendingReq EXCEPT ![d] = {}]
-----------------------------------------------------------------------------
(* Starting a request                                                      *)

\* cache->getDistiller: the record found is referenced and counted; without
\* one the call ends with the status of the cache.
Reference(try) ==
    \/ \E d \in Dists :
         /\ dist[d].cached
         /\ dist' = [dist EXCEPT ![d].refs = @ + 1, ![d].pending = @ + 1]
         /\ call' = [NoCall EXCEPT !.pc = "distill", !.try = try, !.dist = d]
    \/ /\ \A d \in Dists : ~dist[d].cached
       /\ call' = NoCall
       /\ UNCHANGED dist

DistillAsync ==
    /\ call.pc = "idle"
    /\ nextId <= MaxRequests
    /\ Reference(1)
    /\ UNCHANGED <<pendingReq, req, nextId, gone, given, lost>>

\* The record cannot be used: it leaves the cache and is disconnected.
SendError ==
    /\ call.pc = "error"
    /\ LET d == call.dist IN
         /\ dist' = [dist EXCEPT ![d] =
                       Disconnect([@ EXCEPT !.pending = @ - 1, !.cached = FALSE])]
         /\ RemoveAllRequests(d)
    /\ call' = [call EXCEPT !.pc = "mark"]
    /\ UNCHANGED <<nextId, gone, given, lost>>

\* MarkForDeletion and DecrReference, and the next record is tried.
MarkAndRetry ==
    /\ call.pc = "mark"
    /\ dist' = [dist EXCEPT ![call.dist] = DecrReference([@ EXCEPT !.marked = TRUE])]
    /\ call' = IF call.try < Tries THEN [call EXCEPT !.pc = "again"] ELSE NoCall
    /\ UNCHANGED <<pendingReq, req, nextId, gone, given, lost>>

Again ==
    /\ call.pc = "again"
    /\ Reference(call.try + 1)
    /\ UNCHANGED <<pendingReq, req, nextId, gone, given, lost>>

\* A call that ends with distOutOfLocalMemory releases neither the reference
\* nor the pending count.
OutOfMemory ==
    /\ MapThenSumSet(LAMBDA d : lost[d], Dists) < MaxLost
    /\ call' = NoCall
    /\ lost' = [lost EXCEPT ![call.dist] = @ + 1]

\* CachedDistiller::DistillAsync up to the release of distMutex.
AddRequest ==
    /\ call.pc = "distill"
    /\ LET d == call.dist
           linked == Connect(dist[d], "open")
       IN
         \/ /\ dist[d].marked
            /\ call' = [call EXCEPT !.pc = "error"]
            /\ UNCHANGED <<dist, pendingReq, req, nextId, lost>>
         \/ /\ ~dist[d].marked /\ dist[d].conn = "null"    \* Connect_ fails
            /\ dist' = [dist EXCEPT ![d] = Connect(@, "failed")]
            /\ call' = [call EXCEPT !.pc = "error"]
            /\ UNCHANGED <<pendingReq, req, nextId, lost>>
         \/ /\ ~dist[d].marked
            /\ OutOfMemory                  \* in Connect_ or in AddRequest_
            /\ \E r \in {dist[d], Connect(dist[d], "failed"), linked} :
                  dist' = [dist EXCEPT ![d] = r]
            /\ UNCHANGED <<pendingReq, req, nextId>>
         \/ /\ ~dist[d].marked
            /\ nextId <= MaxRequests
            /\ dist' = [dist EXCEPT ![d] = linked]
            /\ req' = [req EXCEPT ![nextId] = [NoRequest EXCEPT !.dist = d]]
            /\ pendingReq' = [pendingReq EXCEPT ![d] = @ \cup {nextId}]
            /\ nextId' = nextId + 1
            /\ call' = [call EXCEPT !.pc = "send", !.id = nextId, !.via = linked.conn]
            /\ UNCHANGED lost
    /\ UNCHANGED <<gone, given>>

\* Send, outside the lock.  A request that could not be sent is deleted, and
\* stays in pendingRequests.
Send ==
    /\ call.pc = "send"
    /\ \/ /\ call.via = "open"
          /\ call' = NoCall
          /\ UNCHANGED <<req, gone, lost>>
       \/ /\ req[call.id].status # "distOk"     \* not sent, so not answered
          /\ gone' = gone \cup {call.id}
          /\ req' = [req EXCEPT ![call.id] = Deleted("none")]
          /\ \/ call' = [call EXCEPT !.pc = "error", !.id = 0] /\ UNCHANGED lost
             \/ OutOfMemory
    /\ UNCHANGED <<dist, pendingReq, nextId, given>>
-----------------------------------------------------------------------------
(* What happens to a request meanwhile                                     *)

Stopped(i, status, output) ==
    /\ req' = [req EXCEPT ![i].stopWaiting = TRUE, ![i].status = status,
                          ![i].output = output]
    /\ pendingReq' = [pendingReq EXCEPT ![req[i].dist] = @ \ {i}]

\* The distiller answers what was sent to it; a request that has stopped
\* waiting ignores the answer.
EvReplyReceived(i) ==
    /\ i \in Live
    /\ ~req[i].stopWaiting
    /\ dist[req[i].dist].conn = "open"
    /\ Stopped(i, "distOk", "owned")
    /\ UNCHANGED <<dist, nextId, call, gone, given, lost>>

EvTimer(i) ==
    /\ i \in Live
    /\ ~req[i].stopWaiting
    /\ Stopped(i, "distReplyTimeout", "none")
    /\ UNCHANGED <<dist, nextId, call, gone, given, lost>>

\* The thread of a connection, the current one or one that was given up, finds
\* it broken: it disconnects the record, whatever connection that has now, and
\* ends, and its object is deleted.  The record stays in the cache.
EvConnectionBroken(d) ==
    /\ dist[d].conn = "open" \/ dist[d].old > 0
    /\ dist' = [dist EXCEPT ![d] =
                  LET c == Disconnect(@) IN DecrReference([c EXCEPT !.old = @ - 1])]
    /\ RemoveAllRequests(d)
    /\ UNCHANGED <<nextId, call, gone, given, lost>>

\* Or it reads something else and then ends because its connection is marked.
ThreadEnds(d) ==
    /\ dist[d].old > 0
    /\ dist' = [dist EXCEPT ![d] = DecrReference([@ EXCEPT !.old = @ - 1])]
    /\ UNCHANGED <<pendingReq, req, nextId, call, gone, given, lost>>

\* DistillerCache::Update with the distillers S: a record that is there is
\* updated, which sets pendingCount to 0, one that is not is created.  A
\* complete update sweeps out the others that are not connected.
Updated(r, d) == [r EXCEPT !.pending = 0, !.base = Counted(d)]
Swept(r) ==
    IF r.conn = "null" THEN MarkForDeletion([r EXCEPT !.cached = FALSE]) ELSE r
Update(S, complete) ==
    /\ dist' = [d \in Dists |->
                  CASE d \in S /\ dist[d].cached -> Updated(dist[d], d)
                    [] d \in S /\ dist[d].freed -> New
                    [] d \notin S /\ dist[d].cached /\ complete -> Swept(dist[d])
                    [] OTHER -> dist[d]]
    /\ UNCHANGED <<pendingReq, req, nextId, call, gone, given, lost>>
-----------------------------------------------------------------------------
(* Collecting a request                                                    *)

Destroyed_ReferenceKept(i, output) ==
    LET d == req[i].dist IN
    /\ req' = [req EXCEPT ![i] = Deleted(IF output = "owned" THEN "freed" ELSE output)]
    /\ pendingReq' = [pendingReq EXCEPT ![d] = IF req[i].stopWaiting THEN @ ELSE @ \ {i}]
    /\ dist' = [dist EXCEPT ![d] =
                  IF req[i].stopWaiting THEN DecrReference([@ EXCEPT !.pending = @ - 1])
                  ELSE [@ EXCEPT !.pending = @ - 1]]
    /\ gone' = gone \cup {i}

\* DistillerRequest::Destroy followed by delete: what the request still owns
\* is freed, and the record is released.
Destroyed(i, output) ==
    LET d == req[i].dist IN
    /\ req' = [req EXCEPT ![i] = Deleted(IF output = "owned" THEN "freed" ELSE output)]
    /\ pendingReq' = [pendingReq EXCEPT ![d] = IF req[i].stopWaiting THEN @ ELSE @ \ {i}]
    /\ dist' = [dist EXCEPT ![d] = DecrReference([@ EXCEPT !.pending = @ - 1])]
    /\ gone' = gone \cup {i}

\* Wait has seen stopWaiting: the output is copied out, DontFreeMe leaves it
\* to the caller, and the request is destroyed.  A wait that times out first
\* changes nothing: the caller keeps the request.
DistillRendezvous(i) ==
    /\ call.pc = "idle"
    /\ i \in Held
    /\ req[i].stopWaiting
    /\ Destroyed(i, IF req[i].output = "owned" THEN "given" ELSE req[i].output)
    /\ given' = [given EXCEPT ![i] = @ + (IF req[i].output = "owned" THEN 1 ELSE 0)]
    /\ UNCHANGED <<nextId, call, lost>>

DistillDestroy(i) ==
    /\ call.pc = "idle"
    /\ i \in Held
    /\ Destroyed(i, req[i].output)
    /\ UNCHANGED <<nextId, call, given, lost>>

Next ==
    \/ DistillAsync \/ AddRequest \/ Send \/ SendError \/ MarkAndRetry \/ Again
    \/ \E i \in Ids : EvReplyReceived(i) \/ EvTimer(i) \/ DistillRendezvous(i)
                      \/ DistillDestroy(i)
    \/ \E d \in Dists : EvConnectionBroken(d) \/ ThreadEnds(d)
    \/ \E S \in SUBSET Dists, complete \in BOOLEAN : Update(S, complete)

Spec == Init /\ [][Next]_vars
-----------------------------------------------------------------------------
\* However requests end and connections break, a record is referenced once for
\* every request that the caller still holds of it, by the call that goes on,
\* by its connection and by every connection whose thread has not ended; nothing
\* else keeps it but the references left behind when memory ran out, and none
\* of these uses a record that is deleted.  Its pending count has followed the
\* requests since the last update.
RecordsAreReleased == \A d \in Dists :
    IF dist[d].freed THEN Users(d) = 0
    ELSE /\ dist[d].refs = Users(d) + dist[d].old + (IF dist[d].conn = "null" THEN 0 ELSE 1)
         /\ dist[d].cached \/ dist[d].refs > 0
         /\ dist[d].pending = Counted(d) - dist[d].base

\* The output of a request is handed to the caller or freed by the request,
\* never both and never twice, and a request that still waits will be told
\* when its connection breaks.
OutputsHaveOneOwner ==
    /\ \A i \in gone : req[i].output \in {"none", "given", "freed"}
    /\ \A i \in Ids : given[i] = (IF req[i].output = "given" THEN 1 ELSE 0)
    /\ \A i \in Live : ~req[i].stopWaiting =>
          i \in pendingReq[req[i].dist] /\ dist[req[i].dist].conn # "null"

\* Whatever happens to the requests and their distillers, the books of the
\* cache and of the outputs stay right.
AsyncIsAccounted == RecordsAreReleased /\ OutputsHaveOneOwner

\* Refuted by the code: a request in pendingRequests exists.  Send deletes a
\* request that could not be sent without taking it out, and Disconnect_ will
\* call it.
PendingExist == \A d \in Dists : pendingReq[d] \cap gone = {}
=============================================================================
