----------------------------- MODULE Partitions -----------------------------
(***************************************************************************)
(* The client library of the cache: the list of partitions of              *)
(* client_lib/src/part.c and the operations of clib.c that use it.         *)
(*                                                                         *)
(* A URL is hashed to a partition.  A partition that refuses a connection  *)
(* is taken off the list and the operation starts again with what is left; *)
(* SIGHUP makes the next operation build the list again.  The list is      *)
(* under partition_mutex, so every section is one action; the flag of the  *)
(* signal, and the number of partitions after a failure, are read without. *)
(*                                                                         *)
(* A transfer stands for what Clib_Fetch, Clib_Post, Clib_Push,            *)
(* Clib_Async_Fetch and Clib_Lowlevel_Op do after they have a socket: they *)
(* fail in the same way.  Left out: resources (memory, descriptors); when  *)
(* memory is short config_parse may fail, and do_suck_from_configfile      *)
(* returns with an empty list and config_list_mutex held (part.c:151).     *)
(***************************************************************************)
EXTENDS Naturals, Sequences, SequencesExt

CONSTANTS
    Threads,
    Hosts,
    Config,     \* cache.partition of the configuration file
    Hashes,     \* what MD5 gives for the URLs
    Retries,    \* udp_retries
    MaxChanges, \* bound on crashes and restarts of partitions
    MaxHups     \* bound on signals

VARIABLES
    up,         \* partitions that run
    list, num,  \* partition_list, num_partitions
    hup,        \* attempt_to_regrow
    thr,        \* threads
    refused,    \* history: partitions that have refused a connection
    changes, hups

vars == <<up, list, num, hup, thr, refused, changes, hups>>
env == <<up, changes, hups>>
lists == <<list, num, hup>>

Idle == [pc |-> "idle", op |-> "tcp", hash |-> 0, then |-> "pick", tries |-> 0,
         host |-> CHOOSE h \in Hosts : TRUE]

\* The variables keep their types; num_partitions counts the list.
TypeOK ==
    /\ up \subseteq Hosts /\ refused \subseteq Hosts
    /\ list \in Seq(Hosts) /\ num = Len(list)
    /\ hup \in BOOLEAN
    /\ \A t \in Threads :
         thr[t].pc \in {"idle", "test", "clear", "rebuild", "pick", "connect",
                        "delete", "again", "transfer", "query", "fault"}

Init ==
    /\ up \in SUBSET Hosts
    /\ list = Config /\ num = Len(Config) /\ hup = FALSE
    /\ thr = [t \in Threads |-> Idle]
    /\ refused = {} /\ changes = 0 /\ hups = 0
-----------------------------------------------------------------------------
(* Partitions and signals                                                  *)

Crash(h) ==
    /\ h \in up /\ changes < MaxChanges
    /\ up' = up \ {h} /\ changes' = changes + 1
    /\ UNCHANGED <<lists, thr, refused, hups>>

Restart(h) ==
    /\ h \notin up /\ changes < MaxChanges
    /\ up' = up \cup {h} /\ changes' = changes + 1
    /\ UNCHANGED <<lists, thr, refused, hups>>

\* regrow_partitionlist, the signal handler
SigHup ==
    /\ hups < MaxHups
    /\ hups' = hups + 1
    /\ hup' = TRUE
    /\ UNCHANGED <<up, list, num, thr, refused, changes>>
-----------------------------------------------------------------------------
(* Threads                                                                 *)

At(t, pc) == thr[t].pc = pc
Goto(t, pc) == thr' = [thr EXCEPT ![t].pc = pc]
Return(t) == thr' = [thr EXCEPT ![t] = Idle]

\* do_regrow first, then a step of the caller
Regrow(t, then) == thr' = [thr EXCEPT ![t].pc = "test", ![t].then = then]

\* An operation starts with do_regrow in Part_GetTCPsock or Part_GetUDPsock.
Start(t, op, x) ==
    thr' = [thr EXCEPT ![t] = [Idle EXCEPT !.pc = "test", !.op = op, !.hash = x]]

\* Clib_Query, or one of the operations over TCP
Call(t, op, x) ==
    /\ At(t, "idle")
    /\ Start(t, op, x)
    /\ UNCHANGED <<env, lists, refused>>

\* do_regrow tests the flag,
DoRegrow(t) ==
    /\ At(t, "test")
    /\ Goto(t, IF hup THEN "clear" ELSE thr[t].then)
    /\ UNCHANGED <<env, lists, refused>>

\* clears it,
ClearFlag_Lost(t) ==
    /\ At(t, "clear")
    /\ hup' = FALSE
    /\ Goto(t, thr[t].then)
    /\ UNCHANGED <<env, list, num, refused>>
ClearFlag(t) ==
    /\ At(t, "clear")
    /\ hup' = FALSE
    /\ Goto(t, "rebuild")
    /\ UNCHANGED <<env, list, num, refused>>

\* and builds the list again with the lock held (do_suck_from_configfile).
\* config_parse succeeds: it fails when ll_add_to_end does, which returns 1.
Rebuilt_Added == [list |-> list \o Config, num |-> Len(Config)]
Rebuilt == [list |-> Config, num |-> Len(Config)]

Rebuild(t) ==
    /\ At(t, "rebuild")
    /\ list' = Rebuilt.list /\ num' = Rebuilt.num
    /\ Goto(t, thr[t].then)
    /\ UNCHANGED <<env, hup, refused>>

\* get_part_number and the walk to that partition.  With no partitions
\* Part_GetTCPsock fails; Part_GetUDPsock follows a null pointer.
Chosen(x) == list[(x % num) + 1]

Pick(t) ==
    /\ At(t, "pick")
    /\ IF num = 0 /\ thr[t].op = "tcp" THEN Return(t)
       ELSE IF num = 0 THEN Goto(t, "fault")
       ELSE thr' = [thr EXCEPT ![t].host = Chosen(thr[t].hash), ![t].tries = 0,
                      ![t].pc = IF thr[t].op = "tcp" THEN "connect" ELSE "query"]
    /\ UNCHANGED <<env, lists, refused>>

\* connect; Part_HandleFailureS deletes a partition that refuses.
Connect(t) ==
    /\ At(t, "connect")
    /\ IF thr[t].host \in up
         THEN Goto(t, "transfer") /\ UNCHANGED refused
         ELSE Regrow(t, "delete") /\ refused' = refused \cup {thr[t].host}
    /\ UNCHANGED <<env, lists>>

\* Part_Delete: the first entry with the address, if there still is one
Deleted_ByPosition(h, x) ==
    IF list = <<>> THEN list ELSE RemoveAt(list, (x % Len(list)) + 1)
Deleted_Not(h, x) == list
Deleted(h, x) == RemoveFirst(list, h)

Delete(t) ==
    /\ At(t, "delete")
    /\ list' = Deleted(thr[t].host, thr[t].hash)
    /\ num' = Len(list')
    /\ Goto(t, "again")
    /\ UNCHANGED <<env, hup, refused>>

\* The operation calls itself again if there are partitions left.
Again(t) ==
    /\ At(t, "again")
    /\ IF num = 0 THEN Return(t) ELSE Start(t, thr[t].op, thr[t].hash)
    /\ UNCHANGED <<env, lists, refused>>

\* Part_HandleFailure deletes nothing: getsockname, given a length that was
\* not set, may fail, and otherwise Part_Delete gets a length of zero, which
\* no partition has; it does call do_regrow.
Part_HandleFailure(t) ==
    \/ Regrow(t, "again")
    \/ thr' = [thr EXCEPT ![t].pc = "again", ![t].then = "again"]

\* do_http_send, do_http_receive or do_http_put: the answer is there, or a
\* write or read fails, with a partition that runs as well.
Transfer(t) ==
    /\ At(t, "transfer")
    /\ \/ thr[t].host \in up /\ Return(t)
       \/ Part_HandleFailure(t)
    /\ UNCHANGED <<env, lists, refused>>

\* One attempt of Clib_Query: an answer, a timeout, or a call that fails
Query(t) ==
    /\ At(t, "query")
    /\ \/ thr[t].host \in up /\ Return(t)
       \/ thr[t].tries + 1 < Retries /\ thr' = [thr EXCEPT ![t].tries = @ + 1]
       \/ Part_HandleFailure(t)
    /\ UNCHANGED <<env, lists, refused>>

Step(t) ==
    \/ DoRegrow(t) \/ ClearFlag(t) \/ Rebuild(t) \/ Pick(t) \/ Connect(t)
    \/ Delete(t) \/ Again(t) \/ Transfer(t) \/ Query(t)

Next ==
    \/ \E h \in Hosts : Crash(h) \/ Restart(h)
    \/ SigHup
    \/ \E t \in Threads :
         Step(t) \/ \E op \in {"tcp", "udp"}, x \in Hashes : Call(t, op, x)

Spec == Init /\ [][Next]_vars

\* Threads run, connect and select come back.  Nothing is said of transfers,
\* which read and write without a timeout, nor of who answers.
Fairness == \A t \in Threads : WF_vars(Step(t) /\ ~At(t, "transfer"))

FairSpec == Spec /\ Fairness
-----------------------------------------------------------------------------
\* Part_Delete goes by address: a partition that is not on the list has at
\* some time refused a connection, whatever was deleted or built again by
\* other threads meanwhile.
MissingHasRefused == \A h \in Hosts : h \in refused \/ \A i \in DOMAIN Config :
                        Config[i] = h => \E j \in DOMAIN list : list[j] = h

\* do_regrow tests and clears the flag without the lock, and another signal
\* or thread may come between: a thread that has seen the flag still builds
\* the list again from the configuration.
SignalRebuilds == \A t \in Threads : At(t, "clear") ~> (list = Config)

\* An operation over TCP in whose last attempt the connection worked and the
\* transfer failed
Failing(t) == At(t, "again") /\ thr[t].op = "tcp" /\ thr[t].then = "again"

\* Busy with an operation over TCP
Fetching(t) == thr[t].pc # "idle" /\ thr[t].op = "tcp"

\* Part_GetTCPsock and the operations over TCP return, whichever partitions
\* crash and however other threads change the list between two steps: every
\* failure to connect shortens the list.  Two things can keep a thread for
\* ever: a transfer that neither ends nor fails, and transfers that fail time
\* and again.
FetchReturns ==
    \A t \in Threads :
        \/ Fetching(t) ~> At(t, "idle")
        \/ []<>Failing(t)
        \/ <>[]At(t, "transfer")

\* part.c:457, "Failure detected on partition!": Part_HandleFailure takes the
\* partition off the list, so that an operation whose transfers fail comes to
\* CLIB_SERVER_DOWN.
FailuresEnd == \A t \in Threads : <>[]~Failing(t)

\* clib.h says of CLIB_SERVER_TIMEOUT "Cache server response itself timed
\* out": a query that nothing answers returns, as Part_HandleFailure takes
\* the partition off the list.
QueryReturns ==
    \A t \in Threads : (thr[t].pc = "query") ~> (thr[t].pc \in {"idle", "fault"})
=============================================================================
