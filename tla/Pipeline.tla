------------------------------ MODULE Pipeline ------------------------------
(***************************************************************************)
(* One request on its way through the front end: http_go_proc              *)
(* (frontend/src/httpgo.c) reads it, server_dispatch fetches the original  *)
(* content, proxy_dispatch (frontend/src/dispatch.c) sends the content     *)
(* through a pipeline of distillers, and one of many places answers the    *)
(* client.  The next distiller is named by the X-Route header, by the      *)
(* static route that some distiller returned, or by the content type.      *)
(* The client, the cache and the distillers are free to do anything.       *)
(***************************************************************************)
EXTENDS Naturals, Sequences

CONSTANTS Distillers,   \* distillers a route can name
          Generic,      \* the distiller that content type or URL ask for
          Dispatcher,   \* the worker for URLs of the front end itself
          Routes,       \* values of X-Route and X-Static-Route; <<>> is none
          Retries,      \* FRONT_RETRY_DISTILL or PERF_HTTP_RETRY_DISTILL; a
                        \* negative value allows no retry, as 0 does
          TTL           \* PERF_REQUEST_TTL

ASSUME PipelineAssumption ==
    /\ Routes \subseteq Seq(Distillers)
    /\ << >> \in Routes
    /\ Retries \in Nat
    /\ TTL \in Nat

VARIABLES pc,       \* "read", "serve", "stage", "distill" or "done"
          local,    \* is the URL one of the front end itself?
          route,    \* X-Route of din.metadata
          static,   \* static_route: the components still to come
          fixed,    \* static_route_initialized
          tries,    \* num_tries_left
          age,      \* task_age
          reply,    \* what was written to the client
          begun,    \* the number of stages begun
          asked,    \* the distillers asked in the last of them, in their order
          saved,    \* the static route, complete
          savedAt   \* the stage that returned it

request == <<pc, local, reply>>
plan == <<route, static, fixed, tries, age>>
history == <<begun, asked, saved, savedAt>>
vars == <<request, plan, history>>

Workers == Distillers \cup {Generic, Dispatcher}

\* The request has just been taken from the queue (init_Request).
Init ==
    /\ pc = "read"
    /\ local = FALSE
    /\ route = << >>
    /\ static = << >>
    /\ fixed = FALSE
    /\ tries = 0
    /\ age = 0
    /\ reply = << >>
    /\ begun = 0
    /\ asked = << >>
    /\ saved = << >>
    /\ savedAt = 0

\* HTTPGO_FINISH, after the client got r (nothing, if r is empty).
Finish(r) ==
    /\ pc' = "done"
    /\ reply' = reply \o r

-----------------------------------------------------------------------------
(***************************************************************************)
(* http_go_proc up to the distillation.                                    *)
(***************************************************************************)

\* The client times out or closes the connection before its headers end.
ReadFails ==
    /\ pc = "read"
    /\ Finish(<< >>)
    /\ UNCHANGED <<local, plan, history>>

\* A request that does not parse, or one that sets or gets preferences.
AnswerAtOnce ==
    /\ pc = "read"
    /\ \E r \in {"error", "preferences"} : Finish(<<r>>)
    /\ UNCHANGED <<local, plan, history>>

\* Neither GET nor POST: relayed as it is; a cache error is not reported.
Tunnel ==
    /\ pc = "read"
    /\ \E r \in {<< >>, <<"tunnelled">>} : Finish(r)
    /\ UNCHANGED <<local, plan, history>>

\* A GET or POST, or any request for a URL of the front end.
Accept ==
    /\ pc = "read"
    /\ local' \in BOOLEAN
    /\ pc' = "serve"
    /\ UNCHANGED <<reply, plan, history>>

\* server_dispatch: bad request, cache error, or no status in the answer.
DispatchFails ==
    /\ pc = "serve"
    /\ Finish(<<"error">>)
    /\ UNCHANGED <<local, plan, history>>

\* The answer is an error, is small, or the user wants no distillation.
Bypass ==
    /\ pc = "serve"
    /\ ~local
    /\ Finish(<<"original">>)
    /\ UNCHANGED <<local, plan, history>>

\* The original content is there, with headers that may name a route; a URL
\* of the front end gets the route to the dispatcher.
DispatchSucceeds ==
    /\ pc = "serve"
    /\ IF local THEN route' = <<Dispatcher>> ELSE route' \in Routes
    /\ pc' = "stage"
    /\ UNCHANGED <<local, static, fixed, tries, age, reply, history>>

-----------------------------------------------------------------------------
(***************************************************************************)
(* proxy_dispatch.                                                         *)
(***************************************************************************)

\* A stage begins with all its tries left.
BeginStage ==
    /\ pc = "stage"
    /\ tries' = Retries
    /\ begun' = begun + 1
    /\ asked' = << >>
    /\ pc' = "distill"
    /\ UNCHANGED <<local, reply, route, static, fixed, age, saved, savedAt>>

\* set_distiller_type: the head of X-Route, or the content type's distiller.
\* insert_header puts the rest behind the old X-Route, which delete_header,
\* taking the first one it finds, then removes.
Target == IF route = << >> THEN Generic ELSE Head(route)
Rest == IF route = << >> THEN << >> ELSE Tail(route)

\* Distill is called for the target.
Ask ==
    /\ pc = "distill"
    /\ asked' = Append(asked, Target)
    /\ UNCHANGED begun

\* The connection to the distiller breaks and tries are left.
Retry ==
    /\ Ask
    /\ tries > 0
    /\ tries' = tries - 1
    /\ route' = Rest
    /\ UNCHANGED <<request, static, fixed, age, saved, savedAt>>

\* Deviation: a distillation that fails starts the request anew.
DistillFails_Restart ==
    /\ pc = "distill"
    /\ pc' = "serve"
    /\ route' = << >> /\ static' = << >> /\ fixed' = FALSE
    /\ tries' = 0 /\ age' = 0
    /\ begun' = 0 /\ asked' = << >> /\ saved' = << >> /\ savedAt' = 0
    /\ UNCHANGED <<local, reply>>

\* The distillation fails for good: the client gets the original content or
\* an error, according to the status, the arguments and the URL.
DistillFails ==
    /\ Ask
    /\ route' = Rest
    /\ \E r \in IF local THEN {"error"} ELSE {"error", "original"} : Finish(<<r>>)
    /\ UNCHANGED <<local, static, fixed, tries, age, saved, savedAt>>

\* X-Static-Route of the output is saved the first time it is seen.
Save(s) ==
    IF ~fixed /\ s # << >>
    THEN fixed' = TRUE /\ saved' = s /\ savedAt' = age + 1
    ELSE UNCHANGED <<fixed, saved, savedAt>>

StaticAfter(s) == IF ~fixed THEN s ELSE static

\* Deviation: the last stage of a static route may redispatch.
MustRedispatch_Always(status, s) ==
    StaticAfter(s) # << >> \/ status = "redispatch"

\* Does the output, with static route s, go to another distiller?
MustRedispatch(status, s) ==
    \/ StaticAfter(s) # << >>
    \/ status = "redispatch" /\ ~fixed

\* Is a request that has passed a stages served by one more?
MayGoOn(a) == a <= TTL

\* The output, with headers x and s, becomes the input of the next stage.
Redispatch ==
    /\ Ask
    /\ \E status \in {"ok", "redispatch"}, x, s \in Routes :
         /\ MustRedispatch(status, s)
         /\ Save(s)
         /\ IF StaticAfter(s) # << >>
            THEN route' = StaticAfter(s) /\ static' = Tail(StaticAfter(s))
            ELSE route' = x /\ static' = static
    /\ age' = age + 1
    /\ IF MayGoOn(age + 1) THEN pc' = "stage" /\ UNCHANGED reply
                           ELSE Finish(<<"error">>)
    /\ UNCHANGED <<local, tries>>

\* The output goes to the client.
DistillDone ==
    /\ Ask
    /\ \E status \in {"ok", "redispatch"}, s \in Routes : ~MustRedispatch(status, s)
    /\ Finish(<<"distilled">>)
    /\ route' = Rest
    /\ UNCHANGED <<local, static, fixed, tries, age, saved, savedAt>>

-----------------------------------------------------------------------------
proxy_dispatch == BeginStage \/ Retry \/ DistillFails \/ Redispatch \/ DistillDone

http_go_proc ==
    \/ ReadFails
    \/ AnswerAtOnce
    \/ Tunnel
    \/ Accept
    \/ DispatchFails
    \/ Bypass
    \/ DispatchSucceeds
    \/ proxy_dispatch

\* The worker thread goes back to the queue.
Done == pc = "done" /\ UNCHANGED vars

Next == http_go_proc \/ Done

Spec == Init /\ [][Next]_vars

(***************************************************************************)
(* Distill comes back in the end, and what proxy_dispatch does around it   *)
(* does not wait for anybody.  Nothing is said of the steps before and     *)
(* behind it: a client may be slow, the cache may send no answer           *)
(* (client_lib icp.c:354), Clib_Fetch may recurse without end, and         *)
(* correct_write to the client may block (utils.c:305).                    *)
(***************************************************************************)
FairSpec == Spec /\ WF_vars(proxy_dispatch)

-----------------------------------------------------------------------------
(***************************************************************************)
(* Properties.                                                             *)
(***************************************************************************)

Replies == {"error", "preferences", "tunnelled", "original", "distilled"}

(***************************************************************************)
(* Every variable has its type.                                            *)
(***************************************************************************)
TypeOK ==
    /\ pc \in {"read", "serve", "stage", "distill", "done"}
    /\ local \in BOOLEAN
    /\ route \in Seq(Workers)
    /\ static \in Seq(Distillers)
    /\ fixed \in BOOLEAN
    /\ tries \in 0 .. Retries
    /\ age \in 0 .. TTL + 1
    /\ reply \in Seq(Replies)
    /\ begun \in Nat
    /\ asked \in Seq(Workers)
    /\ saved \in Seq(Distillers)
    /\ savedAt \in Nat

(***************************************************************************)
(* The client is answered at most once, and only at the end, although      *)
(* http_go_proc and the functions it calls answer in a dozen places.       *)
(***************************************************************************)
OneReply ==
    /\ Len(reply) <= 1
    /\ pc # "done" => reply = << >>

(***************************************************************************)
(* The distiller that attempt j of stage k asks when a static route rules  *)
(* (dispatch.c:313-315, 383, 630-651): the stage starts with the component *)
(* whose turn it is, every broken connection goes on to the component      *)
(* behind, and when there is none left to the one for the content type.    *)
(***************************************************************************)
Due(k, j) ==
    LET p == k - savedAt + j - 1
    IN  IF p <= Len(saved) THEN saved[p] ELSE Generic

(***************************************************************************)
(* What is left of "If the response headers contain a nonempty             *)
(* X-Static-Route header, it is the final authority" (dispatch.c:326) when *)
(* connections break.  Once a static route is saved, every attempt asks    *)
(* the distiller that is due, whatever the stages before it returned and   *)
(* whichever of their connections broke: no retry of one stage shifts      *)
(* another stage.  Output that reaches the client has passed as many       *)
(* stages as the route has components, and nothing comes after them.       *)
(***************************************************************************)
StaticRouteFollowed ==
    fixed =>
      /\ begun <= savedAt + Len(saved)
      /\ begun > savedAt => \A j \in 1 .. Len(asked) : asked[j] = Due(begun, j)
      /\ reply = <<"distilled">> => begun = savedAt + Len(saved)

(***************************************************************************)
(* The work for one request is bounded, however the distillers redispatch  *)
(* and however often their connections break: TTL + 1 stages of            *)
(* Retries + 1 attempts.                                                   *)
(***************************************************************************)
WorkBounded ==
    /\ begun <= TTL + 1
    /\ Len(asked) <= Retries + 1

(***************************************************************************)
(* One answer, the static route followed, and bounded work together.       *)
(***************************************************************************)
PipelineIsSafe == TypeOK /\ OneReply /\ StaticRouteFollowed /\ WorkBounded

(***************************************************************************)
(* A request that has got as far as the distillers leaves their loop in    *)
(* the end, with something to answer, however often connections break and  *)
(* whatever the distillers return.                                         *)
(***************************************************************************)
LoopEnds == (pc = "stage") ~> (pc = "done")

(***************************************************************************)
(* dispatch.c:290: "In case of distConnectionBroken error, (re)try at most *)
(* N times": the distillation that is tried again is the one that failed.  *)
(***************************************************************************)
RetriesSameDistiller == \A i, j \in DOMAIN asked : asked[i] = asked[j]

(***************************************************************************)
(* dispatch.c:326, "it is the final authority": the output of a stage was  *)
(* made by the distiller of the static route whose turn it was.            *)
(***************************************************************************)
RouteIsAuthority ==
    fixed /\ begun > savedAt /\ (pc = "stage" \/ reply = <<"distilled">>) =>
      asked[Len(asked)] = saved[begun - savedAt]
=============================================================================
