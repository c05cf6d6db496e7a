---------------------------- MODULE WingRequest -----------------------------
(***************************************************************************)
(* A request of a Wingman client (frontend/src/winggo.c), from wing_go_proc*)
(* to its end.  The request is read, its metadata and URL are looked at,   *)
(* and wing_dispatch_request fetches and distills in a loop that follows   *)
(* redirections, of servers and of distillers.  A client older than        *)
(* CLIENT_VERSION_NEWAGG may ask for the list of aggregators besides its   *)
(* page: the list is fetched first, and its arrival is handled as if it    *)
(* were a redirection to the page.                                         *)
(*                                                                         *)
(* Each call of server_dispatch and proxy_dispatch (see Pipeline) is a     *)
(* step with any of its results.  Sizes are in bytes where the reply's     *)
(* header counts them.                                                     *)
(***************************************************************************)
EXTENDS Integers, Sequences
LOCAL INSTANCE Functions

CONSTANTS
    MAX_REDIRECT,   \* PERF_HTTP_MAX_REDIRECT
    ListSizes,      \* sizes of a list of aggregators
    PageSizes       \* sizes of a distilled page

VARIABLES
    pc,
    old,            \* the client is older than CLIENT_VERSION_NEWAGG
    flags,          \* out_nocache, out_sendagglist, in_nocache
    url,            \* "agg" (no server is asked) or "web"
    fetching,       \* whether that URL stands for the list or the page
    saveoldurl,     \* the page's URL while the list is fetched, or "none"
    agglistlen,
    num_redirect, tot_num_redirect,
    page,           \* type, status and size of the last distilled answer
    fetches, inarow,    \* history: rounds of the loop; redirections of
                        \* servers since the last that was not one
    sent            \* replies: what the header announces, what is written

vars == <<pc, old, flags, url, fetching, saveoldurl, agglistlen,
          num_redirect, tot_num_redirect, page, fetches, inarow, sent>>

NoPage == [type |-> "none", status |-> "none", size |-> 0]

Init ==
    /\ pc = "read"
    /\ old \in BOOLEAN
    /\ flags = [out_nocache |-> FALSE, out_sendagglist |-> FALSE, in_nocache |-> FALSE]
    /\ url \in {"agg", "web"} /\ fetching = "page" /\ saveoldurl = "none"
    /\ agglistlen = 0 /\ num_redirect = 0 /\ tot_num_redirect = 0
    /\ page = NoPage /\ fetches = 0 /\ inarow = 0 /\ sent = << >>

\* wing_read_client_request gives up: a timeout, a version or size that
\* cannot be.  No reply is sent.
ReadFails ==
    /\ pc = "read"
    /\ pc' = "done"
    /\ UNCHANGED <<old, flags, url, fetching, saveoldurl, agglistlen, num_redirect,
                   tot_num_redirect, page, fetches, inarow, sent>>

\* The client's wishes; only an old client's list is asked for.
ParseMetadata(nocache, list) ==
    flags' = [flags EXCEPT !.out_nocache = nocache \/ list, !.out_sendagglist = list]

\* The list's URL is an option, by default an aggregator's.
ParseUrl(list, listurl) ==
    /\ saveoldurl' = IF list THEN url ELSE "none"
    /\ url' = IF list THEN listurl ELSE url
    /\ fetching' = IF list THEN "list" ELSE "page"

\* wing_read_client_request succeeds; the two steps above follow.
Read(nocache, agglist, listurl) ==
    /\ pc = "read"
    /\ pc' = "loop"
    /\ ParseMetadata(nocache, old /\ agglist)
    /\ ParseUrl(old /\ agglist, listurl)
    /\ UNCHANGED <<old, agglistlen, num_redirect, tot_num_redirect, page, fetches, inarow, sent>>

\* The condition of the loop of wing_dispatch_request
MayGoOn == num_redirect <= MAX_REDIRECT /\ tot_num_redirect <= 3 * MAX_REDIRECT

LoopEnds ==
    /\ pc = "loop" /\ ~MayGoOn
    /\ pc' = "error"
    /\ UNCHANGED <<old, flags, url, fetching, saveoldurl, agglistlen, num_redirect,
                   tot_num_redirect, page, fetches, inarow, sent>>

Followed_NotInAll == num_redirect' = num_redirect + 1 /\ UNCHANGED tot_num_redirect
Followed == num_redirect' = num_redirect + 1 /\ tot_num_redirect' = tot_num_redirect + 1

\* An answer with status 3xx, or the list for an old client: the next URL.
\* A list that was waited for leads to the page, whatever the answer says.
Redirected_ToLocation(location) ==
    IF location = "none" THEN pc' = "error" /\ UNCHANGED <<url, fetching, saveoldurl>>
    ELSE /\ pc' = "loop" /\ url' = location
         /\ UNCHANGED <<fetching, saveoldurl>>
Redirected(location) ==
    IF ~old \/ saveoldurl = "none"
    THEN IF location = "none"
         THEN pc' = "error" /\ UNCHANGED <<url, fetching, saveoldurl>>
         ELSE /\ pc' = "loop" /\ url' = location
              /\ UNCHANGED <<fetching, saveoldurl>>
    ELSE /\ pc' = "loop" /\ url' = saveoldurl
         /\ saveoldurl' = "none" /\ fetching' = "page"

Locations == {"agg", "web", "none"}     \* of a Location header

\* server_dispatch, for a URL that is not an aggregator's
ServerFails ==
    /\ pc = "loop" /\ MayGoOn /\ url = "web"
    /\ pc' = "error"
    /\ fetches' = fetches + 1
    /\ UNCHANGED <<old, flags, url, fetching, saveoldurl, agglistlen, num_redirect,
                   tot_num_redirect, page, inarow, sent>>

ServerRedirects(type, size, location) ==
    /\ pc = "loop" /\ MayGoOn /\ url = "web"
    /\ fetches' = fetches + 1 /\ inarow' = inarow + 1
    /\ agglistlen' = IF old /\ type = "agglist" THEN size ELSE agglistlen
    /\ Redirected(location)
    /\ IF pc' = "loop" THEN Followed ELSE UNCHANGED <<num_redirect, tot_num_redirect>>
    /\ UNCHANGED <<old, flags, page, sent>>

ServerAnswers ==
    /\ pc = "loop" /\ MayGoOn
    /\ pc' = "distill"
    /\ fetches' = fetches + 1 /\ inarow' = 0
    /\ num_redirect' = 0
    /\ UNCHANGED <<old, flags, url, fetching, saveoldurl, agglistlen,
                   tot_num_redirect, page, sent>>

\* proxy_dispatch, and what is done with the distilled answer
Distills(type, status, size, location) ==
    LET isList == old /\ type = "agglist" IN
    /\ pc = "distill"
    /\ agglistlen' = IF isList THEN size ELSE agglistlen
    /\ IF isList \/ status = "redirect"
       THEN /\ Redirected(location)
            /\ IF pc' = "loop" THEN Followed ELSE UNCHANGED <<num_redirect, tot_num_redirect>>
            /\ UNCHANGED <<page, flags>>
       ELSE /\ pc' = "reply"
            /\ page' = [type |-> type, status |-> status, size |-> size]
            /\ flags' = [flags EXCEPT !.in_nocache = (status # "ok")]
            /\ UNCHANGED <<url, fetching, saveoldurl, num_redirect, tot_num_redirect>>
    /\ UNCHANGED <<old, fetches, inarow, sent>>

DistillFails ==
    /\ pc = "distill"
    /\ pc' = "error"
    /\ UNCHANGED <<old, flags, url, fetching, saveoldurl, agglistlen, num_redirect,
                   tot_num_redirect, page, fetches, inarow, sent>>

\* wing_writeback_reply: a type that is not x-wingman/<n> is an error; else
\* the header, the pieces of metadata it counted, and the data
UncacheSize == 8
TypeSize == 6

Announced(nocache, typed) ==
    (IF nocache THEN UncacheSize ELSE 0) + (IF typed THEN TypeSize ELSE 0)
        + (IF old /\ agglistlen > 0 THEN agglistlen + 4 ELSE 0)

\* What correct_write puts out: the sizes of the pieces
Pieces_Untyped(nocache, typed) ==
    (IF nocache THEN <<UncacheSize>> ELSE << >>)
        \o (IF old /\ agglistlen > 0 THEN <<4, agglistlen>> ELSE << >>)
Pieces(nocache, typed) ==
    (IF nocache THEN <<UncacheSize>> ELSE << >>)
        \o (IF typed THEN <<TypeSize - 2, 2>> ELSE << >>)
        \o (IF old /\ agglistlen > 0 THEN <<4, agglistlen>> ELSE << >>)

NotCached_Pragma(pragma) == pragma
NotCached(pragma) == flags.in_nocache \/ pragma

Writeback(pragma) ==
    LET nocache == NotCached(pragma)
        typed == page.type # "regular"          \* content_type_int # 0
    IN
    /\ pc = "reply"
    /\ IF page.type = "other" THEN pc' = "error" /\ UNCHANGED <<flags, sent>>
       ELSE /\ pc' = "done"
            /\ flags' = [flags EXCEPT !.in_nocache = nocache]
            /\ sent' = Append(sent,
                  [meta |-> Announced(nocache, typed), pieces |-> Pieces(nocache, typed),
                   data |-> page.size, wrote |-> page.size, nocache |-> nocache,
                   list |-> old /\ agglistlen > 0, error |-> FALSE])
    /\ UNCHANGED <<old, url, fetching, saveoldurl, agglistlen, num_redirect,
                   tot_num_redirect, page, fetches, inarow>>

\* wing_error_return: the message is distilled; if that fails, a canned one
ErrorReturn(size) ==
    /\ pc = "error"
    /\ pc' = "done"
    /\ sent' = Append(sent,
          [meta |-> UncacheSize, pieces |-> <<UncacheSize>>, data |-> size, wrote |-> size,
           nocache |-> TRUE, list |-> FALSE, error |-> TRUE])
    /\ UNCHANGED <<old, flags, url, fetching, saveoldurl, agglistlen, num_redirect,
                   tot_num_redirect, page, fetches, inarow>>

Types == {"regular", "database", "agglist", "other"}

Next ==
    \/ ReadFails
    \/ \E nocache, agglist \in BOOLEAN, listurl \in {"agg", "web"} :
          Read(nocache, agglist, listurl)
    \/ LoopEnds \/ ServerFails \/ ServerAnswers \/ DistillFails
    \/ \E type \in {"agglist", "other"}, size \in ListSizes, location \in Locations :
          ServerRedirects(type, size, location)
    \/ \E type \in Types, status \in {"ok", "redirect", "failed"}, location \in Locations :
          \E size \in IF type = "agglist" THEN ListSizes ELSE PageSizes :
             Distills(type, status, size, location)
    \/ \E pragma \in BOOLEAN : Writeback(pragma)
    \/ \E size \in PageSizes : ErrorReturn(size)

Spec == Init /\ [][Next]_vars
-----------------------------------------------------------------------------
\* A client that was understood gets one reply, by whatever path, and the
\* sizes in its header are those of the metadata and the data that follow,
\* with which the client finds the next reply's header.
OneFramedReply ==
    /\ Len(sent) <= 1
    /\ pc = "done" /\ fetches > 0 => Len(sent) = 1
    /\ \A k \in 1 .. Len(sent) : /\ sent[k].meta = FoldFunction(+, 0, sent[k].pieces)
                                 /\ sent[k].data = sent[k].wrote

\* A reply with the list of aggregators carries the page that was asked for,
\* not what was fetched to get the list.
ListComesWithPage ==
    \A k \in 1 .. Len(sent) : sent[k].list => fetching = "page"

\* Servers and distillers that redirect for ever are given up: there are at
\* most MAX_REDIRECT + 1 redirections of servers in a row, and the two
\* kinds together cannot keep the loop going by turns.
RedirectsBounded ==
    inarow <= MAX_REDIRECT + 1 /\ fetches <= 3 * MAX_REDIRECT + 1

\* A failure is not kept by the client: a reply to anything but a page with
\* status 200 is marked as one that may not be cached.
FailuresNotCached ==
    \A k \in 1 .. Len(sent) : (sent[k].error \/ page.status # "ok") => sent[k].nocache

=============================================================================
