---------------------------- MODULE CacheClient ----------------------------
(***************************************************************************)
(* The part of client_lib that talks to the Web cache and to HTTP servers: *)
(* receiving a message whose length is not known (HttpReceive) and what is *)
(* sent and answered (the wire formats).                                   *)
(***************************************************************************)
EXTENDS Integers, Sequences, SequencesExt, FiniteSetsExt
-----------------------------------------------------------------------------
(***************************************************************************)
(* How the client library reads an HTTP message that comes in pieces       *)
(* (client_lib/src/icp.c).  do_http_receive reads a cache server's answer  *)
(* up to the end of the connection, and stops early, for the caller to cut *)
(* through, when the answer is long.  do_http_client_receive reads a       *)
(* client's request and asks test_client_read_done after every piece.      *)
(* get_header_content (clib.c) takes an answer apart.                      *)
(*                                                                         *)
(* A message is a sequence of marks: "R" and "N" for carriage return and   *)
(* line feed, "V" for " HTTP/1.x", L0 to L4 for a Content-length header of *)
(* that value, "c" for any other byte.  An answer is one of these too.     *)
(***************************************************************************)
CONSTANTS
    HTTP_READ_INCR,
    CLIB_CUTTHROUGH_THRESH,
    Bodies,             \* bodies of requests, of at most 4 marks
    MaxInterrupts,      \* reads that fail with EINTR or EAGAIN
    MaxBuff             \* the buffer is not followed beyond

VARIABLES
    asClient,           \* which of the two functions
    message,            \* what the peer sends before it closes
    whole, body,        \* the length of what it meant to send, and its body
    cursize, curbuff,   \* read so far, and allocated
    errno,              \* still that of the last call that failed, here or before
    retval,             \* "none" while the function runs
    interrupts

httpVars == <<asClient, message, whole, body, cursize, curbuff, errno, retval, interrupts>>

\* The marks of Content-length headers
ContLen == [L0 |-> 0, L1 |-> 1, L2 |-> 2, L3 |-> 3, L4 |-> 4]
HeaderFor(n) == CHOOSE mark \in DOMAIN ContLen : ContLen[mark] = n

EndsOfLine == {<<"R", "N">>, <<"N">>}

\* A request of HTTP/0.9 is a line; a later one may have a body, whose
\* length it then gives.
Heads(n) ==
    {<<"c", "V">> \o eol \o <<HeaderFor(n)>> \o eol \o eol : eol \in EndsOfLine}
        \cup IF n # 0 THEN {}
             ELSE {<<"c">> \o eol : eol \in EndsOfLine}
                    \cup {<<"c", "V">> \o eol \o eol : eol \in EndsOfLine}

HttpInit ==
    /\ asClient \in BOOLEAN
    /\ body \in Bodies
    /\ \E head \in Heads(Len(body)) :
          /\ whole = Len(head \o body)
          /\ \E k \in 0 .. whole : message = SubSeq(head \o body, 1, k)
    /\ errno \in {"none", "EINTR"}
    /\ cursize = 0 /\ curbuff = 0 /\ retval = "none" /\ interrupts = 0

\* memchr and dumb_strnstr: the first place of a piece in buf, or 0
FirstAt(piece, buf) ==
    LET at == {k \in 1 .. Len(buf) - Len(piece) + 1 :
                  SubSeq(buf, k, k + Len(piece) - 1) = piece}
    IN IF at = {} THEN 0 ELSE Min(at)

\* Where the headers end: after "\r\n\r\n", and if there is none after "\n\n"
HeadLen_LineFeeds(buf) ==
    LET lf == FirstAt(<<"N", "N">>, buf) IN IF lf = 0 THEN 0 ELSE lf + 1
HeadLen(buf) ==
    LET crlf == FirstAt(<<"R", "N", "R", "N">>, buf)
        lf == FirstAt(<<"N", "N">>, buf)
    IN IF crlf # 0 THEN crlf + 3 ELSE IF lf # 0 THEN lf + 1 ELSE 0

test_client_read_done(buf) ==
    LET lf == FirstAt(<<"N">>, buf)
        line == SelectSeq(SubSeq(buf, 1, lf), LAMBDA x : x \notin {"R", "N"})
        headlen == HeadLen(buf)
        lengths == {k \in 1 .. headlen : buf[k] \in DOMAIN ContLen}
    IN /\ lf # 0
       /\ \/ Last(line) # "V"
          \/ /\ headlen # 0
             /\ lengths # {} => Len(buf) - headlen >= ContLen[buf[Min(lengths)]]

\* The buffer grows when cursize is a multiple of the increment, also when a
\* read is only tried again.
Grown_Once == IF cursize = 0 THEN HTTP_READ_INCR ELSE curbuff
Grown == IF cursize % HTTP_READ_INCR = 0 THEN curbuff + HTTP_READ_INCR ELSE curbuff

CutThrough == ~asClient /\ cursize > CLIB_CUTTHROUGH_THRESH

Returns(value) == retval' = value

ReadPiece(n) ==
    /\ retval = "none" /\ ~CutThrough
    /\ curbuff' = Grown
    /\ n <= curbuff' - cursize /\ n <= Len(message) - cursize
    /\ cursize' = cursize + n
    /\ Returns(IF asClient /\ test_client_read_done(SubSeq(message, 1, cursize'))
               THEN "done" ELSE "none")
    /\ UNCHANGED <<asClient, message, whole, body, errno, interrupts>>

ReadInterrupted ==
    /\ retval = "none" /\ ~CutThrough
    /\ interrupts < MaxInterrupts
    /\ interrupts' = interrupts + 1
    /\ curbuff' = Grown
    /\ errno' = "EINTR"
    /\ UNCHANGED <<asClient, message, whole, body, cursize, retval>>

ReadFails ==
    /\ retval = "none" /\ ~CutThrough
    /\ curbuff' = Grown
    /\ errno' = "other"
    /\ Returns("error")
    /\ UNCHANGED <<asClient, message, whole, body, cursize, interrupts>>

\* read returns 0: the peer has closed, or there is no room to read into.
\* do_http_client_receive looks at errno although no call has failed.
ReadNothing ==
    /\ retval = "none" /\ ~CutThrough
    /\ curbuff < MaxBuff
    /\ cursize = Len(message) \/ Grown = cursize
    /\ curbuff' = Grown
    /\ Returns(IF asClient /\ errno = "EINTR" THEN "none" ELSE "eof")
    /\ UNCHANGED <<asClient, message, whole, body, cursize, errno, interrupts>>

CutsThrough ==
    /\ retval = "none" /\ CutThrough
    /\ Returns("cutthrough")
    /\ UNCHANGED <<asClient, message, whole, body, cursize, curbuff, errno, interrupts>>

HttpNext ==
    \/ \E n \in 1 .. HTTP_READ_INCR : ReadPiece(n)
    \/ ReadInterrupted \/ ReadFails \/ ReadNothing \/ CutsThrough

HttpSpec == HttpInit /\ [][HttpNext]_httpVars
-----------------------------------------------------------------------------
\* get_header_content: after the first empty line, however lines end.  0 if
\* there is none.
Split_CarriageReturns(data) ==
    LET crcr == FirstAt(<<"R", "R">>, data)
        crlf == FirstAt(<<"R", "N", "R", "N">>, data)
        lflf == FirstAt(<<"N", "N">>, data)
    IN IF crlf # 0 THEN crlf + 3 ELSE IF crcr # 0 THEN crcr + 1
       ELSE IF lflf # 0 THEN lflf + 1 ELSE 0
Split(data) ==
    LET after(piece) == IF FirstAt(piece, data) = 0 THEN {}
                        ELSE {FirstAt(piece, data) + Len(piece) - 1}
        ends == after(<<"R", "R">>) \cup after(<<"R", "N", "R", "N">>)
                  \cup after(<<"N", "N">>)
    IN IF ends = {} THEN 0 ELSE Min(ends)

\* canonicalize_headers: every run of "\r" and "\n" becomes one "\r\n", and
\* one more ends the headers.
Canonical(header) ==
    LET eol(k) == header[k] \in {"R", "N"}
        at(k) == IF ~eol(k) THEN <<header[k]>>
                 ELSE IF k > 1 /\ eol(k - 1) THEN << >> ELSE <<"R", "N">>
    IN FlattenSeq([k \in 1 .. Len(header) |-> at(k)]) \o <<"R", "N">>

-----------------------------------------------------------------------------
\* Lines that end in "\n" alone, and a body with a "\r\n\r\n" in it: its
\* place is then taken for the end of the headers.
Confusing ==
    /\ FirstAt(<<"R", "N", "R", "N">>, message) # 0
    /\ FirstAt(<<"N", "N">>, message) # 0
    /\ FirstAt(<<"N", "N">>, message) < FirstAt(<<"R", "N", "R", "N">>, message)

\* However it comes in pieces, a client's request is handed on when its last
\* byte has been read, neither before nor after, whatever its body looks like.
RequestWhole ==
    asClient /\ ~Confusing =>
        /\ retval = "done" => cursize = whole
        /\ cursize = whole => retval = "done"

\* An answer is handed on with all that the peer sent, or with more than the
\* threshold for the caller to cut through; no read is mistaken for the end
\* of the connection because the buffer was full.
AnswerWhole ==
    ~asClient => /\ retval = "eof" => cursize = Len(message)
                 /\ retval = "cutthrough" => cursize > CLIB_CUTTHROUGH_THRESH

\* An answer with headers that is read to its end is taken apart where its
\* body begins, whatever blank lines the body has, and the headers come in
\* one form.
AnswerSplit ==
    LET headlen == whole - Len(body)
        lines == SelectSeq(SubSeq(message, 1, headlen), LAMBDA x : x \notin {"R", "N"})
    IN ~asClient /\ retval = "eof" /\ cursize = whole /\ "V" \in ToSet(message) =>
          /\ Split(message) = headlen
          /\ LET h == Canonical(SubSeq(message, 1, headlen)) IN
             /\ SelectSeq(h, LAMBDA x : x \notin {"R", "N"}) = lines
             /\ HeadLen(h) = Len(h)

\* "end of file or error - return data" (icp.c:414), and the comment on
\* do_http_client_receive, "It will read until either an error occurs (in which
\* case it returns -1) or the end of the client request occurs": a read that
\* finds the connection closed is the last.  It does not hold of a client that
\* closes half way after a read was interrupted, or a call before it.
ReadingEnds == [][ReadNothing /\ cursize = Len(message) => retval' # "none"]_httpVars
-----------------------------------------------------------------------------
(***************************************************************************)
(* What the client library writes to a cache partition and how it reads    *)
(* the short answers: the HTTP requests, the CPUT exchange and the ICP     *)
(* query of client_lib/src/icp.c, as Clib_Fetch, Clib_Post, Clib_Push and  *)
(* Clib_Query of clib.c use them.                                          *)
(*                                                                         *)
(* A text is a sequence of pieces with lengths.  Every write and read may  *)
(* fail; a failed call starts again on a new connection as long as there   *)
(* are partitions (which partitions there are is module Partitions).       *)
(***************************************************************************)
CONSTANTS
    Endian,      \* byte order of the host: "little" or "big"
    Reqnums,     \* request numbers, as four bytes from the lowest
    URLLEN, HDRLEN, DATALEN,
    udp_retries,
    MaxAttempts  \* bound on how often a call starts again

VARIABLES
    call,     \* the call under way: [op, headers, data, attempts, tries], or None
    todo,     \* texts this attempt has still to write: [text, len]
    pc,
    conn,     \* pieces the server got on this connection
    log,      \* whole requests the server took in this call
    net,      \* datagrams under way to the client
    ret       \* result of the last call

wireVars == <<call, todo, pc, conn, log, net, ret>>

None == [op |-> "none", headers |-> "NULL", data |-> 0, attempts |-> 0, tries |-> 0]

Length(p) ==
    CASE p = "GET " -> 4 [] p = "POST " -> 5 [] p = "CPUT " -> 5
      [] p = " HTTP/1.0" -> 9 [] p = "crlf" -> 2 [] p = "nul" -> 1
      [] p = "url" -> URLLEN [] p = "header" -> HDRLEN [] p = "data" -> DATALEN
      [] p = "content-length" -> 100

TextLength(t) == FoldLeft(LAMBDA n, p : n + Length(p), 0, t)

\* The header arguments: none, empty, lines, lines with the empty line.
HeaderText(h) == CASE h \in {"NULL", ""} -> << >>
                   [] h = "lines" -> <<"header", "crlf">>
                   [] h = "whole" -> <<"header", "crlf", "crlf">>

-----------------------------------------------------------------------------
(***************************************************************************)
(* do_http_send: the texts it writes and the length it computes for each.  *)
(* The end of the headers is compared from four bytes before it, which for *)
(* shorter headers is outside of them: either outcome is possible.         *)
(***************************************************************************)
RequestLine(op) == <<IF op = "post" THEN "POST " ELSE "GET ", "url", " HTTP/1.0", "crlf">>

totlen(op, h) ==
    (IF op = "post" THEN 5 ELSE 4) + 11 + 2 + TextLength(HeaderText(h)) + URLLEN

do_http_send_Padded(op, h, data, ended) ==   \* the padding is never given back
    LET head == RequestLine(op) \o HeaderText(h) \o (IF ended THEN << >> ELSE <<"crlf">>)
    IN  <<[text |-> head, len |-> totlen(op, h)]>>

do_http_send(op, h, data, ended) ==
    LET content == IF data = 0 THEN << >> ELSE <<[text |-> <<"data">>, len |-> DATALEN]>>
    IN  IF h # "NULL"
        THEN <<[text |-> RequestLine(op) \o HeaderText(h)
                           \o (IF ended THEN << >> ELSE <<"crlf">>),
                len  |-> totlen(op, h) - (IF ended THEN 2 ELSE 0)]>> \o content
        ELSE <<[text |-> RequestLine(op), len |-> totlen(op, h) - 2],
               IF data = 0 \/ op # "post"
               THEN [text |-> <<"crlf">>, len |-> 2]
               ELSE [text |-> <<"content-length", "crlf", "crlf">>, len |-> 104]>>
             \o content

\* What memcmp finds at the end of the headers.
Ended(h) == CASE h = "whole" -> {TRUE} [] h = "lines" -> {FALSE}
              [] OTHER -> {TRUE, FALSE}

\* do_http_put: the request with its NUL; then, after an answer, the object.
PutRequest == <<[text |-> <<"CPUT ", "url", " HTTP/1.0", "crlf", "crlf", "nul">>,
                 len |-> 5 + URLLEN + 13 + 1]>>
PutObject(h) == <<[text |-> HeaderText(h), len |-> TextLength(HeaderText(h))],
                  [text |-> <<"data">>, len |-> DATALEN]>>

-----------------------------------------------------------------------------
WireInit ==
    /\ call = None /\ todo = << >> /\ pc = "idle" /\ conn = << >>
    /\ log = << >> /\ net = {} /\ ret = "none"

Attempt(c) ==
    /\ call' = c /\ conn' = << >> /\ net' = {}
    /\ \/ /\ c.op \in {"fetch", "post"}
          /\ \E e \in Ended(c.headers) :
               todo' = do_http_send(c.op, c.headers, c.data, e)
          /\ pc' = "write"
       \/ /\ c.op = "push"
          /\ todo' = PutRequest /\ pc' = "write"
       \/ /\ c.op = "query"
          /\ todo' = << >> /\ pc' = "send"

Begin(op, h, d) ==
    /\ pc = "idle"
    /\ (op = "fetch" => d = 0) /\ (op = "push" => h = "whole" /\ d = DATALEN)
    /\ (op = "query" => h = "NULL" /\ d = 0)
    /\ Attempt([op |-> op, headers |-> h, data |-> d, attempts |-> 0, tries |-> 0])
    /\ log' = << >> /\ ret' = "none"

\* Part_HandleFailure, close, and the call again or its error.
Failed ==
    \/ /\ call.attempts < MaxAttempts
       /\ Attempt([call EXCEPT !.attempts = @ + 1, !.tries = 0])
       /\ UNCHANGED <<log, ret>>
    \/ /\ ret' = "error" /\ pc' = "idle"
       /\ call' = None /\ todo' = << >> /\ conn' = << >> /\ net' = {}
       /\ UNCHANGED log

Return(r) ==
    /\ ret' = r /\ pc' = "idle"
    /\ call' = None /\ todo' = << >> /\ conn' = << >> /\ net' = {}

Write ==
    /\ pc = "write"
    /\ \/ Failed
       \/ LET got == conn \o Head(todo).text
          IN  /\ conn' = got /\ todo' = Tail(todo)
              /\ pc' = IF Len(todo) > 1 THEN "write"
                       ELSE IF call.op = "push" /\ "data" \notin ToSet(got)
                       THEN "verify" ELSE "receive"
              /\ log' = IF Len(todo) = 1 /\ pc' = "receive"
                        THEN Append(log, got) ELSE log
              /\ UNCHANGED <<call, net, ret>>

\* do_http_put_verify: a byte came, the connection ended or there is an error.
Verify ==
    /\ pc = "verify"
    /\ \/ Failed
       \/ /\ todo' = PutObject(call.headers) /\ pc' = "write"
          /\ UNCHANGED <<call, conn, log, net, ret>>

\* do_http_receive of the answer (as above); a push reads nothing.
Receive ==
    /\ pc = "receive"
    /\ \/ call.op # "push" /\ Failed
       \/ Return("ok") /\ UNCHANGED log

-----------------------------------------------------------------------------
(***************************************************************************)
(* The request number is put through htons into a field of four bytes, and *)
(* through ntohl when it comes back.                                       *)
(***************************************************************************)
htons(b) == IF Endian = "big" THEN <<b[1], b[2], 0, 0>> ELSE <<b[2], b[1], 0, 0>>
ntohl(b) == IF Endian = "big" THEN b ELSE <<b[4], b[3], b[2], b[1]>>

\* do_icp_query, and what the partition may make of it: an answer that is
\* late or lost, an error, or a port where no one listens.
do_icp_query ==
    /\ pc = "send"
    /\ \/ Failed
       \/ /\ \E n \in SUBSET {"HIT", "MISS", "ERR", "refused"} :
               net' = net \cup n
          /\ call' = [call EXCEPT !.tries = @ + 1] /\ pc' = "select"
          /\ UNCHANGED <<todo, conn, log, ret>>

\* select: an answer is there, the time is over, or it fails.
Select ==
    /\ pc = "select"
    /\ \/ Failed
       \/ /\ net # {} /\ pc' = "recv"
          /\ UNCHANGED <<call, todo, conn, log, net, ret>>
       \/ IF call.tries < udp_retries
          THEN pc' = "send" /\ UNCHANGED <<call, todo, conn, log, net, ret>>
          ELSE Failed

(***************************************************************************)
(* do_icp_udp_receive fills message_obj, unless recv fails; Clib_Query     *)
(* looks at the opcode in either case.                                     *)
(***************************************************************************)
Opcodes(d) == IF d = "refused" THEN {"HIT", "MISS", "INVALID", "ERR"} ELSE {d}

do_icp_udp_receive_Swapped(d) ==   \* MISS taken for HIT
    LET r == [HIT |-> "miss", MISS |-> "hit", INVALID |-> "bad url", ERR |-> "internal"]
    IN  \E o \in Opcodes(d) : Return(r[o])

do_icp_udp_receive(d) ==
    LET r == [HIT |-> "hit", MISS |-> "miss", INVALID |-> "bad url", ERR |-> "internal"]
    IN  \E o \in Opcodes(d) : Return(r[o])

Recv ==
    /\ pc = "recv"
    /\ \E d \in net : /\ do_icp_udp_receive(d)
                      /\ log' = <<<<d>>>>

WireNext ==
    \/ \E op \in {"fetch", "post", "push", "query"},
          h \in {"NULL", "", "lines", "whole"}, d \in {0, DATALEN} : Begin(op, h, d)
    \/ Write \/ Verify \/ Receive
    \/ do_icp_query \/ Select \/ Recv

WireSpec == WireInit /\ [][WireNext]_wireVars

-----------------------------------------------------------------------------
\* The length given to every write is that of the text in the buffer.
LengthsAreExact ==
    \A i \in 1..Len(todo) : TextLength(todo[i].text) = todo[i].len

EmptyLines(t) == {i \in 2..Len(t) : t[i] = "crlf" /\ t[i - 1] = "crlf"}

(***************************************************************************)
(* A request the server took as a whole has exactly one empty line, after  *)
(* the request line and all headers; only data follows it, and data only   *)
(* when it was asked to be sent.  (An empty header string is left out:     *)
(* what is found before it decides.)                                       *)
(***************************************************************************)
RequestsAreWhole ==
    \A i \in 1..Len(log) :
        (call.op \in {"fetch", "post"} /\ call.headers # "") =>
            LET t == log[i] IN
            /\ \E e \in EmptyLines(t) :
                 /\ EmptyLines(t) = {e}
                 /\ SubSeq(t, e + 1, Len(t)) = IF call.data = 0 THEN << >> ELSE <<"data">>
            /\ SubSeq(t, 1, 4) = RequestLine(call.op)

\* The object of a CPUT is only written when the server has answered.
ObjectWaits ==
    (call.op = "push" /\ pc = "verify") => "data" \notin ToSet(conn) /\ todo = << >>

(***************************************************************************)
(* Where a datagram was received, a query says what it says, however many  *)
(* copies were sent, lost or late before.                                  *)
(***************************************************************************)
QueryTellsAnswer ==
    (ret \in {"hit", "miss"} /\ log # << >> /\ log[1][1] # "refused")
        => log[1][1] = IF ret = "hit" THEN "HIT" ELSE "MISS"

\* The library writes to the partitions what it means to.
WireIsRight == LengthsAreExact /\ RequestsAreWhole /\ ObjectWaits /\ QueryTellsAnswer

-----------------------------------------------------------------------------
(***************************************************************************)
(* Not so: a POST reaches the servers at most once.  When its answer       *)
(* cannot be read Clib_Post sends it again.                                *)
(***************************************************************************)
PostedOnce == call.op = "post" => Len(log) <= 1

\* Not so: a query says "hit" only if a partition did: recv may have failed.
HitsAreReal == (ret = "hit" /\ log # << >>) => log[1][1] = "HIT"

\* Not so: the number of a request comes back as it was sent.
NumbersComeBack == \A b \in Reqnums : ntohl(htons(b)) = b

\* Not so: a CPUT request is its text: the NUL after it is written as well.
PutIsText == call.op = "push" => "nul" \notin ToSet(conn)
=============================================================================
