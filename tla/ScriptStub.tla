----------------------------- MODULE ScriptStub -----------------------------
(***************************************************************************)
(* Workers written in a script language: tcl_stub/src/tcl_stub.cc,         *)
(* mash_stub/src/mash_stub.cc and perl_stub/src/perl_stub.c.               *)
(*                                                                         *)
(* The Tcl stubs run the interpreter in a thread of its own.  The worker's *)
(* thread stores its arguments in the stub, writes the name of the         *)
(* function to a pipe and reads the status from another; the read handler  *)
(* of the interpreter calls the script in between.  The Perl stub calls    *)
(* the interpreter directly, through Perl's own stack.                     *)
(*                                                                         *)
(* A text is a sequence of characters "a", "{", "}" and "0" (NUL); what a  *)
(* script does with it is open: it fails, or returns a list of up to five  *)
(* elements, the fourth being the status.  Doubles are numbers of two      *)
(* digits of which %g keeps one.                                           *)
(***************************************************************************)
EXTENDS Integers, Sequences, FiniteSets, SequencesExt

CONSTANTS Kinds,       \* of "tcl", "mash", "perl"
          Texts,       \* data of requests
          ArgLists,    \* arguments of requests: sequences of [type, id, value]
          Mimes,       \* lengths of the mime types that scripts return
          MaxRequests, \* bound: calls of DistillerMain
          MAX_MIMETYPE,
          MAX_ARGS

distOk == 0
distFatalError == 8
Statuses == {"", "0", "9", "x"}   \* texts that a script returns as its status

VARIABLES
    kind,    \* which stub
    pc,      \* the worker's thread
    interp,  \* the thread of the interpreter
    toTcl,   \* pipe to the interpreter
    toTacc,  \* pipe to the worker
    stored,  \* input_, args_ of the stub: the request stored last
    req,     \* the request of the worker: its number, text and arguments
    array,   \* the Tcl variable DistillerMain_Args__
    seen,    \* what the script was given
    out,     \* DistillerOutput
    status,  \* what the last call returned
    stack,   \* entries left on Perl's stack by calls that have returned
    cmd      \* the last command that the script has called

vars == <<kind, pc, interp, toTcl, toTacc, stored, req, array, seen, out, status,
          stack, cmd>>

NoRequest == [n |-> 0, text |-> << >>, args |-> << >>]
NoOutput == [from |-> 0, allocated |-> FALSE, freeMe |-> TRUE, extra |-> 0,
             mime |-> 0, ended |-> TRUE]
Nothing == [from |-> 0, text |-> << >>, args |-> << >>]
NoCommand == [name |-> "none", objc |-> 0, result |-> "none", left |-> {}, words |-> << >>,
              args |-> << >>]

Threaded == kind # "perl"
Running == interp # "exited"
-----------------------------------------------------------------------------
(* Conversions                                                             *)

\* strtoul of the text read, which must be used up; nothing at all is 0.
Number(text) ==
    CASE text = "x" -> distFatalError
      [] text = "9" -> 9
      [] OTHER -> distOk

\* The digits that %g prints.
Shown(arg) == IF arg.type = "f" THEN ((arg.value + 5) \div 10) * 10 ELSE arg.value

\* Args2Tcl_, DistillerMain_create_args: one element of the array for each
\* type and id; elements of earlier requests stay.
Keys(args) == {<<args[i].type, args[i].id>> : i \in DOMAIN args}
ValueOf(args, k) ==
    Shown(args[CHOOSE i \in DOMAIN args :
                 /\ <<args[i].type, args[i].id>> = k
                 /\ \A j \in DOMAIN args :
                      <<args[j].type, args[j].id>> = k => j <= i])
Args2Tcl_Deviation(old, args) ==
    [k \in DOMAIN old \cup Keys(args) |->
        IF k \in DOMAIN old THEN old[k] ELSE ValueOf(args, k)]
Args2Tcl_(old, args) ==
    [k \in DOMAIN old \cup Keys(args) |->
        IF k \in Keys(args) THEN ValueOf(args, k) ELSE old[k]]

\* Text up to the first NUL.
CString(text) ==
    LET ends == {i \in DOMAIN text : text[i] = "0"}
    IN  IF ends = {} THEN text
        ELSE SubSeq(text, 1, (CHOOSE i \in ends : \A j \in ends : i <= j) - 1)

\* CreateListElement: at an opening brace the text before it is written,
\* then a backslash; the brace itself only when it is the first character
\* that is not written yet.
CreateListElement(text) ==
    LET t == CString(text)
        Step(st, i) ==
          IF t[i] # "{" THEN st
          ELSE IF st.start # i
               THEN [start |-> i + 1, buf |-> st.buf \o SubSeq(t, st.start, i - 1) \o <<"\\">>]
               ELSE [st EXCEPT !.buf = @ \o <<"\\">>]
        end == FoldLeft(Step, [start |-> 1, buf |-> << >>], [i \in DOMAIN t |-> i])
    IN  end.buf \o SubSeq(t, end.start, Len(t))

\* Tcl takes a text in braces as it is if its braces match (those behind a
\* backslash do not count), and fails otherwise.
Depth(text, n) ==
    LET Counts(i) == i = 1 \/ text[i - 1] # "\\"
        opening == Cardinality({i \in 1 .. n : text[i] = "{" /\ Counts(i)})
        closing == Cardinality({i \in 1 .. n : text[i] = "}" /\ Counts(i)})
    IN  opening - closing
Matched(text) ==
    /\ \A n \in DOMAIN text : Depth(text, n) >= 0
    /\ Depth(text, Len(text)) = 0
    /\ text # << >> => Last(text) # "\\"

\* The data as the script gets it.
Given(text) == IF kind = "mash" THEN CreateListElement(text) ELSE text
-----------------------------------------------------------------------------
Init ==
    /\ kind \in Kinds
    /\ pc = "start" /\ interp = "none"
    /\ toTcl = << >> /\ toTacc = << >>
    /\ stored = NoRequest /\ req = NoRequest
    /\ array = << >>
    /\ seen = Nothing /\ out = NoOutput
    /\ status = distOk
    /\ stack = 0
    /\ cmd = NoCommand

\* DistillerInit: two pipes (the second may fail), the thread, the message.
DistillerInit_tacc ==
    /\ pc = "start" /\ Threaded
    /\ \/ /\ interp' = "source"
          /\ toTcl' = <<"DistillerInit">>
          /\ pc' = "wait"
          /\ UNCHANGED status
       \/ /\ pc' = "failed" /\ status' = distFatalError
          /\ UNCHANGED <<interp, toTcl>>
    /\ UNCHANGED <<kind, toTacc, stored, req, array, seen, out, stack, cmd>>

\* Tcl_Main: Tcl_AppInit_static registers the handler and the commands; a
\* script that fails, or that ends without an event loop, ends the process.
TclMain ==
    /\ interp = "source"
    /\ interp' \in {"events", "exited"}
    /\ UNCHANGED <<kind, pc, toTcl, toTacc, stored, req, array, seen, out, status,
                   stack, cmd>>

\* The handler reads a message and calls the script.
Tcl_ReadHandler_static ==
    /\ interp = "events" /\ toTcl # << >>
    /\ toTcl' = Tail(toTcl)
    /\ IF Head(toTcl) = "DistillerInit"
       THEN /\ interp' = "init"
            /\ UNCHANGED <<array, seen>>
       ELSE /\ array' = Args2Tcl_(array, stored.args)
            /\ LET text == Given(stored.text)
               IN  IF kind = "mash" /\ ~Matched(text)
                   THEN interp' = "exited" /\ UNCHANGED seen
                   ELSE /\ interp' = "main"
                        /\ seen' = [from |-> stored.n, text |-> text, args |-> array']
    /\ UNCHANGED <<kind, pc, toTacc, stored, req, out, status, stack, cmd>>

\* DistillerInit of the script, which must return a number.
DistillerInit_tcl ==
    /\ interp = "init" /\ kind = "tcl"
    /\ \/ interp' = "exited" /\ UNCHANGED toTacc
       \/ \E s \in Statuses \ {"", "x"} : interp' = "events" /\ toTacc' = <<s>>
    /\ UNCHANGED <<kind, pc, toTcl, stored, req, array, seen, out, status, stack,
                   cmd>>

\* In the Mash stub an empty result is success, and any other is passed on.
DistillerInit_mash ==
    /\ interp = "init" /\ kind = "mash"
    /\ \/ interp' = "exited" /\ UNCHANGED toTacc
       \/ \E s \in Statuses :
            /\ interp' = "events"
            /\ toTacc' = <<IF s = "" THEN "0" ELSE s>>
    /\ UNCHANGED <<kind, pc, toTcl, stored, req, array, seen, out, status, stack,
                   cmd>>

\* Commands of the Tcl stub, called by the script with objc words.  All but
\* Clib_Fetch refuse a wrong number of words.
Words == [Clib_Query |-> 2, Clib_Push |-> 4, DistillerRename |-> 2,
          InitializeDistillerCache |-> 1, MonitorClientSend |-> 4]

Commanded(c) ==
    /\ interp = "main" /\ kind = "tcl"
    /\ cmd' = c
    /\ UNCHANGED <<kind, pc, interp, toTcl, toTacc, stored, req, array, seen, out,
                   status, stack>>

\* The library is called and its response is the result.
Tcl_Simple ==
    \E name \in DOMAIN Words, objc \in 1 .. 6 :
      Commanded([NoCommand EXCEPT !.name = name, !.objc = objc,
                   !.result = IF objc = Words[name] THEN "response" ELSE "TCL_ERROR"])

\* What Clib_Fetch hands to its caller, by its response.
Handed(response) ==
    CASE response = "CLIB_OK" -> {"mime", "data"}
      [] response = "CLIB_CUTTHROUGH" -> {"mime", "fd"}
      [] OTHER -> {}

\* Without leave to go to the Internet the cache is asked first.  Everything
\* that was handed over is given back.  (Without a url it reads past its words.)
Tcl_ClibFetch ==
    \E objc \in 2 .. 5, internet \in {"yes", "no", "bad"},
       query \in {"CLIB_CACHE_HIT", "CLIB_CACHE_MISS"},
       fetch \in {"CLIB_OK", "CLIB_CUTTHROUGH", "CLIB_TIMEOUT"} :
      LET asked == objc > 3 /\ internet = "no"
          response == IF asked /\ query # "CLIB_CACHE_HIT" THEN query ELSE fetch
          closed == IF response = "CLIB_CUTTHROUGH" THEN {"fd"} ELSE {}
      IN  Commanded([NoCommand EXCEPT !.name = "Clib_Fetch", !.objc = objc,
                       !.result = IF objc > 3 /\ internet = "bad" THEN "TCL_ERROR" ELSE response,
                       !.left = IF objc > 3 /\ internet = "bad" THEN {}
                                ELSE Handed(response) \ ({"mime", "data"} \cup closed)])

\* Distill: the array named by the last word becomes a list of Arguments of
\* the same types, ids and values; the words before it are the worker's
\* type, the data, the headers and the mime type.
Tcl_Distill ==
    \E objc \in {5, 6} :
      Commanded([NoCommand EXCEPT !.name = "Distill", !.objc = objc,
                   !.result = IF objc = 6 THEN "list" ELSE "TCL_ERROR",
                   !.words = IF objc = 6 THEN <<"type", "data", "headers", "mime">> ELSE << >>,
                   !.args = IF objc = 6 THEN array ELSE << >>])

\* SetMimeType: strncpy.
SetMimeType(o, len) == [o EXCEPT !.mime = IF len < MAX_MIMETYPE THEN len ELSE MAX_MIMETYPE,
                                 !.ended = len < MAX_MIMETYPE]

\* The output that the script has returned, copied to memory of the worker.
Copied(extra, mime) ==
    SetMimeType([NoOutput EXCEPT !.from = seen.from, !.allocated = TRUE, !.extra = extra], mime)

\* The script fails, or returns a list.  Missing elements count as empty and
\* a missing status as an error; a status that is no number is fatal.
DistillerMain_tcl ==
    /\ interp = "main" /\ kind = "tcl"
    /\ \/ interp' = "exited" /\ UNCHANGED <<toTacc, out>>
       \/ \E n \in 0 .. 5, s \in Statuses \ {"", "x"}, mime \in Mimes :
            /\ interp' = "events"
            /\ toTacc' = <<IF n < 4 THEN "8" ELSE s>>
            /\ out' = Copied(0, IF n < 3 THEN 0 ELSE mime)
    /\ cmd' = NoCommand
    /\ UNCHANGED <<kind, pc, toTcl, stored, req, array, seen, status, stack>>

\* The Mash stub insists on four elements, passes the status on as it is and
\* counts the NUL as part of the data.  A result that is no list leaves argc
\* and argv unset: the stub gives up or crashes, or takes four elements from
\* wherever argv points.
Wild == -1
DistillerMain_mash ==
    /\ interp = "main" /\ kind = "mash"
    /\ \/ interp' = "exited" /\ UNCHANGED <<toTacc, out>>
       \/ \E s \in Statuses, mime \in Mimes :
            /\ interp' = "events"
            /\ toTacc' = <<s>>
            /\ out' = Copied(1, mime) \/ out' = [Copied(1, mime) EXCEPT !.from = Wild]
    /\ UNCHANGED <<kind, pc, toTcl, stored, req, array, seen, status, stack, cmd>>

\* The worker's thread: DistillerMain with the next request.
Call ==
    /\ pc = "idle" /\ Running
    /\ req.n < MaxRequests
    /\ \E text \in Texts, args \in ArgLists :
         req' = [n |-> req.n + 1, text |-> text, args |-> args]
    /\ out' = NoOutput
    /\ pc' = IF Threaded THEN "store" ELSE "perl"
    /\ UNCHANGED <<kind, interp, toTcl, toTacc, stored, array, seen, status, stack,
                   cmd>>

\* args_, input_ and output_ are set, then the message is sent.
StoreThenSignal(at, next) ==
    \/ pc = at /\ stored' = req /\ pc' = next /\ UNCHANGED toTcl
    \/ pc = next /\ toTcl' = Append(toTcl, "DistillerMain") /\ pc' = "wait" /\ UNCHANGED stored
DistillerMain_tacc_SignalFirst ==
    /\ \/ pc = "store" /\ toTcl' = Append(toTcl, "DistillerMain") /\ pc' = "signal" /\ UNCHANGED stored
       \/ pc = "signal" /\ stored' = req /\ pc' = "wait" /\ UNCHANGED toTcl
    /\ UNCHANGED <<kind, interp, toTacc, req, array, seen, out, status, stack, cmd>>
DistillerMain_tacc ==
    /\ StoreThenSignal("store", "signal")
    /\ UNCHANGED <<kind, interp, toTacc, req, array, seen, out, status, stack, cmd>>

\* Wait returns with the text of the status.
Wait ==
    /\ pc = "wait" /\ toTacc # << >>
    /\ toTacc' = Tail(toTacc)
    /\ status' = IF Head(toTacc) = "8" THEN distFatalError ELSE Number(Head(toTacc))
    /\ pc' = "idle"
    /\ UNCHANGED <<kind, interp, toTcl, stored, req, array, seen, out, stack, cmd>>
-----------------------------------------------------------------------------
(* The Perl stub                                                           *)

\* perl_parse and DistillerInit of the script.  The stack pointer is not
\* fetched again after the call, so that the value popped is the entry below
\* the result: the bottom of the stack, which is undefined and counts as 0.
DistillerInit_perl ==
    /\ pc = "start" /\ ~Threaded
    /\ \/ pc' = "failed" /\ status' = distFatalError
       \/ pc' = "idle" /\ status' = distOk
    /\ interp' = "events"
    /\ UNCHANGED <<kind, toTcl, toTacc, stored, req, array, seen, out, stack, cmd>>

\* push_args_onto_stack: pairs, which the script makes an array of.
Pushed(args) ==
    [k \in Keys(args) |->
        args[CHOOSE i \in DOMAIN args :
               /\ <<args[i].type, args[i].id>> = k
               /\ \A j \in DOMAIN args : <<args[j].type, args[j].id>> = k => j <= i].value]

\* DistillerMain: the call, the first four elements of the list returned.
\* Elements of a shorter list are left on the stack.
DistillerMain_perl ==
    /\ pc = "perl"
    /\ seen' = [from |-> req.n, text |-> req.text, args |-> Pushed(req.args)]
    /\ \/ /\ status' = distFatalError
          /\ out' = [out EXCEPT !.freeMe = FALSE]
          /\ UNCHANGED stack
       \/ \E n \in 0 .. 5, s \in Statuses, mime \in Mimes :
            IF n < 4
            THEN /\ status' = distFatalError
                 /\ out' = [out EXCEPT !.freeMe = FALSE]
                 /\ stack' = stack + n
            ELSE /\ status' = IF s = "9" THEN 9 ELSE distOk
                 /\ out' = [from |-> req.n, allocated |-> TRUE, freeMe |-> TRUE, extra |-> 0,
                            mime |-> IF mime < MAX_MIMETYPE THEN mime ELSE MAX_MIMETYPE - 1,
                            ended |-> TRUE]
                 /\ UNCHANGED stack
    /\ pc' = "idle"
    /\ UNCHANGED <<kind, interp, toTcl, toTacc, stored, req, array, cmd>>
-----------------------------------------------------------------------------
Next ==
    \/ DistillerInit_tacc \/ TclMain \/ Tcl_ReadHandler_static
    \/ DistillerInit_tcl \/ DistillerInit_mash
    \/ Tcl_Simple \/ Tcl_ClibFetch \/ Tcl_Distill
    \/ DistillerMain_tcl \/ DistillerMain_mash
    \/ Call \/ DistillerMain_tacc \/ Wait
    \/ DistillerInit_perl \/ DistillerMain_perl

Spec == Init /\ [][Next]_vars
-----------------------------------------------------------------------------
(* Properties                                                              *)

\* A script is called for the request that waits, with its data and all its
\* arguments: tcl_stub.cc sets the fields before it writes to the pipe.
ScriptSeesRequest ==
    /\ interp = "main" =>
         /\ seen.from = req.n
         /\ kind = "tcl" => seen.text = req.text
         /\ \A k \in Keys(req.args) : k \in DOMAIN seen.args
                                      /\ seen.args[k] = ValueOf(req.args, k)
    /\ interp = "main" /\ (\A i \in DOMAIN req.text : req.text[i] = "a") =>
         seen.text = req.text

\* One message at a time: whoever waits is the only one that is waited for,
\* and an answer is that of the call (unless the Mash stub took no list for
\* one).
OneMessage ==
    /\ Len(toTcl) + Len(toTacc) <= 1
    /\ pc = "idle" => toTcl = << >> /\ toTacc = << >>
    /\ pc = "idle" /\ out.from \notin {0, Wild} => out.from = req.n
    /\ out.from = Wild => kind = "mash"

\* A buffer is freed with the output exactly when the stub has allocated it,
\* and success comes with an output.
OutputIsOwned ==
    pc = "idle" /\ req.n > 0 =>
      /\ out.allocated <=> out.freeMe
      /\ status = distOk => out.allocated

\* Clib_Fetch keeps neither memory nor descriptors, and a script that hands
\* its arguments on hands on those of its request.
CommandsAreClean ==
    /\ cmd.left = {}
    /\ cmd.name = "Distill" /\ cmd.result = "list" =>
         \A k \in Keys(req.args) : k \in DOMAIN cmd.args /\ cmd.args[k] = ValueOf(req.args, k)

\* The stubs hand each request to the script and its result to the caller.
ScriptsServe == ScriptSeesRequest /\ OneMessage /\ OutputIsOwned /\ CommandsAreClean

\* Refuted: the script sees only arguments of this request (the array is
\* never emptied).
OnlyItsArguments == interp = "main" => DOMAIN seen.args = Keys(req.args)
\* Refuted: data reaches the script unchanged (braces, in the Mash stub).
DataUnchanged == interp = "main" => seen.text = req.text
\* Refuted: what is returned comes from the script (the result of
\* Tcl_SplitList is not looked at, mash_stub.cc:378).
ResultIsTheScripts == out.from # Wild
\* Refuted: the mime type is a string (SetMimeType of a long one).
MimeTypeEnds == out.ended
\* Refuted: the Perl stack is as it was after a call.
StackBalanced == stack = 0
\* Refuted: arguments handed on by Distill fit the list of MAX_ARGS.
ChainedArgumentsFit == Cardinality(DOMAIN cmd.args) <= MAX_ARGS
\* Refuted: the words of Distill are those of its usage message, "mime_type
\* worker_name headers data arg_global_var" (tcl_stub.cc:436).
DistillAsItsUsage == cmd.words # << >> => cmd.words = <<"mime", "type", "headers", "data">>
\* Refuted: Clib_Fetch refuses what its usage does not allow (the test
\* objc < 2 && objc > 4 never holds).
FetchChecksWords == cmd.name = "Clib_Fetch" /\ cmd.result # "TCL_ERROR" => cmd.objc \in 2 .. 4
=============================================================================
