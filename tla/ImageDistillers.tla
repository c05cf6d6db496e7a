-------------------------- MODULE ImageDistillers --------------------------
(***************************************************************************)
(* DistillerMain of the three image distillers, one request after another: *)
(* gif_munger/src/gif_munge.c, jpg_munger/src/jpg_munge.c with the memory  *)
(* destination of mem_src_dst_mgr.c, and giftojpg_munger/src/              *)
(* gifjpg_munge.c.                                                         *)
(*                                                                         *)
(* What survives a request is modelled: the two pixel buffers of the GIF   *)
(* distiller and the compression objects of libjpeg.  An error of the      *)
(* image libraries may happen at each call of one and jumps back to the    *)
(* start of DistillerMain.  Pixels are not modelled; a coded image is its  *)
(* length.  jpeg_read_scanlines and jpeg_write_scanlines are external: a   *)
(* row yields some bytes of output.                                        *)
(***************************************************************************)
EXTENDS Integers, FiniteSets, SequencesExt

CONSTANTS
    Sizes,              \* widths and heights of images
    Lengths,            \* lengths of coded images
    Limits,             \* values of the size limits; -1 for none
    TypX, TypY,         \* GIFMUNGE_TYP_MAX_X, GIFMUNGE_TYP_MAX_Y
    COPYBUF, ORIGBUF,   \* COPYBUF_BLOCK_SIZE, ORIGBUF_REALLOC_BLOCK_SIZE
    Threshold,          \* a value of bailout_thresh
    Pin,                \* 10: the least width and height after scaling
    GifArgs,            \* arguments for the GIF distiller: names and values
    MaxBytes            \* bound: bytes that a compression emits

Kinds == {"gif", "jpg", "gifjpg"}

VARIABLES
    who,        \* the distiller
    pc,         \* the statement of DistillerMain
    in,         \* the request
    out,        \* DistillerOutput: data, its length, and DataNeedsFree
    lib,        \* srcinfo and dstinfo: "idle", or in use
    seen,       \* srcinfo.image_width and image_height; x and y of gif_munge.c
    ink,        \* colors and make_gray of gif_munge.c
    denom,      \* fin_denom
    dest,       \* the memory destination of dstinfo
    heap,       \* the blocks of memory that this request allocated
    buf,        \* B1 and B2: the size both have, and whether they exist
    result

vars == <<who, pc, in, out, lib, seen, ink, denom, dest, heap, buf, result>>

Request(k) ==
    [x : Sizes, y : Sizes, len : Lengths, nodistill : IF k = "gif" THEN {FALSE} ELSE BOOLEAN,
     expert : IF k = "gif" THEN {FALSE} ELSE BOOLEAN, scale : {1, 8},
     limit : IF k = "gif" THEN {<<-1, -1, -1, -1>>}
             ELSE {<<m, -1, -1, -1>> : m \in Limits} \cup {<<-1, -1, m, -1>> : m \in Limits},
     args : IF k = "gif" THEN BoundedSeq(GifArgs, 2) ELSE {<< >>}]

NoDest == [target |-> "none", bufsize |-> 0, offset |-> 0, copied |-> 0, emitted |-> 0]
NoInk == [colors |-> 0, gray |-> FALSE]
NoOutput == [data |-> "null", len |-> 0, free |-> TRUE]

Init ==
    /\ who \in Kinds
    /\ pc = "idle"
    /\ in = CHOOSE r \in Request(who) : TRUE
    /\ out = NoOutput
    /\ lib = [src |-> "idle", dst |-> "idle"]
    /\ seen = <<0, 0>>
    /\ ink = NoInk
    /\ denom = 1
    /\ dest = NoDest
    /\ heap = {}
    /\ buf = [x |-> TypX, y |-> TypY, exist |-> TRUE]
    /\ result = "none"

At(p) == pc = p
Return(r) == pc' = "returned" /\ result' = r

Call ==
    /\ At("idle")
    /\ in' \in Request(who)
    /\ out' = [NoOutput EXCEPT !.free = who # "gif"]
    /\ pc' = "args"
    /\ UNCHANGED <<who, ink, lib, seen, denom, dest, heap, buf, result>>

\* The caller takes the output; what DataNeedsFree says decides what it frees.
Reply ==
    /\ At("returned")
    /\ pc' = "idle"
    /\ in' = CHOOSE r \in Request(who) : TRUE
    /\ out' = NoOutput
    /\ dest' = NoDest
    /\ heap' = {}
    /\ denom' = 1
    /\ ink' = NoInk
    /\ result' = "none"
    /\ UNCHANGED <<who, lib, seen, buf>>
-----------------------------------------------------------------------------
(* The size of the result                                                  *)

Halved(s, size, min) == CHOOSE t \in {1, 2, 4, 8} :
    /\ t <= s
    /\ t = 1 \/ size \div t >= min
    /\ \A u \in {1, 2, 4, 8} : t < u /\ u <= s => size \div u < min

Doubled(s, size, max) == CHOOSE t \in {1, 2, 4, 8} :
    /\ t >= s
    /\ t = 8 \/ size \div t <= max
    /\ \A u \in {1, 2, 4, 8} : s <= u /\ u < t => size \div u > max

\* The first limit that the wanted scale misses is the one that is met.
compute_scale_denom(max_x, max_y, min_x, min_y, in_x, in_y, s) ==
    IF max_x = -1 /\ max_y = -1 /\ min_x = -1 /\ min_y = -1 THEN s
    ELSE IF in_x <= min_x \/ in_x <= min_y THEN 1
    ELSE IF min_x # -1 /\ in_x \div s < min_x THEN Halved(s, in_x, min_x)
    ELSE IF min_y # -1 /\ in_y \div s < min_y THEN Halved(s, in_y, min_y)
    ELSE IF max_x # -1 /\ in_x \div s > max_x THEN Doubled(s, in_x, max_x)
    ELSE IF max_y # -1 /\ in_y \div s > max_y THEN Doubled(s, in_y, max_y)
    ELSE s

\* The tables have 1 and 2.  For experts the sizes of the image read last count: jpeg_read_header
\* of this request has not been called.
Denominator == IF in.expert
    THEN compute_scale_denom(in.limit[1], in.limit[2], in.limit[3], in.limit[4],
                             seen[1], seen[2], in.scale)
    ELSE IF in.scale = 1 THEN 1 ELSE 2
-----------------------------------------------------------------------------
(* The memory destination                                                  *)

jpeg_mem_dest(target) == [NoDest EXCEPT !.target = target]

mem_empty_output_buffer_Fits(d) ==
    [d EXCEPT !.bufsize = IF d.bufsize - d.offset < 1 THEN @ + ORIGBUF ELSE @,
              !.offset = @ + COPYBUF, !.copied = 0]

\* A full copy buffer is appended to the output, which grows by a block.
mem_empty_output_buffer(d) ==
    [d EXCEPT !.bufsize = IF d.bufsize - d.offset < COPYBUF THEN @ + ORIGBUF ELSE @,
              !.offset = @ + COPYBUF, !.copied = 0]

mem_term_destination(d) ==
    [d EXCEPT !.bufsize = IF d.copied > 0 /\ d.bufsize - d.offset < d.copied
                          THEN @ + COPYBUF ELSE @,
              !.offset = @ + d.copied, !.copied = 0]

Emitted(d) == LET e == [d EXCEPT !.copied = @ + 1, !.emitted = @ + 1] IN
    IF e.copied = COPYBUF THEN mem_empty_output_buffer(e) ELSE e

\* realloc makes the block of the destination.
Grown(d) == IF d.bufsize > 0 THEN {d.target} ELSE {}
Written(d) == [out EXCEPT !.data = IF d.target = "out" /\ d.bufsize > 0 THEN "heap" ELSE @]
-----------------------------------------------------------------------------
(* The JPEG distillers                                                     *)

\* jpg_passthrough: the output is the input, which the caller owns.
Passthrough ==
    /\ who # "gif" /\ At("args") /\ in.nodistill
    /\ out' = [data |-> "input", len |-> in.len, free |-> FALSE]
    /\ Return("distOk")
    /\ UNCHANGED <<who, ink, in, lib, seen, denom, dest, heap, buf>>

\* The first pass of gifjpg_munge.c turns the GIF into a JPEG in memory.
StartPhase1 ==
    /\ who = "gifjpg" /\ At("args") /\ ~in.nodistill
    /\ lib.dst = "idle"
    /\ lib' = [lib EXCEPT !.dst = "busy"]
    /\ dest' = jpeg_mem_dest("phase1")
    /\ pc' = "phase1"
    /\ UNCHANGED <<who, ink, in, out, seen, denom, heap, buf, result>>

\* A row is compressed.
Row ==
    /\ pc \in {"phase1", "rows"}
    /\ dest.emitted < MaxBytes
    /\ dest' = Emitted(dest)
    /\ heap' = heap \cup Grown(dest')
    /\ out' = Written(dest')
    /\ UNCHANGED <<who, ink, pc, in, lib, seen, denom, buf, result>>

\* The end of the first pass.  A GIF with an extension block, if it is small,
\* is left to the front end.
FinishPhase1 ==
    /\ At("phase1") /\ dest.emitted > 0
    /\ lib' = [lib EXCEPT !.dst = "idle"]
    /\ dest' = mem_term_destination(dest)
    /\ \E bailout_now \in BOOLEAN :
         IF bailout_now /\ in.len <= Threshold
         THEN /\ out' = [out EXCEPT !.free = TRUE]
              /\ heap' = (heap \cup Grown(dest')) \ {"phase1"}
              /\ Return("distBadInput")
         ELSE /\ pc' = "header"
              /\ heap' = heap \cup Grown(dest')
              /\ UNCHANGED <<out, result>>
    /\ UNCHANGED <<who, ink, in, seen, denom, buf>>

\* The denominator, the header, and the start of decompression.
HeaderRead ==
    /\ lib.src = "idle"
    /\ denom' = Denominator
    /\ seen' = <<in.x, in.y>>
    /\ lib' = [lib EXCEPT !.src = "busy"]
    /\ pc' = "start"
    /\ UNCHANGED <<who, ink, in, out, dest, heap, buf, result>>

ReadHeader == who = "jpg" /\ At("args") /\ ~in.nodistill /\ HeaderRead
SecondPass == who = "gifjpg" /\ At("header") /\ HeaderRead

StartCompress ==
    /\ At("start")
    /\ lib.dst = "idle"
    /\ out' = [out EXCEPT !.data = "null", !.len = 0]
    /\ dest' = jpeg_mem_dest("out")
    /\ lib' = [lib EXCEPT !.dst = "busy"]
    /\ heap' = heap \cup {"handoff"}
    /\ pc' = "rows"
    /\ UNCHANGED <<who, ink, in, seen, denom, buf, result>>

\* Both objects are finished.  A result longer than its original is replaced
\* by the original.
Finished ==
    /\ At("rows") /\ dest.emitted > 0
    /\ lib' = [src |-> "idle", dst |-> "idle"]
    /\ dest' = mem_term_destination(dest)
    /\ heap' = (heap \cup Grown(dest')) \ {"handoff", "phase1"}
    /\ out' = [Written(dest') EXCEPT
                 !.len = IF dest'.offset > in.len THEN in.len ELSE dest'.offset,
                 !.free = TRUE]
    /\ Return("distOk")
    /\ UNCHANGED <<who, ink, in, seen, denom, buf>>

FinishRows == who = "jpg" /\ Finished
JPGMUNGE_RETURN == who = "gifjpg" /\ Finished

ErrorExit_NotReset ==
    /\ who # "gif" /\ pc \in {"phase1", "header", "start", "rows"}
    /\ out' = [out EXCEPT !.free = (out.data # "null")]
    /\ Return("distFatalError")
    /\ UNCHANGED <<who, ink, in, lib, seen, denom, dest, heap, buf>>

\* error_exit and longjmp: both objects are made anew, and the output is freed
\* by the caller if there is one.
ErrorExit ==
    /\ who # "gif" /\ pc \in {"phase1", "header", "start", "rows"}
    /\ lib' = [src |-> "idle", dst |-> "idle"]
    /\ out' = [out EXCEPT !.free = (out.data # "null")]
    /\ Return("distFatalError")
    /\ UNCHANGED <<who, ink, in, seen, denom, dest, heap, buf>>

-----------------------------------------------------------------------------
(* The GIF distiller                                                       *)

\* An image larger than the buffers in one direction gets new ones of its
\* size.  Without memory the old ones are gone too.
Reallocate ==
    /\ who = "gif" /\ At("args")
    /\ IF in.x > buf.x \/ in.y > buf.y
       THEN \/ /\ buf' = [x |-> in.x, y |-> in.y, exist |-> TRUE]
               /\ pc' = "read"
               /\ UNCHANGED <<out, result>>
            \/ /\ buf' = [x |-> in.x, y |-> in.y, exist |-> FALSE]
               /\ out' = [out EXCEPT !.data = "input"]
               /\ Return("distFatalError")
       ELSE pc' = "read" /\ UNCHANGED <<buf, out, result>>
    /\ UNCHANGED <<who, ink, in, lib, seen, denom, dest, heap>>

quality_table == <<[mode |-> -2, newsize |-> 0, bpp |-> 1], [mode |-> 0, newsize |-> 0, bpp |-> 1],
                   [mode |-> 0, newsize |-> 0, bpp |-> 2], [mode |-> 0, newsize |-> 0, bpp |-> 4],
                   [mode |-> 0, newsize |-> 0, bpp |-> 8]>>

\* The arguments, one after another: quality sets all three.
Parsed(args) == FoldLeft(
    LAMBDA p, a : CASE a[1] = "quality" -> IF a[2] \in 1 .. 5 THEN quality_table[a[2]] ELSE p
                    [] a[1] = "mode" -> [p EXCEPT !.mode = a[2]]
                    [] a[1] = "bpp" -> [p EXCEPT !.bpp = a[2]]
                    [] a[1] = "newx" -> [p EXCEPT !.newsize = a[2]],
    [mode |-> 0, newsize |-> 0, bpp |-> 2], args)

\* A negative number of bits asks for grays.
Ink(bpp) == LET bits == IF bpp < 0 THEN -bpp ELSE bpp IN
    [colors |-> IF 2 ^ bits > 255 THEN 255 ELSE 2 ^ bits, gray |-> bpp < 0]

\* The size asked for: a number of bytes, a fraction, or one of the sides.  A
\* width of 0 leaves the image as it is.
AtLeastPin(n) == IF n < Pin THEN Pin ELSE n
Root(n) == CHOOSE r \in 0 .. n : r * r <= n /\ (r + 1) * (r + 1) > n
Asked(p, cols, rows, len) ==
    IF p.mode > 0
    THEN <<AtLeastPin(Root((cols * cols * p.mode) \div len)),
           AtLeastPin(Root((rows * rows * p.mode) \div len))>>
    ELSE IF p.mode < 0
    THEN <<AtLeastPin(cols \div (-p.mode)), AtLeastPin(rows \div (-p.mode))>>
    ELSE IF p.newsize < 0 THEN <<(cols * (-p.newsize)) \div rows, -p.newsize>>
    ELSE <<p.newsize, (rows * p.newsize) \div cols>>

Scaled(p, cols, rows, len) ==
    LET a == Asked(p, cols, rows, len) IN IF a[1] = 0 THEN <<cols, rows>> ELSE a

\* ReadGIF, pnmscale_main, ppmquant_main and ppmtogif_main: the GIF is coded
\* into buffer 1, and returned if it is shorter than the original.
Munge ==
    /\ At("read")
    /\ \/ \E n \in Lengths :
            /\ out' = [out EXCEPT !.data = "B1", !.len = n]
            /\ seen' = Scaled(Parsed(in.args), in.x, in.y, in.len)
            /\ ink' = Ink(Parsed(in.args).bpp)
            /\ Return(IF n < in.len THEN "distOk" ELSE "distBadInput")
       \/ Return("distFatalError") /\ UNCHANGED <<out, seen, ink>>
    /\ UNCHANGED <<who, in, lib, denom, dest, heap, buf>>

Next ==
    \/ Call \/ Reply \/ Passthrough \/ StartPhase1 \/ Row \/ FinishPhase1
    \/ ReadHeader \/ SecondPass \/ StartCompress \/ FinishRows \/ JPGMUNGE_RETURN
    \/ ErrorExit \/ Reallocate \/ Munge

Spec == Init /\ [][Next]_vars
-----------------------------------------------------------------------------
\* The caller frees the output exactly when it was allocated for it: the input
\* and the pixel buffer are not freed, and nothing else is left behind when
\* the request succeeds.
OutputIsOwned == At("returned") =>
    /\ out.free => out.data \in {"null", "heap"}
    /\ out.data = "heap" <=> "out" \in heap
    /\ out.data = "heap" => out.free
    /\ result = "distOk" => heap \subseteq {"out"}

\* What is written to the memory destination fits into it, and at the end all
\* of it is there.
DestinationHolds ==
    /\ dest.offset <= dest.bufsize
    /\ At("returned") /\ result # "distFatalError" => dest.copied = 0 /\ dest.offset = dest.emitted

\* Every request finds the objects of libjpeg idle, however the one before
\* ended, so that none fails for what another left behind.
LibraryIsReady == At("idle") => lib = [src |-> "idle", dst |-> "idle"]

\* A distilled image is not longer than its original.
NeverLonger == At("returned") /\ result = "distOk" => out.len <= in.len

\* The image that is read fits into the pixel buffers, if they could be made.
ImageFits == At("read") /\ buf.exist => in.x <= buf.x /\ in.y <= buf.y

\* The last argument with an id that counts, or nothing.
LastOf(ids) == SelectLastInSeq(in.args, LAMBDA a : a[1] \in ids)
Distilled == who = "gif" /\ At("returned") /\ result \in {"distOk", "distBadInput"}

\* An image is scaled as the last mode that was given says, by an argument of
\* its own or by a quality: quality 1 halves it.  Otherwise it gets the last
\* width that no quality came after, or keeps its size.  Whatever the order,
\* the last of a bpp and a quality decides on the colours and on grays.
SizeIsAsked == Distilled =>
    LET m == LastOf({"mode", "quality"})
        n == LastOf({"newx", "quality"})
        b == LastOf({"bpp", "quality"})
        mode == IF m = 0 \/ in.args[m] \in {"quality"} \X (2 .. 5) THEN 0
                ELSE IF in.args[m][1] = "mode" THEN in.args[m][2] ELSE -2
    IN /\ mode < 0 => seen = <<AtLeastPin(in.x \div (-mode)), AtLeastPin(in.y \div (-mode))>>
       /\ mode = 0 /\ (n = 0 \/ in.args[n][1] = "quality") => seen = <<in.x, in.y>>
       /\ mode = 0 /\ n > 0 /\ in.args[n][1] = "newx" => seen[1] = in.args[n][2]
       /\ ink.gray <=> b > 0 /\ in.args[b][1] = "bpp" /\ in.args[b][2] < 0
       /\ b = 0 => ink.colors = 4
       /\ b > 0 /\ in.args[b] \in {"quality"} \X (1 .. 2) => ink.colors = 2

\* The scale is one that libjpeg has, and a single limit is met if any of
\* these scales meets it.
ScaleMeetsLimit ==
    /\ denom \in {1, 2, 4, 8}
    /\ \A lim \in Limits \ {-1}, s \in {1, 2, 4, 8}, x \in Sizes, y \in Sizes :
         LET maxed == compute_scale_denom(lim, -1, -1, -1, x, y, s)
             least == compute_scale_denom(-1, -1, lim, -1, x, y, s)
         IN /\ (x \div 8 <= lim) => (x \div maxed <= lim)
            /\ (x >= lim) => (x \div least >= lim)

\* Images are distilled soundly, whatever the requests before.
ImagesAreDistilled ==
    /\ OutputIsOwned /\ DestinationHolds /\ LibraryIsReady
    /\ NeverLonger /\ ImageFits /\ SizeIsAsked /\ ScaleMeetsLimit

\* Refuted by the code ("set from table, but allow individual args to be
\* overridden too"): a width given after a quality is the width of the image.
\* Quality 1 also sets a mode, and then the width is not looked at.
ArgsOverride == Distilled =>
    LET n == LastOf({"newx", "mode", "quality"}) IN
    n > 0 /\ in.args[n][1] = "newx" => seen[1] = in.args[n][2]

\* Refuted by the code: the pixel buffers exist when an image is read.  After
\* a failed allocation the sizes are already those of the image that did not
\* fit, and the next image is read into buffers that are gone.
BuffersExist == At("read") => buf.exist

\* Refuted by the code: the scaled image fits into the second buffer.  Its
\* size may be larger than the image's, and each side is made at least Pin
\* ("pin to harmless values"), whatever the sizes of the buffers.
ScaledFits == who = "gif" /\ At("returned") /\ result = "distOk" =>
    seen[1] <= buf.x /\ seen[2] <= buf.y

\* Refuted by the code: the limits apply to the image of the request.  The
\* sizes in srcinfo are those of the image before it.
LimitsOfThisImage == At("start") /\ in.expert =>
    denom = compute_scale_denom(in.limit[1], in.limit[2], in.limit[3], in.limit[4],
                                in.x, in.y, in.scale)

\* Refuted by the code: a failed request leaves no memory behind.  The row
\* buffer and the result of the first pass are not freed after longjmp.
ErrorsFreeMemory == At("returned") => heap \subseteq {"out"}
=============================================================================
