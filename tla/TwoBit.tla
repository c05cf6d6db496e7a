------------------------------- MODULE TwoBit ------------------------------
(***************************************************************************)
(* The stages of the distiller that makes two-bit images for hand-held     *)
(* clients: reading the codes of a GIF, zooming its rows, and dithering to *)
(* four greys.                                                             *)
(***************************************************************************)
EXTENDS Integers, Sequences, SequencesExt, FiniteSets, FiniteSetsExt
-----------------------------------------------------------------------------
(***************************************************************************)
(* The codes of a GIF on their way through bytes and data blocks: output,  *)
(* char_out and flush_char of ppmtogif.c write them, GetCode and           *)
(* GetDataBlock of gif2grey.c read them.  A code is the sequence of its    *)
(* bits, lowest first.  The reader keeps the last two bytes of a block in  *)
(* front of the next one.                                                  *)
(***************************************************************************)
CONSTANTS Byte,         \* 8: bits of a byte
          MaxPacket,    \* 254: bytes of a data block of the writer
          Codes,        \* the codes of the compressor, each as its bits
          MaxCodes      \* bound: codes of an image

VARIABLES written,      \* the codes so far
          cur,          \* cur_accum, cur_bits
          accum,        \* the bytes of the block that is not written yet
          blocks,       \* the data blocks of the file; << >> is the last
          closed,       \* the writer is through
          rd,           \* the statics of GetCode, and the blocks it has not read
          got           \* codes that were read

bitVars == <<written, cur, accum, blocks, closed, rd, got>>

Reset(file) == [buf |-> << >>, curbit |-> 0, lastbit |-> 0, done |-> FALSE, file |-> file, lost |-> FALSE]

BitsInit == /\ written = << >> /\ cur = << >> /\ accum = << >> /\ blocks = << >>
        /\ closed = FALSE
        /\ rd = Reset(<< >>)
        /\ got = << >>
-----------------------------------------------------------------------------
(* The writer                                                              *)

\* flush_char
Flushed(w) == IF w.accum = << >> THEN w ELSE [accum |-> << >>, blocks |-> Append(w.blocks, w.accum)]

\* char_out
Put(w, byte) ==
    LET a == [w EXCEPT !.accum = Append(@, byte)]
    IN IF Len(a.accum) >= MaxPacket THEN Flushed(a) ELSE a

\* output of a code: the whole bytes go out, the rest stays.
Output(code) ==
    /\ ~closed /\ Len(written) < MaxCodes
    /\ LET bits == cur \o code
           n == Len(bits) \div Byte
           bytes == [k \in 1 .. n |-> SubSeq(bits, (k - 1) * Byte + 1, k * Byte)]
           w == FoldLeft(Put, [accum |-> accum, blocks |-> blocks], bytes)
       IN /\ accum' = w.accum /\ blocks' = w.blocks
          /\ cur' = SubSeq(bits, n * Byte + 1, Len(bits))
    /\ written' = Append(written, code)
    /\ UNCHANGED <<closed, rd, got>>

\* After the end code: the bits that are left, the block, the empty block.
Close ==
    /\ ~closed /\ written # << >>
    /\ LET pad == cur \o [k \in 1 .. Byte - Len(cur) |-> 0]
           w0 == [accum |-> accum, blocks |-> blocks]
           w == Flushed(IF cur = << >> THEN w0 ELSE Put(w0, pad))
       IN /\ blocks' = Append(w.blocks, << >>)
          /\ rd' = Reset(Append(w.blocks, << >>))
    /\ closed' = TRUE
    /\ accum' = << >> /\ cur' = << >>
    /\ UNCHANGED <<written, got>>

\* A file of another program: blocks of any length.
CloseBlock ==
    /\ ~closed /\ accum # << >>
    /\ accum' = << >> /\ blocks' = Append(blocks, accum)
    /\ UNCHANGED <<written, cur, closed, rd, got>>
-----------------------------------------------------------------------------
(* The reader                                                              *)

BitsOf(block) == FlattenSeq(block)
Saved(buf) == [k \in 1 .. 2 * Byte |-> IF Len(buf) >= 2 * Byte THEN buf[Len(buf) - 2 * Byte + k] ELSE 0]

\* GetDataBlock behind the last two bytes.  At the end of the file the count
\* of -1 is taken for 255 bytes, which are what the buffer held.
Refill_NothingSaved(r) ==
    LET block == IF r.file = << >> THEN << >> ELSE BitsOf(Head(r.file))
    IN [r EXCEPT !.buf = [k \in 1 .. 2 * Byte |-> 0] \o block,
                 !.file = IF @ = << >> THEN @ ELSE Tail(@),
                 !.done = block = << >>,
                 !.lost = @ \/ r.file = << >>,
                 !.curbit = @ - r.lastbit + 2 * Byte,
                 !.lastbit = 2 * Byte + Len(block)]

Refill(r) ==
    LET block == IF r.file = << >> THEN << >> ELSE BitsOf(Head(r.file))
    IN [r EXCEPT !.buf = Saved(@) \o block,
                 !.file = IF @ = << >> THEN @ ELSE Tail(@),
                 !.done = block = << >>,
                 !.lost = @ \/ r.file = << >>,
                 !.curbit = @ - r.lastbit + 2 * Byte,
                 !.lastbit = 2 * Byte + Len(block)]

Bit(r, k) == IF k <= Len(r.buf) THEN r.buf[k] ELSE 0

\* GetCode with as many bits as the next code has (module Compression has that they agree).
GetCode ==
    /\ closed /\ Len(got) < Len(written) /\ ~rd.lost
    /\ LET size == Len(written[Len(got) + 1])
           short == rd.curbit + size >= rd.lastbit
           r == IF short /\ ~rd.done THEN Refill(rd) ELSE rd
       IN IF short /\ rd.done
          THEN rd' = [rd EXCEPT !.lost = TRUE] /\ UNCHANGED got
          ELSE /\ got' = Append(got, [k \in 1 .. size |-> Bit(r, r.curbit + k)])
               /\ rd' = [r EXCEPT !.curbit = @ + size]
    /\ UNCHANGED <<written, cur, accum, blocks, closed>>

BitsNext == (\E c \in Codes : Output(c)) \/ Close \/ CloseBlock \/ GetCode

BitsSpec == BitsInit /\ [][BitsNext]_bitVars
-----------------------------------------------------------------------------
\* The blocks before the last that has data.
Inner == {blocks[k] : k \in 1 .. Len(blocks) - 2}

\* Whatever codes were written, and wherever they cross bytes and blocks, the
\* reader gets the same codes and never runs off the end of its bits, if every
\* block but the last holds two bytes.
CodesComeBack == (\A b \in Inner : Len(b) >= 2) => ~rd.lost /\ IsPrefix(got, written)

\* The writer's blocks never have more bytes than their count can say.
BlocksFit == Len(accum) < MaxPacket /\ \A k \in DOMAIN blocks : Len(blocks[k]) <= MaxPacket

CodesAreCarried == CodesComeBack /\ BlocksFit

\* Refuted by the code: the same for every file.  GetCode reads one block only,
\* which may not hold the rest of a code.
AnyBlocksWillDo == ~rd.lost /\ IsPrefix(got, written)
-----------------------------------------------------------------------------
(***************************************************************************)
(* 2bit_munger: ditpic.c asks hipass.c for the rows of the new image one   *)
(* after another, which asks izoom.c for zoomed rows, which reads rows of  *)
(* the grey image.  Each keeps a window of rows: the zoom the filtered     *)
(* rows that a new row is made of, the high pass two rows and the sum of   *)
(* three blurred ones.  The rows of the image are uniform here, so that    *)
(* the image is a column of values; xblur is checked on other rows apart.  *)
(* The fractions of the box filter are exact.                              *)
(***************************************************************************)
CONSTANTS ZoomValues,       \* grey values
          ZoomGrey,      \* 255
          MaxSize,      \* bound: rows of the old and the new image
          ONE,          \* 4096
          Extrap        \* 1024 * sharpen

VARIABLES src,          \* the grey image
          bny,          \* rows of the new image
          wide,         \* it has three columns or more
          filtrows,     \* the window of the zoom: rows of src, 0 is none yet
          ay, zy,       \* rows that the zoom has read and made
          past, blur, acc,
          out           \* the rows that ditpic was given

zoomVars == <<src, bny, wide, filtrows, ay, zy, past, blur, acc, out>>

any == Len(src)

\* C division rounds towards zero.
Quotient(a, b) == IF a >= 0 THEN a \div b ELSE -((-a) \div b)
ZoomClamped(v) == Max({0, Min({v, ZoomGrey})})
-----------------------------------------------------------------------------
(* izoom.c                                                                 *)

\* The part of the old row a under the new row y, in units 1 / (any * bny).
Cover(a, y) == Min({(a + 1) * bny, (y + 1) * any}) - Max({a * bny, y * any})

\* makefilt: the old rows of a new one and their weights.
amin(y) == (y * any) \div bny
amax(y) == ((y + 1) * any + bny - 1) \div bny - 1
Weight(a, y) == LET d == IF bny < any THEN bny ELSE any
                IN (ONE * Cover(a, y) + d) \div (2 * d)
nrows == Max({1 + amax(y) - amin(y) : y \in 0 .. bny - 1})

\* Reading rows into the window until the last one that is needed.
Advance(w, from, max) ==
    FoldLeft(LAMBDA acc_, a : Append(Tail(acc_), a + 1), w, [i \in 1 .. max - from + 1 |-> from + i - 1])

\* The rows of the window that f->w is applied to, and their sum.
Filtered(w, y) ==
    LET n == 1 + amax(y) - amin(y)
        weight(i) == Weight(amin(y) + i - 1, y)
        row(i) == src[w[i + nrows - n]]
        totw == MapThenSumSet(weight, 1 .. n)
    IN IF n = 1 THEN src[w[nrows]]
       ELSE (totw \div 2 + MapThenSumSet(LAMBDA i : weight(i) * row(i), 1 .. n)) \div totw

\* getzoomrow, k times: what the zoom and its rows are afterwards.
RECURSIVE Zoomed(_, _)
Zoomed(z, k) ==
    IF k = 0 THEN z
    ELSE LET max == amax(z.zy)
             w == Advance(z.w, z.ay, max)
         IN Zoomed([w |-> w, ay |-> Max({z.ay, max + 1}), zy |-> z.zy + 1,
                    rows |-> Append(z.rows, Filtered(w, z.zy))], k - 1)

Zoom(first, k) ==
    Zoomed([w |-> filtrows, ay |-> IF first THEN 0 ELSE ay, zy |-> IF first THEN 0 ELSE zy,
            rows |-> << >>], k)
-----------------------------------------------------------------------------
(* hipass.c                                                                *)

\* xblur of a row of n pixels: a running sum of three, and one and a half
\* times the sum of two at the ends.
xblur(c) ==
    LET n == Len(c)
        ends(a) == (3 * a + 1) \div 2
        step(s, i) == [sums |-> Append(s.sums, s.acc), acc |-> s.acc - c[i] + c[i + 3]]
        mid == FoldLeft(step, [sums |-> << ends(c[1] + c[2]) >>, acc |-> c[1] + c[2] + c[3]],
                        [i \in 1 .. n - 3 |-> i])
    IN mid.sums \o <<mid.acc, ends(mid.acc - c[n - 2])>>

\* A blurred uniform row.
Blur(v) == xblur(<<v, v, v>>)[2]

\* Away from the blurred image.
extrap(pix, sum, mul) == ZoomClamped(pix + Quotient(Extrap * (pix * mul - sum), mul * 256))

Active == bny >= 3 /\ wide /\ Extrap # 0
y0 == Len(out)

\* The row asked for is the first of an image ...
HipassFirst ==
    /\ Active /\ y0 = 0
    /\ LET z == Zoom(TRUE, 2)
           b == <<Blur(z.rows[1]), Blur(z.rows[2])>>
       IN /\ filtrows' = z.w /\ ay' = z.ay /\ zy' = z.zy
          /\ past' = z.rows
          /\ blur' = b \o <<0>>
          /\ acc' = b[1] + b[2]
          /\ out' = <<extrap(z.rows[1], b[1] + b[2], 6)>>
    /\ UNCHANGED <<src, bny, wide>>

\* ... the last ...
HipassLast ==
    /\ Active /\ y0 > 0 /\ y0 = bny - 1
    /\ out' = Append(out, extrap(past[2], acc, 6))
    /\ UNCHANGED <<src, bny, wide, filtrows, ay, zy, past, blur, acc>>

HipassMiddle_NoShift ==
    /\ Active /\ y0 > 0 /\ y0 < bny - 1
    /\ LET z == Zoom(FALSE, 1)
           b == Blur(z.rows[1])
       IN /\ filtrows' = z.w /\ ay' = z.ay /\ zy' = z.zy
          /\ past' = <<past[2], z.rows[1]>>
          /\ out' = Append(out, extrap(past[2], acc + b, 9))
          /\ acc' = acc + b - blur[1]
          /\ blur' = <<blur[1], blur[2], b>>
    /\ UNCHANGED <<src, bny, wide>>

\* ... or one in the middle.
HipassMiddle ==
    /\ Active /\ y0 > 0 /\ y0 < bny - 1
    /\ LET z == Zoom(FALSE, 1)
           b == Blur(z.rows[1])
       IN /\ filtrows' = z.w /\ ay' = z.ay /\ zy' = z.zy
          /\ past' = <<past[2], z.rows[1]>>
          /\ out' = Append(out, extrap(past[2], acc + b, 9))
          /\ acc' = acc + b - blur[1]
          /\ blur' = <<blur[2], b, blur[1]>>
    /\ UNCHANGED <<src, bny, wide>>

\* A small image is not sharpened.
HipassInactive ==
    /\ ~Active /\ y0 < bny
    /\ LET z == Zoom(y0 = 0, 1)
       IN /\ filtrows' = z.w /\ ay' = z.ay /\ zy' = z.zy
          /\ out' = Append(out, z.rows[1])
    /\ UNCHANGED <<src, bny, wide, past, blur, acc>>

\* ditpic: a new zoom and a new high pass.
ZoomInit ==
    /\ src \in UNION {[1 .. n -> ZoomValues] : n \in 1 .. MaxSize}
    /\ bny \in 1 .. MaxSize /\ wide \in BOOLEAN
    /\ filtrows = [i \in 1 .. nrows |-> 0]
    /\ ay = 0 /\ zy = 0
    /\ past = <<0, 0>> /\ blur = <<0, 0, 0>> /\ acc = 0
    /\ out = << >>

ZoomNext == HipassFirst \/ HipassMiddle \/ HipassLast \/ HipassInactive

ZoomSpec == ZoomInit /\ [][ZoomNext]_zoomVars
-----------------------------------------------------------------------------
\* What a new row should be: the average over the old rows under it.
CoverSum(y) == MapThenSumSet(LAMBDA a : Cover(a, y) * src[a + 1], amin(y) .. amax(y))
Reference(y) == Filtered([i \in 1 .. nrows |-> Max({1, amax(y) + 1 - nrows + i})], y)

\* A zoomed row is less than one value away from the average of what it
\* covers, and never outside the values it is made of.
ZoomAverages == \A y \in 0 .. bny - 1 :
    /\ Reference(y) * any - CoverSum(y) \in -any .. any
    /\ \A a \in amin(y) .. amax(y) : a \in 0 .. any - 1 /\ Cover(a, y) > 0
    /\ Reference(y) >= Min({src[a + 1] : a \in amin(y) .. amax(y)})
    /\ Reference(y) <= Max({src[a + 1] : a \in amin(y) .. amax(y)})

Neighbours(y) == {k \in {y - 1, y, y + 1} : k >= 0 /\ k < bny}

\* Both windows hold the rows they should: the row given to ditpic is made of
\* the zoomed row at its place and the two next to it.
RowsInTurn == \A y \in 0 .. Len(out) - 1 :
    out[y + 1] = IF ~Active THEN Reference(y)
                 ELSE extrap(Reference(y), MapThenSumSet(LAMBDA k : 3 * Reference(k), Neighbours(y)),
                             3 * Cardinality(Neighbours(y)))

\* xblur gives the sum of three pixels at every place, the first and the last
\* pixel aside, for which the sum of two is enlarged.
BlurSums == any >= 3 =>
    LET b == xblur(src) IN
    /\ Len(b) = any
    /\ \A i \in 2 .. any - 1 : b[i] = src[i - 1] + src[i] + src[i + 1]
    /\ b[1] = (3 * (src[1] + src[2]) + 1) \div 2
    /\ b[any] = (3 * (src[any - 1] + src[any]) + 1) \div 2

RowsAreZoomed == ZoomAverages /\ RowsInTurn /\ BlurSums
-----------------------------------------------------------------------------
(***************************************************************************)
(* 2bit_munger: propdit.c brings a row of grey values down to four levels, *)
(* back and forth over the rows with the error of each pixel handed on to  *)
(* the next one and to the row below; stob of ditpic.c packs the levels    *)
(* four to a byte into rows of an even number of bytes, for which          *)
(* DistillerMain of 2bit_munger.c has allocated the room.                  *)
(***************************************************************************)
CONSTANTS Values,       \* grey values of a row
          Step,         \* 85: from one level to the next, odd
          NoiseMag,     \* NOISEMAG
          NoiseCutin,   \* NOISECUTIN
          ErrorMag,     \* 20: the errors that a new propdit starts with
          Cols,         \* columns of the grey image
          Asked,        \* what the arguments ask of the columns
          MaxPack       \* bound: pixels of a row that is only packed

levels == {0, Step, 2 * Step, 3 * Step}
MaxGrey == 3 * Step

VARIABLES xsize, err0, err1,
          odd,          \* cury & 1
          i,            \* pixels of the row that are done
          buf, obuf,    \* the row, and its levels
          packed        \* the bytes of the row, each four pairs of bits

ditVars == <<xsize, err0, err1, odd, i, buf, obuf, packed>>
-----------------------------------------------------------------------------
(* DistillerMain                                                           *)

\* TWOBIT_XSIZE gives the columns, TWOBIT_SCALE a percentage; the last counts.
OutCols(cols, args) ==
    FoldLeft(LAMBDA o, a : IF a[1] = "xsize" THEN a[2] ELSE (cols * a[2]) \div 100, cols, args)

\* Bytes of a row: DistillerMain and ditpic compute the same.
orsize(n) == ((n + 7) \div 8) * 2
-----------------------------------------------------------------------------
(* propdit.c                                                               *)

Abs(e) == IF e < 0 THEN -e ELSE e
qlevels(p) == CHOOSE l \in levels : \A m \in levels : Abs(p - l) < Abs(p - m) \/ l = m
qerrors(p) == p - qlevels(p)
donoise(p) == Abs(qerrors(p)) >= NoiseCutin

Noise(m) == -m .. m
NoPixels(n) == [x \in 0 .. n - 1 |-> 0]

\* newpropdit: the errors have an entry before and one behind the row.
DitherInit ==
    /\ \E cols \in Cols, args \in Asked : xsize = OutCols(cols, args)
    /\ \E e, f \in Noise(ErrorMag) : /\ err0 = [x \in -1 .. xsize |-> e]
                                     /\ err1 = [x \in -1 .. xsize |-> f]
    /\ odd = FALSE
    /\ i = 0
    /\ buf = NoPixels(xsize) /\ obuf = NoPixels(xsize)
    /\ packed = << >>

Clamped(p) == Max({0, Min({p, MaxGrey})})

Pixel_Wide ==
    /\ i < xsize
    /\ \E v \in Values, noise \in Noise(NoiseMag) :
         LET x == IF odd THEN i ELSE xsize - 1 - i
             rerror == IF odd THEN err1[x - 1] + err0[x] ELSE err0[x + 1] + err1[x]
             p == Clamped(v + rerror + IF donoise(v) THEN noise ELSE 0)
         IN /\ buf' = [buf EXCEPT ![x] = v]
            /\ obuf' = [obuf EXCEPT ![x] = qlevels(p)]
            /\ IF odd THEN err1' = [err1 EXCEPT ![x] = qerrors(p)] /\ UNCHANGED err0
                      ELSE err0' = [err0 EXCEPT ![x] = qerrors(p)] /\ UNCHANGED err1
    /\ i' = i + 1
    /\ UNCHANGED <<xsize, odd, packed>>

\* The next pixel of propditrow.  Odd rows go to the right and leave their
\* errors in err1, even ones to the left and leave them in err0.
Pixel ==
    /\ i < xsize
    /\ \E v \in Values, noise \in Noise(NoiseMag) :
         LET x == IF odd THEN i ELSE xsize - 1 - i
             rerror == (IF odd THEN err1[x - 1] + err0[x] ELSE err0[x + 1] + err1[x]) \div 2
             p == Clamped(v + rerror + IF donoise(v) THEN noise ELSE 0)
         IN /\ buf' = [buf EXCEPT ![x] = v]
            /\ obuf' = [obuf EXCEPT ![x] = qlevels(p)]
            /\ IF odd THEN err1' = [err1 EXCEPT ![x] = qerrors(p)] /\ UNCHANGED err0
                      ELSE err0' = [err0 EXCEPT ![x] = qerrors(p)] /\ UNCHANGED err1
    /\ i' = i + 1
    /\ UNCHANGED <<xsize, odd, packed>>

-----------------------------------------------------------------------------
(* stob of ditpic.c                                                        *)

\* The two high bits of a level, inverted.
Bits(l) == 3 - l \div Step

\* A byte of four pixels while at least five are left; the last byte has the
\* first pixel that is left and, as the code counts them, the second of three
\* and the third of four.
RECURSIVE Pack(_)
Pack(s) ==
    IF s = << >> THEN << >>
    ELSE IF Len(s) >= 5
    THEN << [k \in 1 .. 4 |-> Bits(s[k])] >> \o Pack(SubSeq(s, 5, Len(s)))
    ELSE << [k \in 1 .. 4 |-> IF k = 1 \/ (k < Len(s) /\ k < 4) THEN Bits(s[k]) ELSE 0] >>

\* Rows of an even number of bytes.
stob(s) == Pack(s) \o IF ((Len(s) + 7) \div 4) % 2 = 0 THEN << <<0, 0, 0, 0>> >> ELSE << >>

\* The row is finished: ditpic packs it, the next one goes the other way.
RowDone ==
    /\ i = xsize
    /\ packed' = stob([k \in 1 .. xsize |-> obuf[k - 1]])
    /\ odd' = ~odd
    /\ i' = 0
    /\ buf' = NoPixels(xsize) /\ obuf' = NoPixels(xsize)
    /\ UNCHANGED <<xsize, err0, err1>>

DitherNext == Pixel \/ RowDone

DitherSpec == DitherInit /\ [][DitherNext]_ditVars
-----------------------------------------------------------------------------
Done == IF odd THEN 0 .. i - 1 ELSE xsize - i .. xsize - 1

\* However errors and noise add up, a pixel that has a level already keeps it,
\* and every pixel comes out with one of the two levels around it or one next
\* to these.
LevelsAreKept ==
    /\ \A x \in Done : buf[x] \in levels => obuf[x] = buf[x]
    /\ \A x \in Done : Abs(obuf[x] - buf[x]) <= Step + NoiseMag
    /\ \A x \in -1 .. xsize : 2 * Abs(err0[x]) < Step /\ 2 * Abs(err1[x]) < Step

Unpacked(bytes, k) == bytes[((k - 1) \div 4) + 1][((k - 1) % 4) + 1]
Pattern(n) == [k \in 1 .. n |-> Step * ((k * k + k \div 3) % 4)]

\* A packed row has the length that the rows of the bitmap were given, and all
\* pixels but the last are in it, with nothing behind them.
RowsArePacked == i = 0 /\ packed = << >> => \A n \in 1 .. MaxPack :
    LET bytes == stob(Pattern(n)) IN
    /\ Len(bytes) = orsize(n)
    /\ \A k \in 1 .. n - 1 : Unpacked(bytes, k) = Bits(Pattern(n)[k])
    /\ \A k \in n + 1 .. 4 * orsize(n) : Unpacked(bytes, k) = 0

\* Also for the rows that are dithered.
RowsFit == packed = << >> \/ Len(packed) = orsize(xsize)

ImagesAreDithered == LevelsAreKept /\ RowsArePacked /\ RowsFit

\* Refuted by the code: the last pixel of a row is packed too.  In the last
\* byte of stob n is one less than the pixels that are left.
LastPixelIsPacked == i = 0 /\ packed = << >> => \A n \in 1 .. MaxPack :
    Unpacked(stob(Pattern(n)), n) = Bits(Pattern(n)[n])
=============================================================================
