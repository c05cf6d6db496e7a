------------------------------- MODULE GifPnm ------------------------------
(***************************************************************************)
(* The stages of the GIF distiller: the blocks of a GIF file (giftopnm),   *)
(* scaling (pnmscale) and the choice of colours (ppmquant).                *)
(***************************************************************************)
EXTENDS Integers, Sequences, SequencesExt, FiniteSetsExt, FiniteSets
-----------------------------------------------------------------------------
(***************************************************************************)
(* The readers of GIF files, as they go from block to block: ReadGIF of    *)
(* gif_munger/src/giftopnm.c, which reads to the end of the file, and      *)
(* start_input_gif of giftojpg_munger/src/gj_mem_src_dst_mgr.c and ReadGIF *)
(* of 2bit_munger/src/gif2grey.c, which stop at the first image.  All are  *)
(* fed the same blocks; `file' keeps what a reader should find.  What      *)
(* giftopnm.c and gif2grey.c keep in static variables survives the file.   *)
(*                                                                         *)
(* A colour map is a number, 0 for none.  The pixels are read by other     *)
(* module (Compression); the data blocks of an extension are skipped       *)
(* by all readers.  The code size of an image is a legal one.             *)
(***************************************************************************)
CONSTANTS Maps,     \* colour maps
          Widths,   \* sizes of images
          ColorCounts,   \* transparent colours
          MaxImages \* bound: images in a file

None == 0
NoTransparency == -1
NoImage == [width |-> 0, map |-> None]

VARIABLES
    file,       \* the file as it is written
    pnm,        \* variables of ReadGIF, and GifScreen and Gif89
    gj,         \* variables of start_input_gif and bailout_now
    grey        \* variables of gif2grey.c

gifVars == <<file, pnm, gj, grey>>

NewFile(map) == [open |-> TRUE, map |-> map, images |-> << >>, controls |-> << >>, before |-> FALSE,
                 count |-> 0, transparent |-> NoTransparency]

BlocksInit ==
    /\ file = [NewFile(None) EXCEPT !.open = FALSE]
    /\ pnm = [screenMap |-> None, transparent |-> NoTransparency, count |-> 0,
              image |-> NoImage, status |-> "idle", is_transparent |-> NoTransparency]
    /\ gj = [map |-> None, bailout |-> FALSE, image |-> NoImage, status |-> "idle"]
    /\ grey = [map |-> None, transparent |-> NoTransparency, image |-> NoImage, status |-> "idle"]

\* gif2grey_main forgets the transparent colour of the file before.
greyHeader(map, good) ==
    [map |-> IF good /\ map # None THEN map ELSE grey.map, transparent |-> NoTransparency,
     image |-> NoImage, status |-> IF good THEN "reading" ELSE "error"]

\* The header and the screen descriptor.  A file that does not begin as a GIF
\* is refused by all, one of an unknown version by all but the JPEG converter.
Header(map, legal, known) ==
    /\ ~file.open
    /\ file' = [NewFile(map) EXCEPT !.open = legal]
    /\ pnm' = [pnm EXCEPT !.count = 0, !.image = NoImage, !.is_transparent = NoTransparency,
                          !.screenMap = IF legal /\ known /\ map # None THEN map ELSE @,
                          !.status = IF legal /\ known THEN "reading" ELSE "error"]
    /\ gj' = [map |-> IF legal THEN map ELSE None, bailout |-> FALSE, image |-> NoImage,
              status |-> IF legal THEN "reading" ELSE "error"]
    /\ grey' = greyHeader(map, legal /\ known)

\* DoExtension.  A graphic control block may name a transparent colour.
pnmExtension(label, color) ==
    IF pnm.status = "reading" /\ label = "control" /\ color # NoTransparency
    THEN [pnm EXCEPT !.transparent = color] ELSE pnm

gjExtension(label) ==
    IF gj.status = "reading" /\ label = "control" THEN [gj EXCEPT !.bailout = TRUE] ELSE gj

greyExtension(label, color) ==
    IF grey.status = "reading" /\ label = "control" /\ color # NoTransparency
    THEN [grey EXCEPT !.transparent = color] ELSE grey

Extension(label, color) ==
    /\ file.open
    /\ file' = IF label = "control"
               THEN [file EXCEPT !.controls = << color >>,
                                 !.transparent = IF file.images = << >> /\ color # NoTransparency
                                                 THEN color ELSE @,
                                 !.before = @ \/ file.images = << >>]
               ELSE file
    /\ pnm' = pnmExtension(label, color)
    /\ gj' = gjExtension(label)
    /\ grey' = greyExtension(label, color)

pnmImage_All(width, map) == IF pnm.status # "reading" THEN pnm ELSE
    [pnm EXCEPT !.count = @ + 1,
                !.image = [width |-> width, map |-> IF map # None THEN map ELSE pnm.screenMap]]

\* An image descriptor, its own colour map if it has one, and its pixels.
\* ReadImage passes over all images but the one with number 1.
pnmImage(width, map) == IF pnm.status # "reading" THEN pnm ELSE
    [pnm EXCEPT !.count = @ + 1,
                !.image = IF pnm.count + 1 = 1
                          THEN [width |-> width, map |-> IF map # None THEN map ELSE pnm.screenMap]
                          ELSE @]

gjImage(width, map) ==
    IF gj.status # "reading" THEN gj
    ELSE [gj EXCEPT !.image = [width |-> width, map |-> IF map # None THEN map ELSE gj.map],
                    !.status = "found"]

greyImage(width, map) ==
    IF grey.status # "reading" THEN grey
    ELSE [grey EXCEPT !.image = [width |-> width, map |-> IF map # None THEN map ELSE grey.map],
                      !.status = "found"]

Image(width, map) ==
    /\ file.open
    /\ file.count < MaxImages
    /\ file' = [file EXCEPT !.count = @ + 1,
                            !.images = IF @ = << >> THEN << [width |-> width, map |-> map] >> ELSE @]
    /\ pnm' = pnmImage(width, map)
    /\ gj' = gjImage(width, map)
    /\ grey' = greyImage(width, map)

\* The terminator.  The transparent colour is looked up in the screen's map.
Terminator ==
    /\ file.open
    /\ file' = [file EXCEPT !.open = FALSE]
    /\ pnm' = IF pnm.status = "error" \/ pnm.count < 1 THEN [pnm EXCEPT !.status = "error"]
              ELSE [pnm EXCEPT !.status = "done", !.is_transparent = pnm.transparent]
    /\ gj' = IF gj.status = "reading" THEN [gj EXCEPT !.status = "error"] ELSE gj
    /\ grey' = IF grey.status = "reading" THEN [grey EXCEPT !.status = "error"] ELSE grey

BlocksNext ==
    \/ \E m \in Maps \cup {None}, legal, known \in BOOLEAN : Header(m, legal, known)
    \/ \E l \in {"control", "comment"}, c \in ColorCounts \cup {NoTransparency} : Extension(l, c)
    \/ \E w \in Widths, m \in Maps \cup {None} : Image(w, m)
    \/ Terminator

BlocksSpec == BlocksInit /\ [][BlocksNext]_gifVars
-----------------------------------------------------------------------------
Read == ~file.open /\ pnm.status \in {"done", "error"} /\ file.map # None

\* The readers find the first image of the file, with its own colour map or
\* the one of the screen, and fail if there is none; the JPEG converter knows
\* whether a control block came before it, the grey converter the transparent
\* colour that was named before it.
FirstImageIsRead == Read =>
    /\ pnm.status = "done" => file.images # << >>
    /\ pnm.status = "done" /\ gj.status # "error" =>
         LET first == file.images[1]
             wanted == [first EXCEPT !.map = IF first.map # None THEN first.map ELSE file.map]
         IN pnm.image = wanted /\ gj.image = wanted /\ gj.bailout = file.before
            /\ grey.image = wanted /\ grey.transparent = file.transparent
    /\ grey.status = "error" <=> pnm.status = "error"
    /\ gj.status = "error" => pnm.status = "error"

\* A GIF with a transparent colour is reported as transparent.
TransparencyIsSeen == Read /\ pnm.status = "done" /\ file.controls # << >> =>
    \/ file.controls[1] = NoTransparency
    \/ pnm.is_transparent = file.controls[1]

GifsAreRead == FirstImageIsRead /\ TransparencyIsSeen

\* Refuted by the code: a GIF without a transparent colour is not reported as
\* transparent.  Gif89.transparent is never reset, so every file after a
\* transparent one is transparent too.
OpaqueStaysOpaque == Read /\ pnm.status = "done" /\ file.controls = << >> =>
    pnm.is_transparent = NoTransparency
-----------------------------------------------------------------------------
(***************************************************************************)
(* gif_munger/src/pnmscale.c: scaling an image to new sizes in fixed point *)
(* arithmetic with SCALE steps to a pixel.  One colour component of a row  *)
(* is scaled in x, one of a column in y, with the loops of the code;  the  *)
(* properties compare them with the average over the part of the source    *)
(* that a new pixel stands for.                                            *)
(***************************************************************************)
CONSTANTS SCALE,        \* 4096; even
          Values,       \* values of a component
          MaxSize       \* bound: old and new sizes

HALFSCALE == SCALE \div 2
Sizes == 1 .. MaxSize
-----------------------------------------------------------------------------
(* Sizes                                                                   *)

\* (int) (n * num / den + 0.999)
Rounded(n, num, den) == (1000 * n * num + 999 * den) \div (1000 * den)

\* One scale num / den for both directions.
ByScale(cols, rows, num, den) ==
    [cols |-> Rounded(cols, num, den), rows |-> Rounded(rows, num, den),
     fixed |-> (num * SCALE) \div den]

\* The sizes asked for are a box: the direction that fills it first gives the
\* scale of both.
ByBox(cols, rows, newcols, newrows) ==
    IF newcols * rows > cols * newrows
    THEN [ByScale(cols, rows, newrows, rows) EXCEPT !.rows = newrows]
    ELSE [ByScale(cols, rows, newcols, cols) EXCEPT !.cols = newcols]

\* sqrt(newpixels / cols / rows), which is at most 1.
ByPixels(cols, rows, newpixels) ==
    LET side(n, m) == Max({k \in 0 .. n : k = 0 \/ (1000 * k - 999) * (1000 * k - 999) * m <= 1000000 * n * newpixels})
    IN [cols |-> side(cols, rows), rows |-> side(rows, cols),
        fixed |-> Max({k \in 0 .. SCALE : k * k * cols * rows <= SCALE * SCALE * newpixels})]

NewSizes(cols, rows, ask) ==
    CASE ask.newpixels > 0 /\ rows * cols <= ask.newpixels ->
           [cols |-> cols, rows |-> rows, fixed |-> SCALE]
      [] ask.newpixels > 0 /\ rows * cols > ask.newpixels -> ByPixels(cols, rows, ask.newpixels)
      [] ask.newpixels = 0 /\ ask.newrows < 1 -> ByScale(cols, rows, 1, -ask.newrows)
      [] OTHER -> ByBox(cols, rows, ask.newcols, ask.newrows)
-----------------------------------------------------------------------------
(* A row                                                                   *)

\* A pixel is full: its sum is divided and stored behind the ones before it.
Stored(x, v) == [x EXCEPT !.out = Append(@, (x.sum + v) \div SCALE)]
NextPixel(x) == IF x.needcol THEN [x EXCEPT !.sum = HALFSCALE] ELSE x

RECURSIVE Fill_NotCleared(_, _, _)
Fill_NotCleared(x, left, p) ==
    IF left >= x.tofill
    THEN LET y == Stored(x, x.tofill * p) IN
         Fill_NotCleared([y EXCEPT !.tofill = SCALE, !.needcol = TRUE], left - x.tofill, p)
    ELSE IF left > 0
    THEN LET y == NextPixel(x) IN
         [y EXCEPT !.needcol = FALSE, !.sum = @ + left * p, !.tofill = @ - left]
    ELSE x

RECURSIVE Fill(_, _, _)
\* The new pixels that one old pixel of value p fills.
Fill(x, left, p) ==
    IF left >= x.tofill
    THEN LET y == Stored(NextPixel(x), x.tofill * p) IN
         Fill([y EXCEPT !.tofill = SCALE, !.needcol = TRUE], left - x.tofill, p)
    ELSE IF left > 0
    THEN LET y == NextPixel(x) IN
         [y EXCEPT !.needcol = FALSE, !.sum = @ + left * p, !.tofill = @ - left]
    ELSE x

\* A pixel begun and not filled takes the rest from the last old pixel.
ScaleX(row, newcols, sxscale) ==
    IF newcols = Len(row) THEN row
    ELSE LET start == [out |-> << >>, sum |-> HALFSCALE, tofill |-> SCALE, needcol |-> FALSE]
             x == FoldLeft(LAMBDA acc, p : Fill(acc, sxscale, p), start, row)
         IN IF x.needcol THEN x.out ELSE Stored(x, x.tofill * Last(row)).out
-----------------------------------------------------------------------------
(* A column                                                                *)

\* Reading a row that there is; the last one is used again when none is left.
ReadRow(y, column) ==
    IF y.need /\ y.read < Len(column) THEN [y EXCEPT !.read = @ + 1, !.row = column[y.read + 1]] ELSE y

RECURSIVE Gather(_, _, _)
\* Whole rows, as long as they do not fill the new one.
Gather(y, syscale, column) ==
    IF y.left < y.tofill
    THEN LET z == ReadRow(y, column) IN
         Gather([z EXCEPT !.sum = @ + y.left * z.row, !.tofill = @ - y.left,
                          !.left = syscale, !.need = TRUE], syscale, column)
    ELSE y

ProduceRow(y, syscale, column) ==
    LET g == Gather(y, syscale, column)
        r == ReadRow(g, column)
        z == [r EXCEPT !.need = IF g.need /\ g.read < Len(column) THEN FALSE ELSE @]
        rest == z.left - z.tofill
    IN [z EXCEPT !.out = Append(@, (z.sum + z.tofill * z.row) \div SCALE), !.sum = HALFSCALE,
                 !.left = IF rest = 0 THEN syscale ELSE rest,
                 !.need = IF rest = 0 THEN TRUE ELSE @, !.tofill = SCALE]

ScaleY(column, newrows, syscale) ==
    IF newrows = Len(column) THEN column
    ELSE LET start == [out |-> << >>, sum |-> HALFSCALE, tofill |-> SCALE, left |-> syscale,
                      need |-> TRUE, read |-> 0, row |-> 0]
         IN FoldLeft(LAMBDA acc, i : ProduceRow(acc, syscale, column), start,
                     [i \in 1 .. newrows |-> i]).out
-----------------------------------------------------------------------------
VARIABLES line,         \* one component of a row, or of a column
          other,        \* the size of the image in the other direction
          ask           \* what is asked for

scaleVars == <<line, other, ask>>

Asks == [newrows : Sizes, newcols : Sizes, newpixels : {0}]
        \union [newrows : {-1, -2, -3}, newcols : {0}, newpixels : {0}]
        \union [newrows : {1}, newcols : {1}, newpixels : 1 .. MaxSize * MaxSize]

ScaleInit == line = << >> /\ other \in Sizes /\ ask \in Asks
Grow == /\ Len(line) < MaxSize
        /\ \E v \in Values : line' = Append(line, v)
        /\ UNCHANGED <<other, ask>>
ScaleNext == Grow
ScaleSpec == ScaleInit /\ [][ScaleNext]_scaleVars
-----------------------------------------------------------------------------
AsRow == NewSizes(Len(line), other, ask)
AsColumn == NewSizes(other, Len(line), ask)

Overlap(a, b, c, d) == Max({0, Min({b, d}) - Max({a, c})})

\* The weighted average of the old pixels under the new pixel i; the last old
\* pixel extends as far as needed.
Average(l, fixed, i) ==
    LET end(j) == IF j = Len(l) THEN Max({i * SCALE, j * fixed}) ELSE j * fixed
    IN (HALFSCALE + MapThenSumSet(LAMBDA j :
            Overlap((i - 1) * SCALE, i * SCALE, (j - 1) * fixed, end(j)) * l[j], DOMAIN l)) \div SCALE

Averages(l, new, fixed) == [i \in 1 .. new |-> Average(l, fixed, i)]

\* Scaling a row never writes behind the new row, and every pixel it writes is
\* the average of what it stands for; the new row is full when its last pixel
\* stands for some part of the old one in SCALE steps.
RowsAreScaled == line # << >> =>
    LET n == AsRow
        out == ScaleX(line, n.cols, n.fixed)
    IN n.cols # Len(line) =>
       /\ Len(out) <= n.cols
       /\ out = Averages(line, Len(out), n.fixed)
       /\ Len(line) * n.fixed > (n.cols - 1) * SCALE => Len(out) = n.cols

\* Scaling a column ends, with the same averages, when a row of the source is
\* worth a step of SCALE.
ColumnsAreScaled == line # << >> /\ AsColumn.fixed > 0 /\ AsColumn.rows # Len(line) =>
    ScaleY(line, AsColumn.rows, AsColumn.fixed) = Averages(line, AsColumn.rows, AsColumn.fixed)

\* The new image keeps inside the box it was asked to have, and fills it in
\* one direction.
SizesFit == line # << >> /\ ask.newpixels = 0 /\ ask.newrows > 0 =>
    /\ AsRow.cols \in 1 .. ask.newcols /\ AsRow.rows \in 1 .. ask.newrows
    /\ AsRow.cols = ask.newcols \/ AsRow.rows = ask.newrows

ImagesAreScaled == RowsAreScaled /\ ColumnsAreScaled /\ SizesFit

\* Refuted by the code: every pixel of a scaled row is written.  newcols is
\* rounded up from the exact scale and sxscale is rounded down, so the last
\* pixel of the row may be left as the allocation returned it.
RowsAreFull == line # << >> => Len(ScaleX(line, AsRow.cols, AsRow.fixed)) = AsRow.cols

\* Refuted by the code: no more pixels than were asked for.  Both sides are
\* rounded up.
PixelsAreLimited == line # << >> /\ ask.newpixels > 0 => AsRow.cols * AsRow.rows <= ask.newpixels
-----------------------------------------------------------------------------
(***************************************************************************)
(* The colours of a distilled GIF: ppmquant.c reduces the colours of the   *)
(* scaled image by median cut, ppmtogif.c makes the colour map of the file *)
(* from what is left.  The image is the number of pixels that each colour  *)
(* has.  Dithering is left out: ppmquant_main clears its argument floyd.   *)
(***************************************************************************)
CONSTANTS Palette,       \* the colours <<r, g, b>> an image can have
          MaxCount,     \* bound: pixels of one colour
          MaxValue,     \* 255
          MAXCOLORS,    \* 32767: colours of a histogram
          MapColors,    \* 256: colours of a colour map (MAXCOLORS of ppmtogif.c)
          NewColors     \* numbers of colours that are asked for

VARIABLES count,        \* pixels of each colour of the image
          now,          \* what these pixels have become
          maxval, boxes, newcolors,
          gray,         \* make_gray
          trans,        \* {} or the colour that is transparent
          phase,
          gif           \* the colour map written, its bits and transparent index

colorVars == <<count, now, maxval, boxes, newcolors, gray, trans, phase, gif>>

Black == <<0, 0, 0>>
Sum(f, S) == MapThenSumSet(LAMBDA c : f[c], S)
Present == {c \in Palette : count[c] > 0}

\* ppm_computecolorhist: the colours there are now, with their pixels.
Hist == {now[c] : c \in Present}
Value == [h \in Hist |-> Sum(count, {c \in Present : now[c] = h})]
NoGif == [version |-> 87, map |-> << >>, bits |-> 1, codesize |-> 2, transparent |-> -1]

ColorsInit ==
    /\ count \in [Palette -> 0 .. MaxCount]
    /\ \E c \in Palette : count[c] > 0
    /\ now = [c \in Palette |-> c]
    /\ maxval = MaxValue
    /\ boxes = {}
    /\ newcolors \in NewColors
    /\ gray \in BOOLEAN
    /\ trans \in {{}} \union {{c} : c \in Palette}
    /\ phase = "read"
    /\ gif = NoGif

\* The luminance, from the tables times77, times150 and times29.
Gray(p) == LET v == (77 * p[1] + 150 * p[2] + 29 * p[3]) \div 256 IN <<v, v, v>>

\* A negative bpp asks for grays.  The transparent colour is not converted.
MakeGray ==
    /\ phase = "read"
    /\ now' = IF gray THEN [c \in Palette |-> Gray(c)] ELSE now
    /\ phase' = "histogram"
    /\ UNCHANGED <<count, maxval, boxes, newcolors, gray, trans, gif>>
-----------------------------------------------------------------------------
(* ppmquant_main                                                           *)

\* PPM_DEPTH
Depth(p, new) == [i \in 1 .. 3 |-> (p[i] * new + maxval \div 2) \div maxval]

\* Too many colours for a histogram: fewer values of a component.
LowerMaxval ==
    /\ phase = "histogram"
    /\ Cardinality(Hist) > MAXCOLORS
    /\ now' = [c \in Palette |-> Depth(now[c], maxval \div 2)]
    /\ maxval' = maxval \div 2
    /\ UNCHANGED <<count, boxes, newcolors, gray, trans, phase, gif>>

\* The one box that mediancut starts from.
MakeHistogram ==
    /\ phase = "histogram"
    /\ Cardinality(Hist) <= MAXCOLORS
    /\ boxes' = {[colors |-> Hist, sum |-> Sum(count, Palette)]}
    /\ phase' = "cut"
    /\ UNCHANGED <<count, now, maxval, newcolors, gray, trans, gif>>

\* The orders that qsort may leave.
Sorted(S, key(_)) ==
    {s \in SetToSeqs(S) : \A i \in 1 .. Len(s) - 1 : key(s[i]) <= key(s[i + 1])}

Spread(S, i) == Max({p[i] : p \in S}) - Min({p[i] : p \in S})

\* The component that varies most, by luminosity (LARGE_LUM).
Largest(S) ==
    LET rl == 299 * Spread(S, 1)
        gl == 587 * Spread(S, 2)
        bl == 114 * Spread(S, 3)
    IN IF rl >= gl /\ rl >= bl THEN 1 ELSE IF gl >= bl THEN 2 ELSE 3

Firsts(s, k) == {s[j] : j \in 1 .. k}

\* How many colours of the sorted box make up half of its pixels.
Median(s, sm) == Min({k \in 1 .. Len(s) - 1 :
                        k = Len(s) - 1 \/ Sum(Value, Firsts(s, k)) >= sm \div 2})

SplitBox_Half(b, s) ==
    LET lower == Firsts(s, Median(s, b.sum))
    IN {[colors |-> lower, sum |-> b.sum \div 2],
        [colors |-> b.colors \ lower, sum |-> b.sum - b.sum \div 2]}

SplitBox(b, s) ==
    LET lower == Firsts(s, Median(s, b.sum))
        lowersum == Sum(Value, lower)
    IN {[colors |-> lower, sum |-> lowersum],
        [colors |-> b.colors \ lower, sum |-> b.sum - lowersum]}

Splittable == {b \in boxes : Cardinality(b.colors) >= 2}

\* The first splittable box; the biggest boxes are at the top.
Split ==
    /\ phase = "cut"
    /\ Cardinality(boxes) < newcolors
    /\ \E b \in Splittable :
         /\ \A d \in Splittable : d.sum <= b.sum
         /\ \E s \in Sorted(b.colors, LAMBDA p : p[Largest(b.colors)]) :
              boxes' = (boxes \ {b}) \union SplitBox(b, s)
    /\ UNCHANGED <<count, now, maxval, newcolors, gray, trans, phase, gif>>

\* The average of the pixels of the box (REP_AVERAGE_PIXELS).
Representative(b) ==
    LET avg(i) == MapThenSumSet(LAMBDA p : p[i] * Value[p], b.colors) \div Sum(Value, b.colors)
    IN [i \in 1 .. 3 |-> Min({avg(i), maxval})]

\* mediancut's colour map: a colour for each box, and black for the entries
\* that no box was left for.
ColorMap(order) ==
    [i \in 1 .. newcolors |-> IF i <= Len(order) THEN Representative(order[i]) ELSE Black]

Distance(p, q) == MapThenSumSet(LAMBDA i : (p[i] - q[i]) * (p[i] - q[i]), 1 .. 3)

\* The first entry of a map with the least distance to p.
Closest(map, p) ==
    Min({i \in DOMAIN map : \A j \in DOMAIN map : Distance(map[i], p) <= Distance(map[j], p)})

\* transcolorpixel, which is black for an image without a transparent colour.
Kept == IF trans = {} THEN {Black} ELSE trans

\* The pixels that are not of the colour transcolorpixel take their new ones.
MapPixels ==
    /\ phase = "cut"
    /\ Cardinality(boxes) >= newcolors \/ Splittable = {}
    /\ \E order \in Sorted(boxes, LAMBDA b : -b.sum) :
         LET map == ColorMap(order) IN
         now' = [c \in Palette |-> IF count[c] = 0 \/ now[c] \in Kept THEN now[c]
                                  ELSE map[Closest(map, now[c])]]
    /\ phase' = "quantized"
    /\ UNCHANGED <<count, maxval, boxes, newcolors, gray, trans, gif>>
-----------------------------------------------------------------------------
(* ppmtogif_main                                                           *)

colorstobpp(n) == Min({b \in 1 .. n + 1 : n <= 2 ^ b})

Lookup(map, p) == CHOOSE i \in DOMAIN map : map[i] = p

\* The index of the transparent colour.  The caller passes 0 for an image that
\* has none.
TransparentIndex(map) ==
    IF trans = {} THEN 0
    ELSE LET t == CHOOSE c \in trans : TRUE IN
         (IF t \in ToSet(map) THEN Lookup(map, t) ELSE Closest(map, t)) - 1

\* The file: its colour map has 2 ^ bits entries, those behind the colours of
\* the image left over from images before; the data starts with codes of
\* codesize + 1 bits.
GIFEncode(map, transparent) ==
    LET bits == colorstobpp(Len(map)) IN
    [version |-> IF transparent < 0 THEN 87 ELSE 89, map |-> map, bits |-> bits,
     codesize |-> IF bits <= 1 THEN 2 ELSE bits, transparent |-> transparent]

\* The histogram, in the order of its hash table, is the colour map.  With too
\* many colours pm_error ends the distiller.
Encode ==
    /\ phase = "quantized"
    /\ IF Cardinality(Hist) > MapColors THEN phase' = "error" /\ UNCHANGED gif
       ELSE /\ \E map \in SetToSeqs(Hist) :
                 gif' = GIFEncode(map, TransparentIndex(map))
            /\ phase' = "done"
    /\ UNCHANGED <<count, now, maxval, boxes, newcolors, gray, trans>>

ColorsNext == MakeGray \/ LowerMaxval \/ MakeHistogram \/ Split \/ MapPixels \/ Encode

ColorsSpec == ColorsInit /\ [][ColorsNext]_colorVars
-----------------------------------------------------------------------------
\* GetPixel: the index that a pixel of colour c is written with.
Index(c) == Lookup(gif.map, now[c]) - 1
Shown(c) == gif.map[Index(c) + 1]

\* mediancut: the boxes share out the colours of the histogram, each knows how
\* many pixels it has, and there are never more of them than colours asked for.
BoxesShareTheColors == phase = "cut" =>
    /\ UNION {b.colors : b \in boxes} = Hist
    /\ \A b \in boxes : b.colors # {} /\ b.sum = Sum(Value, b.colors)
    /\ \A b, d \in boxes : b # d => b.colors \intersect d.colors = {}
    /\ Cardinality(boxes) \in 1 .. newcolors

\* An image with no more colours than were asked for comes out as it was, or
\* in its grays, and no image comes out with more, aside from the colour that
\* is not mapped: the transparent one, and black if there is none.
ColorsAsAsked == phase = "done" =>
    /\ Cardinality(Hist \ Kept) <= newcolors
    /\ Cardinality(Present) <= newcolors /\ Cardinality(Present) <= MAXCOLORS =>
         \A c \in Present : Shown(c) = IF gray THEN Gray(c) ELSE c

\* Every index is one of the colour map and below the clear code, and the
\* pixels of the transparent colour are transparent as long as no component
\* was lowered and no grays were made.
TransparentStays == phase = "done" =>
    /\ gif.codesize >= gif.bits
    /\ \A c \in Present : Index(c) < 2 ^ gif.bits
    /\ gif.transparent < 2 ^ gif.bits
    /\ maxval = MaxValue /\ ~gray =>
         \A c \in Present \intersect trans : Index(c) = gif.transparent

ColorsAreReduced == BoxesShareTheColors /\ ColorsAsAsked /\ TransparentStays

\* Refuted by the code ("int transparent (nonzero=yes)"): an image without a
\* transparent colour has none in the file.  GIFEncode writes the extension for
\* every index that is not negative, and 0 is passed.
OpaqueKeepsColor == phase = "done" /\ trans = {} => \A c \in Present : Index(c) # gif.transparent

\* Refuted by the code: the colours that are written mean what they meant.
\* After LowerMaxval the file still claims components up to 255.
BrightnessStays == phase = "done" => maxval = MaxValue

\* Refuted by the code: the pixels of the transparent colour, and no others,
\* are transparent in an image of grays.  They become gray, the transparent
\* colour does not, and the gray closest to it is made transparent instead.
GrayStaysTransparent == phase = "done" /\ gray /\ trans # {} /\ maxval = MaxValue =>
    \A c \in Present : Index(c) = gif.transparent <=> c \in trans

\* Refuted by the code: no more colours than were asked for.
ColorsLimited == phase = "done" => Cardinality(Hist) <= newcolors
=============================================================================
