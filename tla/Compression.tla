---------------------------- MODULE Compression ----------------------------
(***************************************************************************)
(* Three encodings with their decoders: LZW codes of GIF, the order of     *)
(* interlaced rows, and the compression of Palm documents.                 *)
(***************************************************************************)
EXTENDS Integers, Sequences, SequencesExt
-----------------------------------------------------------------------------
(***************************************************************************)
(* LZW compression of the GIF distiller: compress and output of            *)
(* gif_munger/src/ppmtogif.c against the two readers of the system,        *)
(* LWZReadByte of giftopnm.c (dec) and LZWReadByte of giftojpg_munger's    *)
(* gj_mem_src_dst_mgr.c (gj).  Writer and reader meet only in the stream   *)
(* of codes: each must know by itself how wide the next code is, what      *)
(* every code stands for, and when the table starts afresh.                *)
(*                                                                         *)
(* The encoder takes one pixel at a time; the codes it puts out are read   *)
(* at once.  A code travels with the width it was written in: a reader     *)
(* that expects another width is lost.  The hash table is the relation it  *)
(* implements, with one of its habits: the pair of two zeros hashes to 0,  *)
(* which a later collision takes for an empty slot.                        *)
(***************************************************************************)
CONSTANTS
    InitCodeSize,   \* bits of a pixel
    BITS,           \* bits of the widest code
    Pixels,         \* values of pixels that occur
    Leads,          \* how an image may begin: sequences of pixels
    MaxPixels       \* bound on the pixels after the beginning

ClearCode == 2 ^ InitCodeSize
EOFCode == ClearCode + 1
MAXCODE(n) == 2 ^ n - 1

VARIABLES
    enc,        \* static variables of the encoder
    dec, gj,    \* state of the two readers, and if they are lost
    pending,    \* for each reader, pixels put in and not yet got back
    lead,       \* how this image begins
    taken       \* pixels put in

lzwVars == <<enc, dec, gj, pending, lead, taken>>

LzwInit ==
    /\ enc = [started |-> FALSE, done |-> FALSE, dict |-> {}, free |-> ClearCode + 2,
              nbits |-> InitCodeSize + 1, maxcode |-> MAXCODE(InitCodeSize + 1),
              clear |-> FALSE, ent |-> 0]
    /\ dec = [mode |-> "fresh", size |-> InitCodeSize + 1, maxsize |-> 2 * ClearCode,
              max |-> ClearCode + 2, first |-> 0, old |-> 0, table |-> <<>>, lost |-> FALSE]
    /\ gj = [mode |-> "clear", size |-> InitCodeSize + 1, limit |-> 2 * ClearCode,
             max |-> ClearCode + 2, first |-> 0, old |-> 0, table |-> <<>>, lost |-> FALSE]
    /\ pending = [dec |-> <<>>, gj |-> <<>>]
    /\ lead \in Leads
    /\ taken = 0
-----------------------------------------------------------------------------
(* The encoder.  A result is the encoder's state and the codes put out.    *)

\* output: the code, then the width of the next
NextWidth_Late(e) ==
    IF e.clear
      THEN [e EXCEPT !.nbits = InitCodeSize + 1, !.maxcode = MAXCODE(InitCodeSize + 1),
                     !.clear = FALSE]
    ELSE IF e.free > e.maxcode + 1
      THEN [e EXCEPT !.nbits = @ + 1,
                     !.maxcode = IF e.nbits + 1 = BITS THEN 2 ^ BITS ELSE MAXCODE(e.nbits + 1)]
    ELSE e
NextWidth(e) ==
    IF e.clear
      THEN [e EXCEPT !.nbits = InitCodeSize + 1, !.maxcode = MAXCODE(InitCodeSize + 1),
                     !.clear = FALSE]
    ELSE IF e.free > e.maxcode
      THEN [e EXCEPT !.nbits = @ + 1,
                     !.maxcode = IF e.nbits + 1 = BITS THEN 2 ^ BITS ELSE MAXCODE(e.nbits + 1)]
    ELSE e

Output(r, code) ==
    [enc |-> NextWidth(r.enc),
     codes |-> Append(r.codes, [code |-> code, width |-> r.enc.nbits])]

\* cl_block
Cleared(r) ==
    Output([r EXCEPT !.enc.dict = {}, !.enc.free = ClearCode + 2, !.enc.clear = TRUE],
           ClearCode)

\* The pair that a collision may overwrite
Zeros == {d \in enc.dict : d.prefix = 0 /\ d.pixel = 0}

\* compress, for one more pixel; gone is what its hash slot held before
Compressed(c, gone) ==
    LET r == [enc |-> enc, codes |-> <<>>]
        hits == {d \in enc.dict : d.prefix = enc.ent /\ d.pixel = c}
        out == Output(r, enc.ent)
        e == out.enc
    IN  IF ~enc.started
          THEN Output([r EXCEPT !.enc.started = TRUE, !.enc.ent = c], ClearCode)
        ELSE IF hits # {}
          THEN [r EXCEPT !.enc.ent = (CHOOSE d \in hits : TRUE).code]
        ELSE IF e.free < 2 ^ BITS
          THEN [out EXCEPT !.enc.ent = c, !.enc.free = @ + 1,
                  !.enc.dict = (@ \ gone) \cup
                     {[prefix |-> enc.ent, pixel |-> c, code |-> e.free]}]
        ELSE Cleared([out EXCEPT !.enc.ent = c])

\* compress, at the end of the image: what is left, and the end code
Finished_Short ==
    Output([enc |-> [enc EXCEPT !.done = TRUE], codes |-> <<>>], EOFCode)
Finished ==
    Output(Output([enc |-> [enc EXCEPT !.done = TRUE], codes |-> <<>>], enc.ent), EOFCode)
-----------------------------------------------------------------------------
(* The readers.  A result is the reader's state and the pixels.            *)

\* The pixels a code stands for, by the table of prefixes and last pixels
RECURSIVE StringOf(_, _)
StringOf(d, code) ==
    IF code < ClearCode THEN <<code>>
    ELSE Append(StringOf(d, d.table[code - ClearCode - 1].prefix),
                d.table[code - ClearCode - 1].pixel)

\* A code not yet in the table is the one about to get there.
Expanded(d, code) ==
    IF code < d.max THEN StringOf(d, code) ELSE Append(StringOf(d, d.old), d.first)

Entry(d, first) == Append(d.table, [prefix |-> d.old, pixel |-> first])

\* GetCode takes as many bits as the reader believes a code to have: it gets
\* the code that was written only if that is the width it was written in.
GetCode(d, w) == ~d.lost /\ w.width = d.size

\* LWZReadByte: the table gets an entry for the code before and the first
\* pixel of this one, and codes grow wider when it is half full.
Learned(d, first) ==
    LET room == d.max < 2 ^ BITS
        wider == room /\ d.max + 1 >= d.maxsize /\ d.maxsize < 2 ^ BITS
    IN  [d EXCEPT !.table = IF room THEN Entry(d, first) ELSE @,
                  !.max = IF room THEN @ + 1 ELSE @,
                  !.maxsize = IF wider THEN 2 * @ ELSE @,
                  !.size = IF wider THEN @ + 1 ELSE @]

\* LWZReadByte and GetCode: one code, and the pixels it stands for.  The
\* code after a clear code is taken for a pixel whatever it is.
LWZRead(r, w) ==
    LET d == r.dec
        string == Expanded(d, w.code)
    IN  IF ~GetCode(d, w) THEN [r EXCEPT !.dec.lost = TRUE]
        ELSE IF d.mode = "fresh" /\ w.code = ClearCode THEN r
        ELSE IF d.mode \in {"fresh", "first"}
          THEN [dec |-> [d EXCEPT !.mode = "run", !.first = w.code, !.old = w.code],
                pixels |-> Append(r.pixels, w.code)]
        ELSE IF w.code = ClearCode
          THEN [r EXCEPT !.dec = [d EXCEPT !.mode = "first", !.size = InitCodeSize + 1,
                                           !.maxsize = 2 * ClearCode,
                                           !.max = ClearCode + 2, !.table = <<>>]]
        ELSE IF w.code = EOFCode THEN [r EXCEPT !.dec.mode = "end"]
        ELSE [dec |-> [Learned(d, string[1]) EXCEPT !.first = string[1], !.old = w.code],
              pixels |-> r.pixels \o string]

\* ReInitLZW
ReInitLZW(d) ==
    [d EXCEPT !.mode = "clear", !.size = InitCodeSize + 1, !.limit = 2 * ClearCode,
              !.max = ClearCode + 2, !.table = <<>>]

\* LZWReadByte and GetCode of the JPEG side: clear codes are swallowed, a
\* code beyond the table is taken for the next one, the end gives zeros.
LZWRead(r, w) ==
    LET d == r.dec
        string == Expanded(d, w.code)
        room == d.max < 2 ^ BITS
        wider == room /\ d.max + 1 >= d.limit /\ d.size < BITS
        raw == IF w.code > ClearCode THEN 0 ELSE w.code
    IN  IF ~GetCode(d, w) THEN [r EXCEPT !.dec.lost = TRUE]
        ELSE IF w.code = ClearCode THEN [r EXCEPT !.dec = ReInitLZW(d)]
        ELSE IF d.mode = "clear"
          THEN [dec |-> [d EXCEPT !.mode = "run", !.first = raw, !.old = raw],
                pixels |-> Append(r.pixels, raw)]
        ELSE IF w.code = EOFCode THEN [r EXCEPT !.dec.mode = "end"]
        ELSE [dec |-> [d EXCEPT !.table = IF room THEN Entry(d, string[1]) ELSE @,
                                !.max = IF room THEN @ + 1 ELSE @,
                                !.limit = IF wider THEN 2 * @ ELSE @,
                                !.size = IF wider THEN @ + 1 ELSE @,
                                !.first = string[1],
                                !.old = IF w.code > d.max THEN 0 ELSE w.code],
              pixels |-> r.pixels \o string]
-----------------------------------------------------------------------------
\* What a reader gives back comes off what was put in.
Left(got, all) ==
    IF IsPrefix(got, all) THEN SubSeq(all, Len(got) + 1, Len(all)) ELSE <<>>

Transmit(r, put) ==
    LET a == FoldLeft(LWZRead, [dec |-> dec, pixels |-> <<>>], r.codes)
        b == FoldLeft(LZWRead, [dec |-> gj, pixels |-> <<>>], r.codes)
    IN  /\ enc' = r.enc
        /\ dec' = [a.dec EXCEPT !.lost = @ \/ ~IsPrefix(a.pixels, pending.dec \o put)]
        /\ gj' = [b.dec EXCEPT !.lost = @ \/ ~IsPrefix(b.pixels, pending.gj \o put)]
        /\ pending' = [dec |-> Left(a.pixels, pending.dec \o put),
                       gj |-> Left(b.pixels, pending.gj \o put)]
        /\ UNCHANGED lead

Put(c) ==
    /\ ~enc.done /\ taken < Len(lead) + MaxPixels
    /\ taken < Len(lead) => c = lead[taken + 1]
    /\ taken' = taken + 1
    /\ \E gone \in {{}, Zeros} : Transmit(Compressed(c, gone), <<c>>)

Finish ==
    /\ enc.started /\ ~enc.done
    /\ Transmit(Finished, <<>>)
    /\ UNCHANGED taken

LzwNext == Finish \/ \E c \in Pixels : Put(c)

LzwSpec == LzwInit /\ [][LzwNext]_lzwVars
-----------------------------------------------------------------------------
\* Both readers stay in step with the writer through every change of width
\* and every clearing of the table: no image comes back as another one.
NeverLost == ~dec.lost /\ ~gj.lost

\* At the end code all pixels have come back.
AllComesBack ==
    enc.done => /\ pending = [dec |-> <<>>, gj |-> <<>>]
                /\ dec.mode = "end" /\ gj.mode = "end"
-----------------------------------------------------------------------------
(***************************************************************************)
(* The order of the rows of an interlaced GIF: BumpPixel of                *)
(* gif_munger/src/ppmtogif.c writes them, ReadImage of giftopnm.c puts     *)
(* them back one by one, and the JPEG side (load_interlaced_image and      *)
(* get_interlaced_row of gj_mem_src_dst_mgr.c) keeps them as they come     *)
(* and works out, row by row, where each one is.                           *)
(*                                                                         *)
(* A step is a row.  An image of two, three or four rows has no row in     *)
(* the second pass; both ends of the GIF side start that pass at row 4     *)
(* without looking, and get such an image wrong (see Small).               *)
(***************************************************************************)
CONSTANT Heights

VARIABLES
    height,
    cury, Pass,         \* the writer
    sent,               \* rows in the order they were written
    ypos, pass, fini,   \* the reader
    put                 \* rows in the order the reader placed them

rowVars == <<height, cury, Pass, sent, ypos, pass, fini, put>>

RowInit ==
    /\ height \in Heights
    /\ cury = 0 /\ Pass = 0 /\ sent = <<>>
    /\ ypos = 0 /\ pass = 0 /\ fini = FALSE /\ put = <<>>

\* BumpPixel at the end of a scan line
Bumped_Shifted(y, p) ==
    LET step == CASE p \in {0, 1} -> 8 [] p = 2 -> 4 [] OTHER -> 2
        wrapped == p < 3 /\ y + step > height
        first == CASE p = 0 -> 4 [] p = 1 -> 2 [] OTHER -> 1
    IN  [y |-> IF wrapped THEN first ELSE y + step, p |-> IF wrapped THEN p + 1 ELSE p]
Bumped(y, p) ==
    LET step == CASE p \in {0, 1} -> 8 [] p = 2 -> 4 [] OTHER -> 2
        wrapped == p < 3 /\ y + step >= height
        first == CASE p = 0 -> 4 [] p = 1 -> 2 [] OTHER -> 1
    IN  [y |-> IF wrapped THEN first ELSE y + step, p |-> IF wrapped THEN p + 1 ELSE p]

\* ReadImage at the end of a row: the place of the next, or the end
ReadImage ==
    LET step == CASE pass \in {0, 1} -> 8 [] pass = 2 -> 4 [] OTHER -> 2
        beyond == ypos + step >= height
        next == CASE ~beyond -> ypos + step
                  [] beyond /\ pass = 0 -> 4
                  [] beyond /\ pass = 1 -> 2
                  [] OTHER -> 1
    IN  IF fini THEN UNCHANGED <<ypos, pass, fini, put>>
        ELSE /\ put' = Append(put, ypos)
             /\ pass' = IF beyond THEN pass + 1 ELSE pass
             /\ fini' = (pass' = 4 \/ next >= height)
             /\ ypos' = next

\* GIFNextPixel: as many rows as the image has
Row ==
    /\ Len(sent) < height
    /\ sent' = Append(sent, cury)
    /\ cury' = Bumped(cury, Pass).y
    /\ Pass' = Bumped(cury, Pass).p
    /\ ReadImage
    /\ UNCHANGED height

RowNext == Row

RowSpec == RowInit /\ [][RowNext]_rowVars

\* load_interlaced_image and get_interlaced_row: where row r was stored
pass2_offset == (height + 7) \div 8
pass3_offset == pass2_offset + (height + 3) \div 8
pass4_offset == pass3_offset + (height + 1) \div 4
irow_Fourth(r) ==
    CASE r % 8 = 0 -> r \div 8
      [] r % 8 = 4 -> r \div 8 + pass2_offset
      [] r % 8 \in {2, 6} -> r \div 4 + pass3_offset
      [] OTHER -> (r + 1) \div 2 + pass4_offset
irow(r) ==
    CASE r % 8 = 0 -> r \div 8
      [] r % 8 = 4 -> r \div 8 + pass2_offset
      [] r % 8 \in {2, 6} -> r \div 4 + pass3_offset
      [] OTHER -> r \div 2 + pass4_offset
-----------------------------------------------------------------------------
\* BumpPixel writes row 4 of these, ReadImage stops after the first row.
Small == height \in 2..4

\* Every row is put where it came from, by the reader that follows the
\* passes, in every image but the small ones.
RowsInPlace == ~Small => put = sent

\* The JPEG side finds every row of a finished image that is not small, so
\* that no row was left out and none was written twice.
RowsFound ==
    ~Small /\ Len(sent) = height =>
      \A r \in 0..(height - 1) : irow(r) < height /\ sent[irow(r) + 1] = r
-----------------------------------------------------------------------------
(***************************************************************************)
(* Compression of one record of text by the text2doc distiller:            *)
(* compressbuf, Issue and memfind of text2doc/src/text2doc.c, against a    *)
(* reader of the Doc format (Expanded), which is the reading program on    *)
(* the hand-held and no part of the repository.                            *)
(*                                                                         *)
(* A step is one pass of the loop, which takes one more character into     *)
(* the string to be matched.  Pointers are indices from 0; a byte is a     *)
(* number.  The window and the longest run are 2^DISP_BITS - 1 and         *)
(* 2^COUNT_BITS + 2 as in the code, with smaller exponents.                *)
(***************************************************************************)
CONSTANTS
    Texts,                  \* the records to compress: sequences of bytes
    OutSize,                \* 6000 for records of up to 4096: the size of outbuf
    DISP_BITS, COUNT_BITS

Space == 32

VARIABLES
    text, pPrevHit, pTestHead, pTestTail, bSpace,
    outbuf,        \* the compressed record
    merged      \* the final scan is done

docVars == <<text, pPrevHit, pTestHead, pTestTail, bSpace, outbuf, merged>>

DocInit ==
    /\ text \in Texts
    /\ pPrevHit = 0 /\ pTestHead = 0 /\ pTestTail = 1
    /\ bSpace = FALSE /\ outbuf = <<>> /\ merged = FALSE
-----------------------------------------------------------------------------
\* Most bytes stand for themselves; the others follow a mark.
Plain(c) == c < 128 /\ (c = 0 \/ c > 8)
Coded(c) == IF Plain(c) THEN <<c>> ELSE <<1, c>>

\* Issue: what is put out for one character
Issued(c) ==
    CASE bSpace /\ c \in 64..127 -> <<c + 128>>
      [] bSpace /\ c \notin 64..127 -> <<Space>> \o Coded(c)
      [] ~bSpace /\ c = Space -> <<>>
      [] OTHER -> Coded(c)

\* memfind of [head, tail) in [from, tail): the first place, or -1
Hits(from) ==
    {p \in from..pTestHead :
        \A k \in 0..(pTestTail - pTestHead - 1) : text[p + k + 1] = text[pTestHead + k + 1]}
memfind(from) ==
    IF Hits(from) = {} THEN -1 ELSE CHOOSE p \in Hits(from) : \A q \in Hits(from) : p <= q

From ==
    IF pTestHead - pPrevHit > 2 ^ DISP_BITS - 1
      THEN pTestHead - (2 ^ DISP_BITS - 1) ELSE pPrevHit

\* The two bytes of a run: how far back and how long
Run_CountsAll(dist, len) ==
    LET compound == dist * 2 ^ COUNT_BITS + len - 3
    IN  <<128 + compound \div 256, compound % 256>>
Run(dist, len) ==
    LET compound == dist * 2 ^ COUNT_BITS + len - 4
    IN  <<128 + compound \div 256, compound % 256>>

\* More was written than outbuf holds: nothing is known of what follows.
Overrun == Len(outbuf) > OutSize

\* compressbuf, one pass of its loop
Literal ==
    LET pEnd == Len(text)
        from == From
        pHit == memfind(from)
        len == pTestTail - pTestHead
        ends == pHit = pTestHead \/ pHit = -1 \/ len > 2 ^ COUNT_BITS + 2 \/ pTestTail = pEnd
        short == ends /\ len < 4
        long == ends /\ len >= 4
        c == text[pTestHead + 1]
    IN  /\ pTestHead # pEnd /\ ~merged /\ ~Overrun
        /\ outbuf' = CASE short -> outbuf \o Issued(c)
                    [] long -> outbuf \o (IF bSpace THEN <<Space>> ELSE <<>>)
                                   \o Run(pTestHead - from, len)
                    [] OTHER -> outbuf
        /\ bSpace' = CASE short -> ~bSpace /\ c = Space
                       [] long -> FALSE
                       [] OTHER -> bSpace
        /\ pTestHead' = CASE short -> pTestHead + 1
                          [] long -> pTestTail - 1
                          [] OTHER -> pTestHead
        /\ pPrevHit' = IF ends THEN 0 ELSE pHit
        /\ pTestTail' = IF pTestTail = pEnd THEN pTestTail ELSE pTestTail + 1
        /\ UNCHANGED <<text, merged>>
-----------------------------------------------------------------------------
\* The final scan: marked bytes that follow each other share one mark.
Marked(s, i, n) ==     \* n marked bytes from position i
    \A k \in 0..(n - 1) : i + 2 * k + 1 <= Len(s) /\ s[i + 2 * k] = 1

RECURSIVE Merged(_, _)
Merged(s, i) ==
    IF i > Len(s) THEN <<>>
    ELSE IF s[i] \in 128..191 THEN <<s[i], s[i + 1]>> \o Merged(s, i + 2)
    ELSE IF s[i] # 1 THEN <<s[i]>> \o Merged(s, i + 1)
    ELSE LET n == CHOOSE n \in 1..8 : Marked(s, i, n) /\ (n = 8 \/ ~Marked(s, i, n + 1))
         IN  <<n>> \o [k \in 1..n |-> s[i + 2 * k - 1]] \o Merged(s, i + 2 * n)

Merge ==
    /\ pTestHead = Len(text) /\ ~merged /\ ~Overrun
    /\ outbuf' = Merged(outbuf \o (IF bSpace THEN <<Space>> ELSE <<>>), 1)
    /\ merged' = TRUE /\ bSpace' = FALSE
    /\ UNCHANGED <<text, pPrevHit, pTestHead, pTestTail>>

DocNext == Literal \/ Merge

DocSpec == DocInit /\ [][DocNext]_docVars
-----------------------------------------------------------------------------
(* The reading program.                                                    *)

RECURSIVE Copied(_, _, _)
Copied(done, dist, n) ==
    IF n = 0 THEN done
    ELSE Copied(Append(done, done[Len(done) - dist + 1]), dist, n - 1)

RECURSIVE DocExpanded(_, _, _)
DocExpanded(s, i, done) ==
    IF i > Len(s) THEN done
    ELSE LET b == s[i]
             compound == (b - 128) * 256 + s[i + 1]
         IN  IF b \in 1..8 THEN DocExpanded(s, i + b + 1, done \o SubSeq(s, i + 1, i + b))
             ELSE IF b \in 128..191
               THEN DocExpanded(s, i + 2, Copied(done, compound \div 2 ^ COUNT_BITS,
                                              (compound % 2 ^ COUNT_BITS) + 3))
             ELSE IF b >= 192 THEN DocExpanded(s, i + 1, done \o <<Space, b - 128>>)
             ELSE DocExpanded(s, i + 1, Append(done, b))

\* Refuted by the code: a compressed record fits the memory for it.
RecordsFit == ~Overrun

\* The text put out so far reads as the text taken in so far, up to a space
\* that may still be joined with a letter; so does the merged record.
ReadsBack ==
    DocExpanded(outbuf, 1, <<>>) \o (IF bSpace THEN <<Space>> ELSE <<>>)
      = SubSeq(text, 1, pTestHead)
=============================================================================
