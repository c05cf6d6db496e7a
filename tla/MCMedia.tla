------------------------------ MODULE MCMedia -------------------------------
(***************************************************************************)
(* The distillers' algorithms on pictures, pages and texts, for TLC in one *)
(* run.  They share no state.  Init chooses the part that is run; it uses  *)
(* as many of the slots s1 .. s12 as it has variables, and the slots left  *)
(* are zero.  The lexer (SgmlLexer) keeps its own variables, which stay as *)
(* they are while another part is run.                                     *)
(***************************************************************************)
EXTENDS SgmlLexer

\* Images that begin with all pairs, so that the table soon is full
Beginnings == {<< >>, <<0, 0, 1, 0, 2, 1, 1, 2, 2>>, <<3, 0, 1, 2, 3, 1, 0, 2, 0, 3>>}

\* Spaces, letters, marked bytes; repetitions that overlap, and long ones
DocRecords == UNION {[1 .. n -> {32, 97, 200}] : n \in 0 .. 5}
               \cup UNION {[1 .. n -> {46, 97}] : n \in 8 .. 9}
               \cup {<<97, 32, 97, 32, 97, 32>> \o t : t \in [1 .. 4 -> {97, 32}]}
               \cup {[k \in 1 .. 9 |-> 3], [k \in 1 .. 9 |-> 200 + k], [k \in 1 .. 6 |-> k]}

\* Codes as their bits, of all widths
BitCodes == {<<1, 0>>, <<1, 1>>, <<1, 1, 1>>, <<0, 1, 1, 1>>, <<1, 0, 0, 1, 1>>}

\* Arguments for the columns of a picture of four greys
ColumnRequests == {<< >>, <<<<"xsize", 1>>>>, <<<<"xsize", 3>>, <<"scale", 50>>>>}

SomeColors == {<<0, 0, 0>>, <<3, 0, 0>>, <<2, 3, 0>>, <<0, 1, 3>>, <<1, 1, 1>>}

GifRequests == {<<"quality", 1>>, <<"quality", 3>>, <<"mode", -3>>, <<"mode", 3>>,
                <<"bpp", -1>>, <<"newx", 2>>}

\* Documents: "n" is a newline, "Q" and "A" are quotes, "a" a letter, "1" a digit
PlainDocument == <<"a", "n", "1", " ", "n", "a">>
Documents ==
    {<<"a", "<", "a", " ", "a", "=", "Q", ">", "Q", ">", "a">>,
     <<"<", "/", "a", " ", ">", "&", "a", ";", "a", "n">>,
     <<"<", "!", "-", "-", "a", "-", "-", ">", "<", "!", "a", " ", "a", ">">>,
     <<"<", "a", "=", ">", "<", ">", "a", "<", "1">>,
     <<"<", "a", "n", "a", "n", "=", "1", "/", "<", "a", "<">>,
     <<"&", "#", "1", "a", ";", "<", "/", ">", "<", "!", "[", "a", "]", "]", ">">>,
     <<"<", "a", " ", "a", "=", "a", "=", "a", ">", "<", "?", "a", ">", "]", "]", ">">>,
     PlainDocument,
     <<"<", "!", "a", " ", "[", "a", "]", ">", "<", "!", ">", "&", "#", "a", ";">>,
     <<"<", "a", " ", "a", "=", "Q", "a", "=", "Q", ">", "a">>,
     <<"<", "!", "a", " ", "%", "a", ";", "1", " ", "A", "a", "A", "-", ">">>,
     <<"<", "a", " ", "a", "=", "Q", ">", "=", "Q", " ", "!", ">">>,
     <<"<", "a", " ", "a", "=", "A", ">", "Q", "A", " ", ">", "a", "A">>,
     <<"&", "#", "1", ";", "&", "#", "1", "<", "a", "<">>,
     <<"<", "a", " ", "a", "=", "Q", "n", "a", ">">>}

\* Urls with the characters that mark arguments, and arguments to add
MarkedUrls == UNION {[1 .. n -> {"u", "*", "^", "?"}] : n \in 1 .. 4}
               \cup {<<"u", "*", "^", "i", "1", "=", "7", "^", "?", "u">>}
UrlArg(t, i, v) == [type |-> t, id |-> i, value |-> v]
UrlArgs == {<< >>, <<UrlArg("i", "1", <<"7">>)>>,
            <<UrlArg("s", "2", <<"u", "u">>), UrlArg("f", "3", <<"1", "5", "5">>)>>,
            <<UrlArg("s", "2", <<"u", "*">>)>>, <<UrlArg("s", "4", <<"s">>)>>}

\* Pages as the events of the lexer: tags, attributes, and text
Event(t, x) == [type |-> t, text |-> x]
Text(t, x) == <<Event(t, <<x>>)>>
Tag(n, attrs) ==
    <<Event(IF n \in {"</A", "</HEAD", "</HEADER"} THEN "END" ELSE "START", <<n>>)>>
    \o attrs \o <<Event("TAGC", <<">">>)>>
Attr(n, v) == <<Event("ATTRNAME", <<n>>), Event("LITERAL", v)>>
Bare(n) == <<Event("ATTRNAME", << >>), Event("NAME", <<n>>)>>
Image(u) == Tag("<IMG", Attr("src", <<"Q", u, "Q", " ">>))
Link == Tag("<A", Attr("href", <<"u">>))
Anchor == Tag("<A", Attr("name", <<"u">>))
Pages ==
    {<<Tag("</HEAD", << >>), Tag("<BODY", << >>), Image("g1"), Link, Image("g2"),
       Tag("</A", << >>)>>,
     <<Link, Image("g3")>>,
     <<Tag("<P", << >>), Tag("</A", Bare("norefine")), Text("DATA", "d"),
       Text("NUMCHARREF", "#")>>,
     <<Tag("<P", << >>), Tag("</HEAD", << >>), Anchor,
       Tag("<IMG", Attr("src", <<" ", "Q", "g4", "Q">>) \o Bare("ismap") \o Attr("width", <<"9">>)),
       Tag("</A", << >>)>>,
     <<Tag("<FRAMESET", << >>), Text("MARKUP_DECL", "<!"), Tag("<NOFRAMES", << >>),
       Tag("<IMG", Attr("src", <<"X", "g5">>)), Tag("<IMG", Bare("alt"))>>,
     <<Tag("<FRAMESET", << >>), Text("PI", "?"),
       <<Event("START", <<"<A">>), Event("ATTRNAME", <<"href">>)>>,
       <<Event("START", <<"<IMG", " ", " ">>), Event("ATTRNAME", <<"src">>),
         Event("NMTOKEN", <<"g6">>), Event("TAGC", <<">">>)>>>>,
     <<Tag("<INPUT", Attr("type", <<"radio">>) \o Attr("transendid", <<"i", "1">>)
                      \o Attr("transendval", <<"7">>)),
       Tag("<INPUT", Attr("transendid", <<"i", "2">>)),
       Tag("<INPUT", Attr("type", <<"radio">>) \o Attr("transendid", <<"s", "2">>)
                      \o Attr("transendval", <<"8">>)),
       Tag("<INPUT", Attr("type", <<"radio">>) \o Attr("transendid", <<"z", "1">>)
                      \o Attr("transendval", <<"7">>))>>,
     <<Tag("</HEADER", << >>), Text("COMMENT", "c"), Tag("<B", << >>), Tag("<BODY", << >>),
       Tag("<IMG", Attr("src", <<"g9", "*own">>) \o Attr("height", <<"9">>))>>,
     <<Text("DATA", "e"), Tag("</HEADER", << >>), Link, Tag("<B", << >>), Tag("<IMG", Bare("alt"))>>,
     <<Link, Text("DATA", "<BODY"), Image("g7"), Image("g8"), Tag("</A", << >>),
       <<Event("MARKUP_DECL", <<"<!">>), Event("NAME", <<"n">>), Event("NUMBER", <<"1">>),
         Event("TAGC", <<">">>)>>>>}
PageArgs == {<< >>, <<[id |-> "1", value |-> "7"], [id |-> "2", value |-> "9"]>>}

\* Conversions: letter, argument, width, precision and flags
Conversion(l, a, w, p, f) ==
    [letter |-> l, arg |-> a, width |-> w, prec |-> p, left |-> "-" \in f,
     plus |-> "+" \in f, blank |-> " " \in f, zero |-> "0" \in f, alt |-> "#" \in f,
     star |-> "*" \in f]
Integers4 ==
    {Conversion("d", a, w, p, f) : a \in {-8, 0, 7}, w \in {-1, 3}, p \in {-1, 2},
                                   f \in {{}, {"-"}, {"+"}, {" "}, {"0"}}}
    \cup {Conversion(l, a, w, p, f) : l \in {"u", "o", "x"}, a \in {-1, 0}, w \in {-1, 3},
                                      p \in {-1, 2}, f \in {{}, {"-"}, {"#"}}}
Thousandths == {0, 4, 5, 49, 50, 499, 500, 994, 995, 999, 1500, 9949, 9950, 12345, -500, 99999}
Numbers == {Conversion("f", a, -1, p, {}) : a \in Thousandths, p \in {-1, 0, 1, 2}}
            \cup {Conversion("e", a, -1, p, {}) : a \in Thousandths, p \in {0, 1, 2}}
Strings == {Conversion("", <<"z">>, -1, -1, {}), Conversion("s", <<"a", "b", "c">>, 2, 1, {}),
            Conversion("s", <<"a", "b">>, 3, -1, {"-", "0"}),
            Conversion("s", <<"NULL">>, -1, 1, {}), Conversion("s", <<"a", "b">>, -3, 1, {"*"}),
            Conversion("d", 7, 2, -2, {"*"}), Conversion("y", 0, 3, -1, {"0"}),
            Conversion("c", <<"q">>, 2, -1, {}), Conversion("%", <<"%">>, -1, -1, {})}

VARIABLES
    part,       \* the part that is run
    s1, s2, s3, s4, s5, s6, s7, s8, s9, s10, s11, s12

mediaVars == <<part, vars, s1, s2, s3, s4, s5, s6, s7, s8, s9, s10, s11, s12>>

Comp == INSTANCE Compression WITH
    InitCodeSize <- 2, BITS <- 4, Pixels <- 0 .. 3, Leads <- Beginnings,
    MaxPixels <- 6, Heights <- (1 .. 13) \cup {16, 17, 24, 25, 33},
    Texts <- DocRecords, OutSize <- 13, DISP_BITS <- 3, COUNT_BITS <- 1,
    enc <- s1, dec <- s2, gj <- s3, pending <- s4, lead <- s5, taken <- s6,
    height <- s1, cury <- s2, Pass <- s3, sent <- s4, ypos <- s5,
    pass <- s6, fini <- s7, put <- s8,
    text <- s1, pPrevHit <- s2, pTestHead <- s3, pTestTail <- s4,
    bSpace <- s5, outbuf <- s6, merged <- s7

Two == INSTANCE TwoBit WITH
    Byte <- 3, MaxPacket <- 3, Codes <- BitCodes, MaxCodes <- 4,
    ZoomValues <- {0, 4, 9}, ZoomGrey <- 9, MaxSize <- 5, ONE <- 64,
    Extrap <- 768, Values <- {0, 1, 3, 5, 9}, Step <- 3, NoiseMag <- 1,
    NoiseCutin <- 1, ErrorMag <- 1, Cols <- {2}, Asked <- ColumnRequests,
    MaxPack <- 13,
    written <- s1, cur <- s2, accum <- s3, blocks <- s4, closed <- s5,
    rd <- s6, got <- s7,
    src <- s1, bny <- s2, wide <- s10, filtrows <- s3, ay <- s4, zy <- s5, past <- s6,
    blur <- s7, acc <- s8, out <- s9,
    xsize <- s1, err0 <- s2, err1 <- s3, odd <- s4, i <- s5, buf <- s6,
    obuf <- s7, packed <- s8

Gif == INSTANCE GifPnm WITH
    Maps <- {1, 2}, Widths <- {1, 2}, ColorCounts <- {5, 6},
    MaxImages <- 2, SCALE <- 6, Values <- {0, 5}, MaxSize <- 5,
    Palette <- SomeColors, MaxCount <- 2, MaxValue <- 3, MAXCOLORS <- 4,
    MapColors <- 3, NewColors <- {1, 2, 3},
    file <- s1, pnm <- s2, gj <- s3, grey <- s4,
    line <- s1, other <- s2, ask <- s3,
    count <- s1, now <- s2, maxval <- s3, boxes <- s4, newcolors <- s5,
    gray <- s6, trans <- s7, phase <- s8, gif <- s9

Dist == INSTANCE ImageDistillers WITH
    Sizes <- {3, 9}, Lengths <- {2, 6}, Limits <- {-1, 2}, TypX <- 4,
    TypY <- 10, COPYBUF <- 2, ORIGBUF <- 5, Threshold <- 4, Pin <- 2,
    GifArgs <- GifRequests, MaxBytes <- 5,
    who <- s1, pc <- s2, in <- s3, out <- s4, lib <- s5, seen <- s6,
    denom <- s7, dest <- s8, heap <- s9, buf <- s10, result <- s11, ink <- s12

Html == INSTANCE HtmlMunger WITH
    Urls <- MarkedUrls, ArgLists <- UrlArgs, MAX_ARGS <- 2, Decimals <- 2,
    MaxAdds <- 2, Pages <- Pages, Args <- PageArgs,
    ShowIcon <- {TRUE, FALSE}, Slack <- 4, MaxPages <- 2,
    url <- s1, murl <- s2, added <- s3, out <- s4,
    page <- s1, whole <- s2, args <- s3, icon <- s4, st <- s5,
    served <- s6, busy <- s7

Fmt == INSTANCE Snprintf WITH
    Bits <- 4, FLOAT_DIGITS <- 3, Integral <- Integers4,
    Textual <- Strings, Floating <- Numbers, MaxItems <- 2,
    Lengths <- {2, 5},
    format <- s1, length <- s2

\* The slots from a number on are zero, and stay so.
Zero12 == s12 = 0
Zero11 == s11 = 0 /\ Zero12
Zero10 == s10 = 0 /\ Zero11
Zero9 == s9 = 0 /\ Zero10
Zero8 == s8 = 0 /\ Zero9
Zero7 == s7 = 0 /\ Zero8
Zero6 == s6 = 0 /\ Zero7
Zero5 == s5 = 0 /\ Zero6
Zero4 == s4 = 0 /\ Zero5
Zero3 == s3 = 0 /\ Zero4
Zero2 == s2 = 0 /\ Zero3
Zero1 == s1 = 0 /\ Zero2
Same12 == s12' = s12
Same11 == s11' = s11 /\ Same12
Same10 == s10' = s10 /\ Same11
Same9 == s9' = s9 /\ Same10
Same8 == s8' = s8 /\ Same9
Same7 == s7' = s7 /\ Same8
Same6 == s6' = s6 /\ Same7
Same5 == s5' = s5 /\ Same6
Same4 == s4' = s4 /\ Same5
Same3 == s3' = s3 /\ Same4
Same2 == s2' = s2 /\ Same3
Same1 == s1' = s1 /\ Same2

MediaInit ==
    /\ Init
    /\ \/ part = "lexer" /\ Zero1
       \/ /\ doc = PlainDocument /\ norm = FALSE
          /\ \/ part = "lzw" /\ Comp!LzwInit /\ Zero7
             \/ part = "rows" /\ Comp!RowInit /\ Zero9
             \/ part = "doc" /\ Comp!DocInit /\ Zero8
             \/ part = "bits" /\ Two!BitsInit /\ Zero8
             \/ part = "zoom" /\ Two!ZoomInit /\ Zero11
             \/ part = "dither" /\ Two!DitherInit /\ Zero9
             \/ part = "blocks" /\ Gif!BlocksInit /\ Zero5
             \/ part = "scale" /\ Gif!ScaleInit /\ Zero4
             \/ part = "colors" /\ Gif!ColorsInit /\ Zero10
             \/ part = "distillers" /\ Dist!Init
             \/ part = "magic" /\ Html!MagicInit /\ Zero5
             \/ part = "munge" /\ Html!MungeInit /\ Zero8
             \/ part = "formats" /\ Fmt!Init /\ Zero3

MediaNext ==
    /\ part' = part
    /\ \/ part = "lexer" /\ Next /\ Same1
       \/ /\ UNCHANGED vars
          /\ \/ part = "lzw" /\ Comp!LzwNext /\ Same7
             \/ part = "rows" /\ Comp!RowNext /\ Same9
             \/ part = "doc" /\ Comp!DocNext /\ Same8
             \/ part = "bits" /\ Two!BitsNext /\ Same8
             \/ part = "zoom" /\ Two!ZoomNext /\ Same11
             \/ part = "dither" /\ Two!DitherNext /\ Same9
             \/ part = "blocks" /\ Gif!BlocksNext /\ Same5
             \/ part = "scale" /\ Gif!ScaleNext /\ Same4
             \/ part = "colors" /\ Gif!ColorsNext /\ Same10
             \/ part = "distillers" /\ Dist!Next
             \/ part = "magic" /\ Html!MagicNext /\ Same5
             \/ part = "munge" /\ Html!MungeNext /\ Same8
             \/ part = "formats" /\ Fmt!Next /\ Same3

MediaSpec == MediaInit /\ [][MediaNext]_mediaVars
-----------------------------------------------------------------------------
(* The properties of the parts, of the part that is run; their modules say *)
(* more about each.                                                        *)

\* GIF images and compressed texts: what the compressors write is read back by
\* both readers, from the packing of codes into blocks up to the rows of an
\* interlaced image; the readers agree on the first image and its colours.
CodingIsUndone ==
    /\ part = "lzw" => Comp!NeverLost /\ Comp!AllComesBack
    /\ part = "rows" => Comp!RowsInPlace /\ Comp!RowsFound
    /\ part = "doc" => Comp!ReadsBack
    /\ part = "bits" => Two!CodesAreCarried
    /\ part = "blocks" => Gif!GifsAreRead

\* Reducing images: colours are chosen so that the boxes share them all, rows
\* are scaled to their averages, zoomed in turn, and dithered to four levels
\* that are packed into the bytes there is room for.
ImagesAreReduced ==
    /\ part = "colors" => Gif!ColorsAreReduced
    /\ part = "scale" => Gif!ImagesAreScaled
    /\ part = "zoom" => Two!RowsAreZoomed
    /\ part = "dither" => Two!ImagesAreDithered

\* The image distillers: whatever fails in the middle, an answer is the image or
\* the original, its buffer has one owner, and the next request finds the
\* library's state fresh.
ImagesAreDistilled == part = "distillers" => Dist!ImagesAreDistilled

\* Pages: how a document is cut into pieces does not change its events, marked
\* urls give back the url and arguments they were made of, and the page that is
\* written is the page that was read with what the munger adds to it.
PagesAreRight ==
    /\ part = "lexer" => LexingIsStable
    /\ part = "magic" => Html!MagicIsUndone
    /\ part = "munge" => Html!PagesAreMunged

\* Formatted output is cut to its buffer, and numbers are written as they are.
FormatsAreConverted == part = "formats" => Fmt!FormatsAreConverted
=============================================================================
