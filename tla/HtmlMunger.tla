----------------------------- MODULE HtmlMunger ----------------------------
(***************************************************************************)
(* The HTML distiller: the magic URLs that carry arguments, and the page   *)
(* that is written with them.                                              *)
(***************************************************************************)
EXTENDS Integers, Sequences, FiniteSets, SequencesExt
-----------------------------------------------------------------------------
(***************************************************************************)
(* Magic urls: frontend/src/url_magic.c.                                   *)
(*                                                                         *)
(* The HTML munger writes arguments into the urls of images, in front of   *)
(* the form part: "where*^i1=7^s2=ab^?form".  The front end takes them out *)
(* again when the url is asked for.  A url is a sequence of characters;    *)
(* "u" stands for any character that is none of the others, an identifier  *)
(* is one digit.                                                           *)
(***************************************************************************)
CONSTANTS Urls,      \* urls the program meets
          ArgLists,  \* lists of arguments [type, id, value] that are added
          MAX_ARGS,  \* arguments a list has room for
          Decimals,  \* digits %f writes behind the point
          MaxAdds    \* times arguments are added

VARIABLES url,    \* the url as it was
          murl,   \* what it has become
          added,  \* the lists of arguments added
          out     \* what from_magic gave, << >> before it was called

magicVars == <<url, murl, added, out>>

MAGIC_START == "*"
MAGIC_DELIM == "^"
-----------------------------------------------------------------------------
(* Positions of characters; 0 for none                                     *)

Positions(s, c) == {i \in DOMAIN s : s[i] = c}
strchr(s, c, from) ==
    LET at == {i \in Positions(s, c) : i >= from}
    IN  IF at = {} THEN 0 ELSE CHOOSE i \in at : \A j \in at : i <= j
LastOf(at) == IF at = {} THEN 0 ELSE CHOOSE i \in at : \A j \in at : j <= i
\* Where the form part starts, or the end of the url.
FormStart(s) == IF strchr(s, "?", 1) = 0 THEN Len(s) + 1 ELSE strchr(s, "?", 1)

is_magic(s) ==
    LET form_start == FormStart(s)
        magic_start == LastOf({i \in Positions(s, MAGIC_START) : i < form_start})
    IN  /\ magic_start # 0
        /\ magic_start < Len(s) /\ s[magic_start + 1] = MAGIC_DELIM
        /\ s[form_start - 1] = MAGIC_DELIM
        /\ magic_start + 1 # form_start - 1

\* An argument as sprintf writes it.
ArgWritten(a) ==
    <<a.type>> \o <<a.id, "=">>
      \o (IF a.type = "f" THEN SubSeq(a.value, 1, Decimals) ELSE a.value) \o <<MAGIC_DELIM>>

to_magic(s, al) ==
    IF al = << >> THEN s
    ELSE SubSeq(s, 1, FormStart(s) - 1)
           \o (IF is_magic(s) THEN << >> ELSE <<MAGIC_START, MAGIC_DELIM>>)
           \o FlattenSeq([i \in DOMAIN al |-> ArgWritten(al[i])])
           \o SubSeq(s, FormStart(s), Len(s))

\* The argument that starts at a position, as sscanf reads it: the value
\* ends at the next delimiter.
ReadArg(s, pos) ==
    [type |-> s[pos], id |-> s[pos + 1],
     value |-> SubSeq(s, pos + 3, strchr(s, MAGIC_DELIM, pos) - 1)]

\* Arguments with the same identifier are overwritten; a full list takes no
\* other.
SetArg(res, a) ==
    LET same == {i \in DOMAIN res.al : res.al[i].id = a.id}
    IN  IF same # {} THEN [res EXCEPT !.al[CHOOSE i \in same : TRUE] = a]
        ELSE IF Len(res.al) < MAX_ARGS THEN [res EXCEPT !.al = Append(@, a)]
        ELSE [res EXCEPT !.ok = FALSE]

\* The loop over the arguments from a position on, then the copy of what
\* follows the last delimiter.  Without one strchr gives NULL, and NULL + 1
\* is followed.
RECURSIVE Arguments(_, _, _, _)
Arguments(s, pos, end, res) ==
    LET known == pos <= Len(s) /\ s[pos] \in {"s", "i", "f"}
        next == strchr(s, MAGIC_DELIM, pos)
        res1 == IF known /\ next # 0 THEN SetArg(res, ReadArg(s, pos)) ELSE [res EXCEPT !.ok = FALSE]
    IN  IF next = 0 THEN [res EXCEPT !.fault = TRUE]
        ELSE IF next + 1 < end THEN Arguments(s, next + 1, end, res1)
        ELSE [res1 EXCEPT !.url = @ \o SubSeq(s, next + 1, Len(s))]

\* The magic is taken to begin at the last "*", also when that lies in the
\* form part.
from_magic(s, al) ==
    IF ~is_magic(s) THEN [ok |-> FALSE, url |-> s, al |-> al, fault |-> FALSE]
    ELSE LET star == LastOf(Positions(s, MAGIC_START))
         IN  Arguments(s, star + 2, FormStart(s),
                       [ok |-> TRUE, url |-> SubSeq(s, 1, star - 1), al |-> al, fault |-> FALSE])
-----------------------------------------------------------------------------
MagicInit ==
    /\ url \in Urls
    /\ murl = url
    /\ added = << >>
    /\ out = << >>

\* The munger or a page of the front end adds arguments.
Add ==
    /\ out = << >> /\ Len(added) < MaxAdds
    /\ \E al \in ArgLists :
         /\ murl' = to_magic(murl, al)
         /\ added' = Append(added, al)
    /\ UNCHANGED <<url, out>>

\* The front end takes them out.
Strip ==
    /\ out = << >>
    /\ out' = <<from_magic(murl, << >>)>>
    /\ UNCHANGED <<url, murl, added>>

MagicNext == Add \/ Strip
MagicSpec == MagicInit /\ [][MagicNext]_magicVars
-----------------------------------------------------------------------------
(* Properties                                                              *)

Plain(value) == value # << >> /\ \A i \in DOMAIN value : value[i] \notin {MAGIC_START, MAGIC_DELIM, "?"}
Arg(a) == [a EXCEPT !.value = IF a.type = "f" THEN SubSeq(@, 1, Decimals) ELSE @]
All == FlattenSeq(added)
\* No "*" in the form part, no delimiters in the values, room for all.
Ordinary ==
    /\ \A i \in Positions(url, MAGIC_START) : i < FormStart(url)
    /\ \A i \in DOMAIN All : Plain(All[i].value)
    /\ \A i, j \in DOMAIN All : i # j => All[i].id # All[j].id

\* An ordinary url gets all the arguments, in the order in which they were
\* added, and becomes the url it was when they are taken out: url_magic.c
\* "puts the non magic url in the buffer".  With more arguments than there
\* is room for the first ones are kept and the failure is told.
MagicRoundTrip ==
    (out # << >> /\ Ordinary /\ ~is_magic(url) /\ All # << >>) =>
        /\ out[1].url = url
        /\ ~out[1].fault
        /\ LET n == IF Len(All) > MAX_ARGS THEN MAX_ARGS ELSE Len(All)
           IN  out[1].al = [i \in 1 .. n |-> Arg(All[i])]
        /\ out[1].ok = (Len(All) <= MAX_ARGS)

\* Nothing is taken out of a url without magic.
PlainIsKept ==
    out # << >> /\ ~is_magic(murl) => out[1].url = murl /\ out[1].al = << >> /\ ~out[1].ok
\* Arguments added to a url that is magic already join those it has.
MagicJoins ==
    (out # << >> /\ Ordinary /\ is_magic(url)) =>
        /\ out[1].url = from_magic(url, << >>).url
        /\ \A i \in DOMAIN All : Len(out[1].al) < MAX_ARGS =>
             \E j \in DOMAIN out[1].al : out[1].al[j] = Arg(All[i])

\* What is written into a url is what is read from it.
MagicIsUndone == MagicRoundTrip /\ PlainIsKept /\ MagicJoins

\* Refuted: url_magic.c:7 "in order to handle forms and imagemaps the magic
\* can occur before a group of ? arguments" (a form with a "*" is taken for
\* the magic).
FormsAreKept ==
    (out # << >> /\ ~is_magic(url) /\ All # << >> /\ \A i \in DOMAIN All : Plain(All[i].value)) =>
        out[1].url = url /\ ~out[1].fault
-----------------------------------------------------------------------------
(***************************************************************************)
(* The HTML munger: html_munger/src/munge.c and munge_magic.c.             *)
(*                                                                         *)
(* Pages come as events of the lexer, sequences of [type, text].  A text   *)
(* is a sequence of strings: the name of a tag followed by its white       *)
(* space, the characters of a value ("Q" is the double quote), or one      *)
(* string for any other text.  Images get magic arguments in their url and *)
(* a link to the original: around the image, or, for images inside a link, *)
(* behind the link; those wait in a queue that outlives the page.          *)
(***************************************************************************)
CONSTANTS Pages,     \* pages: sequences of events
          Args,      \* argument lists: sequences of [id, value]
          ShowIcon,  \* values of the argument FRONT_SHOW_ICON
          Slack,     \* the 1000 bytes by which the output buffer is larger
          MaxPages   \* pages distilled one after the other

VARIABLES page,    \* events of this page still to come
          whole,   \* the page
          args,    \* arguments of this request
          icon,    \* FRONT_SHOW_ICON is not 0
          st,      \* state of the munger, see Fresh
          served,  \* pages distilled
          busy     \* DistillerMain runs

mungeVars == <<page, whole, args, icon, st, served, busy>>

Tok(type, text) == [type |-> type, text |-> text]
-----------------------------------------------------------------------------
(* The output buffer                                                       *)

RECURSIVE SumOf(_)
SumOf(s) == IF s = << >> THEN 0 ELSE Head(s) + SumOf(Tail(s))
PageLength(p) == SumOf([i \in DOMAIN p |-> SumOf([j \in DOMAIN p[i] |-> Len(p[i][j].text)])])

\* Names of what the munger itself adds and the room they take.
AddedLength == [icon |-> 20, link |-> 9, refine |-> 9]
ItemLength(item) == IF item[1] \in DOMAIN AddedLength THEN AddedLength[item[1]] ELSE Len(item)

\* append_string: a buffer that is too small is reallocated to five quarters
\* of what is in it, whatever is to be added; html_bufsize stays.
append_string(s, item) ==
    LET len == ItemLength(item)
        grow == s.buflen + len >= s.bufsize
        room == IF grow THEN s.buflen + s.buflen \div 4 ELSE s.room
    IN  [s EXCEPT !.out = Append(@, item), !.buflen = @ + len, !.room = room,
                  !.overrun = @ \/ s.buflen + len + 1 > room]
-----------------------------------------------------------------------------
(* Tags                                                                    *)

\* Whether a tag has a name: the letters agree and no letter follows.
Is(tag, name) == tag[1] = name

\* strncasecmp of munge.c, which finds no difference once a string has ended
\* or the length is reached: a tag without blanks behind it is taken for every
\* name that begins like it, and a longer name for the one it begins with.
Shorter == [x \in {"</HEAD", "<BODY", "<NOFRAMES"} |-> IF x = "<BODY" THEN {"<B"} ELSE {}]
Longer == [x \in {"</HEAD", "<BODY", "<NOFRAMES"} |-> IF x = "</HEAD" THEN {"</HEADER"} ELSE {}]
Agrees(tag, name) ==
    \/ tag[1] \in {name} \cup Longer[name]
    \/ tag[1] \in Shorter[name] /\ Len(tag) = 1

\* Case 2 of process_tag compares two characters and asks for six: "<I" and
\* an image with two blanks behind its name pass, "<IMG" is 4 long.
LooksLikeInput(tag) == \/ Is(tag, "<INPUT")
                       \/ Is(tag, "<IMG") /\ Len(tag) - 1 >= 2

\* attrib_index, 0 for -1: the first attribute of that name.
attrib_index(name, attribs) ==
    LET same == {i \in DOMAIN attribs : attribs[i].name = name}
    IN  IF same = {} THEN 0 ELSE CHOOSE i \in same : \A j \in same : i <= j

\* Partial urls and http urls; "X" stands for the start of any other scheme.
\* For an image without src the pointer is read in front of the array, and wild
\* says what it points to.
is_http_get(attribs, src, wild) ==
    IF src = 0 THEN wild = "partial" ELSE attribs[src].value = << >> \/ attribs[src].value[1] # "X"

\* The tag with its attributes as they are now.
TagItem(tag, attribs) == <<"tag", tag[1]>> \o FlattenSeq([i \in DOMAIN attribs |-> <<attribs[i].name>> \o attribs[i].value])

\* handle_form_field: the attributes are written, then for a field that names
\* an argument its value, or that its button is the chosen one.
ValueOf(attribs, name, least) ==
    LET good == {i \in DOMAIN attribs : attribs[i].name = name /\ Len(attribs[i].value) >= least}
    IN  IF good = {} THEN << >> ELSE attribs[CHOOSE i \in good : \A j \in good : j <= i].value
handle_form_field(s, tag, attribs) ==
    LET id == ValueOf(attribs, "transendid", 2)
        val == ValueOf(attribs, "transendval", 1)
        types == {i \in DOMAIN attribs : attribs[i].name = "type"}
        button == types # {} /\ ValueOf(attribs, "type", 0) # <<"text">>
        found == {i \in DOMAIN args : id # << >> /\ args[i].id = id[2]}
        arg == args[CHOOSE i \in found : \A j \in found : i <= j]
        known == id[1] \in {"i", "s", "d"}
        extra == IF found = {} THEN << >>
                 ELSE IF ~button THEN <<id[1], "VALUE">> \o (IF known THEN <<arg.value>> ELSE << >>)
                 ELSE IF known /\ val = <<arg.value>> THEN <<id[1], "CHECKED">>
                 ELSE <<id[1]>>
    IN  append_string(s, TagItem(tag, attribs) \o extra)

\* in_link is set by a link with a target and cleared by the end of a link.
InLink(s, tag, attribs) ==
    IF Is(tag, "<A") /\ attrib_index("href", attribs) # 0 THEN [s EXCEPT !.in_link = TRUE]
    ELSE IF Is(tag, "</A") THEN [s EXCEPT !.in_link = FALSE]
    ELSE s

\* The url of an image: magic for maps, and for images that do not say their
\* size.
Mapped(attribs) == attrib_index("ismap", attribs) # 0 \/ attrib_index("usemap", attribs) # 0
Sized(attribs) == attrib_index("width", attribs) # 0 \/ attrib_index("height", attribs) # 0
ImageMagic(attribs) ==
    LET src == attrib_index("src", attribs)
        magic == (IF Mapped(attribs) THEN <<"*map">> ELSE << >>)
                   \o (IF Sized(attribs) THEN << >> ELSE <<"*resize">>)
    IN  IF src = 0 THEN attribs ELSE [attribs EXCEPT ![src].value = @ \o magic]
\* from_magic and to_magic with FRONT_NO_DISTILL; "*own" is magic that the url
\* had in the page.
Magic == {"*map", "*resize", "*own"}
Original(value) == SelectSeq(value, LAMBDA c : c \notin Magic) \o <<"*nodistill">>
\* The last src counts here.
SrcUrl(attribs) ==
    LET all == {i \in DOMAIN attribs : attribs[i].name = "src"}
    IN  IF all = {} THEN << >> ELSE <<attribs[CHOOSE i \in all : \A j \in all : j <= i].value>>

\* from_magic adds to a list whose length nobody has set, unless an argument
\* was written into the url before.
WildList(attribs) ==
    /\ Sized(attribs) /\ ~Mapped(attribs)
    /\ SrcUrl(attribs) # << >> /\ \E i \in DOMAIN SrcUrl(attribs)[1] : SrcUrl(attribs)[1][i] \in Magic

\* An image in a link: its original is queued.
ImageInLink(s, tag, attribs) ==
    LET written == append_string(s, TagItem(tag, attribs))
    IN  IF SrcUrl(attribs) = << >> THEN written
        ELSE [written EXCEPT !.queue = Append(@, Original(SrcUrl(attribs)[1])),
                             !.queued = Append(@, Original(SrcUrl(attribs)[1]))]
\* An image of its own: a link around it.
ImageAlone(s, tag, attribs) ==
    IF SrcUrl(attribs) = << >>
    THEN append_string(append_string(s, TagItem(tag, attribs)), <<"/link">>)
    ELSE append_string(append_string(append_string(s, <<"link">> \o Original(SrcUrl(attribs)[1])),
                                     TagItem(tag, <<[name |-> "border", value |-> <<"0">>]>> \o attribs)),
                       <<"/link">>)

\* Links to the originals of the images of a link that has ended.
RECURSIVE RefineAll(_)
RefineAll(s) ==
    IF s.queue = << >> THEN s
    ELSE RefineAll([append_string(s, <<"refine">> \o Head(s.queue)) EXCEPT
                      !.queue = Tail(@), !.refined = Append(@, Head(s.queue))])
Refine(s, attribs) ==
    IF ~s.in_link /\ attrib_index("norefine", attribs) = 0 THEN RefineAll(s) ELSE s

\* The icon behind the tag where it belongs.
TagOf == [after_head |-> "</HEAD", in_body |-> "<BODY", in_noframes |-> "<NOFRAMES"]
PlaceIcon(s, tag) ==
    IF s.where \in DOMAIN TagOf /\ Agrees(tag, TagOf[s.where])
    THEN append_string([s EXCEPT !.where = "no_icon"], <<"icon">>)
    ELSE s

\* What is read by mistake may end the process.
process_tag(s, tag, attribs) ==
    IF LooksLikeInput(tag) THEN handle_form_field(s, tag, attribs)
    ELSE LET linked == InLink(s, tag, attribs)
             src == attrib_index("src", attribs)
             image == Is(tag, "<IMG") /\ is_http_get(attribs, src, s.wild)
             now == IF image THEN ImageMagic(attribs) ELSE attribs
             written == IF ~image THEN append_string(linked, TagItem(tag, now))
                        ELSE IF linked.in_link THEN ImageInLink(linked, tag, now)
                        ELSE ImageAlone(linked, tag, now)
             misread == Is(tag, "<IMG") /\ (src = 0 \/ (image /\ WildList(now)))
         IN  IF misread /\ s.wild = "crash" THEN [s EXCEPT !.crashed = TRUE]
             ELSE PlaceIcon(Refine(written, now), tag)
-----------------------------------------------------------------------------
(* Events                                                                  *)

\* The value of an attribute: white space around it and one double quote on
\* either side go.
AttrValue(text) ==
    LET n == Len(text)
        blanks == {k \in 0 .. n : \A i \in 1 .. k : text[i] = " "}
        ls0 == CHOOSE k \in blanks : \A j \in blanks : j <= k
        ls == IF ls0 < n /\ text[ls0 + 1] = "Q" THEN ls0 + 1 ELSE ls0
        tails == {k \in 1 .. n : \A i \in 1 .. k - 1 : text[n + 1 - i] = " " /\ i < n - ls}
        ts0 == CHOOSE k \in tails : \A j \in tails : j <= k
        ts == IF text[n + 1 - ts0] = "Q" THEN ts0 ELSE ts0 - 1
    IN  SubSeq(text, ls + 1, n - ts)

\* One string of an event; cb holds what callback knows of the tag.
NoTag == [tag |-> << >>, attribs |-> << >>, name |-> "", isval |-> FALSE, isname |-> FALSE]
CallbackToken(s, cb, tok) ==
    CASE cb.isval ->
           [s |-> s, cb |-> [cb EXCEPT !.isval = FALSE,
                                       !.attribs = Append(@, [name |-> cb.name, value |-> AttrValue(tok.text)])]]
      [] ~cb.isval /\ tok.type = "ATTRNAME" ->
           [s |-> s, cb |-> IF tok.text = << >> THEN [cb EXCEPT !.isname = TRUE]
                            ELSE [cb EXCEPT !.name = tok.text[1], !.isval = TRUE, !.isname = FALSE]]
      [] ~cb.isval /\ tok.type \in {"NAME", "NMTOKEN", "LITERAL"} ->
           IF cb.isname
           THEN [s |-> s, cb |-> [cb EXCEPT !.isname = FALSE,
                                            !.attribs = Append(@, [name |-> tok.text[1], value |-> << >>])]]
           ELSE [s |-> append_string(s, <<"text">> \o tok.text), cb |-> cb]
      [] ~cb.isval /\ tok.type = "TAGC" ->
           [s |-> IF cb.tag # << >> THEN process_tag(s, cb.tag, cb.attribs)
                  ELSE append_string(s, <<"text">> \o tok.text),
            cb |-> cb]
      [] ~cb.isval /\ tok.type \in {"START", "END"} ->
           [s |-> s, cb |-> [cb EXCEPT !.tag = tok.text, !.attribs = << >>]]
      [] ~cb.isval /\ tok.type \in {"COMMENT", "DATA", "GEREF", "REFC", "MARKUP_DECL"} ->
           [s |-> append_string(s, <<"text">> \o tok.text), cb |-> cb]
      [] OTHER -> [s |-> s, cb |-> cb]

RECURSIVE callback(_, _, _)
callback(s, cb, ev) ==
    IF ev = << >> THEN s
    ELSE LET r == CallbackToken(s, cb, Head(ev)) IN callback(r.s, r.cb, Tail(ev))

\* Where the icon goes, from the text of the page: tags that the lexer does
\* not take for tags are found as well.
find_where_string(p) ==
    LET at(name) == {i \in DOMAIN p : \E j \in DOMAIN p[i] :
                       p[i][j].text # << >> /\ p[i][j].text[1] \in name}
        body == at({"<BODY"} \cup Longer["<BODY"]) # {}
        noframes == at({"<NOFRAMES"} \cup Longer["<NOFRAMES"]) # {}
        frameset == at({"<FRAMESET"}) # {}
        head_end == at({"</HEAD"} \cup Longer["</HEAD"]) \ {1} # {}
    IN  IF body THEN "in_body" ELSE IF noframes THEN "in_noframes" ELSE IF frameset THEN "no_icon"
        ELSE IF head_end THEN "after_head" ELSE "at_beginning"
-----------------------------------------------------------------------------
(* Requests                                                                *)

Fresh == [out |-> << >>, buflen |-> 0, bufsize |-> 0, room |-> 0, overrun |-> FALSE,
          in_link |-> FALSE, where |-> "no_icon", wild |-> "partial", crashed |-> FALSE,
          queue |-> << >>,    \* image_queue, static
          queued |-> << >>,   \* all that was ever queued
          refined |-> << >>]  \* all that was written behind a link

MungeInit ==
    /\ page = << >> /\ whole = << >> /\ args = << >> /\ icon = FALSE
    /\ st = Fresh
    /\ served = 0
    /\ busy = FALSE

\* DistillerMain up to the lexer; the queue is not emptied.
DistillerMain ==
    /\ ~busy /\ served < MaxPages
    /\ \E p \in Pages, a \in Args, i \in ShowIcon :
         /\ page' = p /\ whole' = p /\ args' = a /\ icon' = i
         /\ LET where == IF i THEN find_where_string(p) ELSE "no_icon"
                size == 2 * PageLength(p) + Slack
                begun == [st EXCEPT !.out = << >>, !.buflen = 0, !.bufsize = size, !.room = size,
                                    !.overrun = FALSE, !.in_link = FALSE, !.where = where,
                                    !.crashed = FALSE]
            IN  st' = IF where = "at_beginning"
                      THEN append_string([begun EXCEPT !.where = "no_icon"], <<"icon">>) ELSE begun
    /\ busy' = TRUE
    /\ UNCHANGED served

\* The lexer reports the next event.  A process that ends loses its queue, and
\* another one takes its place.
Event ==
    /\ busy /\ page # << >>
    /\ \E wild \in {"partial", "foreign", "crash"} :
         LET s == callback([st EXCEPT !.wild = wild], NoTag, Head(page)) IN
         IF s.crashed
         THEN /\ st' = [Fresh EXCEPT !.crashed = TRUE]
              /\ page' = << >> /\ whole' = << >> /\ args' = << >> /\ icon' = FALSE
              /\ served' = served + 1 /\ busy' = FALSE
         ELSE /\ st' = [s EXCEPT !.wild = "partial"]
              /\ page' = Tail(page)
              /\ UNCHANGED <<whole, args, icon, served, busy>>

\* The page is done and goes back.
Return ==
    /\ busy /\ page = << >>
    /\ busy' = FALSE
    /\ served' = served + 1
    /\ UNCHANGED <<page, whole, args, icon, st>>

MungeNext == DistillerMain \/ Event \/ Return
MungeSpec == MungeInit /\ [][MungeNext]_mungeVars
-----------------------------------------------------------------------------
(* Properties                                                              *)

Kind(k) == {i \in DOMAIN st.out : st.out[i][1] = k}
Opens(i) == st.out[i][1] = "tag" /\ st.out[i][2] = "<A" /\ Contains(st.out[i], "href")
Closes(i) == st.out[i][1] = "tag" /\ st.out[i][2] = "</A"
\* The output before position i is inside a link of the page.
Inside(i) == \E j \in 1 .. i - 1 : Opens(j) /\ \A k \in j + 1 .. i - 1 : ~Closes(k)

\* Links are not put inside links of the page.
LinksAreNotNested == \A i \in Kind("link") \cup Kind("refine") : ~Inside(i)

\* The originals of images in links appear once each and in order; those
\* that did not appear yet wait.
OriginalsAppear ==
    /\ st.queued = st.refined \o st.queue
    /\ (busy /\ st.queue # << >> /\ page = << >> /\ served = 0) =>
         st.in_link \/ \E i \in DOMAIN st.out : Contains(st.out[i], "norefine")

\* The icon is shown once or, where it was turned off or the page has no place
\* for it, not at all; nothing but links to originals comes between it and the
\* first tag that is taken for the one it belongs behind.
IconIsShown ==
    LET icons == Kind("icon")
        where == find_where_string(whole)
        tags == {i \in Kind("tag") : Agrees(Tail(st.out[i]), TagOf[where])}
    IN  /\ Cardinality(icons) <= 1
        /\ ~icon \/ where = "no_icon" => icons = {}
        /\ icon /\ where = "at_beginning" => icons = {1}
        /\ icon /\ where \in DOMAIN TagOf => (icons = {} <=> tags = {})
        /\ icon /\ where \in DOMAIN TagOf => \A i \in icons : \E t \in tags :
             /\ t < i /\ t + 1 .. i - 1 \subseteq Kind("refine")
             /\ \A u \in tags : t <= u

\* The tags of the page and its text appear in their order, whatever is put
\* between them; only tags that are not closed, numbers, numeric references
\* and processing instructions are left out.
Copied == {"COMMENT", "DATA", "GEREF", "REFC", "MARKUP_DECL", "NAME", "NMTOKEN", "LITERAL", "TAGC"}
Kept(ev) ==
    IF Head(ev).type \in {"START", "END"}
    THEN IF Last(ev).type = "TAGC" THEN <<<<"tag", Head(ev).text[1]>>>> ELSE << >>
    ELSE LET text == SelectSeq(ev, LAMBDA t : t.type \in Copied)
         IN  [i \in DOMAIN text |-> <<"text">> \o text[i].text]
PageIsKept ==
    LET seen == SubSeq(whole, 1, Len(whole) - Len(page))
        own == SelectSeq(st.out, LAMBDA x : x[1] \in {"tag", "text"})
    IN  [i \in DOMAIN own |-> IF own[i][1] = "tag" THEN SubSeq(own[i], 1, 2) ELSE own[i]]
          = FlattenSeq([i \in DOMAIN seen |-> Kept(seen[i])])

\* A button is marked when it stands for the value of its argument.
ButtonsAreMarked ==
    \A i \in Kind("tag") : Contains(st.out[i], "CHECKED") =>
      /\ \E t \in {"i", "s", "d"} : Contains(st.out[i], t)
      /\ \E k \in DOMAIN args : Contains(st.out[i], args[k].id) /\ Contains(st.out[i], args[k].value)

\* What the munger makes of a page is the page, with links and the icon where
\* they belong.
PagesAreMunged ==
    LinksAreNotNested /\ OriginalsAppear /\ IconIsShown /\ PageIsKept /\ ButtonsAreMarked

\* Refuted: a page with a body has its icon behind "<BODY" ("in_body").  A tag
\* "<B>" in front of it is taken for it.
IconIsInBody ==
    \A i \in Kind("icon"), t \in Kind("tag") :
      Is(Tail(st.out[t]), "<BODY") /\ icon => t < i
\* Refuted: no page ends the process.  What is in front of the attributes of an
\* image without a source is taken for its url.
PagesSurvive == ~st.crashed
\* Refuted: a page only has links to its own images (image_queue is kept when
\* the link of the page before did not end).
OwnImagesOnly ==
    \A i \in Kind("refine") : \E e \in DOMAIN whole : \E t \in DOMAIN whole[e] :
      Contains(whole[e][t].text, st.out[i][2])
\* Refuted: every image with a source gets magic or says its size (with two
\* blanks behind its name it is taken for a form field).
ImagesGetMagic ==
    \A i \in Kind("tag") : (st.out[i][2] = "<IMG" /\ Contains(st.out[i], "src") /\ ~Contains(st.out[i], "X")) =>
      Contains(st.out[i], "*resize") \/ Contains(st.out[i], "width")
\* Refuted: the output stays in its buffer.
OutputFits == ~st.overrun
\* Refuted: numeric character references are copied.
ReferencesAreKept ==
    \A e \in 1 .. Len(whole) - Len(page) : whole[e][1].type = "NUMCHARREF" =>
      \E i \in DOMAIN st.out : Contains(st.out[i], whole[e][1].text[1])
=============================================================================
