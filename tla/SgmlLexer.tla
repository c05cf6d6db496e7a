------------------------------ MODULE SgmlLexer ------------------------------
(***************************************************************************)
(* The SGML lexer of the HTML munger: sgml_lex.c, sgml_act.c and sgml.l in *)
(* html_munger/sgml-lex-19960207.                                          *)
(*                                                                         *)
(* SGML_lex is given a document in pieces of any size and a last, empty    *)
(* piece.  It looks for the longest text that a rule of its mode matches;  *)
(* when the piece ends before that is decided, it keeps what it has read   *)
(* of the token and starts over with it in the next call.  Rules report an *)
(* event at once or collect strings of a tag until its end.                *)
(*                                                                         *)
(* The tables that flex has made of sgml.l are represented by the patterns *)
(* themselves: a pattern is a sequence of items, an item a set of          *)
(* alternatives, each a sequence of classes of characters, and how often   *)
(* it may occur.  The characters are one of each kind: "a" for letters,    *)
(* "1" for digits, "n" for the end of a line, "Q" for the double quote and *)
(* "A" for the single one.                                                 *)
(***************************************************************************)
EXTENDS Integers, Sequences, SequencesExt

CONSTANTS Docs,      \* documents: sequences of characters
          Normalize  \* values of l->normalize

Chars == {"a", "1", "n", " ", "<", ">", "/", "!", "-", "=", "Q", "A", "&", "#", ";", "[", "]", "?",
          "%"}

VARIABLES doc,      \* the document
          norm,     \* l->normalize
          given,    \* number of characters given to SGML_lex so far
          mode,     \* yy_start
          pending,  \* characters kept from the last call
          event,    \* strings of the event that is being built
          events,   \* what the callbacks got
          line,     \* l->line
          done      \* the last, empty piece was given

vars == <<doc, norm, given, mode, pending, event, events, line, done>>
-----------------------------------------------------------------------------
(* Patterns                                                                *)

One(set) == [alts |-> {<<set>>}, rep |-> "1"]
Opt(set) == [alts |-> {<<set>>}, rep |-> "?"]
Many(set) == [alts |-> {<<set>>}, rep |-> "*"]
Some(set) == [alts |-> {<<set>>}, rep |-> "+"]
Str(s) == [i \in DOMAIN s |-> One({s[i]})]

Letter == {"a"}
NameChar == {"a", "1", "-"}
Space == {" ", "n"}
name == <<One(Letter), Many(NameChar)>>
ws == <<Many(Space)>>
reference_end == <<Opt({";", "n"})>>
literal(q) == <<One({q}), Many(Chars \ {q}), One({q})>>
Dot == Chars \ {"n"}

\* ([^<&]|(<[^<&a-zA-Z!->?])|(&[^<&#a-zA-Z]))+ where !-> is a range, which
\* holds digits and most of the punctuation
DataText == <<[alts |-> {<<Chars \ {"<", "&"}>>,
                         <<{"<"}, Chars \ ({"<", "&", "a", "?", "1", ">", "/", "!", "-", "=",
                                            "Q", "A", "#", ";", "%"})>>,
                         <<{"&"}, Chars \ {"<", "&", "#", "a"}>>}, rep |-> "+"]>>
\* {COM}([^-]|-[^-])*{COM}{ws}
Comment == Str(<<"-", "-">>)
             \o <<[alts |-> {<<Chars \ {"-"}>>, <<{"-"}, Chars \ {"-"}>>}, rep |-> "*"]>>
             \o Str(<<"-", "-">>) \o ws

\* The rules of each mode in the order of the file: number and pattern.
Rule(n, p) == [n |-> n, p |-> p]
Rules == [
    INITIAL |-> <<Rule(1, Str(<<"&", "#">>) \o <<Some({"1"})>> \o reference_end),
                  Rule(2, Str(<<"&", "#">>) \o <<One({"1"}), Many(NameChar)>> \o reference_end),
                  Rule(3, Str(<<"&", "#">>) \o name \o reference_end),
                  Rule(4, Str(<<"&">>) \o name \o reference_end),
                  Rule(5, Str(<<"<", "/">>) \o name \o ws),
                  Rule(6, Str(<<"<", "/", ">">>)),
                  Rule(7, Str(<<"<", "!">>) \o name \o ws),
                  Rule(8, Str(<<"<", "!", ">">>)),
                  Rule(9, Str(<<"<", "!", "-", "-">>)),
                  Rule(10, Str(<<"<", "!", "[">>) \o ws),
                  Rule(11, Str(<<"]", "]", ">">>)),
                  Rule(12, Str(<<"<", "?">>) \o <<Many(Chars \ {">"})>> \o Str(<<">">>)),
                  Rule(13, Str(<<"<">>) \o name \o ws),
                  Rule(14, Str(<<"<", ">">>)),
                  Rule(15, DataText),
                  Rule(15, <<One(Dot)>>)>>,
    TAG |-> <<Rule(23, Str(<<">">>)), Rule(25, Str(<<"<">>)), Rule(26, <<One(Dot)>>)>>,
    ATTR |-> <<Rule(17, name \o <<Many(Space)>> \o Str(<<"=">>) \o ws),
               Rule(18, name \o ws),
               Rule(23, Str(<<">">>)), Rule(24, Str(<<"/">>)), Rule(25, Str(<<"<">>)),
               Rule(26, <<One(Dot)>>)>>,
    ATTRVAL |-> <<Rule(19, <<Some(NameChar)>> \o ws),
                  Rule(20, literal("Q") \o ws), Rule(20, literal("A") \o ws),
                  Rule(21, <<Some(Chars \ {" ", "Q", "n", ">"})>> \o ws),
                  Rule(22, Str(<<">">>)), Rule(24, Str(<<"/">>)), Rule(25, Str(<<"<">>)),
                  Rule(26, <<One(Dot)>>)>>,
    MD |-> <<Rule(27, Comment),
             Rule(28, Str(<<"%">>) \o name \o reference_end \o ws),
             Rule(29, <<Some({"1"})>> \o ws), Rule(30, name \o ws),
             Rule(31, literal("Q") \o ws), Rule(31, literal("A") \o ws),
             Rule(32, Str(<<">">>)), Rule(33, Str(<<"[">>)), Rule(34, <<One(Dot)>>)>>,
    COM |-> <<Rule(27, Comment), Rule(32, Str(<<">">>)), Rule(34, <<One(Dot)>>)>>,
    DS |-> <<Rule(35, Str(<<"]", "]", ">">>)), Rule(36, Str(<<"]">>)),
             Rule(37, <<Some(Chars \ {"]"})>>)>>]

\* A pattern matches the whole text, or may match a longer one.
RECURSIVE Scan(_, _, _)
Scan(p, s, whole) ==
    IF s = << >> /\ ~whole THEN p # << >>
    ELSE IF p = << >> THEN s = << >>
    ELSE LET it == Head(p)
             more == IF it.rep \in {"*", "+"} THEN <<[it EXCEPT !.rep = "*"]>> ELSE << >>
         IN  \/ it.rep \in {"*", "?"} /\ Scan(Tail(p), s, whole)
             \/ \E alt \in it.alts :
                  /\ \A i \in 1 .. Len(alt) : i <= Len(s) => s[i] \in alt[i]
                  /\ IF Len(alt) > Len(s) THEN ~whole
                     ELSE Scan(more \o Tail(p), SubSeq(s, Len(alt) + 1, Len(s)), whole)
Matches(p, s) == s # << >> /\ Scan(p, s, TRUE)
CanGrow(rules, s) == \E i \in DOMAIN rules : Scan(rules[i].p, s, FALSE)

\* The rule for a text: the first one that matches, or the default rule of
\* flex, 38, which takes one character and has no action here.
RuleOf(rules, s) ==
    LET found == SelectSeq(rules, LAMBDA r : Matches(r.p, s))
    IN  IF found # << >> THEN Head(found).n ELSE IF Len(s) = 1 THEN 38 ELSE 0

\* Where the scanner stops: after the first character with which no longer
\* text can match, or at the end; it has jammed in the first case.
Read(rules, s) ==
    CHOOSE k \in 1 .. Len(s) :
        /\ k = Len(s) \/ ~CanGrow(rules, SubSeq(s, 1, k))
        /\ \A j \in 1 .. k - 1 : CanGrow(rules, SubSeq(s, 1, j))
\* The longest text that is accepted among the first k characters.
Longest(rules, s, k) ==
    CHOOSE j \in 1 .. k :
        /\ RuleOf(rules, SubSeq(s, 1, j)) # 0
        /\ \A i \in j + 1 .. k : RuleOf(rules, SubSeq(s, 1, i)) = 0
-----------------------------------------------------------------------------
(* Actions of the rules                                                    *)

Tok(type, text) == [type |-> type, text |-> text]

\* The state of the scanner during a call.
Start == [mode |-> mode, event |-> event, events |-> events, line |-> line]

Trimmed(text) ==
    LET solid == {i \in DOMAIN text : text[i] \notin Space}
        last == IF solid = {} THEN 1 ELSE CHOOSE i \in solid : \A j \in solid : j <= i
    IN  SubSeq(text, 1, last)

\* token_add; with l->normalize trailing white space goes.
ADD(st, type, text) ==
    [st EXCEPT !.event = Append(@, Tok(type, IF norm /\ text # << >> THEN Trimmed(text) ELSE text))]
BEGIN(st, m) == [st EXCEPT !.mode = m]
\* call_one, call_two: an event of its own.
TOK(st, toks) == [st EXCEPT !.events = Append(@, toks)]
\* call_err
ERROR(st, type, text) == TOK(st, <<Tok(type, << >>), Tok("DATA", text)>>)
\* call: the event that was built, which is freed.
CALLBACK(st) == [st EXCEPT !.events = Append(@, st.event), !.event = << >>]

\* The name of an attribute without "=" and white space, when normalizing.
AttrName(text) ==
    IF ~norm THEN text
    ELSE SubSeq(text, 1, CHOOSE i \in DOMAIN text : /\ text[i] \notin Space \cup {"="}
                                                     /\ \A j \in DOMAIN text : text[j] \notin Space \cup {"="} => j <= i)
\* A reference with or without the character that ends it.
Reference(st, type, text) ==
    IF Last(text) \in {"n", ";"}
    THEN TOK(st, <<Tok(type, Front(text)), Tok("REFC", <<Last(text)>>)>>)
    ELSE TOK(st, <<Tok(type, text)>>)

\* sgml_act.c
ContentRule(st, n, text) ==
    CASE n = 1 -> Reference(st, "NUMCHARREF", text)
      [] n = 2 -> ERROR(st, "ERROR", text)
      [] n \in {3, 6, 14} -> ERROR(st, "LIMITATION", text)
      [] n = 4 -> Reference(st, "GEREF", text)
      [] n = 5 -> BEGIN(ADD(st, "END", text), "TAG")
      [] n = 7 -> BEGIN(ADD(st, "MARKUP_DECL", text), "MD")
      [] n = 8 -> TOK(st, <<Tok("MARKUP_DECL", text)>>)
      [] n = 9 -> BEGIN(ADD(st, "MARKUP_DECL", text), "COM")
      [] n = 10 -> BEGIN(ERROR(st, "LIMITATION", text), "DS")
      [] n = 11 -> ERROR(st, "ERROR", text)
      [] n = 12 -> TOK(st, <<Tok("PI", text)>>)
      [] n = 13 -> BEGIN(ADD(st, "START", text), "ATTR")
      [] n = 15 -> TOK(st, <<Tok("DATA", text)>>)

TagRule(st, n, text) ==
    CASE n = 17 -> BEGIN(ADD(st, "ATTRNAME", AttrName(text)), "ATTRVAL")
      [] n = 18 -> ADD(ADD(st, "ATTRNAME", << >>), "NAME", text)
      [] n = 19 -> BEGIN(ADD(st, "NMTOKEN", text), "ATTR")
      [] n = 20 -> LET warned == Len(text) > 2 /\ text[Len(text) - 1] = "=" /\ Contains(text, ">")
                   IN  BEGIN(ADD(IF warned THEN ERROR(st, "WARNING", text) ELSE st, "LITERAL", text), "ATTR")
      [] n = 21 -> BEGIN(ADD(ERROR(st, "ERROR", text), "LITERAL", text), "ATTR")
      [] n = 22 -> BEGIN(CALLBACK(ERROR(st, "ERROR", text)), "INITIAL")
      [] n = 23 -> BEGIN(CALLBACK(ADD(st, "TAGC", text)), "INITIAL")
      [] n \in {24, 25} -> BEGIN(CALLBACK(ERROR(st, "LIMITATION", text)), "INITIAL")
      [] n = 26 -> ERROR(st, "ERROR", text)

DeclRule(st, n, text) ==
    CASE n = 27 -> ADD(st, "COMMENT", text)
      [] n = 28 -> ERROR(st, "LIMITATION", text)
      [] n = 29 -> ADD(st, "NUMBER", text)
      [] n = 30 -> ADD(st, "NAME", text)
      [] n = 31 -> ADD(st, "LITERAL", text)
      [] n = 32 -> BEGIN(CALLBACK(ADD(st, "TAGC", text)), "INITIAL")
      [] n = 33 -> BEGIN(CALLBACK(ERROR(st, "LIMITATION", text)), "DS")
      [] n = 34 -> ERROR(st, "ERROR", text)
      [] n = 35 -> BEGIN(st, "INITIAL")
      [] n = 36 -> BEGIN(st, "COM")
      [] n = 37 -> ERROR(st, "LIMITATION", text)
      [] n = 38 -> st

Act(st, n, text) ==
    CASE n <= 15 -> ContentRule(st, n, text)
      [] n \in 17 .. 26 -> TagRule(st, n, text)
      [] OTHER -> DeclRule(st, n, text)
-----------------------------------------------------------------------------
(* SGML_lex                                                                *)

Newlines(text) == Len(SelectSeq(text, LAMBDA c : c = "n"))

\* The scanner after a text of length n was taken for a rule, having read k
\* characters.  All that were looked at count as lines, also those that belong
\* to the next token.
Taken(st, s, k, n, rule) ==
    Act([st EXCEPT !.line = @ + Newlines(SubSeq(s, 1, k))], rule, SubSeq(s, 1, n))

\* One token after the other; what may still grow waits for the next piece.
RECURSIVE Lex(_, _, _), LexToken(_, _, _, _), LexRule(_, _, _, _, _), LexRest(_, _, _, _, _, _)
Lex(st, s, final) ==
    IF s = << >> THEN [st |-> st, pending |-> << >>] ELSE LexToken(st, s, final, Rules[st.mode])
LexToken(st, s, final, rules) ==
    IF ~final /\ CanGrow(rules, s) THEN [st |-> st, pending |-> s]
    ELSE LexRule(st, s, final, rules, Read(rules, s))
LexRule(st, s, final, rules, k) == LexRest(st, s, final, rules, k, Longest(rules, s, k))
LexRest(st, s, final, rules, k, n) ==
    LET rule == RuleOf(rules, SubSeq(s, 1, n))
        len == IF rule = 9 THEN 2 ELSE n
    IN  Lex(Taken(st, s, k, len, rule), SubSeq(s, len + 1, Len(s)), final)

\* copy_pending, the scan, and save_pending when the piece is used up.
Returned(end, saved) ==
    /\ pending' = saved
    /\ mode' = end.st.mode /\ event' = end.st.event
    /\ events' = end.st.events /\ line' = end.st.line
SGML_lex_NotSaved(piece) ==
    LET end == Lex(Start, pending \o piece, piece = << >>)
    IN  Returned(end, IF Len(end.pending) > 1 THEN Tail(end.pending) ELSE end.pending)
SGML_lex(piece) ==
    LET end == Lex(Start, pending \o piece, piece = << >>) IN Returned(end, end.pending)

Init ==
    /\ doc \in Docs /\ norm \in Normalize
    /\ given = 0
    /\ mode = "INITIAL"
    /\ pending = << >> /\ event = << >> /\ events = << >>
    /\ line = 1
    /\ done = FALSE

\* The next piece of the document.
Piece ==
    /\ ~done /\ given < Len(doc)
    /\ \E n \in 1 .. Len(doc) - given :
         /\ SGML_lex(SubSeq(doc, given + 1, given + n))
         /\ given' = given + n
    /\ UNCHANGED <<doc, norm, done>>

\* The last call; then SGML_delLexer frees what was not reported.
LastPiece ==
    /\ ~done /\ given = Len(doc)
    /\ SGML_lex(<< >>)
    /\ done' = TRUE
    /\ UNCHANGED <<doc, norm, given>>

Next == Piece \/ LastPiece
Spec == Init /\ [][Next]_vars
-----------------------------------------------------------------------------
(* Properties                                                              *)

\* The whole document in one piece.
Fresh == [mode |-> "INITIAL", event |-> << >>, events |-> << >>, line |-> 1]
AtOnce == Lex(Fresh, doc, TRUE).st

\* However a document is cut into pieces, the callbacks get the same events, and
\* the line number and the unfinished tag are the same: filter.c picks
\* "wierd-sized chunks to stress-test" this.
PiecesDoNotMatter ==
    done => [mode |-> mode, event |-> event, events |-> events, line |-> line] = AtOnce

\* Characters of the document in events, in order: errors repeat the text of
\* a token, so only those that are not also collected count.
RECURSIVE TextsOf(_)
TextsOf(toks) == IF toks = << >> THEN << >> ELSE Head(toks).text \o TextsOf(Tail(toks))

\* A document without markup arrives as it is; in an event only the first
\* string starts a tag, and the mode says which tag is being read.
EventsAreWellFormed ==
    /\ (\A i \in DOMAIN doc : doc[i] \notin {"<", "&"}) /\ done /\ ~Contains(doc, "]") =>
         TextsOf(FlattenSeq(events)) = doc
    /\ \A i \in DOMAIN events :
         /\ events[i] # << >>
         /\ \A j \in DOMAIN events[i] :
              events[i][j].type \in {"START", "END"} => j = 1
    /\ mode \in {"INITIAL", "DS"} => event = << >>
    /\ mode \in {"TAG", "ATTR", "ATTRVAL", "MD"} =>
         /\ event # << >>
         /\ Head(event).type = CASE mode = "TAG" -> "END" [] mode = "MD" -> "MARKUP_DECL" [] OTHER -> "START"

\* The lexer works the same whatever pieces it gets, and its events can be
\* taken apart.
LexingIsStable == PiecesDoNotMatter /\ EventsAreWellFormed

\* Refuted: the line number is the number of ends of line given (characters
\* that are read again for the next token are counted again).
LinesAreCounted == done => line = 1 + Newlines(doc)
\* Refuted: all text of the document reaches a callback (a tag that the
\* document does not end is dropped).
NothingIsDropped == done => event = << >>
=============================================================================
