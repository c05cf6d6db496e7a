------------------------------ MODULE Options ------------------------------
(***************************************************************************)
(* The options of the PTM: how texts are taken apart, and the database of  *)
(* options that is read from a file, again and again.                      *)
(***************************************************************************)
EXTENDS Integers, Sequences, SequencesExt, FiniteSets
-----------------------------------------------------------------------------
(***************************************************************************)
(* How the PTM takes its options apart: the lines of the file              *)
(* (BasicOptionDatabase::Create), the tokens of ts_strtok, the parameters  *)
(* of a distiller (LaunchRecord::Parse), the list of hosts                 *)
(* (RExec::Initialize) and the multicast addresses (PTM::ExpandOptions).   *)
(* A text is a sequence of characters; each parser has the alphabet that   *)
(* it can tell apart.  A position past the end is the final '\0'.          *)
(***************************************************************************)
CONSTANTS
    MAXLINE,        \* of a buffer for fgets
    MAXIP,
    MAX_HOSTNAME,
    MaxText,        \* bound: characters of a text
    MaxMore         \* bound: words added to a description of a distiller

isspace == {" "}
At(s, i) == IF i \in DOMAIN s THEN s[i] ELSE "end"

\* The first position from i on whose character is not in S
Span(s, i, S) ==
    LET n == SelectInSubSeq(s, i, Len(s), LAMBDA c : c \notin S)
    IN  IF n = 0 THEN Len(s) + 1 ELSE n
\* The first position from i on whose character is in S
Cspan(s, i, S) ==
    LET n == SelectInSubSeq(s, i, Len(s), LAMBDA c : c \in S)
    IN  IF n = 0 THEN Len(s) + 1 ELSE n
Cut(s, i, j) == SubSeq(s, i, j - 1)
-----------------------------------------------------------------------------
(* BasicOptionDatabase::Create                                             *)

\* fgets: a line that is too long comes in pieces.
RECURSIVE Pieces(_)
Pieces(s) == IF Len(s) < MAXLINE THEN <<s>>
             ELSE <<SubSeq(s, 1, MAXLINE - 1)>> \o Pieces(SubSeq(s, MAXLINE, Len(s)))

\* The key and the value of a line, if it has them
OptionLine(s) ==
    LET start == Span(s, 1, isspace)
        end == Cspan(s, start, isspace \cup {":"})
        colon == Span(s, end, isspace)
        first == Span(s, colon + 1, isspace)
        last == SelectLastInSubSeq(s, first, Len(s), LAMBDA c : c \notin isspace)
    IN  IF \/ At(s, start) = "!"
           \/ end = start \/ end > Len(s)
           \/ At(s, colon) # ":"
          THEN {}
          ELSE {<<Cut(s, start, end), SubSeq(s, first, last)>>}

\* Every piece is taken for a line.
LineOptions(s) == UNION {OptionLine(p) : p \in ToSet(Pieces(s))}
-----------------------------------------------------------------------------
(* ts_strtok, called until it returns NULL                                 *)

RECURSIVE TokensFrom(_, _, _)
TokensFrom(s, i, matching) ==
    LET tmpo == Span(s, i, matching)
        end == Cspan(s, tmpo, matching)
    IN  IF i > Len(s) THEN << >>
        ELSE <<Cut(s, tmpo, end)>> \o TokensFrom(s, end + 1, matching)
Tokens(s) == TokensFrom(s, 1, isspace)

\* LaunchRecord::ParseParam: the rest of the tokens, whether the parameters
\* have ended, and the value: 0 stands for the default.
strtoul(t) == IF At(t, 1) = "1" THEN 1 ELSE 0
ParseParam(p) ==
    IF p.ended \/ p.tokens = << >> THEN [p EXCEPT !.values = Append(@, 0)]
    ELSE IF At(Head(p.tokens), 1) = "-" /\ Len(Head(p.tokens)) > 1
      THEN [p EXCEPT !.ended = TRUE, !.values = Append(@, 0)]
      ELSE [p EXCEPT !.tokens = Tail(@), !.values = Append(@, strtoul(Head(p.tokens)))]

\* The array has room for four at first and grows when argc passes size: size
\* arguments move to the new one.
RECURSIVE Argv(_, _, _)
Argv(args, argv, size) ==
    IF args = << >> THEN argv
    ELSE LET grow == Len(argv) + 1 > size \/ argv = << >>
             kept == IF grow /\ argv # << >> THEN SubSeq(argv, 1, size) ELSE argv
         IN  Argv(Tail(args), Append(kept, Head(args)), IF grow THEN 2 * size ELSE size)

\* LaunchRecord::Parse; without an executable it fails.  beforeExtraArgs is
\* False from the start, so that -n is an argument like any other.
Parse(s) ==
    IF Tokens(s) = << >> THEN {}
    ELSE LET p == ParseParam(ParseParam([tokens |-> Tail(Tokens(s)), ended |-> FALSE,
                                         values |-> << >>]))
         IN  {[executable |-> Head(Tokens(s)), values |-> p.values,
               argv |-> Argv(p.tokens, << >>, 2)]}
-----------------------------------------------------------------------------
(* RExec::Initialize                                                       *)

\* atoi of what starts at i: the digits are 0 and 1, the value does not matter
\* but for zero
RECURSIVE Number(_, _)
Number(s, i) == IF At(s, i) = "1" THEN 1 ELSE IF At(s, i) = "0" THEN Number(s, i + 1) ELSE 0

\* A name goes up to the first star, its priority follows the last one.
Host(word) ==
    LET star == SelectLastInSubSeq(word, 1, Len(word), LAMBDA c : c = "*")
    IN  <<Cut(word, 1, Cspan(word, 1, {"*"})),
          IF star = 0 THEN 0 ELSE Number(word, star + 1)>>

\* The hosts that are found, in order; an error if a word is too long or
\* something other than a comma follows it.
RECURSIVE HostsFrom(_, _, _)
HostsFrom(s, i, found) ==
    LET ptr == Span(s, i, isspace)
        end == Cspan(s, ptr, isspace \cup {","})
        next == Span(s, end, isspace)
    IN  IF ptr > Len(s) THEN [ok |-> TRUE, hosts |-> found]
        ELSE IF end - ptr > MAX_HOSTNAME - 1 \/ At(s, next) \notin {",", "end"}
        THEN [ok |-> FALSE, hosts |-> found]
        ELSE HostsFrom(s, next + 1, Append(found, Host(Cut(s, ptr, end))))

\* numberOfHosts is one more than there are commas; hosts that no name is
\* found for keep an empty one.
NumberOfHosts(s) == Len(SelectSeq(s, LAMBDA c : c = ",")) + 1
Initialize(s) == HostsFrom(s, 1, << >>)
-----------------------------------------------------------------------------
(* PTM::ExpandOptions: address/port or address/port/ttl                    *)

Digits(s, i) == Span(s, i, {"0", "1"})

Address(s) ==
    LET slash1 == Cspan(s, 1, {"/"})
        slash2 == Cspan(s, slash1 + 1, {"/"})
        port == Number(s, slash1 + 1)
        ttl == Number(s, slash2 + 1)
        ip == Cut(s, 1, slash1)
    IN  IF slash1 > Len(s) \/ slash1 = 1 \/ Len(ip) >= MAXIP \/ port = 0 THEN {}
        ELSE IF slash2 > Len(s) THEN {<<ip, FALSE>>}
        ELSE IF Digits(s, slash1 + 1) = slash2 /\ ttl # 0 THEN {<<ip, TRUE>>}
        ELSE {}
-----------------------------------------------------------------------------
(* All texts, character by character; a description of a distiller goes on *)
(* with words.                                                             *)

Alphabet == [line |-> {" ", ":", "!", "k"}, launch |-> {" ", "-", "1", "x"},
             hosts |-> {" ", ",", "*", "1"}, address |-> {"/", "0", "1", "a"}]

VARIABLES parser, text

textVars == <<parser, text>>

TextInit == parser \in DOMAIN Alphabet /\ text = << >>

Grow ==
    /\ Len(text) < MaxText
    /\ \E c \in Alphabet[parser] : text' = Append(text, c)
    /\ UNCHANGED parser

GrowByWord ==
    /\ parser = "launch"
    /\ Len(text) \in MaxText .. MaxText + 2 * (MaxMore - 1)
    /\ text' = text \o <<" ", "x">>
    /\ UNCHANGED parser

TextNext == Grow \/ GrowByWord

TextSpec == TextInit /\ [][TextNext]_textVars

Blank(s) == ToSet(s) \subseteq isspace
Trimmed(s) == s = << >> \/ (s[1] \notin isspace /\ Last(s) \notin isspace)

\* The fields of s between the separators, by their positions
FieldsOf(s, sep) ==
    LET bounds == {0, Len(s) + 1} \cup {i \in DOMAIN s : s[i] = sep}
        nth(n) == CHOOSE i \in bounds : Cardinality({j \in bounds : j < i}) = n
    IN  [n \in 1 .. Cardinality(bounds) - 1 |-> SubSeq(s, nth(n - 1) + 1, nth(n) - 1)]
Trim(s) == CHOOSE t \in SubSeqs(s) :
             /\ Trimmed(t)
             /\ \E i \in 1 .. Len(s) + 1 : \E j \in i .. Len(s) + 1 :
                  Blank(Cut(s, 1, i)) /\ t = Cut(s, i, j) /\ Blank(Cut(s, j, Len(s) + 1))
Words(s) == SelectSeq(FieldsOf(s, " "), LAMBDA w : w # << >>)

\* A line that fits the buffer gives an option exactly if it reads
\* "key: value", spaces or none around both, the key without spaces and not
\* starting with "!"; the value is all the rest.
KeyAndValue ==
    {<<Trim(Cut(text, 1, i)), Trim(Cut(text, i + 1, Len(text) + 1))>> :
       i \in {i \in DOMAIN text :
                /\ text[i] = ":"
                /\ \A j \in 1 .. i - 1 : text[j] # ":"
                /\ Len(Words(Cut(text, 1, i))) = 1
                /\ Words(Cut(text, 1, i))[1][1] # "!"}}
LinesAreRead == parser = "line" /\ Len(text) < MAXLINE => LineOptions(text) = KeyAndValue

\* Not so: whatever its length.  The rest of a long line is another line, which
\* may be an option even in a comment.
LongLinesAreRead == parser = "line" => LineOptions(text) = KeyAndValue

\* All words of the description of a distiller are used, in order: the
\* executable, at most two parameters, none of which begins with a dash (but
\* for "-", which asks for a default), and the arguments, however the array
\* has to grow.  More than one space at the end gives one more, empty, argument.
WordsAreUsed ==
    parser = "launch" =>
      LET over == text # << >> /\ (Blank(text) \/ IsSuffix(<<" ", " ">>, text))
          words == Words(text) \o (IF over THEN << << >> >> ELSE << >>)
      IN  /\ Tokens(text) = words
          /\ \A r \in Parse(text) :
               LET params == Len(words) - 1 - Len(r.argv)
               IN  /\ r.executable = words[1]
                   /\ params \in 0 .. 2
                   /\ r.argv = SubSeq(words, params + 2, Len(words))
                   /\ \A n \in 2 .. params + 1 : words[n] = <<"-">> \/ At(words[n], 1) # "-"
                   /\ params < 2 /\ r.argv # << >> =>
                        At(r.argv[1], 1) = "-" /\ Len(r.argv[1]) > 1
                   /\ \A n \in 1 .. params : r.values[n] = strtoul(words[n + 1])
          /\ (Parse(text) = {}) = (text = << >>)

\* The hosts are the fields between the commas, trimmed, and there is room for
\* all of them; a name ends at a star, and what follows the last star is its
\* priority.  Two words between commas, or one that is too long, are an error.
HostsAreRead ==
    parser = "hosts" =>
      LET fields == FieldsOf(text, ",")
          named == IF Blank(Last(fields)) THEN Front(fields) ELSE fields
          starred(f) == FieldsOf(Trim(f), "*")
          host(f) == <<starred(f)[1],
                       IF Len(starred(f)) > 1 /\ At(Last(starred(f)), 1) = "1" THEN 1 ELSE 0>>
      IN  /\ Len(fields) = NumberOfHosts(text)
          /\ Initialize(text).ok =
               \A n \in DOMAIN fields :
                  Len(Words(fields[n])) <= 1 /\ Len(Trim(fields[n])) < MAX_HOSTNAME
          /\ Initialize(text).ok =>
               Initialize(text).hosts = [n \in DOMAIN named |-> host(named[n])]

\* An address of two or three fields with numbers other than zero is accepted
\* as it is; nothing without an address and a port is.
AddressesAreRead ==
    parser = "address" =>
      LET fields == FieldsOf(text, "/")
          number(f) == ToSet(f) \subseteq {"0", "1"} /\ "1" \in ToSet(f)
      IN  /\ (/\ Len(fields) \in 2 .. 3 /\ Len(fields[1]) \in 1 .. MAXIP - 1
              /\ \A n \in 2 .. Len(fields) : number(fields[n])) =>
               Address(text) = {<<fields[1], Len(fields) = 3>>}
          /\ \A r \in Address(text) :
               r[1] = fields[1] /\ r[1] # << >> /\ At(fields[2], 1) \in {"0", "1"}

TextsAreRead == LinesAreRead /\ WordsAreUsed /\ HostsAreRead /\ AddressesAreRead
-----------------------------------------------------------------------------
(***************************************************************************)
(* The options of the PTM: OptionDatabase (ptm/src/share/options.cc), what *)
(* PTM::ExpandOptions adds to it when the PTM starts (ptm/src/ptm/ptm.cc), *)
(* and the re-reading of the file, by OptionsFileTimer                     *)
(* (ptm/src/ptm/optionst.cc) and on SIGHUP.                                *)
(*                                                                         *)
(* A file is a sequence of <<key, word>>: how a line is taken apart is     *)
(* above.  A value is the sequence of the words that were added to it,     *)
(* "%s %s".  A word has a slash, two, or none: "short", "long" and the *)
(* others, which is all that ExpandOptions looks at.  The options ip, port *)
(* and ttl it derives from an address are one here.                        *)
(***************************************************************************)
CONSTANTS
    Files,          \* contents of the file
    Hash, NumBuckets,
    MaxTime         \* bound: edits of the file

Addresses == {"multicast", "listen"}
Derived == [multicast |-> "multicast.ip", listen |-> "listen.ip"]
Defaulted == {"rsh", "hosts"}
OptionKeys == Addresses \cup {Derived[k] : k \in Addresses} \cup Defaulted \cup {"optfile"}

VARIABLES
    file, mtime,        \* its content, {} if it is missing, and when it was modified
    db, value,          \* records are named by their keys
    lastModified, up,
    rsh,                \* what rexec runs processes with
    read                \* history: what was read last

optVars == <<file, mtime, db, value, lastModified, up, rsh, read>>

Missing == {}
Unknown == -1

D == INSTANCE Database WITH
        Records <- OptionKeys, KeyOf <- <<[k \in OptionKeys |-> k]>>,
        DuplicatesAllowed <- <<FALSE>>, owned <- {}

Find(o, k) == D!FindOne(o.db.index[1], 1, k)

\* The array for a joined value is one byte shorter than its text with the
\* blank and the NUL.
StrLen(v) == FoldLeft(LAMBDA n, w : n + (IF w = "" THEN 0 ELSE 1), Len(v) - 1, v)
newLen(v, w) == StrLen(v) + StrLen(<<w>>) + 1
Overruns(v, w) == StrLen(Append(v, w)) + 1 > newLen(v, w)

\* CreateRecord and Add: a key that is there gets the value as one more word.
\* The record is taken out and put back, at the head.
CreateRecord_Replaced(o, k, w) ==
    IF Find(o, k) # {}
      THEN [o EXCEPT !.db = D!DbRemove(@, k), !.value[k] = <<w>>]
      ELSE [o EXCEPT !.value[k] = <<w>>]
CreateRecord(o, k, w) ==
    IF Find(o, k) # {}
      THEN [o EXCEPT !.db = D!DbRemove(@, k), !.value[k] = Append(@, w),
                     !.over = @ \/ Overruns(o.value[k], w)]
      ELSE [o EXCEPT !.value[k] = <<w>>]
Add(o, k, w) ==
    LET r == CreateRecord(o, k, w) IN [r EXCEPT !.db = D!DbAdd(@, k)]

Cleared(o) ==
    [o EXCEPT !.db = D!DeleteAllRecords(@), !.value = [k \in OptionKeys |-> << >>]]

\* Create: the lines, and last the name of the file.  Nothing is added when
\* the file cannot be opened.
Create(o) ==
    IF file = Missing THEN o
    ELSE LET lines == CHOOSE f \in Files : f \in file
         IN  Add(FoldLeft(LAMBDA p, line : Add(p, line[1], line[2]), o, lines),
                 "optfile", "name")

\* Update
Reread(o) == Create(Cleared(o))

\* The address, up to the first slash, and a port, or a port and a ttl: a
\* second slash further on is an error unless it follows the port.
WellFormed(v) ==
    LET n == SelectInSeq(v, LAMBDA w : w \in {"short", "long"})
    IN  n # 0 /\ (v[n] = "short" =>
                    \A m \in n + 1 .. Len(v) : v[m] \notin {"short", "long"})

\* An empty monitor address means that there is no monitor.
BadAddress(o, k) ==
    /\ Find(o, k) # {}
    /\ ~(k = "listen" /\ o.value[k] = <<"">>)
    /\ ~WellFormed(o.value[k])

\* ExpandOptions
Expanded(o) ==
    LET addressed == FoldLeft(LAMBDA p, k : Add(p, Derived[k],
                                IF Find(p, k) = {} THEN "default" ELSE "given"),
                              o, <<"multicast", "listen">>)
    IN  FoldLeft(LAMBDA p, k : IF Find(p, k) = {} THEN Add(p, k, "default") ELSE p,
                 addressed, <<"rsh", "hosts">>)

\* What a byte behind an array hits is up to the allocator, which may abort;
\* other data that it changes is left out.
Current == [db |-> db, value |-> value, over |-> FALSE]
Set(o) ==
    /\ db' = o.db /\ value' = o.value
    /\ up' = "up" \/ (o.over /\ up' = "crashed")
Remote(o) == o.value["rsh"] \notin {<< >>, <<"">>}

OptionInit ==
    /\ \E f \in Files : file = {f}
    /\ mtime = 0
    /\ db = D!Empty
    /\ value = [k \in OptionKeys |-> << >>]
    /\ lastModified = Unknown
    /\ up = "down"
    /\ rsh = FALSE
    /\ read = Missing

\* Somebody edits the file, removes it or writes it anew.
Edit(f) ==
    /\ mtime < MaxTime
    /\ f # file
    /\ file' = f
    /\ mtime' = mtime + 1
    /\ UNCHANGED <<db, value, lastModified, up, rsh, read>>

\* main, with or without -o, and the constructor of the PTM
Start(o) ==
    /\ up = "down"
    /\ LET given == IF o THEN Create(Current) ELSE Current
           all == Expanded(given)
       IN  IF (o /\ file = Missing) \/ \E k \in Addresses : BadAddress(given, k)
             THEN /\ up' = "aborted"
                  /\ UNCHANGED <<db, value, rsh, read, lastModified>>
             ELSE /\ Set(all)
                  /\ lastModified' = IF o THEN mtime ELSE Unknown
                  /\ rsh' = Remote(all)
                  /\ read' = IF o THEN file ELSE Missing
    /\ UNCHANGED <<file, mtime>>

\* Update, and the update of rexec
TakeOver ==
    /\ LET o == Reread(Current) IN Set(o) /\ rsh' = Remote(o)
    /\ read' = file

\* OptionsFileTimer::EvTimer.  What stat leaves in buf when there is no file
\* is any time.
Timer ==
    /\ up = "up"
    /\ Find(Current, "optfile") # {}
    /\ \E st_mtime \in IF file = Missing THEN 0 .. MaxTime ELSE {mtime} :
         /\ st_mtime # lastModified
         /\ lastModified' = st_mtime
         /\ TakeOver
    /\ UNCHANGED <<file, mtime>>

\* OptionsUpdate_static: a name that is not there is copied all the same.
Hangup ==
    /\ up = "up"
    /\ IF Find(Current, "optfile") = {}
         THEN up' = "crashed" /\ UNCHANGED <<db, value, rsh, read>>
         ELSE TakeOver
    /\ UNCHANGED <<file, mtime, lastModified>>

OptionNext == Timer \/ Hangup \/ (\E o \in BOOLEAN : Start(o))
        \/ \E f \in {{g} : g \in Files} \cup {Missing} : Edit(f)

OptionSpec == OptionInit /\ [][OptionNext]_optVars

WordsOf(k) ==
    LET lines == IF read = Missing THEN << >>
                 ELSE SelectSeq(CHOOSE f \in Files : f \in read, LAMBDA l : l[1] = k)
    IN  [n \in DOMAIN lines |-> lines[n][2]]

\* However often the file changes, vanishes and is read again, a running PTM
\* has for every option the words of all its lines, in their order and once
\* each, in the file as it was read last; the name of the file is there
\* exactly if there was a file to read.  What the start up added, a word that
\* is a default or derived, is only there besides until the first re-reading.
OptionsAreTheFiles ==
    up = "up" =>
      /\ ToSet(db.records) = {k \in OptionKeys : value[k] # << >>}
      /\ IsInjective(db.records)
      /\ \A k \in OptionKeys :
           SelectSeq(value[k], LAMBDA w : w \notin {"default", "given", "name"}) = WordsOf(k)
      /\ (value["optfile"] # << >>) = (read # Missing)
      /\ \A k \in OptionKeys : \A n \in DOMAIN value[k] :
           value[k][n] \in {"default", "given"} => n = Len(value[k])

\* ptm.cc: a timer "for checking to see if the options file has been
\* modified".  Refuted: after one reading without a file, none follows.
ChangesAreNoticed ==
    up = "up" /\ lastModified # Unknown /\ file # Missing =>
      read = file \/ (value["optfile"] # << >> /\ mtime # lastModified)

\* What was remote when the PTM started stays so.  Refuted: the defaults are
\* not added again.
DefaultsSurvive == [][up = "up" /\ file = read => rsh' = rsh]_optVars

\* Reading the file again does not end the PTM.  Refuted: the value of a key
\* that has two lines is written past its array.
RereadingSurvives ==
    [][up = "up" /\ value["optfile"] # << >> => up' # "crashed"]_optVars
=============================================================================
