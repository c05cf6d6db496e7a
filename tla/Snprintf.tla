----------------------------- MODULE Snprintf ------------------------------
(***************************************************************************)
(* frontend/src/snprintf.c, for systems without snprintf(): the conversion *)
(* of a format with its arguments into a buffer of limited length.         *)
(*                                                                         *)
(* A format is a sequence of characters and conversions, and a conversion  *)
(* holds its flags, width (-1 for none), precision (-1 for none), letter   *)
(* and argument; with the flag star, width and precision are arguments.    *)
(* Integers have Bits bits.  A floating point number is a number of        *)
(* thousandths, so that the arithmetic of ap_cvt is exact; there is no     *)
(* infinity and no NaN.  Left out: %g, %p, NDIG, NUM_BUF_SIZE, and %n,     *)
(* which no format of the proxy has (it stores the length so far, and then *)
(* prints as many bytes as the conversion before it has made).             *)
(*                                                                         *)
(* The format grows by one item at a time; the properties compare the text *)
(* made of it with a definition of what the conversion should give.        *)
(***************************************************************************)
EXTENDS Integers, Sequences, SequencesExt

CONSTANTS Bits,         \* width of an integer
          FLOAT_DIGITS, \* 6: the precision if none is given
          Integral,     \* conversions of integers
          Textual,      \* conversions of strings and characters, and literals
          Floating,     \* conversions of floating point numbers
          MaxItems,     \* bound: items of a format
          Lengths       \* lengths of the buffer

Unit == 1000            \* a floating point argument counts 1/Unit
Digit == <<"0", "1", "2", "3", "4", "5", "6", "7", "8", "9", "a", "b", "c", "d", "e", "f">>

RECURSIVE Based(_, _)
\* The digits of a number, at least one.
Based(n, base) == IF n < base THEN << Digit[n + 1] >>
                  ELSE Append(Based(n \div base, base), Digit[(n % base) + 1])

Unsigned(n) == n % 2^Bits
Copies(ch, n) == [i \in 1 .. (IF n > 0 THEN n ELSE 0) |-> ch]
-----------------------------------------------------------------------------
(* Numbers                                                                 *)

\* The magnitude of a negative number is made without overflow.
conv_10(num, is_unsigned) ==
    IF is_unsigned THEN [negative |-> FALSE, s |-> Based(Unsigned(num), 10)]
    ELSE [negative |-> num < 0,
          s |-> Based(IF num < 0 THEN Unsigned(-(num + 1)) + 1 ELSE num, 10)]

conv_p2(num, nbits) == Based(Unsigned(num), 2^nbits)

\* A decimal digit string and the position of the decimal point in it.
RECURSIVE Leading(_), Tail10(_, _), Carried(_, _)
Leading(frac) == IF frac = 0 \/ frac * 10 >= Unit THEN 0 ELSE 1 + Leading(frac * 10)
Tail10(frac, n) == IF n <= 0 THEN << >>
                   ELSE << (frac * 10) \div Unit >> \o Tail10((frac * 10) % Unit, n - 1)
\* 5 was added to digit i; carries go to the left, and off the end.
Carried(ds, i) ==
    IF ds[i] <= 9 THEN [digits |-> ds, over |-> FALSE]
    ELSE IF i = 1 THEN [digits |-> [ds EXCEPT ![1] = 1], over |-> TRUE]
    ELSE Carried([ds EXCEPT ![i] = 0, ![i - 1] = @ + 1], i - 1)

DigitValues(b) == [i \in DOMAIN b |-> CHOOSE d \in 0 .. 9 : Digit[d + 1] = b[i]]

\* The first p1 digits, after rounding at the next one
Rounded(c, p1, r2, eflag) ==
    LET end == IF c.over /\ ~eflag THEN p1 + 1 ELSE p1
        kept == IF c.over /\ ~eflag /\ p1 > 0 THEN [c.digits EXCEPT ![p1 + 1] = 0] ELSE c.digits
    IN [digits |-> [i \in 1 .. end |-> Digit[kept[i] + 1]],
        decpt |-> IF c.over THEN r2 + 1 ELSE r2]
Cut(ds, p1, r2, eflag) ==
    IF p1 < 0 THEN [digits |-> << >>, decpt |-> r2]
    ELSE Rounded(Carried([ds EXCEPT ![p1 + 1] = @ + 5], p1 + 1), p1, r2, eflag)
Converted(whole, frac, r2, p1, eflag) ==
    Cut(whole \o Tail10(frac, p1 + 1 - Len(whole)), p1, r2, eflag)

\* A number of at least 1, and one with zeros behind the point
Large(whole, frac, ndigits, eflag) ==
    Converted(whole, frac, Len(whole), ndigits + (IF eflag THEN 0 ELSE Len(whole)), eflag)
Small(zeros, frac, ndigits, eflag) ==
    Converted(<< >>, frac * 10^zeros, -zeros, ndigits - (IF eflag THEN 0 ELSE zeros), eflag)
ap_cvt(arg, ndigits, eflag) ==
    IF arg >= Unit THEN Large(DigitValues(Based(arg \div Unit, 10)), arg % Unit, ndigits, eflag)
    ELSE Small(Leading(arg), arg, ndigits, eflag)

ap_fcvt(arg, ndigits) == ap_cvt(arg, ndigits, FALSE)
ap_ecvt(arg, ndigits) == ap_cvt(arg, ndigits, TRUE)

Point(on) == IF on THEN << "." >> ELSE << >>

Fixed(p, add_dp, precision) ==
    IF p.decpt <= 0
    THEN << "0" >> \o Point(precision > 0 \/ add_dp)
         \o (IF precision > 0 THEN Copies("0", -p.decpt) ELSE << >>) \o p.digits
    ELSE SubSeq(p.digits, 1, p.decpt) \o Point(precision > 0 \/ add_dp)
         \o SubSeq(p.digits, p.decpt + 1, Len(p.digits))
Exponent(n) ==
    << IF n.negative THEN "-" ELSE "+" >> \o (IF Len(n.s) = 1 THEN << "0" >> ELSE << >>) \o n.s
Scientific(p, add_dp, precision) ==
    << p.digits[1] >> \o Point(precision > 0 \/ add_dp) \o Tail(p.digits) \o << "e" >>
    \o (IF p.decpt = 1 THEN << "+", "0", "0" >> ELSE Exponent(conv_10(p.decpt - 1, FALSE)))

conv_fp(format, num, add_dp, precision) ==
    LET arg == IF num < 0 THEN -num ELSE num
    IN [negative |-> num < 0,
        s |-> IF format = "f" THEN Fixed(ap_fcvt(arg, precision), add_dp, precision)
              ELSE Scientific(ap_ecvt(arg, precision + 1), add_dp, precision)]
-----------------------------------------------------------------------------
(* One conversion                                                          *)

FIX_PRECISION_Always(precision, s) ==
    Copies("0", (IF precision = -1 THEN 2 ELSE precision) - Len(s)) \o s

FIX_PRECISION(precision, s) == Copies("0", precision - Len(s)) \o s

Sign(c, negative) ==
    IF negative THEN << "-" >>
    ELSE IF c.plus THEN << "+" >> ELSE IF c.blank THEN << " " >> ELSE << >>

\* A null pointer, and what is printed for one, whatever the precision
NULL == << "NULL" >>
S_NULL == << "(", "n", "u", "l", "l", ")" >>

\* Width and precision that were given as arguments: a negative width is the
\* flag -, a negative precision 0.
FromArguments(c) ==
    [c EXCEPT !.left = @ \/ c.width < 0, !.width = IF @ < 0 THEN -@ ELSE @,
              !.prec = IF @ < 0 THEN 0 ELSE @]
Read(c) == IF c.star THEN FromArguments(c) ELSE c

\* The text of a conversion, its prefix, and whether the 0 flag still counts.
Text(c, i_num) ==
    CASE c.letter \in {"d", "u"} ->
           LET n == conv_10(c.arg, c.letter = "u") IN
           [s |-> FIX_PRECISION(c.prec, n.s), zero |-> c.zero,
            prefix |-> IF c.letter = "u" THEN << >> ELSE Sign(c, n.negative)]
      [] c.letter = "o" ->
           LET s == FIX_PRECISION(c.prec, conv_p2(c.arg, 3)) IN
           [s |-> IF c.alt /\ s[1] # "0" THEN << "0" >> \o s ELSE s, zero |-> c.zero,
            prefix |-> << >>]
      [] c.letter = "x" ->
           LET s == FIX_PRECISION(c.prec, conv_p2(c.arg, 4)) IN
           [s |-> IF c.alt /\ i_num # 0 THEN << "0", "x" >> \o s ELSE s, zero |-> c.zero,
            prefix |-> << >>]
      [] c.letter \in {"f", "e"} ->
           LET n == conv_fp(c.letter, c.arg, c.alt, IF c.prec = -1 THEN FLOAT_DIGITS ELSE c.prec) IN
           [s |-> n.s, zero |-> c.zero, prefix |-> Sign(c, n.negative)]
      [] c.letter = "s" /\ c.arg = NULL -> [s |-> S_NULL, zero |-> FALSE, prefix |-> << >>]
      [] c.letter = "s" /\ c.arg # NULL ->
           [s |-> IF c.prec >= 0 /\ c.prec < Len(c.arg) THEN SubSeq(c.arg, 1, c.prec) ELSE c.arg,
            zero |-> FALSE, prefix |-> << >>]
      [] c.letter \in {"c", "%"} -> [s |-> c.arg, zero |-> FALSE, prefix |-> << >>]
      [] OTHER -> [s |-> << "%", c.letter >>, zero |-> FALSE, prefix |-> << >>]

\* PAD on the side that the flags say; zeros go after the prefix.
Padded(c, t) ==
    LET s == t.prefix \o t.s
        fill == Copies(IF t.zero THEN "0" ELSE " ", c.width - Len(s))
    IN IF c.left THEN s \o fill
       ELSE IF t.zero THEN t.prefix \o fill \o t.s ELSE fill \o s

\* A literal character is a conversion without a letter.
Item(c, i_num) == IF c.letter = "" THEN c.arg ELSE Padded(Read(c), Text(Read(c), i_num))

\* INS_CHAR drops what does not fit; i_num keeps the last signed argument.
Inserted(buf, s, room) == SubSeq(buf \o s, 1, IF Len(buf \o s) < room THEN Len(buf \o s) ELSE room)

format_converter(fmt, room) == FoldLeft(
    LAMBDA st, c : [buf |-> Inserted(st.buf, Item(c, st.i_num), room),
                    i_num |-> IF c.letter \in {"d", "u"} THEN c.arg ELSE st.i_num],
    [buf |-> << >>, i_num |-> 0], fmt)

\* A length of 0 after the terminating NUL is taken for no limit at all.
NoLimit == 1000
strx_printv(fmt, len) == format_converter(fmt, IF len = 0 THEN NoLimit ELSE len).buf
snprintf(fmt, len) == strx_printv(fmt, len - 1)
-----------------------------------------------------------------------------
VARIABLES format, length

fmtVars == <<format, length>>

Init == format = << >> /\ length \in Lengths
Grow == /\ Len(format) < MaxItems
        /\ \E c \in Integral \cup Textual \cup Floating : format' = Append(format, c)
        /\ UNCHANGED length
Next == Grow
Spec == Init /\ [][Next]_fmtVars
-----------------------------------------------------------------------------
Full == snprintf(format, NoLimit)

\* The buffer receives as much of the text as it has room for beside the NUL.
CutTo(s, n) == SubSeq(s, 1, IF Len(s) < n THEN Len(s) ELSE n)
ResultIsCut == length > 1 => snprintf(format, length) = CutTo(Full, length - 1)

RECURSIVE Value(_, _)
Value(s, base) == IF s = << >> THEN 0
    ELSE base * Value(Front(s), base) + (CHOOSE d \in 0 .. 15 : Digit[d + 1] = Last(s))

Single == Len(format) = 1
Conversion == format[1]

\* An integer is written with its sign and its digits, at least as many as the
\* precision says, and fills the width on the side the flags say.
BaseOf(c) == CASE c.letter \in {"d", "u"} -> 10 [] c.letter = "o" -> 8 [] OTHER -> 16
Magnitude(c) ==
    IF c.letter = "d" THEN (IF c.arg < 0 THEN -c.arg ELSE c.arg) ELSE Unsigned(c.arg)
AtLeast(n, m) == IF n < m THEN m ELSE n
WrittenAs(c, s, core, digits, natural) ==
    /\ Value(core, BaseOf(c)) = Magnitude(c)
    /\ Len(s) = AtLeast(natural, c.width)
    /\ Len(core) = IF c.zero /\ ~c.left /\ c.width > natural
                   THEN c.width - (natural - digits) ELSE digits
    /\ c.letter = "d" => (\E i \in 1 .. Len(s) : s[i] = "-") = (c.arg < 0)
    /\ ~c.zero /\ c.width > natural => IF c.left THEN Last(s) = " " ELSE s[1] = " "
IntegerWritten(c, s, digits) ==
    LET signed == c.letter = "d" /\ (c.arg < 0 \/ c.plus \/ c.blank)
    IN WrittenAs(c, s, SelectSeq(s, LAMBDA ch : ch \notin {" ", "-", "+"}), digits,
                 digits + (IF signed THEN 1 ELSE 0))
IntegersAreWritten == Single /\ Conversion \in Integral /\ ~Conversion.alt =>
    IntegerWritten(Conversion, Full,
                   AtLeast(Len(Based(Magnitude(Conversion), BaseOf(Conversion))), Conversion.prec))

\* %f rounds to the precision, half up, unless the number is so small that its
\* first digit lies behind the last one printed.
RoundedTo(arg, prec, s) ==
    LET tiny == arg < Unit /\ Leading(arg) > prec /\ prec > 0
    IN ~tiny => Value(SelectSeq(s, LAMBDA ch : ch \notin {" ", "-", "+", "."}), 10)
                = (2 * arg * 10^prec + Unit) \div (2 * Unit)
FixedIsRounded == Single /\ Conversion \in Floating /\ Conversion.letter = "f" =>
    RoundedTo(IF Conversion.arg < 0 THEN -Conversion.arg ELSE Conversion.arg,
              IF Conversion.prec = -1 THEN FLOAT_DIGITS ELSE Conversion.prec, Full)

\* %e has one digit before the point, and the exponent makes it the number:
\* m * 10^scale and arg / Unit differ by at most half a unit of m.
Power(n) == IF n > 0 THEN 10^n ELSE 1
Near(m, scale, arg) ==
    LET left == 2 * m * Unit * Power(scale)
        right == 2 * arg * Power(-scale)
    IN left - right <= Unit * Power(scale) /\ right - left <= Unit * Power(scale)
ExponentRight(arg, prec, s, start, e) ==
    LET x == Value(SubSeq(s, e + 2, Len(s)), 10)
    IN /\ Near(Value(SubSeq(s, start, e - 1), 10), (IF s[e + 1] = "-" THEN -x ELSE x) - prec, arg)
       /\ s[start] # "0"
ExponentOf(arg, prec, s) ==
    ExponentRight(arg, prec, s, IF s[1] \in {"-", "+"} THEN 2 ELSE 1,
                  SelectInSeq(s, LAMBDA ch : ch = "e"))
ExponentIsRight == Single /\ Conversion \in Floating /\ Conversion.letter = "e"
                   /\ Conversion.arg # 0 =>
    ExponentOf(IF Conversion.arg < 0 THEN -Conversion.arg ELSE Conversion.arg, Conversion.prec,
               SelectSeq(Full, LAMBDA ch : ch \notin {" ", "."}))

\* Formats are converted as they should be.
FormatsAreConverted == ResultIsCut /\ IntegersAreWritten /\ FixedIsRounded /\ ExponentIsRight

\* Refuted by the code: a buffer of one byte gets the NUL alone.  A length of
\* 0 stands for no limit in strx_printv.
OneByteIsEnough == length = 1 => snprintf(format, 1) = << >>

\* Refuted by the code: #x puts 0x before a number that is not 0.  The test is
\* of the last signed argument.
HexIsMarked == Single /\ Conversion.letter = "x" /\ Conversion.alt =>
    (Conversion.arg # 0) = (Len(Full) > 1 /\ Full[2] = "x")

\* Refuted by the code: %f prints as many decimals as the precision says.
DecimalsAsAsked == Single /\ Conversion.letter = "f" /\ Conversion.prec > 0 =>
    Len(Full) - SelectInSeq(Full, LAMBDA ch : ch = ".") = Conversion.prec
=============================================================================
