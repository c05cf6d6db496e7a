------------------------------ MODULE Marshal -------------------------------
(***************************************************************************)
(* What travels in the packets: the streams OStream and IStream of         *)
(* ptm/src/network/packet.cc and the messages written to them and read     *)
(* from them by different programs: a distiller's input (front end to      *)
(* distiller), its output (back), and the PTM's beacon with the list of    *)
(* distillers.  Binary numbers and raw data may hold any byte, so also the *)
(* delimiters of the text around them.                                     *)
(*                                                                         *)
(* Bytes are numbers; a UINT32 has WORD bytes here.  A read position of 0  *)
(* is a stream whose good flag is off.  A double is a number of            *)
(* hundredths, of which %f keeps the tenths (six decimals in C) and a      *)
(* float FLT_DIG decimal digits (24 binary ones); doubles whose text does  *)
(* not fit the sender's array are left out.                                *)
(***************************************************************************)
EXTENDS Integers, Sequences

CONSTANTS
    WORD,               \* bytes of a binary number
    MAX_ARG_STRING,     \* the width set for string arguments
    FLT_DIG,            \* the digits of a number that a float keeps
    Inputs, Outputs, Beacons    \* the messages tried

NUL == 0
Minus == 45
Point == 46
Slash == 47
Bar == 124

VARIABLES
    msg,        \* the message, and its kind
    packet,     \* the bytes of the packet
    got         \* what the receiver made of it

vars == <<msg, packet, got>>
-----------------------------------------------------------------------------
(* OStream *)

\* A number in network order, and in decimal
Binary(n) == [k \in 1 .. WORD |-> (n \div 256 ^ (WORD - k)) % 256]
Decimal(n) == IF n < 10 THEN <<48 + n>> ELSE <<48 + (n \div 10), 48 + (n % 10)>>

RECURSIVE Concat(_)
Concat(ss) == IF ss = << >> THEN << >> ELSE Head(ss) \o Concat(Tail(ss))

OutRemoteID(r) == r.ip \o <<Slash>> \o Decimal(r.port)
OutDistiller(d) ==
    OutRemoteID(d.rid) \o <<Bar>> \o d.type \o <<Bar>>
        \o Decimal(d.load) \o <<Bar>> \o Decimal(d.threshold)

\* The text of a double, rounded to tenths
Abs(x) == IF x < 0 THEN -x ELSE x
Nearest(x, unit) == (x + unit \div 2) \div unit
Fixed(x) ==
    LET tenths == Nearest(Abs(x), 10)
    IN (IF x < 0 THEN <<Minus>> ELSE << >>)
           \o Decimal(tenths \div 10) \o <<Point>> \o Decimal(tenths % 10)

\* DistillerRequest::Send; nothing follows the id of an unknown type.
ArgumentType == <<"int", "string", "double", "other">>
TypeNumber(t) == (CHOOSE k \in 1 .. 4 : ArgumentType[k] = t) - 1

OutArg(a) ==
    Binary(TypeNumber(a.type)) \o Binary(a.id)
        \o CASE a.type = "int" -> Binary(a.val)
             [] a.type = "string" -> a.val \o <<NUL>>
             [] a.type = "double" -> Fixed(a.val) \o <<NUL>>
             [] OTHER -> << >>

OutInput(m) ==
    Binary(Len(m.args)) \o Concat([k \in 1 .. Len(m.args) |-> OutArg(m.args[k])])
        \o Binary(Len(m.data)) \o m.data \o Binary(Len(m.meta)) \o m.meta \o m.mime

\* ProxyConnection::SendReply
OutOutput(m) ==
    Binary(m.status) \o Binary(Len(m.data)) \o m.data
        \o Binary(Len(m.meta)) \o m.meta \o m.mime

\* ConstructDistillerList: the count is put in front when it is known
Awake(list) == SelectSeq(list, LAMBDA d : d.awake)
Counted_All(list) == Len(list)
Counted(list) == Len(Awake(list))

OutBeacon(m) ==
    OutRemoteID(m.ptm) \o <<Bar>> \o Binary(m.random) \o <<Bar>>
        \o Binary(Counted(m.list))
        \o Concat([k \in 1 .. Len(Awake(m.list)) |-> OutDistiller(Awake(m.list)[k]) \o <<Bar>>])

\* getLength counts the terminating NUL
Sent(m) == (CASE m.kind = "input" -> OutInput(m)
              [] m.kind = "output" -> OutOutput(m)
              [] m.kind = "beacon" -> OutBeacon(m)) \o <<NUL>>
-----------------------------------------------------------------------------
(* IStream: a value and the position behind it *)

RECURSIVE Value(_, _)
Value(s, base) ==
    IF s = << >> THEN 0
    ELSE Value(SubSeq(s, 1, Len(s) - 1), base) * base + s[Len(s)]

Bad(v) == [v |-> v, p |-> 0]

InBinary(s, p) ==
    IF p = 0 \/ p + WORD - 1 > Len(s) THEN Bad(0)
    ELSE [v |-> Value(SubSeq(s, p, p + WORD - 1), 256), p |-> p + WORD]

\* operator >> (char *string): up to the delimiter, which is not skipped;
\* no delimiter, or a string too long for the width, fails.
InText(s, p, delimiter, width) ==
    LET ends == {q \in p .. Len(s) : s[q] = delimiter}
    IN IF p = 0 \/ ends = {} THEN Bad(<< >>)
       ELSE LET q == CHOOSE q \in ends : \A r \in ends : q <= r
            IN IF q - p > width - 1 THEN Bad(<< >>)
               ELSE [v |-> SubSeq(s, p, q - 1), p |-> q]

\* Text that sscanf makes a number of
InDecimal(s, p, delimiter) ==
    LET t == InText(s, p, delimiter, 20)
    IN IF t.p = 0 \/ t.v = << >> THEN Bad(0)
       ELSE [v |-> Value([k \in 1 .. Len(t.v) |-> t.v[k] - 48], 10), p |-> t.p]

Skip(s, p) == IF p # 0 /\ p <= Len(s) THEN p + 1 ELSE p

Extract(s, p, n) ==
    IF p = 0 \/ p + n - 1 > Len(s) THEN Bad(<< >>)
    ELSE [v |-> SubSeq(s, p, p + n - 1), p |-> p + n]

\* A length and so many bytes
InBlock(s, p) == LET n == InBinary(s, p) IN Extract(s, n.p, n.v)

InRemoteID(s, p, delimiter) ==
    LET ip == InText(s, p, Slash, 16)
        port == InDecimal(s, Skip(s, ip.p), delimiter)
    IN [v |-> [ip |-> ip.v, port |-> port.v], p |-> port.p]

InDistiller(s, p) ==
    LET rid == InRemoteID(s, p, Bar)
        type == InText(s, Skip(s, rid.p), Bar, 80)
        load == InDecimal(s, Skip(s, type.p), Bar)
        threshold == InDecimal(s, Skip(s, load.p), Bar)
    IN [v |-> [rid |-> rid.v, type |-> type.v, load |-> load.v,
               threshold |-> threshold.v, awake |-> TRUE],
        p |-> threshold.p]

\* sscanf of a text into a float
Single(text) ==
    LET negative == text # << >> /\ text[1] = Minus
        digits == SelectSeq(text, LAMBDA b : b \notin {Minus, Point})
        tenths == Value([k \in 1 .. Len(digits) |-> digits[k] - 48], 10)
        unit == IF tenths < 10 ^ FLT_DIG THEN 1 ELSE 10
    IN (IF negative THEN -10 ELSE 10) * Nearest(tenths, unit) * unit

\* One argument, and how wide strings are read after it; an unknown type is
\* an errFormattingError.
InArg(s, p, width) ==
    LET type == InBinary(s, p)
        id == InBinary(s, type.p)
        int == InBinary(s, id.p)
        str == InText(s, id.p, NUL, MAX_ARG_STRING)
        Arg(v, q, w) ==
            [v |-> [type |-> ArgumentType[type.v + 1], id |-> id.v, val |-> v], p |-> q, w |-> w]
    IN CASE type.v = 0 -> Arg(int.v, int.p, width)
         [] type.v = 1 -> Arg(str.v, Skip(s, str.p), MAX_ARG_STRING)
         [] type.v = 2 -> Arg(Single(str.v), Skip(s, str.p), MAX_ARG_STRING)
         [] OTHER -> [v |-> << >>, p |-> 0, w |-> width]

RECURSIVE InArgs(_, _, _, _)
InArgs(s, p, width, n) ==
    IF n = 0 \/ p = 0 THEN [v |-> << >>, p |-> p, w |-> width]
    ELSE LET first == InArg(s, p, width)
             rest == InArgs(s, first.p, first.w, n - 1)
         IN [v |-> <<first.v>> \o rest.v, p |-> rest.p, w |-> rest.w]

RECURSIVE InDistillers(_, _, _)
InDistillers(s, p, n) ==
    IF n = 0 \/ p = 0 THEN [v |-> << >>, p |-> p]
    ELSE LET first == InDistiller(s, p)
             rest == InDistillers(s, Skip(s, first.p), n - 1)
         IN [v |-> <<first.v>> \o rest.v, p |-> rest.p]

Failed == [kind |-> "error"]

\* ProxyConnection::UnmarshallDistillerInput
InInput(s) ==
    LET n == InBinary(s, 1)
        args == InArgs(s, n.p, Len(s), n.v)
        data == InBlock(s, args.p)
        meta == InBlock(s, data.p)
        mime == InText(s, meta.p, NUL, args.w)
    IN IF mime.p = 0 THEN Failed
       ELSE [kind |-> "input", args |-> args.v, data |-> data.v,
             meta |-> meta.v, mime |-> mime.v]

\* DistillerConnection::EvPacketReceived
InOutput(s) ==
    LET status == InBinary(s, 1)
        data == InBlock(s, status.p)
        meta == InBlock(s, data.p)
        mime == InText(s, meta.p, NUL, Len(s))
    IN IF mime.p = 0 THEN Failed
       ELSE [kind |-> "output", status |-> status.v, data |-> data.v,
             meta |-> meta.v, mime |-> mime.v]

\* PTMBeaconHandler::Handle and DistillerInfoHandler
InBeacon(s) ==
    LET ptm == InRemoteID(s, 1, Bar)
        random == InBinary(s, Skip(s, ptm.p))
        n == InBinary(s, Skip(s, random.p))
        list == InDistillers(s, n.p, n.v)
    IN IF list.p = 0 \/ ptm.v.port = 0 THEN Failed
       ELSE [kind |-> "beacon", ptm |-> ptm.v, random |-> random.v, list |-> list.v]
-----------------------------------------------------------------------------
Init ==
    /\ msg \in Inputs \cup Outputs \cup Beacons
    /\ packet = << >> /\ got = [kind |-> "none"]

Send ==
    /\ packet = << >>
    /\ packet' = Sent(msg)
    /\ UNCHANGED <<msg, got>>

Receive ==
    /\ packet # << >> /\ got.kind = "none"
    /\ got' = CASE msg.kind = "input" -> InInput(packet)
                [] msg.kind = "output" -> InOutput(packet)
                [] msg.kind = "beacon" -> InBeacon(packet)
    /\ UNCHANGED <<msg, packet>>

Next == Send \/ Receive

Spec == Init /\ [][Next]_vars
-----------------------------------------------------------------------------
\* A double that comes back: its text is off by half a tenth, and the float by
\* half of its last digit.
Near(x, y) == Abs(x - y) <= 5 + (IF Abs(x) + 5 < 10 * 10 ^ FLT_DIG THEN 0 ELSE 50)

SameArg(a, b) ==
    /\ a.type = b.type /\ a.id = b.id
    /\ IF a.type = "double" THEN Near(a.val, b.val) ELSE a.val = b.val

Known(m) == \A k \in 1 .. Len(m.args) : m.args[k].type # "other"

\* The receiver of a packet has the message that was sent, with the
\* distillers that are awake, whatever bytes the numbers and data hold; of a
\* double it has what %f and a float leave of it, and a message with an
\* argument of an unknown type is refused.
ComesBack ==
    got.kind # "none" =>
        CASE msg.kind = "beacon" -> got = [msg EXCEPT !.list = Awake(@)]
          [] msg.kind = "output" -> got = msg
          [] msg.kind = "input" /\ ~Known(msg) -> got = Failed
          [] OTHER ->
                /\ got # Failed
                /\ got = [msg EXCEPT !.args = got.args]
                /\ Len(got.args) = Len(msg.args)
                /\ \A k \in 1 .. Len(msg.args) : SameArg(msg.args[k], got.args[k])

=============================================================================
