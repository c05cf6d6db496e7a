------------------------------ MODULE Sockets ------------------------------
(***************************************************************************)
(* How bytes and packets cross a connection: the loops around read and     *)
(* write of client_lib, packets of the PTM library over TCP, and its       *)
(* datagrams on the multicast channel.                                     *)
(***************************************************************************)
EXTENDS Integers, Sequences, SequencesExt, FiniteSets
-----------------------------------------------------------------------------
(***************************************************************************)
(* correct_write, correct_write_to, correct_read and correct_read_to of    *)
(* client_lib/src/utils.c: loops around write, read and select that go on  *)
(* after EAGAIN and EINTR, and the same with a timeout for every call.     *)
(*                                                                         *)
(* A writer and a reader at the two ends of a connection that takes Room   *)
(* bytes; each chooses the variant with or without timeout.  Bytes are     *)
(* numbered.  The kernel may transfer less than asked for, interrupt any   *)
(* call MaxInterrupts times, and break the connection.                     *)
(***************************************************************************)
CONSTANTS
    IoLengths,        \* len, of both calls
    IoRoom,           \* what the connection holds
    MaxInterrupts   \* bound: EINTR and EAGAIN

Ends == {"writer", "reader"}

VARIABLES
    call,       \* the calls: timed, len, sofar, pc and the results ret, timed_out
    bytes,       \* bytes under way
    buffer,     \* what the reader has: data
    connected,         \* is the connection there?
    interrupts

ioVars == <<call, bytes, buffer, connected, interrupts>>

Entry(timed, len) == IF len = 0 THEN "return" ELSE IF timed THEN "select" ELSE "io"

IoInit ==
    /\ \E timed \in [Ends -> BOOLEAN], len \in [Ends -> IoLengths] :
         call = [e \in Ends |->
                   [timed |-> timed[e], len |-> len[e], sofar |-> 0,
                    pc |-> Entry(timed[e], len[e]), ret |-> len[e], timed_out |-> 0]]
    /\ bytes = << >> /\ buffer = << >> /\ connected = TRUE /\ interrupts = 0

Return(e, ret, timed_out) ==
    call' = [call EXCEPT ![e].pc = "return", ![e].ret = ret, ![e].timed_out = timed_out]

\* Can write or read be called without blocking?
Ready(e) == ~connected \/ IF e = "writer" THEN Len(bytes) < IoRoom ELSE bytes # << >>

\* select: ready, interrupted (the loop goes on), timed out, failed
Select(e) ==
    /\ call[e].pc = "select"
    /\ \/ /\ Ready(e)
          /\ call' = [call EXCEPT ![e].pc = "io"]
          /\ UNCHANGED interrupts
       \/ /\ interrupts < MaxInterrupts
          /\ interrupts' = interrupts + 1
          /\ UNCHANGED call
       \/ /\ ~Ready(e)
          /\ Return(e, call[e].sofar, 1)
          /\ UNCHANGED interrupts
       \/ /\ ~connected
          /\ Return(e, -1, 0)
          /\ UNCHANGED interrupts
    /\ UNCHANGED <<bytes, buffer, connected>>

\* One more turn of the loop after n more bytes
Advanced_Restart(c, n) ==
    [c EXCEPT !.sofar = n, !.pc = IF n = c.len THEN "return" ELSE Entry(c.timed, c.len)]
Advanced(c, n) ==
    LET sofar == c.sofar + n
    IN  [c EXCEPT !.sofar = sofar,
                  !.pc = IF sofar = c.len THEN "return" ELSE Entry(c.timed, c.len)]

\* EAGAIN and EINTR: another turn
Again(e) ==
    /\ call[e].pc = "io"
    /\ interrupts < MaxInterrupts
    /\ interrupts' = interrupts + 1
    /\ call' = [call EXCEPT ![e] = Advanced(call[e], 0)]
    /\ UNCHANGED <<bytes, buffer, connected>>

\* write(s, data + sofar, len - sofar)
IoWrite ==
    LET c == call["writer"]
    IN  /\ c.pc = "io"
        /\ IF connected
             THEN \E n \in 1 .. c.len - c.sofar :
                    /\ n <= IoRoom - Len(bytes)
                    /\ bytes' = bytes \o [k \in 1 .. n |-> c.sofar + k]
                    /\ call' = [call EXCEPT !["writer"] = Advanced(c, n)]
             ELSE Return("writer", -1, 0) /\ UNCHANGED bytes
        /\ UNCHANGED <<buffer, connected, interrupts>>

\* read(s, data + sofar, len - sofar); 0 at the end of a closed connection
IoRead ==
    LET c == call["reader"]
    IN  /\ c.pc = "io"
        /\ \/ \E n \in 1 .. c.len - c.sofar :
                /\ n <= Len(bytes)
                /\ buffer' = SubSeq(buffer, 1, c.sofar) \o SubSeq(bytes, 1, n)
                /\ bytes' = SubSeq(bytes, n + 1, Len(bytes))
                /\ call' = [call EXCEPT !["reader"] = Advanced(c, n)]
           \/ /\ ~connected /\ bytes = << >>
              /\ \E ret \in {0, -1} : Return("reader", ret, 0)
              /\ UNCHANGED <<bytes, buffer>>
        /\ UNCHANGED <<connected, interrupts>>

\* The connection breaks, or the writer's caller closes it after the call.
IoBreak ==
    /\ connected /\ connected' = FALSE
    /\ \/ UNCHANGED bytes
       \/ bytes # << >> /\ bytes' = << >>
    /\ UNCHANGED <<call, buffer, interrupts>>

IoNext == IoWrite \/ IoRead \/ IoBreak \/ \E e \in Ends : Select(e) \/ Again(e)

IoSpec == IoInit /\ [][IoNext]_ioVars
-----------------------------------------------------------------------------
\* However the bytes are cut up by short transfers, signals and timeouts: what
\* the reader has is the beginning of what was written, with no byte lost,
\* repeated or out of order; len comes back only from a call that moved len
\* bytes, and after a timeout the number that comes back is what was moved.
\* After an error the caller does not know how much that was.
ResultsTellTheTruth ==
    LET w == call["writer"]  r == call["reader"]
    IN  /\ Len(buffer) = r.sofar
        /\ \A k \in DOMAIN buffer : buffer[k] = k
        /\ connected => w.sofar = r.sofar + Len(bytes)
        /\ \A e \in Ends :
             LET c == call[e]
             IN  c.pc = "return" =>
                   /\ c.ret = c.len => c.sofar = c.len
                   /\ c.timed_out = 1 => c.timed /\ c.ret = c.sofar /\ c.sofar < c.len
                   /\ c.ret < c.len /\ c.timed_out = 0 => c.ret <= 0 /\ ~connected
-----------------------------------------------------------------------------
(***************************************************************************)
(* Packets over one TCP connection: Socket::Write and Socket::Read of      *)
(* ptm/src/network/packet.cc and sockets.cc, MultipleUsersSocket of        *)
(* ptm/src/cache/cachenet.cc, which several threads write to, and          *)
(* gm_PacketHandler::EvSelect of the reader.                               *)
(*                                                                         *)
(* A header is the words MAGIC, the length and the packet's number (type   *)
(* and request-reply id); the data are words that repeat the number.       *)
(* write() and read() take as many words as they like, at least one.  A    *)
(* signal (the front end handles SIGHUP) may make either fail with EINTR   *)
(* before it took any; neither Write nor Read tries again then, except     *)
(* where Read selects first.                                               *)
(***************************************************************************)
CONSTANTS
    Writers,    \* threads that share the connection
    MaxPackets, \* bound: packets written
    Lengths,    \* lengths of data, in words
    Room,       \* words that are under way at most
    Interrupts  \* bound: calls that fail with EINTR

MAGIC == 0
HeaderSize == 3

VARIABLES
    mutex,      \* writeMutex: the writer that holds it, or {}
    writer,     \* each thread: words of the current part, then of the data
    wire,       \* the words under way
    up,         \* the writers' side of the connection is up
    reader,     \* what is being read, and the words it has so far
    entered,    \* packets in the order in which Write began
    delivered,  \* packets given to EvPacketReceived
    ignored,    \* headers with an invalid magic key
    cut,        \* a call failed inside a packet, the connection being up
    eintr       \* calls that failed with EINTR so far

streamVars == <<mutex, writer, wire, up, reader, entered, delivered, ignored,
          cut, eintr>>

Idle == [buf |-> << >>, data |-> << >>, busy |-> FALSE, wrote |-> FALSE]
NewPacket == [want |-> HeaderSize, header |-> << >>, got |-> << >>]

StreamInit ==
    /\ mutex = {} /\ writer = [w \in Writers |-> Idle]
    /\ wire = << >> /\ up = TRUE /\ reader = NewPacket
    /\ entered = << >> /\ delivered = << >> /\ ignored = 0
    /\ cut = FALSE /\ eintr = 0

Packet(id, len) == [id |-> id, data |-> [k \in 1 .. len |-> id]]

\* MultipleUsersSocket::Write takes the mutex, then Socket::Write begins.
Available_Always(w) == TRUE
Available(w) == mutex = {}

Enter(w, len) ==
    /\ ~writer[w].busy /\ Len(entered) < MaxPackets
    /\ Available(w)
    /\ mutex' = {w}
    /\ LET id == Len(entered) + 1 IN
       /\ entered' = Append(entered, Packet(id, len))
       /\ writer' = [writer EXCEPT ![w] =
             [buf |-> <<MAGIC, len, id>>, data |-> Packet(id, len).data,
              busy |-> TRUE, wrote |-> FALSE]]
    /\ UNCHANGED <<wire, up, reader, delivered, ignored, cut, eintr>>

\* The loop of Socket::Write(buf, size), for the header and for the data
Written(w, n) ==
    LET rest == SubSeq(writer[w].buf, n + 1, Len(writer[w].buf))
    IN IF rest # << >> THEN [writer[w] EXCEPT !.buf = rest, !.wrote = TRUE]
       ELSE IF writer[w].data = << >> THEN Idle
       ELSE [writer[w] EXCEPT !.buf = writer[w].data, !.data = << >>,
                                  !.wrote = TRUE]

WriteSome(w, n) ==
    /\ writer[w].busy /\ up
    /\ n \in 1 .. Len(writer[w].buf) /\ Len(wire) + n <= Room
    /\ wire' = wire \o SubSeq(writer[w].buf, 1, n)
    /\ writer' = [writer EXCEPT ![w] = Written(w, n)]
    /\ mutex' = IF writer'[w] = Idle THEN {} ELSE mutex
    /\ UNCHANGED <<up, reader, entered, delivered, ignored, cut, eintr>>

\* write() fails: EPIPE on a closed connection, or EINTR
WriteFails(w) ==
    /\ writer[w].busy
    /\ \/ ~up /\ UNCHANGED <<cut, eintr>>
       \/ /\ up /\ eintr < Interrupts
          /\ eintr' = eintr + 1
          /\ cut' = (cut \/ writer[w].wrote)
    /\ writer' = [writer EXCEPT ![w] = Idle]
    /\ mutex' = {}
    /\ entered' = IF writer[w].wrote THEN entered
                  ELSE SelectSeq(entered, LAMBDA p : p.id # writer[w].buf[HeaderSize])
    /\ UNCHANGED <<wire, up, reader, delivered, ignored>>

\* Socket::Read(buf, size) without a time limit takes what is there; when it
\* has all, Socket::Read(packet) looks at the header, or EvSelect delivers.
Completed(got) ==
    IF reader.header = << >>
    THEN CASE got[1] # MAGIC -> [next |-> NewPacket, out |-> << >>, bad |-> 1]
           [] got[1] = MAGIC /\ got[2] = 0 ->
                [next |-> NewPacket, out |-> <<Packet(got[3], 0)>>, bad |-> 0]
           [] OTHER -> [next |-> [want |-> got[2], header |-> got, got |-> << >>],
                        out |-> << >>, bad |-> 0]
    ELSE [next |-> NewPacket,
          out |-> <<[id |-> reader.header[3], data |-> got]>>, bad |-> 0]

ReadSome(n) ==
    LET got == reader.got \o SubSeq(wire, 1, n) IN
    /\ n \in 1 .. Len(wire) /\ Len(got) <= reader.want
    /\ wire' = SubSeq(wire, n + 1, Len(wire))
    /\ IF Len(got) < reader.want
       THEN /\ reader' = [reader EXCEPT !.got = got]
            /\ UNCHANGED <<delivered, ignored>>
       ELSE /\ reader' = Completed(got).next
            /\ delivered' = delivered \o Completed(got).out
            /\ ignored' = ignored + Completed(got).bad
    /\ UNCHANGED <<mutex, writer, up, entered, cut, eintr>>

\* read() fails with EINTR: errSocketReadError, which HandleSelectError only
\* logs; the words of the packet that were read are gone.
ReadFails ==
    /\ reader # NewPacket /\ eintr < Interrupts
    /\ reader' = NewPacket
    /\ eintr' = eintr + 1
    /\ cut' = TRUE
    /\ UNCHANGED <<mutex, writer, wire, up, entered, delivered, ignored>>

\* The writers' process dies, or closes: what is under way still arrives,
\* then Read returns errSocketEOF and the connection is given up.
Break ==
    /\ up
    /\ up' = FALSE
    /\ UNCHANGED <<mutex, writer, wire, reader, entered, delivered, ignored,
                   cut, eintr>>

EvConnectionBroken ==
    /\ ~up /\ wire = << >> /\ reader # NewPacket
    /\ reader' = NewPacket
    /\ UNCHANGED <<mutex, writer, wire, up, entered, delivered, ignored,
                   cut, eintr>>

StreamNext ==
    \/ \E w \in Writers : \/ \E len \in Lengths : Enter(w, len)
                          \/ \E n \in 1 .. Room : WriteSome(w, n)
                          \/ WriteFails(w)
    \/ \E n \in 1 .. Room : ReadSome(n)
    \/ ReadFails \/ Break \/ EvConnectionBroken

StreamSpec == StreamInit /\ [][StreamNext]_streamVars
-----------------------------------------------------------------------------
\* While no call is interrupted inside a packet, the reader sees the packets
\* whole and in the order of the writers' turns, with none in between that
\* is not one, whatever the sizes in which the words travel and wherever
\* the connection breaks.
FramesWhole ==
    ~cut => /\ ignored = 0
            /\ Len(delivered) <= Len(entered)
            /\ delivered = SubSeq(entered, 1, Len(delivered))

\* (Not so) The same with a call that is interrupted: the next packet's
\* words are then read as the rest of the packet that was cut, or a header
\* is looked for in the middle of data.
FramesAlwaysWhole ==
    \A k \in 1 .. Len(delivered) : \E j \in 1 .. Len(entered) : delivered[k] = entered[j]
-----------------------------------------------------------------------------
(***************************************************************************)
(* Packets on the multicast channel: MulticastSocket::Write and Read of    *)
(* ptm/src/network/packet.cc and multicast.cc.  A datagram is a sequence   *)
(* of words: the checksum of the others, the magic key, the type, the      *)
(* length and the data.  The sum is over signed bytes, which is why a word *)
(* may be negative.                                                        *)
(*                                                                         *)
(* The network may lose a datagram, deliver it late, twice or not at all,  *)
(* change one word of it, or cut it short; each datagram suffers one fault *)
(* at most.                                                                *)
(***************************************************************************)
CONSTANTS
    Words,          \* what a byte may be
    Types,
    MAXDGRAMSIZE,   \* in words
    MaxSent         \* bound: packets written

MAGIC_KEY == 1
checksumSize == 1
DgramHeader == 3

VARIABLES sent, net, received, status

dgramVars == <<sent, net, received, status>>

DgramInit == sent = {} /\ net = {} /\ received = {} /\ status = "success"

Datagram(type, data) == [type |-> type, data |-> data]

Checksum(words) == FoldLeft(LAMBDA x, y : x + y, 0, words)

\* MulticastSocket::Write: a packet that is too large is refused.
Framed(p) ==
    LET body == <<MAGIC_KEY, p.type, Len(p.data)>> \o p.data
    IN  <<Checksum(body)>> \o body

Write(p) ==
    /\ Cardinality(sent) < MaxSent
    /\ IF checksumSize + DgramHeader + Len(p.data) > MAXDGRAMSIZE
         THEN UNCHANGED <<sent, net>> /\ status' = "errTooLargeDatagram"
         ELSE /\ sent' = sent \cup {p}
              /\ net' = net \cup {[words |-> Framed(p), of |-> p, fault |-> "none"]}
              /\ status' = "success"
    /\ UNCHANGED received

Replace(d, e) == net' = (net \ {d}) \cup {e}

Change(d) ==
    /\ d.fault = "none"
    /\ \E i \in DOMAIN d.words : \E w \in Words :
         /\ w # d.words[i]
         /\ Replace(d, [d EXCEPT !.words[i] = w, !.fault = "changed"])
    /\ UNCHANGED <<sent, received, status>>

Truncate(d) ==
    /\ d.fault = "none"
    /\ \E n \in 0 .. Len(d.words) - 1 :
         Replace(d, [d EXCEPT !.words = SubSeq(@, 1, n), !.fault = "cut"])
    /\ UNCHANGED <<sent, received, status>>

\* MulticastSocket::Read and VerifyChecksum: the first test that fails
Extracted_NoLength(words) ==
    LET body == Tail(words)
    IN  IF Len(words) = 0 THEN "errSocketEOF"
        ELSE IF Len(words) < checksumSize + DgramHeader THEN "errSocketReadNotEnoughData"
        ELSE IF Checksum(body) # words[1] THEN "errChecksumError"
        ELSE IF body[1] # MAGIC_KEY THEN "errInvalidMagicKey"
        ELSE "success"
Extracted(words) ==
    LET body == Tail(words)
        rest == Len(body) - DgramHeader
    IN  IF Len(words) = 0 THEN "errSocketEOF"
        ELSE IF Len(words) < checksumSize + DgramHeader THEN "errSocketReadNotEnoughData"
        ELSE IF Checksum(body) # words[1] THEN "errChecksumError"
        ELSE IF body[1] # MAGIC_KEY THEN "errInvalidMagicKey"
        ELSE IF body[3] > rest THEN "errSocketReadNotEnoughData"
        ELSE IF body[3] < rest THEN "errFormattingError"
        ELSE "success"

\* A datagram may stay to be read once more.
Read(d) ==
    /\ LET result == Extracted(d.words)
           body == Tail(d.words)
       IN  /\ status' = result
           /\ received' = IF result # "success" THEN received
                          ELSE received \cup {Datagram(body[2], SubSeq(body, 4, Len(body)))}
    /\ net' \in {net, net \ {d}}
    /\ UNCHANGED sent

Datagrams == {Datagram(t, data) : t \in Types, data \in BoundedSeq(Words, MAXDGRAMSIZE - 3)}

DgramNext == (\E p \in Datagrams : Write(p))
        \/ \E d \in net : Change(d) \/ Truncate(d) \/ Read(d)

DgramSpec == DgramInit /\ [][DgramNext]_dgramVars

\* Whatever the network does to it, a datagram that arrives whole is taken for
\* the packet that was written, and one that was changed or cut is refused:
\* nothing is received that nobody sent.
ReceivedWasSent ==
    /\ received \subseteq sent
    /\ \A d \in net : (Extracted(d.words) = "success") = (d.fault = "none")
=============================================================================
