------------------------- MODULE HandshakeDetection -------------------------
(***************************************************************************)
(* The server's first read: HandshakeVersion::from_reader tells a modern   *)
(* handshake packet from the three legacy pings by their first bytes and,  *)
(* where a ping may end, by whether another byte comes within 5 ms; then   *)
(* read_handshake reads the packet inside the bound it found.  The bytes   *)
(* that decide are kept, the others are counted.                           *)
(***************************************************************************)
EXTENDS Naturals, Sequences

CONSTANTS
    Lengths,      \* length fields a modern client sends
    DataLengths,  \* data lengths of a 1.6 ping, as the u16 on the wire
    Pipelined     \* by its length, what a modern client sends right after its handshake

ASSUME LengthsAssumption ==
    Lengths \subseteq Nat /\ \A n \in Lengths : n <= 2^30 - 1 + 2^30
ASSUME DataLengthsAssumption ==
    DataLengths \subseteq Nat /\ \A d \in DataLengths : d < 2^16
ASSUME PipelinedAssumption == Pipelined \in [Lengths -> Nat]

VARIABLES
    client,    \* who is talking and what it sends
    prompt,    \* TRUE: its next byte is always there within the 5 ms
    arrived,   \* bytes of it the network has delivered
    closed,    \* the client's end is closed after them
    pos,       \* bytes the server has consumed
    pc,        \* where the server is, or the outcome of the call
    version,   \* the HandshakeVersion found
    value,     \* its bound, and `value` while the length is read
    offset,    \* offset of the length loop
    left,      \* bytes left within the bound
    blocking,  \* the stream's mode
    probe,     \* what the non-blocking read gave
    result     \* the handler's result

stream == <<client, prompt, arrived, closed>>
found == <<version, value, offset, left>>
vars == <<stream, pos, pc, found, blocking, probe, result>>

Returned == {"ok", "handler_error", "unknown", "malformed", "oversized",
             "negative", "eof", "io_error"}

-----------------------------------------------------------------------------
(* The clients. *)

\* A client's VarInt, by its value.  Its groups of seven bits weigh 1, 2^7, 2^14,
\* 2^21 and 2^28.
Weight == <<128, 128 * 128, 128 * 128 * 128, 128 * 128 * 128 * 128>>
Size(n) == CHOOSE k \in 1..5 :
               /\ k = 1 \/ n >= Weight[k - 1]
               /\ k = 5 \/ n < Weight[k]
Group(n, i) == (IF i = 1 THEN n ELSE n \div Weight[i - 1]) % 128
Encode(n) ==
    [i \in 1..Size(n) |-> Group(n, i) + IF i < Size(n) THEN 128 ELSE 0]

Modern(n, i) ==
    [kind |-> "Standard", head |-> Encode(n), channel |-> "none",
     data |-> n, id |-> i, packet |-> Size(n) + n]
\* i16::from_be_bytes.
Negative(d) == d >= 2^15
Ping(name, bytes, ch, d) ==
    [kind |-> name, head |-> bytes, channel |-> ch, data |-> d, id |-> 0,
     packet |-> IF ch = "none" THEN Len(bytes)
                ELSE Len(bytes) + 26 + IF Negative(d) THEN 0 ELSE d]

\* Packet ids of one and two bytes, as VarInts.
SentIds == {0, 1, 128}
IdBytes(i) == IF i = 128 THEN <<128, 1>> ELSE <<i>>

\* A ping's client sends nothing behind it.
Clients ==
    {Modern(n, i) : n \in Lengths, i \in SentIds}
    \union {Ping("Pre1_3", <<254>>, "none", 0), Ping("Pre1_6", <<254, 1>>, "none", 0)}
    \union {Ping("Legacy1_6", <<254, 1, 250>>, "good", d) : d \in DataLengths}
    \union {Ping("Legacy1_6", <<254, 1, 250>>, ch, 0) : ch \in {"bad_length", "bad_name"}}
    \union {Ping("other", <<254, 2>>, "none", 0), Ping("other", <<254, 1, 251>>, "none", 0)}

Sent(c) == c.packet + IF c.kind = "Standard" THEN Pipelined[c.data] ELSE 0

\* Where the network may cut the stream: at every byte that decides something,
\* in the middle and at the end of the rest.
Cuts(c) ==
    {n \in 0..(Len(c.head) + Len(IdBytes(c.id))) : n <= c.packet}
      \union {n \in {Len(c.head) + 12, Len(c.head) + 26} : c.channel # "none"}
      \union {c.packet, Sent(c)}

\* The byte at index n; beyond the deciding ones, a modern packet's id comes
\* first, and no later byte is looked at.
ByteAt(c, n) ==
    IF n <= Len(c.head) THEN c.head[n]
    ELSE IF n <= Len(c.head) + Len(IdBytes(c.id)) THEN IdBytes(c.id)[n - Len(c.head)]
    ELSE 0

-----------------------------------------------------------------------------
Init ==
    /\ client \in Clients /\ prompt \in BOOLEAN
    /\ arrived = 0 /\ closed = FALSE /\ pos = 0 /\ pc = "first"
    /\ version = "none" /\ value = 0 /\ offset = 0 /\ left = 0
    /\ blocking = TRUE /\ probe = [tag |-> "idle", byte |-> 0] /\ result = "ok"

Arrive ==
    /\ ~closed
    /\ \E n \in Cuts(client) : n > arrived /\ arrived' = n
    /\ UNCHANGED <<client, prompt, closed, pos, pc, found, blocking, probe, result>>

Close ==
    /\ ~closed /\ closed' = TRUE
    /\ UNCHANGED <<client, prompt, arrived, pos, pc, found, blocking, probe, result>>

\* A blocking read of n bytes returns, or finds the end of the stream.
Has(n) == arrived >= pos + n
Ends(n) == ~Has(n) /\ closed

Fail(n, outcome) ==
    /\ pos' = pos + n /\ pc' = outcome
    /\ UNCHANGED <<stream, found, blocking, probe, result>>

-----------------------------------------------------------------------------
(* HandshakeVersion::from_reader. *)

\* The first byte is a ping's or starts the packet length; the length keeps it whole.
LengthStart(b) == b
ReadFirst ==
    /\ pc = "first" /\ Has(1)
    /\ LET b == ByteAt(client, 1) IN
           IF b = 254
           THEN pc' = "probe_second" /\ UNCHANGED found
           ELSE /\ value' = LengthStart(b)
                /\ IF b >= 128
                   THEN pc' = "length" /\ offset' = 7 /\ UNCHANGED version
                   ELSE pc' = "bound" /\ version' = "Standard" /\ UNCHANGED offset
                /\ UNCHANGED left
    /\ pos' = pos + 1
    /\ UNCHANGED <<stream, blocking, probe, result>>

\* The offsets of (7..24).step_by(7).
LastOffset == 21

\* value | bits: the first byte's bit 7 may already be set.
Bit7(n) == (n \div 128) % 2 = 1
OrBits(v, bits) == IF Bit7(v) /\ Bit7(bits) THEN v + bits - 128 ELSE v + bits

\* Four bytes at most leave the i32 positive: its NegativeLength is never met.
ReadLength ==
    /\ pc = "length" /\ Has(1)
    /\ LET b == ByteAt(client, pos + 1) IN
           IF b >= 128 /\ offset = LastOffset
           THEN Fail(1, "oversized")
           ELSE /\ value' = OrBits(value, (b % 128) * Weight[offset \div 7])
                /\ IF b >= 128
                   THEN offset' = offset + 7 /\ UNCHANGED <<pc, version>>
                   ELSE pc' = "bound" /\ version' = "Standard" /\ UNCHANGED offset
                /\ pos' = pos + 1
                /\ UNCHANGED <<stream, left, blocking, probe, result>>

Probing == pc \in {"probe_second", "probe_channel"}

\* try_read_byte, after its sleep.
ProbeBegin ==
    /\ Probing /\ probe.tag = "idle"
    /\ \/ /\ blocking' = FALSE /\ probe' = [tag |-> "armed", byte |-> 0]
          /\ UNCHANGED <<stream, pos, pc, found, result>>
       \/ Fail(0, "io_error")

ProbeRead ==
    /\ probe.tag = "armed"
    /\ \/ /\ Has(1)
          /\ probe' = [tag |-> "byte", byte |-> ByteAt(client, pos + 1)]
          /\ pos' = pos + 1
       \/ /\ ~Has(1) /\ ~closed /\ (prompt => pos >= Sent(client))
          /\ probe' = [tag |-> "none", byte |-> 0] /\ UNCHANGED pos
       \/ /\ Ends(1)
          /\ probe' = [tag |-> "eof", byte |-> 0] /\ UNCHANGED pos
    /\ UNCHANGED <<stream, pc, found, blocking, result>>

\* What the probed byte says.
AnswerSwapped(where, p) ==
    IF p.tag = "none" THEN IF where = "probe_second" THEN "Pre1_6" ELSE "Pre1_3"
    ELSE "none"
Answer(where, p) ==
    IF p.tag = "none" THEN IF where = "probe_second" THEN "Pre1_3" ELSE "Pre1_6"
    ELSE "none"
GotoAskAgain(where, p) ==
    IF p.tag = "eof" THEN "eof"
    ELSE IF p.tag = "none" THEN where
    ELSE IF where = "probe_second" /\ p.byte = 1 THEN "probe_channel"
    ELSE IF where = "probe_channel" /\ p.byte = 250 THEN "channel"
    ELSE "malformed"
Goto(where, p) ==
    IF p.tag = "eof" THEN "eof"
    ELSE IF p.tag = "none" THEN "bound"
    ELSE IF where = "probe_second" /\ p.byte = 1 THEN "probe_channel"
    ELSE IF where = "probe_channel" /\ p.byte = 250 THEN "channel"
    ELSE "malformed"

\* set_blocking(true) comes before the result is looked at, errors included.
RestoredOnSuccess == probe.tag # "eof"
Restored == TRUE
ProbeEnd ==
    /\ probe.tag \in {"byte", "none", "eof"}
    /\ probe' = [tag |-> "idle", byte |-> 0]
    /\ \/ /\ blocking' = (blocking \/ Restored)
          /\ pc' = Goto(pc, probe) /\ version' = Answer(pc, probe)
       \/ /\ pc' = "io_error" /\ UNCHANGED <<blocking, version>>
    /\ UNCHANGED <<stream, pos, value, offset, left, result>>

ReadChannel ==
    /\ pc = "channel"
    /\ \/ /\ client.channel = "bad_length" /\ Has(2) /\ Fail(2, "malformed")
       \/ /\ client.channel = "bad_name" /\ Has(24) /\ Fail(24, "malformed")
       \/ /\ client.channel = "good" /\ Has(24)
          /\ pos' = pos + 24 /\ pc' = "data"
          /\ UNCHANGED <<stream, found, blocking, probe, result>>

ReadData ==
    /\ pc = "data" /\ Has(2)
    /\ IF Negative(client.data)
       THEN Fail(2, "negative")
       ELSE /\ pos' = pos + 2 /\ pc' = "bound"
            /\ version' = "Legacy1_6" /\ value' = client.data
            /\ UNCHANGED <<stream, offset, left, blocking, probe, result>>

-----------------------------------------------------------------------------
(* The rest of read_handshake. *)

WithBound ==
    /\ pc = "bound"
    /\ left' = IF version \in {"Standard", "Legacy1_6"} THEN value ELSE 0
    /\ pc' = IF version = "Standard" THEN "id" ELSE "handler"
    /\ UNCHANGED <<stream, pos, version, value, offset, blocking, probe, result>>

\* A VarInt within the bound.  Ids above 0 are unknown; the rest of the packet
\* stays in the stream.
IdLength == Len(IdBytes(client.id))
ReadId ==
    /\ pc = "id"
    /\ \/ left < IdLength /\ Has(left) /\ Fail(left, "eof")
       \/ /\ left >= IdLength /\ Has(IdLength)
          /\ pos' = pos + IdLength /\ left' = left - IdLength
          /\ pc' = IF client.id = 0 THEN "handler" ELSE "unknown"
          /\ UNCHANGED <<stream, version, value, offset, blocking, probe, result>>

\* The handler takes nothing or everything within the bound, then returns.
Handle ==
    /\ pc = "handler"
    /\ \E n \in {0, left} : Has(n) /\ pos' = pos + n /\ left' = left - n
    /\ result' \in {"ok", "handler_error"}
    /\ pc' = "discard"
    /\ UNCHANGED <<stream, version, value, offset, blocking, probe>>

DiscardedOneMore == left + 1
DiscardedNothing == 0
Discarded == left
DiscardRemaining ==
    /\ pc = "discard" /\ Has(left)
    /\ pos' = pos + Discarded /\ left' = 0 /\ pc' = result
    /\ UNCHANGED <<stream, version, value, offset, blocking, probe, result>>

\* Any blocking read may find the end of the stream.
WantedNoEndOfDiscard ==
    CASE pc \in {"first", "length"} -> 1
      [] pc = "id" -> IF left < IdLength THEN left ELSE IdLength
      [] pc = "channel" -> IF client.channel = "bad_length" THEN 2 ELSE 24
      [] pc = "data" -> 2
      [] OTHER -> 0
Wanted ==
    CASE pc \in {"first", "length"} -> 1
      [] pc = "id" -> IF left < IdLength THEN left ELSE IdLength
      [] pc = "channel" -> IF client.channel = "bad_length" THEN 2 ELSE 24
      [] pc = "data" -> 2
      [] pc = "discard" -> left
      [] OTHER -> 0
ReadEof == Ends(Wanted) /\ Fail(0, "eof")

Server ==
    \/ ReadFirst \/ ReadLength \/ ProbeBegin \/ ProbeRead \/ ProbeEnd
    \/ ReadChannel \/ ReadData \/ WithBound \/ ReadId \/ Handle
    \/ DiscardRemaining \/ ReadEof

Next == Arrive \/ Close \/ Server

Spec == Init /\ [][Next]_vars

\* The server's thread runs; the network delivers what was sent.
FairSpec == Spec /\ WF_vars(Server) /\ WF_vars(Arrive)

-----------------------------------------------------------------------------
(* Properties. *)

\* The server is never ahead of the network, and four length bytes leave the
\* bound a non-negative number of 28 bits.
TypeOK ==
    /\ client \in Clients /\ prompt \in BOOLEAN /\ arrived \in 0..Sent(client) /\ closed \in BOOLEAN
    /\ pos \in 0..arrived /\ left \in Nat
    /\ value \in Nat /\ (version # "Legacy1_6" => value < Weight[4])
    /\ offset \in {0, 7, 14, 21} /\ blocking \in BOOLEAN
    /\ version \in {"none", "Standard", "Legacy1_6", "Pre1_6", "Pre1_3"}
    /\ pc \in Returned \union {"first", "length", "probe_second", "probe_channel",
                              "channel", "data", "bound", "id", "handler", "discard"}
    /\ probe.tag \in {"idle", "armed", "byte", "none", "eof"} /\ probe.byte \in 0..255
    /\ result \in {"ok", "handler_error"}

\* When no byte is more than 5 ms behind, every client is taken for what it is
\* and nothing well-formed is rejected as a malformed ping - but for a modern
\* packet whose length starts with 0xFE, which the first byte cannot tell apart.
Ambiguous == client.kind = "Standard" /\ client.head[1] = 254
RightVersion ==
    prompt /\ ~Ambiguous =>
        /\ version # "none" => version = client.kind
        /\ pc = "malformed" => client.kind = "other" \/ client.channel # "good"

\* Late bytes only ever make a ping look older: a response is never in a format
\* the client does not know.
Rank(kind) == CASE kind = "Pre1_3" -> 1 [] kind = "Legacy1_6" -> 3 [] OTHER -> 2
NeverUpgraded ==
    version # "none" =>
        /\ (version = "Standard") <=> (client.kind = "Standard" /\ ~Ambiguous)
        /\ Rank(version) <= Rank(client.kind)

\* Outside the probe every read blocks, also those of later packets: only a
\* failed set_blocking leaves the stream non-blocking, and it fails the call.
BlockingReads ==
    ~blocking => pc = "io_error" \/ (pc \in {"probe_second", "probe_channel"} /\ probe.tag # "idle")

\* A modern packet whose length is decoded wrong: the length loop starts from the
\* whole first byte, whose bit 7 a length of two to four bytes may have clear.
Misread ==
    /\ client.kind = "Standard" /\ ~Ambiguous
    /\ Size(client.data) \in 2..4 /\ ~Bit7(client.data)

\* A call that ran the handler on the client's own version ends on the last byte
\* of the client's packet, so that the login that follows at once stays readable -
\* but for a misread length, whose 128 bytes too many come out of what follows.
EndsOnPacket ==
    pc \in {"ok", "handler_error"} /\ version = client.kind /\ ~Misread =>
        pos = client.packet

\* The handshake of an open, silent connection ends with the bytes the client
\* announced, ping or packet: nothing asks again for a byte that did not come and
\* nothing waits for one of its own.  A misread length does: its discard waits for
\* up to 128 bytes that nobody announced.
Answered == ~Misread => <>(pc \in Returned)

\* "this is a VarInt": the bound is the length the client wrote.
LengthIsVarInt == version = "Standard" => value = client.data
=============================================================================
