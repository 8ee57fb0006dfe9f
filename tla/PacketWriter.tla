---------------------------- MODULE PacketWriter ----------------------------
(***************************************************************************)
(* write_packet_internal of src/protocol/mod.rs, blocking and async, with  *)
(* the cached pre-compression writers of src/defaults/ and the deflate     *)
(* loops in them.                                                          *)
(*                                                                         *)
(* Bytes are counted, not listed: a packet is the size of its id and the   *)
(* sizes of the slices its to_writer hands over; what leaves is a sequence *)
(* of fields [name, len, val], val being the number a VarInt field holds.  *)
(* MAX_PACKET_SIZE is the largest three-byte VarInt, here with Base values *)
(* per byte instead of 128.                                                *)
(***************************************************************************)
EXTENDS Naturals, Sequences

CONSTANTS
    Packets,     \* records [id, slices]
    Thresholds,  \* what set_compression_threshold is given; None for none
    None,
    Flavours,    \* subset of {"sync", "async"}
    Base,        \* values of a VarInt byte
    MaxInt,      \* i32::MAX
    AsyncBuf,    \* the async writer's output array, 512 bytes
    MaxPackets   \* bound: packets in one behaviour

\* Values below Power[k] take k bytes.
Power == <<Base, Base * Base, Base * Base * Base, Base * Base * Base * Base>>

ASSUME PacketAssumption ==
    /\ Packets # {} /\ \A p \in Packets : p.id \in Nat \ {0} /\ p.slices \in Seq(Nat)
    /\ Thresholds \subseteq Nat \union {None} /\ None \notin Nat
    /\ Flavours \subseteq {"sync", "async"}
ASSUME SizesAssumption ==
    /\ Base \in Nat \ {0, 1} /\ AsyncBuf \in Nat \ {0} /\ MaxPackets \in Nat
    /\ MaxInt \in Nat /\ MaxInt >= Power[3] - 1

VARIABLES
    flavour,    \* the provider: blocking or async
    threshold,  \* provider.compression_threshold
    packet,     \* the packet being written
    pc,         \* where write_packet_internal is
    slice,      \* slice handed to the pre-compression writer: 1 is the id
    consumed,   \* bytes of that slice deflate has taken
    raw,        \* bytes deflate took and has not encoded yet
    pending,    \* bytes deflate has encoded and not given out
    ended,      \* deflate gave out the end of the zlib stream
    length,     \* buffer.len() of the pre-compression writer
    written,    \* its `written`; buffer.len() in the async one
    rest,       \* fields still to be written
    out,        \* fields written for this packet
    packets,    \* packets written
    result

compressor == <<raw, pending, ended>>
cache == <<length, written>>
vars == <<flavour, threshold, packet, pc, slice, consumed, compressor, cache,
          rest, out, packets, result>>

-----------------------------------------------------------------------------
Minimum(a, b) == IF a < b THEN a ELSE b
Maximum(a, b) == IF a < b THEN b ELSE a

\* The sums of a sequence's prefixes, and of the whole of it.
Sums(seq) ==
    LET sum[i \in 0..Len(seq)] == IF i = 0 THEN 0 ELSE sum[i - 1] + seq[i] IN sum
Total(seq) == Sums(seq)[Len(seq)]

\* Serializable::size of a VarInt, in bytes of Base values.
VarIntSize(n) == CHOOSE k \in 1..5 :
                     (k = 1 \/ n >= Power[k - 1]) /\ (k = 5 \/ n < Power[k])
MaxPacketSizeOneMore == Power[3]
MaxPacketSize == Power[3] - 1
VarIntField(name, n) == [name |-> name, len |-> VarIntSize(n), val |-> n]
BytesField(name, n) == [name |-> name, len |-> n, val |-> 0]

\* id_size + packet_size.
Uncompressed == packet.id + Total(packet.slices)
Slices == <<packet.id>> \o packet.slices
Content == [i \in 1..Len(Slices) |-> BytesField("content", Slices[i])]

Init ==
    /\ flavour \in Flavours /\ threshold = None
    /\ packet = (CHOOSE p \in Packets : TRUE) /\ pc = "idle"
    /\ slice = 0 /\ consumed = 0 /\ raw = 0 /\ pending = 0 /\ ended = FALSE
    /\ length = 0 /\ written = 0
    /\ rest = <<>> /\ out = <<>> /\ packets = 0 /\ result = "ok"

\* set_compression_threshold, between two packets.
SetThreshold ==
    /\ pc = "idle"
    /\ threshold' \in Thresholds \ {threshold}
    /\ UNCHANGED <<flavour, packet, pc, slice, consumed, compressor, cache,
                   rest, out, packets, result>>

-----------------------------------------------------------------------------
(* write_packet_internal up to its first write. *)

Refuse == pc' = "idle" /\ result' = "oversized" /\ UNCHANGED rest
Frame(fields) == pc' = "fields" /\ rest' = fields /\ UNCHANGED result

\* Below the threshold the length counts the data_length byte, 0.
BelowSizeBare(n) == n
BelowSize(n) == n + 1

\* pre_compression_writer resets the compressor; its buffer is a new Vec.
FreshKept == UNCHANGED compressor
Fresh == raw' = 0 /\ pending' = 0 /\ ended' = FALSE

WritePacket ==
    /\ pc = "idle" /\ packets < MaxPackets
    /\ packet' \in Packets
    /\ out' = <<>> /\ packets' = packets + 1
    /\ LET n == Uncompressed' IN
           IF threshold # None /\ n >= threshold
           THEN /\ pc' = "deflate" /\ slice' = 1 /\ Fresh
                /\ length' = (IF flavour = "sync" THEN Maximum(2, packet'.id \div 2) ELSE 0)
                /\ written' = 0 /\ UNCHANGED <<rest, result>>
           ELSE /\ IF threshold = None
                   THEN IF n > MaxPacketSize THEN Refuse
                        ELSE Frame(<<VarIntField("length", n)>> \o Content')
                   ELSE IF BelowSize(n) > MaxPacketSize THEN Refuse
                        ELSE Frame(<<VarIntField("length", BelowSize(n)),
                                     VarIntField("data_length", 0)>> \o Content')
                /\ slice' = 0 /\ UNCHANGED <<compressor, cache>>
    /\ consumed' = 0
    /\ UNCHANGED <<flavour, threshold>>

-----------------------------------------------------------------------------
(* deflate (miniz_oxide), as far as its callers can tell: it takes some of  *)
(* `n` input bytes, encodes now or later, and fills up to `room` bytes of   *)
(* output.  Only with room left over has it done all that `flush` asks for. *)

Encodings(e) == IF e = 0 THEN {0} ELSE {1, e + 1}

Deflate(n, room, flush, took, gave) ==
    /\ took \in 0..n /\ (took > 0 => ~ended)
    /\ \E e \in {0, raw + took}, trailer \in {0, 1} :
           /\ flush # "None" /\ took = n => e = raw + took
           /\ trailer = IF flush = "Finish" /\ took = n /\ ~ended THEN 1 ELSE 0
           /\ \E new \in Encodings(e) :
                  /\ gave = Minimum(room, pending + new + trailer)
                  /\ pending' = pending + new + trailer - gave
           /\ raw' = raw + took - e
           /\ ended' = (ended \/ trailer = 1)
    /\ gave < room => took = n

Left == Slices[slice] - consumed

\* The next slice of the packet, or what follows the last one: flush!.
NextSlice ==
    IF slice < Len(Slices)
    THEN /\ slice' = slice + 1 /\ consumed' = 0 /\ UNCHANGED pc
    ELSE /\ UNCHANGED slice /\ consumed' = 0
         /\ pc' = IF flavour = "sync" THEN "flush" ELSE "finish"

\* 2.max(data.len().saturating_sub(consumed) - 2), on usize: below 2 it panics.
Guess(left) == Maximum(2, left - 2)
Grow(size, used, left) == IF size - used < Guess(left) THEN size + Guess(left) ELSE size

\* The writer has all of the slice in the compressor: a new call may start.
SyncDeflate ==
    /\ pc = "deflate" /\ flavour = "sync"
    /\ \E took \in 0..Left, gave \in 0..(length - written) :
           /\ Deflate(Left, length - written, "None", took, gave)
           /\ written' = written + gave
           /\ IF took = Left
              THEN /\ NextSlice
                   /\ length' = IF slice < Len(Slices)
                                THEN length + Maximum(2, Slices[slice + 1] \div 2)
                                ELSE IF length = written + gave
                                     THEN Maximum(2, length * 2) ELSE length
              ELSE /\ consumed' = consumed + took /\ UNCHANGED slice
                   /\ IF Left - took < 2
                      THEN pc' = "panicked" /\ UNCHANGED length
                      ELSE UNCHANGED pc /\ length' = Grow(length, written + gave, Left - took)
    /\ UNCHANGED <<flavour, threshold, packet, rest, out, packets, result>>

\* flush: Finish until StreamEnd, then the Vec is cut to what was written.
StreamEndAtOnce(p) == p \in Nat
StreamEnd(p) == p = 0
TruncatedTooEarly(size, used) == IF size > used THEN written ELSE used
Truncated(size, used) == used
SyncFlush ==
    /\ pc = "flush"
    /\ \E gave \in 0..(length - written) :
           /\ Deflate(0, length - written, "Finish", 0, gave)
           /\ written' = written + gave
           /\ IF StreamEnd(pending')
              THEN pc' = "finish" /\ length' = Truncated(length, written + gave)
              ELSE UNCHANGED pc /\ length' = length * 2
    /\ UNCHANGED <<flavour, threshold, packet, slice, consumed, rest, out, packets, result>>

\* The async writer flushes inside write, into an array, and stops as soon as
\* deflate has taken the whole slice; its own flush and finish do nothing.
AsyncDeflate ==
    /\ pc = "deflate" /\ flavour = "async"
    /\ \E took \in 0..Left, gave \in 0..AsyncBuf :
           /\ Deflate(Left, AsyncBuf, "Sync", took, gave)
           /\ written' = written + gave /\ length' = written + gave
           /\ IF took = Left THEN NextSlice
              ELSE consumed' = consumed + took /\ UNCHANGED <<slice, pc>>
    /\ UNCHANGED <<flavour, threshold, packet, rest, out, packets, result>>

\* finish: the payload and its size, and the limits that depend on them.
CompressedSize(n) == VarIntSize(n) + length
Finish ==
    /\ pc = "finish"
    /\ LET n == Uncompressed IN
           IF n > MaxInt \/ CompressedSize(n) > MaxPacketSize THEN Refuse
           ELSE Frame(<<VarIntField("length", CompressedSize(n)),
                        VarIntField("data_length", n), BytesField("payload", length)>>)
    /\ UNCHANGED <<flavour, threshold, packet, slice, consumed, compressor, cache,
                   out, packets>>

\* deflate, or the packet's own to_writer, fails: nothing has been written yet.
PreCompressionFails ==
    /\ pc \in {"deflate", "flush"}
    /\ pc' = "idle" /\ result' = "not_started"
    /\ UNCHANGED <<flavour, threshold, packet, slice, consumed, compressor, cache,
                   rest, out, packets>>

-----------------------------------------------------------------------------
(* The writes to the stream, and its flush. *)

WriteField ==
    /\ pc = "fields" /\ rest # <<>>
    /\ out' = Append(out, Head(rest)) /\ rest' = Tail(rest)
    /\ UNCHANGED <<flavour, threshold, packet, pc, slice, consumed, compressor,
                   cache, packets, result>>

FlushStream ==
    /\ pc = "fields" /\ rest = <<>>
    /\ pc' = "idle" /\ result' = "ok"
    /\ UNCHANGED <<flavour, threshold, packet, slice, consumed, compressor, cache,
                   rest, out, packets>>

\* A write fails or is dropped: the stream may end inside a frame, and the
\* connection with it.
StreamFails ==
    /\ pc = "fields"
    /\ pc' = "closed" /\ result' = "stream_error"
    /\ UNCHANGED <<flavour, threshold, packet, slice, consumed, compressor, cache,
                   rest, out, packets>>

Next ==
    \/ SetThreshold \/ WritePacket
    \/ SyncDeflate \/ SyncFlush \/ AsyncDeflate \/ Finish \/ PreCompressionFails
    \/ WriteField \/ FlushStream \/ StreamFails

Spec == Init /\ [][Next]_vars

\* A call runs until it returns: it is never left between two of its steps.
FairSpec == Spec /\ WF_vars(SyncDeflate) /\ WF_vars(SyncFlush) /\ WF_vars(AsyncDeflate)
                 /\ WF_vars(Finish) /\ WF_vars(WriteField) /\ WF_vars(FlushStream)

-----------------------------------------------------------------------------
(* Properties. *)

\* Shape of the state; the slice &mut self.buffer[self.written..] is in bounds.
TypeOK ==
    /\ flavour \in Flavours /\ threshold \in Thresholds \union {None}
    /\ packet \in Packets /\ packets \in 0..MaxPackets
    /\ pc \in {"idle", "deflate", "flush", "finish", "fields", "closed", "panicked"}
    /\ slice \in 0..Len(Slices) /\ consumed \in Nat
    /\ raw \in Nat /\ pending \in Nat /\ ended \in BOOLEAN
    /\ written \in 0..length
    /\ result \in {"ok", "oversized", "not_started", "stream_error"}

Bytes(fields) == Total([i \in DOMAIN fields |-> fields[i].len])
Named(name) == {i \in DOMAIN out : out[i].name = name}
ContentBytes == Total([i \in DOMAIN out |-> IF out[i].name = "content" THEN out[i].len ELSE 0])

\* A packet written with Ok is a frame as read_packet takes it apart: the length
\* counts every byte after it, data_length is 0 before plain content and the
\* size before compression otherwise - whatever deflate gave back.
FrameExact ==
    pc = "idle" /\ result = "ok" /\ out # <<>> =>
        /\ out[1].name = "length" /\ out[1].val = Bytes(Tail(out))
        /\ \A i \in Named("data_length") :
               out[i].val = IF Named("payload") = {} THEN 0 ELSE Uncompressed
        /\ IF Named("payload") = {}
           THEN ContentBytes = Uncompressed
           ELSE Named("content") = {}

\* read_packet bounds the length field to three bytes; the limits of the three
\* branches keep every frame within that, and refuse before the first byte.
FitsReaderBound ==
    /\ out # <<>> => out[1].len <= 3
    /\ result = "oversized" /\ pc = "idle" => out = <<>>

\* The payload is what deflate made of the whole packet: nothing of it is left
\* in the compressor, no spare bytes of the Vec follow it.
PayloadReady == pc = "fields" /\ (\E i \in DOMAIN rest : rest[i].name = "payload")
PayloadWhole == PayloadReady => raw = 0 /\ pending = 0 /\ length = written

\* The blocking writer's, which also ends the zlib stream.
SyncPayloadWhole == flavour = "sync" => PayloadWhole /\ (PayloadReady => ended)

\* write "returns an error if it cannot be done".
NoPanic == pc # "panicked"

\* The deflate loops end whatever deflate takes and gives per call.
WriteReturns ==
    pc \in {"deflate", "flush", "finish", "fields"} ~> pc \in {"idle", "closed", "panicked"}
=============================================================================
