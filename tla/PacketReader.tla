---------------------------- MODULE PacketReader ----------------------------
(***************************************************************************)
(* ProtocolHandler::read_packet and async_read_packet over the default     *)
(* stream providers: BufReader, the two Take bounds and the inflating      *)
(* reader between them.                                                    *)
(*                                                                         *)
(* The peer's stream is a sequence of frames.  Bytes carry no values here, *)
(* only their place: a frame is                                            *)
(*   lenBytes   bytes of the length VarInt,                                *)
(*   dataLen    bytes of the data_length VarInt (0 without compression),   *)
(*   kind       "raw" | "deflate" | "negative" (a negative data_length),   *)
(*   head, data, tail  bytes of the body: zlib header, content, trailer;   *)
(*   claim      the decompressed length that data_length announces,        *)
(*   known      whether the packet id names a packet of the state.         *)
(* The first content byte is the packet id, and each data byte of a        *)
(* deflated body inflates to one byte.                                     *)
(***************************************************************************)
EXTENDS Naturals, Sequences, FiniteSets

CONSTANTS
    Streams,   \* the sequences of frames a peer may send
    Capacity,  \* buffer_size of the BufReader
    Arrivals   \* subset of {"pieces", "whole"}

\* The frames of a stream, all of them written under the same threshold.
FramesOf(s) == {s[i] : i \in DOMAIN s}
Frames == UNION {FramesOf(s) : s \in Streams}

ASSUME ReaderAssumption ==
    /\ \A s \in Streams :
           /\ s \in Seq(FramesOf(s)) /\ s # <<>>
           /\ \A f, g \in FramesOf(s) : f.dataLen = 0 <=> g.dataLen = 0
    /\ \A f \in Frames :
           /\ f.lenBytes \in 1..4 /\ f.dataLen \in 0..5
           /\ f.kind \in {"raw", "deflate", "negative"}
           /\ {f.head, f.data, f.tail, f.claim} \subseteq Nat
           /\ f.known \in BOOLEAN
           /\ f.kind # "raw" => f.dataLen > 0
           /\ f.kind # "deflate" => f.head = 0 /\ f.tail = 0 /\ f.claim = f.data
    /\ Capacity \in Nat \ {0} /\ Arrivals \subseteq {"pieces", "whole"}

VARIABLES
    stream,    \* the frames the peer writes
    arrival,   \* "whole": a frame arrives in one piece and fits the BufReader
    sent,      \* the peer's bytes before it closes the connection
    cur,       \* index of the frame being read
    start,     \* where that frame starts
    pos,       \* bytes taken out of the BufReader
    buffered,  \* bytes that entered the BufReader
    pc,        \* where read_packet is; "idle" between two calls
    left,      \* limit of the Take the handler sees
    dict,      \* inflated bytes the InflateState holds
    handler,   \* "ok" or "error": the result of handle_packet
    result     \* of the last read_packet

position == <<pos, buffered>>
peer == <<stream, arrival, sent>>
vars == <<peer, cur, start, pos, buffered, pc, left, dict, handler, result>>

-----------------------------------------------------------------------------
Minimum(a, b) == IF a < b THEN a ELSE b

Frame == stream[cur]
Body(f) == f.head + f.data + f.tail
Size(f) == f.lenBytes + f.dataLen + Body(f)
End == start + Size(Frame)

\* Bytes the Take over the frame (packet_length) still lets through.
Outer == End - pos

\* Frames as the reader's own writer would send them, complete on arrival.
WellFormed(f) ==
    /\ f.lenBytes \in 1..3 /\ f.data > 0 /\ f.kind # "negative"
    /\ f.claim = f.data
Arrived == sent >= End

Init ==
    /\ stream \in Streams /\ arrival \in Arrivals
    /\ sent \in 0..(Size(stream[1]) + IF Len(stream) > 1 THEN Size(stream[2]) ELSE 0)
    /\ cur = 1 /\ start = 0 /\ pos = 0 /\ buffered = 0
    /\ pc = "idle" /\ left = 0 /\ dict = 0
    /\ handler = "ok" /\ result = "ok"

-----------------------------------------------------------------------------
(* The BufReader. *)

\* Where its contents may end once n more bytes have been taken from it: it
\* reads from the socket only when it is empty, what and as much as is there.
BufferedPastEnd(n) == {pos + n + Capacity}
BufferedAfter(n) ==
    IF buffered >= pos + n THEN {buffered}
    ELSE IF arrival = "pieces" THEN (pos + n)..Minimum(sent, pos + n + Capacity - 1)
    ELSE {Minimum(sent, End)}

\* read_exact of n bytes under a Take of limit m succeeds.
AvailableUnbounded(n, m) == m >= 0 /\ pos + n <= sent
Available(n, m) == n <= m /\ pos + n <= sent

TakeBytes(n) ==
    /\ pos' = pos + n
    /\ buffered' \in BufferedAfter(n)

\* It does not: everything it could get is gone, UnexpectedEof.
TakeUpTo(m) ==
    /\ pos' = Minimum(pos + m, sent)
    /\ buffered' = IF buffered > pos' THEN buffered ELSE pos'

\* read_packet returns.  The next call starts where the stream stands.
Return(r) == /\ pc' = IF r \in {"ok", "handler_error"} THEN "returned" ELSE "closed"
             /\ result' = r

-----------------------------------------------------------------------------
(* read_packet up to the packet id. *)

Start ==
    /\ pc = "idle"
    /\ pc' = "length"
    /\ UNCHANGED <<peer, cur, start, position, left, dict, handler, result>>

\* with_bound!(reader(3)) over the length VarInt.
LengthBound == 3

\* packet_length.
ReadLength ==
    /\ pc = "length"
    /\ IF Available(Frame.lenBytes, LengthBound)
       THEN /\ TakeBytes(Frame.lenBytes)
            /\ pc' = IF Frame.dataLen > 0 THEN "data_length" ELSE "id"
            /\ left' = Body(Frame)
            /\ UNCHANGED result
       ELSE TakeUpTo(Minimum(LengthBound, Frame.lenBytes)) /\ Return("eof") /\ UNCHANGED left
    /\ UNCHANGED <<peer, cur, start, dict, handler>>

\* data_length, only with a compression threshold; 0 means not compressed.
\* with_decompression resets the InflateState.
ReadDataLength ==
    /\ pc = "data_length"
    /\ IF ~Available(Frame.dataLen, Outer)
       THEN TakeUpTo(Outer) /\ Return("eof") /\ UNCHANGED left
       ELSE /\ TakeBytes(Frame.dataLen)
            /\ IF Frame.kind = "negative"
               THEN Return("negative") /\ UNCHANGED left
               ELSE pc' = "id" /\ left' = Frame.claim /\ UNCHANGED result
    /\ dict' = 0
    /\ UNCHANGED <<peer, cur, start, handler>>

-----------------------------------------------------------------------------
(* The inflating reader. *)

Fed == pos - (End - Body(Frame))

\* Content bytes among the first n compressed ones.
Content(n) ==
    IF n <= Frame.head THEN 0 ELSE Minimum(n - Frame.head, Frame.data)

\* fill_buf under the frame's limit: the part of the frame that is buffered.
Chunks ==
    IF Outer = 0 THEN {0}
    ELSE {Minimum(b - pos, Outer) : b \in BufferedAfter(Minimum(1, sent - pos))}

\* One call of read that asks for `want` bytes takes in n compressed ones and
\* gives out `got`; what the InflateState holds goes out before input is taken.
InflateReadDropsRest(want, got, n) ==
    LET out == Content(Fed + n) - Content(Fed) + dict IN
        /\ IF dict > 0 THEN n = 0 ELSE n \in Chunks \ {0}
        /\ got = Minimum(out, want)
        /\ dict' = 0
InflateRead(want, got, n) ==
    LET out == Content(Fed + n) - Content(Fed) + dict IN
        /\ IF dict > 0 THEN n = 0 ELSE n \in Chunks \ {0}
        /\ got = Minimum(out, want)
        /\ dict' = out - got

\* Input and InflateState are both empty: MZError::Buf.
InflateStarvedAtEof == dict = 0 /\ pos = sent
InflateStarved == dict = 0 /\ (Outer = 0 \/ pos = sent)

\* The bytes taken from the BufReader for one call of read.
Consume(n) ==
    /\ pos' = pos + n
    /\ buffered' \in {b \in BufferedAfter(Minimum(1, sent - pos)) :
                          n > 0 => Minimum(b - pos, Outer) = n}

-----------------------------------------------------------------------------
(* Reading of the content: the id, the handler, the discard. *)

Reading == pc \in {"id", "handle", "discard"}
Raw == Frame.kind = "raw"

\* The id read through the inner bound decides who goes on.
AfterId == IF Frame.known THEN pc' = "handle" /\ UNCHANGED result
                          ELSE Return("unknown_packet")

\* The whole of the content has been discarded: `result` is returned.
AfterDiscard ==
    IF left' = 0 THEN Return(IF handler = "ok" THEN "ok" ELSE "handler_error")
                 ELSE UNCHANGED <<pc, result>>

\* Bytes a single read asks for, by what is reading; a handler may ask for more
\* than its bound.
Wants == IF pc = "id" THEN {1}
         ELSE IF pc = "handle" THEN 1..left + 1
         ELSE {left}

\* After a successful read in any of the three places.
Proceed ==
    IF pc = "id" THEN AfterId
    ELSE IF pc = "discard" THEN AfterDiscard
    ELSE UNCHANGED <<pc, result>>

\* handle_packet gives h; the rest of the packet is discarded whatever it is.
AfterHandlerUnlessError(h) ==
    IF h = "ok" THEN pc' = "discard" /\ UNCHANGED result ELSE Return("handler_error")
AfterHandler(h) == h \in {"ok", "error"} /\ pc' = "discard" /\ UNCHANGED result

\* A read that could not be satisfied is the handler's error, or read_packet's.
ReadFails ==
    IF pc = "handle" THEN handler' = "error" /\ AfterHandler("error")
                     ELSE Return("eof") /\ UNCHANGED handler

RawRead ==
    /\ Reading /\ Raw /\ left > 0
    /\ \E n \in Wants :
           IF Available(n, left)
           THEN TakeBytes(n) /\ left' = left - n /\ Proceed /\ UNCHANGED handler
           ELSE /\ TakeUpTo(left)
                /\ left' = left - (pos' - pos)
                /\ ReadFails
    /\ UNCHANGED <<peer, cur, start, dict>>

\* read_exact and io::copy take a read of 0 bytes for the end of the stream.
Inflate ==
    /\ Reading /\ ~Raw /\ left > 0 /\ ~InflateStarved
    /\ \E want \in Wants, got \in 0..left, n \in 0..Outer :
           /\ InflateRead(want, got, n)
           /\ Consume(n)
           /\ left' = left - got
           /\ IF got > 0 THEN Proceed /\ UNCHANGED handler ELSE ReadFails
    /\ UNCHANGED <<peer, cur, start>>

InflateFails ==
    /\ Reading /\ ~Raw /\ left > 0 /\ InflateStarved
    /\ ReadFails
    /\ UNCHANGED <<peer, cur, start, position, left, dict>>

\* An empty body: even the id is missing.
IdMissing ==
    /\ pc = "id" /\ left = 0
    /\ Return("eof")
    /\ UNCHANGED <<peer, cur, start, position, left, dict, handler>>

\* handle_packet returns, having read as much or as little as it liked.
HandlerReturns ==
    /\ pc = "handle"
    /\ handler' \in {"ok", "error"}
    /\ AfterHandler(handler')
    /\ UNCHANGED <<peer, cur, start, position, left, dict>>

\* discard(0) reads nothing.
DiscardNothing ==
    /\ pc = "discard" /\ left = 0
    /\ Return(IF handler = "ok" THEN "ok" ELSE "handler_error")
    /\ UNCHANGED <<peer, cur, start, position, left, dict, handler>>

\* The caller goes on with the next frame; a reader that stands elsewhere would
\* take content for a length, and is not followed further.
NextFrame ==
    /\ pc = "returned" /\ pos = End /\ cur < Len(stream)
    /\ pc' = "idle" /\ cur' = cur + 1 /\ start' = End
    /\ handler' = "ok" /\ left' = 0 /\ dict' = 0
    /\ UNCHANGED <<peer, position, result>>

-----------------------------------------------------------------------------
Next ==
    \/ Start \/ ReadLength \/ ReadDataLength
    \/ RawRead \/ Inflate \/ InflateFails \/ IdMissing
    \/ HandlerReturns \/ DiscardNothing \/ NextFrame

Spec == Init /\ [][Next]_vars

\* The peer sends or closes, so every read returns, and the handler reads no more
\* than its bound lets it.
FairSpec == Spec /\ WF_vars(Next)

-----------------------------------------------------------------------------
(* Properties. *)

TypeOK ==
    /\ stream \in Streams /\ arrival \in Arrivals /\ cur \in 1..Len(stream)
    /\ sent \in Nat /\ start \in Nat /\ pos \in Nat /\ buffered \in Nat
    /\ left \in Nat /\ dict \in Nat
    /\ pos <= buffered /\ buffered <= sent
    /\ pc \in {"idle", "length", "data_length", "id", "handle", "discard",
               "returned", "closed"}
    /\ handler \in {"ok", "error"}
    /\ result \in {"ok", "handler_error", "eof", "negative", "unknown_packet"}

\* Whatever the frame announces, the handler asks for and the chunks hold, one
\* call of read_packet never takes a byte of the next frame.
WithinFrame == pos <= End

\* Uncompressed, the handler's bound is the rest of the frame; compressed, each
\* byte that was inflated has been given out or is held by the InflateState.
ContentConserved ==
    Reading => IF Raw THEN left = Outer
                      ELSE (Frame.claim - left) + dict = Content(Fed)

\* A read_packet that returns the handler's result - Ok or Err - has taken its
\* frame to the last byte, so that the next call starts on a length: "the
\* remaining bytes will automatically be discarded".
EndsOnBoundary == pc = "returned" => pos = Minimum(End, sent)

\* A frame that arrives whole is not reported as the end of the stream.
NoSpuriousEof ==
    result = "eof" => ~(WellFormed(Frame) /\ Arrived)

\* Only inflating depends on where the chunks were cut: raw frames in any pieces
\* and deflated ones in one piece are read to their end, and never cut short.
Cut == ~Raw /\ arrival = "pieces"
UncutIsReadWhole == Cut \/ (EndsOnBoundary /\ NoSpuriousEof)

\* A call of read_packet returns: no bound, chunk or trailer keeps it waiting.
ReadReturns == pc = "length" ~> pc \in {"returned", "closed"}
=============================================================================
