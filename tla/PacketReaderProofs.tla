------------------------- MODULE PacketReaderProofs -------------------------
(***************************************************************************)
(* The safety of PacketReader for every stream of frames, every size of    *)
(* the BufReader and every way the bytes arrive.                           *)
(***************************************************************************)
EXTENDS PacketReader, SequenceTheorems, TLAPS

\* Where the stream stands by what read_packet is doing.
Places ==
    /\ pc \in {"idle", "length"} => pos = start
    /\ pc = "data_length" => pos = start + Frame.lenBytes /\ Frame.dataLen > 0
    /\ pc = "id" => pos = End - Body(Frame) /\ left = IF Raw THEN Body(Frame) ELSE Frame.claim
    /\ Reading => Frame.kind # "negative" /\ pos >= End - Body(Frame)
    /\ pc = "returned" /\ Raw => pos = End
    /\ result = "eof" => pc = "closed"

\* Frames that arrive whole: the BufReader is filled once, with all that came of
\* the frame, and the first read of an inflating reader takes in all of it.
WholeFrames ==
    arrival = "whole" =>
        /\ pc \in {"idle", "length"} => buffered = start
        /\ pc \in {"data_length", "id", "handle", "discard", "returned"} =>
               buffered = Minimum(sent, End)
        /\ pc \in {"handle", "discard", "returned"} /\ ~Raw => pos = Minimum(sent, End)

\* Only a frame that is cut, malformed or inflated in pieces ends in an eof.
EofJustified == Cut \/ NoSpuriousEof

IInv == /\ TypeOK
        /\ WithinFrame
        /\ ContentConserved
        /\ Places
        /\ WholeFrames
        /\ EofJustified

-----------------------------------------------------------------------------
(* What the operators return. *)

\* ReaderAssumption for one frame of a stream.
LEMMA AnyFrame ==
    ASSUME NEW s \in Streams, NEW i \in 1..Len(s)
    PROVE  /\ s[i].lenBytes \in 1..4 /\ s[i].dataLen \in 0..5
           /\ s[i].head \in Nat /\ s[i].data \in Nat /\ s[i].tail \in Nat
           /\ s[i].claim \in Nat
           /\ s[i].kind # "raw" => s[i].dataLen > 0
           /\ s[i].kind # "deflate" =>
                  s[i].head = 0 /\ s[i].tail = 0 /\ s[i].claim = s[i].data
           /\ Size(s[i]) \in Nat
<1>1. s \in Seq(FramesOf(s))
    BY ReaderAssumption
<1>2. s[i] \in FramesOf(s)
    BY <1>1
<1>3. s[i] \in Frames
    BY <1>2 DEF Frames
<1>. DEFINE f == s[i]
<1>4. /\ f.lenBytes \in 1..4 /\ f.dataLen \in 0..5
      /\ f.head \in Nat /\ f.data \in Nat /\ f.tail \in Nat /\ f.claim \in Nat
      /\ f.kind # "raw" => f.dataLen > 0
      /\ f.kind # "deflate" => f.head = 0 /\ f.tail = 0 /\ f.claim = f.data
    BY <1>3, ReaderAssumption
<1>5. f.lenBytes \in Nat /\ f.dataLen \in Nat /\ Body(f) \in Nat
    BY <1>4, SMTT(30) DEF Body
<1>6. Size(f) \in Nat
    BY <1>5 DEF Size
<1>. QED  BY <1>4, <1>6

\* The frame being read is one of the peer's, with the parts ReaderAssumption says.
LEMMA FrameShape ==
    ASSUME TypeOK
    PROVE  /\ Frame.lenBytes \in Nat /\ Frame.lenBytes > 0 /\ Frame.dataLen \in Nat
           /\ Frame.head \in Nat /\ Frame.data \in Nat /\ Frame.tail \in Nat
           /\ Frame.claim \in Nat
           /\ Frame.kind # "raw" => Frame.dataLen > 0
           /\ Frame.kind # "deflate" =>
                  Frame.head = 0 /\ Frame.tail = 0 /\ Frame.claim = Frame.data
           /\ Body(Frame) \in Nat /\ End \in Nat
           /\ Body(Frame) = Frame.head + Frame.data + Frame.tail
           /\ End = start + Frame.lenBytes + Frame.dataLen + Body(Frame)
<1>1. stream \in Streams /\ cur \in 1..Len(stream) /\ start \in Nat
    BY DEF TypeOK
<1>2. /\ Frame.lenBytes \in 1..4 /\ Frame.dataLen \in 0..5
      /\ Frame.head \in Nat /\ Frame.data \in Nat /\ Frame.tail \in Nat /\ Frame.claim \in Nat
      /\ Frame.kind # "raw" => Frame.dataLen > 0
      /\ Frame.kind # "deflate" =>
             Frame.head = 0 /\ Frame.tail = 0 /\ Frame.claim = Frame.data
    BY <1>1, AnyFrame DEF Frame
<1>3. Body(Frame) \in Nat /\ Body(Frame) = Frame.head + Frame.data + Frame.tail
    BY <1>2 DEF Body
<1>4. Frame.lenBytes \in Nat /\ Frame.lenBytes > 0 /\ Frame.dataLen \in Nat
    BY <1>2
<1>5. End \in Nat /\ End = start + Frame.lenBytes + Frame.dataLen + Body(Frame)
    BY <1>1, <1>3, <1>4, SMTT(30) DEF Size, End
<1>. QED  BY <1>2, <1>3, <1>4, <1>5

\* Within one call of read_packet the frame stays the same.
LEMMA FrameStays ==
    ASSUME UNCHANGED <<peer, cur, start>>
    PROVE  /\ stream' = stream /\ arrival' = arrival /\ sent' = sent
           /\ cur' = cur /\ start' = start
           /\ Frame' = Frame /\ End' = End /\ Raw' = Raw /\ Body(Frame)' = Body(Frame)
           /\ \A n : Content(n)' = Content(n)
           /\ WellFormed(Frame)' = WellFormed(Frame) /\ Arrived' = Arrived /\ Cut' = Cut
BY DEF peer, Frame, End, Size, Body, Raw, Content, WellFormed, Arrived, Cut

\* The BufReader never gives out more than it got, and never gets more than was
\* sent; of a frame that arrives whole it gets all.
LEMMA BufferedAfterShape ==
    ASSUME TypeOK, NEW n \in Nat, pos + n <= sent, pos <= End,
           arrival = "whole" /\ buffered < pos + n => pos + n <= End,
           NEW b \in BufferedAfter(n)
    PROVE  /\ b \in Nat /\ pos + n <= b /\ b <= sent
           /\ arrival = "whole" => b = IF buffered >= pos + n THEN buffered
                                                            ELSE Minimum(sent, End)
<1>1. /\ pos \in Nat /\ buffered \in Nat /\ sent \in Nat /\ Capacity \in Nat \ {0}
      /\ buffered <= sent /\ End \in Nat
      /\ arrival \in {"pieces", "whole"}
    BY ReaderAssumption, FrameShape DEF TypeOK
<1>2. CASE buffered >= pos + n
    BY <1>1, <1>2 DEF BufferedAfter
<1>3. CASE buffered < pos + n /\ arrival = "pieces"
    BY <1>1, <1>3 DEF BufferedAfter, Minimum
<1>4. CASE buffered < pos + n /\ arrival = "whole"
    BY <1>1, <1>4 DEF BufferedAfter, Minimum
<1>. QED  BY <1>1, <1>2, <1>3, <1>4

\* Inflating: more compressed bytes never mean less content, and all of a body
\* is all of its content.
LEMMA ContentGrows ==
    ASSUME TypeOK, NEW m \in Nat, NEW n \in Nat
    PROVE  /\ Content(m) \in Nat /\ Content(m) <= Content(m + n)
           /\ Content(0) = 0 /\ Content(Body(Frame)) = Frame.data
BY FrameShape DEF Content, Minimum

\* A read that fails takes what there is within its limit.
LEMMA TakeUpToShape ==
    ASSUME TypeOK, WithinFrame, NEW m \in Nat, pos + m <= End, TakeUpTo(m)
    PROVE  /\ pos' \in Nat /\ pos <= pos' /\ pos' <= End /\ pos' <= sent
           /\ pos' <= pos + m /\ pos' \in {pos + m, sent}
           /\ buffered' \in Nat /\ pos' <= buffered' /\ buffered' <= sent
           /\ buffered = Minimum(sent, End) => buffered' = buffered
<1>1. /\ pos \in Nat /\ buffered \in Nat /\ sent \in Nat /\ End \in Nat
      /\ pos <= buffered /\ buffered <= sent /\ pos <= End
    BY FrameShape DEF TypeOK, WithinFrame
<1>2. /\ pos' = IF pos + m < sent THEN pos + m ELSE sent
      /\ buffered' = IF buffered > pos' THEN buffered ELSE pos'
    BY DEF TakeUpTo, Minimum
<1>3. buffered = Minimum(sent, End) => buffered = IF sent < End THEN sent ELSE End
    BY DEF Minimum
<1>. QED  BY <1>1, <1>2, <1>3

-----------------------------------------------------------------------------
(* Each action preserves the invariant. *)

\* read_packet gives up: only what it took and why matter from then on.
LEMMA ClosingKeeps ==
    ASSUME IInv, UNCHANGED <<peer, cur, start>>,
           pos' \in Nat, buffered' \in Nat, pos' <= buffered', buffered' <= sent,
           pos' <= End, left' \in Nat, dict' \in Nat, handler' \in {"ok", "error"},
           pc' = "closed", result' \in {"eof", "negative", "unknown_packet"},
           result' = "eof" => Cut \/ ~(WellFormed(Frame) /\ Arrived)
    PROVE  IInv'
<1>1. TypeOK'
    BY FrameStays DEF IInv, TypeOK
<1>2. WithinFrame'
    BY FrameStays DEF WithinFrame
<1>3. ContentConserved' /\ Places' /\ WholeFrames'
    BY DEF ContentConserved, Reading, Places, WholeFrames
<1>4. EofJustified'
    BY FrameStays DEF EofJustified, NoSpuriousEof
<1>. QED  BY <1>1, <1>2, <1>3, <1>4 DEF IInv

\* A call starts where the last frame ended.
LEMMA StartKeeps ==
    ASSUME IInv, Start
    PROVE  IInv'
<1>. USE FrameStays DEF Start
<1>1. pos' = pos /\ buffered' = buffered /\ result' = result
    BY DEF position
<1>2. TypeOK' /\ WithinFrame'
    BY <1>1 DEF IInv, TypeOK, WithinFrame
<1>3. ContentConserved' /\ Places' /\ WholeFrames'
    BY <1>1 DEF IInv, ContentConserved, Reading, Places, WholeFrames
<1>4. EofJustified'
    BY <1>1 DEF IInv, EofJustified, NoSpuriousEof
<1>. QED  BY <1>2, <1>3, <1>4 DEF IInv

\* The length field: the stream stands at the start of the frame.
LEMMA ReadLengthKeeps ==
    ASSUME IInv, ReadLength
    PROVE  IInv'
<1>. DEFINE n == Frame.lenBytes
<1>0. /\ TypeOK /\ WithinFrame /\ pc = "length" /\ pos = start
      /\ UNCHANGED <<peer, cur, start, dict, handler>>
    BY DEF IInv, ReadLength, Places
<1>1. /\ n \in Nat /\ n > 0 /\ Body(Frame) \in Nat /\ Frame.dataLen \in Nat
      /\ End = start + n + Frame.dataLen + Body(Frame) /\ End \in Nat
      /\ Frame.kind # "raw" => Frame.dataLen > 0
      /\ pos \in Nat /\ sent \in Nat /\ pos <= sent
    BY <1>0, FrameShape DEF TypeOK
<1>2. CASE Available(n, LengthBound)
    <2>1. /\ pos + n <= sent /\ pos' = pos + n /\ buffered' \in BufferedAfter(n)
          /\ pc' = (IF Frame.dataLen > 0 THEN "data_length" ELSE "id")
          /\ left' = Body(Frame) /\ result' = result
        BY <1>2 DEF ReadLength, Available, TakeBytes
    <2>2. /\ buffered' \in Nat /\ pos' <= buffered' /\ buffered' <= sent
          /\ arrival = "whole" => buffered' = IF buffered >= pos + n THEN buffered
                                                                   ELSE Minimum(sent, End)
        BY <1>0, <1>1, <2>1, BufferedAfterShape DEF WithinFrame
    <2>3. TypeOK' /\ WithinFrame'
        <3>1. pc' \in {"data_length", "id"} /\ pos' \in Nat /\ pos' <= End
            BY <1>0, <1>1, <2>1
        <3>. QED  BY <1>0, <1>1, <2>1, <2>2, <3>1, FrameStays DEF TypeOK, WithinFrame
    <2>4. Places'
        <3>1. pc' = "id" => pos' = End - Body(Frame) /\ Frame.kind = "raw"
            BY <1>0, <1>1, <2>1
        <3>. QED  BY <1>0, <1>1, <2>1, <3>1, FrameStays DEF IInv, Places, Raw, Reading, TypeOK
    <2>5. ContentConserved'
        BY <1>0, <1>1, <2>1, FrameStays DEF ContentConserved, Reading, Raw, Outer
    <2>6. WholeFrames'
        <3>1. arrival = "whole" => buffered = pos
            BY <1>0 DEF IInv, WholeFrames
        <3>. QED  BY <1>0, <1>1, <2>1, <2>2, <3>1, FrameStays DEF WholeFrames
    <2>7. EofJustified'
        BY <1>0, <2>1, FrameStays DEF IInv, EofJustified, NoSpuriousEof
    <2>. QED  BY <2>3, <2>4, <2>5, <2>6, <2>7 DEF IInv
<1>3. CASE ~Available(n, LengthBound)
    <2>. DEFINE m == Minimum(LengthBound, n)
    <2>1. m \in Nat /\ m <= n
        BY <1>1 DEF Minimum, LengthBound
    <2>2. TakeUpTo(m) /\ pc' = "closed" /\ result' = "eof" /\ left' = left
        BY <1>3 DEF ReadLength, Return
    <2>3. pos + m <= End
        BY <1>0, <1>1, <2>1
    <2>. HIDE DEF m
    <2>4. ~(WellFormed(Frame) /\ Arrived)
        BY <1>0, <1>1, <1>3 DEF WellFormed, Arrived, Available, LengthBound
    <2>. QED  BY <1>0, <2>1, <2>2, <2>3, <2>4, TakeUpToShape, ClosingKeeps DEF TypeOK
<1>. QED  BY <1>2, <1>3

\* The data_length field: behind it, the body starts.
LEMMA ReadDataLengthKeeps ==
    ASSUME IInv, ReadDataLength
    PROVE  IInv'
<1>. DEFINE n == Frame.dataLen
<1>0. /\ TypeOK /\ WithinFrame /\ pc = "data_length" /\ pos = start + Frame.lenBytes
      /\ UNCHANGED <<peer, cur, start, handler>> /\ dict' = 0
    BY DEF IInv, ReadDataLength, Places
<1>1. /\ n \in Nat /\ Body(Frame) \in Nat /\ Frame.lenBytes \in Nat
      /\ End = start + Frame.lenBytes + n + Body(Frame) /\ End \in Nat
      /\ Frame.claim \in Nat
      /\ pos \in Nat /\ sent \in Nat /\ buffered \in Nat /\ start \in Nat
      /\ pos <= sent /\ buffered <= sent /\ left \in Nat
    BY <1>0, FrameShape DEF TypeOK
<1>2. Outer = n + Body(Frame) /\ pos + Outer <= End
    BY <1>0, <1>1 DEF Outer
<1>3. CASE ~Available(n, Outer)
    <2>1. TakeUpTo(Outer) /\ pc' = "closed" /\ result' = "eof" /\ left' = left
        BY <1>3 DEF ReadDataLength, Return
    <2>2. ~(WellFormed(Frame) /\ Arrived)
        BY <1>0, <1>1, <1>2, <1>3 DEF Arrived, Available
    <2>3. Outer \in Nat
        BY <1>1, <1>2
    <2>. QED  BY <1>0, <1>2, <2>1, <2>2, <2>3, TakeUpToShape, ClosingKeeps DEF TypeOK
<1>4. CASE Available(n, Outer)
    <2>1. pos + n <= sent /\ pos' = pos + n /\ buffered' \in BufferedAfter(n)
        BY <1>4 DEF ReadDataLength, Available, TakeBytes
    <2>2. /\ buffered' \in Nat /\ pos' <= buffered' /\ buffered' <= sent
          /\ arrival = "whole" => buffered' = IF buffered >= pos + n THEN buffered
                                                                   ELSE Minimum(sent, End)
        BY <1>0, <1>1, <2>1, BufferedAfterShape DEF WithinFrame
    <2>3. pos' \in Nat /\ pos' <= End /\ pos' = End - Body(Frame)
        BY <1>0, <1>1, <2>1
    <2>4. CASE Frame.kind = "negative"
        <3>1. pc' = "closed" /\ result' = "negative" /\ left' = left
            BY <1>4, <2>4 DEF ReadDataLength, Return
        <3>. QED  BY <1>0, <1>1, <2>2, <2>3, <3>1, ClosingKeeps DEF TypeOK
    <2>5. CASE Frame.kind # "negative"
        <3>1. pc' = "id" /\ left' = Frame.claim /\ result' = result
            BY <1>4, <2>5 DEF ReadDataLength
        <3>2. TypeOK' /\ WithinFrame'
            BY <1>0, <1>1, <2>2, <2>3, <3>1, FrameStays DEF TypeOK, WithinFrame
        <3>3. Raw => Frame.claim = Body(Frame)
            BY <1>0, FrameShape DEF Raw
        <3>4. Places'
            BY <1>0, <2>3, <2>5, <3>1, <3>3, FrameStays DEF IInv, Places, Reading
        <3>5. ContentConserved'
            <4>1. CASE Raw
                BY <1>1, <2>3, <3>1, <3>3, <4>1, <1>0, FrameStays DEF ContentConserved, Outer
            <4>2. CASE ~Raw
                <5>1. Fed' = 0
                    BY <1>0, <1>1, <2>3, FrameStays DEF Fed
                <5>2. Content(0) = 0
                    BY <1>0, ContentGrows
                <5>3. Content(Fed)' = 0
                    BY <5>1, <5>2, <1>0, FrameStays DEF Content
                <5>. QED  BY <1>0, <1>1, <3>1, <4>2, <5>3, FrameStays DEF ContentConserved
            <4>. QED  BY <4>1, <4>2
        <3>6. WholeFrames'
            <4>1. arrival = "whole" => buffered = Minimum(sent, End)
                BY <1>0 DEF IInv, WholeFrames
            <4>2. arrival = "whole" => buffered' = Minimum(sent, End)
                BY <2>2, <4>1
            <4>. QED  BY <1>0, <3>1, <4>2, FrameStays DEF WholeFrames
        <3>7. EofJustified'
            BY <1>0, <3>1, FrameStays DEF IInv, EofJustified, NoSpuriousEof
        <3>. QED  BY <3>2, <3>4, <3>5, <3>6, <3>7 DEF IInv
    <2>. QED  BY <2>4, <2>5
<1>. QED  BY <1>3, <1>4

\* The steps of the three readers of the content that go on: what the handler's
\* bound and the stream have to agree on.
LEMMA ReadingKeeps ==
    ASSUME IInv, UNCHANGED <<peer, cur, start>>, Reading,
           pos' \in Nat, buffered' \in Nat, pos' <= buffered', buffered' <= sent,
           pos <= pos', pos' <= End, left' \in Nat, dict' \in Nat, handler' \in {"ok", "error"},
           result' \in {"ok", "handler_error", "negative", "unknown_packet"},
           pc' \in {"handle", "discard", "returned"},
           IF Raw THEN left' = Outer' ELSE (Frame.claim - left') + dict' = Content(Fed'),
           pc' = "returned" => left' = 0,
           arrival = "whole" => buffered' = buffered /\ (~Raw => pos' = Minimum(sent, End))
    PROVE  IInv'
<1>1. TypeOK'
    BY FrameStays DEF IInv, TypeOK
<1>2. WithinFrame'
    BY FrameStays DEF WithinFrame
<1>3. ContentConserved'
    <2>1. Content(Fed)' = Content(Fed')
        BY FrameStays DEF Content
    <2>. QED  BY <2>1, FrameStays DEF ContentConserved
<1>4. Places'
    <2>1. Raw /\ pc' = "returned" => pos' = End
        BY FrameShape, FrameStays DEF IInv, TypeOK, Outer
    <2>2. Reading' => Frame.kind # "negative" /\ pos' >= End - Body(Frame)
        BY FrameShape DEF IInv, TypeOK, Places
    <2>. QED  BY <2>1, <2>2, FrameStays DEF Places
<1>5. WholeFrames'
    <2>1. arrival = "whole" => buffered = Minimum(sent, End)
        BY DEF IInv, WholeFrames, Reading
    <2>. QED  BY <2>1, FrameStays DEF WholeFrames
<1>6. EofJustified'
    BY FrameStays DEF EofJustified, NoSpuriousEof
<1>. QED  BY <1>1, <1>2, <1>3, <1>4, <1>5, <1>6 DEF IInv

\* While the content is read, nothing has ended in an eof yet.
LEMMA ReadingFacts ==
    ASSUME IInv, Reading
    PROVE  /\ TypeOK /\ WithinFrame /\ End \in Nat /\ Outer \in Nat
           /\ pos \in Nat /\ sent \in Nat /\ buffered \in Nat /\ left \in Nat /\ dict \in Nat
           /\ pos <= buffered /\ buffered <= sent /\ pos <= End /\ Outer = End - pos
           /\ pc \in {"id", "handle", "discard"} /\ handler \in {"ok", "error"}
           /\ result \in {"ok", "handler_error", "negative", "unknown_packet"}
           /\ arrival = "whole" => buffered = Minimum(sent, End)
           /\ Raw => left = Outer
           /\ ~Raw => (Frame.claim - left) + dict = Content(Fed)
<1>1. TypeOK /\ WithinFrame /\ End \in Nat
    BY FrameShape DEF IInv
<1>2. /\ pos \in Nat /\ sent \in Nat /\ buffered \in Nat /\ left \in Nat /\ dict \in Nat
      /\ pos <= buffered /\ buffered <= sent /\ pos <= End /\ handler \in {"ok", "error"}
    BY <1>1 DEF TypeOK, WithinFrame
<1>3. Outer = End - pos /\ Outer \in Nat
    BY <1>1, <1>2 DEF Outer
<1>4. /\ pc \in {"id", "handle", "discard"} /\ result # "eof"
      /\ result \in {"ok", "handler_error", "eof", "negative", "unknown_packet"}
    BY DEF IInv, Reading, Places, TypeOK
<1>5. arrival = "whole" => buffered = Minimum(sent, End)
    BY DEF IInv, Reading, WholeFrames
<1>6. (Raw => left = Outer) /\ (~Raw => (Frame.claim - left) + dict = Content(Fed))
    BY DEF IInv, ContentConserved
<1>. QED  BY <1>1, <1>2, <1>3, <1>4, <1>5, <1>6

\* What follows a read that gave something, by who was reading.
LEMMA ProceedShape ==
    ASSUME Reading, Proceed, result \in {"ok", "handler_error", "negative", "unknown_packet"}
    PROVE  \/ pc = "id" /\ pc' = "closed" /\ result' = "unknown_packet"
           \/ /\ pc' \in {"handle", "discard", "returned"}
              /\ result' \in {"ok", "handler_error", "negative", "unknown_packet"}
              /\ pc' = "returned" => left' = 0
<1>1. CASE pc = "id"
    BY <1>1 DEF Proceed, AfterId, Return
<1>2. CASE pc = "handle"
    BY <1>2 DEF Proceed
<1>3. CASE pc = "discard"
    BY <1>3 DEF Proceed, AfterDiscard, Return
<1>. QED  BY <1>1, <1>2, <1>3 DEF Reading

\* What follows a read that failed.
LEMMA ReadFailsShape ==
    ASSUME Reading, ReadFails
    PROVE  \/ /\ pc = "handle" /\ pc' = "discard" /\ result' = result /\ handler' = "error"
           \/ /\ pc \in {"id", "discard"} /\ pc' = "closed" /\ result' = "eof"
              /\ handler' = handler
BY DEF ReadFails, AfterHandler, Return, Reading

\* Uncompressed content: the handler's bound is the rest of the frame.
LEMMA RawReadKeeps ==
    ASSUME IInv, RawRead
    PROVE  IInv'
<1>0. /\ Reading /\ Raw /\ left > 0
      /\ UNCHANGED <<peer, cur, start>> /\ dict' = dict
    BY DEF RawRead
<1>1. /\ TypeOK /\ WithinFrame /\ End \in Nat /\ left = Outer
      /\ pos \in Nat /\ sent \in Nat /\ buffered \in Nat /\ left \in Nat /\ dict \in Nat
      /\ pos <= sent /\ pos <= End /\ left = End - pos
      /\ pc \in {"id", "handle", "discard"} /\ handler \in {"ok", "error"}
      /\ result \in {"ok", "handler_error", "negative", "unknown_packet"}
      /\ arrival = "whole" => buffered = Minimum(sent, End)
    BY <1>0, ReadingFacts
<1>2. PICK n \in Wants :
          IF Available(n, left)
          THEN TakeBytes(n) /\ left' = left - n /\ Proceed /\ UNCHANGED handler
          ELSE TakeUpTo(left) /\ left' = left - (pos' - pos) /\ ReadFails
    BY DEF RawRead
<1>3. n \in Nat /\ (pc = "id" => n = 1) /\ (pc = "discard" => n = left)
    BY <1>1 DEF Wants
<1>4. CASE Available(n, left)
    <2>1. /\ n <= left /\ pos + n <= sent /\ pos' = pos + n /\ buffered' \in BufferedAfter(n)
          /\ left' = left - n /\ Proceed /\ handler' = handler
        BY <1>2, <1>4 DEF Available, TakeBytes
    <2>2. pos' \in Nat /\ pos <= pos' /\ pos' <= End /\ left' \in Nat /\ left' = End - pos'
        BY <1>1, <1>3, <2>1
    <2>3. /\ buffered' \in Nat /\ pos' <= buffered' /\ buffered' <= sent
          /\ arrival = "whole" => buffered' = IF buffered >= pos + n THEN buffered
                                                                   ELSE Minimum(sent, End)
        BY <1>1, <1>3, <2>1, <2>2, BufferedAfterShape
    <2>4. arrival = "whole" => buffered' = buffered
        BY <1>1, <2>3
    <2>5. left' = Outer'
        BY <1>0, <2>2, FrameStays DEF Outer
    <2>. QED  BY <1>0, <1>1, <2>1, <2>2, <2>3, <2>4, <2>5, ProceedShape, ClosingKeeps, ReadingKeeps
<1>5. CASE ~Available(n, left)
    <2>1. TakeUpTo(left) /\ left' = left - (pos' - pos) /\ ReadFails
        BY <1>2, <1>5
    <2>2. /\ pos' \in Nat /\ pos <= pos' /\ pos' <= End /\ pos' <= pos + left
          /\ buffered' \in Nat /\ pos' <= buffered' /\ buffered' <= sent
          /\ buffered = Minimum(sent, End) => buffered' = buffered
        BY <1>1, <2>1, TakeUpToShape
    <2>3. left' \in Nat /\ left' = End - pos'
        <3>1. PICK d \in Nat : pos' = pos + d
            BY <1>1, <2>2
        <3>2. d <= left /\ left' = left - d
            BY <1>1, <2>1, <2>2, <3>1
        <3>. QED  BY <1>1, <3>1, <3>2
    <2>4. left' = Outer'
        BY <1>0, <2>3, FrameStays DEF Outer
    <2>5. pc \in {"id", "discard"} => ~Arrived
        BY <1>0, <1>1, <1>3, <1>5 DEF Available, Arrived
    <2>. QED  BY <1>0, <1>1, <2>1, <2>2, <2>3, <2>4, <2>5, ReadFailsShape, ClosingKeeps, ReadingKeeps
<1>. QED  BY <1>4, <1>5

\* What the inflating reader's fill_buf finds in the BufReader.
LEMMA ChunkShape ==
    ASSUME IInv, Reading, NEW b \in BufferedAfter(Minimum(1, sent - pos))
    PROVE  b \in Nat /\ pos <= b /\ b <= sent /\ (arrival = "whole" => b = buffered)
<1>. DEFINE k == Minimum(1, sent - pos)
<1>1. /\ TypeOK /\ pos \in Nat /\ sent \in Nat /\ buffered \in Nat /\ End \in Nat
      /\ pos <= buffered /\ buffered <= sent /\ pos <= End
      /\ arrival = "whole" => buffered = Minimum(sent, End)
    BY ReadingFacts
<1>2. k \in Nat /\ pos + k <= sent
    BY <1>1 DEF Minimum
<1>. HIDE DEF k
<1>3. b \in BufferedAfter(k)
    BY DEF k
<1>4. CASE buffered >= pos + k
    BY <1>1, <1>3, <1>4 DEF BufferedAfter
<1>5. CASE buffered < pos + k /\ arrival = "pieces"
    BY <1>1, <1>2, <1>3, <1>5, ReaderAssumption DEF BufferedAfter, Minimum
<1>6. CASE buffered < pos + k /\ arrival = "whole"
    BY <1>1, <1>3, <1>6 DEF BufferedAfter
<1>7. arrival \in {"pieces", "whole"}
    BY <1>1, ReaderAssumption DEF TypeOK
<1>. QED  BY <1>1, <1>2, <1>4, <1>5, <1>6, <1>7

\* How far the inflating reader is in the body.
LEMMA FedShape ==
    ASSUME IInv, Reading
    PROVE  /\ Fed \in Nat /\ pos + Body(Frame) = End + Fed /\ Content(Fed) \in Nat
           /\ pc = "id" => Fed = 0 /\ (~Raw => dict = 0 /\ left = Frame.claim)
           /\ pos = End => Content(Fed) = Frame.data
<1>1. /\ TypeOK /\ pos \in Nat /\ End \in Nat /\ pos >= End - Body(Frame)
      /\ Body(Frame) \in Nat /\ dict \in Nat /\ left \in Nat /\ Frame.claim \in Nat
      /\ ~Raw => (Frame.claim - left) + dict = Content(Fed)
    BY ReadingFacts, FrameShape DEF IInv, Places
<1>2. Fed \in Nat /\ pos + Body(Frame) = End + Fed
    BY <1>1 DEF Fed
<1>3. Content(Fed) \in Nat /\ Content(0) = 0 /\ Content(Body(Frame)) = Frame.data
    BY <1>1, <1>2, ContentGrows
<1>4. ASSUME pc = "id"
      PROVE  Fed = 0 /\ (~Raw => dict = 0 /\ left = Frame.claim)
    <2>1. pos = End - Body(Frame) /\ (~Raw => left = Frame.claim)
        BY <1>4 DEF IInv, Places
    <2>2. Fed = 0
        BY <1>1, <1>2, <2>1
    <2>. QED  BY <1>1, <1>3, <2>1, <2>2
<1>5. pos = End => Fed = Body(Frame)
    BY <1>1, <1>2
<1>. QED  BY <1>2, <1>3, <1>4, <1>5

\* One call of the inflating reader's read: input is taken only when nothing is
\* held, and all that came of the frame at once when the frame came whole.
LEMMA InflateStep ==
    ASSUME IInv, Reading, ~Raw, ~InflateStarved, UNCHANGED <<peer, cur, start>>,
           NEW want \in Nat, NEW got \in 0..left, NEW n \in 0..Outer, want > 0, left > 0,
           InflateRead(want, got, n), Consume(n), left' = left - got
    PROVE  /\ pos' \in Nat /\ pos <= pos' /\ pos' <= End /\ left' \in Nat /\ dict' \in Nat
           /\ buffered' \in Nat /\ pos' <= buffered' /\ buffered' <= sent
           /\ (Frame.claim - left') + dict' = Content(Fed')
           /\ arrival = "whole" => buffered' = buffered /\ pos' = Minimum(sent, End)
           /\ arrival = "whole" /\ WellFormed(Frame) /\ Arrived => got > 0
<1>. DEFINE out == Content(Fed + n) - Content(Fed) + dict
<1>1. /\ TypeOK /\ End \in Nat /\ Outer \in Nat /\ Outer = End - pos
      /\ pos \in Nat /\ sent \in Nat /\ buffered \in Nat /\ left \in Nat /\ dict \in Nat
      /\ pos <= buffered /\ buffered <= sent /\ pos <= End
      /\ arrival = "whole" => buffered = Minimum(sent, End)
      /\ (Frame.claim - left) + dict = Content(Fed)
    BY ReadingFacts
<1>2. /\ Fed \in Nat /\ pos + Body(Frame) = End + Fed /\ Frame.claim \in Nat
      /\ Body(Frame) \in Nat /\ (pc = "id" => dict = 0)
    BY <1>1, FedShape, FrameShape
<1>3. n \in Nat /\ n <= Outer /\ pos' = pos + n
    BY <1>1 DEF Consume
<1>4. Content(Fed) \in Nat /\ Content(Fed + n) \in Nat /\ Content(Fed) <= Content(Fed + n)
    <2>1. Fed + n \in Nat
        BY <1>2, <1>3
    <2>2. Content(Fed + n) \in Nat
        BY <1>1, <2>1, ContentGrows
    <2>. QED  BY <1>1, <1>2, <1>3, <2>2, ContentGrows
<1>5. /\ IF dict > 0 THEN n = 0 ELSE n \in Chunks \ {0}
      /\ got = Minimum(out, want) /\ dict' = out - got
    BY DEF InflateRead
<1>6. out \in Nat /\ out >= dict /\ out + Content(Fed) = Content(Fed + n) + dict
    BY <1>1, <1>4
<1>. HIDE DEF out
<1>7. got \in Nat /\ got <= left /\ got <= out /\ (out > 0 => got > 0)
    BY <1>1, <1>5, <1>6 DEF Minimum
<1>8. pos' \in Nat /\ pos <= pos' /\ pos' <= End /\ left' \in Nat /\ dict' \in Nat
    BY <1>1, <1>3, <1>5, <1>6, <1>7
<1>9. /\ buffered' \in Nat /\ pos <= buffered' /\ buffered' <= sent
      /\ arrival = "whole" => buffered' = buffered
      /\ n > 0 => Minimum(buffered' - pos, Outer) = n
    <2>1. /\ buffered' \in BufferedAfter(Minimum(1, sent - pos))
          /\ n > 0 => Minimum(buffered' - pos, Outer) = n
        BY DEF Consume
    <2>. QED  BY <2>1, ChunkShape
<1>10. pos' <= buffered'
    <2>1. PICK d \in Nat : buffered' = pos + d
        BY <1>1, <1>9
    <2>2. n > 0 => Minimum(d, Outer) = n
        BY <1>1, <1>9, <2>1
    <2>3. n > 0 => n <= d
        BY <1>1, <1>3, <2>2 DEF Minimum
    <2>. QED  BY <1>1, <1>3, <2>1, <2>3
<1>11. Fed' = Fed + n
    <2>1. Fed' = pos' - (End - Body(Frame))
        BY FrameStays DEF Fed
    <2>. QED  BY <1>1, <1>2, <1>3, <2>1
<1>12. (Frame.claim - left') + dict' = Content(Fed')
    <2>1. (Frame.claim - left') + dict' + Content(Fed) = Content(Fed + n) + Content(Fed)
        BY <1>1, <1>2, <1>4, <1>5, <1>6, <1>7
    <2>. QED  BY <1>1, <1>2, <1>4, <1>8, <1>11, <2>1
<1>13. arrival = "whole" => pos' = Minimum(sent, End)
    <2>. SUFFICES ASSUME arrival = "whole"
                  PROVE  pos' = Minimum(sent, End)
        OBVIOUS
    <2>1. CASE n > 0
        BY <1>1, <1>3, <1>9, <2>1 DEF Minimum
    <2>2. CASE n = 0
        <3>1. dict > 0
            BY <1>1, <1>5, <2>2
        <3>2. pc \in {"handle", "discard"}
            BY <1>2, <3>1 DEF Reading
        <3>3. pos = Minimum(sent, End)
            BY <3>2 DEF IInv, WholeFrames
        <3>. QED  BY <1>1, <1>3, <2>2, <3>3
    <2>. QED  BY <1>3, <2>1, <2>2
<1>14. ASSUME arrival = "whole", WellFormed(Frame), Arrived
       PROVE  got > 0
    <2>1. pos' = End /\ Frame.claim = Frame.data
        BY <1>1, <1>13, <1>14 DEF Arrived, WellFormed, Minimum
    <2>2. Fed + n = Body(Frame)
        BY <1>1, <1>2, <1>3, <2>1
    <2>3. Content(Fed + n) = Frame.claim
        BY <1>1, <2>1, <2>2, ContentGrows
    <2>4. out = left
        BY <1>1, <1>2, <1>4, <1>6, <2>3
    <2>. QED  BY <1>1, <1>7, <2>4
<1>. QED  BY <1>8, <1>9, <1>10, <1>12, <1>13, <1>14

\* An inflating read that gives something: what it holds and what it gave are
\* all of the content so far.
LEMMA InflateKeeps ==
    ASSUME IInv, Inflate
    PROVE  IInv'
<1>0. Reading /\ ~Raw /\ left > 0 /\ ~InflateStarved /\ UNCHANGED <<peer, cur, start>>
    BY DEF Inflate
<1>1. /\ left \in Nat /\ pc \in {"id", "handle", "discard"} /\ handler \in {"ok", "error"}
      /\ result \in {"ok", "handler_error", "negative", "unknown_packet"}
      /\ TypeOK
    BY <1>0, ReadingFacts
<1>2. PICK want \in Wants, got \in 0..left, n \in 0..Outer :
          /\ InflateRead(want, got, n) /\ Consume(n) /\ left' = left - got
          /\ IF got > 0 THEN Proceed /\ UNCHANGED handler ELSE ReadFails
    BY DEF Inflate
<1>3. want \in Nat /\ want > 0
    BY <1>0, <1>1 DEF Wants
<1>4. /\ pos' \in Nat /\ pos <= pos' /\ pos' <= End /\ left' \in Nat /\ dict' \in Nat
      /\ buffered' \in Nat /\ pos' <= buffered' /\ buffered' <= sent
      /\ (Frame.claim - left') + dict' = Content(Fed')
      /\ arrival = "whole" => buffered' = buffered /\ pos' = Minimum(sent, End)
      /\ arrival = "whole" /\ WellFormed(Frame) /\ Arrived => got > 0
    BY <1>0, <1>2, <1>3, InflateStep
<1>5. CASE got > 0
    BY <1>0, <1>1, <1>2, <1>4, <1>5, ProceedShape, ClosingKeeps, ReadingKeeps
<1>6. CASE ~(got > 0)
    <2>1. Cut \/ ~(WellFormed(Frame) /\ Arrived)
        BY <1>0, <1>1, <1>4, <1>6, ReaderAssumption DEF Cut, TypeOK
    <2>. QED
        BY <1>0, <1>1, <1>2, <1>4, <1>6, <2>1, ReadFailsShape, ClosingKeeps, ReadingKeeps
<1>. QED  BY <1>5, <1>6

\* Nothing is left to inflate: of a whole frame all content has been given out.
LEMMA InflateFailsKeeps ==
    ASSUME IInv, InflateFails
    PROVE  IInv'
<1>0. /\ Reading /\ ~Raw /\ left > 0 /\ InflateStarved /\ ReadFails
      /\ UNCHANGED <<peer, cur, start>>
      /\ pos' = pos /\ buffered' = buffered /\ left' = left /\ dict' = dict
    BY DEF InflateFails, position
<1>1. /\ TypeOK /\ End \in Nat /\ Outer = End - pos
      /\ pos \in Nat /\ sent \in Nat /\ buffered \in Nat /\ left \in Nat /\ dict \in Nat
      /\ pos <= buffered /\ buffered <= sent /\ pos <= End
      /\ pc \in {"id", "handle", "discard"} /\ handler \in {"ok", "error"}
      /\ result \in {"ok", "handler_error", "negative", "unknown_packet"}
      /\ (Frame.claim - left) + dict = Content(Fed)
    BY <1>0, ReadingFacts
<1>2. Fed' = Fed
    BY <1>0, FrameStays DEF Fed
<1>3. ASSUME pc \in {"id", "discard"}, arrival = "whole", WellFormed(Frame), Arrived
      PROVE  FALSE
    <2>1. dict = 0 /\ (Outer = 0 \/ pos = sent) /\ sent >= End /\ Frame.claim = Frame.data
        BY <1>0, <1>3 DEF InflateStarved, Arrived, WellFormed
    <2>2. pos = End
        BY <1>1, <2>1
    <2>3. Content(Fed) = Frame.data /\ Frame.claim \in Nat
        BY <1>0, <1>1, <2>2, FedShape, FrameShape
    <2>. QED  BY <1>0, <1>1, <2>1, <2>3
<1>4. pc \in {"id", "discard"} => Cut \/ ~(WellFormed(Frame) /\ Arrived)
    BY <1>0, <1>1, <1>3, ReaderAssumption DEF Cut, TypeOK
<1>5. CASE pc = "handle"
    <2>1. pc' = "discard" /\ result' = result /\ handler' = "error"
        BY <1>0, <1>5, ReadFailsShape
    <2>2. arrival = "whole" => pos = Minimum(sent, End)
        BY <1>0, <1>5 DEF IInv, WholeFrames
    <2>. QED  BY <1>0, <1>1, <1>2, <2>1, <2>2, ReadingKeeps
<1>6. CASE pc # "handle"
    BY <1>0, <1>1, <1>4, <1>6, ReadFailsShape, ClosingKeeps
<1>. QED  BY <1>5, <1>6

\* An empty body has no id: a well-formed one has.
LEMMA IdMissingKeeps ==
    ASSUME IInv, IdMissing
    PROVE  IInv'
<1>0. /\ Reading /\ pc = "id" /\ left = 0 /\ pc' = "closed" /\ result' = "eof"
      /\ UNCHANGED <<peer, cur, start>>
      /\ pos' = pos /\ buffered' = buffered /\ left' = left /\ dict' = dict /\ handler' = handler
    BY DEF IdMissing, Return, Reading, position
<1>1. left = IF Raw THEN Body(Frame) ELSE Frame.claim
    BY <1>0 DEF IInv, Places
<1>2. ~(WellFormed(Frame) /\ Arrived)
    BY <1>0, <1>1, FrameShape DEF IInv, WellFormed
<1>. QED  BY <1>0, <1>2, ReadingFacts, ClosingKeeps

\* The handler returns, whatever it left.
LEMMA HandlerReturnsKeeps ==
    ASSUME IInv, HandlerReturns
    PROVE  IInv'
<1>0. /\ Reading /\ pc = "handle" /\ pc' = "discard" /\ result' = result
      /\ handler' \in {"ok", "error"} /\ UNCHANGED <<peer, cur, start>>
      /\ pos' = pos /\ buffered' = buffered /\ left' = left /\ dict' = dict
    BY DEF HandlerReturns, AfterHandler, Reading, position
<1>1. Fed' = Fed /\ Outer' = Outer
    BY <1>0, FrameStays DEF Fed, Outer
<1>2. arrival = "whole" /\ ~Raw => pos = Minimum(sent, End)
    BY <1>0 DEF IInv, WholeFrames
<1>. QED  BY <1>0, <1>1, <1>2, ReadingFacts, ReadingKeeps

\* Nothing is left within the handler's bound: the call returns.
LEMMA DiscardNothingKeeps ==
    ASSUME IInv, DiscardNothing
    PROVE  IInv'
<1>0. /\ Reading /\ pc = "discard" /\ pc' = "returned" /\ left = 0
      /\ result' \in {"ok", "handler_error"} /\ UNCHANGED <<peer, cur, start>>
      /\ pos' = pos /\ buffered' = buffered /\ left' = left /\ dict' = dict /\ handler' = handler
    BY DEF DiscardNothing, Return, Reading, position
<1>1. Fed' = Fed /\ Outer' = Outer
    BY <1>0, FrameStays DEF Fed, Outer
<1>2. arrival = "whole" /\ ~Raw => pos = Minimum(sent, End)
    BY <1>0 DEF IInv, WholeFrames
<1>. QED  BY <1>0, <1>1, <1>2, ReadingFacts, ReadingKeeps

\* The next frame starts where the last one ended.
LEMMA NextFrameKeeps ==
    ASSUME IInv, NextFrame
    PROVE  IInv'
<1>0. /\ pc = "returned" /\ pos = End /\ cur < Len(stream) /\ pc' = "idle"
      /\ cur' = cur + 1 /\ start' = End /\ handler' = "ok" /\ left' = 0 /\ dict' = 0
      /\ stream' = stream /\ arrival' = arrival /\ sent' = sent
      /\ pos' = pos /\ buffered' = buffered /\ result' = result
    BY DEF NextFrame, peer, position
<1>1. stream \in Seq(FramesOf(stream)) /\ End \in Nat /\ TypeOK
    BY FrameShape, ReaderAssumption DEF IInv, TypeOK
<1>2. TypeOK'
    BY <1>0, <1>1 DEF TypeOK
<1>3. End' \in Nat /\ End' >= start'
    <2>1. cur' \in 1..Len(stream) /\ stream \in Streams
        BY <1>0, <1>1, <1>2 DEF TypeOK
    <2>2. Size(stream[cur']) \in Nat
        BY <2>1, AnyFrame
    <2>3. End' = start' + Size(stream[cur'])
        BY <1>0 DEF End, Frame
    <2>. QED  BY <1>0, <1>1, <2>2, <2>3
<1>4. WithinFrame'
    BY <1>0, <1>3 DEF WithinFrame
<1>5. ContentConserved' /\ Places'
    BY <1>0 DEF IInv, ContentConserved, Places, Reading
<1>6. WholeFrames'
    <2>1. arrival = "whole" => buffered = End
        <3>1. arrival = "whole" => buffered = Minimum(sent, End)
            BY <1>0 DEF IInv, WholeFrames
        <3>. QED  BY <1>0, <1>1, <3>1 DEF TypeOK, Minimum
    <2>. QED  BY <1>0, <2>1 DEF WholeFrames
<1>7. EofJustified'
    BY <1>0 DEF IInv, EofJustified, NoSpuriousEof, Places
<1>. QED  BY <1>2, <1>4, <1>5, <1>6, <1>7 DEF IInv

-----------------------------------------------------------------------------
(* The theorems. *)

\* Before the first read_packet nothing has been taken and nothing buffered.
LEMMA InitIInv == Init => IInv
<1>. SUFFICES ASSUME Init
              PROVE  IInv
    OBVIOUS
<1>1. stream \in Streams /\ Len(stream) \in Nat /\ Len(stream) > 0
    BY ReaderAssumption, LenProperties, EmptySeq DEF Init
<1>2. Size(stream[1]) \in Nat
    <2>1. 1 \in 1..Len(stream)
        BY <1>1
    <2>. QED  BY <1>1, <2>1, AnyFrame
<1>3. sent \in Nat
    <2>1. Len(stream) > 1 => 2 \in 1..Len(stream)
        BY <1>1
    <2>2. Len(stream) > 1 => Size(stream[2]) \in Nat
        BY <1>1, <2>1, AnyFrame
    <2>. QED  BY <1>2, <2>2 DEF Init
<1>4. TypeOK
    BY <1>1, <1>3 DEF Init, TypeOK
<1>5. End \in Nat
    BY <1>4, FrameShape
<1>. QED
    BY <1>4, <1>5 DEF Init, IInv, WithinFrame, ContentConserved, Places, WholeFrames,
                      EofJustified, NoSpuriousEof, Reading

\* Every step of a read, and the turn to the next frame, keeps the invariant.
LEMMA NextIInv == IInv /\ [Next]_vars => IInv'
<1>. SUFFICES ASSUME IInv, [Next]_vars
              PROVE  IInv'
    OBVIOUS
<1>1. CASE UNCHANGED vars
    <2>1. UNCHANGED <<peer, cur, start, pos, buffered, pc, left, dict, handler, result>>
        BY <1>1 DEF vars
    <2>. QED
        BY <2>1, FrameStays DEF IInv, TypeOK, WithinFrame, ContentConserved, Places, WholeFrames,
               EofJustified, NoSpuriousEof, Reading, Outer, Fed, Content
<1>. QED
    BY <1>1, StartKeeps, ReadLengthKeeps, ReadDataLengthKeeps, RawReadKeeps, InflateKeeps,
       InflateFailsKeeps, IdMissingKeeps, HandlerReturnsKeeps, DiscardNothingKeeps,
       NextFrameKeeps DEF Next

\* The inductive invariant of read_packet holds in every state.
THEOREM Invariance == Spec => []IInv
BY InitIInv, NextIInv, PTL DEF Spec

\* No read reaches beyond what was sent, and the BufReader's contents lie
\* between what was taken and what came.
THEOREM TypeCorrect == Spec => []TypeOK
BY Invariance, PTL DEF IInv

\* For every stream, every handler and every cut: one call of read_packet never
\* takes a byte of the next frame.
THEOREM StaysWithinFrame == Spec => []WithinFrame
BY Invariance, PTL DEF IInv

\* The bound the handler sees is the rest of the frame; of a deflated one, every
\* byte is given out once or held by the InflateState.
THEOREM ContentIsConserved == Spec => []ContentConserved
BY Invariance, PTL DEF IInv

\* Raw frames in any pieces, and deflated ones in one piece, are read to their
\* last byte, and are not reported as the end of the stream when they are there.
THEOREM UncutFramesAreReadWhole == Spec => []UncutIsReadWhole
<1>1. IInv => UncutIsReadWhole
    <2>. SUFFICES ASSUME IInv, ~Cut
                  PROVE  EndsOnBoundary /\ NoSpuriousEof
        BY DEF UncutIsReadWhole
    <2>1. NoSpuriousEof
        BY DEF IInv, EofJustified
    <2>2. ASSUME pc = "returned"
          PROVE  pos = Minimum(End, sent)
        <3>1. /\ pos \in Nat /\ sent \in Nat /\ End \in Nat /\ pos <= sent
              /\ arrival \in {"pieces", "whole"}
            BY FrameShape, ReaderAssumption, SMTT(30) DEF IInv, TypeOK
        <3>2. CASE Raw
            <4>1. pos = End
                BY <2>2, <3>2 DEF IInv, Places
            <4>. QED  BY <3>1, <4>1 DEF Minimum
        <3>3. CASE ~Raw
            <4>1. pos = Minimum(sent, End)
                BY <2>2, <3>1, <3>3 DEF IInv, WholeFrames, Cut
            <4>. QED  BY <3>1, <4>1 DEF Minimum
        <3>. QED  BY <3>2, <3>3
    <2>. QED  BY <2>1, <2>2 DEF EndsOnBoundary
<1>. QED  BY Invariance, <1>1, PTL

=============================================================================
