--------------------------- MODULE MCPacketReader ---------------------------
(* The frames for TLC: every length around the bounds, and each way in which *)
(* a frame can disagree with itself.                                         *)
EXTENDS PacketReader

Raw_(lenBytes, dataLen, data, known) ==
    [lenBytes |-> lenBytes, dataLen |-> dataLen, kind |-> "raw",
     head |-> 0, data |-> data, tail |-> 0, claim |-> data, known |-> known]

Deflated(head, data, tail, claim) ==
    [lenBytes |-> 1, dataLen |-> 1, kind |-> "deflate",
     head |-> head, data |-> data, tail |-> tail, claim |-> claim, known |-> TRUE]

Negative == [lenBytes |-> 1, dataLen |-> 5, kind |-> "negative",
             head |-> 0, data |-> 1, tail |-> 0, claim |-> 1, known |-> TRUE]

\* Without a threshold: lengths of one and three bytes, an over-long length, an
\* empty frame, an unknown packet.
PlainFrames == {Raw_(1, 0, 2, TRUE), Raw_(3, 0, 3, TRUE), Raw_(4, 0, 1, TRUE),
                Raw_(1, 0, 0, TRUE), Raw_(1, 0, 2, FALSE)}

\* With a threshold: below it, deflated, too short and too long for the claim.
CompressedFrames == {Raw_(1, 1, 2, TRUE), Negative, Deflated(2, 3, 2, 3),
                     Deflated(1, 1, 1, 1), Deflated(1, 2, 1, 3),
                     Deflated(1, 3, 1, 2)}

UpToTwo(frames) == UNION {[1..n -> frames] : n \in 1..2}
AllStreams == UpToTwo(PlainFrames) \union UpToTwo(CompressedFrames)
WellFormedDeflate == {<<Deflated(2, 3, 2, 3)>>}
=============================================================================
