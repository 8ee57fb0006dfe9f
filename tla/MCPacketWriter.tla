--------------------------- MODULE MCPacketWriter ---------------------------
(* Packets for TLC, with 2 values a byte (lengths up to 7) and 12 for i32::MAX: *)
(* at and beyond both limits, in one slice, in several and in an empty one.    *)
EXTENDS PacketWriter

Packet(i, s) == [id |-> i, slices |-> s]
PacketsOfAllSizes ==
    {Packet(1, <<>>), Packet(1, <<3>>), Packet(1, <<5>>), Packet(1, <<2, 4>>),
     Packet(1, <<0, 3>>), Packet(2, <<6>>), Packet(1, <<12>>)}
LongSlice == {Packet(1, <<5>>)}
=============================================================================
