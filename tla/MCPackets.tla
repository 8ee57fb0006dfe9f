----------------------------- MODULE MCPackets ------------------------------
(* The packets of all versions, and types that nest each kind in others.    *)
EXTENDS Packets, PacketTables

Shape(t, values) == [type |-> t, values |-> values]

Words(width) ==
    Shape(IntType(width), {IntValue(width, n) : n \in 0..(BytePower[width] - 1)})
Truths == Shape(BoolType, {BoolValue(0), BoolValue(1)})
Arrays(width) ==
    Shape(BytesType(width),
          {Value("bytes", width, <<s>>, width) : s \in [1..width -> 0..(ByteBase - 1)]})
Options(s) ==
    Shape(OptionOf(s.type), {NoneValue} \union {SomeValue(v) : v \in s.values})
Many(n, s) ==
    Shape(ArrayOf(n, s.type), {ManyValue("array", items) : items \in [1..n -> s.values]})
Pairs(s, t) ==
    Shape(PairOf(s.type, t.type),
          {ManyValue("tuple", <<v, w>>) : v \in s.values, w \in t.values})
\* Box, Rc and Arc are read as what they hold.
Boxes(s) == Shape(Owned(s.type), s.values)

\* Types nested up to three deep, and the parts of each.
AllShapes ==
    {Words(1), Words(2), Truths, Arrays(1), Arrays(2), Options(Words(1)), Options(Words(2)),
     Options(Truths), Options(Options(Truths)), Boxes(Words(1)), Boxes(Truths),
     Options(Boxes(Truths)), Many(0, Words(1)), Many(3, Words(1)), Many(2, Truths),
     Many(2, Options(Words(1))), Many(2, Arrays(1)), Many(2, Boxes(Words(1))),
     Many(2, Boxes(Truths)), Many(2, Options(Boxes(Truths))), Many(0, Boxes(Truths)),
     Options(Many(2, Boxes(Truths))), Pairs(Words(2), Truths), Boxes(Many(2, Truths)),
     Pairs(Many(2, Truths), Options(Words(1))), Pairs(Truths, Words(1)),
     Pairs(Boxes(Truths), Pairs(Truths, Words(1)))}

\* v1_21_10's Pong.
PongPacket == Packet(773, "status", "server", Designator("status", "clientbound", 2))
=============================================================================
