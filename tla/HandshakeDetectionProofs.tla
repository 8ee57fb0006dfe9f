---------------------- MODULE HandshakeDetectionProofs ----------------------
(***************************************************************************)
(* The safety of HandshakeDetection for every length a modern client may   *)
(* announce, every data length of a 1.6 ping and every timing.             *)
(***************************************************************************)
EXTENDS HandshakeDetection, SequenceTheorems, TLAPS

-----------------------------------------------------------------------------
(* The length of a modern packet. *)

\* What the length loop has after k bytes that ask for more: the first byte was
\* kept whole, and its bit 7 stays unless the second group's lowest bit hides it.
Excess(n) == IF Bit7(n) THEN 0 ELSE 128
Partial(n, k) ==
    IF k = 1 THEN Group(n, 1) + 128
    ELSE IF k = 2 THEN Group(n, 1) + 128 * Group(n, 2) + Excess(n)
    ELSE Group(n, 1) + 128 * Group(n, 2) + 128 * 128 * Group(n, 3) + Excess(n)

\* The length it finds: 128 too much where bit 7 of a longer length is clear.
Measured(n) == n + IF n >= 128 THEN Excess(n) ELSE 0

\* A length takes as many bytes as it has groups of seven bits, one to five.
LEMMA SizeShape ==
    ASSUME NEW n \in Nat
    PROVE  /\ Size(n) \in 1..5
           /\ Size(n) = 1 \/ n >= Weight[Size(n) - 1]
           /\ Size(n) = 5 \/ n < Weight[Size(n)]
<1>1. \E k \in 1..5 : (k = 1 \/ n >= Weight[k - 1]) /\ (k = 5 \/ n < Weight[k])
    <2>1. CASE n < 128
        <3>1. (1 = 1 \/ n >= Weight[1 - 1]) /\ (1 = 5 \/ n < Weight[1])
            BY <2>1 DEF Weight
        <3>. QED  BY <3>1
    <2>2. CASE n >= 128 /\ n < 128 * 128
        <3>1. (2 = 1 \/ n >= Weight[2 - 1]) /\ (2 = 5 \/ n < Weight[2])
            BY <2>2 DEF Weight
        <3>. QED  BY <3>1
    <2>3. CASE n >= 128 * 128 /\ n < 128 * 128 * 128
        <3>1. (3 = 1 \/ n >= Weight[3 - 1]) /\ (3 = 5 \/ n < Weight[3])
            BY <2>3 DEF Weight
        <3>. QED  BY <3>1
    <2>4. CASE n >= 128 * 128 * 128 /\ n < 128 * 128 * 128 * 128
        <3>1. (4 = 1 \/ n >= Weight[4 - 1]) /\ (4 = 5 \/ n < Weight[4])
            BY <2>4 DEF Weight
        <3>. QED  BY <3>1
    <2>5. CASE n >= 128 * 128 * 128 * 128
        <3>1. (5 = 1 \/ n >= Weight[5 - 1]) /\ (5 = 5 \/ n < Weight[5])
            BY <2>5 DEF Weight
        <3>. QED  BY <3>1
    <2>. QED  BY <2>1, <2>2, <2>3, <2>4, <2>5
<1>. DEFINE P(k) == (k = 1 \/ n >= Weight[k - 1]) /\ (k = 5 \/ n < Weight[k])
<1>2. Size(n) \in 1..5 /\ P(Size(n))
    <2>1. \E k \in 1..5 : P(k)
        BY <1>1
    <2>2. Size(n) = CHOOSE k \in 1..5 : P(k)
        BY DEF Size
    <2>. HIDE DEF P
    <2>. QED  BY <2>1, <2>2
<1>. QED  BY <1>2

\* A group is seven bits.
LEMMA GroupShape ==
    ASSUME NEW n \in Nat, NEW k \in 1..5
    PROVE  Group(n, k) \in 0..127
<1>1. /\ Group(n, 1) = n % 128 /\ Group(n, 2) = (n \div 128) % 128
      /\ Group(n, 3) = (n \div (128 * 128)) % 128
      /\ Group(n, 4) = (n \div (128 * 128 * 128)) % 128
      /\ Group(n, 5) = (n \div (128 * 128 * 128 * 128)) % 128
    BY DEF Group, Weight
<1>2. Group(n, 1) \in 0..127 /\ Group(n, 2) \in 0..127
    BY <1>1
<1>3. Group(n, 3) \in 0..127
    BY <1>1
<1>4. Group(n, 4) \in 0..127
    BY <1>1
<1>5. Group(n, 5) \in 0..127
    BY <1>1
<1>6. k = 1 \/ k = 2 \/ k = 3 \/ k = 4 \/ k = 5
    OBVIOUS
<1>. QED  BY <1>2, <1>3, <1>4, <1>5, <1>6

\* A number is its groups, each at its weight.
LEMMA GroupsSum ==
    ASSUME NEW n \in Nat
    PROVE  /\ n < 128 => n = Group(n, 1)
           /\ n < 128 * 128 => n = Group(n, 1) + 128 * Group(n, 2)
           /\ n < 128 * 128 * 128 =>
                  n = Group(n, 1) + 128 * Group(n, 2) + 128 * 128 * Group(n, 3)
           /\ n < 128 * 128 * 128 * 128 =>
                  n = Group(n, 1) + 128 * Group(n, 2) + 128 * 128 * Group(n, 3)
                        + 128 * 128 * 128 * Group(n, 4)
<1>. DEFINE q1 == n \div 128
            q2 == n \div (128 * 128)
            q3 == n \div (128 * 128 * 128)
<1>1. /\ Group(n, 1) = n % 128 /\ Group(n, 2) = q1 % 128
      /\ Group(n, 3) = q2 % 128 /\ Group(n, 4) = q3 % 128
    BY DEF Group, Weight
<1>2. n = (n % 128) + 128 * q1 /\ q1 \in Nat
    OBVIOUS
<1>3. q1 = (q1 % 128) + 128 * q2 /\ q2 \in Nat
    OBVIOUS
<1>4. q2 = (q2 % 128) + 128 * q3 /\ q3 \in Nat
    OBVIOUS
<1>5. n < 128 => q1 = 0
    OBVIOUS
<1>6. n < 128 * 128 => q2 = 0
    OBVIOUS
<1>7. n < 128 * 128 * 128 => q3 = 0
    OBVIOUS
<1>8. n < 128 * 128 * 128 * 128 => q3 % 128 = q3
    OBVIOUS
<1>9. n % 128 \in Nat /\ q1 % 128 \in Nat /\ q2 % 128 \in Nat /\ q3 % 128 \in Nat
    OBVIOUS
<1>. HIDE DEF q1, q2, q3
<1>. QED  BY <1>1, <1>2, <1>3, <1>4, <1>5, <1>6, <1>7, <1>8, <1>9

\* value | bits, where the two may overlap in bit 7 only (LoopStep): the third
\* group's bits lie above it,
LEMMA OrBitsThird ==
    ASSUME NEW g \in 0..127, NEW v \in Nat
    PROVE  OrBits(v, g * (128 * 128)) = v + g * (128 * 128)
<1>1. (g * (128 * 128)) \div 128 = 128 * g
    OBVIOUS
<1>2. (128 * g) % 2 = 0
    OBVIOUS
<1>3. ~Bit7(g * (128 * 128))
    BY <1>1, <1>2 DEF Bit7
<1>. QED  BY <1>3 DEF OrBits

\* and so do the fourth's.
LEMMA OrBitsFourth ==
    ASSUME NEW g \in 0..127, NEW v \in Nat
    PROVE  OrBits(v, g * (128 * 128 * 128)) = v + g * (128 * 128 * 128)
<1>1. (g * (128 * 128 * 128)) \div 128 = (128 * 128) * g
    OBVIOUS
<1>2. ((128 * 128) * g) % 2 = 0
    OBVIOUS
<1>3. ~Bit7(g * (128 * 128 * 128))
    BY <1>1, <1>2 DEF Bit7
<1>. QED  BY <1>3 DEF OrBits

-----------------------------------------------------------------------------
(* The inductive invariant. *)

\* A modern client the first byte tells from a ping.
Plain == client.kind = "Standard" /\ ~Ambiguous

\* Nothing is known before the first byte.
AtFirst ==
    pc = "first" => pos = 0 /\ version = "none" /\ value = 0 /\ probe.tag = "idle"

\* The length loop is at its pos-th byte and has the groups before it.
AtLength ==
    pc = "length" =>
        /\ Plain /\ version = "none" /\ pos \in 1..3 /\ pos < Len(client.head)
        /\ offset = 7 * pos /\ value = Partial(client.data, pos)

\* A probe has read nothing but 0xFE, then nothing but 0xFE 0x01, and holds the
\* byte after them if it came.
ProbedFrom == IF pc = "probe_second" THEN 1 ELSE 2
AtProbe ==
    Probing =>
        /\ ~Plain /\ version = "none" /\ value = 0
        /\ pc = "probe_channel" => ByteAt(client, 2) = 1
        /\ probe.tag # "byte" => pos = ProbedFrom
        /\ probe.tag = "byte" => pos = ProbedFrom + 1 /\ probe.byte = ByteAt(client, pos)

\* A probe is open only while from_reader asks for a byte; a prompt client's
\* missing byte is one it never sends.
ProbeOpen == probe.tag # "idle" => Probing
ProbeLate == probe.tag = "none" /\ prompt => pos >= Sent(client)

\* Only a 1.6 ping gets behind 0xFE 0x01 0xFA.
AtChannel ==
    /\ pc = "channel" => client.kind = "Legacy1_6" /\ pos = 3 /\ version = "none"
    /\ pc = "data" => client.channel = "good" /\ pos = 27 /\ version = "none"
    /\ pc = "malformed" => client.channel # "good"

\* What a version says of its client.
Found ==
    /\ version = "Standard" =>
           Plain /\ Len(client.head) <= 4 /\ value = Measured(client.data)
    /\ version = "Legacy1_6" =>
           client.channel = "good" /\ ~Negative(client.data) /\ value = client.data
    /\ version = "Pre1_6" =>
           ~Plain /\ client.kind # "Pre1_3" /\ (prompt /\ ~Ambiguous => client.kind = "Pre1_6")
    /\ version = "Pre1_3" =>
           ~Plain /\ (prompt /\ ~Ambiguous => client.kind = "Pre1_3")

\* Where the bounded part begins, and what is left of it.
BoundAt ==
    IF version = "Standard" THEN Len(client.head)
    ELSE IF version = "Legacy1_6" THEN 29
    ELSE IF version = "Pre1_6" THEN 2 ELSE 1
Bound == IF version \in {"Standard", "Legacy1_6"} THEN value ELSE 0
Bounded == {"id", "handler", "discard", "ok", "handler_error"}
AtBound ==
    /\ pc = "bound" => version # "none" /\ pos = BoundAt
    /\ pc \in Bounded => version # "none" /\ pos + left = BoundAt + Bound
    /\ pc \in {"ok", "handler_error"} => left = 0

IInv ==
    /\ TypeOK /\ BlockingReads
    /\ AtFirst /\ AtLength /\ AtProbe /\ ProbeOpen /\ ProbeLate /\ AtChannel
    /\ Found /\ AtBound

-----------------------------------------------------------------------------
(* The clients. *)

\* What a modern client sends: its length as a VarInt, whose bytes but the last
\* ask for more.
LEMMA ModernShape ==
    ASSUME NEW c \in Clients, c.kind = "Standard"
    PROVE  /\ c.data \in Lengths /\ c.data \in Nat /\ c.channel = "none" /\ c.id \in SentIds
           /\ Len(c.head) = Size(c.data) /\ Len(c.head) \in 1..5
           /\ c.packet = Len(c.head) + c.data
           /\ \A k \in 1..Len(c.head) :
                  c.head[k] = Group(c.data, k) + IF k < Len(c.head) THEN 128 ELSE 0
<1>1. PICK n \in Lengths, i \in SentIds : c = Modern(n, i)
    BY DEF Clients, Ping
<1>2. n \in Nat
    BY LengthsAssumption
<1>3. c.data = n /\ c.channel = "none" /\ c.id = i /\ c.packet = Size(n) + n /\ c.head = Encode(n)
    BY <1>1 DEF Modern
<1>4. Size(n) \in 1..5
    BY <1>2, SizeShape
<1>5. /\ Len(Encode(n)) = Size(n)
      /\ \A k \in 1..Size(n) : Encode(n)[k] = Group(n, k) + IF k < Size(n) THEN 128 ELSE 0
    <2>. DEFINE B(k) == Group(n, k) + IF k < Size(n) THEN 128 ELSE 0
    <2>1. Encode(n) = [k \in 1..Size(n) |-> B(k)]
        BY DEF Encode
    <2>2. \A k \in 1..Size(n) : B(k) \in Nat
        <3>. SUFFICES ASSUME NEW k \in 1..Size(n) PROVE B(k) \in Nat
            OBVIOUS
        <3>1. Group(n, k) \in 0..127
            <4>1. k \in 1..5
                BY <1>4
            <4>. QED  BY <4>1, <1>2, GroupShape
        <3>. QED  BY <3>1
    <2>. HIDE DEF B
    <2>3. \A k \in 1..Size(n) : Encode(n)[k] = B(k)
        BY <2>1
    <2>4. Len(Encode(n)) = Size(n)
        BY <2>1, <2>2, <1>4, LenProperties
    <2>. QED  BY <2>3, <2>4 DEF B
<1>. QED  BY <1>2, <1>3, <1>4, <1>5

\* What the pings start with.
LEMMA PingShape ==
    ASSUME NEW c \in Clients, c.kind # "Standard"
    PROVE  /\ c.id = 0 /\ c.data \in Nat
           /\ \/ /\ c.kind = "Pre1_3" /\ c.head = <<254>>
                 /\ c.channel = "none" /\ c.packet = 1
              \/ /\ c.kind = "Pre1_6" /\ c.head = <<254, 1>>
                 /\ c.channel = "none" /\ c.packet = 2
              \/ /\ c.kind = "Legacy1_6" /\ c.head = <<254, 1, 250>>
                 /\ c.channel \in {"good", "bad_length", "bad_name"}
                 /\ c.packet = 29 + IF Negative(c.data) THEN 0 ELSE c.data
              \/ /\ c.kind = "other" /\ c.head = <<254, 2>>
                 /\ c.channel = "none" /\ c.packet = 2
              \/ /\ c.kind = "other" /\ c.head = <<254, 1, 251>>
                 /\ c.channel = "none" /\ c.packet = 3
<1>1. CASE c \in {Modern(n, i) : n \in Lengths, i \in SentIds}
    BY <1>1 DEF Modern
<1>2. CASE c = Ping("Pre1_3", <<254>>, "none", 0)
    BY <1>2 DEF Ping
<1>3. CASE c = Ping("Pre1_6", <<254, 1>>, "none", 0)
    BY <1>3 DEF Ping
<1>4. CASE c \in {Ping("Legacy1_6", <<254, 1, 250>>, "good", d) : d \in DataLengths}
    <2>1. PICK d \in DataLengths : c = Ping("Legacy1_6", <<254, 1, 250>>, "good", d)
        BY <1>4
    <2>2. d \in Nat
        BY DataLengthsAssumption
    <2>. QED  BY <2>1, <2>2 DEF Ping
<1>5. CASE c \in {Ping("Legacy1_6", <<254, 1, 250>>, ch, 0) : ch \in {"bad_length", "bad_name"}}
    BY <1>5 DEF Ping
<1>6. CASE c = Ping("other", <<254, 2>>, "none", 0)
    BY <1>6 DEF Ping
<1>7. CASE c = Ping("other", <<254, 1, 251>>, "none", 0)
    BY <1>7 DEF Ping
<1>. QED  BY <1>1, <1>2, <1>3, <1>4, <1>5, <1>6, <1>7 DEF Clients

\* The bytes of a length.
LEMMA LengthBytesOf ==
    ASSUME NEW c \in Clients, c.kind = "Standard", NEW k \in 1..Len(c.head)
    PROVE  /\ ByteAt(c, k) \in 0..255 /\ ByteAt(c, k) % 128 = Group(c.data, k)
           /\ ByteAt(c, k) >= 128 <=> k < Len(c.head)
<1>1. Len(c.head) \in 1..5 /\ c.data \in Nat
    BY ModernShape
<1>2. c.head[k] = Group(c.data, k) + IF k < Len(c.head) THEN 128 ELSE 0
    BY ModernShape
<1>3. k \in 1..5 /\ k <= Len(c.head)
    <2>1. \A a \in 1..5 : \A b \in 1..a : b \in 1..5 /\ b <= a
        OBVIOUS
    <2>. QED  BY <1>1, <2>1
<1>4. Group(c.data, k) \in 0..127
    BY <1>1, <1>3, GroupShape
<1>5. ByteAt(c, k) = c.head[k]
    BY <1>3 DEF ByteAt
<1>6. PICK g \in 0..127 : g = Group(c.data, k)
    BY <1>4
<1>7. CASE k < Len(c.head)
    <2>1. ByteAt(c, k) = g + 128
        BY <1>2, <1>5, <1>6, <1>7
    <2>2. g + 128 \in 0..255 /\ (g + 128) % 128 = g /\ g + 128 >= 128
        OBVIOUS
    <2>. QED  BY <1>6, <1>7, <2>1, <2>2
<1>8. CASE ~(k < Len(c.head))
    <2>1. ByteAt(c, k) = g
        BY <1>2, <1>5, <1>6, <1>8
    <2>2. g \in 0..255 /\ g % 128 = g /\ ~(g >= 128)
        OBVIOUS
    <2>. QED  BY <1>6, <1>8, <2>1, <2>2
<1>. QED  BY <1>7, <1>8

\* An id is one byte, or 128's two.
LEMMA IdShape ==
    ASSUME NEW c \in Clients
    PROVE  /\ c.id \in SentIds
           /\ IdBytes(c.id) = <<c.id>> \/ (c.id = 128 /\ IdBytes(c.id) = <<128, 1>>)
           /\ Len(IdBytes(c.id)) \in {1, 2}
<1>1. c.id \in SentIds
    <2>1. CASE c.kind = "Standard"
        BY <2>1, ModernShape
    <2>2. CASE c.kind # "Standard"
        <3>1. c.id = 0
            BY <2>2, PingShape
        <3>. QED  BY <3>1 DEF SentIds
    <2>. QED  BY <2>1, <2>2
<1>2. CASE c.id = 128
    BY <1>1, <1>2 DEF IdBytes
<1>3. CASE c.id # 128
    BY <1>1, <1>3 DEF IdBytes
<1>. QED  BY <1>1, <1>2, <1>3

\* The bytes behind a length: only the id's first may ask for more.
LEMMA IdBytesOf ==
    ASSUME NEW c \in Clients, c.kind = "Standard", NEW k \in Nat, k > Len(c.head)
    PROVE  /\ ByteAt(c, k) \in {0, 1, 128}
           /\ k > Len(c.head) + 1 => ByteAt(c, k) \in {0, 1}
<1>1. Len(c.head) \in 1..5
    BY ModernShape
<1>2. PICK L, i : L = Len(c.head) /\ i = c.id
    OBVIOUS
<1>3. L \in 1..5 /\ k > L /\ i \in {0, 1, 128}
    BY <1>1, <1>2, IdShape DEF SentIds
<1>4. ByteAt(c, k) = IF k <= L + Len(IdBytes(i)) THEN IdBytes(i)[k - L] ELSE 0
    <2>1. ~(k <= Len(c.head))
        BY <1>2, <1>3
    <2>2. ByteAt(c, k) = IF k <= Len(c.head) + Len(IdBytes(c.id))
                         THEN IdBytes(c.id)[k - Len(c.head)] ELSE 0
        BY <2>1, Zenon DEF ByteAt
    <2>. QED  BY <1>2, <2>2, Zenon
<1>5. CASE i = 128
    <2>1. IdBytes(i) = <<128, 1>>
        BY <1>5 DEF IdBytes
    <2>2. ByteAt(c, k) = IF k - L = 1 THEN 128 ELSE IF k - L = 2 THEN 1 ELSE 0
        BY <1>3, <1>4, <2>1
    <2>. QED  BY <1>2, <1>3, <2>2
<1>6. CASE i # 128
    <2>1. IdBytes(i) = <<i>>
        BY <1>6 DEF IdBytes
    <2>2. ByteAt(c, k) = IF k - L = 1 THEN i ELSE 0
        BY <1>3, <1>4, <2>1
    <2>. QED  BY <1>2, <1>3, <2>2
<1>. QED  BY <1>5, <1>6

\* Every byte the server looks at is a byte; a ping starts with 0xFE, and only a
\* 1.6 ping goes on with 0x01 0xFA.
LEMMA BytesTell ==
    ASSUME NEW c \in Clients
    PROVE  /\ \A k \in Nat \ {0} : ByteAt(c, k) \in 0..255
           /\ c.kind # "Standard" => ByteAt(c, 1) = 254
           /\ ByteAt(c, 2) = 1 /\ ByteAt(c, 3) = 250 => c.kind = "Legacy1_6"
           /\ c.kind = "Legacy1_6" => ByteAt(c, 2) = 1 /\ ByteAt(c, 3) = 250
           /\ ByteAt(c, 2) = 1 => c.kind # "Pre1_3"
           /\ c.channel = "good" => c.kind = "Legacy1_6"
<1>1. CASE c.kind = "Standard"
    <2>1. Len(c.head) \in 1..5 /\ c.channel = "none"
        BY <1>1, ModernShape
    <2>2. \A k \in Nat \ {0} : ByteAt(c, k) \in 0..255
        <3>. SUFFICES ASSUME NEW k \in Nat \ {0} PROVE ByteAt(c, k) \in 0..255
            OBVIOUS
        <3>1. CASE k <= Len(c.head)
            <4>1. k \in 1..Len(c.head)
                BY <2>1, <3>1
            <4>. QED  BY <1>1, <4>1, LengthBytesOf
        <3>2. CASE ~(k <= Len(c.head))
            <4>1. k > Len(c.head)
                BY <2>1, <3>2
            <4>2. ByteAt(c, k) \in {0, 1, 128}
                BY <1>1, <4>1, IdBytesOf
            <4>. QED  BY <4>2
        <3>. QED  BY <3>1, <3>2
    <2>3. ~(ByteAt(c, 2) = 1 /\ ByteAt(c, 3) = 250)
        <3>1. CASE Len(c.head) >= 3
            <4>1. 2 \in 1..Len(c.head) /\ 2 < Len(c.head)
                BY <2>1, <3>1
            <4>2. ByteAt(c, 2) >= 128
                BY <1>1, <4>1, LengthBytesOf
            <4>. QED  BY <4>2
        <3>2. CASE ~(Len(c.head) >= 3)
            <4>1. 3 > Len(c.head)
                BY <2>1, <3>2
            <4>2. ByteAt(c, 3) \in {0, 1, 128}
                BY <1>1, <4>1, IdBytesOf
            <4>. QED  BY <4>2
        <3>. QED  BY <3>1, <3>2
    <2>. QED  BY <1>1, <2>1, <2>2, <2>3
<1>2. CASE c.kind # "Standard"
    <2>1. CASE c.kind = "Pre1_3" /\ c.head = <<254>> /\ c.channel = "none" /\ c.id = 0
        BY <2>1 DEF ByteAt, IdBytes
    <2>2. CASE c.kind = "Pre1_6" /\ c.head = <<254, 1>> /\ c.channel = "none" /\ c.id = 0
        BY <2>2 DEF ByteAt, IdBytes
    <2>3. CASE c.kind = "Legacy1_6" /\ c.head = <<254, 1, 250>> /\ c.id = 0
        BY <2>3 DEF ByteAt, IdBytes
    <2>4. CASE c.kind = "other" /\ c.head = <<254, 2>> /\ c.channel = "none" /\ c.id = 0
        BY <2>4 DEF ByteAt, IdBytes
    <2>5. CASE c.kind = "other" /\ c.head = <<254, 1, 251>> /\ c.channel = "none" /\ c.id = 0
        BY <2>5 DEF ByteAt, IdBytes
    <2>. QED  BY <1>2, <2>1, <2>2, <2>3, <2>4, <2>5, PingShape
<1>. QED  BY <1>1, <1>2

\* A ping of which nothing more is to come, by its length.
LEMMA SentTells ==
    ASSUME NEW c \in Clients
    PROVE  /\ c.packet \in Nat /\ Sent(c) \in Nat /\ c.packet <= Sent(c)
           /\ Len(c.head) \in Nat /\ (c.channel # "none" => Len(c.head) + 26 <= c.packet)
           /\ c.kind # "Standard" /\ Sent(c) <= 1 => c.kind = "Pre1_3"
           /\ c.kind # "Standard" /\ Sent(c) <= 2 /\ ByteAt(c, 2) = 1 => c.kind = "Pre1_6"
           /\ c.data \in Nat
<1>1. CASE c.kind = "Standard"
    <2>1. /\ c.data \in Lengths /\ c.data \in Nat /\ c.channel = "none"
          /\ Len(c.head) \in 1..5 /\ c.packet = Len(c.head) + c.data
        BY <1>1, ModernShape
    <2>2. Pipelined[c.data] \in Nat
        BY <2>1, PipelinedAssumption
    <2>3. Sent(c) = c.packet + Pipelined[c.data]
        BY <1>1 DEF Sent
    <2>4. PICK p \in Nat : p = Pipelined[c.data]
        BY <2>2
    <2>5. Sent(c) = c.packet + p
        BY <2>3, <2>4
    <2>. QED  BY <1>1, <2>1, <2>5
<1>2. CASE c.kind # "Standard"
    <2>. c.data \in Nat /\ c.id = 0
        BY <1>2, PingShape
    <2>1. CASE /\ c.kind = "Pre1_3" /\ c.head = <<254>>
               /\ c.channel = "none" /\ c.packet = 1
        BY <2>1 DEF Sent, ByteAt, IdBytes
    <2>2. CASE /\ c.kind = "Pre1_6" /\ c.head = <<254, 1>>
               /\ c.channel = "none" /\ c.packet = 2
        BY <2>2 DEF Sent
    <2>3. CASE /\ c.kind = "Legacy1_6" /\ c.head = <<254, 1, 250>>
               /\ c.packet = 29 + IF Negative(c.data) THEN 0 ELSE c.data
        <3>1. c.packet \in Nat /\ c.packet >= 29
            BY <2>3
        <3>2. Sent(c) = c.packet + 0 /\ Len(c.head) = 3
            BY <2>3 DEF Sent
        <3>. QED  BY <2>3, <3>1, <3>2
    <2>4. CASE /\ c.kind = "other" /\ c.head = <<254, 2>>
               /\ c.channel = "none" /\ c.packet = 2
        BY <2>4 DEF Sent, ByteAt, IdBytes
    <2>5. CASE /\ c.kind = "other" /\ c.head = <<254, 1, 251>>
               /\ c.channel = "none" /\ c.packet = 3
        BY <2>5 DEF Sent
    <2>. QED  BY <1>2, <2>1, <2>2, <2>3, <2>4, <2>5, PingShape
<1>. QED  BY <1>1, <1>2

-----------------------------------------------------------------------------
(* The length loop. *)

\* The lowest bit of the second group is bit 7.
LEMMA ExcessShape ==
    ASSUME NEW n \in Nat
    PROVE  /\ Excess(n) = IF Group(n, 2) % 2 = 1 THEN 0 ELSE 128
           /\ Excess(n) \in {0, 128}
           /\ Group(n, 1) + 128 * Group(n, 2) + Excess(n) < 128 * 128
<1>1. Group(n, 1) \in 0..127 /\ Group(n, 2) \in 0..127 /\ Group(n, 2) = (n \div 128) % 128
    <2>1. Group(n, 1) \in 0..127 /\ Group(n, 2) \in 0..127
        BY GroupShape
    <2>2. Group(n, 2) = (n \div 128) % 128
        BY DEF Group, Weight
    <2>. QED  BY <2>1, <2>2
<1>2. \A q \in Nat : (q % 128) % 2 = q % 2
    OBVIOUS
<1>3. n \div 128 \in Nat
    OBVIOUS
<1>4. Bit7(n) <=> Group(n, 2) % 2 = 1
    BY <1>1, <1>2, <1>3 DEF Bit7
<1>5. Excess(n) = (IF Group(n, 2) % 2 = 1 THEN 0 ELSE 128)
    BY <1>4 DEF Excess
<1>6. PICK g \in 0..127, h \in 0..127 : g = Group(n, 1) /\ h = Group(n, 2)
    BY <1>1
<1>7. /\ g + 128 * h + 0 < 128 * 128
      /\ h % 2 # 1 => g + 128 * h + 128 < 128 * 128
    OBVIOUS
<1>. QED  BY <1>5, <1>6, <1>7

\* The value between two bytes of the loop stays below four groups.
LEMMA PartialBound ==
    ASSUME NEW n \in Nat, NEW k \in 1..3
    PROVE  Partial(n, k) \in Nat /\ Partial(n, k) < 128 * 128 * 128
<1>1. Group(n, 1) \in 0..127 /\ Group(n, 2) \in 0..127 /\ Group(n, 3) \in 0..127
    BY GroupShape
<1>2. PICK g1 \in 0..127, g2 \in 0..127, g3 \in 0..127 :
          g1 = Group(n, 1) /\ g2 = Group(n, 2) /\ g3 = Group(n, 3)
    BY <1>1
<1>3. PICK e \in {0, 128} : e = Excess(n)
    BY ExcessShape
<1>4. g1 + 128 * g2 + e < 128 * 128
    BY <1>2, <1>3, ExcessShape
<1>5. CASE k = 1
    BY <1>2, <1>5 DEF Partial
<1>6. CASE k = 2
    <2>1. Partial(n, k) = g1 + 128 * g2 + e
        BY <1>2, <1>3, <1>6 DEF Partial
    <2>. QED  BY <1>4, <2>1
<1>7. CASE k = 3
    <2>1. Partial(n, k) = g1 + 128 * g2 + 128 * 128 * g3 + e
        BY <1>2, <1>3, <1>7 DEF Partial
    <2>2. g1 + 128 * g2 + 128 * 128 * g3 + e < 128 * 128 * 128
        BY <1>4
    <2>3. g1 + 128 * g2 + 128 * 128 * g3 + e \in Nat
        OBVIOUS
    <2>. QED  BY <2>1, <2>2, <2>3
<1>. QED  BY <1>5, <1>6, <1>7

\* One more byte takes the loop from k groups to the next, or to the length.
LEMMA LoopStep ==
    ASSUME NEW n \in Nat
    PROVE  /\ OrBits(Partial(n, 1), Group(n, 2) * Weight[1]) = Partial(n, 2)
           /\ OrBits(Partial(n, 2), Group(n, 3) * Weight[2]) = Partial(n, 3)
           /\ OrBits(Partial(n, 3), Group(n, 4) * Weight[3])
                = Partial(n, 3) + 128 * 128 * 128 * Group(n, 4)
<1>1. /\ Group(n, 1) \in 0..127 /\ Group(n, 2) \in 0..127
      /\ Group(n, 3) \in 0..127 /\ Group(n, 4) \in 0..127
    BY GroupShape
<1>2. PICK g1 \in 0..127, g2 \in 0..127, g3 \in 0..127, g4 \in 0..127 :
          g1 = Group(n, 1) /\ g2 = Group(n, 2) /\ g3 = Group(n, 3) /\ g4 = Group(n, 4)
    BY <1>1
<1>3. PICK e \in {0, 128} : e = Excess(n)
    BY ExcessShape
<1>4. e = (IF g2 % 2 = 1 THEN 0 ELSE 128) /\ g1 + 128 * g2 + e < 128 * 128
    BY <1>2, <1>3, ExcessShape
<1>5. /\ Partial(n, 1) = g1 + 128 /\ Partial(n, 2) = g1 + 128 * g2 + e
      /\ Partial(n, 3) = g1 + 128 * g2 + 128 * 128 * g3 + e
    BY <1>2, <1>3 DEF Partial
<1>6. Weight[1] = 128 /\ Weight[2] = 128 * 128 /\ Weight[3] = 128 * 128 * 128
    BY DEF Weight
<1>8. Partial(n, 2) \in Nat
    BY PartialBound
<1>9. Partial(n, 3) \in Nat
    BY PartialBound
<1>10. OrBits(g1 + 128, g2 * 128) = g1 + 128 * g2 + e
    <2>1. PICK v \in Nat, bits \in Nat : v = g1 + 128 /\ bits = g2 * 128
        OBVIOUS
    <2>2. v \div 128 = 1 /\ bits \div 128 = g2 /\ 1 % 2 = 1
        BY <2>1
    <2>3. Bit7(v) /\ (Bit7(bits) <=> g2 % 2 = 1)
        BY <2>2 DEF Bit7
    <2>4. OrBits(v, bits) = IF g2 % 2 = 1 THEN v + bits - 128 ELSE v + bits
        BY <2>3 DEF OrBits
    <2>. QED  BY <1>4, <2>1, <2>4
<1>11. OrBits(Partial(n, 2), g3 * (128 * 128)) = Partial(n, 2) + g3 * (128 * 128)
    <2>1. PICK p \in Nat : p = Partial(n, 2)
        BY <1>8
    <2>2. OrBits(p, g3 * (128 * 128)) = p + g3 * (128 * 128)
        BY OrBitsThird
    <2>. QED  BY <2>1, <2>2
<1>12. OrBits(Partial(n, 3), g4 * (128 * 128 * 128)) = Partial(n, 3) + g4 * (128 * 128 * 128)
    <2>1. PICK p \in Nat : p = Partial(n, 3)
        BY <1>9
    <2>2. OrBits(p, g4 * (128 * 128 * 128)) = p + g4 * (128 * 128 * 128)
        BY OrBitsFourth
    <2>. QED  BY <2>1, <2>2
<1>13. OrBits(Partial(n, 1), Group(n, 2) * Weight[1]) = Partial(n, 2)
    BY <1>2, <1>5, <1>6, <1>10
<1>14. OrBits(Partial(n, 2), Group(n, 3) * Weight[2]) = Partial(n, 3)
    <2>1. Partial(n, 2) + g3 * (128 * 128) = Partial(n, 3)
        BY <1>5
    <2>. QED  BY <1>2, <1>6, <1>11, <2>1
<1>15. OrBits(Partial(n, 3), Group(n, 4) * Weight[3])
         = Partial(n, 3) + 128 * 128 * 128 * Group(n, 4)
    BY <1>2, <1>6, <1>9, <1>12
<1>. QED  BY <1>13, <1>14, <1>15

\* The length found where the loop ends after Size(n) bytes, four at most.
LEMMA LoopEnd ==
    ASSUME NEW n \in Nat
    PROVE  /\ Size(n) = 1 => Measured(n) = Group(n, 1)
           /\ Size(n) = 2 => Measured(n) = Partial(n, 2)
           /\ Size(n) = 3 => Measured(n) = Partial(n, 3)
           /\ Size(n) = 4 => Measured(n) = Partial(n, 3) + 128 * 128 * 128 * Group(n, 4)
           /\ Measured(n) \in Nat
           /\ Size(n) <= 4 => Measured(n) < Weight[4]
<1>1. /\ Group(n, 1) \in 0..127 /\ Group(n, 2) \in 0..127
      /\ Group(n, 3) \in 0..127 /\ Group(n, 4) \in 0..127
    BY GroupShape
<1>2. PICK g1 \in 0..127, g2 \in 0..127, g3 \in 0..127, g4 \in 0..127 :
          g1 = Group(n, 1) /\ g2 = Group(n, 2) /\ g3 = Group(n, 3) /\ g4 = Group(n, 4)
    BY <1>1
<1>3. PICK e \in {0, 128} : e = Excess(n)
    BY ExcessShape
<1>4. Partial(n, 2) = g1 + 128 * g2 + e /\ Partial(n, 3) = g1 + 128 * g2 + 128 * 128 * g3 + e
    BY <1>2, <1>3 DEF Partial
<1>5. Weight[1] = 128 /\ Weight[2] = 128 * 128 /\ Weight[3] = 128 * 128 * 128
      /\ Weight[4] = 128 * 128 * 128 * 128
    BY DEF Weight
<1>6. Measured(n) = IF n >= 128 THEN n + e ELSE n
    BY <1>3 DEF Measured
<1>7. /\ n < 128 => n = g1
      /\ n < 128 * 128 => n = g1 + 128 * g2
      /\ n < 128 * 128 * 128 => n = g1 + 128 * g2 + 128 * 128 * g3
      /\ n < 128 * 128 * 128 * 128 =>
             n = g1 + 128 * g2 + 128 * 128 * g3 + 128 * 128 * 128 * g4
    BY <1>2, GroupsSum
<1>8. Partial(n, 3) \in Nat /\ Partial(n, 3) < 128 * 128 * 128
    BY PartialBound
<1>9. CASE Size(n) = 1
    <2>1. n < 128
        BY <1>5, <1>9, SizeShape
    <2>. QED  BY <1>2, <1>5, <1>6, <1>7, <1>9, <2>1
<1>10. CASE Size(n) = 2
    <2>1. n >= 128 /\ n < 128 * 128
        BY <1>5, <1>10, SizeShape
    <2>. QED  BY <1>4, <1>5, <1>6, <1>7, <1>10, <2>1
<1>11. CASE Size(n) = 3
    <2>1. n >= 128 * 128 /\ n < 128 * 128 * 128
        BY <1>5, <1>11, SizeShape
    <2>. QED  BY <1>4, <1>5, <1>6, <1>7, <1>11, <2>1
<1>12. CASE Size(n) = 4
    <2>1. n >= 128 * 128 * 128 /\ n < 128 * 128 * 128 * 128
        BY <1>5, <1>12, SizeShape
    <2>2. Measured(n) = Partial(n, 3) + 128 * 128 * 128 * g4
        BY <1>4, <1>6, <1>7, <2>1
    <2>3. Measured(n) \in Nat /\ Measured(n) < 128 * 128 * 128 * 128
        BY <1>8, <2>2
    <2>. QED  BY <1>2, <1>5, <1>12, <2>2, <2>3
<1>13. CASE Size(n) = 5
    BY <1>6, <1>13
<1>14. Size(n) = 1 \/ Size(n) = 2 \/ Size(n) = 3 \/ Size(n) = 4 \/ Size(n) = 5
    BY SizeShape
<1>. QED  BY <1>9, <1>10, <1>11, <1>12, <1>13, <1>14

\* What the first byte of a length says.
LEMMA FirstLengthByte ==
    ASSUME NEW c \in Clients
    PROVE  /\ c.kind = "Standard" /\ c.head[1] # 254 <=> ByteAt(c, 1) # 254
           /\ ByteAt(c, 1) # 254 /\ ByteAt(c, 1) >= 128 =>
                  1 < Len(c.head) /\ ByteAt(c, 1) = Partial(c.data, 1)
           /\ ByteAt(c, 1) # 254 /\ ~(ByteAt(c, 1) >= 128) =>
                  Len(c.head) = 1 /\ ByteAt(c, 1) = Measured(c.data)
           /\ ByteAt(c, 1) \in Nat /\ ByteAt(c, 1) < Weight[4]
<1>1. ByteAt(c, 1) \in 0..255 /\ (c.kind # "Standard" => ByteAt(c, 1) = 254)
    BY BytesTell
<1>2. ByteAt(c, 1) \in Nat /\ ByteAt(c, 1) < Weight[4]
    BY <1>1 DEF Weight
<1>3. CASE c.kind = "Standard"
    <2>1. Len(c.head) \in 1..5 /\ c.data \in Nat /\ Len(c.head) = Size(c.data)
        BY <1>3, ModernShape
    <2>2. 1 \in 1..Len(c.head)
        BY <2>1
    <2>3. ByteAt(c, 1) % 128 = Group(c.data, 1) /\ (ByteAt(c, 1) >= 128 <=> 1 < Len(c.head))
        BY <1>3, <2>2, LengthBytesOf
    <2>4. ByteAt(c, 1) = c.head[1]
        BY <2>1 DEF ByteAt
    <2>5. ByteAt(c, 1) >= 128 => ByteAt(c, 1) = Group(c.data, 1) + 128
        <3>1. \A b \in 0..255 : b >= 128 => b = (b % 128) + 128
            OBVIOUS
        <3>. QED  BY <1>1, <2>3, <3>1
    <2>6. Partial(c.data, 1) = Group(c.data, 1) + 128
        BY DEF Partial
    <2>7. ~(ByteAt(c, 1) >= 128) => Len(c.head) = 1 /\ ByteAt(c, 1) = Measured(c.data)
        <3>. SUFFICES ASSUME ~(ByteAt(c, 1) >= 128)
                      PROVE  Len(c.head) = 1 /\ ByteAt(c, 1) = Measured(c.data)
            OBVIOUS
        <3>1. \A b \in 0..255 : ~(b >= 128) => b = b % 128
            OBVIOUS
        <3>2. ByteAt(c, 1) = Group(c.data, 1)
            BY <1>1, <2>3, <3>1
        <3>3. Len(c.head) = 1
            BY <2>1, <2>3
        <3>4. Measured(c.data) = Group(c.data, 1)
            BY <2>1, <3>3, LoopEnd
        <3>. QED  BY <3>2, <3>3, <3>4
    <2>. QED  BY <1>2, <1>3, <2>3, <2>4, <2>5, <2>6, <2>7
<1>4. CASE c.kind # "Standard"
    BY <1>1, <1>2, <1>4
<1>. QED  BY <1>3, <1>4

\* What a further byte b of a length says, v being the value with its bits.
Further(c, k, b, v) ==
    /\ b >= 128 /\ k # 3 => k + 1 < Len(c.head) /\ v = Partial(c.data, k + 1)
    /\ ~(b >= 128) => Len(c.head) = k + 1 /\ v = Measured(c.data)
    /\ (b >= 128 /\ k # 3) \/ ~(b >= 128) => v \in Nat /\ v < Weight[4]

LEMMA FurtherLengthByte ==
    ASSUME NEW c \in Clients, c.kind = "Standard", NEW k \in 1..3, k < Len(c.head)
    PROVE  LET b == ByteAt(c, k + 1)
               v == OrBits(Partial(c.data, k), (b % 128) * Weight[k])
           IN  Further(c, k, b, v)
<1>. DEFINE b == ByteAt(c, k + 1)
            v == OrBits(Partial(c.data, k), (b % 128) * Weight[k])
<1>1. Len(c.head) \in 1..5 /\ c.data \in Nat /\ Len(c.head) = Size(c.data)
    BY ModernShape
<1>2. k + 1 \in 1..Len(c.head)
    BY <1>1
<1>3. b % 128 = Group(c.data, k + 1) /\ (b >= 128 <=> k + 1 < Len(c.head))
    BY <1>2, LengthBytesOf
<1>4. ~(b >= 128) => Len(c.head) = k + 1
    BY <1>1, <1>3
<1>5. v = OrBits(Partial(c.data, k), Group(c.data, k + 1) * Weight[k])
    BY <1>3
<1>. HIDE DEF b, v
<1>6. /\ k = 1 => v = Partial(c.data, 2)
      /\ k = 2 => v = Partial(c.data, 3)
      /\ k = 3 => v = Partial(c.data, 3) + 128 * 128 * 128 * Group(c.data, 4)
    <2>1. /\ OrBits(Partial(c.data, 1), Group(c.data, 2) * Weight[1]) = Partial(c.data, 2)
          /\ OrBits(Partial(c.data, 2), Group(c.data, 3) * Weight[2]) = Partial(c.data, 3)
          /\ OrBits(Partial(c.data, 3), Group(c.data, 4) * Weight[3])
               = Partial(c.data, 3) + 128 * 128 * 128 * Group(c.data, 4)
        BY <1>1, LoopStep, Zenon
    <2>2. (k = 1 => k + 1 = 2) /\ (k = 2 => k + 1 = 3) /\ (k = 3 => k + 1 = 4)
        OBVIOUS
    <2>. QED  BY <1>5, <2>1, <2>2, Zenon
<1>7. ~(b >= 128) => v = Measured(c.data)
    <2>. SUFFICES ASSUME ~(b >= 128) PROVE v = Measured(c.data)
        OBVIOUS
    <2>1. Size(c.data) = k + 1
        BY <1>1, <1>4
    <2>2. /\ k = 1 => Measured(c.data) = Partial(c.data, 2)
          /\ k = 2 => Measured(c.data) = Partial(c.data, 3)
          /\ k = 3 => Measured(c.data) = Partial(c.data, 3) + 128 * 128 * 128 * Group(c.data, 4)
        <3>1. /\ Size(c.data) = 2 => Measured(c.data) = Partial(c.data, 2)
              /\ Size(c.data) = 3 => Measured(c.data) = Partial(c.data, 3)
              /\ Size(c.data) = 4 =>
                     Measured(c.data) = Partial(c.data, 3) + 128 * 128 * 128 * Group(c.data, 4)
            BY <1>1, LoopEnd, Zenon
        <3>2. (k = 1 => k + 1 = 2) /\ (k = 2 => k + 1 = 3) /\ (k = 3 => k + 1 = 4)
            OBVIOUS
        <3>. QED  BY <2>1, <3>1, <3>2, Zenon
    <2>3. k = 1 \/ k = 2 \/ k = 3
        OBVIOUS
    <2>. QED  BY <1>6, <2>2, <2>3
<1>8. k # 3 => v = Partial(c.data, k + 1) /\ k + 1 \in 1..3
    BY <1>6
<1>9. ~(b >= 128) => v \in Nat /\ v < Weight[4]
    <2>1. Measured(c.data) \in Nat /\ (Size(c.data) <= 4 => Measured(c.data) < Weight[4])
        BY <1>1, LoopEnd, Zenon
    <2>2. Len(c.head) = k + 1 => Size(c.data) <= 4
        BY <1>1
    <2>. QED  BY <1>4, <1>7, <2>1, <2>2, Zenon
<1>10. k # 3 => v \in Nat /\ v < Weight[4]
    <2>. SUFFICES ASSUME k # 3 PROVE v \in Nat /\ v < Weight[4]
        OBVIOUS
    <2>1. v \in Nat /\ v < 128 * 128 * 128
        BY <1>1, <1>8, PartialBound
    <2>2. Weight[4] = 128 * 128 * 128 * 128
        BY DEF Weight
    <2>. QED  BY <2>1, <2>2
<1>11. Further(c, k, b, v)
    BY <1>3, <1>4, <1>7, <1>8, <1>9, <1>10 DEF Further
<1>. QED  BY <1>11 DEF b, v

-----------------------------------------------------------------------------
(* One lemma per action. *)

\* Before the first byte.
LEMMA InitHolds == Init => IInv
<1>. SUFFICES ASSUME Init PROVE IInv
    OBVIOUS
<1>1. Sent(client) \in Nat
    BY SentTells DEF Init
<1>2. 0 < Weight[4]
    BY DEF Weight
<1>3. TypeOK
    <2>1. arrived \in 0..Sent(client) /\ pos \in 0..arrived
        BY <1>1 DEF Init
    <2>2. value \in Nat /\ value < Weight[4]
        BY <1>2 DEF Init
    <2>3. probe.tag = "idle" /\ probe.byte \in 0..255
        BY DEF Init
    <2>. QED  BY <2>1, <2>2, <2>3 DEF Init, TypeOK
<1>4. /\ BlockingReads /\ AtFirst /\ AtLength /\ AtProbe /\ ProbeOpen /\ ProbeLate
      /\ AtChannel /\ Found /\ AtBound
    BY DEF Init, BlockingReads, AtFirst, AtLength, AtProbe, Probing, ProbeOpen, ProbeLate,
           AtChannel, Found, AtBound, Bounded
<1>. QED  BY <1>3, <1>4 DEF IInv

\* The network: no more arrives than the client sends.
LEMMA ArriveKeeps == ASSUME IInv, Arrive PROVE IInv'
<1>1. TypeOK'
    <2>1. PICK n \in Cuts(client) : n > arrived /\ arrived' = n
        BY DEF Arrive
    <2>2. client \in Clients
        BY DEF IInv, TypeOK
    <2>3. n \in 0..Sent(client)
        <3>1. /\ client.packet \in Nat /\ Sent(client) \in Nat /\ client.packet <= Sent(client)
              /\ Len(client.head) \in Nat
              /\ client.channel # "none" => Len(client.head) + 26 <= client.packet
            BY <2>2, SentTells
        <3>2. Len(IdBytes(client.id)) \in {1, 2}
            BY <2>2, IdShape
        <3>3. PICK h, i, q, t : /\ h = Len(client.head) /\ i = Len(IdBytes(client.id))
                                /\ q = client.packet /\ t = Sent(client)
            OBVIOUS
        <3>4. \/ n \in 0..(h + i) /\ n <= q
              \/ n \in {h + 12, h + 26} /\ client.channel # "none"
              \/ n \in {q, t}
            <4>1. n \in Cuts(client)
                BY <2>1
            <4>. QED  BY <3>3, <4>1 DEF Cuts
        <3>5. /\ h \in Nat /\ i \in Nat /\ q \in Nat /\ t \in Nat /\ q <= t
              /\ n \in {h + 12, h + 26} /\ client.channel # "none" => h + 26 <= q
            BY <3>1, <3>2, <3>3
        <3>6. n \in Nat /\ n <= t
            BY <3>4, <3>5
        <3>. QED  BY <3>3, <3>5, <3>6
    <2>. QED  BY <2>1, <2>3 DEF IInv, Arrive, found, TypeOK
<1>2. /\ (BlockingReads /\ AtFirst /\ ProbeOpen /\ ProbeLate /\ AtChannel)'
      /\ (AtLength /\ AtProbe /\ Found /\ AtBound)'
    BY DEF IInv, Arrive, found, BlockingReads, AtFirst, ProbeOpen, Probing, ProbeLate, AtChannel,
           AtLength, AtProbe, ProbedFrom, Plain, Ambiguous, Found, AtBound, BoundAt, Bound
<1>. QED  BY <1>1, <1>2 DEF IInv

\* The client closes: what arrived stays.
LEMMA CloseKeeps == ASSUME IInv, Close PROVE IInv'
<1>1. (TypeOK /\ BlockingReads /\ AtFirst /\ ProbeOpen /\ ProbeLate /\ AtChannel)'
    BY DEF IInv, Close, found, TypeOK, BlockingReads, AtFirst, ProbeOpen, Probing, ProbeLate,
           AtChannel
<1>2. (AtLength /\ AtProbe /\ Found /\ AtBound)'
    BY DEF IInv, Close, found, AtLength, AtProbe, Probing, ProbedFrom, Plain, Ambiguous,
           Found, AtBound, BoundAt, Bound
<1>. QED  BY <1>1, <1>2 DEF IInv

\* The first byte: a ping's 0xFE, a whole length, or the start of one.
LEMMA ReadFirstKeeps == ASSUME IInv, ReadFirst PROVE IInv'
<1>. DEFINE b == ByteAt(client, 1)
<1>1. client \in Clients /\ pos = 0 /\ version = "none" /\ value = 0 /\ probe.tag = "idle"
    BY DEF IInv, TypeOK, AtFirst, ReadFirst
<1>2. /\ Plain <=> b # 254
      /\ b # 254 /\ b >= 128 => 1 < Len(client.head) /\ b = Partial(client.data, 1)
      /\ b # 254 /\ ~(b >= 128) => Len(client.head) = 1 /\ b = Measured(client.data)
      /\ b \in Nat /\ b < Weight[4]
    BY <1>1, FirstLengthByte DEF Plain, Ambiguous
<1>3. client' = client /\ (Plain' <=> Plain)
    BY DEF ReadFirst, stream, Plain, Ambiguous
<1>4. /\ pos' = 1 /\ probe' = probe /\ blocking' = blocking /\ left' = left
      /\ \/ b = 254 /\ pc' = "probe_second" /\ version' = "none" /\ value' = 0
         \/ /\ b # 254 /\ b >= 128 /\ pc' = "length" /\ offset' = 7
            /\ version' = "none" /\ value' = b
         \/ b # 254 /\ ~(b >= 128) /\ pc' = "bound" /\ version' = "Standard" /\ value' = b
    BY <1>1 DEF ReadFirst, LengthStart, stream, found
<1>. HIDE DEF b
<1>5. TypeOK'
    <2>1. value' \in Nat /\ value' < Weight[4] /\ version' # "Legacy1_6"
        <3>1. 0 < Weight[4]
            BY DEF Weight
        <3>. QED  BY <1>2, <1>4, <3>1
    <2>2. pos' \in 0..arrived' /\ offset' \in {0, 7, 14, 21}
        BY <1>1, <1>4 DEF IInv, TypeOK, ReadFirst, Has, stream, found
    <2>. QED  BY <1>4, <2>1, <2>2 DEF IInv, TypeOK, ReadFirst, stream, found
<1>6. (BlockingReads /\ AtFirst /\ ProbeOpen /\ ProbeLate /\ AtChannel)'
    BY <1>1, <1>4 DEF IInv, TypeOK, BlockingReads, AtFirst, ProbeOpen, Probing, ProbeLate, AtChannel,
                      ReadFirst
<1>7. AtLength'
    BY <1>2, <1>3, <1>4 DEF AtLength
<1>8. AtProbe'
    BY <1>1, <1>2, <1>3, <1>4 DEF AtProbe, Probing, ProbedFrom
<1>9. Found'
    <2>1. version' \in {"none", "Standard"}
        BY <1>4
    <2>2. ASSUME version' = "Standard"
          PROVE  Plain' /\ Len(client'.head) <= 4 /\ value' = Measured(client'.data)
        <3>1. b # 254 /\ ~(b >= 128) /\ value' = b
            BY <1>4, <2>2
        <3>2. Plain' /\ Len(client'.head) = 1 /\ value' = Measured(client'.data)
            BY <1>2, <1>3, <3>1, Zenon
        <3>. QED  BY <3>2
    <2>. QED  BY <2>1, <2>2 DEF Found
<1>10. AtBound'
    BY <1>2, <1>3, <1>4 DEF AtBound, Bounded, BoundAt
<1>. QED  BY <1>5, <1>6, <1>7, <1>8, <1>9, <1>10 DEF IInv

\* A further byte of the length.
LEMMA ReadLengthKeeps == ASSUME IInv, ReadLength PROVE IInv'
<1>. DEFINE b == ByteAt(client, pos + 1)
            v == OrBits(value, (b % 128) * Weight[offset \div 7])
<1>1. /\ client \in Clients /\ Plain /\ version = "none" /\ pos \in 1..3
      /\ pos < Len(client.head) /\ offset = 7 * pos /\ value = Partial(client.data, pos)
      /\ client.kind = "Standard" /\ probe.tag = "idle"
    BY DEF IInv, TypeOK, AtLength, ProbeOpen, Probing, Plain, ReadLength
<1>2. offset \div 7 = pos
    BY <1>1
<1>3. /\ b >= 128 /\ pos # 3 => pos + 1 < Len(client.head) /\ v = Partial(client.data, pos + 1)
      /\ ~(b >= 128) => Len(client.head) = pos + 1 /\ v = Measured(client.data)
      /\ (b >= 128 /\ pos # 3) \/ ~(b >= 128) => v \in Nat /\ v < Weight[4]
    <2>1. Further(client, pos, b, OrBits(Partial(client.data, pos), (b % 128) * Weight[pos]))
        BY <1>1, FurtherLengthByte
    <2>2. v = OrBits(Partial(client.data, pos), (b % 128) * Weight[pos])
        BY <1>1, <1>2
    <2>. HIDE DEF b, v
    <2>. QED  BY <2>1, <2>2 DEF Further
<1>4. client' = client /\ (Plain' <=> Plain)
    BY DEF ReadLength, Fail, stream, Plain, Ambiguous
<1>5. offset = LastOffset <=> pos = 3
    BY <1>1 DEF LastOffset
<1>6. /\ pos' = pos + 1 /\ probe' = probe /\ blocking' = blocking /\ left' = left
      /\ \/ pc' = "oversized" /\ version' = version /\ value' = value /\ offset' = offset
         \/ /\ b >= 128 /\ pos # 3 /\ pc' = "length" /\ offset' = offset + 7
            /\ version' = version /\ value' = v
         \/ /\ ~(b >= 128) /\ pc' = "bound" /\ version' = "Standard" /\ value' = v
            /\ offset' = offset
    BY <1>5 DEF ReadLength, Fail, stream, found
<1>. HIDE DEF b, v
<1>7. TypeOK'
    <2>1. value' \in Nat /\ value' < Weight[4] /\ version' # "Legacy1_6"
        BY <1>1, <1>3, <1>6 DEF IInv, TypeOK
    <2>2. pos' \in 0..arrived' /\ offset' \in {0, 7, 14, 21}
        BY <1>1, <1>6 DEF IInv, TypeOK, ReadLength, Fail, Has, stream, found
    <2>3. pc' \in Returned \union {"length", "bound"}
        BY <1>6 DEF Returned
    <2>4. UNCHANGED <<stream, result>>
        BY DEF ReadLength, Fail
    <2>. QED  BY <1>1, <1>6, <2>1, <2>2, <2>3, <2>4 DEF IInv, TypeOK, stream
<1>8. (BlockingReads /\ AtFirst /\ ProbeOpen /\ ProbeLate /\ AtChannel)'
    BY <1>1, <1>6 DEF IInv, TypeOK, BlockingReads, AtFirst, ProbeOpen, Probing, ProbeLate, AtChannel,
                      ReadLength
<1>9. AtLength'
    <2>1. pos # 3 => pos' \in 1..3 /\ offset + 7 = 7 * pos'
        BY <1>1, <1>6
    <2>. QED  BY <1>1, <1>3, <1>4, <1>6, <2>1 DEF AtLength
<1>10. AtProbe'
    BY <1>6 DEF AtProbe, Probing
<1>11. Found'
    <2>1. pos + 1 <= 4
        BY <1>1
    <2>. QED  BY <1>1, <1>3, <1>4, <1>6, <2>1 DEF Found
<1>12. AtBound'
    BY <1>3, <1>4, <1>6 DEF AtBound, Bounded, BoundAt
<1>. QED  BY <1>7, <1>8, <1>9, <1>10, <1>11, <1>12 DEF IInv

\* The probe's beginning: nothing is read, and only here blocking is given up.
LEMMA ProbeBeginKeeps == ASSUME IInv, ProbeBegin PROVE IInv'
<1>1. TypeOK'
    <2>1. pc' \in {"probe_second", "probe_channel", "io_error"}
        BY DEF ProbeBegin, Probing, Fail
    <2>2. probe'.tag \in {"idle", "armed"} /\ probe'.byte \in 0..255 /\ blocking' \in BOOLEAN
        <3>1. blocking' \in BOOLEAN
            BY Zenon DEF IInv, TypeOK, ProbeBegin, Fail
        <3>2. probe'.tag \in {"idle", "armed"} /\ probe'.byte \in 0..255
            BY DEF IInv, TypeOK, ProbeBegin, Fail
        <3>. QED  BY <3>1, <3>2
    <2>3. pos' = pos /\ UNCHANGED <<stream, found, result>>
        BY DEF IInv, TypeOK, ProbeBegin, Fail
    <2>. QED  BY <2>1, <2>2, <2>3 DEF IInv, TypeOK, Returned, stream, found
<1>2. (BlockingReads /\ AtFirst /\ AtLength /\ ProbeOpen /\ ProbeLate /\ AtChannel)'
    BY DEF IInv, ProbeBegin, Fail, stream, found, TypeOK, Probing,
           BlockingReads, AtFirst, AtLength, ProbeOpen, ProbeLate, AtChannel
<1>3. AtProbe'
    BY DEF IInv, ProbeBegin, Fail, stream, found, Probing, AtProbe, ProbedFrom, Plain, Ambiguous
<1>4. Found'
    BY DEF IInv, ProbeBegin, Fail, stream, found, Found, Plain, Ambiguous
<1>5. AtBound'
    BY DEF IInv, ProbeBegin, Fail, stream, found, Probing, AtBound, Bounded
<1>. QED  BY <1>1, <1>2, <1>3, <1>4, <1>5 DEF IInv

\* The probe's read: a byte, none in time, or the end of the stream.
LEMMA ProbeReadKeeps == ASSUME IInv, ProbeRead PROVE IInv'
<1>1. TypeOK'
    BY BytesTell DEF IInv, ProbeRead, Has, Ends, stream, found, TypeOK
<1>2. (BlockingReads /\ AtFirst /\ AtLength /\ ProbeOpen /\ ProbeLate /\ AtChannel)'
    BY DEF IInv, ProbeRead, stream, found, TypeOK, Probing,
           BlockingReads, AtFirst, AtLength, ProbeOpen, ProbeLate, AtChannel
<1>3. AtProbe'
    BY DEF IInv, ProbeRead, stream, found, TypeOK, Probing, ProbeOpen, AtProbe, ProbedFrom,
           Plain, Ambiguous
<1>4. Found'
    BY DEF IInv, ProbeRead, stream, found, Found, Plain, Ambiguous
<1>5. AtBound'
    BY DEF IInv, ProbeRead, stream, found, ProbeOpen, Probing, AtBound, Bounded
<1>. QED  BY <1>1, <1>2, <1>3, <1>4, <1>5 DEF IInv

\* The probe's end: blocking again before its answer is looked at; a missing byte
\* decides for an older ping, and a prompt client then sent no more.
LEMMA ProbeEndKeeps == ASSUME IInv, ProbeEnd PROVE IInv'
<1>1. TypeOK'
    <2>1. pc' \in {"eof", "bound", "probe_channel", "channel", "malformed", "io_error"}
        BY DEF ProbeEnd, Goto
    <2>2. version' \in {"none", "Pre1_3", "Pre1_6"}
        BY DEF IInv, AtProbe, ProbeOpen, ProbeEnd, Answer
    <2>3. probe'.tag = "idle" /\ probe'.byte \in 0..255 /\ blocking' \in BOOLEAN
        <3>1. blocking' \in BOOLEAN
            BY Zenon DEF IInv, TypeOK, ProbeEnd, Restored
        <3>2. probe'.tag = "idle" /\ probe'.byte \in 0..255
            BY DEF ProbeEnd
        <3>. QED  BY <3>1, <3>2
    <2>4. value' \in Nat /\ value' < Weight[4]
        <3>1. 0 < Weight[4]
            BY DEF Weight
        <3>. QED  BY <3>1 DEF IInv, AtProbe, ProbeOpen, ProbeEnd
    <2>5. UNCHANGED <<stream, pos, offset, left, result>>
        BY DEF ProbeEnd
    <2>. QED  BY <2>1, <2>2, <2>3, <2>4, <2>5 DEF IInv, TypeOK, Returned, stream
<1>2. (BlockingReads /\ AtFirst /\ AtLength /\ ProbeOpen /\ ProbeLate)'
    BY DEF IInv, ProbeEnd, Goto, Restored, stream, TypeOK, Probing,
           BlockingReads, AtFirst, AtLength, ProbeOpen, ProbeLate
<1>3. AtProbe'
    BY DEF IInv, ProbeEnd, Goto, Answer, stream, TypeOK, Probing, ProbeOpen, AtProbe, ProbedFrom,
           Plain, Ambiguous
<1>4. AtChannel'
    BY BytesTell DEF IInv, ProbeEnd, Goto, Answer, stream, TypeOK, ProbeOpen, Probing, AtProbe,
                     ProbedFrom, AtChannel
<1>5. Found'
    BY BytesTell, SentTells
    DEF IInv, ProbeEnd, Answer, stream, TypeOK, ProbeOpen, Probing, AtProbe, ProbeLate,
        ProbedFrom, Found, Plain, Ambiguous
<1>6. AtBound'
    BY DEF IInv, ProbeEnd, Goto, Answer, stream, TypeOK, ProbeOpen, Probing, AtProbe, ProbedFrom,
           AtBound, Bounded, BoundAt
<1>. QED  BY <1>1, <1>2, <1>3, <1>4, <1>5, <1>6 DEF IInv

\* The channel of a 1.6 ping.
LEMMA ReadChannelKeeps == ASSUME IInv, ReadChannel PROVE IInv'
<1>1. TypeOK'
    BY DEF IInv, ReadChannel, Has, Fail, stream, found, TypeOK, Returned
<1>2. (BlockingReads /\ AtFirst /\ AtLength /\ AtProbe /\ ProbeOpen /\ ProbeLate /\ AtChannel)'
    BY DEF IInv, ReadChannel, Fail, stream, found, TypeOK, Probing,
           BlockingReads, AtFirst, AtLength, AtProbe, ProbeOpen, ProbeLate, AtChannel
<1>3. Found'
    BY DEF IInv, ReadChannel, Fail, stream, found, Found, Plain, Ambiguous
<1>4. AtBound'
    BY DEF IInv, ReadChannel, Fail, stream, found, AtBound, Bounded
<1>. QED  BY <1>1, <1>2, <1>3, <1>4 DEF IInv

\* The data length of a 1.6 ping.
LEMMA ReadDataKeeps == ASSUME IInv, ReadData PROVE IInv'
<1>1. client \in Clients /\ client.data \in Nat /\ client.channel = "good"
    BY SentTells DEF IInv, TypeOK, ReadData, AtChannel
<1>2. TypeOK'
    <2>1. pos' \in 0..arrived' /\ pc' \in {"negative", "bound"}
        BY DEF IInv, ReadData, Has, Fail, stream, TypeOK
    <2>2. /\ version' \in {"none", "Standard", "Legacy1_6", "Pre1_6", "Pre1_3"} /\ value' \in Nat
          /\ version' # "Legacy1_6" => value' < Weight[4]
        BY <1>1 DEF IInv, ReadData, Fail, found, TypeOK
    <2>3. UNCHANGED <<stream, offset, left, blocking, probe, result>>
        BY DEF ReadData, Fail, found
    <2>. QED  BY <2>1, <2>2, <2>3 DEF IInv, TypeOK, Returned, stream
<1>3. (BlockingReads /\ AtFirst /\ AtLength /\ AtProbe /\ ProbeOpen /\ ProbeLate /\ AtChannel)'
    BY DEF IInv, ReadData, Fail, stream, found, TypeOK, Probing,
           BlockingReads, AtFirst, AtLength, AtProbe, ProbeOpen, ProbeLate, AtChannel
<1>4. Found'
    BY DEF IInv, ReadData, Fail, stream, found, TypeOK, AtChannel, Found, Plain, Ambiguous
<1>5. AtBound'
    BY DEF IInv, ReadData, Fail, stream, found, TypeOK, AtChannel, AtBound, Bounded, BoundAt
<1>. QED  BY <1>2, <1>3, <1>4, <1>5 DEF IInv

\* with_bound: the bound becomes what is left.
LEMMA WithBoundKeeps == ASSUME IInv, WithBound PROVE IInv'
<1>1. TypeOK'
    BY DEF IInv, WithBound, stream, TypeOK, Returned
<1>2. (BlockingReads /\ AtFirst /\ AtLength /\ AtProbe /\ ProbeOpen /\ ProbeLate /\ AtChannel)'
    BY DEF IInv, WithBound, stream, TypeOK, Probing,
           BlockingReads, AtFirst, AtLength, AtProbe, ProbeOpen, ProbeLate, AtChannel
<1>3. Found'
    BY DEF IInv, WithBound, stream, Found, Plain, Ambiguous
<1>4. AtBound'
    BY DEF IInv, WithBound, stream, AtBound, Bounded, BoundAt, Bound
<1>. QED  BY <1>1, <1>2, <1>3, <1>4 DEF IInv

\* Bytes read within the bound are no longer left.
LEMMA ReadIdKeeps == ASSUME IInv, ReadId PROVE IInv'
<1>. IdLength \in {1, 2}
    BY IdShape DEF IInv, TypeOK, IdLength
<1>1. TypeOK'
    BY DEF IInv, ReadId, Fail, Has, stream, found, TypeOK, Returned
<1>2. (BlockingReads /\ AtFirst /\ AtLength /\ AtProbe /\ ProbeOpen /\ ProbeLate /\ AtChannel)'
    BY DEF IInv, ReadId, Fail, stream, found, TypeOK, Probing,
           BlockingReads, AtFirst, AtLength, AtProbe, ProbeOpen, ProbeLate, AtChannel
<1>3. Found'
    BY DEF IInv, ReadId, Fail, stream, found, Found, Plain, Ambiguous
<1>4. AtBound'
    <2>1. pos \in Nat /\ left \in Nat
        BY DEF IInv, TypeOK
    <2>2. pc' = "eof" \/ pos' + left' = pos + left
        BY <2>1 DEF ReadId, Fail, found
    <2>3. version # "none" /\ pos + left = BoundAt + Bound
        BY DEF IInv, ReadId, AtBound, Bounded
    <2>4. version' = version /\ BoundAt' = BoundAt /\ Bound' = Bound
        BY DEF ReadId, Fail, stream, found, BoundAt, Bound
    <2>5. pc' \in {"eof", "handler", "unknown"}
        BY DEF ReadId, Fail
    <2>. QED  BY <2>2, <2>3, <2>4, <2>5 DEF AtBound, Bounded
<1>. QED  BY <1>1, <1>2, <1>3, <1>4 DEF IInv

\* The handler takes nothing or everything within the bound.
LEMMA HandleKeeps == ASSUME IInv, Handle PROVE IInv'
<1>1. TypeOK'
    BY DEF IInv, Handle, Has, stream, TypeOK, Returned
<1>2. (BlockingReads /\ AtFirst /\ AtLength /\ AtProbe /\ ProbeOpen /\ ProbeLate /\ AtChannel)'
    BY DEF IInv, Handle, stream, TypeOK, Probing,
           BlockingReads, AtFirst, AtLength, AtProbe, ProbeOpen, ProbeLate, AtChannel
<1>3. Found'
    BY DEF IInv, Handle, stream, Found, Plain, Ambiguous
<1>4. AtBound'
    <2>1. pos \in Nat /\ left \in Nat
        BY DEF IInv, TypeOK
    <2>2. pos' + left' = pos + left
        BY <2>1 DEF Handle
    <2>3. version # "none" /\ pos + left = BoundAt + Bound
        BY DEF IInv, Handle, AtBound, Bounded
    <2>4. version' = version /\ BoundAt' = BoundAt /\ Bound' = Bound
        BY DEF Handle, stream, BoundAt, Bound
    <2>5. pc' = "discard"
        BY DEF Handle
    <2>. QED  BY <2>2, <2>3, <2>4, <2>5 DEF AtBound, Bounded
<1>. QED  BY <1>1, <1>2, <1>3, <1>4 DEF IInv

\* discard_remaining: the call ends where the bound does.
LEMMA DiscardRemainingKeeps == ASSUME IInv, DiscardRemaining PROVE IInv'
<1>1. TypeOK'
    BY DEF IInv, DiscardRemaining, Discarded, Has, stream, TypeOK, Returned
<1>2. (BlockingReads /\ AtFirst /\ AtLength /\ AtProbe /\ ProbeOpen /\ ProbeLate /\ AtChannel)'
    BY DEF IInv, DiscardRemaining, stream, TypeOK, Probing,
           BlockingReads, AtFirst, AtLength, AtProbe, ProbeOpen, ProbeLate, AtChannel
<1>3. Found'
    BY DEF IInv, DiscardRemaining, stream, Found, Plain, Ambiguous
<1>4. AtBound'
    <2>1. pos \in Nat /\ left \in Nat
        BY DEF IInv, TypeOK
    <2>2. pos' + left' = pos + left /\ left' = 0
        BY <2>1 DEF DiscardRemaining, Discarded
    <2>3. version # "none" /\ pos + left = BoundAt + Bound
        BY DEF IInv, DiscardRemaining, AtBound, Bounded
    <2>4. version' = version /\ BoundAt' = BoundAt /\ Bound' = Bound
        BY DEF DiscardRemaining, stream, BoundAt, Bound
    <2>5. pc' \in {"ok", "handler_error"}
        BY DEF IInv, TypeOK, DiscardRemaining
    <2>. QED  BY <2>2, <2>3, <2>4, <2>5 DEF AtBound, Bounded
<1>. QED  BY <1>1, <1>2, <1>3, <1>4 DEF IInv

\* The end of the stream where a blocking read wants more.
LEMMA ReadEofKeeps == ASSUME IInv, ReadEof PROVE IInv'
<1>1. TypeOK'
    BY DEF IInv, ReadEof, Fail, stream, found, TypeOK, Returned
<1>2. (BlockingReads /\ ProbeOpen)'
    BY DEF IInv, ReadEof, Ends, Has, Wanted, Fail, stream, found, TypeOK, Probing,
           BlockingReads, ProbeOpen
<1>3. (AtFirst /\ AtLength /\ AtProbe /\ ProbeLate /\ AtChannel /\ AtBound)'
    BY DEF IInv, ReadEof, Fail, stream, found, TypeOK, Probing,
           AtFirst, AtLength, AtProbe, ProbeLate, AtChannel, AtBound, Bounded
<1>4. Found'
    BY DEF IInv, ReadEof, Fail, stream, found, Found, Plain, Ambiguous
<1>. QED  BY <1>1, <1>2, <1>3, <1>4 DEF IInv

\* Nothing happens.
LEMMA StutterKeeps == ASSUME IInv, UNCHANGED vars PROVE IInv'
<1>1. (TypeOK /\ BlockingReads /\ AtFirst /\ ProbeOpen /\ ProbeLate /\ AtChannel)'
    BY DEF IInv, vars, stream, found, TypeOK, BlockingReads, AtFirst, ProbeOpen, Probing,
           ProbeLate, AtChannel
<1>2. (AtLength /\ AtProbe /\ Found /\ AtBound)'
    BY DEF IInv, vars, stream, found, AtLength, AtProbe, Probing, ProbedFrom, Plain, Ambiguous,
           Found, AtBound, BoundAt, Bound
<1>. QED  BY <1>1, <1>2 DEF IInv

\* Every step of the client, the network and the server keeps the invariant.
LEMMA StepKeeps == IInv /\ [Next]_vars => IInv'
<1>. SUFFICES ASSUME IInv, [Next]_vars PROVE IInv'
    OBVIOUS
<1>1. CASE Arrive
    BY <1>1, ArriveKeeps
<1>2. CASE Close
    BY <1>2, CloseKeeps
<1>3. CASE ReadFirst
    BY <1>3, ReadFirstKeeps
<1>4. CASE ReadLength
    BY <1>4, ReadLengthKeeps
<1>5. CASE ProbeBegin
    BY <1>5, ProbeBeginKeeps
<1>6. CASE ProbeRead
    BY <1>6, ProbeReadKeeps
<1>7. CASE ProbeEnd
    BY <1>7, ProbeEndKeeps
<1>8. CASE ReadChannel
    BY <1>8, ReadChannelKeeps
<1>9. CASE ReadData
    BY <1>9, ReadDataKeeps
<1>10. CASE WithBound
    BY <1>10, WithBoundKeeps
<1>11. CASE ReadId
    BY <1>11, ReadIdKeeps
<1>12. CASE Handle
    BY <1>12, HandleKeeps
<1>13. CASE DiscardRemaining
    BY <1>13, DiscardRemainingKeeps
<1>14. CASE ReadEof
    BY <1>14, ReadEofKeeps
<1>15. CASE UNCHANGED vars
    BY <1>15, StutterKeeps
<1>. QED
    BY <1>1, <1>2, <1>3, <1>4, <1>5, <1>6, <1>7, <1>8, <1>9, <1>10, <1>11, <1>12, <1>13,
       <1>14, <1>15 DEF Next, Server

-----------------------------------------------------------------------------
(* The theorems. *)

\* Every state of read_handshake satisfies the inductive invariant.
THEOREM Invariance == Spec => []IInv
BY InitHolds, StepKeeps, PTL DEF Spec

\* The server is never ahead of the network, whatever the client sends and
\* however it is cut; a length of four bytes at most is below 2^28.
THEOREM TypeCorrect == Spec => []TypeOK
<1>1. IInv => TypeOK
    BY DEF IInv
<1>. QED  BY <1>1, Invariance, PTL

\* try_read_byte gives the stream back blocking, on each of its paths but the
\* one that fails the call.
THEOREM ReadsBlock == Spec => []BlockingReads
<1>1. IInv => BlockingReads
    BY DEF IInv
<1>. QED  BY <1>1, Invariance, PTL

\* Only modern clients are answered as such, and no ping in a newer format than
\* its own, for every timing of the bytes.
THEOREM NeverTakenForNewer == Spec => []NeverUpgraded
<1>1. IInv => NeverUpgraded
    <2>. SUFFICES ASSUME IInv, version # "none" PROVE
             /\ (version = "Standard") <=> (client.kind = "Standard" /\ ~Ambiguous)
             /\ Rank(version) <= Rank(client.kind)
        BY DEF NeverUpgraded
    <2>1. client \in Clients /\ version \in {"Standard", "Legacy1_6", "Pre1_6", "Pre1_3"}
        BY DEF IInv, TypeOK
    <2>2. CASE version = "Standard"
        BY <2>2 DEF IInv, Found, Plain, Rank
    <2>3. CASE version = "Legacy1_6"
        BY <2>1, <2>3, BytesTell DEF IInv, Found, Plain, Rank
    <2>4. CASE version = "Pre1_6"
        BY <2>4 DEF IInv, Found, Plain, Rank
    <2>5. CASE version = "Pre1_3"
        BY <2>5 DEF IInv, Found, Plain, Rank
    <2>. QED  BY <2>1, <2>2, <2>3, <2>4, <2>5
<1>. QED  BY <1>1, Invariance, PTL

\* A client whose bytes come within the 5 ms is taken for what it is, and only
\* what is no ping is rejected as one.
THEOREM PromptIsRight == Spec => []RightVersion
<1>1. IInv => RightVersion
    <2>. SUFFICES ASSUME IInv, prompt, ~Ambiguous PROVE
             /\ version # "none" => version = client.kind
             /\ pc = "malformed" => client.kind = "other" \/ client.channel # "good"
        BY DEF RightVersion
    <2>1. client \in Clients /\ version \in {"none", "Standard", "Legacy1_6", "Pre1_6", "Pre1_3"}
        BY DEF IInv, TypeOK
    <2>2. pc = "malformed" => client.channel # "good"
        BY DEF IInv, AtChannel
    <2>3. version # "none" => version = client.kind
        BY <2>1, BytesTell DEF IInv, Found, Plain
    <2>. QED  BY <2>2, <2>3
<1>. QED  BY <1>1, Invariance, PTL

\* The length that is found is the one the client wrote exactly where that is one
\* byte or has bit 7 set; everywhere else it is 128 too much.  This is the whole
\* extent of the disagreement with "this is a VarInt".
LengthFound ==
    version = "Standard" =>
        IF client.data < 128 \/ Bit7(client.data)
        THEN value = client.data
        ELSE value = client.data + 128

\* The first byte of a length keeps its continuation bit, for every length.
THEOREM LengthIsOffByBit7 == Spec => []LengthFound
<1>1. IInv => LengthFound
    <2>. SUFFICES ASSUME IInv, version = "Standard"
                  PROVE  IF client.data < 128 \/ Bit7(client.data)
                         THEN value = client.data
                         ELSE value = client.data + 128
        BY DEF LengthFound
    <2>1. value = Measured(client.data) /\ client \in Clients
        BY DEF IInv, TypeOK, Found
    <2>2. client.data \in Nat
        BY <2>1, SentTells
    <2>. QED  BY <2>1, <2>2 DEF Measured, Excess
<1>. QED  BY <1>1, Invariance, PTL

\* A call that ran the handler on the client's own version stops on the last byte
\* of its packet, for every client whose length is not misread.
THEOREM StopsOnPacket == Spec => []EndsOnPacket
<1>1. IInv => EndsOnPacket
    <2>. SUFFICES ASSUME IInv, pc \in {"ok", "handler_error"}, version = client.kind, ~Misread
                  PROVE  pos = client.packet
        BY DEF EndsOnPacket
    <2>1. client \in Clients /\ pos \in Nat /\ client.data \in Nat /\ left = 0
        BY SentTells DEF IInv, TypeOK, AtBound
    <2>2. version # "none" /\ pos = BoundAt + Bound
        BY <2>1 DEF IInv, AtBound, Bounded
    <2>3. version \in {"Standard", "Legacy1_6", "Pre1_6", "Pre1_3"}
        BY <2>2 DEF IInv, TypeOK
    <2>4. CASE version = "Standard"
        <3>1. /\ Len(client.head) <= 4 /\ value = Measured(client.data)
              /\ pos = Len(client.head) + value
            BY <2>2, <2>4 DEF IInv, Found, BoundAt, Bound
        <3>2. /\ Len(client.head) = Size(client.data) /\ Len(client.head) \in 1..5
              /\ client.packet = Len(client.head) + client.data
            BY <2>1, <2>4, ModernShape
        <3>3. client.data < 128 \/ Bit7(client.data)
            <4>1. Size(client.data) = 1 \/ Bit7(client.data)
                BY <2>2, <2>4, <3>1, <3>2 DEF Misread, IInv, Found, Plain
            <4>2. Size(client.data) = 1 => client.data < Weight[1]
                BY <2>1, SizeShape
            <4>. QED  BY <4>1, <4>2 DEF Weight
        <3>4. value = client.data
            BY <2>1, <3>1, <3>3 DEF Measured, Excess
        <3>. QED  BY <3>1, <3>2, <3>4
    <2>5. CASE version = "Legacy1_6"
        <3>1. ~Negative(client.data) /\ value = client.data /\ pos = 29 + value
            BY <2>2, <2>5 DEF IInv, Found, BoundAt, Bound
        <3>2. client.packet = 29 + IF Negative(client.data) THEN 0 ELSE client.data
            BY <2>1, <2>5, PingShape
        <3>. QED  BY <3>1, <3>2
    <2>6. CASE version = "Pre1_6"
        <3>1. pos = 2 + 0
            BY <2>2, <2>6 DEF BoundAt, Bound
        <3>2. client.packet = 2
            BY <2>1, <2>6, PingShape
        <3>. QED  BY <3>1, <3>2
    <2>7. CASE version = "Pre1_3"
        <3>1. pos = 1 + 0
            BY <2>2, <2>7 DEF BoundAt, Bound
        <3>2. client.packet = 1
            BY <2>1, <2>7, PingShape
        <3>. QED  BY <3>1, <3>2
    <2>. QED  BY <2>3, <2>4, <2>5, <2>6, <2>7
<1>. QED  BY <1>1, Invariance, PTL
=============================================================================
