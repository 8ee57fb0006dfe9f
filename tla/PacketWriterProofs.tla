------------------------- MODULE PacketWriterProofs -------------------------
(***************************************************************************)
(* The safety of PacketWriter for every packet, threshold and number of    *)
(* values a byte has, and whatever deflate takes and gives per call.       *)
(***************************************************************************)
EXTENDS PacketWriter, FiniteSetTheorems, SequenceTheorems, TLAPS

-----------------------------------------------------------------------------
(* Sums of sequences. *)

\* Induction, for a set: with a number outside it, adding one would map its part
\* below that number one to one into itself, and not onto 0.
LEMMA NatSetInduction ==
    ASSUME NEW S, 0 \in S, \A k \in Nat : k \in S => k + 1 \in S
    PROVE  \A n \in Nat : n \in S
<1>. SUFFICES ASSUME NEW n \in Nat, n \notin S PROVE FALSE
    OBVIOUS
<1>. DEFINE A == {x \in 0..n : x \in S}
            f == [x \in A |-> x + 1]
<1>1. IsFiniteSet(A)
    <2>1. IsFiniteSet(0..n)
        BY FS_Interval
    <2>2. A \subseteq 0..n
        OBVIOUS
    <2>. QED  BY <2>1, <2>2, FS_Subset
<1>2. \A x \in A : x + 1 \in A
    <2>. SUFFICES ASSUME NEW x \in A PROVE x + 1 \in A
        OBVIOUS
    <2>1. x \in Nat /\ x \in S /\ x <= n /\ x # n
        OBVIOUS
    <2>2. x + 1 \in S /\ x + 1 \in 0..n
        BY <2>1
    <2>. QED  BY <2>2
<1>3. f \in Injection(A, A)
    <2>1. f \in [A -> A]
        BY <1>2
    <2>2. \A x, y \in A : f[x] = f[y] => x = y
        OBVIOUS
    <2>. QED  BY <2>1, <2>2 DEF Injection, IsInjective
<1>4. f \in Surjection(A, A)
    BY <1>1, <1>3, FS_Injection
<1>5. 0 \in A
    OBVIOUS
<1>6. PICK x \in A : f[x] = 0
    BY <1>4, <1>5 DEF Surjection
<1>. QED  BY <1>6

\* The prefix sums of a sequence are what their definition says, for a sequence
\* of any length.
IsSums(s, n, f) ==
    /\ f \in [0..n -> Nat] /\ f[0] = 0
    /\ \A i \in 1..n : f[i] = f[i - 1] + s[i]

\* There are prefix sums, by induction on the length.
LEMMA SumsExist ==
    ASSUME NEW s \in Seq(Nat)
    PROVE  \A n \in Nat : n <= Len(s) => \E f : IsSums(s, n, f)
<1>. DEFINE S == {n \in Nat : n <= Len(s) => \E f : IsSums(s, n, f)}
<1>0. Len(s) \in Nat
    BY LenProperties
<1>1. 0 \in S
    <2>1. IsSums(s, 0, [i \in 0..0 |-> 0])
        BY DEF IsSums
    <2>. QED  BY <2>1
<1>2. ASSUME NEW k \in Nat, k \in S PROVE k + 1 \in S
    <2>. SUFFICES ASSUME k + 1 <= Len(s) PROVE \E f : IsSums(s, k + 1, f)
        OBVIOUS
    <2>1. PICK f : IsSums(s, k, f)
        BY <1>0, <1>2
    <2>. DEFINE g == [i \in 0..k + 1 |-> IF i <= k THEN f[i] ELSE f[k] + s[k + 1]]
    <2>2. s[k + 1] \in Nat
        BY <1>0, ElementOfSeq
    <2>3. f \in [0..k -> Nat] /\ f[0] = 0 /\ f[k] \in Nat
        BY <2>1 DEF IsSums
    <2>4. g \in [0..k + 1 -> Nat] /\ g[0] = 0
        BY <2>2, <2>3
    <2>5. \A i \in 1..k + 1 : g[i] = g[i - 1] + s[i]
        <3>. SUFFICES ASSUME NEW i \in 1..k + 1 PROVE g[i] = g[i - 1] + s[i]
            OBVIOUS
        <3>1. CASE i <= k
            <4>1. i \in 1..k /\ i - 1 \in 0..k /\ i \in 0..k + 1 /\ i - 1 \in 0..k + 1 /\ i - 1 <= k
                BY <3>1
            <4>2. f[i] = f[i - 1] + s[i]
                BY <2>1, <4>1 DEF IsSums
            <4>. QED  BY <3>1, <4>1, <4>2
        <3>2. CASE ~(i <= k)
            <4>1. i = k + 1 /\ i - 1 = k
                BY <3>2
            <4>. QED  BY <3>2, <4>1
        <3>. QED  BY <3>1, <3>2
    <2>. HIDE DEF g
    <2>6. IsSums(s, k + 1, g)
        BY <2>4, <2>5 DEF IsSums
    <2>. QED  BY <2>6
<1>. HIDE DEF S
<1>3. \A n \in Nat : n \in S
    BY <1>1, <1>2, NatSetInduction
<1>. QED  BY <1>3 DEF S

\* The recursive function is such prefix sums.
LEMMA SumsAre ==
    ASSUME NEW s \in Seq(Nat)
    PROVE  IsSums(s, Len(s), Sums(s))
<1>. DEFINE E(f) == [i \in 0..Len(s) |-> IF i = 0 THEN 0 ELSE f[i - 1] + s[i]]
<1>1. Len(s) \in Nat
    BY LenProperties
<1>2. PICK f : IsSums(s, Len(s), f)
    BY <1>1, SumsExist
<1>3. f = E(f)
    <2>1. f \in [0..Len(s) -> Nat] /\ f[0] = 0
        BY <1>2 DEF IsSums
    <2>2. \A i \in 0..Len(s) : f[i] = IF i = 0 THEN 0 ELSE f[i - 1] + s[i]
        <3>. SUFFICES ASSUME NEW i \in 0..Len(s), i # 0 PROVE f[i] = f[i - 1] + s[i]
            BY <2>1
        <3>1. i \in 1..Len(s)
            BY <1>1
        <3>. QED  BY <1>2, <3>1 DEF IsSums
    <2>. QED  BY <2>1, <2>2
<1>4. Sums(s) = CHOOSE g : g = E(g)
    BY DEF Sums
<1>5. Sums(s) = E(Sums(s))
    <2>. HIDE DEF E
    <2>. QED  BY <1>3, <1>4
<1>6. \A i \in 1..Len(s) : Sums(s)[i] = Sums(s)[i - 1] + s[i]
    <2>. SUFFICES ASSUME NEW i \in 1..Len(s) PROVE Sums(s)[i] = Sums(s)[i - 1] + s[i]
        OBVIOUS
    <2>1. i \in 0..Len(s) /\ i # 0
        BY <1>1
    <2>. QED  BY <1>5, <2>1
<1>7. Sums(s)[0] = 0
    <2>1. 0 \in 0..Len(s)
        BY <1>1
    <2>. QED  BY <1>5, <2>1
<1>. HIDE DEF E
<1>8. \A n \in Nat : n <= Len(s) => Sums(s)[n] \in Nat
    <2>. DEFINE S == {n \in Nat : n <= Len(s) => Sums(s)[n] \in Nat}
    <2>1. 0 \in S
        BY <1>7
    <2>2. ASSUME NEW k \in Nat, k \in S PROVE k + 1 \in S
        <3>. SUFFICES ASSUME k + 1 <= Len(s) PROVE Sums(s)[k + 1] \in Nat
            OBVIOUS
        <3>1. k + 1 \in 1..Len(s) /\ (k + 1) - 1 = k
            BY <1>1
        <3>2. Sums(s)[k] \in Nat
            BY <1>1, <2>2
        <3>3. s[k + 1] \in Nat
            BY <3>1, ElementOfSeq
        <3>4. Sums(s)[k + 1] = Sums(s)[k] + s[k + 1]
            BY <1>6, <3>1
        <3>. QED  BY <3>2, <3>3, <3>4
    <2>. HIDE DEF S
    <2>3. \A n \in Nat : n \in S
        BY <2>1, <2>2, NatSetInduction
    <2>. QED  BY <2>3 DEF S
<1>9. Sums(s) \in [0..Len(s) -> Nat]
    <2>1. DOMAIN Sums(s) = 0..Len(s) /\ Sums(s) = [i \in 0..Len(s) |-> Sums(s)[i]]
        BY <1>5 DEF E
    <2>2. \A i \in 0..Len(s) : Sums(s)[i] \in Nat
        BY <1>1, <1>8
    <2>. QED  BY <2>1, <2>2
<1>. QED  BY <1>6, <1>7, <1>9 DEF IsSums

\* Two functions that are prefix sums of the same sequence agree.
LEMMA SumsAgree ==
    ASSUME NEW s \in Seq(Nat), NEW f, NEW g, IsSums(s, Len(s), f), IsSums(s, Len(s), g)
    PROVE  f[Len(s)] = g[Len(s)]
<1>. DEFINE S == {n \in Nat : n <= Len(s) => f[n] = g[n]}
<1>0. Len(s) \in Nat
    BY LenProperties
<1>1. 0 \in S
    BY DEF IsSums
<1>2. ASSUME NEW k \in Nat, k \in S PROVE k + 1 \in S
    <2>. SUFFICES ASSUME k + 1 <= Len(s) PROVE f[k + 1] = g[k + 1]
        OBVIOUS
    <2>1. k + 1 \in 1..Len(s) /\ (k + 1) - 1 = k /\ k <= Len(s)
        BY <1>0
    <2>2. f[k + 1] = f[k] + s[k + 1] /\ g[k + 1] = g[k] + s[k + 1]
        BY <2>1 DEF IsSums
    <2>3. f[k] = g[k]
        BY <1>2, <2>1
    <2>. QED  BY <2>2, <2>3
<1>. HIDE DEF S
<1>3. \A n \in Nat : n \in S
    BY <1>1, <1>2, NatSetInduction
<1>. QED  BY <1>0, <1>3 DEF S

\* What a total is.
LEMMA TotalShape ==
    /\ Total(<<>>) = 0
    /\ \A s \in Seq(Nat) : Total(s) \in Nat
    /\ \A a \in Nat : \A s \in Seq(Nat) : Total(<<a>> \o s) = a + Total(s)
<1>1. Total(<<>>) = 0
    <2>1. <<>> \in Seq(Nat) /\ Len(<<>>) = 0
        BY EmptySeq
    <2>2. IsSums(<<>>, 0, Sums(<<>>))
        BY <2>1, SumsAre
    <2>. QED  BY <2>1, <2>2 DEF Total, IsSums
<1>2. ASSUME NEW s \in Seq(Nat) PROVE Total(s) \in Nat
    <2>1. Len(s) \in Nat /\ Len(s) \in 0..Len(s)
        BY LenProperties
    <2>2. Sums(s) \in [0..Len(s) -> Nat]
        BY SumsAre DEF IsSums
    <2>. QED  BY <2>1, <2>2 DEF Total
<1>3. ASSUME NEW a \in Nat, NEW s \in Seq(Nat)
      PROVE  Total(<<a>> \o s) = a + Total(s)
    <2>. DEFINE t == <<a>> \o s
                n == Len(s)
                h == Sums(s)
                g == [i \in 0..n + 1 |-> IF i = 0 THEN 0 ELSE a + h[i - 1]]
    <2>1. n \in Nat
        BY LenProperties
    <2>2. t \in Seq(Nat) /\ Len(t) = n + 1 /\ t[1] = a /\ (\A i \in 1..n : t[i + 1] = s[i])
        <3>1. <<a>> \in Seq(Nat) /\ Len(<<a>>) = 1
            OBVIOUS
        <3>2. t \in Seq(Nat) /\ Len(t) = n + 1
            BY <2>1, <3>1, ConcatProperties
        <3>3. \A i \in 1..n + 1 : t[i] = IF i <= 1 THEN <<a>>[i] ELSE s[i - 1]
            BY <2>1, <3>1, ConcatProperties
        <3>4. t[1] = a
            BY <2>1, <3>3
        <3>5. \A i \in 1..n : t[i + 1] = s[i]
            <4>. SUFFICES ASSUME NEW i \in 1..n PROVE t[i + 1] = s[i]
                OBVIOUS
            <4>1. i + 1 \in 1..n + 1 /\ ~(i + 1 <= 1) /\ (i + 1) - 1 = i
                BY <2>1
            <4>. QED  BY <3>3, <4>1
        <3>. QED  BY <3>2, <3>4, <3>5
    <2>3. h \in [0..n -> Nat] /\ h[0] = 0 /\ (\A i \in 1..n : h[i] = h[i - 1] + s[i])
        BY SumsAre DEF IsSums
    <2>4. \A i \in 1..n : s[i] \in Nat
        BY <2>1, ElementOfSeq
    <2>. HIDE DEF t, h, n
    <2>5. g \in [0..n + 1 -> Nat] /\ g[0] = 0 /\ g[n + 1] = a + h[n]
        BY <2>1, <2>3
    <2>6. \A i \in 1..n + 1 : g[i] = g[i - 1] + t[i]
        <3>. SUFFICES ASSUME NEW i \in 1..n + 1 PROVE g[i] = g[i - 1] + t[i]
            OBVIOUS
        <3>1. CASE i = 1
            <4>1. g[1] = a + h[0] /\ g[0] = 0
                BY <2>1
            <4>. QED  BY <2>2, <2>3, <3>1, <4>1
        <3>2. CASE i # 1
            <4>1. PICK j \in 1..n : i = j + 1
                <5>1. i - 1 \in 1..n /\ i = (i - 1) + 1
                    BY <2>1, <3>2
                <5>. QED  BY <5>1
            <4>2. g[j + 1] = a + h[j] /\ g[j] = a + h[j - 1] /\ (j + 1) - 1 = j
                BY <2>1
            <4>3. h[j] = h[j - 1] + s[j] /\ t[j + 1] = s[j] /\ h[j - 1] \in Nat /\ s[j] \in Nat
                <5>1. j - 1 \in 0..n
                    BY <2>1
                <5>. QED  BY <2>2, <2>3, <2>4, <5>1
            <4>4. g[j + 1] = g[j] + t[j + 1]
                <5>1. \A x, y, z \in Nat : x + (y + z) = (x + y) + z
                    OBVIOUS
                <5>. QED  BY <4>2, <4>3, <5>1
            <4>. QED  BY <4>1, <4>2, <4>4
        <3>. QED  BY <3>1, <3>2
    <2>. HIDE DEF g
    <2>7. IsSums(t, Len(t), g)
        BY <2>2, <2>5, <2>6 DEF IsSums
    <2>8. IsSums(t, Len(t), Sums(t))
        BY <2>2, SumsAre
    <2>9. g[Len(t)] = Sums(t)[Len(t)]
        BY <2>2, <2>7, <2>8, SumsAgree
    <2>10. Total(t) = a + h[n]
        BY <2>2, <2>5, <2>9 DEF Total
    <2>. QED  BY <2>10 DEF Total, t, h, n
<1>. QED  BY <1>1, <1>2, <1>3

-----------------------------------------------------------------------------
(* The inductive invariant. *)

Fields == [name : {"length", "data_length", "content", "payload"}, len : Nat, val : Nat]

\* The three frames of write_packet_internal, for the packet at hand.
PlainFrame == <<VarIntField("length", Uncompressed)>> \o Content
BelowFrame == <<VarIntField("length", BelowSize(Uncompressed))>>
                \o (<<VarIntField("data_length", 0)>> \o Content)
CompressedFrame == <<VarIntField("length", CompressedSize(Uncompressed))>>
                     \o (<<VarIntField("data_length", Uncompressed)>>
                           \o (<<BytesField("payload", length)>> \o <<>>))
IsFrame(f) ==
    \/ f = PlainFrame /\ Uncompressed <= MaxPacketSize
    \/ f = BelowFrame /\ BelowSize(Uncompressed) <= MaxPacketSize
    \/ f = CompressedFrame /\ CompressedSize(Uncompressed) <= MaxPacketSize

\* Types the type invariant leaves out; a slice is at hand while deflate runs.
Typed ==
    /\ out \in Seq(Fields) /\ rest \in Seq(Fields) /\ length \in Nat
    /\ pc = "deflate" => slice >= 1

\* Between flush and the last field, the blocking writer's compressor is empty.
Whole ==
    flavour = "sync" /\ (pc = "finish" \/ PayloadReady) =>
        raw = 0 /\ pending = 0 /\ ended /\ length = written

\* Nothing is written before the frame is known; what is written and what is
\* still to be written make up the frame.
Framing ==
    /\ pc \in {"deflate", "flush", "finish"} => out = <<>>
    /\ pc = "fields" => IsFrame(out \o rest)
    /\ pc = "idle" /\ result = "ok" /\ out # <<>> => IsFrame(out)

IInv == TypeOK /\ Typed /\ Whole /\ Framing /\ FitsReaderBound

-----------------------------------------------------------------------------
(* The operators. *)

\* A VarInt takes one to five bytes, one for 0, and three at most up to
\* MAX_PACKET_SIZE.
LEMMA VarIntSizeShape ==
    ASSUME NEW n \in Nat
    PROVE  /\ VarIntSize(n) \in 1..5 /\ VarIntSize(0) = 1
           /\ n <= MaxPacketSize => VarIntSize(n) <= 3
<1>. DEFINE P(m, k) == (k = 1 \/ m >= Power[k - 1]) /\ (k = 5 \/ m < Power[k])
<1>1. /\ Power[1] \in Nat /\ Power[2] \in Nat /\ Power[3] \in Nat /\ Power[4] \in Nat
      /\ Power[1] >= 1 /\ Power[2] >= 1 /\ Power[3] >= 1 /\ Power[4] >= Power[3]
    <2>. DEFINE b2 == Base * Base
                b3 == b2 * Base
                b4 == b3 * Base
    <2>1. Power[1] = Base /\ Power[2] = b2 /\ Power[3] = b3 /\ Power[4] = b4
        BY DEF Power
    <2>2. Base \in Nat /\ Base >= 1
        BY SizesAssumption
    <2>3. \A x \in Nat : x * Base \in Nat /\ x * Base >= x
        <3>1. \A x, y \in Nat : y >= 1 => x * y \in Nat /\ x * y >= x
            <4>. SUFFICES ASSUME NEW x \in Nat, NEW y \in Nat, y >= 1
                          PROVE  x * y \in Nat /\ x * y >= x
                OBVIOUS
            <4>1. PICK z \in Nat : y = z + 1
                <5>1. y - 1 \in Nat /\ y = (y - 1) + 1
                    OBVIOUS
                <5>. QED  BY <5>1
            <4>2. x * y = x * z + x /\ x * z \in Nat
                BY <4>1
            <4>. QED  BY <4>2
        <3>. QED  BY <2>2, <3>1
    <2>4. b2 \in Nat /\ b2 >= Base
        BY <2>2, <2>3
    <2>. HIDE DEF b2
    <2>5. b3 \in Nat /\ b3 >= b2
        BY <2>3, <2>4
    <2>. HIDE DEF b3
    <2>6. b4 \in Nat /\ b4 >= b3
        BY <2>3, <2>5
    <2>. HIDE DEF b4
    <2>. QED  BY <2>1, <2>2, <2>4, <2>5, <2>6
<1>2. ASSUME NEW m \in Nat PROVE VarIntSize(m) \in 1..5 /\ P(m, VarIntSize(m))
    <2>1. \E k \in 1..5 : P(m, k)
        <3>1. P(m, 1) \/ P(m, 2) \/ P(m, 3) \/ P(m, 4) \/ P(m, 5)
            BY <1>1
        <3>. HIDE DEF P
        <3>. QED  BY <3>1
    <2>2. VarIntSize(m) = CHOOSE k \in 1..5 : P(m, k)
        BY DEF VarIntSize
    <2>. HIDE DEF P
    <2>. QED  BY <2>1, <2>2
<1>3. VarIntSize(0) = 1
    <2>1. ~P(0, 2) /\ ~P(0, 3) /\ ~P(0, 4)
        BY <1>1
    <2>2. ~P(0, 5)
        BY <1>1
    <2>3. VarIntSize(0) \in 1..5 /\ P(0, VarIntSize(0))
        BY <1>2
    <2>. HIDE DEF P
    <2>4. \A k \in 1..5 : k = 1 \/ k = 2 \/ k = 3 \/ k = 4 \/ k = 5
        OBVIOUS
    <2>. QED  BY <2>1, <2>2, <2>3, <2>4
<1>4. n <= MaxPacketSize => VarIntSize(n) <= 3
    <2>. SUFFICES ASSUME n <= MaxPacketSize PROVE VarIntSize(n) <= 3
        OBVIOUS
    <2>1. n < Power[3]
        BY <1>1 DEF MaxPacketSize
    <2>2. ~P(n, 4) /\ ~P(n, 5)
        BY <1>1, <2>1
    <2>3. VarIntSize(n) \in 1..5 /\ P(n, VarIntSize(n))
        BY <1>2
    <2>. HIDE DEF P
    <2>. QED  BY <2>2, <2>3
<1>. QED  BY <1>2, <1>3, <1>4

\* The slices of a packet and its size.
LEMMA SlicesShape ==
    ASSUME NEW p \in Packets
    PROVE  /\ <<p.id>> \o p.slices \in Seq(Nat) /\ Len(<<p.id>> \o p.slices) \in Nat
           /\ Len(<<p.id>> \o p.slices) >= 1
           /\ p.id + Total(p.slices) \in Nat
           /\ Total(<<p.id>> \o p.slices) = p.id + Total(p.slices)
<1>1. p.id \in Nat /\ p.slices \in Seq(Nat)
    BY PacketAssumption
<1>2. <<p.id>> \in Seq(Nat) /\ Len(<<p.id>>) = 1
    BY <1>1
<1>3. Len(p.slices) \in Nat
    BY <1>1, LenProperties
<1>4. <<p.id>> \o p.slices \in Seq(Nat) /\ Len(<<p.id>> \o p.slices) = 1 + Len(p.slices)
    BY <1>1, <1>2, ConcatProperties
<1>5. Total(p.slices) \in Nat /\ Total(<<p.id>> \o p.slices) = p.id + Total(p.slices)
    BY <1>1, TotalShape
<1>. QED  BY <1>1, <1>3, <1>4, <1>5

\* One call of deflate: no more comes out than there is room for, and a Finish
\* with nothing to take leaves nothing unencoded and ends the stream.
LEMMA DeflateShape ==
    ASSUME raw \in Nat, pending \in Nat, ended \in BOOLEAN,
           NEW n \in Nat, NEW room \in Nat, NEW flush, NEW took, NEW gave,
           Deflate(n, room, flush, took, gave)
    PROVE  /\ raw' \in Nat /\ pending' \in Nat /\ ended' \in BOOLEAN
           /\ took \in 0..n /\ gave \in 0..room
           /\ flush = "Finish" /\ n = 0 => raw' = 0 /\ ended'
<1>1. took \in 0..n
    BY DEF Deflate
<1>2. PICK e \in {0, raw + took}, trailer \in {0, 1} :
          /\ flush # "None" /\ took = n => e = raw + took
          /\ trailer = IF flush = "Finish" /\ took = n /\ ~ended THEN 1 ELSE 0
          /\ \E new \in Encodings(e) :
                 /\ gave = Minimum(room, pending + new + trailer)
                 /\ pending' = pending + new + trailer - gave
          /\ raw' = raw + took - e
          /\ ended' = (ended \/ trailer = 1)
    BY DEF Deflate
<1>3. PICK new \in Encodings(e) :
          /\ gave = Minimum(room, pending + new + trailer)
          /\ pending' = pending + new + trailer - gave
    BY <1>2
<1>4. e \in Nat
    BY <1>1
<1>5. new \in Nat
    BY <1>4 DEF Encodings
<1>6. pending + new + trailer \in Nat
    BY <1>5
<1>7. gave \in 0..room /\ gave <= pending + new + trailer
    <2>1. \A x, y \in Nat : Minimum(x, y) \in 0..x /\ Minimum(x, y) <= y
        BY DEF Minimum
    <2>. QED  BY <1>3, <1>6, <2>1
<1>8. pending' \in Nat
    <2>1. \A x, y, z, g \in Nat : g <= x + y + z => x + y + z - g \in Nat
        OBVIOUS
    <2>2. gave \in Nat /\ gave <= pending + new + trailer /\ trailer \in Nat
        BY <1>7
    <2>3. pending' = pending + new + trailer - gave
        BY <1>3
    <2>. QED  BY <1>5, <2>1, <2>2, <2>3, Zenon
<1>9. raw' \in Nat
    BY <1>1, <1>2
<1>10. ended' \in BOOLEAN
    <2>1. ended' = (ended \/ trailer = 1)
        BY <1>2
    <2>. QED  BY <2>1, Zenon
<1>11. flush = "Finish" /\ n = 0 => raw' = 0 /\ ended'
    <2>. SUFFICES ASSUME flush = "Finish", n = 0 PROVE raw' = 0 /\ ended'
        OBVIOUS
    <2>1. took = n
        BY <1>1
    <2>2. e = raw + took /\ raw' = raw + took - e
        BY <1>2, <2>1
    <2>3. raw' = 0
        BY <1>1, <2>2
    <2>4. ended'
        <3>1. CASE ended
            BY <1>2, <3>1
        <3>2. CASE ~ended
            <4>1. trailer = 1
                BY <1>2, <2>1, <3>2
            <4>. QED  BY <1>2, <4>1
        <3>. QED  BY <3>1, <3>2
    <2>. QED  BY <2>3, <2>4
<1>. QED  BY <1>1, <1>7, <1>8, <1>9, <1>10, <1>11

-----------------------------------------------------------------------------
(* Frames. *)

\* A sequence with a first element put before it.
LEMMA ConsShape ==
    ASSUME NEW S, NEW x \in S, NEW g \in Seq(S)
    PROVE  /\ <<x>> \o g \in Seq(S) /\ <<x>> \o g # <<>>
           /\ Len(g) \in Nat /\ Len(<<x>> \o g) = 1 + Len(g)
           /\ DOMAIN (<<x>> \o g) = 1..(1 + Len(g)) /\ DOMAIN g = 1..Len(g)
           /\ (<<x>> \o g)[1] = x /\ (\A i \in 1..Len(g) : (<<x>> \o g)[i + 1] = g[i])
           /\ Tail(<<x>> \o g) = g
<1>. DEFINE f == <<x>> \o g
            n == Len(g)
<1>1. n \in Nat /\ DOMAIN g = 1..n
    BY LenProperties
<1>2. <<x>> \in Seq(S) /\ Len(<<x>>) = 1
    OBVIOUS
<1>3. f \in Seq(S) /\ Len(f) = 1 + n
    BY <1>1, <1>2, ConcatProperties
<1>4. \A i \in 1..1 + n : f[i] = IF i <= 1 THEN <<x>>[i] ELSE g[i - 1]
    BY <1>1, <1>2, ConcatProperties
<1>5. f[1] = x
    BY <1>1, <1>4
<1>6. \A i \in 1..n : f[i + 1] = g[i]
    <2>. SUFFICES ASSUME NEW i \in 1..n PROVE f[i + 1] = g[i]
        OBVIOUS
    <2>1. i + 1 \in 1..1 + n /\ ~(i + 1 <= 1) /\ (i + 1) - 1 = i
        BY <1>1
    <2>. QED  BY <1>4, <2>1
<1>7. DOMAIN f = 1..1 + n
    BY <1>3, LenProperties
<1>. HIDE DEF f
<1>8. f # <<>>
    <2>1. Len(f) # 0
        BY <1>1, <1>3
    <2>. QED  BY <2>1, EmptySeq
<1>9. Tail(f) = g
    <2>1. /\ Tail(f) \in Seq(S) /\ Len(Tail(f)) = Len(f) - 1
          /\ \A i \in 1..Len(Tail(f)) : Tail(f)[i] = f[i + 1]
        BY <1>3, <1>8, HeadTailProperties
    <2>2. Len(Tail(f)) = n
        BY <1>1, <1>3, <2>1
    <2>3. \A i \in 1..n : Tail(f)[i] = g[i]
        BY <1>6, <2>1, <2>2
    <2>. QED  BY <2>1, <2>2, <2>3, SeqEqual
<1>. QED  BY <1>1, <1>3, <1>5, <1>6, <1>7, <1>8, <1>9 DEF f

\* A frame's first fields, one after the other.
LEMMA PairConcat ==
    ASSUME NEW S, NEW x \in S, NEW y \in S, NEW g \in Seq(S)
    PROVE  <<x, y>> \o g = <<x>> \o (<<y>> \o g)
<1>1. <<x>> \in Seq(S) /\ <<y>> \in Seq(S)
    OBVIOUS
<1>2. <<x>> \o <<y>> = <<x, y>>
    <2>. DEFINE f == <<x>> \o <<y>>
    <2>1. Len(<<y>>) = 1 /\ <<y>>[1] = y
        OBVIOUS
    <2>2. /\ f \in Seq(S) /\ Len(f) = 1 + 1
          /\ f[1] = x /\ (\A i \in 1..1 : f[i + 1] = <<y>>[i])
        BY <1>1, <2>1, ConsShape
    <2>3. 1 \in 1..1 /\ 1 + 1 = 2
        OBVIOUS
    <2>4. f[2] = y
        BY <2>1, <2>2, <2>3, Zenon
    <2>. HIDE DEF f
    <2>5. <<x, y>> \in Seq(S) /\ Len(<<x, y>>) = 2 /\ <<x, y>>[1] = x /\ <<x, y>>[2] = y
        OBVIOUS
    <2>6. \A i \in 1..2 : i = 1 \/ i = 2
        OBVIOUS
    <2>7. \A i \in 1..2 : f[i] = <<x, y>>[i]
        BY <2>2, <2>4, <2>5, <2>6, Zenon
    <2>8. Len(f) = 2
        BY <2>2
    <2>9. f = <<x, y>>
        BY <2>2, <2>5, <2>7, <2>8, SeqEqual
    <2>. QED  BY <2>9 DEF f
<1>3. (<<x>> \o <<y>>) \o g = <<x>> \o (<<y>> \o g)
    BY <1>1, ConcatAssociative
<1>. QED  BY <1>2, <1>3

\* The total of a number each element has.
Weighed(h, f) == [i \in DOMAIN f |-> h[f[i]]]

\* A first element adds its own weight.
LEMMA WeighedCons ==
    ASSUME NEW h \in [Fields -> Nat], NEW x \in Fields, NEW g \in Seq(Fields)
    PROVE  /\ Weighed(h, g) \in Seq(Nat)
           /\ Total(Weighed(h, <<x>> \o g)) = h[x] + Total(Weighed(h, g))
<1>. DEFINE f == <<x>> \o g
            n == Len(g)
            u == Weighed(h, f)
            w == Weighed(h, g)
<1>1. /\ n \in Nat /\ DOMAIN f = 1..1 + n /\ DOMAIN g = 1..n
      /\ f[1] = x /\ (\A i \in 1..n : f[i + 1] = g[i])
    BY ConsShape
<1>2. \A i \in 1..n : g[i] \in Fields
    BY <1>1, ElementOfSeq
<1>. HIDE DEF f, n
<1>3. w = [i \in 1..n |-> h[g[i]]] /\ u = [i \in 1..1 + n |-> h[f[i]]]
    BY <1>1 DEF Weighed
<1>4. w \in Seq(Nat) /\ Len(w) = n
    <2>1. \A i \in 1..n : h[g[i]] \in Nat
        BY <1>2
    <2>2. w \in [1..n -> Nat]
        BY <1>3, <2>1
    <2>3. w \in Seq(Nat)
        BY <1>1, <2>2, SeqDef
    <2>4. DOMAIN w = 1..n
        BY <2>2
    <2>. HIDE DEF w
    <2>. QED  BY <1>1, <2>3, <2>4, LenProperties
<1>5. h[x] \in Nat
    OBVIOUS
<1>6. u = <<h[x]>> \o w
    <2>. DEFINE v == <<h[x]>> \o w
    <2>. HIDE DEF u, w
    <2>1. /\ v \in Seq(Nat) /\ DOMAIN v = 1..1 + n /\ v[1] = h[x]
          /\ \A i \in 1..n : v[i + 1] = w[i]
        BY <1>4, <1>5, ConsShape
    <2>. HIDE DEF v
    <2>2. \A i \in 1..1 + n : u[i] = v[i]
        <3>. SUFFICES ASSUME NEW i \in 1..1 + n PROVE u[i] = v[i]
            OBVIOUS
        <3>1. CASE i = 1
            <4>1. u[i] = h[f[i]]
                BY <1>3
            <4>. QED  BY <1>1, <2>1, <3>1, <4>1
        <3>2. CASE i # 1
            <4>1. PICK j \in 1..n : i = j + 1
                <5>1. i - 1 \in 1..n /\ i = (i - 1) + 1
                    BY <1>1, <3>2
                <5>. QED  BY <5>1
            <4>2. u[j + 1] = h[f[j + 1]]
                BY <1>3, <4>1
            <4>3. w[j] = h[g[j]]
                BY <1>3
            <4>. QED  BY <1>1, <2>1, <4>1, <4>2, <4>3
        <3>. QED  BY <3>1, <3>2
    <2>3. u = [i \in 1..1 + n |-> u[i]] /\ v = [i \in 1..1 + n |-> v[i]]
        <3>1. u = [i \in 1..1 + n |-> u[i]]
            BY <1>3
        <3>2. v = [i \in DOMAIN v |-> v[i]]
            BY <2>1
        <3>. QED  BY <2>1, <3>1, <3>2
    <2>4. u = v
        BY <2>2, <2>3
    <2>. QED  BY <2>4 DEF v
<1>. HIDE DEF u, w
<1>7. Total(u) = h[x] + Total(w)
    BY <1>4, <1>5, <1>6, TotalShape
<1>. QED  BY <1>4, <1>7 DEF u, w, f

\* The bytes of a frame, and those of its content.
ContentLen(x) == IF x.name = "content" THEN x.len ELSE 0
ContentOf(f) == Total([i \in DOMAIN f |-> ContentLen(f[i])])

\* A first field adds its bytes to those of a frame.
LEMMA BytesCons ==
    ASSUME NEW x \in Fields, NEW g \in Seq(Fields)
    PROVE  Bytes(<<x>> \o g) = x.len + Bytes(g) /\ Bytes(g) \in Nat
<1>. DEFINE h == [y \in Fields |-> y.len]
<1>1. h \in [Fields -> Nat] /\ h[x] = x.len
    BY DEF Fields
<1>2. ASSUME NEW f \in Seq(Fields) PROVE [i \in DOMAIN f |-> f[i].len] = Weighed(h, f)
    <2>1. \A i \in DOMAIN f : f[i] \in Fields
        BY ElementOfSeq, LenProperties
    <2>2. \A i \in DOMAIN f : h[f[i]] = f[i].len
        BY <2>1
    <2>. HIDE DEF h
    <2>. QED  BY <2>2 DEF Weighed
<1>3. <<x>> \o g \in Seq(Fields)
    BY ConsShape
<1>. HIDE DEF h
<1>4. Bytes(<<x>> \o g) = Total(Weighed(h, <<x>> \o g)) /\ Bytes(g) = Total(Weighed(h, g))
    BY <1>2, <1>3 DEF Bytes
<1>5. Weighed(h, g) \in Seq(Nat) /\ Total(Weighed(h, <<x>> \o g)) = h[x] + Total(Weighed(h, g))
    BY <1>1, WeighedCons
<1>6. Total(Weighed(h, g)) \in Nat
    BY <1>5, TotalShape
<1>. QED  BY <1>1, <1>4, <1>5, <1>6

\* A first field adds its bytes to the content if it is content.
LEMMA ContentCons ==
    ASSUME NEW x \in Fields, NEW g \in Seq(Fields)
    PROVE  ContentOf(<<x>> \o g) = ContentLen(x) + ContentOf(g) /\ ContentOf(g) \in Nat
<1>. DEFINE h == [y \in Fields |-> ContentLen(y)]
<1>1. h \in [Fields -> Nat] /\ h[x] = ContentLen(x)
    BY DEF Fields, ContentLen
<1>2. ASSUME NEW f \in Seq(Fields) PROVE [i \in DOMAIN f |-> ContentLen(f[i])] = Weighed(h, f)
    <2>1. \A i \in DOMAIN f : f[i] \in Fields
        BY ElementOfSeq, LenProperties
    <2>2. \A i \in DOMAIN f : h[f[i]] = ContentLen(f[i])
        BY <2>1
    <2>. HIDE DEF h
    <2>. QED  BY <2>2 DEF Weighed
<1>3. <<x>> \o g \in Seq(Fields)
    BY ConsShape
<1>. HIDE DEF h
<1>4. /\ ContentOf(<<x>> \o g) = Total(Weighed(h, <<x>> \o g))
      /\ ContentOf(g) = Total(Weighed(h, g))
    BY <1>2, <1>3 DEF ContentOf
<1>5. Weighed(h, g) \in Seq(Nat) /\ Total(Weighed(h, <<x>> \o g)) = h[x] + Total(Weighed(h, g))
    BY <1>1, WeighedCons
<1>6. Total(Weighed(h, g)) \in Nat
    BY <1>5, TotalShape
<1>. QED  BY <1>1, <1>4, <1>5, <1>6

\* The fields a sequence has.
Elements(f) == {f[i] : i \in DOMAIN f}

\* A first field joins the others.
LEMMA ConsElements ==
    ASSUME NEW x \in Fields, NEW g \in Seq(Fields)
    PROVE  Elements(<<x>> \o g) = {x} \union Elements(g)
<1>. DEFINE f == <<x>> \o g
            n == Len(g)
<1>1. /\ n \in Nat /\ DOMAIN f = 1..1 + n /\ DOMAIN g = 1..n
      /\ f[1] = x /\ (\A i \in 1..n : f[i + 1] = g[i])
    BY ConsShape
<1>. HIDE DEF f, n
<1>2. ASSUME NEW i \in 1..1 + n PROVE f[i] \in {x} \union Elements(g)
    <2>1. CASE i = 1
        BY <1>1, <2>1
    <2>2. CASE i # 1
        <3>1. PICK j \in 1..n : i = j + 1
            <4>1. i - 1 \in 1..n /\ i = (i - 1) + 1
                BY <1>1, <2>2
            <4>. QED  BY <4>1
        <3>. QED  BY <1>1, <3>1 DEF Elements
    <2>. QED  BY <2>1, <2>2
<1>3. ASSUME NEW j \in 1..n PROVE g[j] \in Elements(f)
    <2>1. j + 1 \in 1..1 + n
        BY <1>1
    <2>. QED  BY <1>1, <2>1 DEF Elements
<1>4. x \in Elements(f)
    <2>1. 1 \in 1..1 + n
        BY <1>1
    <2>. QED  BY <1>1, <2>1 DEF Elements
<1>5. Elements(f) \subseteq {x} \union Elements(g)
    BY <1>1, <1>2 DEF Elements
<1>6. Elements(g) \subseteq Elements(f)
    <2>. SUFFICES ASSUME NEW y \in Elements(g) PROVE y \in Elements(f)
        OBVIOUS
    <2>1. PICK j \in 1..n : y = g[j]
        BY <1>1 DEF Elements
    <2>. QED  BY <1>3, <2>1
<1>7. Elements(f) = {x} \union Elements(g)
    BY <1>4, <1>5, <1>6
<1>. QED  BY <1>7 DEF f

\* The content of a packet: a field for each slice.
LEMMA ContentShape ==
    ASSUME NEW s \in Seq(Nat)
    PROVE  LET c == [i \in 1..Len(s) |-> BytesField("content", s[i])]
           IN  /\ c \in Seq(Fields) /\ Bytes(c) = Total(s) /\ ContentOf(c) = Total(s)
               /\ \A y \in Elements(c) : y.name = "content"
<1>. DEFINE n == Len(s)
            c == [i \in 1..n |-> BytesField("content", s[i])]
<1>1. n \in Nat /\ DOMAIN s = 1..n /\ s \in [1..n -> Nat]
    BY LenProperties
<1>2. \A i \in 1..n : s[i] \in Nat
    BY <1>1
<1>3. \A i \in 1..n : c[i] \in Fields /\ c[i].len = s[i] /\ c[i].name = "content"
    BY <1>2 DEF BytesField, Fields
<1>4. DOMAIN c = 1..n /\ c \in [1..n -> Fields]
    BY <1>3
<1>. HIDE DEF n, c
<1>5. c \in Seq(Fields)
    BY <1>1, <1>4, SeqDef
<1>6. [i \in DOMAIN c |-> c[i].len] = s /\ [i \in DOMAIN c |-> ContentLen(c[i])] = s
    <2>1. \A i \in 1..n : ContentLen(c[i]) = s[i]
        BY <1>3 DEF ContentLen
    <2>2. s = [i \in 1..n |-> s[i]]
        BY <1>1
    <2>. QED  BY <1>3, <1>4, <2>1, <2>2
<1>7. Bytes(c) = Total(s) /\ ContentOf(c) = Total(s)
    BY <1>6 DEF Bytes, ContentOf
<1>8. \A y \in Elements(c) : y.name = "content"
    BY <1>3, <1>4 DEF Elements
<1>9. c \in Seq(Fields) /\ Bytes(c) = Total(s) /\ ContentOf(c) = Total(s)
      /\ \A y \in Elements(c) : y.name = "content"
    BY <1>5, <1>7, <1>8
<1>. QED  BY <1>9 DEF c, n

\* What the reader needs of a frame.
Exact(f) ==
    /\ f \in Seq(Fields) /\ f # <<>> /\ f[1].name = "length" /\ f[1].len <= 3
    /\ f[1].val = Bytes(Tail(f))
    /\ \/ /\ \A y \in Elements(f) : y.name # "payload" /\ (y.name = "data_length" => y.val = 0)
          /\ ContentOf(f) = Uncompressed
       \/ /\ \E y \in Elements(f) : y.name = "payload"
          /\ \A y \in Elements(f) : /\ y.name # "content"
                                    /\ y.name = "data_length" => y.val = Uncompressed

\* What a field of a frame has.
LEMMA FieldShape ==
    ASSUME NEW n \in Nat, NEW name \in {"length", "data_length", "content", "payload"}
    PROVE  /\ VarIntField(name, n) \in Fields /\ VarIntField(name, n).name = name
           /\ VarIntField(name, n).val = n /\ VarIntField(name, n).len = VarIntSize(n)
           /\ BytesField(name, n) \in Fields /\ BytesField(name, n).name = name
           /\ BytesField(name, n).len = n
<1>1. VarIntSize(n) \in Nat
    BY VarIntSizeShape
<1>. QED  BY <1>1 DEF VarIntField, BytesField, Fields

\* The three frames are what the reader needs.
LEMMA FramesAreExact ==
    ASSUME packet \in Packets, length \in Nat, NEW f, IsFrame(f)
    PROVE  Exact(f)
<1>. DEFINE n == Uncompressed
            c == Content
<1>1. n \in Nat
    BY SlicesShape DEF Uncompressed
<1>2. /\ c \in Seq(Fields) /\ Bytes(c) = n /\ ContentOf(c) = n
      /\ \A y \in Elements(c) : y.name = "content"
    <2>1. Slices \in Seq(Nat) /\ Total(Slices) = Uncompressed
        BY SlicesShape DEF Slices, Uncompressed
    <2>. QED  BY <2>1, ContentShape DEF Content
<1>. HIDE DEF n, c
<1>3. CASE f = PlainFrame /\ Uncompressed <= MaxPacketSize
    <2>. DEFINE x == VarIntField("length", n)
    <2>1. /\ x \in Fields /\ x.name = "length" /\ x.val = n /\ x.len = VarIntSize(n)
          /\ VarIntSize(n) <= 3
        BY <1>1, <1>3, FieldShape, VarIntSizeShape DEF n
    <2>. HIDE DEF x
    <2>2. f = <<x>> \o c
        BY <1>3 DEF PlainFrame, x, n, c
    <2>3. f \in Seq(Fields) /\ f # <<>> /\ f[1] = x /\ Tail(f) = c
        BY <1>2, <2>1, <2>2, ConsShape
    <2>4. Elements(f) = {x} \union Elements(c)
        BY <1>2, <2>1, <2>2, ConsElements
    <2>5. ContentOf(f) = n
        <3>1. ContentOf(f) = ContentLen(x) + ContentOf(c)
            BY <1>2, <2>1, <2>2, ContentCons
        <3>2. ContentLen(x) = 0
            BY <2>1 DEF ContentLen
        <3>. QED  BY <1>1, <1>2, <3>1, <3>2
    <2>6. \A y \in Elements(f) : y.name # "payload" /\ y.name # "data_length"
        BY <1>2, <2>1, <2>4
    <2>. QED  BY <1>2, <2>1, <2>3, <2>5, <2>6 DEF Exact, n
<1>4. CASE f = BelowFrame /\ BelowSize(Uncompressed) <= MaxPacketSize
    <2>. DEFINE x == VarIntField("length", n + 1)
                z == VarIntField("data_length", 0)
                g == <<z>> \o c
    <2>1. /\ x \in Fields /\ x.name = "length" /\ x.val = n + 1 /\ x.len = VarIntSize(n + 1)
          /\ VarIntSize(n + 1) <= 3
        BY <1>1, <1>4, FieldShape, VarIntSizeShape DEF BelowSize, n
    <2>2. z \in Fields /\ z.name = "data_length" /\ z.val = 0 /\ z.len = 1
        BY FieldShape, VarIntSizeShape
    <2>3. f = <<x>> \o (<<z>> \o c)
        BY <1>4 DEF BelowFrame, BelowSize, n, c
    <2>. HIDE DEF x, z
    <2>4. g \in Seq(Fields) /\ Elements(g) = {z} \union Elements(c)
        BY <1>2, <2>2, ConsShape, ConsElements
    <2>5. Bytes(g) = 1 + n
        <3>1. Bytes(g) = z.len + Bytes(c)
            BY <1>2, <2>2, BytesCons
        <3>. QED  BY <1>2, <2>2, <3>1
    <2>6. ContentOf(g) = n
        <3>1. ContentOf(g) = ContentLen(z) + ContentOf(c)
            BY <1>2, <2>2, ContentCons
        <3>2. ContentLen(z) = 0
            BY <2>2 DEF ContentLen
        <3>. QED  BY <1>1, <1>2, <3>1, <3>2
    <2>. HIDE DEF g
    <2>7. f = <<x>> \o g
        BY <2>3 DEF g
    <2>8. f \in Seq(Fields) /\ f # <<>> /\ f[1] = x /\ Tail(f) = g
        BY <2>1, <2>4, <2>7, ConsShape
    <2>9. Elements(f) = {x} \union Elements(g)
        BY <2>1, <2>4, <2>7, ConsElements
    <2>10. ContentOf(f) = n
        <3>1. ContentOf(f) = ContentLen(x) + ContentOf(g)
            BY <2>1, <2>4, <2>7, ContentCons
        <3>2. ContentLen(x) = 0
            BY <2>1 DEF ContentLen
        <3>. QED  BY <1>1, <2>6, <3>1, <3>2
    <2>11. \A y \in Elements(f) : y.name # "payload" /\ (y.name = "data_length" => y.val = 0)
        BY <1>2, <2>1, <2>2, <2>4, <2>9
    <2>12. f[1].val = Bytes(Tail(f))
        <3>1. f[1].val = n + 1 /\ Bytes(Tail(f)) = 1 + n
            BY <2>1, <2>5, <2>8, Zenon
        <3>2. n + 1 = 1 + n
            BY <1>1
        <3>. QED  BY <3>1, <3>2, Zenon
    <2>. QED  BY <2>1, <2>8, <2>10, <2>11, <2>12 DEF Exact, n
<1>5. CASE f = CompressedFrame /\ CompressedSize(Uncompressed) <= MaxPacketSize
    <2>. DEFINE m == VarIntSize(n) + length
                x == VarIntField("length", m)
                z == VarIntField("data_length", n)
                p == BytesField("payload", length)
                h == <<p>> \o <<>>
                g == <<z>> \o h
    <2>1. VarIntSize(n) \in Nat /\ m \in Nat /\ m <= MaxPacketSize
        BY <1>1, <1>5, VarIntSizeShape DEF CompressedSize, n
    <2>2. z \in Fields /\ z.name = "data_length" /\ z.val = n /\ z.len = VarIntSize(n)
        BY <1>1, FieldShape
    <2>3. p \in Fields /\ p.name = "payload" /\ p.len = length
        BY FieldShape
    <2>4. f = <<x>> \o (<<z>> \o (<<p>> \o <<>>))
        BY <1>5 DEF CompressedFrame, CompressedSize, n
    <2>. HIDE DEF m
    <2>5. x \in Fields /\ x.name = "length" /\ x.val = m /\ x.len <= 3
        BY <2>1, FieldShape, VarIntSizeShape
    <2>. HIDE DEF x, z, p
    <2>6. /\ <<>> \in Seq(Fields) /\ Bytes(<<>>) = 0 /\ Elements(<<>>) = {}
        <3>1. <<>> \in Seq(Fields) /\ DOMAIN <<>> = {}
            OBVIOUS
        <3>2. [i \in DOMAIN <<>> |-> <<>>[i].len] = <<>>
            BY <3>1
        <3>. QED  BY <3>1, <3>2, TotalShape DEF Bytes, Elements
    <2>7. h \in Seq(Fields) /\ Elements(h) = {p} /\ Bytes(h) = length
        <3>1. h \in Seq(Fields)
            BY <2>3, <2>6, ConsShape
        <3>2. Elements(h) = {p}
            BY <2>3, <2>6, ConsElements
        <3>3. Bytes(h) = p.len + Bytes(<<>>)
            BY <2>3, <2>6, BytesCons
        <3>. QED  BY <2>3, <2>6, <3>1, <3>2, <3>3
    <2>. HIDE DEF h
    <2>8. g \in Seq(Fields) /\ Elements(g) = {z} \union {p}
        BY <2>2, <2>7, ConsShape, ConsElements
    <2>9. Bytes(g) = m
        BY <2>2, <2>7, BytesCons DEF m
    <2>10. f = <<x>> \o g
        BY <2>4 DEF g, h
    <2>. HIDE DEF g
    <2>11. f \in Seq(Fields) /\ f # <<>> /\ f[1] = x /\ Tail(f) = g
        BY <2>5, <2>8, <2>10, ConsShape
    <2>12. Elements(f) = {x} \union ({z} \union {p})
        BY <2>5, <2>8, <2>10, ConsElements
    <2>13. /\ \E y \in Elements(f) : y.name = "payload"
           /\ \A y \in Elements(f) : y.name # "content" /\ (y.name = "data_length" => y.val = n)
        BY <2>2, <2>3, <2>5, <2>12
    <2>. QED  BY <2>5, <2>9, <2>11, <2>13 DEF Exact, n
<1>. QED  BY <1>3, <1>4, <1>5 DEF IsFrame

-----------------------------------------------------------------------------
(* One lemma per action. *)

\* Before the first packet.
LEMMA InitHolds == Init => IInv
<1>. SUFFICES ASSUME Init PROVE IInv
    OBVIOUS
<1>1. packet \in Packets
    BY PacketAssumption DEF Init
<1>2. Len(Slices) \in Nat
    BY <1>1, SlicesShape DEF Slices
<1>3. <<>> \in Seq(Fields)
    OBVIOUS
<1>4. TypeOK
    <2>1. slice \in 0..Len(Slices) /\ packets \in 0..MaxPackets /\ written \in 0..length
        BY <1>2, SizesAssumption DEF Init
    <2>. QED  BY <1>1, <2>1 DEF Init, TypeOK
<1>. QED  BY <1>3, <1>4 DEF Init, IInv, Typed, Whole, PayloadReady, Framing, FitsReaderBound

\* The threshold is no part of a frame.
LEMMA SetThresholdKeeps == ASSUME IInv, SetThreshold PROVE IInv'
<1>1. (TypeOK /\ Typed /\ Whole /\ FitsReaderBound)'
    BY DEF IInv, SetThreshold, compressor, cache, TypeOK, Slices, Typed, Whole, PayloadReady,
           FitsReaderBound
<1>2. Framing'
    BY DEF IInv, SetThreshold, compressor, cache, Framing, IsFrame, PlainFrame, BelowFrame,
           CompressedFrame, CompressedSize, Uncompressed, Content, Slices
<1>. QED  BY <1>1, <1>2 DEF IInv

\* The frame of a packet that is not compressed, or the start of deflate; no
\* payload yet.
LEMMA WritePacketKeeps ==
    ASSUME IInv, WritePacket
    PROVE  IInv' /\ ~PayloadReady' /\ pc' # "finish"
<1>. DEFINE n == Uncompressed'
            c == Content'
            small == VarIntField("length", n)
            below == VarIntField("length", BelowSize(n))
            zero == VarIntField("data_length", 0)
<1>1. packet' \in Packets /\ length \in Nat /\ out' = <<>> /\ consumed' = 0
    BY DEF IInv, Typed, WritePacket
<1>2. n \in Nat /\ BelowSize(n) \in Nat
    <2>1. n \in Nat
        BY <1>1, SlicesShape DEF Uncompressed
    <2>. HIDE DEF n
    <2>. QED  BY <2>1 DEF BelowSize
<1>3. c \in Seq(Fields)
    <2>1. Slices' \in Seq(Nat)
        BY <1>1, SlicesShape DEF Slices
    <2>. QED  BY <2>1, ContentShape DEF Content
<1>4. small \in Fields /\ below \in Fields /\ zero \in Fields
    BY <1>2, FieldShape
<1>5. <<small>> \o c \in Seq(Fields) /\ <<below>> \o (<<zero>> \o c) \in Seq(Fields)
    <2>. HIDE DEF small, below, zero, c
    <2>. QED  BY <1>3, <1>4, ConsShape
<1>6. <<below, zero>> \o c = <<below>> \o (<<zero>> \o c)
    <2>. HIDE DEF small, below, zero, c
    <2>. QED  BY <1>3, <1>4, PairConcat
<1>7. /\ UNCHANGED <<flavour, threshold>> /\ packets' \in 0..MaxPackets
    BY SizesAssumption DEF IInv, TypeOK, WritePacket
<1>8. \/ /\ pc' = "deflate" /\ slice' = 1 /\ raw' = 0 /\ pending' = 0 /\ ended' = FALSE
         /\ length' = (IF flavour = "sync" THEN Maximum(2, packet'.id \div 2) ELSE 0)
         /\ written' = 0 /\ UNCHANGED <<rest, result>>
      \/ /\ slice' = 0 /\ UNCHANGED <<compressor, cache>>
         /\ \/ pc' = "idle" /\ result' = "oversized" /\ UNCHANGED rest
            \/ /\ n <= MaxPacketSize /\ pc' = "fields" /\ rest' = <<small>> \o c
               /\ UNCHANGED result
            \/ /\ BelowSize(n) <= MaxPacketSize /\ pc' = "fields"
               /\ rest' = <<below>> \o (<<zero>> \o c) /\ UNCHANGED result
    <2>1. MaxPacketSize \in Int
        <3>1. Power[3] = Base * Base * Base /\ Base \in Nat
            BY SizesAssumption DEF Power
        <3>. QED  BY <3>1 DEF MaxPacketSize
    <2>2. \A x \in Nat : ~(x > MaxPacketSize) => x <= MaxPacketSize
        BY <2>1
    <2>3. (~(n > MaxPacketSize) => n <= MaxPacketSize)
          /\ (~(BelowSize(n) > MaxPacketSize) => BelowSize(n) <= MaxPacketSize)
        BY <1>2, <2>2
    <2>4. WritePacket
        OBVIOUS
    <2>. HIDE DEF n, c
    <2>5. \/ /\ pc' = "deflate" /\ slice' = 1 /\ Fresh
             /\ length' = (IF flavour = "sync" THEN Maximum(2, packet'.id \div 2) ELSE 0)
             /\ written' = 0 /\ UNCHANGED <<rest, result>>
          \/ /\ slice' = 0 /\ UNCHANGED <<compressor, cache>>
             /\ \/ Refuse
                \/ ~(n > MaxPacketSize) /\ Frame(<<small>> \o c)
                \/ ~(BelowSize(n) > MaxPacketSize) /\ Frame(<<below, zero>> \o c)
        BY <2>4 DEF WritePacket, n, c
    <2>. QED  BY <1>6, <2>3, <2>5 DEF Fresh, Refuse, Frame
<1>. HIDE DEF small, below, zero, c, n
<1>9. length' \in Nat /\ written' \in 0..length'
    <2>1. packet'.id \in Nat
        BY <1>1, PacketAssumption
    <2>2. \A x \in Nat : Maximum(2, x \div 2) \in Nat
        BY DEF Maximum
    <2>. QED  BY <1>1, <1>8, <2>1, <2>2 DEF IInv, TypeOK, cache
<1>10. TypeOK'
    <2>1. Len(Slices') \in Nat /\ Len(Slices') >= 1
        BY <1>1, SlicesShape DEF Slices
    <2>2. slice' \in 0..Len(Slices')
        BY <1>8, <2>1
    <2>3. raw' \in Nat /\ pending' \in Nat /\ ended' \in BOOLEAN
        <3>1. raw' \in Nat /\ pending' \in Nat
            BY <1>8 DEF IInv, TypeOK, compressor
        <3>2. ended' \in BOOLEAN
            BY <1>8, Zenon DEF IInv, TypeOK, compressor
        <3>. QED  BY <3>1, <3>2
    <2>4. /\ pc' \in {"idle", "deflate", "fields"}
          /\ result' \in {"ok", "oversized", "not_started", "stream_error"}
        BY <1>8 DEF IInv, TypeOK
    <2>. QED  BY <1>1, <1>7, <1>9, <2>2, <2>3, <2>4 DEF IInv, TypeOK
<1>11. Typed'
    <2>1. <<>> \in Seq(Fields)
        OBVIOUS
    <2>2. rest' \in Seq(Fields)
        BY <1>5, <1>8 DEF IInv, Typed
    <2>. QED  BY <1>1, <1>8, <1>9, <2>1, <2>2 DEF Typed
<1>12. Whole' /\ ~PayloadReady' /\ pc' # "finish"
    <2>1. ASSUME pc' = "fields" PROVE \A i \in DOMAIN rest' : rest'[i].name # "payload"
        <3>1. \A y \in Elements(c) : y.name = "content"
            <4>1. Slices' \in Seq(Nat)
                BY <1>1, SlicesShape DEF Slices
            <4>. QED  BY <4>1, ContentShape DEF Content, c
        <3>2. small.name # "payload" /\ below.name # "payload" /\ zero.name # "payload"
            BY DEF small, below, zero, VarIntField
        <3>3. Elements(<<small>> \o c) = {small} \union Elements(c)
            BY <1>3, <1>4, ConsElements
        <3>4. Elements(<<below>> \o (<<zero>> \o c)) = {below} \union ({zero} \union Elements(c))
            <4>. HIDE DEF below, zero, c
            <4>1. PICK z \in Seq(Fields) : z = <<zero>> \o c
                BY <1>3, <1>4, ConsShape
            <4>2. Elements(z) = {zero} \union Elements(c)
                BY <1>3, <1>4, <4>1, ConsElements
            <4>3. PICK x \in Fields : x = below
                BY <1>4
            <4>4. Elements(<<x>> \o z) = {x} \union Elements(z)
                BY ConsElements
            <4>. QED  BY <4>1, <4>2, <4>3, <4>4
        <3>5. \A y \in Elements(rest') : y.name # "payload"
            BY <1>8, <2>1, <3>1, <3>2, <3>3, <3>4
        <3>. QED  BY <3>5 DEF Elements
    <2>2. pc' # "finish"
        BY <1>8
    <2>. QED  BY <2>1, <2>2 DEF Whole, PayloadReady
<1>13. Framing'
    <2>1. out' = <<>> /\ pc' \in {"deflate", "idle", "fields"}
        BY <1>1, <1>8
    <2>2. ASSUME pc' = "fields" PROVE IsFrame(rest)'
        <3>1. \/ n <= MaxPacketSize /\ rest' = <<small>> \o c
              \/ BelowSize(n) <= MaxPacketSize /\ rest' = <<below>> \o (<<zero>> \o c)
            BY <1>8, <2>2
        <3>. QED  BY <3>1 DEF IsFrame, PlainFrame, BelowFrame, small, below, zero, c, n
    <2>3. out' \o rest' = rest'
        <3>1. rest' \in Seq(Fields)
            BY <1>11 DEF Typed
        <3>. QED  BY <2>1, <3>1, ConcatEmptySeq
    <2>4. pc' = "fields" => IsFrame(out \o rest)'
        BY <2>2, <2>3 DEF IsFrame
    <2>. QED  BY <2>1, <2>4 DEF Framing
<1>14. FitsReaderBound'
    BY <1>1 DEF FitsReaderBound
<1>. QED  BY <1>10, <1>11, <1>12, <1>13, <1>14 DEF IInv

\* A slice at hand is a number of bytes.
LEMMA SliceShape ==
    ASSUME IInv, pc = "deflate"
    PROVE  /\ Slices \in Seq(Nat) /\ Len(Slices) \in Nat /\ slice \in 1..Len(Slices)
           /\ \A i \in 1..Len(Slices) : Slices[i] \in Nat
           /\ Left \in Int /\ consumed \in Nat
<1>1. Slices \in Seq(Nat) /\ Len(Slices) \in Nat
    BY SlicesShape DEF IInv, TypeOK, Slices
<1>2. \A i \in 1..Len(Slices) : Slices[i] \in Nat
    BY <1>1, ElementOfSeq
<1>3. slice \in 1..Len(Slices) /\ consumed \in Nat
    BY <1>1 DEF IInv, TypeOK, Typed
<1>. QED  BY <1>1, <1>2, <1>3 DEF Left

\* Where a slice ends: the next one, or what follows the last.
LEMMA NextSliceShape ==
    ASSUME IInv, pc = "deflate", NextSlice
    PROVE  /\ slice' \in 1..Len(Slices) /\ consumed' = 0
           /\ pc' \in {"deflate", "flush", "finish"}
           /\ flavour = "sync" => pc' # "finish"
<1>1. Len(Slices) \in Nat /\ slice \in 1..Len(Slices)
    BY SliceShape
<1>2. CASE slice < Len(Slices)
    BY <1>1, <1>2 DEF NextSlice
<1>3. CASE ~(slice < Len(Slices))
    BY <1>1, <1>3 DEF NextSlice
<1>. QED  BY <1>2, <1>3

\* The blocking writer's loop: the Vec stays long enough.
LEMMA SyncDeflateKeeps == ASSUME IInv, SyncDeflate PROVE IInv'
<1>1. PICK took \in 0..Left, gave \in 0..(length - written) :
          /\ Deflate(Left, length - written, "None", took, gave)
          /\ written' = written + gave
          /\ IF took = Left
             THEN /\ NextSlice
                  /\ length' = IF slice < Len(Slices)
                               THEN length + Maximum(2, Slices[slice + 1] \div 2)
                               ELSE IF length = written + gave
                                    THEN Maximum(2, length * 2) ELSE length
             ELSE /\ consumed' = consumed + took /\ UNCHANGED slice
                  /\ IF Left - took < 2
                     THEN pc' = "panicked" /\ UNCHANGED length
                     ELSE UNCHANGED pc /\ length' = Grow(length, written + gave, Left - took)
    BY DEF SyncDeflate
<1>2. /\ pc = "deflate" /\ flavour = "sync"
      /\ UNCHANGED <<flavour, threshold, packet, rest, out, packets, result>>
    BY DEF SyncDeflate
<1>3. /\ Len(Slices) \in Nat /\ slice \in 1..Len(Slices) /\ Left \in Int /\ consumed \in Nat
      /\ \A i \in 1..Len(Slices) : Slices[i] \in Nat
    BY <1>2, SliceShape
<1>4. length \in Nat /\ written \in Nat /\ length - written \in Nat /\ Left \in Nat /\ took \in Nat
    BY <1>3 DEF IInv, TypeOK, Typed
<1>5. raw' \in Nat /\ pending' \in Nat /\ ended' \in BOOLEAN /\ gave \in 0..(length - written)
    BY <1>1, <1>4, DeflateShape DEF IInv, TypeOK
<1>6. PICK used \in Nat : used = written + gave /\ used <= length
    <2>1. written + gave \in Nat /\ written + gave <= length
        BY <1>4, <1>5
    <2>. QED  BY <2>1
<1>7. length' \in Nat /\ used <= length'
    <2>1. \A x \in Int : Maximum(2, x) \in Nat
        BY DEF Maximum
    <2>2. CASE took = Left /\ slice < Len(Slices)
        <3>1. slice + 1 \in 1..Len(Slices)
            BY <1>3, <2>2
        <3>2. Slices[slice + 1] \div 2 \in Int
            <4>1. \A x \in Nat : x \div 2 \in Int
                OBVIOUS
            <4>. QED  BY <1>3, <3>1, <4>1
        <3>3. PICK m \in Nat : m = Maximum(2, Slices[slice + 1] \div 2)
            BY <2>1, <3>2
        <3>4. length' = length + m
            BY <1>1, <2>2, <3>3
        <3>. QED  BY <1>4, <1>6, <3>4
    <2>3. CASE took = Left /\ ~(slice < Len(Slices))
        <3>1. length' = IF length = used THEN Maximum(2, length * 2) ELSE length
            BY <1>1, <1>6, <2>3
        <3>2. \A x \in Nat : Maximum(2, x * 2) \in Nat /\ Maximum(2, x * 2) >= x
            BY DEF Maximum
        <3>3. Maximum(2, length * 2) \in Nat /\ Maximum(2, length * 2) >= length
            BY <1>4, <3>2
        <3>. QED  BY <1>4, <1>6, <3>1, <3>3
    <2>4. CASE took # Left /\ Left - took < 2
        BY <1>1, <1>4, <1>6, <2>4
    <2>5. CASE took # Left /\ ~(Left - took < 2)
        <3>1. length' = Grow(length, used, Left - took)
            BY <1>1, <1>6, <2>5
        <3>2. Guess(Left - took) \in Nat
            <4>1. \A x \in Int : Guess(x) \in Nat
                BY <2>1 DEF Guess
            <4>2. Left - took \in Int
                BY <1>4
            <4>. QED  BY <4>1, <4>2
        <3>3. length' = length \/ length' = length + Guess(Left - took)
            BY <3>1 DEF Grow
        <3>. QED  BY <1>4, <1>6, <3>2, <3>3
    <2>. QED  BY <2>2, <2>3, <2>4, <2>5
<1>8. /\ slice' \in 1..Len(Slices) /\ consumed' \in Nat
      /\ pc' \in {"deflate", "flush", "panicked"}
    <2>1. CASE took = Left
        <3>1. NextSlice
            BY <1>1, <2>1
        <3>. QED  BY <1>2, <3>1, NextSliceShape
    <2>2. CASE took # Left
        BY <1>1, <1>2, <1>3, <1>4, <2>2
    <2>. QED  BY <2>1, <2>2
<1>9. written' \in 0..length'
    BY <1>1, <1>6, <1>7
<1>10. TypeOK'
    <2>1. Slices' = Slices /\ slice' \in 0..Len(Slices)
        BY <1>2, <1>3, <1>8 DEF Slices
    <2>. QED  BY <1>2, <1>5, <1>8, <1>9, <2>1 DEF IInv, TypeOK
<1>11. Typed'
    BY <1>2, <1>3, <1>7, <1>8 DEF IInv, Typed
<1>12. Whole' /\ Framing' /\ FitsReaderBound'
    BY <1>2, <1>8 DEF IInv, Whole, PayloadReady, Framing, FitsReaderBound
<1>. QED  BY <1>10, <1>11, <1>12 DEF IInv

\* flush: what follows StreamEnd is all of the stream and nothing else.
LEMMA SyncFlushKeeps == ASSUME IInv, SyncFlush PROVE IInv'
<1>1. PICK gave \in 0..(length - written) :
          /\ Deflate(0, length - written, "Finish", 0, gave)
          /\ written' = written + gave
          /\ IF StreamEnd(pending')
             THEN pc' = "finish" /\ length' = Truncated(length, written + gave)
             ELSE UNCHANGED pc /\ length' = length * 2
    BY DEF SyncFlush
<1>2. /\ pc = "flush"
      /\ UNCHANGED <<flavour, threshold, packet, slice, consumed, rest, out, packets, result>>
    BY DEF SyncFlush
<1>3. length \in Nat /\ written \in Nat /\ length - written \in Nat
    BY DEF IInv, TypeOK, Typed
<1>4. /\ raw' \in Nat /\ pending' \in Nat /\ ended' \in BOOLEAN /\ gave \in 0..(length - written)
      /\ raw' = 0 /\ ended'
    BY <1>1, <1>3, DeflateShape DEF IInv, TypeOK
<1>5. written + gave \in Nat /\ written + gave <= length
    BY <1>3, <1>4
<1>6. length' \in Nat /\ written' \in 0..length' /\ pc' \in {"flush", "finish"}
    <2>1. CASE StreamEnd(pending')
        <3>1. length' = written + gave /\ written' = written + gave /\ pc' = "finish"
            BY <1>1, <2>1 DEF Truncated
        <3>. QED  BY <1>5, <3>1
    <2>2. CASE ~StreamEnd(pending')
        <3>1. length' = length * 2 /\ written' = written + gave /\ pc' = "flush"
            BY <1>1, <1>2, <2>2
        <3>. QED  BY <1>3, <1>5, <3>1
    <2>. QED  BY <2>1, <2>2
<1>7. TypeOK'
    BY <1>2, <1>4, <1>6 DEF IInv, TypeOK, Slices
<1>8. Typed'
    BY <1>2, <1>6 DEF IInv, Typed
<1>9. Whole'
    <2>1. pc' = "finish" => pending' = 0 /\ length' = written'
        BY <1>1, <1>2 DEF StreamEnd, Truncated
    <2>. QED  BY <1>4, <1>6, <2>1 DEF Whole, PayloadReady
<1>10. Framing' /\ FitsReaderBound'
    BY <1>2, <1>6 DEF IInv, Framing, FitsReaderBound
<1>. QED  BY <1>7, <1>8, <1>9, <1>10 DEF IInv

\* The async writer's loop.
LEMMA AsyncDeflateKeeps == ASSUME IInv, AsyncDeflate PROVE IInv'
<1>1. PICK took \in 0..Left, gave \in 0..AsyncBuf :
          /\ Deflate(Left, AsyncBuf, "Sync", took, gave)
          /\ written' = written + gave /\ length' = written + gave
          /\ IF took = Left THEN NextSlice
             ELSE consumed' = consumed + took /\ UNCHANGED <<slice, pc>>
    BY DEF AsyncDeflate
<1>2. /\ pc = "deflate" /\ flavour = "async"
      /\ UNCHANGED <<flavour, threshold, packet, rest, out, packets, result>>
    BY DEF AsyncDeflate
<1>3. /\ Len(Slices) \in Nat /\ slice \in 1..Len(Slices) /\ Left \in Int /\ consumed \in Nat
    BY <1>2, SliceShape
<1>4. written \in Nat /\ AsyncBuf \in Nat /\ Left \in Nat /\ took \in Nat
    BY <1>3, SizesAssumption DEF IInv, TypeOK, Typed
<1>5. raw' \in Nat /\ pending' \in Nat /\ ended' \in BOOLEAN /\ gave \in 0..AsyncBuf
    BY <1>1, <1>4, DeflateShape DEF IInv, TypeOK
<1>6. length' \in Nat /\ written' \in 0..length'
    BY <1>1, <1>4, <1>5
<1>7. /\ slice' \in 1..Len(Slices) /\ consumed' \in Nat
      /\ pc' \in {"deflate", "flush", "finish"}
    <2>1. CASE took = Left
        <3>1. NextSlice
            BY <1>1, <2>1
        <3>. QED  BY <1>2, <3>1, NextSliceShape
    <2>2. CASE took # Left
        BY <1>1, <1>2, <1>3, <1>4, <2>2
    <2>. QED  BY <2>1, <2>2
<1>8. TypeOK'
    <2>1. Slices' = Slices /\ slice' \in 0..Len(Slices)
        BY <1>2, <1>3, <1>7 DEF Slices
    <2>. QED  BY <1>2, <1>5, <1>6, <1>7, <2>1 DEF IInv, TypeOK
<1>9. Typed'
    BY <1>2, <1>3, <1>6, <1>7 DEF IInv, Typed
<1>10. Whole' /\ Framing' /\ FitsReaderBound'
    BY <1>2, <1>7 DEF IInv, Whole, PayloadReady, Framing, FitsReaderBound
<1>. QED  BY <1>8, <1>9, <1>10 DEF IInv

\* The frame of a compressed packet, as a list.
LEMMA TripleConcat ==
    ASSUME NEW S, NEW x \in S, NEW y \in S, NEW z \in S
    PROVE  <<x, y, z>> = <<x>> \o (<<y>> \o (<<z>> \o <<>>))
<1>1. <<>> \in Seq(S) /\ <<z>> \in Seq(S)
    OBVIOUS
<1>2. <<z>> \o <<>> = <<z>>
    BY <1>1, ConcatEmptySeq
<1>3. <<x>> \o (<<y>> \o <<z>>) = <<x, y>> \o <<z>>
    <2>. DEFINE g == <<z>>
    <2>1. g \in Seq(S)
        BY <1>1
    <2>. HIDE DEF g
    <2>2. <<x>> \o (<<y>> \o g) = <<x, y>> \o g
        BY <2>1, PairConcat
    <2>. QED  BY <2>2 DEF g
<1>4. <<x, y>> \o <<z>> = <<x, y, z>>
    <2>. DEFINE f == <<x, y>> \o <<z>>
                t == <<x, y, z>>
    <2>1. <<x, y>> \in Seq(S) /\ Len(<<x, y>>) = 2 /\ Len(<<z>>) = 1
        OBVIOUS
    <2>2. f \in Seq(S) /\ Len(f) = 3
        BY <1>1, <2>1, ConcatProperties
    <2>3. \A i \in 1..3 : f[i] = IF i <= 2 THEN <<x, y>>[i] ELSE <<z>>[i - 2]
        BY <1>1, <2>1, ConcatProperties
    <2>4. f[1] = x /\ f[2] = y /\ f[3] = z
        BY <2>3
    <2>. HIDE DEF f
    <2>5. t \in Seq(S) /\ Len(t) = 3 /\ t[1] = x /\ t[2] = y /\ t[3] = z
        OBVIOUS
    <2>. HIDE DEF t
    <2>6. \A i \in 1..3 : i = 1 \/ i = 2 \/ i = 3
        OBVIOUS
    <2>7. \A i \in 1..3 : f[i] = t[i]
        BY <2>4, <2>5, <2>6, Zenon
    <2>8. f = t
        BY <2>2, <2>5, <2>7, SeqEqual
    <2>. QED  BY <2>8 DEF f, t
<1>. QED  BY <1>2, <1>3, <1>4

\* finish: the frame of a compressed packet, or a refusal before the first byte.
LEMMA FinishKeeps == ASSUME IInv, Finish PROVE IInv'
<1>. DEFINE n == Uncompressed
            x == VarIntField("length", CompressedSize(n))
            z == VarIntField("data_length", n)
            p == BytesField("payload", length)
<1>1. /\ pc = "finish" /\ out = <<>>
      /\ UNCHANGED <<flavour, threshold, packet, slice, consumed, compressor, cache, out, packets>>
    BY DEF IInv, Framing, Finish
<1>2. n \in Nat /\ length \in Nat
    BY SlicesShape DEF IInv, TypeOK, Typed, Uncompressed
<1>3. CompressedSize(n) \in Nat
    <2>. HIDE DEF n
    <2>1. VarIntSize(n) \in Nat
        BY <1>2, VarIntSizeShape
    <2>. QED  BY <1>2, <2>1 DEF CompressedSize
<1>4. x \in Fields /\ z \in Fields /\ p \in Fields
    <2>. HIDE DEF n
    <2>. QED  BY <1>2, <1>3, FieldShape
<1>5. \/ pc' = "idle" /\ result' = "oversized" /\ rest' = rest
      \/ /\ CompressedSize(n) <= MaxPacketSize /\ result' = result
         /\ pc' = "fields" /\ rest' = <<x, z, p>>
    <2>1. MaxPacketSize \in Int
        <3>1. Power[3] = Base * Base * Base /\ Base \in Nat
            BY SizesAssumption DEF Power
        <3>. QED  BY <3>1 DEF MaxPacketSize
    <2>2. \A y \in Nat : ~(y > MaxPacketSize) => y <= MaxPacketSize
        BY <2>1
    <2>3. ~(CompressedSize(n) > MaxPacketSize) => CompressedSize(n) <= MaxPacketSize
        BY <1>3, <2>2
    <2>4. \/ Refuse
          \/ ~(CompressedSize(n) > MaxPacketSize) /\ Frame(<<x, z, p>>)
        BY DEF Finish
    <2>. HIDE DEF n, x, z, p
    <2>. QED  BY <2>3, <2>4 DEF Refuse, Frame
<1>6. <<x, z, p>> = <<x>> \o (<<z>> \o (<<p>> \o <<>>))
    <2>. HIDE DEF n, x, z, p
    <2>. QED  BY <1>4, TripleConcat
<1>7. <<x, z, p>> \in Seq(Fields)
    <2>. HIDE DEF n, x, z, p
    <2>. QED  BY <1>4
<1>8. ASSUME pc' = "fields" PROVE IsFrame(rest)'
    <2>1. CompressedSize(n) <= MaxPacketSize /\ rest' = <<x>> \o (<<z>> \o (<<p>> \o <<>>))
        BY <1>5, <1>6, <1>8
    <2>. QED  BY <1>1, <2>1 DEF IsFrame, CompressedFrame, CompressedSize, Uncompressed, cache
<1>. HIDE DEF n, x, z, p
<1>9. TypeOK'
    <2>1. pc' \in {"idle", "fields"} /\ result' \in {"ok", "oversized", "not_started", "stream_error"}
        BY <1>5 DEF IInv, TypeOK
    <2>. QED  BY <1>1, <2>1 DEF IInv, TypeOK, Slices, compressor, cache
<1>10. Typed'
    BY <1>1, <1>5, <1>7 DEF IInv, Typed, cache
<1>11. Whole'
    BY <1>1 DEF IInv, Whole, compressor, cache
<1>12. Framing'
    <2>1. out' \o rest' = rest'
        BY <1>1, <1>10, ConcatEmptySeq DEF Typed
    <2>2. pc' = "fields" => IsFrame(out \o rest)'
        BY <1>8, <2>1 DEF IsFrame
    <2>. QED  BY <1>1, <1>5, <2>2 DEF Framing
<1>13. FitsReaderBound'
    BY <1>1 DEF FitsReaderBound
<1>. QED  BY <1>9, <1>10, <1>11, <1>12, <1>13 DEF IInv

\* A failure before the first byte leaves the stream at a frame's end.
LEMMA PreCompressionFailsKeeps == ASSUME IInv, PreCompressionFails PROVE IInv'
<1>1. (TypeOK /\ Typed /\ Whole /\ FitsReaderBound)'
    BY DEF IInv, PreCompressionFails, compressor, cache, TypeOK, Slices, Typed, Whole,
           PayloadReady, FitsReaderBound
<1>2. Framing'
    BY DEF IInv, PreCompressionFails, Framing
<1>. QED  BY <1>1, <1>2 DEF IInv

\* A frame is one of the packet and of the payload's length.
LEMMA FrameOfPacket ==
    ASSUME UNCHANGED <<packet, length>>
    PROVE  /\ UNCHANGED <<PlainFrame, BelowFrame, CompressedFrame, Uncompressed>>
           /\ UNCHANGED CompressedSize(Uncompressed)
BY DEF PlainFrame, BelowFrame, CompressedFrame, CompressedSize, Uncompressed, Content, Slices

\* A field moves from what is left to what is written.
LEMMA FieldMoves ==
    ASSUME NEW S, NEW f \in Seq(S), NEW g \in Seq(S), g # <<>>
    PROVE  /\ Append(f, Head(g)) \in Seq(S) /\ Tail(g) \in Seq(S)
           /\ Append(f, Head(g)) \o Tail(g) = f \o g
           /\ Append(f, Head(g)) # <<>> /\ Append(f, Head(g))[1] = (f \o g)[1]
           /\ \A i \in DOMAIN Tail(g) : \E j \in DOMAIN g : Tail(g)[i] = g[j]
<1>. DEFINE x == Head(g)
            t == Tail(g)
            e == <<x>>
<1>1. /\ x \in S /\ t \in Seq(S) /\ Len(t) = Len(g) - 1
      /\ \A i \in 1..Len(t) : t[i] = g[i + 1]
    BY HeadTailProperties
<1>2. g = e \o t
    BY HeadTailProperties, ConcatProperties
<1>3. Append(f, x) = f \o e
    BY <1>1, AppendIsConcat
<1>4. e \in Seq(S) /\ Len(e) = 1
    BY <1>1
<1>5. (f \o e) \o t = f \o g
    <2>. HIDE DEF e, t, x
    <2>1. PICK r1 \in Seq(S), r2 \in Seq(S) : r1 = e /\ r2 = t
        BY <1>1, <1>4
    <2>2. (f \o r1) \o r2 = f \o (r1 \o r2)
        BY ConcatAssociative
    <2>. QED  BY <1>2, <2>1, <2>2
<1>6. f \o e \in Seq(S) /\ f \o e # <<>> /\ 1 \in 1..Len(f \o e)
    <2>. HIDE DEF e
    <2>1. Len(f) \in Nat
        BY LenProperties
    <2>2. f \o e \in Seq(S) /\ Len(f \o e) = Len(f) + Len(e)
        BY <1>4, ConcatProperties
    <2>. QED  BY <1>4, <2>1, <2>2, EmptySeq
<1>7. (f \o e)[1] = ((f \o e) \o t)[1]
    <2>. HIDE DEF e, t
    <2>. DEFINE a == f \o e
    <2>1. a \in Seq(S) /\ Len(a) \in Nat /\ 1 <= Len(a) /\ Len(t) \in Nat
        BY <1>1, <1>6, LenProperties
    <2>. HIDE DEF a
    <2>2. \A i \in 1..Len(a) + Len(t) : (a \o t)[i] = IF i <= Len(a) THEN a[i] ELSE t[i - Len(a)]
        BY <1>1, <2>1, ConcatProperties
    <2>3. 1 \in 1..Len(a) + Len(t)
        BY <2>1
    <2>. QED  BY <2>1, <2>2, <2>3 DEF a
<1>8. \A i \in DOMAIN t : \E j \in DOMAIN g : t[i] = g[j]
    <2>. SUFFICES ASSUME NEW i \in DOMAIN t PROVE \E j \in DOMAIN g : t[i] = g[j]
        OBVIOUS
    <2>1. DOMAIN t = 1..Len(t) /\ DOMAIN g = 1..Len(g) /\ Len(g) \in Nat /\ Len(t) \in Nat
        BY <1>1, LenProperties
    <2>2. t[i] = g[i + 1]
        BY <1>1, <2>1
    <2>3. i + 1 \in DOMAIN g
        BY <1>1, <2>1
    <2>. QED  BY <2>2, <2>3
<1>. HIDE DEF e, t, x
<1>9. /\ Append(f, x) \in Seq(S) /\ t \in Seq(S) /\ Append(f, x) \o t = f \o g
      /\ Append(f, x) # <<>> /\ Append(f, x)[1] = (f \o g)[1]
      /\ \A i \in DOMAIN t : \E j \in DOMAIN g : t[i] = g[j]
    BY <1>1, <1>3, <1>5, <1>6, <1>7, <1>8
<1>. QED  BY <1>9 DEF x, t

\* A field is written: the frame stays the one it was.
LEMMA WriteFieldKeeps == ASSUME IInv, WriteField PROVE IInv'
<1>1. /\ pc = "fields" /\ rest # <<>> /\ out' = Append(out, Head(rest)) /\ rest' = Tail(rest)
      /\ UNCHANGED <<flavour, threshold, packet, pc, slice, consumed, raw, pending, ended,
                     length, written, packets, result>>
    BY DEF WriteField, compressor, cache
<1>2. out \in Seq(Fields) /\ rest \in Seq(Fields) /\ length \in Nat /\ packet \in Packets
    BY DEF IInv, TypeOK, Typed
<1>3. /\ out' \in Seq(Fields) /\ rest' \in Seq(Fields) /\ out' \o rest' = out \o rest
      /\ out' # <<>> /\ out'[1] = (out \o rest)[1]
      /\ \A i \in DOMAIN rest' : \E j \in DOMAIN rest : rest'[i] = rest[j]
    BY <1>1, <1>2, FieldMoves, SMTT(30)
<1>4. IsFrame(out \o rest)
    BY <1>1 DEF IInv, Framing
<1>5. (TypeOK /\ Typed)'
    BY <1>1, <1>3 DEF IInv, TypeOK, Slices, Typed
<1>6. Whole'
    <2>1. PayloadReady' => PayloadReady
        BY <1>1, <1>3 DEF PayloadReady
    <2>. QED  BY <1>1, <2>1 DEF IInv, Whole
<1>7. Framing'
    <2>1. IsFrame(out \o rest)'
        BY <1>1, <1>3, <1>4, FrameOfPacket DEF IsFrame
    <2>. QED  BY <1>1, <2>1 DEF Framing
<1>8. FitsReaderBound'
    <2>1. Exact(out \o rest)
        BY <1>2, <1>4, FramesAreExact
    <2>2. out'[1].len <= 3
        BY <1>3, <2>1 DEF Exact
    <2>. QED  BY <1>1, <2>2 DEF FitsReaderBound
<1>. QED  BY <1>5, <1>6, <1>7, <1>8 DEF IInv

\* Ok is returned when all of the frame is written.
LEMMA FlushStreamKeeps == ASSUME IInv, FlushStream PROVE IInv'
<1>1. /\ pc = "fields" /\ rest = <<>> /\ pc' = "idle" /\ result' = "ok"
      /\ UNCHANGED <<flavour, threshold, packet, slice, consumed, raw, pending, ended,
                     length, written, rest, out, packets>>
    BY DEF FlushStream, compressor, cache
<1>2. (TypeOK /\ Typed /\ Whole /\ FitsReaderBound)'
    BY <1>1 DEF IInv, TypeOK, Slices, Typed, Whole, PayloadReady, FitsReaderBound
<1>3. Framing'
    <2>1. out \o rest = out
        BY <1>1, ConcatEmptySeq DEF IInv, Typed
    <2>2. IsFrame(out)
        BY <1>1, <2>1 DEF IInv, Framing
    <2>3. IsFrame(out)'
        BY <1>1, <2>2, FrameOfPacket DEF IsFrame
    <2>. QED  BY <1>1, <2>3 DEF Framing
<1>. QED  BY <1>2, <1>3 DEF IInv

\* The stream fails: no other packet is written.
LEMMA StreamFailsKeeps == ASSUME IInv, StreamFails PROVE IInv'
BY DEF IInv, StreamFails, compressor, cache, TypeOK, Slices, Typed, Whole, PayloadReady,
       Framing, FitsReaderBound

\* Nothing happens.
LEMMA StutterKeeps == ASSUME IInv, UNCHANGED vars PROVE IInv'
<1>1. UNCHANGED <<flavour, threshold, packet, pc, slice, consumed, raw, pending, ended,
                  length, written, rest, out, packets, result>>
    BY DEF vars, compressor, cache
<1>2. (TypeOK /\ Typed /\ Whole /\ FitsReaderBound)'
    BY <1>1 DEF IInv, TypeOK, Slices, Typed, Whole, PayloadReady, FitsReaderBound
<1>3. Framing'
    BY <1>1, FrameOfPacket DEF IInv, Framing, IsFrame
<1>. QED  BY <1>2, <1>3 DEF IInv

\* Every step of the specification preserves the inductive invariant.
LEMMA StepKeeps == IInv /\ [Next]_vars => IInv'
<1>. SUFFICES ASSUME IInv, [Next]_vars PROVE IInv'
    OBVIOUS
<1>1. CASE SetThreshold
    BY <1>1, SetThresholdKeeps
<1>2. CASE WritePacket
    BY <1>2, WritePacketKeeps
<1>3. CASE SyncDeflate
    BY <1>3, SyncDeflateKeeps
<1>4. CASE SyncFlush
    BY <1>4, SyncFlushKeeps
<1>5. CASE AsyncDeflate
    BY <1>5, AsyncDeflateKeeps
<1>6. CASE Finish
    BY <1>6, FinishKeeps
<1>7. CASE PreCompressionFails
    BY <1>7, PreCompressionFailsKeeps
<1>8. CASE WriteField
    BY <1>8, WriteFieldKeeps
<1>9. CASE FlushStream
    BY <1>9, FlushStreamKeeps
<1>10. CASE StreamFails
    BY <1>10, StreamFailsKeeps
<1>11. CASE UNCHANGED vars
    BY <1>11, StutterKeeps
<1>. QED
    BY <1>1, <1>2, <1>3, <1>4, <1>5, <1>6, <1>7, <1>8, <1>9, <1>10, <1>11 DEF Next

-----------------------------------------------------------------------------
(* The theorems. *)

\* The inductive invariant holds in every reachable state.
THEOREM Invariance == Spec => []IInv
BY InitHolds, StepKeeps, PTL DEF Spec

\* Type correctness of write_packet_internal and its compression writers: the
\* slice `&mut self.buffer[self.written..]` is in bounds at every call of deflate.
THEOREM TypeCorrect == Spec => []TypeOK
<1>1. IInv => TypeOK
    BY DEF IInv
<1>. QED  BY <1>1, Invariance, PTL

\* The blocking writer's payload is what deflate made of the whole packet,
\* however deflate splits what it takes and gives: flush leaves nothing in the
\* compressor and no spare bytes in the Vec.
THEOREM PayloadIsWhole == Spec => []SyncPayloadWhole
<1>1. IInv => SyncPayloadWhole
    BY DEF IInv, Whole, SyncPayloadWhole, PayloadWhole
<1>. QED  BY <1>1, Invariance, PTL

\* The limits of write_packet_internal's three branches keep the length field of
\* every frame within the three bytes read_packet allows, and a packet is refused
\* before its first byte.
THEOREM FitsTheReader == Spec => []FitsReaderBound
<1>1. IInv => FitsReaderBound
    BY DEF IInv
<1>. QED  BY <1>1, Invariance, PTL

\* A packet write_packet_internal returns Ok for is a frame as read_packet takes
\* it apart: its length counts every byte after it, data_length is 0 before the
\* whole of the plain content and the size before compression otherwise.
THEOREM FramesAreWhole == Spec => []FrameExact
<1>1. IInv => FrameExact
    <2>. SUFFICES ASSUME IInv, pc = "idle", result = "ok", out # <<>>
                  PROVE  /\ out[1].name = "length" /\ out[1].val = Bytes(Tail(out))
                         /\ \A i \in Named("data_length") :
                                out[i].val = IF Named("payload") = {} THEN 0 ELSE Uncompressed
                         /\ IF Named("payload") = {}
                            THEN ContentBytes = Uncompressed
                            ELSE Named("content") = {}
        BY DEF FrameExact
    <2>1. Exact(out)
        <3>1. IsFrame(out) /\ packet \in Packets /\ length \in Nat
            BY DEF IInv, TypeOK, Typed, Framing
        <3>. QED  BY <3>1, FramesAreExact
    <2>2. \A i \in DOMAIN out : out[i] \in Elements(out)
        BY DEF Elements
    <2>3. ContentBytes = ContentOf(out)
        BY DEF ContentBytes, ContentOf, ContentLen
    <2>4. CASE /\ \A y \in Elements(out) :
                      y.name # "payload" /\ (y.name = "data_length" => y.val = 0)
               /\ ContentOf(out) = Uncompressed
        <3>1. Named("payload") = {}
            BY <2>2, <2>4 DEF Named
        <3>2. \A i \in Named("data_length") : out[i].val = 0
            BY <2>2, <2>4 DEF Named
        <3>. QED  BY <2>1, <2>3, <2>4, <3>1, <3>2 DEF Exact
    <2>5. CASE /\ \E y \in Elements(out) : y.name = "payload"
               /\ \A y \in Elements(out) : /\ y.name # "content"
                                           /\ y.name = "data_length" => y.val = Uncompressed
        <3>1. Named("payload") # {}
            BY <2>5 DEF Named, Elements
        <3>2. Named("content") = {} /\ \A i \in Named("data_length") : out[i].val = Uncompressed
            BY <2>2, <2>5 DEF Named
        <3>. QED  BY <2>1, <3>1, <3>2 DEF Exact
    <2>. QED  BY <2>1, <2>4, <2>5 DEF Exact
<1>. QED  BY <1>1, Invariance, PTL

-----------------------------------------------------------------------------
(***************************************************************************)
(* The extent of the payload that is cut: with slices that fit the array   *)
(* of the asynchronous writer, its payload is whole as well.               *)
(***************************************************************************)

\* What deflate makes of a slice, at most one byte longer than it, leaves room
\* in the array.
SlicesFit ==
    \A p \in Packets :
        /\ p.id + 1 < AsyncBuf
        /\ \A i \in 1..Len(p.slices) : p.slices[i] + 1 < AsyncBuf

\* Between two slices, and from the last one on, the compressor is empty.
AsyncWhole ==
    flavour = "async" =>
        /\ pc = "deflate" => consumed = 0 /\ raw = 0 /\ pending = 0
        /\ pc # "flush"
        /\ pc = "finish" \/ PayloadReady => raw = 0 /\ pending = 0 /\ length = written

\* A call of deflate on an empty compressor with more room than the slice can
\* take up: it takes all of the slice and keeps nothing.
LEMMA DeflateTakesAll ==
    ASSUME raw = 0, pending = 0, NEW n \in Nat, NEW room \in Nat, n + 1 < room,
           NEW took, NEW gave, Deflate(n, room, "Sync", took, gave)
    PROVE  took = n /\ raw' = 0 /\ pending' = 0
<1>1. took \in 0..n /\ (gave < room => took = n)
    BY DEF Deflate
<1>2. PICK e \in {0, raw + took}, trailer \in {0, 1} :
          /\ "Sync" # "None" /\ took = n => e = raw + took
          /\ trailer = IF "Sync" = "Finish" /\ took = n /\ ~ended THEN 1 ELSE 0
          /\ \E new \in Encodings(e) :
                 /\ gave = Minimum(room, pending + new + trailer)
                 /\ pending' = pending + new + trailer - gave
          /\ raw' = raw + took - e
    BY DEF Deflate
<1>3. PICK new \in Encodings(e) :
          /\ gave = Minimum(room, pending + new + trailer)
          /\ pending' = pending + new + trailer - gave
    BY <1>2
<1>4. trailer = 0
    BY <1>2
<1>5. e \in Nat /\ e <= n
    BY <1>1, <1>2
<1>6. new \in Nat /\ new < room
    BY <1>5 DEF Encodings
<1>7. pending + new + trailer = new
    BY <1>4, <1>6
<1>8. gave = new
    BY <1>3, <1>6, <1>7 DEF Minimum
<1>9. took = n
    BY <1>1, <1>6, <1>8
<1>10. pending' = 0
    BY <1>3, <1>6, <1>7, <1>8
<1>11. e = took
    BY <1>1, <1>2, <1>9
<1>. QED  BY <1>1, <1>2, <1>9, <1>10, <1>11

\* The slice at hand is one that fits.
LEMMA SliceFits ==
    ASSUME SlicesFit, IInv, pc = "deflate"
    PROVE  Slices[slice] \in Nat /\ Slices[slice] + 1 < AsyncBuf
<1>1. /\ slice \in 1..Len(Slices) /\ Slices[slice] \in Nat /\ packet \in Packets
    BY SliceShape DEF IInv, TypeOK
<1>2. packet.id \in Nat /\ packet.slices \in Seq(Nat) /\ Len(packet.slices) \in Nat
    BY <1>1, PacketAssumption, LenProperties
<1>3. PICK one \in Seq(Nat) : one = <<packet.id>> /\ Len(one) = 1 /\ one[1] = packet.id
    <2>1. <<packet.id>> \in Seq(Nat) /\ Len(<<packet.id>>) = 1 /\ <<packet.id>>[1] = packet.id
        BY <1>2
    <2>. QED  BY <2>1
<1>4. /\ Len(one \o packet.slices) = 1 + Len(packet.slices)
      /\ \A i \in 1..1 + Len(packet.slices) :
            (one \o packet.slices)[i] = IF i <= 1 THEN one[i] ELSE packet.slices[i - 1]
    BY <1>2, <1>3, ConcatProperties
<1>5. Slices = one \o packet.slices
    BY <1>3 DEF Slices
<1>6. slice \in 1..1 + Len(packet.slices)
    BY <1>1, <1>4, <1>5
<1>7. CASE slice = 1
    <2>1. Slices[slice] = packet.id
        BY <1>3, <1>4, <1>5, <1>6, <1>7
    <2>. QED  BY <1>1, <2>1 DEF SlicesFit
<1>8. CASE slice # 1
    <2>1. slice - 1 \in 1..Len(packet.slices)
        BY <1>2, <1>6, <1>8
    <2>2. Slices[slice] = packet.slices[slice - 1]
        BY <1>4, <1>5, <1>6, <1>8
    <2>. QED  BY <1>1, <2>1, <2>2 DEF SlicesFit
<1>. QED  BY <1>7, <1>8

\* AsyncDeflate: one call a slice, and nothing behind it.
LEMMA AsyncDeflateTakesAll ==
    ASSUME SlicesFit, IInv, AsyncWhole, AsyncDeflate
    PROVE  AsyncWhole'
<1>1. /\ pc = "deflate" /\ flavour = "async" /\ UNCHANGED <<flavour, rest>>
      /\ consumed = 0 /\ raw = 0 /\ pending = 0
    BY DEF AsyncDeflate, AsyncWhole
<1>2. PICK took \in 0..Left, gave \in 0..AsyncBuf :
          /\ Deflate(Left, AsyncBuf, "Sync", took, gave)
          /\ written' = written + gave /\ length' = written + gave
          /\ IF took = Left THEN NextSlice
             ELSE consumed' = consumed + took /\ UNCHANGED <<slice, pc>>
    BY DEF AsyncDeflate
<1>3. Left \in Nat /\ Left + 1 < AsyncBuf /\ AsyncBuf \in Nat
    BY <1>1, SliceFits, SizesAssumption DEF Left
<1>4. took = Left /\ raw' = 0 /\ pending' = 0
    BY <1>1, <1>2, <1>3, DeflateTakesAll
<1>5. consumed' = 0 /\ pc' # "flush"
    BY <1>1, <1>2, <1>4 DEF NextSlice
<1>. QED  BY <1>2, <1>4, <1>5 DEF AsyncWhole

\* The other actions: deflate starts empty, and what follows it leaves the
\* compressor and its Vec alone.
LEMMA AsyncWholeKept ==
    ASSUME SlicesFit
    PROVE  IInv /\ AsyncWhole /\ [Next]_vars => AsyncWhole'
<1>. SUFFICES ASSUME IInv, AsyncWhole, [Next]_vars PROVE AsyncWhole'
    OBVIOUS
<1>1. CASE SetThreshold
    BY <1>1 DEF SetThreshold, compressor, cache, AsyncWhole, PayloadReady
<1>2. CASE WritePacket
    <2>1. ~PayloadReady' /\ pc' # "finish"
        BY <1>2, WritePacketKeeps
    <2>2. /\ consumed' = 0 /\ pc' # "flush"
          /\ pc' = "deflate" => raw' = 0 /\ pending' = 0
        BY <1>2 DEF WritePacket, Fresh, Refuse, Frame
    <2>. QED  BY <2>1, <2>2 DEF AsyncWhole
<1>3. CASE SyncDeflate
    BY <1>3 DEF SyncDeflate, AsyncWhole
<1>4. CASE SyncFlush
    BY <1>4 DEF SyncFlush, AsyncWhole
<1>5. CASE AsyncDeflate
    BY <1>5, AsyncDeflateTakesAll
<1>6. CASE Finish
    BY <1>6 DEF Finish, Refuse, Frame, compressor, cache, AsyncWhole
<1>7. CASE PreCompressionFails
    BY <1>7 DEF PreCompressionFails, compressor, cache, AsyncWhole, PayloadReady
<1>8. CASE WriteField
    <2>1. /\ rest # <<>> /\ rest' = Tail(rest) /\ rest \in Seq(Fields) /\ out \in Seq(Fields)
          /\ pc = "fields"
          /\ UNCHANGED <<flavour, pc, consumed, raw, pending, length, written>>
        BY <1>8 DEF WriteField, compressor, cache, IInv, Typed
    <2>2. \A i \in DOMAIN rest' : \E j \in DOMAIN rest : rest'[i] = rest[j]
        BY <2>1, FieldMoves, SMTT(30)
    <2>3. PayloadReady' => PayloadReady
        BY <2>1, <2>2 DEF PayloadReady
    <2>. QED  BY <2>1, <2>3 DEF AsyncWhole
<1>9. CASE FlushStream
    BY <1>9 DEF FlushStream, AsyncWhole, PayloadReady
<1>10. CASE StreamFails
    BY <1>10 DEF StreamFails, AsyncWhole, PayloadReady
<1>11. CASE UNCHANGED vars
    BY <1>11 DEF vars, compressor, cache, AsyncWhole, PayloadReady
<1>. QED
    BY <1>1, <1>2, <1>3, <1>4, <1>5, <1>6, <1>7, <1>8, <1>9, <1>10, <1>11 DEF Next

\* Both writers hand on all that deflate made of the packet, as long as the
\* asynchronous one is never given a slice that fills its array: a payload
\* is cut only behind such a slice.
THEOREM FittingPayloadIsWhole ==
    ASSUME SlicesFit
    PROVE  Spec => []PayloadWhole
<1>1. Init => AsyncWhole
    BY DEF Init, AsyncWhole, PayloadReady
<1>2. IInv /\ AsyncWhole /\ [Next]_vars => AsyncWhole'
    BY AsyncWholeKept
<1>3. IInv /\ AsyncWhole => PayloadWhole
    <2>1. IInv => flavour \in {"sync", "async"}
        BY PacketAssumption DEF IInv, TypeOK
    <2>. QED  BY <2>1 DEF IInv, Whole, AsyncWhole, PayloadWhole
<1>. QED  BY Invariance, <1>1, <1>2, <1>3, PTL DEF Spec
=============================================================================
