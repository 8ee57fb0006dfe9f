---------------------------- MODULE PacketsProofs ---------------------------
(***************************************************************************)
(* What an end writes the end opposite reads as the same packet, for any   *)
(* versions, tables of any length and any ids - as long as no table gives  *)
(* two packets one id - and VarInts of any width, and its payload as the   *)
(* same value.  First that an id finds its line again, then the loops of   *)
(* the VarInt; the payload is that of PrimitivesProofs.                    *)
(*                                                                         *)
(* The loops are about digits in base 2^Segment, of which the provers know *)
(* nothing: that the powers of two add their exponents and enclose every   *)
(* number is proved first, by induction over sets of numbers.              *)
(***************************************************************************)
EXTENDS Packets, PrimitivesProofs, Integers, TLAPS, NaturalsInduction, WellFoundedInduction,
        SequenceTheorems

\* What the tables must be for their ids to say which packet is meant: gaps
\* and any order will do, an id that stands twice will not.
IdsAreDistinct ==
    \A v \in Versions, state \in Tabled, bound \in Bounds :
        \A m, n \in 1..Len(Ids[v][state][bound]) :
            Ids[v][state][bound][m] = Ids[v][state][bound][n] => m = n

\* The states an end writes packets in have tables, whose lines have ids.
LEMMA TableIds ==
    ASSUME NEW v \in Versions, NEW state \in Tabled, NEW bound \in Bounds
    PROVE  /\ IdsIn(v, state, bound) = Ids[v][state][bound]
           /\ Ids[v][state][bound] \in Seq(Nat)
BY TablesAssumption DEF IdsIn, Tabled

\* What build_protocol! writes for one end it reads for the other: write_packet's
\* `reciprocal` of a state is what the opposite end's state reads.
LEMMA WritesIsPeerReads ==
    ASSUME NEW side \in Sides
    PROVE  Writes(side) = Reads(Peer(side)) /\ Writes(side) \in Bounds /\ Peer(side) \in Sides
BY DEF Writes, Reads, Peer, Sides, Bounds

\* designator_from_id undoes id where no id stands twice: a packet an end may
\* write in a state is the one the opposite end's match comes to by its id.
LEMMA DesignatorsMeet ==
    ASSUME IdsAreDistinct,
           NEW v \in Versions, NEW state \in States, NEW side \in Sides,
           NEW d \in Writable(v, state, side)
    PROVE  DesignatorFromId(v, state, Peer(side), Id(v, d)) = d
<1>1. state \in Tabled /\ Writes(side) \in Bounds
    BY WritesIsPeerReads DEF Writable, States
<1>2. PICK ids \in Seq(Nat) :
          ids = IdsIn(v, state, Writes(side)) /\ ids = Ids[v][state][Writes(side)]
    BY <1>1, TableIds
<1>3. PICK n \in 1..Len(ids) : d = Designator(state, Writes(side), n)
    BY <1>1, <1>2 DEF Writable, Designators, Tabled
<1>4. Id(v, d) = ids[n]
    BY <1>2, <1>3 DEF Id, Designator
<1>5. Arms(ids, Id(v, d)) = {n}
    <2>1. \A m \in 1..Len(ids) : ids[m] = ids[n] => m = n
        BY <1>1, <1>2 DEF IdsAreDistinct
    <2>. QED  BY <1>4, <2>1 DEF Arms
<1>6. FirstOf({n}) = n
    BY DEF FirstOf
<1>. QED
    BY <1>2, <1>3, <1>5, <1>6, WritesIsPeerReads DEF DesignatorFromId

-----------------------------------------------------------------------------
\* The powers of two start at 1, double and are never 0.
LEMMA Powers ==
    /\ Power[0] = 1
    /\ \A n \in Nat : Power[n] \in Nat /\ Power[n] >= 1 /\ Power[n + 1] = 2 * Power[n]
<1>1. \E f : f = [n \in Nat |-> IF n = 0 THEN 1 ELSE 2 * f[n - 1]]
    BY PowersExist
<1>2. Power = [n \in Nat |-> IF n = 0 THEN 1 ELSE 2 * Power[n - 1]]
    BY <1>1 DEF Power
<1>. QED  BY <1>2, PowersOf

\* A shift by a + b is one by a and one by b.
LEMMA PowerSum == \A a, b \in Nat : Power[a + b] = Power[a] * Power[b]
<1>. TAKE a \in Nat
<1>. DEFINE S == {b \in Nat : Power[a + b] = Power[a] * Power[b]}
<1>1. 0 \in S
    BY Powers
<1>2. ASSUME NEW b \in Nat, b \in S PROVE b + 1 \in S
  <2>1. Power[a + (b + 1)] = 2 * Power[a + b]
    <3>1. a + b \in Nat /\ a + (b + 1) = (a + b) + 1
        OBVIOUS
    <3>. QED  BY <3>1, Powers
  <2>2. Power[b + 1] = 2 * Power[b] /\ Power[a] \in Nat /\ Power[b] \in Nat
    BY Powers
  <2>3. Power[a + b] = Power[a] * Power[b]
    BY <1>2
  <2>4. 2 * (Power[a] * Power[b]) = Power[a] * (2 * Power[b])
    BY <2>2
  <2>. QED  BY <2>1, <2>2, <2>3, <2>4
<1>. HIDE DEF S
<1>3. \A b \in Nat : b \in S
    BY <1>1, <1>2, Induction
<1>. QED  BY <1>3 DEF S

\* A larger shift never counts for less.
LEMMA PowerGrows == \A a, b \in Nat : a <= b => Power[a] <= Power[b]
<1>. TAKE a, b \in Nat
<1>. HAVE a <= b
<1>1. b - a \in Nat /\ b = a + (b - a)
    OBVIOUS
<1>2. Power[b] = Power[a] * Power[b - a]
    BY <1>1, PowerSum
<1>3. Power[a] \in Nat /\ Power[b - a] \in Nat /\ Power[b - a] >= 1
    BY <1>1, Powers
<1>4. Power[a] * Power[b - a] >= Power[a] * 1
    BY <1>3
<1>. QED  BY <1>2, <1>3, <1>4

\* Every positive number lies between two powers: checked_ilog2 has a value.
LEMMA LogExists ==
    \A w \in Nat : \A n \in Nat : n >= 1 /\ n < Power[w] =>
        \E k \in 0..(w - 1) : Power[k] <= n /\ n < Power[k + 1]
<1>. DEFINE P(w) == \A n \in Nat : n >= 1 /\ n < Power[w] =>
                        \E k \in 0..(w - 1) : Power[k] <= n /\ n < Power[k + 1]
          S == {w \in Nat : P(w)}
<1>1. 0 \in S
    BY Powers
<1>2. ASSUME NEW w \in Nat, w \in S PROVE w + 1 \in S
  <2>1. SUFFICES ASSUME NEW n \in Nat, n >= 1, n < Power[w + 1]
                 PROVE  \E k \in 0..w : Power[k] <= n /\ n < Power[k + 1]
    OBVIOUS
  <2>2. CASE n < Power[w]
    <3>1. PICK k \in 0..(w - 1) : Power[k] <= n /\ n < Power[k + 1]
        BY <1>2, <2>1, <2>2
    <3>. QED  BY <3>1
  <2>3. CASE Power[w] <= n
    BY <2>1, <2>3
  <2>4. Power[w] \in Nat
    BY Powers
  <2>. QED  BY <2>2, <2>3, <2>4
<1>. HIDE DEF S
<1>3. \A w \in Nat : w \in S
    BY <1>1, <1>2, Induction
<1>. QED  BY <1>3 DEF S

\* A number's group of bits above those below w is its next digit in base b.
LEMMA NextDigit ==
    ASSUME NEW n \in Nat, NEW w \in Nat, w >= 1, NEW b \in Nat, b >= 1
    PROVE  n % (w * b) = (n % w) + ((n \div w) % b) * w
<1>1. PICK q, r \in Nat : q = n \div w /\ r = n % w /\ r < w /\ n = q * w + r
    BY DivMod
<1>2. PICK k, d \in Nat : k = q \div b /\ d = q % b /\ d < b /\ q = k * b + d
    BY DivMod
<1>3. d * w + r \in Nat /\ d * w + r < w * b
  <2>1. d + 1 <= b
    BY <1>2
  <2>2. (d + 1) * w <= b * w
    BY <2>1
  <2>3. (d + 1) * w = d * w + w /\ b * w = w * b
    OBVIOUS
  <2>. QED  BY <1>1, <2>2, <2>3
<1>4. n = (w * b) * k + (d * w + r)
  <2>1. q * w = (k * b) * w + d * w
    BY <1>2
  <2>2. (k * b) * w = (w * b) * k
    OBVIOUS
  <2>. QED  BY <1>1, <2>1, <2>2
<1>5. w * b \in Nat /\ w * b >= 1
    OBVIOUS
<1>6. n % (w * b) = d * w + r
  <2>1. PICK c \in Nat : c = w * b
    BY <1>5
  <2>2. PICK e \in Nat : e = d * w + r
    BY <1>3
  <2>3. n = c * k + e /\ e < c /\ c >= 1
    BY <2>1, <2>2, <1>3, <1>4, <1>5
  <2>4. n % c = e
    BY <2>3, DivUnique
  <2>. QED  BY <2>1, <2>2, <2>4
<1>. QED  BY <1>1, <1>2, <1>6

\* A digit shifted above a number, cut at a multiple of the shift, makes a number
\* that has room below the cut and below the next shift.
LEMMA DigitFits ==
    ASSUME NEW a \in Nat, NEW w \in Nat, NEW b \in Nat, NEW p \in Nat, NEW d \in Nat,
           a < w, d < b, p >= 1
    PROVE  /\ a + ((d * w) % (w * p)) \in Nat
           /\ a + ((d * w) % (w * p)) < w * p /\ a + ((d * w) % (w * p)) < w * b
<1>1. PICK k, e \in Nat : k = d \div p /\ e = d % p /\ e < p /\ d = k * p + e
    BY DivMod
<1>2. e <= d
  <2>1. k * p \in Nat
    OBVIOUS
  <2>. QED  BY <1>1, <2>1
<1>3. e * w + w <= w * p /\ e * w + w <= w * b
  <2>1. (e + 1) * w <= p * w
    BY <1>1
  <2>2. (e + 1) * w <= b * w
    BY <1>1, <1>2
  <2>3. (e + 1) * w = e * w + w /\ p * w = w * p /\ b * w = w * b
    OBVIOUS
  <2>. QED  BY <2>1, <2>2, <2>3
<1>4. (d * w) % (w * p) = e * w
  <2>1. PICK c \in Nat : c = w * p
    OBVIOUS
  <2>2. PICK r \in Nat : r = e * w
    OBVIOUS
  <2>3. PICK g \in Nat : g = d * w
    OBVIOUS
  <2>4. g = c * k + r
    <3>1. d * w = (k * p) * w + e * w
        BY <1>1
    <3>2. (k * p) * w = (w * p) * k
        OBVIOUS
    <3>. QED  BY <3>1, <3>2, <2>1, <2>2, <2>3
  <2>5. r < c /\ c >= 1
    BY <1>3, <2>1, <2>2
  <2>6. g % c = r
    BY <2>4, <2>5, DivUnique
  <2>. QED  BY <2>1, <2>2, <2>3, <2>6
<1>5. e * w \in Nat /\ w * p \in Nat /\ w * b \in Nat
    OBVIOUS
<1>. QED  BY <1>3, <1>4, <1>5

-----------------------------------------------------------------------------
\* A byte has a continuation bit above at least one bit of payload, and every
\* group counts for as many of the one before it as a byte's payload has values.
LEMMA Weights ==
    /\ Continue \in Nat /\ Continue >= 2 /\ Word \in Nat /\ Word >= 1
    /\ Weight(0) = 1
    /\ \A i \in Nat : /\ Weight(i) \in Nat /\ Weight(i) >= 1
                      /\ Weight(i + 1) = Weight(i) * Continue
<1>1. Segment \in Nat /\ Segment >= 1 /\ Width \in Nat
    BY WidthAssumption
<1>2. Continue \in Nat /\ Continue >= 2
  <2>1. Power[1] = 2
    <3>1. Power[0 + 1] = 2 * Power[0]
        BY Powers
    <3>. QED  BY <3>1, Powers
  <2>2. Power[1] <= Power[Segment]
    BY <1>1, PowerGrows
  <2>. QED  BY <1>1, <2>1, <2>2, Powers DEF Continue
<1>3. Word \in Nat /\ Word >= 1
    BY <1>1, Powers DEF Word
<1>4. Weight(0) = 1
    BY <1>1, Powers DEF Weight
<1>5. ASSUME NEW i \in Nat
      PROVE  Weight(i) \in Nat /\ Weight(i) >= 1 /\ Weight(i + 1) = Weight(i) * Continue
  <2>1. Segment * i \in Nat /\ Segment * (i + 1) = Segment * i + Segment
    BY <1>1
  <2>. QED  BY <1>1, <2>1, Powers, PowerSum DEF Weight, Continue
<1>. QED  BY <1>2, <1>3, <1>4, <1>5

\* The groups cover the word, and no group lies beyond it.
LEMMA GroupsCover ==
    /\ Groups \in Nat /\ Groups >= 1
    /\ Segment * (Groups - 1) < Width /\ Width <= Segment * Groups
<1>1. Segment \in Nat /\ Segment >= 1 /\ Width \in Nat /\ Width >= 1
    BY WidthAssumption
<1>2. PICK a \in Nat : a = Width + Segment - 1
    BY <1>1
<1>3. PICK g, r \in Nat : g = a \div Segment /\ r < Segment /\ a = g * Segment + r
    BY <1>1, DivMod
<1>4. Groups = g
    BY <1>2, <1>3 DEF Groups
<1>5. g * Segment = Segment * g /\ Segment * (g - 1) = Segment * g - Segment
    BY <1>1
<1>6. g # 0
    BY <1>1, <1>2, <1>3
<1>7. Segment * g \in Nat
    BY <1>1
<1>. QED  BY <1>1, <1>2, <1>3, <1>4, <1>5, <1>6, <1>7

\* The word is a whole number of each group's lowest bit, and no more than all
\* groups together can count to.
LEMMA WordOfGroups ==
    /\ \A i \in 0..(Groups - 1) : \E p \in Nat : p >= 1 /\ Word = Weight(i) * p
    /\ Word <= Weight(Groups)
<1>1. Segment \in Nat /\ Segment >= 1 /\ Width \in Nat
    BY WidthAssumption
<1>2. ASSUME NEW i \in 0..(Groups - 1)
      PROVE  \E p \in Nat : p >= 1 /\ Word = Weight(i) * p
  <2>1. i \in Nat /\ i <= Groups - 1
    BY GroupsCover
  <2>2. Segment * i <= Segment * (Groups - 1)
    BY <1>1, <2>1, GroupsCover
  <2>3. Segment * i \in Nat
    BY <1>1, <2>1
  <2>4. PICK k \in Nat : Width = Segment * i + k
    <3>1. Width - Segment * i \in Nat
        <4>1. Segment * (Groups - 1) \in Int
            BY <1>1, GroupsCover
        <4>. QED  BY <1>1, <2>2, <2>3, <4>1, GroupsCover
    <3>. QED  BY <1>1, <2>3, <3>1
  <2>. QED  BY <2>3, <2>4, Powers, PowerSum DEF Word, Weight
<1>3. Word <= Weight(Groups)
  <2>1. Segment * Groups \in Nat
    BY <1>1, GroupsCover
  <2>. QED  BY <1>1, <2>1, GroupsCover, PowerGrows DEF Word, Weight
<1>. QED  BY <1>2, <1>3

\* size of what the first groups can hold is no more than those, and exactly
\* those when one group fewer does not hold it.
LEMMA SizeOfGroups ==
    ASSUME NEW n \in Nat, n < Word, NEW g \in Nat, g >= 1, n < Weight(g)
    PROVE  /\ VarIntSize(n) \in Nat /\ VarIntSize(n) <= g
           /\ (g = 1 \/ Weight(g - 1) <= n) => VarIntSize(n) = g
<1>1. Segment \in Nat /\ Segment >= 1 /\ Width \in Nat
    BY WidthAssumption
<1>2. PICK k \in Nat : /\ k = Log2(n) /\ (n = 0 => k = 0)
                       /\ n # 0 => Power[k] <= n /\ n < Power[k + 1]
  <2>1. CASE n = 0
    BY <2>1 DEF Log2
  <2>2. CASE n # 0
    <3>1. \E k \in 0..(Width - 1) : Power[k] <= n /\ n < Power[k + 1]
        BY <1>1, <2>2, LogExists DEF Word
    <3>2. /\ Log2(n) \in 0..(Width - 1)
          /\ Power[Log2(n)] <= n /\ n < Power[Log2(n) + 1]
        BY <2>2, <3>1 DEF Log2
    <3>. QED  BY <1>1, <2>2, <3>2
  <2>. QED  BY <2>1, <2>2
<1>3. PICK q, r \in Nat : q = k \div Segment /\ r < Segment /\ k = q * Segment + r
    BY <1>1, DivMod
<1>4. VarIntSize(n) = q + 1
    BY <1>2, <1>3 DEF VarIntSize
<1>5. Segment * g \in Nat /\ Segment * (g - 1) \in Nat
      /\ Segment * (g - 1) = Segment * g - Segment
    BY <1>1
<1>6. Weight(g) \in Nat /\ Power[k] \in Nat /\ Power[k + 1] \in Nat /\ Weight(g - 1) \in Nat
  <2>1. g - 1 \in Nat
    OBVIOUS
  <2>. QED  BY <2>1, Weights, Powers
<1>7. q <= g - 1
  <2>1. SUFFICES ASSUME q >= g PROVE FALSE
    OBVIOUS
  <2>2. q * Segment >= Segment * g
    BY <1>1, <2>1
  <2>3. k >= Segment * g /\ k # 0
    BY <1>1, <1>3, <1>5, <2>1, <2>2
  <2>4. Weight(g) <= Power[k]
    BY <1>5, <2>3, PowerGrows DEF Weight
  <2>. QED  BY <1>2, <1>6, <2>3, <2>4
<1>8. ASSUME g = 1 \/ Weight(g - 1) <= n PROVE q = g - 1
  <2>1. CASE g = 1
    BY <1>7, <2>1
  <2>2. CASE g # 1 /\ Weight(g - 1) <= n
    <3>1. SUFFICES ASSUME q + 1 <= g - 1 PROVE FALSE
        BY <1>7
    <3>2. (q + 1) * Segment <= Segment * (g - 1)
        BY <1>1, <3>1
    <3>3. (q + 1) * Segment = q * Segment + Segment
        BY <1>1
    <3>4. k + 1 <= Segment * (g - 1)
        BY <1>1, <1>3, <1>5, <3>2, <3>3
    <3>5. Power[k + 1] <= Weight(g - 1)
        BY <1>5, <3>4, PowerGrows DEF Weight
    <3>6. n # 0
      <4>1. g - 1 \in Nat
        OBVIOUS
      <4>. QED  BY <2>2, <4>1, Weights
    <3>. QED  BY <1>2, <1>6, <2>2, <3>5, <3>6
  <2>. QED  BY <1>8, <2>1, <2>2
<1>. QED  BY <1>4, <1>7, <1>8

-----------------------------------------------------------------------------
\* The group of bits that byte i of a number carries, and the bytes of a number
\* that goes on after them.
GroupOf(n, i) == (n \div Weight(i)) % Continue
Carries(n, s, k) == \A i \in 1..k : s[i] = GroupOf(n, i - 1) + Continue

\* to_writer in its loop: the bytes so far, with more to come within the buffer.
Halfway ==
    /\ origin = "writer" /\ index = Len(bytes) /\ index < Groups /\ acc = 0
    /\ index > 0 => Weight(index) <= value
    /\ Carries(value, bytes, index)

\* Its bytes are complete: one group fewer would not have been enough, and
\* from_reader has the groups of the bytes it has read.
Complete ==
    LET size == Len(bytes) IN
        /\ size \in 1..Groups /\ index \in 0..size
        /\ value < Weight(size) /\ (size = 1 \/ Weight(size - 1) <= value)
        /\ Carries(value, bytes, size - 1) /\ bytes[size] = value \div Weight(size - 1)
        /\ acc = value % Weight(index)
        /\ pc = "read" => index < size
        /\ pc = "done" => index = size

\* The inductive invariant.
CodecInv ==
    /\ TypeOK
    /\ pc = "write" => Halfway
    /\ origin = "writer" => pc \in {"write", "read", "done"}
    /\ origin = "writer" /\ pc # "write" => Complete
    /\ acc < Weight(index) /\ (pc = "done" => index >= 1)

\* A writer that starts with a number of the word has written nothing yet.
LEMMA WritingInv == ASSUME NEW n \in Nat, n < Word, Writing(n) PROVE CodecInv
<1>1. TypeOK
    BY Weights, GroupsCover DEF Writing, TypeOK
<1>2. Halfway
    BY GroupsCover DEF Writing, Halfway, Carries
<1>3. acc < Weight(index)
    BY Weights DEF Writing
<1>. QED  BY <1>1, <1>2, <1>3 DEF CodecInv, Writing

\* A peer's bytes are not read yet.
LEMMA ReadingInv == ASSUME NEW s \in Seq(Byte), ReadingBytes(s) PROVE CodecInv
<1>1. TypeOK
    BY Weights, GroupsCover DEF ReadingBytes, TypeOK
<1>2. acc < Weight(index)
    BY Weights DEF ReadingBytes
<1>. QED  BY <1>1, <1>2 DEF CodecInv, ReadingBytes

LEMMA InitCodec == Init => CodecInv
<1>1. ASSUME NEW n \in 0..(Word - 1), Writing(n) PROVE CodecInv
    BY <1>1, WritingInv, Weights
<1>2. ASSUME NEW s \in UNION {[1..n -> Byte] : n \in 0..(Groups + 1)}, ReadingBytes(s)
      PROVE  CodecInv
  <2>1. s \in Seq(Byte)
    BY GroupsCover
  <2>. QED  BY <1>2, <2>1, ReadingInv
<1>. QED  BY <1>1, <1>2 DEF Init

\* The group a byte carries fits beside its continuation bit.
LEMMA GroupIsByte ==
    ASSUME NEW n \in Nat, NEW i \in Nat
    PROVE  /\ GroupOf(n, i) \in Nat /\ GroupOf(n, i) < Continue
           /\ GroupOf(n, i) + Continue \in Byte
           /\ (GroupOf(n, i) + Continue) % Continue = GroupOf(n, i)
<1>1. Continue \in Nat /\ Continue >= 2 /\ Weight(i) \in Nat /\ Weight(i) >= 1
    BY Weights
<1>2. PICK q \in Nat : q = n \div Weight(i)
    BY <1>1, DivMod
<1>3. PICK g \in Nat : g = GroupOf(n, i) /\ g < Continue
    BY <1>1, <1>2, DivMod DEF GroupOf
<1>4. (g + Continue) % Continue = g
  <2>1. PICK a \in Nat : a = g + Continue
    BY <1>1
  <2>2. a = Continue * 1 + g
    BY <1>1, <2>1
  <2>3. a % Continue = g
    BY <1>1, <1>3, <2>2, DivUnique
  <2>. QED  BY <2>1, <2>3
<1>. QED  BY <1>1, <1>3, <1>4 DEF Byte

\* WriteByte keeps the invariant: the last group of the word needs no
\* continuation bit, so the buffer is never full with groups left over.
LEMMA WriteByteKeeps == CodecInv /\ WriteByte => CodecInv'
<1>. SUFFICES ASSUME CodecInv, WriteByte PROVE CodecInv'
    OBVIOUS
<1>1. Halfway /\ TypeOK /\ pc = "write"
    BY DEF CodecInv, WriteByte
<1>2. value \in Nat /\ value < Word /\ index \in Nat /\ index = Len(bytes) /\ index < Groups
    BY <1>1, Weights, GroupsCover DEF TypeOK, Halfway
<1>3. PICK w, b \in Nat : /\ w = Weight(index) /\ w >= 1 /\ b = Continue /\ b >= 2
                          /\ Weight(index + 1) = w * b
    BY <1>2, Weights
<1>4. PICK q, r \in Nat : q = Rest /\ r < w /\ value = q * w + r
  <2>1. /\ value \div w \in Nat /\ value % w \in Nat /\ value % w < w
        /\ value = (value \div w) * w + (value % w)
    BY <1>2, <1>3, DivMod
  <2>2. Rest = value \div w
    BY <1>3 DEF Rest
  <2>. QED  BY <2>1, <2>2
<1>5. \A x : bytes \in Seq(Byte) /\ Append(bytes, x)[Len(bytes) + 1] = x
             /\ Len(Append(bytes, x)) = Len(bytes) + 1
             /\ \A i \in 1..Len(bytes) : Append(bytes, x)[i] = bytes[i]
    BY <1>1, AppendProperties DEF TypeOK
<1>6. CASE Rest < Continue
  <2>1. bytes' = Append(bytes, q) /\ pc' = "read" /\ index' = 0
        /\ origin' = "writer" /\ value' = value /\ acc' = 0
    BY <1>1, <1>4, <1>6 DEF WriteByte, Halfway
  <2>2. q \in Byte
    BY <1>3, <1>4, <1>6 DEF Byte
  <2>3. bytes' \in Seq(Byte)
    BY <2>1, <2>2, <1>1, AppendProperties DEF TypeOK
  <2>4. TypeOK'
    BY <1>1, <2>1, <2>3, GroupsCover, Weights DEF TypeOK
  <2>5. Len(bytes') = index + 1 /\ bytes'[index + 1] = q
    BY <1>2, <1>5, <2>1
  <2>6. value < Weight(index + 1)
    <3>1. (q + 1) * w <= b * w
        BY <1>3, <1>4, <1>6
    <3>2. (q + 1) * w = q * w + w /\ b * w = w * b
        OBVIOUS
    <3>. QED  BY <1>3, <1>4, <3>1, <3>2
  <2>7. Carries(value, bytes', index)
    BY <1>1, <1>2, <1>5, <2>1 DEF Carries, Halfway
  <2>8. value % Weight(0) = 0
    <3>1. value % 1 = 0
        BY <1>2
    <3>. QED  BY <3>1, Weights
  <2>9. Complete'
    <3>1. (index + 1) - 1 = index
        BY <1>2
    <3>2. index = 0 \/ Weight(index) <= value
        BY <1>1, <1>2 DEF Halfway
    <3>3. PICK size \in Nat : size = Len(bytes') /\ size = index + 1 /\ size - 1 = index
        BY <1>2, <2>5, <3>1
    <3>4. size \in 1..Groups /\ index' \in 0..size /\ index' < size
        BY <1>2, <2>1, <3>3, GroupsCover
    <3>5. value' < Weight(size) /\ (size = 1 \/ Weight(size - 1) <= value')
        BY <1>2, <2>1, <2>6, <3>2, <3>3
    <3>6. Carries(value', bytes', size - 1)
        BY <2>1, <2>7, <3>3
    <3>7. bytes'[size] = value' \div Weight(size - 1)
        BY <1>4, <2>1, <2>5, <3>3 DEF Rest
    <3>8. acc' = value' % Weight(index')
        BY <2>1, <2>8
    <3>. QED  BY <2>1, <3>3, <3>4, <3>5, <3>6, <3>7, <3>8 DEF Complete
  <2>10. acc' < Weight(index')
    BY <2>1, Weights
  <2>. QED  BY <2>1, <2>4, <2>9, <2>10 DEF CodecInv
<1>7. CASE ~(Rest < Continue)
  <2>1. bytes' = Append(bytes, GroupOf(value, index) + Continue) /\ index' = index + 1
        /\ origin' = "writer" /\ value' = value /\ acc' = 0
        /\ pc' = IF index + 1 = Groups THEN "malformed" ELSE "write"
    BY <1>1, <1>4, <1>7 DEF WriteByte, Halfway, Rest, GroupOf
  <2>2. Weight(index + 1) <= value
    <3>1. q * w >= b * w
        BY <1>3, <1>4, <1>7
    <3>2. b * w = w * b /\ b * w \in Nat /\ q * w \in Nat
        OBVIOUS
    <3>. QED  BY <1>3, <1>4, <3>1, <3>2
  <2>3. index + 1 # Groups
    <3>1. Word <= Weight(Groups) /\ Weight(Groups) \in Nat /\ Word \in Nat
        BY WordOfGroups, Weights, GroupsCover
    <3>. QED  BY <1>2, <2>2, <3>1
  <2>4. pc' = "write" /\ index + 1 < Groups
    BY <1>2, <2>1, <2>3, GroupsCover
  <2>5. GroupOf(value, index) + Continue \in Byte
    BY <1>2, GroupIsByte
  <2>6. bytes' \in Seq(Byte)
    BY <2>1, <2>5, <1>1, AppendProperties DEF TypeOK
  <2>7. TypeOK'
    <3>1. index' \in 0..Groups
        BY <1>2, <2>1, <2>4, GroupsCover
    <3>. QED  BY <1>1, <2>1, <2>4, <2>6, <3>1, Weights DEF TypeOK
  <2>8. Len(bytes') = index + 1 /\ bytes'[index + 1] = GroupOf(value, index) + Continue
    BY <1>2, <1>5, <2>1
  <2>9. Carries(value, bytes', index + 1)
    <3>1. ASSUME NEW i \in 1..(index + 1)
          PROVE  bytes'[i] = GroupOf(value, i - 1) + Continue
      <4>1. CASE i = index + 1
        BY <1>2, <2>8, <4>1
      <4>2. CASE i # index + 1
        <5>1. i \in 1..index
            BY <1>2, <4>2
        <5>. QED  BY <1>1, <1>2, <1>5, <2>1, <5>1 DEF Carries, Halfway
      <4>. QED  BY <4>1, <4>2
    <3>. QED  BY <3>1 DEF Carries
  <2>10. Halfway'
    BY <1>2, <2>1, <2>2, <2>4, <2>8, <2>9 DEF Halfway
  <2>11. acc' < Weight(index')
    <3>1. index + 1 \in Nat
        BY <1>2
    <3>2. Weight(index + 1) \in Nat /\ Weight(index + 1) >= 1
        BY <3>1, Weights
    <3>. QED  BY <2>1, <3>2
  <2>. QED  BY <2>1, <2>4, <2>7, <2>10, <2>11 DEF CodecInv
<1>. QED  BY <1>6, <1>7

\* ReadByte keeps it: a group joins those below it; what a peer's last byte has
\* beyond the word is lost.
LEMMA ReadByteKeeps == CodecInv /\ ReadByte => CodecInv'
<1>. SUFFICES ASSUME CodecInv, ReadByte PROVE CodecInv'
    OBVIOUS
<1>1. TypeOK /\ pc = "read" /\ index < Groups /\ index < Len(bytes) /\ acc < Weight(index)
    BY DEF CodecInv, ReadByte
<1>2. /\ index \in Nat /\ acc \in Nat /\ bytes \in Seq(Byte) /\ Len(bytes) \in Nat
      /\ value \in Nat /\ value < Word
    BY <1>1, Weights, GroupsCover, LenProperties DEF TypeOK
<1>3. PICK c \in Byte : c = bytes[index + 1]
  <2>1. index + 1 \in 1..Len(bytes)
    BY <1>1, <1>2
  <2>. QED  BY <1>2, <2>1, ElementOfSeq
<1>4. PICK w, b \in Nat : /\ w = Weight(index) /\ w >= 1 /\ b = Continue /\ b >= 2
                          /\ Weight(index + 1) = w * b
    BY <1>2, Weights
<1>5. PICK p \in Nat : p >= 1 /\ Word = w * p
  <2>1. index \in 0..(Groups - 1)
    BY <1>1, <1>2, GroupsCover
  <2>. QED  BY <1>4, <2>1, WordOfGroups
<1>6. c \in Nat
    BY Weights DEF Byte
<1>7. PICK d \in Nat : d = c % Continue /\ d < b
  <2>1. c % b \in Nat /\ c % b < b
    BY <1>4, <1>6, DivMod
  <2>. QED  BY <1>4, <2>1
<1>8. Shifted(c, index) = (d * w) % (w * p)
    BY <1>4, <1>5, <1>7 DEF Shifted
<1>9. /\ acc' = acc + Shifted(c, index) /\ index' = index + 1
      /\ pc' = IF c < Continue THEN "done" ELSE "read"
      /\ UNCHANGED <<origin, value, bytes>>
    BY <1>3 DEF ReadByte
<1>10. acc' \in Nat /\ acc' < Word /\ acc' < Weight(index')
  <2>1. PICK a \in Nat : a = acc /\ a < w
    BY <1>1, <1>2, <1>4
  <2>2. a < w /\ d < b /\ p >= 1
    BY <1>5, <1>7, <2>1
  <2>3. /\ a + ((d * w) % (w * p)) \in Nat
        /\ a + ((d * w) % (w * p)) < w * p /\ a + ((d * w) % (w * p)) < w * b
    BY <2>2, DigitFits, Zenon
  <2>4. acc' = a + ((d * w) % (w * p))
    BY <1>8, <1>9, <2>1
  <2>. QED  BY <1>4, <1>5, <1>9, <2>3, <2>4, Zenon
<1>11. TypeOK'
    BY <1>1, <1>2, <1>9, <1>10, GroupsCover, Weights DEF TypeOK
<1>12. CASE origin = "peer"
    BY <1>2, <1>9, <1>10, <1>11, <1>12 DEF CodecInv
<1>13. CASE origin = "writer"
  <2>1. Complete
    BY <1>1, <1>13 DEF CodecInv
  <2>. DEFINE size == Len(bytes)
  <2>2. d = GroupOf(value, index) /\ (c < Continue <=> index + 1 = size)
    <3>1. CASE index + 1 = size
      <4>1. PICK q \in Nat : q = value \div Weight(index) /\ q * w <= value
        <5>1. /\ value \div w \in Nat /\ value % w \in Nat
              /\ value = (value \div w) * w + (value % w)
            BY <1>2, <1>4, DivMod
        <5>2. (value \div w) * w \in Nat
            BY <5>1
        <5>3. PICK q \in Nat : q = value \div w
            BY <5>1
        <5>4. q * w \in Nat /\ q * w <= value
            BY <1>2, <5>1, <5>3
        <5>. QED  BY <1>4, <5>3, <5>4
      <4>2. c = q
        <5>1. size - 1 = index
            BY <1>2, <3>1
        <5>. QED  BY <1>3, <2>1, <3>1, <4>1, <5>1 DEF Complete
      <4>3. q < b
        <5>1. SUFFICES ASSUME q >= b PROVE FALSE
            OBVIOUS
        <5>2. q * w >= b * w /\ b * w = w * b /\ q * w \in Nat
            BY <5>1
        <5>3. value < w * b
            BY <1>4, <2>1, <3>1 DEF Complete
        <5>. QED  BY <1>2, <4>1, <5>2, <5>3
      <4>. QED  BY <1>4, <1>7, <3>1, <4>1, <4>2, <4>3 DEF GroupOf
    <3>2. CASE index + 1 # size
      <4>1. index + 1 \in 1..(size - 1) /\ (index + 1) - 1 = index
        BY <1>1, <1>2, <3>2
      <4>2. c = GroupOf(value, index) + Continue
        BY <1>3, <2>1, <4>1 DEF Complete, Carries
      <4>3. ~(c < Continue)
        <5>1. GroupOf(value, index) \in Nat /\ Continue \in Nat
            BY <1>2, GroupIsByte, Weights
        <5>. QED  BY <4>2, <5>1
      <4>. QED  BY <1>2, <1>7, <3>2, <4>2, <4>3, GroupIsByte
    <3>. QED  BY <3>1, <3>2
  <2>3. acc = value % w
    BY <1>4, <2>1 DEF Complete
  <2>4. value % (w * b) = (value % w) + d * w
    <3>1. PICK n \in Nat : n = value
        BY <1>2
    <3>2. n % (w * b) = (n % w) + ((n \div w) % b) * w
      <4>1. w >= 1 /\ b >= 1
        BY <1>4
      <4>. QED  BY <4>1, NextDigit, Zenon
    <3>3. d = (n \div w) % b
        BY <1>4, <2>2, <3>1 DEF GroupOf
    <3>. QED  BY <3>1, <3>2, <3>3
  <2>5. PICK m \in Nat : m = value % (w * b) /\ m <= value
    <3>1. PICK x \in Nat : x = w * b /\ x >= 1
        BY <1>4
    <3>2. PICK q \in Nat : value % x \in Nat /\ value = q * x + (value % x)
        BY <1>2, <3>1, DivMod
    <3>3. q * x \in Nat
        BY <3>1
    <3>. QED  BY <1>2, <3>1, <3>2, <3>3
  <2>6. d * w \in Nat /\ value % w \in Nat /\ d * w < w * p
    <3>1. d * w \in Nat /\ value % w \in Nat
        BY <1>2, <1>4, DivMod
    <3>. QED  BY <1>2, <1>5, <2>4, <2>5, <3>1
  <2>7. (d * w) % (w * p) = d * w
    <3>1. PICK x, y \in Nat : x = d * w /\ y = w * p
        OBVIOUS
    <3>2. x = y * 0 + x /\ x < y /\ y >= 1
        BY <2>6, <3>1
    <3>3. x % y = x
        BY <3>2, DivUnique
    <3>. QED  BY <3>1, <3>3
  <2>8. acc' = value % Weight(index + 1)
    BY <1>4, <1>8, <1>9, <2>3, <2>4, <2>7
  <2>9. Complete'
    <3>1. value' = value /\ bytes' = bytes /\ index' = index + 1
        BY <1>9
    <3>2. index' \in 0..size
        BY <1>1, <1>2, <3>1
    <3>3. pc' = "read" => index' < size
        BY <1>1, <1>2, <1>9, <2>2
    <3>4. pc' = "done" => index' = size
        BY <1>1, <1>2, <1>9, <2>2
    <3>. QED  BY <2>1, <2>8, <3>1, <3>2, <3>3, <3>4 DEF Complete
  <2>. QED  BY <1>2, <1>9, <1>10, <1>11, <1>13, <2>9 DEF CodecInv
<1>. QED  BY <1>1, <1>12, <1>13 DEF TypeOK

\* Every step of the codec keeps the invariant.
LEMMA NextCodec == CodecInv /\ [Next]_vars => CodecInv'
<1>. SUFFICES ASSUME CodecInv, [Next]_vars PROVE CodecInv'
    OBVIOUS
<1>1. CASE ReadOversized
  <2>1. index = Groups /\ pc = "read" /\ pc' = "oversized"
        /\ UNCHANGED <<origin, value, bytes, index, acc>>
    BY <1>1 DEF ReadOversized
  <2>2. origin # "writer"
    BY <2>1, GroupsCover DEF CodecInv, Complete
  <2>. QED  BY <2>1, <2>2 DEF CodecInv, TypeOK
<1>2. CASE ReadEof
  <2>1. index = Len(bytes) /\ pc = "read" /\ pc' = "eof"
        /\ UNCHANGED <<origin, value, bytes, index, acc>>
    BY <1>2 DEF ReadEof
  <2>2. origin # "writer"
    BY <2>1, GroupsCover DEF CodecInv, Complete
  <2>. QED  BY <2>1, <2>2 DEF CodecInv, TypeOK
<1>3. CASE UNCHANGED vars
    BY <1>3 DEF CodecInv, TypeOK, Halfway, Complete, vars
<1>. QED  BY <1>1, <1>2, <1>3, WriteByteKeeps, ReadByteKeeps DEF Next

\* What the invariant says of a value that was written and read.
LEMMA CodecProperties == CodecInv => TypeOK /\ RoundTrip /\ SizeIsExact
<1>. SUFFICES ASSUME CodecInv PROVE RoundTrip /\ SizeIsExact
    BY DEF CodecInv
<1>1. /\ value \in Nat /\ value < Word /\ acc \in Nat /\ acc < Word /\ index \in Nat
      /\ acc < Weight(index)
    BY GroupsCover, Weights DEF CodecInv, TypeOK
<1>2. ASSUME origin = "writer", pc = "done" PROVE acc = value /\ index = Len(bytes)
  <2>1. Complete /\ index = Len(bytes)
    BY <1>2 DEF CodecInv, Complete
  <2>2. PICK w \in Nat : w = Weight(index) /\ value < w /\ acc = value % w
    BY <1>1, <2>1, Weights DEF Complete
  <2>3. value % w = value
    <3>1. value = w * 0 + value /\ w >= 1
        BY <1>1, <2>2
    <3>. QED  BY <1>1, <2>2, <3>1, DivUnique
  <2>. QED  BY <2>1, <2>2, <2>3
<1>3. RoundTrip
    BY <1>2 DEF RoundTrip, CodecInv
<1>4. ASSUME origin = "writer", pc \in {"read", "done"} PROVE Len(bytes) = VarIntSize(value)
  <2>1. Complete
    BY <1>4 DEF CodecInv
  <2>2. PICK g \in Nat : g = Len(bytes) /\ g >= 1 /\ value < Weight(g)
                         /\ (g = 1 \/ Weight(g - 1) <= value)
    BY <2>1, GroupsCover DEF Complete
  <2>. QED  BY <1>1, <2>2, SizeOfGroups
<1>5. ASSUME pc = "done" PROVE VarIntSize(acc) <= index
    BY <1>1, <1>5, SizeOfGroups DEF CodecInv
<1>. QED  BY <1>3, <1>4, <1>5 DEF SizeIsExact

-----------------------------------------------------------------------------
\* A packet's id is the integer that is on its way.
IdInv == packet = NoPacket
         \/ (packet \in AllPackets /\ origin = "writer" /\ value = Id(packet.version, packet.designator))

\* The id of a line of a table fits a VarInt.
LEMMA IdFits ==
    ASSUME NEW p \in AllPackets
    PROVE  /\ p.version \in Versions /\ p.state \in States /\ p.side \in Sides
           /\ p.designator \in Writable(p.version, p.state, p.side)
           /\ Id(p.version, p.designator) \in Nat /\ Id(p.version, p.designator) < Word
<1>1. PICK v \in Versions, state \in States, side \in Sides :
          \E d \in Writable(v, state, side) : p = Packet(v, state, side, d)
    BY DEF AllPackets
<1>2. PICK d \in Writable(v, state, side) : p = Packet(v, state, side, d)
    BY <1>1
<1>3. p.version = v /\ p.state = state /\ p.side = side /\ p.designator = d
    BY <1>2 DEF Packet
<1>4. state \in Tabled
    BY <1>2 DEF Writable, States
<1>5. PICK ids \in Seq(Nat) :
          ids = IdsIn(v, state, Writes(side)) /\ ids = Ids[v][state][Writes(side)]
    BY <1>4, TableIds, WritesIsPeerReads
<1>6. PICK n \in 1..Len(ids) : d = Designator(state, Writes(side), n)
    BY <1>2, <1>4, <1>5 DEF Writable, Designators, Tabled
<1>7. Id(v, d) = ids[n]
    BY <1>5, <1>6 DEF Id, Designator
<1>8. ids[n] \in Nat /\ ids[n] < Word
    BY <1>4, <1>5, WritesIsPeerReads, IdsAssumption
<1>. QED  BY <1>2, <1>3, <1>7, <1>8

LEMMA InitPackets == PacketsInit => CodecInv /\ IdInv
<1>1. ASSUME Init, packet = NoPacket PROVE CodecInv /\ IdInv
    BY <1>1, InitCodec DEF IdInv
<1>2. ASSUME packet \in AllPackets, Writing(Id(packet.version, packet.designator))
      PROVE  CodecInv /\ IdInv
  <2>1. PICK n \in Nat : n = Id(packet.version, packet.designator) /\ n < Word
    BY <1>2, IdFits
  <2>2. CodecInv
    BY <1>2, <2>1, WritingInv
  <2>. QED  BY <1>2, <2>2 DEF IdInv, Writing
<1>. QED  BY <1>1, <1>2 DEF PacketsInit

LEMMA NextPackets == CodecInv /\ IdInv /\ [PacketsNext]_packetsVars => CodecInv' /\ IdInv'
<1>. SUFFICES ASSUME CodecInv, IdInv, [PacketsNext]_packetsVars PROVE CodecInv' /\ IdInv'
    OBVIOUS
<1>1. [Next]_vars /\ packet' = packet
    BY DEF PacketsNext, packetsVars, SendId, SendBody
<1>2. origin' = origin /\ value' = value
    BY <1>1 DEF Next, vars, WriteByte, ReadByte, ReadOversized, ReadEof
<1>. QED  BY <1>1, <1>2, NextCodec DEF IdInv

\* Two invariants at once: where the codec is, and which packet it carries.
LEMMA PacketsInvariance == PacketsSpec => [](CodecInv /\ IdInv)
BY InitPackets, NextPackets, PTL DEF PacketsSpec

\* The codec stays within its types for every segment and every width: neither a
\* negative value nor a peer's overlong last byte makes from_reader leave the word.
THEOREM TypeCorrect == PacketsSpec => []TypeOK
BY PacketsInvariance, CodecProperties, PTL

\* For every width of the integer and of a byte's payload: to_writer ends within
\* its buffer, "This should not be possible to reach" is not reached, and
\* from_reader makes the same value of its bytes.
THEOREM ValuesComeBack == PacketsSpec => []RoundTrip
BY PacketsInvariance, CodecProperties, PTL

\* For every width: size, by checked_ilog2, is the number of bytes to_writer's
\* loop writes, and no reader needs fewer for the same value.
THEOREM SizesAreExact == PacketsSpec => []SizeIsExact
BY PacketsInvariance, CodecProperties, PTL

\* For every version, tables of any length and any ids none of which stands in
\* a table twice: the id of a packet, once through the codec, is matched first
\* by that packet's own line in the state of the end opposite.
THEOREM PacketsArriveAsSent ==
    ASSUME IdsAreDistinct
    PROVE  PacketsSpec => []SamePacket
<1>1. CodecInv /\ IdInv => SamePacket
  <2>. SUFFICES ASSUME CodecInv, IdInv, packet # NoPacket, pc = "done"
                PROVE  Designated = packet.designator
    BY DEF SamePacket
  <2>1. packet \in AllPackets /\ acc = Id(packet.version, packet.designator)
    BY CodecProperties DEF IdInv, RoundTrip
  <2>2. PICK v \in Versions, state \in States, side \in Sides :
            v = packet.version /\ state = packet.state /\ side = packet.side
    BY <2>1, IdFits
  <2>3. PICK d \in Writable(v, state, side) : d = packet.designator
    BY <2>1, <2>2, IdFits
  <2>4. DesignatorFromId(v, state, Peer(side), Id(v, d)) = d
    BY DesignatorsMeet
  <2>. QED  BY <2>1, <2>2, <2>3, <2>4 DEF Designated
<1>. QED  BY <1>1, PacketsInvariance, PTL

-----------------------------------------------------------------------------
\* The payload is none of the id's business, nor the id of the payload's.
LEMMA InitBody == PacketsInit => SizesAccounted /\ BodyKept
BY NoBodyAccounts, NoBodyKept DEF PacketsInit

LEMMA NextBody ==
    SizesAccounted /\ BodyKept /\ [PacketsNext]_packetsVars => SizesAccounted' /\ BodyKept'
<1>. SUFFICES ASSUME SizesAccounted, BodyKept, [PacketsNext]_packetsVars
              PROVE  SizesAccounted' /\ BodyKept'
    OBVIOUS
<1>1. BodyBegin \/ BodyStep \/ UNCHANGED bodyVars
    BY DEF PacketsNext, packetsVars, SendId, SendBody
<1>. QED  BY <1>1, BodyAccounts, BodyKeeps

LEMMA BodyInvariance == PacketsSpec => [](SizesAccounted /\ BodyKept)
BY InitBody, NextBody, PTL DEF PacketsSpec

\* For every type composed of the primitives, and for any bytes of a peer:
\* from_reader drops memory nobody initialised as a value only where an array's
\* items own some.
THEOREM OnlyOwnersAreDropped == PacketsSpec => []DropsOnlyOwners
BY BodyInvariance, AccountsSuffice, PTL

\* For every such type: size is the number of bytes to_writer writes, and the
\* size of the value from_reader makes is the number of bytes it took for it.
THEOREM PayloadSizesAreExact == PacketsSpec => []BodySizeIsExact
BY BodyInvariance, AccountsSuffice, PTL

\* For every such type: a value sent whole comes back as it was, the reader
\* behind it; one that was cut ends in an error, never in a value.
THEOREM PayloadsComeBack == PacketsSpec => []BodyRoundTrip
BY BodyInvariance, KeptSuffices, PTL
=============================================================================
