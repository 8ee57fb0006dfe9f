--------------------- MODULE AsyncBufferedWriterProofs ----------------------
(***************************************************************************)
(* The safety of AsyncBufferedWriter for every buffer size, every slice    *)
(* length and every inner writer.                                          *)
(***************************************************************************)
EXTENDS AsyncBufferedWriter, SequenceTheorems, TLAPS

\* What the bytes behind the offset look like: still in clear in Fill, exactly
\* as the peer is owed them in Write.
BufferExact ==
    \A j \in 1..Len(buffer) :
        buffer[j] = IF phase = "Fill"
                    THEN [b |-> Owed(Len(wire) + j).b, e |-> <<>>]
                    ELSE Owed(Len(wire) - offset + j)

\* The encryptor is as far as the bytes that went through it: those on the
\* wire since the switch and, in Write, those that wait behind the offset.
KeystreamExact ==
    mode = "Encrypt" =>
        /\ Len(wire) - offset >= wireAt
        /\ keystream = (Len(wire) - wireAt) + IF phase = "Fill" THEN 0 ELSE Remaining

Started ==
    /\ call # "idle" => last = "open"
    /\ phase = "Write" => offset <= Len(wire)

IInv == /\ TypeOK
        /\ WireExact
        /\ NothingDropped
        /\ FlushedIsDelivered
        /\ BufferExact
        /\ KeystreamExact
        /\ Started

-----------------------------------------------------------------------------
(* What the helpers return. *)

\* A function over 1..n is a sequence of length n.
LEMMA FunctionIsSeq ==
    ASSUME NEW S, NEW n \in Nat, NEW f \in [1..n -> S]
    PROVE  f \in Seq(S) /\ Len(f) = n
<1>1. f \in Seq(S)
    BY SeqDef
<1>2. DOMAIN f = 1..n /\ DOMAIN f = 1..Len(f) /\ Len(f) \in Nat
    BY <1>1, LenProperties
<1>. QED  BY <1>1, <1>2

\* The bytes copied by poll_write are numbered on from the last one, in clear.
LEMMA NewCellsShape ==
    ASSUME accepted \in Nat, NEW n \in Nat
    PROVE  /\ NewCells(n) \in Seq(Cell)
           /\ Len(NewCells(n)) = n
           /\ \A j \in 1..n : NewCells(n)[j] = [b |-> accepted + j, e |-> <<>>]
<1>1. \A j \in 1..n : [b |-> accepted + j, e |-> <<>>] \in Cell
    BY DEF Cell
<1>2. NewCells(n) \in [1..n -> Cell]
    BY <1>1 DEF NewCells
<1>3. NewCells(n) \in Seq(Cell) /\ Len(NewCells(n)) = n
    BY <1>2, FunctionIsSeq
<1>. QED  BY <1>3 DEF NewCells

\* Encryption keeps the bytes and adds one keystream position to each.
LEMMA EncryptedShape ==
    ASSUME buffer \in Seq(Cell), keystream \in Nat
    PROVE  /\ Encrypted \in Seq(Cell)
           /\ Len(Encrypted) = Len(buffer)
           /\ \A j \in 1..Len(buffer) :
                 Encrypted[j] = [b |-> buffer[j].b,
                                 e |-> Append(buffer[j].e, keystream + j)]
<1>1. \A j \in 1..Len(buffer) : buffer[j] \in Cell
    OBVIOUS
<1>2. ASSUME NEW j \in 1..Len(buffer)
      PROVE  [b |-> buffer[j].b, e |-> Append(buffer[j].e, keystream + j)] \in Cell
    <2>1. buffer[j].e \in Seq(Nat) /\ buffer[j].b \in Nat
        BY <1>1 DEF Cell
    <2>2. Append(buffer[j].e, keystream + j) \in Seq(Nat)
        BY <2>1
    <2>. QED  BY <2>1, <2>2 DEF Cell
<1>3. Len(buffer) \in Nat /\ Encrypted \in [1..Len(buffer) -> Cell]
    BY <1>2, LenProperties DEF Encrypted
<1>4. Encrypted \in Seq(Cell) /\ Len(Encrypted) = Len(buffer)
    BY <1>3, FunctionIsSeq
<1>5. \A j \in 1..Len(buffer) :
          Encrypted[j] = [b |-> buffer[j].b, e |-> Append(buffer[j].e, keystream + j)]
    BY DEF Encrypted
<1>. QED  BY <1>4, <1>5

\* The slice handed to the inner writer starts right behind the offset.
LEMMA SliceShape ==
    ASSUME buffer \in Seq(Cell), offset \in Nat, NEW n \in Nat,
           offset + n <= Len(buffer)
    PROVE  /\ Slice(n) \in Seq(Cell)
           /\ Len(Slice(n)) = n
           /\ \A j \in 1..n : Slice(n)[j] = buffer[offset + j]
<1>1. \A j \in offset + 1 .. offset + n : buffer[j] \in Cell
    OBVIOUS
<1>2. /\ Slice(n) \in Seq(Cell)
      /\ Len(Slice(n)) = IF offset + 1 <= offset + n
                         THEN (offset + n) - (offset + 1) + 1 ELSE 0
      /\ \A j \in 1 .. (offset + n) - (offset + 1) + 1 :
             Slice(n)[j] = buffer[(offset + 1) + j - 1]
    BY <1>1, SubSeqProperties DEF Slice
<1>. QED  BY <1>2

\* Every answer of the inner writer stays inside the slice it was given.
LEMMA SinkAnswersShape ==
    ASSUME TypeOK, NEW n \in SinkAnswers
    PROVE  n \in Nat /\ offset + n <= Len(buffer)
BY WriterAssumption DEF TypeOK, SinkAnswers, Minimum, Remaining

\* What poll_flush is about to encrypt comes out as the peer is owed it.
LEMMA EncryptedIsOwed ==
    ASSUME IInv, mode = "Encrypt", phase = "Fill"
    PROVE  \A j \in 1..Len(buffer) : Encrypted[j] = Owed(Len(wire) + j)
<1>1. /\ keystream = Len(wire) - wireAt /\ wireAt \in Nat /\ wireAt <= Len(wire)
      /\ Len(wire) \in Nat /\ Len(buffer) \in Nat
    BY LenProperties DEF IInv, TypeOK, KeystreamExact
<1>2. \A j \in 1..Len(buffer) :
          Encrypted[j] = [b |-> buffer[j].b, e |-> Append(buffer[j].e, keystream + j)]
    BY EncryptedShape DEF IInv, TypeOK
<1>. SUFFICES ASSUME NEW j \in 1..Len(buffer)
              PROVE  Encrypted[j] = Owed(Len(wire) + j)
    OBVIOUS
<1>. DEFINE i == Len(wire) + j
            k == i - wireAt
<1>3. ~(i <= wireAt) /\ mode # "Standard" /\ k \in Nat /\ keystream + j = k
    BY <1>1
<1>4. Owed(i) = [b |-> keyAt + k, e |-> <<k>>]
    BY <1>3, Zenon DEF Owed
<1>5. buffer[j] = [b |-> Owed(i).b, e |-> <<>>]
    BY DEF IInv, BufferExact
<1>. HIDE DEF i, k
<1>6. buffer[j].b = keyAt + k /\ buffer[j].e = <<>>
    BY <1>4, <1>5
<1>7. Append(buffer[j].e, keystream + j) = <<k>>
    BY <1>3, <1>6
<1>8. Encrypted[j] = Owed(i)
    BY <1>2, <1>4, <1>6, <1>7
<1>. QED  BY <1>8 DEF i

-----------------------------------------------------------------------------
(* Each action preserves the invariant. *)

\* Calls, polls, errors and cancellations that leave writer and wire alone.
LEMMA OutsideWriterKeeps ==
    ASSUME IInv, UNCHANGED <<writer, sink, accepted, marks>>,
           call' \in {"idle", "write", "flush"}, todo' \in Nat,
           task' \in {"running", "parked"}, last' \in {"flushed", "open", "failed"},
           call' # "idle" => last' = "open",
           last' = "flushed" => call = "idle" /\ last = "flushed"
    PROVE  IInv'
<1>1. TypeOK'
    BY DEF IInv, TypeOK, writer, sink, marks
<1>2. \A i : Owed(i)' = Owed(i)
    BY DEF Owed, writer, marks
<1>3. WireExact' /\ BufferExact'
    BY <1>2 DEF IInv, WireExact, BufferExact, Owed, writer, sink, marks
<1>4. NothingDropped' /\ KeystreamExact' /\ Started' /\ FlushedIsDelivered'
    BY DEF IInv, NothingDropped, KeystreamExact, Started, FlushedIsDelivered,
           Due, Remaining, writer, sink, marks
<1>. QED  BY <1>1, <1>3, <1>4 DEF IInv

\* with_encryption: the wire so far is the part in clear, the buffer is empty.
LEMMA WithEncryptionKeeps ==
    ASSUME IInv, WithEncryption
    PROVE  IInv'
<1>1. TypeOK'
    BY EmptySeq, WriterAssumption DEF IInv, TypeOK, WithEncryption, sink, caller
<1>2. Len(buffer') = 0 /\ Len(wire') = Len(wire) /\ Len(wire) \in Nat
    BY EmptySeq DEF IInv, TypeOK, WithEncryption, sink
<1>3. WireExact'
    <2>1. \A i \in 1..Len(wire) : wire[i] = [b |-> i, e |-> <<>>]
        BY DEF IInv, WireExact, Owed, WithEncryption
    <2>2. \A i \in 1..Len(wire)' : Owed(i)' = [b |-> i, e |-> <<>>]
        BY <1>2 DEF Owed, WithEncryption
    <2>. QED  BY <2>1, <2>2, <1>2 DEF WireExact, WithEncryption, sink
<1>4. BufferExact'
    BY <1>2 DEF BufferExact
<1>5. NothingDropped' /\ FlushedIsDelivered'
    BY <1>1, <1>2 DEF TypeOK, NothingDropped, FlushedIsDelivered, Due, Remaining, WithEncryption
<1>6. KeystreamExact' /\ Started'
    BY <1>1, <1>2 DEF TypeOK, KeystreamExact, Started, Remaining, WithEncryption, sink, caller
<1>. QED  BY <1>1, <1>3, <1>4, <1>5, <1>6 DEF IInv

\* poll_write copies: new bytes are owed behind those already in the buffer.
LEMMA CopyKeeps ==
    ASSUME IInv, Copy
    PROVE  IInv'
<1>. DEFINE n == Minimum(Free, todo)
<1>1. /\ n \in Nat /\ n <= todo /\ Len(buffer) + n <= Capacity
      /\ Len(buffer) \in Nat
    BY WriterAssumption, LenProperties DEF IInv, TypeOK, Copy, Free, Minimum
<1>2. /\ NewCells(n) \in Seq(Cell) /\ Len(NewCells(n)) = n
      /\ \A j \in 1..n : NewCells(n)[j] = [b |-> accepted + j, e |-> <<>>]
    BY <1>1, NewCellsShape DEF IInv, TypeOK
<1>3. buffer' = buffer \o NewCells(n) /\ accepted' = accepted + n /\ todo' = todo - n
    BY DEF Copy
<1>. HIDE DEF n
<1>4. /\ buffer' \in Seq(Cell) /\ Len(buffer') = Len(buffer) + n
      /\ \A j \in 1..Len(buffer) + n :
            buffer'[j] = IF j <= Len(buffer) THEN buffer[j] ELSE NewCells(n)[j - Len(buffer)]
    <2>1. buffer \in Seq(Cell)
        BY DEF IInv, TypeOK
    <2>2. /\ buffer \o NewCells(n) \in Seq(Cell)
          /\ Len(buffer \o NewCells(n)) = Len(buffer) + Len(NewCells(n))
          /\ \A j \in 1..Len(buffer) + Len(NewCells(n)) :
                (buffer \o NewCells(n))[j]
                  = IF j <= Len(buffer) THEN buffer[j] ELSE NewCells(n)[j - Len(buffer)]
        BY <2>1, <1>2, ConcatProperties
    <2>. QED  BY <2>2, <1>2, <1>3
<1>5. TypeOK'
    BY <1>1, <1>3, <1>4, SMTT(30) DEF IInv, TypeOK, Copy, sink, marks
<1>6. \A i : Owed(i)' = Owed(i)
    BY DEF Copy, Owed, marks
<1>7. WireExact'
    BY <1>6 DEF IInv, WireExact, Owed, Copy, sink, marks
<1>8. BufferExact'
    <2>1. phase = "Fill" /\ offset = 0 /\ Len(wire) \in Nat /\ Due = Len(wire) + Len(buffer)
        BY LenProperties DEF IInv, TypeOK, Copy, NothingDropped, Remaining
    <2>2. ASSUME NEW j \in 1..n
          PROVE  Owed(Len(wire) + (Len(buffer) + j)).b = accepted + j
        BY <2>1, <1>1 DEF IInv, TypeOK, Owed, Due, KeystreamExact
    <2>3. ASSUME NEW j \in 1..Len(buffer) + n
          PROVE  buffer'[j] = [b |-> Owed(Len(wire) + j).b, e |-> <<>>]
        <3>1. CASE j <= Len(buffer)
            <4>1. j \in 1..Len(buffer)
                BY <3>1, <1>1
            <4>2. buffer[j] = [b |-> Owed(Len(wire) + j).b, e |-> <<>>]
                BY <4>1, <2>1 DEF IInv, BufferExact
            <4>. QED  BY <4>2, <3>1, <1>4
        <3>2. CASE j > Len(buffer)
            <4>1. j - Len(buffer) \in 1..n /\ j = Len(buffer) + (j - Len(buffer))
                BY <3>2, <1>1
            <4>. QED  BY <4>1, <3>2, <2>2, <1>2, <1>4
        <3>. QED  BY <3>1, <3>2, <1>1
    <2>. QED  BY <2>1, <2>3, <1>4, <1>6 DEF BufferExact, Copy, sink
<1>9. NothingDropped'
    <2>1. offset = 0 /\ offset' = 0 /\ wire' = wire /\ Len(wire) \in Nat
        BY DEF IInv, TypeOK, Copy, sink
    <2>2. Due' = Due + n /\ Due \in Int
        <3>1. accepted \in Nat /\ keyAt \in Nat /\ wireAt \in Nat
            BY DEF IInv, TypeOK
        <3>2. mode' = mode /\ keyAt' = keyAt /\ wireAt' = wireAt
            BY DEF Copy, marks
        <3>. QED  BY <1>1, <1>3, <3>1, <3>2 DEF Due
    <2>3. Remaining' = Remaining + n /\ Remaining \in Int
        BY <2>1, <1>1, <1>4 DEF Remaining
    <2>4. Due = Len(wire) + Remaining
        BY DEF IInv, NothingDropped
    <2>. QED  BY <2>1, <2>2, <2>3, <2>4, <1>1 DEF NothingDropped
<1>10. KeystreamExact' /\ Started' /\ FlushedIsDelivered'
    <2>1. KeystreamExact'
        BY DEF IInv, KeystreamExact, Copy, sink, marks
    <2>2. last' = "open"
        BY DEF IInv, Started, Copy, Polling
    <2>. QED  BY <2>1, <2>2 DEF Started, FlushedIsDelivered, Copy
<1>. QED  BY <1>5, <1>7, <1>8, <1>9, <1>10 DEF IInv

\* Fill to Write(0): in "Encrypt" every waiting byte gets its one position.
LEMMA BeginDrainKeeps ==
    ASSUME IInv, BeginDrain
    PROVE  IInv'
<1>1. /\ phase = "Fill" /\ phase' = "Write" /\ offset = 0 /\ offset' = 0
      /\ wire' = wire /\ mode' = mode /\ keyAt' = keyAt /\ wireAt' = wireAt
      /\ accepted' = accepted /\ Len(wire) \in Nat /\ Len(buffer) \in Nat
    BY DEF IInv, TypeOK, BeginDrain, sink, marks
<1>2. /\ buffer' \in Seq(Cell) /\ Len(buffer') = Len(buffer)
      /\ keystream' \in Nat
      /\ \A j \in 1..Len(buffer) : buffer'[j] = Owed(Len(wire) + j)
    <2>1. \A j \in 1..Len(buffer) :
              buffer[j] = [b |-> Owed(Len(wire) + j).b, e |-> <<>>]
        BY <1>1 DEF IInv, BufferExact
    <2>2. CASE mode = "Standard"
        <3>1. buffer' = buffer /\ keystream' = keystream
            BY <2>2 DEF BeginDrain
        <3>2. ASSUME NEW j \in 1..Len(buffer)
              PROVE  buffer[j] = Owed(Len(wire) + j)
            BY <2>1, <2>2 DEF Owed
        <3>. QED  BY <3>1, <3>2 DEF IInv, TypeOK
    <2>3. CASE mode = "Encrypt"
        <3>1. buffer' = Encrypted /\ keystream' = keystream + Len(buffer)
            BY <2>3 DEF BeginDrain
        <3>2. /\ Encrypted \in Seq(Cell) /\ Len(Encrypted) = Len(buffer)
              /\ \A j \in 1..Len(buffer) :
                    Encrypted[j] = [b |-> buffer[j].b,
                                    e |-> Append(buffer[j].e, keystream + j)]
            BY EncryptedShape DEF IInv, TypeOK
        <3>3. \A j \in 1..Len(buffer) : Encrypted[j] = Owed(Len(wire) + j)
            BY <2>3, <1>1, EncryptedIsOwed
        <3>. QED  BY <3>1, <3>2, <3>3, <1>1 DEF IInv, TypeOK
    <2>. QED  BY <2>2, <2>3 DEF IInv, TypeOK
<1>3. TypeOK'
    BY <1>1, <1>2 DEF IInv, TypeOK, BeginDrain, sink, caller
<1>4. \A i : Owed(i)' = Owed(i)
    BY <1>1 DEF Owed
<1>5. WireExact'
    BY <1>1, <1>4 DEF IInv, WireExact, Owed
<1>6. BufferExact'
    <2>1. ASSUME NEW j \in 1..Len(buffer)
          PROVE  buffer'[j] = Owed(Len(wire) - 0 + j)
        BY <1>1, <1>2
    <2>. QED  BY <1>1, <1>2, <1>4, <2>1 DEF BufferExact
<1>7. NothingDropped' /\ FlushedIsDelivered'
    BY <1>1, <1>2 DEF IInv, NothingDropped, FlushedIsDelivered, Due, Remaining,
                      BeginDrain, Polling, caller
<1>8. KeystreamExact'
    <2>1. CASE mode = "Encrypt"
        <3>1. keystream = Len(wire) - wireAt /\ wireAt \in Nat /\ wireAt <= Len(wire)
            BY <2>1, <1>1 DEF IInv, TypeOK, KeystreamExact
        <3>2. keystream' = keystream + Len(buffer)
            BY <2>1 DEF BeginDrain
        <3>. QED  BY <3>1, <3>2, <1>1, <1>2 DEF KeystreamExact, Remaining
    <2>. QED  BY <2>1, <1>1 DEF KeystreamExact
<1>9. Started'
    BY <1>1 DEF IInv, Started, BeginDrain, caller
<1>. QED  BY <1>3, <1>5, <1>6, <1>7, <1>8, <1>9 DEF IInv

\* The inner writer takes n bytes: the wire grows by exactly those.
LEMMA InnerWriteKeeps ==
    ASSUME IInv, InnerWrite
    PROVE  IInv'
<1>1. PICK n \in SinkAnswers :
          /\ wire' = wire \o Slice(n)
          /\ pushed' \in {p \in pushed..Len(wire) + n : Len(wire) + n - p <= SinkBuffer}
          /\ IF Drained(n)
             THEN buffer' = <<>> /\ phase' = "Fill" /\ offset' = 0
             ELSE offset' = offset + n /\ UNCHANGED <<buffer, phase>>
          /\ IF FlushDone(n)
             THEN call' = "idle" /\ last' = "flushed"
             ELSE UNCHANGED <<call, last>>
    BY DEF InnerWrite
<1>2. /\ phase = "Write" /\ call # "idle" /\ mode' = mode /\ keystream' = keystream
      /\ todo' = todo /\ task' = task
      /\ accepted' = accepted /\ keyAt' = keyAt /\ wireAt' = wireAt
    BY DEF InnerWrite, Polling, marks
<1>3. n \in Nat /\ offset \in Nat /\ offset + n <= Len(buffer) /\ Len(buffer) \in Nat
    BY SinkAnswersShape, LenProperties DEF IInv, TypeOK
<1>4. /\ Slice(n) \in Seq(Cell) /\ Len(Slice(n)) = n
      /\ \A j \in 1..n : Slice(n)[j] = buffer[offset + j]
    BY <1>3, SliceShape DEF IInv, TypeOK
<1>5. wire \in Seq(Cell) /\ Len(wire) \in Nat /\ offset <= Len(wire)
    BY <1>2, LenProperties DEF IInv, TypeOK, Started
<1>6. /\ wire \o Slice(n) \in Seq(Cell)
      /\ Len(wire \o Slice(n)) = Len(wire) + Len(Slice(n))
      /\ \A i \in 1..Len(wire) + Len(Slice(n)) :
            (wire \o Slice(n))[i]
              = IF i <= Len(wire) THEN wire[i] ELSE Slice(n)[i - Len(wire)]
    BY <1>4, <1>5, ConcatProperties
<1>7. /\ wire' \in Seq(Cell) /\ Len(wire') = Len(wire) + n
      /\ \A i \in 1..Len(wire) + n :
            wire'[i] = IF i <= Len(wire) THEN wire[i] ELSE Slice(n)[i - Len(wire)]
    BY <1>1, <1>4, <1>6
<1>8. \A i : Owed(i)' = Owed(i)
    BY <1>2 DEF Owed
<1>9. WireExact'
    <2>1. ASSUME NEW i \in 1..Len(wire) + n
          PROVE  wire'[i] = Owed(i)
        <3>1. CASE i <= Len(wire)
            <4>1. i \in 1..Len(wire)
                BY <3>1, <1>5
            <4>. QED  BY <4>1, <3>1, <1>7 DEF IInv, WireExact
        <3>2. CASE i > Len(wire)
            <4>1. /\ i - Len(wire) \in 1..n
                  /\ offset + (i - Len(wire)) \in 1..Len(buffer)
                  /\ Len(wire) - offset + (offset + (i - Len(wire))) = i
                BY <3>2, <1>3, <1>5
            <4>2. wire'[i] = buffer[offset + (i - Len(wire))]
                BY <4>1, <3>2, <1>4, <1>5, <1>7
            <4>3. buffer[offset + (i - Len(wire))]
                    = Owed(Len(wire) - offset + (offset + (i - Len(wire))))
                BY <4>1, <1>2 DEF IInv, BufferExact
            <4>. QED  BY <4>1, <4>2, <4>3
        <3>. QED  BY <3>1, <3>2, <1>5, <1>3
    <2>. QED  BY <2>1, <1>7, <1>8 DEF WireExact
<1>10. CASE Drained(n)
    <2>1. /\ buffer' = <<>> /\ phase' = "Fill" /\ offset' = 0 /\ Len(buffer') = 0
          /\ buffer' \in Seq(Cell) /\ n = Len(buffer) - offset
        BY <1>1, <1>3, <1>10, EmptySeq DEF Drained
    <2>2. TypeOK'
        <3>1. Len(buffer') <= Capacity
            BY <2>1, WriterAssumption
        <3>2. pushed' \in Nat /\ pushed' <= Len(wire')
            BY <1>1, <1>3, <1>5, <1>7 DEF IInv, TypeOK
        <3>3. call' \in {"idle", "write", "flush"} /\ last' \in {"flushed", "open", "failed"}
            BY <1>1 DEF IInv, TypeOK
        <3>4. wireAt' <= Len(wire')
            BY <1>2, <1>3, <1>5, <1>7 DEF IInv, TypeOK
        <3>. QED  BY <1>2, <1>7, <2>1, <3>1, <3>2, <3>3, <3>4 DEF IInv, TypeOK
    <2>3. BufferExact'
        BY <2>1 DEF BufferExact
    <2>4. Due' = Len(wire')
        BY <1>2, <1>3, <1>5, <1>7, <2>1 DEF IInv, NothingDropped, Due, Remaining
    <2>5. NothingDropped' /\ FlushedIsDelivered'
        BY <2>1, <2>4, <1>5, <1>7, <1>3 DEF NothingDropped, FlushedIsDelivered, Remaining
    <2>6. KeystreamExact'
        <3>1. CASE mode = "Encrypt"
            <4>1. /\ Len(wire) - offset >= wireAt /\ wireAt \in Nat
                  /\ keystream = (Len(wire) - wireAt) + (Len(buffer) - offset)
                BY <3>1, <1>2 DEF IInv, TypeOK, KeystreamExact, Remaining
            <4>. QED  BY <4>1, <1>2, <1>3, <1>5, <1>7, <2>1 DEF KeystreamExact
        <3>. QED  BY <3>1, <1>2 DEF KeystreamExact
    <2>7. Started'
        BY <1>1, <1>2, <2>1 DEF IInv, Started
    <2>. QED  BY <1>9, <2>2, <2>3, <2>5, <2>6, <2>7 DEF IInv
<1>11. CASE ~Drained(n)
    <2>1. /\ buffer' = buffer /\ phase' = phase /\ offset' = offset + n
          /\ call' = call /\ last' = last /\ offset + n <= Len(buffer)
        BY <1>1, <1>3, <1>11 DEF FlushDone
    <2>2. TypeOK'
        BY <1>1, <1>2, <1>3, <1>5, <1>7, <2>1 DEF IInv, TypeOK
    <2>3. BufferExact'
        <3>1. ASSUME NEW j \in 1..Len(buffer)
              PROVE  buffer[j] = Owed(Len(wire') - offset' + j)
            <4>1. Len(wire') - offset' + j = Len(wire) - offset + j
                BY <2>1, <1>3, <1>5, <1>7
            <4>. QED  BY <4>1, <1>2 DEF IInv, BufferExact
        <3>. QED  BY <3>1, <2>1, <1>2, <1>8 DEF BufferExact
    <2>4. NothingDropped'
        <3>1. Due' = Due
            BY <1>2 DEF Due
        <3>. QED  BY <3>1, <2>1, <1>3, <1>5, <1>7 DEF IInv, NothingDropped, Remaining
    <2>5. FlushedIsDelivered' /\ Started'
        BY <2>1, <1>2, <1>3, <1>5, <1>7 DEF IInv, FlushedIsDelivered, Started
    <2>6. KeystreamExact'
        <3>1. CASE mode = "Encrypt"
            <4>1. /\ Len(wire) - offset >= wireAt /\ wireAt \in Nat
                  /\ keystream = (Len(wire) - wireAt) + (Len(buffer) - offset)
                BY <3>1, <1>2 DEF IInv, TypeOK, KeystreamExact, Remaining
            <4>2. /\ Len(wire') - offset' >= wireAt
                  /\ keystream = (Len(wire') - wireAt) + (Len(buffer') - offset')
                BY <4>1, <1>3, <1>5, <1>7, <2>1
            <4>. QED  BY <4>2, <1>2, <2>1 DEF KeystreamExact, Remaining
        <3>. QED  BY <3>1, <1>2 DEF KeystreamExact
    <2>. QED  BY <1>9, <2>2, <2>3, <2>4, <2>5, <2>6 DEF IInv
<1>. QED  BY <1>10, <1>11

-----------------------------------------------------------------------------
(* The theorems. *)

\* A writer that was just made holds nothing and has sent nothing.
LEMMA InitEstablishes == Init => IInv
<1>. SUFFICES ASSUME Init PROVE IInv
    OBVIOUS
<1>1. Len(buffer) = 0 /\ Len(wire) = 0 /\ buffer \in Seq(Cell) /\ wire \in Seq(Cell)
    BY EmptySeq DEF Init
<1>2. TypeOK
    BY <1>1, WriterAssumption DEF Init, TypeOK
<1>3. WireExact /\ BufferExact
    BY <1>1 DEF WireExact, BufferExact
<1>4. NothingDropped /\ FlushedIsDelivered /\ KeystreamExact /\ Started
    BY <1>1 DEF Init, NothingDropped, FlushedIsDelivered, KeystreamExact, Started, Due, Remaining
<1>. QED  BY <1>2, <1>3, <1>4 DEF IInv

\* Every poll, and every step outside the writer, keeps the invariant.
LEMMA NextKeeps == IInv /\ [Next]_vars => IInv'
<1>. SUFFICES ASSUME IInv, [Next]_vars PROVE IInv'
    OBVIOUS
<1>. USE DEF IInv, TypeOK, Started
<1>1. CASE StartWrite
    <2>1. todo' \in Nat
        BY <1>1, WriterAssumption DEF StartWrite
    <2>. QED  BY <1>1, <2>1, OutsideWriterKeeps DEF StartWrite
<1>2. CASE StartFlush
    BY <1>2, OutsideWriterKeeps DEF StartFlush
<1>3. CASE WithEncryption
    BY <1>3, WithEncryptionKeeps
<1>4. CASE Cancel
    BY <1>4, OutsideWriterKeeps DEF Cancel
<1>5. CASE Wake
    BY <1>5, OutsideWriterKeeps DEF Wake
<1>6. CASE Copy
    BY <1>6, CopyKeeps
<1>7. CASE BeginDrain
    BY <1>7, BeginDrainKeeps
<1>8. CASE InnerWrite
    BY <1>8, InnerWriteKeeps
<1>9. CASE InnerPending
    BY <1>9, OutsideWriterKeeps DEF InnerPending, Polling
<1>10. CASE InnerError
    BY <1>10, OutsideWriterKeeps DEF InnerError
<1>11. CASE UNCHANGED vars
    BY <1>11, OutsideWriterKeeps DEF vars, writer, sink, marks
<1>. QED  BY <1>1, <1>2, <1>3, <1>4, <1>5, <1>6, <1>7, <1>8, <1>9, <1>10, <1>11 DEF Next

\* The inductive invariant holds in every reachable state.
LEMMA Invariance == Spec => []IInv
BY InitEstablishes, NextKeeps, PTL DEF Spec

\* The buffer never outgrows the capacity that poll_write reads as its bound,
\* whatever the sizes, and the offset of Write stays inside it.
THEOREM TypeCorrect == Spec => []TypeOK
BY Invariance, PTL DEF IInv

\* Through errors, cancellations, partial writes and retries the peer reads
\* the bytes written, each once, in order and enciphered once after the switch.
THEOREM WireIsExact == Spec => []WireExact
BY Invariance, PTL DEF IInv

\* No accepted byte is lost by poll_write or poll_flush.
THEOREM NothingIsDropped == Spec => []NothingDropped
BY Invariance, PTL DEF IInv

\* A flush that returns Ok leaves nothing that with_encryption could clear.
THEOREM FlushDelivers == Spec => []FlushedIsDelivered
BY Invariance, PTL DEF IInv

\* What the inner writer holds back: no more than it may, since only its own
\* answers move the wire and what it passed on.
HeldBack == Len(wire) <= pushed + SinkBuffer

LEMMA InitHeldBack == Init => HeldBack
BY EmptySeq, WriterAssumption DEF Init, HeldBack

\* An answer of the inner writer keeps to its bound; no other step of the
\* writer or of its caller reaches what is already with it.
LEMMA NextHeldBack == IInv /\ HeldBack /\ [Next]_vars => HeldBack'
<1>. SUFFICES ASSUME IInv, HeldBack, [Next]_vars
              PROVE  HeldBack'
    OBVIOUS
<1>1. CASE InnerWrite
    <2>1. PICK n \in SinkAnswers :
              /\ wire' = wire \o Slice(n)
              /\ pushed' \in {p \in pushed..Len(wire) + n : Len(wire) + n - p <= SinkBuffer}
        BY <1>1 DEF InnerWrite
    <2>2. /\ wire \in Seq(Cell) /\ buffer \in Seq(Cell) /\ offset \in Nat
          /\ pushed \in Nat /\ n \in Nat /\ offset + n <= Len(buffer)
        BY SinkAnswersShape DEF IInv, TypeOK
    <2>3. wire \in Seq(Cell) /\ Slice(n) \in Seq(Cell) /\ Len(Slice(n)) = n /\ n \in Nat
        BY <2>2, SliceShape
    <2>6. Len(wire) \in Nat
        BY <2>2, LenProperties
    <2>4. Len(wire') = Len(wire) + n
        BY <2>1, <2>3, ConcatProperties
    <2>5. pushed' \in Nat /\ Len(wire) + n - pushed' <= SinkBuffer
        BY <2>1, <2>2, <2>6
    <2>. QED  BY <2>2, <2>4, <2>5, <2>6, WriterAssumption DEF HeldBack
<1>2. CASE ~InnerWrite
    <2>1. UNCHANGED sink
        BY <1>2 DEF Next, StartWrite, StartFlush, WithEncryption, Cancel, Wake,
                    Copy, BeginDrain, InnerPending, InnerError, vars, sink
    <2>. QED  BY <2>1 DEF HeldBack, sink
<1>. QED  BY <1>1, <1>2

\* An inner writer never holds back more than it may.
LEMMA HeldBackIsBounded == Spec => []HeldBack
<1>1. IInv /\ HeldBack /\ [Next]_vars => HeldBack'
    BY NextHeldBack
<1>. QED  BY InitHeldBack, Invariance, <1>1, PTL DEF Spec

\* What a flush that returned Ok has brought about at the peer: of all the bytes
\* owed since the start, those copied into the buffer included, every one but the
\* last SinkBuffer, in its final form.
FlushedAtPeer ==
    call = "idle" /\ last = "flushed" =>
        \A i \in 1..Due : i + SinkBuffer <= Due => i <= pushed /\ wire[i] = Owed(i)

\* The extent of the flush that is not passed on: poll_flush empties the writer's
\* own buffer, exactly and after any failure, so that only what the inner writer
\* itself may keep is missing; over a bare socket, which keeps nothing, all of
\* it has reached the peer.
THEOREM FlushReachesAllButHeldBack == Spec => []FlushedAtPeer
<1>1. IInv /\ HeldBack => FlushedAtPeer
    <2>. SUFFICES ASSUME IInv, HeldBack, call = "idle", last = "flushed",
                         NEW i \in 1..Due, i + SinkBuffer <= Due
                  PROVE  i <= pushed /\ wire[i] = Owed(i)
        BY DEF FlushedAtPeer
    <2>1. pushed \in Nat /\ Len(wire) \in Nat /\ Len(wire) <= pushed + SinkBuffer
        BY LenProperties DEF IInv, TypeOK, HeldBack
    <2>2. Len(wire) = Due
        BY DEF IInv, FlushedIsDelivered
    <2>3. i \in 1..Len(wire) /\ i <= pushed
        BY <2>1, <2>2, WriterAssumption
    <2>. QED  BY <2>3 DEF IInv, WireExact
<1>. QED  BY HeldBackIsBounded, Invariance, <1>1, PTL
-----------------------------------------------------------------------------
(***************************************************************************)
(* AsyncBufferedWriter implements BytePipe, for every buffer size, every   *)
(* slice length and every inner writer.                                    *)
(*                                                                         *)
(* In a reachable state the abstract pipe's cells are the bytes the peer   *)
(* has to receive, in its final form: Stream.  The buffer, the offset and  *)
(* the phase disappear, and each action becomes one on Stream alone.       *)
(***************************************************************************)

Stream == [i \in 1..Due |-> Owed(i)]

\* The two substitutions that depend on the writer's buffer.
PipeOwed == wire \o Unsent
PipeKeystream == IF phase = "Fill" /\ mode = "Encrypt"
                 THEN keystream + Len(buffer) ELSE keystream

\* What IInv leaves open: no keystream is used before the switch, and write_all
\* polls with the rest of a slice only.
CallExact ==
    /\ mode = "Standard" => keystream = 0
    /\ call = "write" => todo \in 1..MaxWrite

RInv == IInv /\ CallExact

-----------------------------------------------------------------------------
\* No call runs at first, and no keystream is used.
LEMMA InitCallExact == Init => CallExact
BY DEF Init, CallExact

\* Every step keeps what the refinement needs of a call.
LEMMA NextCallExact == IInv /\ CallExact /\ [Next]_vars => CallExact'
<1>. SUFFICES ASSUME IInv, CallExact, [Next]_vars PROVE CallExact'
    OBVIOUS
<1>. USE DEF CallExact
<1>1. CASE StartWrite
    BY <1>1 DEF StartWrite, writer
<1>2. CASE StartFlush
    BY <1>2 DEF StartFlush, writer
<1>3. CASE WithEncryption
    BY <1>3 DEF WithEncryption, caller
<1>4. CASE Cancel
    BY <1>4 DEF Cancel, writer
<1>5. CASE Wake
    BY <1>5 DEF Wake, writer
<1>6. CASE Copy
    <2>1. todo \in 1..MaxWrite /\ Free \in Nat /\ Free > 0
        BY <1>6, LenProperties, WriterAssumption DEF Copy, Free, IInv, TypeOK
    <2>2. call' = "write" => todo' \in 1..MaxWrite
        BY <1>6, <2>1, WriterAssumption DEF Copy, Minimum
    <2>. QED  BY <1>6, <2>2 DEF Copy
<1>7. CASE BeginDrain
    BY <1>7 DEF BeginDrain, caller
<1>8. CASE InnerWrite
    BY <1>8 DEF InnerWrite
<1>9. CASE InnerPending
    BY <1>9 DEF InnerPending, writer
<1>10. CASE InnerError
    BY <1>10 DEF InnerError, writer
<1>11. CASE UNCHANGED vars
    BY <1>11 DEF vars
<1>. QED  BY <1>1, <1>2, <1>3, <1>4, <1>5, <1>6, <1>7, <1>8, <1>9, <1>10, <1>11 DEF Next

\* Both invariants hold in every reachable state.
LEMMA RInvariance == Spec => []RInv
<1>1. Init => RInv
    BY InitEstablishes, InitCallExact DEF RInv
<1>2. RInv /\ [Next]_vars => RInv'
    BY NextKeeps, NextCallExact DEF RInv
<1>. QED  BY <1>1, <1>2, PTL DEF Spec

-----------------------------------------------------------------------------
(* The abstract state. *)

\* The bytes that wait are those due behind the wire.
LEMMA UnsentIsOwed ==
    ASSUME IInv
    PROVE  /\ Unsent \in Seq(Cell) /\ Len(Unsent) = Remaining /\ Remaining \in Nat
           /\ \A j \in 1..Remaining : Unsent[j] = Owed(Len(wire) + j)
<1>1. /\ Len(buffer) \in Nat /\ Len(wire) \in Nat /\ offset \in Nat
      /\ Remaining \in Nat /\ offset + Remaining = Len(buffer)
    BY LenProperties DEF IInv, TypeOK, Remaining
<1>2. CASE mode = "Encrypt" /\ phase = "Fill"
    <2>1. Unsent = Encrypted /\ Remaining = Len(buffer)
        BY <1>1, <1>2 DEF Unsent, IInv, TypeOK, Remaining
    <2>2. Encrypted \in Seq(Cell) /\ Len(Encrypted) = Len(buffer)
        BY EncryptedShape DEF IInv, TypeOK
    <2>. QED  BY <1>1, <1>2, <2>1, <2>2, EncryptedIsOwed
<1>3. CASE ~(mode = "Encrypt" /\ phase = "Fill")
    <2>4. Unsent = Slice(Remaining)
        BY <1>3 DEF Unsent
    <2>5. /\ Slice(Remaining) \in Seq(Cell) /\ Len(Slice(Remaining)) = Remaining
          /\ \A j \in 1..Remaining : Slice(Remaining)[j] = buffer[offset + j]
      <3>1. buffer \in Seq(Cell)
        BY DEF IInv, TypeOK
      <3>2. PICK n \in Nat : n = Remaining /\ offset + n <= Len(buffer)
        BY <1>1
      <3>. QED  BY <1>1, <3>1, <3>2, SliceShape
    <2>1. /\ Unsent = Slice(Remaining)
          /\ Slice(Remaining) \in Seq(Cell) /\ Len(Slice(Remaining)) = Remaining
          /\ \A j \in 1..Remaining : Slice(Remaining)[j] = buffer[offset + j]
        BY <2>4, <2>5
    <2>2. ASSUME NEW j \in 1..Remaining
          PROVE  buffer[offset + j] = Owed(Len(wire) + j)
        <3>1. offset + j \in 1..Len(buffer)
            BY <1>1
        <3>2. CASE phase = "Fill"
            <4>1. offset = 0 /\ mode = "Standard"
                BY <1>3, <3>2 DEF IInv, TypeOK
            <4>2. buffer[offset + j] = [b |-> Owed(Len(wire) + j).b, e |-> <<>>]
                BY <3>1, <3>2, <4>1 DEF IInv, BufferExact
            <4>. QED  BY <4>1, <4>2 DEF Owed
        <3>3. CASE phase = "Write"
            <4>1. Len(wire) - offset + (offset + j) = Len(wire) + j
                BY <1>1
            <4>. QED  BY <3>1, <3>3, <4>1 DEF IInv, BufferExact
        <3>. QED  BY <3>2, <3>3 DEF IInv, TypeOK
    <2>. QED  BY <1>1, <2>1, <2>2
<1>. QED  BY <1>2, <1>3

\* The pipe's cells are Stream, its keystream is what the bytes since the switch
\* use, and what has been sent is a prefix.
PipeExact ==
    /\ PipeOwed = Stream
    /\ PipeKeystream = IF mode = "Encrypt" THEN Due - wireAt ELSE 0
    /\ Due \in Nat /\ Len(wire) \in Nat /\ Len(wire) <= Due
    /\ Stream \in Seq(Cell) /\ Len(Stream) = Due

\* Whatever the phase and the offset, the wire and what waits are the stream
\* owed.
LEMMA PipeState == RInv => PipeExact
<1>. SUFFICES ASSUME RInv PROVE PipeExact
    OBVIOUS
<1>1. /\ wire \in Seq(Cell) /\ Len(wire) \in Nat /\ Len(buffer) \in Nat
      /\ wireAt \in 0..Len(wire)
    BY LenProperties DEF RInv, IInv, TypeOK
<1>2. /\ Unsent \in Seq(Cell) /\ Len(Unsent) = Remaining /\ Remaining \in Nat
      /\ \A j \in 1..Remaining : Unsent[j] = Owed(Len(wire) + j)
    BY UnsentIsOwed DEF RInv
<1>3. Due = Len(wire) + Remaining
    BY DEF RInv, IInv, NothingDropped
<1>4. /\ PipeOwed \in Seq(Cell) /\ Len(PipeOwed) = Due
      /\ \A i \in 1..Due :
            PipeOwed[i] = IF i <= Len(wire) THEN wire[i] ELSE Unsent[i - Len(wire)]
    BY <1>1, <1>2, <1>3, ConcatProperties DEF PipeOwed
<1>5. ASSUME NEW i \in 1..Due
      PROVE  PipeOwed[i] = Owed(i)
    <2>1. CASE i <= Len(wire)
        <3>1. i \in 1..Len(wire)
            BY <2>1, <1>1, <1>2, <1>3
        <3>. QED  BY <2>1, <3>1, <1>4 DEF RInv, IInv, WireExact
    <2>2. CASE i > Len(wire)
        <3>1. i - Len(wire) \in 1..Remaining /\ Len(wire) + (i - Len(wire)) = i
            BY <2>2, <1>1, <1>2, <1>3
        <3>2. PipeOwed[i] = Unsent[i - Len(wire)]
            BY <2>2, <1>1, <1>4
        <3>3. PICK k \in 1..Remaining : k = i - Len(wire)
            BY <3>1
        <3>4. Unsent[k] = Owed(Len(wire) + k)
            BY <1>2
        <3>5. Len(wire) + k = i
            BY <3>1, <3>3
        <3>. QED  BY <3>2, <3>3, <3>4, <3>5
    <2>. QED  BY <2>1, <2>2, <1>1, <1>2, <1>3
<1>6. Due \in Nat /\ Len(wire) <= Due
    BY <1>1, <1>2, <1>3
<1>7. Stream \in [1..Due -> Cell]
    <2>1. \A i \in 1..Due : Owed(i) \in Cell
        BY <1>4, <1>5, ElementOfSeq
    <2>. QED  BY <2>1 DEF Stream
<1>8. Stream \in Seq(Cell) /\ Len(Stream) = Due
    BY <1>6, <1>7, FunctionIsSeq
<1>9. \A i \in 1..Due : Stream[i] = Owed(i)
    BY DEF Stream
<1>10. PipeOwed = Stream
    BY <1>4, <1>5, <1>8, <1>9, SeqEqual
<1>11. PipeKeystream = IF mode = "Encrypt" THEN Due - wireAt ELSE 0
    <2>1. CASE mode = "Encrypt"
        <3>1. keystream = (Len(wire) - wireAt) + IF phase = "Fill" THEN 0 ELSE Remaining
            BY <2>1 DEF RInv, IInv, KeystreamExact
        <3>2. CASE phase = "Fill"
            <4>1. Remaining = Len(buffer)
                BY <3>2, <1>1 DEF RInv, IInv, TypeOK, Remaining
            <4>2. PipeKeystream = keystream + Len(buffer)
                BY <2>1, <3>2 DEF PipeKeystream
            <4>3. PipeKeystream = Due - wireAt
                BY <3>1, <3>2, <4>1, <4>2, <1>1, <1>3
            <4>. QED  BY <2>1, <4>3
        <3>3. CASE phase = "Write"
            <4>1. PipeKeystream = keystream
                BY <3>3 DEF PipeKeystream
            <4>2. PipeKeystream = Due - wireAt
                BY <3>1, <3>3, <4>1, <1>1, <1>2, <1>3
            <4>. QED  BY <2>1, <4>2
        <3>. QED  BY <3>2, <3>3 DEF RInv, IInv, TypeOK
    <2>2. CASE mode = "Standard"
        BY <2>2 DEF RInv, CallExact, PipeKeystream
    <2>. QED  BY <2>1, <2>2 DEF RInv, IInv, TypeOK
<1>. QED  BY <1>1, <1>6, <1>8, <1>10, <1>11 DEF PipeExact

-----------------------------------------------------------------------------
(* Every step is one of the pipe's or invisible. *)

\* Steps that move bytes inside the writer, or none: nothing of the pipe changes
\* as long as the bytes due and the wire stay.
LEMMA StreamUnchanged ==
    ASSUME mode' = mode, accepted' = accepted, keyAt' = keyAt, wireAt' = wireAt
    PROVE  Stream' = Stream /\ Due' = Due
<1>1. \A i : Owed(i)' = Owed(i)
    BY DEF Owed
<1>. QED  BY <1>1 DEF Stream, Due

\* Between two of these steps the pipe keeps its bytes: only `clean` may change.
LEMMA QuietStep ==
    ASSUME PipeExact, PipeExact', UNCHANGED <<mode, accepted, keyAt, wireAt, wire>>
    PROVE  UNCHANGED <<PipeOwed, wire, accepted, mode, PipeKeystream>>
BY StreamUnchanged DEF PipeExact

\* A step that keeps the stream and the marks is a Touch of the pipe, or
\* invisible to it.
LEMMA TouchOrStutter ==
    ASSUME PipeExact, PipeExact', UNCHANGED <<mode, accepted, keyAt, wireAt, wire>>,
           last' # "flushed" \/ last' = last
    PROVE  Pipe!Touch \/ UNCHANGED Pipe!vars
<1>1. UNCHANGED <<PipeOwed, wire, accepted, mode, PipeKeystream>>
    BY QuietStep
<1>2. CASE last' # "flushed"
    BY <1>1, <1>2 DEF Pipe!Touch, PipeOwed, PipeKeystream
<1>3. CASE last' = last
    BY <1>1, <1>3 DEF Pipe!vars, PipeOwed, PipeKeystream
<1>. QED  BY <1>2, <1>3

\* InnerWrite: the wire grows within what is due; a flush ends with all of it.
LEMMA InnerWriteSends ==
    ASSUME RInv, PipeExact, RInv', PipeExact', InnerWrite
    PROVE  Pipe!Send
<1>1. UNCHANGED <<mode, accepted, keyAt, wireAt>>
    BY DEF InnerWrite, marks
<1>2. Stream' = Stream /\ Due' = Due
    BY <1>1, StreamUnchanged
<1>3. UNCHANGED <<PipeOwed, accepted, mode, PipeKeystream>>
    BY <1>1, <1>2 DEF PipeExact
<1>4. Len(wire) <= Len(wire')
    <2>1. PICK n \in SinkAnswers : wire' = wire \o Slice(n)
        BY DEF InnerWrite
    <2>2. wire \in Seq(Cell) /\ Slice(n) \in Seq(Cell) /\ Len(Slice(n)) = n /\ n \in Nat
        BY SliceShape, SinkAnswersShape DEF RInv, IInv, TypeOK
    <2>3. Len(wire') = Len(wire) + n
        BY <2>1, <2>2, ConcatProperties
    <2>. QED  BY <2>2, <2>3 DEF PipeExact
<1>5. Len(wire') \in Len(wire)..Len(PipeOwed)
    BY <1>2, <1>4 DEF PipeExact
<1>6. last' = "flushed" => Len(wire') = Len(PipeOwed)
    <2>1. last' = "flushed" => call' = "idle"
        BY DEF RInv, IInv, Started
    <2>. QED  BY <2>1, <1>2 DEF RInv, IInv, FlushedIsDelivered, PipeExact
<1>. QED  BY <1>3, <1>5, <1>6 DEF Pipe!Send, PipeOwed, PipeKeystream

\* WithEncryption: what was due and is not on the wire is forgotten.
LEMMA WithEncryptionStarts ==
    ASSUME RInv, PipeExact, RInv', PipeExact', WithEncryption
    PROVE  Pipe!StartCipher
<1>1. /\ mode = "Standard" /\ mode' = "Encrypt"
      /\ wire' = wire /\ last' = last /\ accepted' = accepted
      /\ keyAt' = accepted /\ wireAt' = Len(wire) /\ Len(wire) \in Nat
      /\ accepted \in Nat
    BY DEF WithEncryption, sink, caller, PipeExact, RInv, IInv, TypeOK
<1>2. Due' = Len(wire)
    BY <1>1 DEF Due
<1>3. PipeKeystream' = 0
    BY <1>1, <1>2 DEF PipeExact
<1>4. PipeOwed' = SubSeq(PipeOwed, 1, Len(wire))
    <2>. DEFINE sub == SubSeq(Stream, 1, Len(wire))
    <2>1. \A i \in 1..Len(wire) : Stream[i] \in Cell
        BY ElementOfSeq DEF PipeExact
    <2>2. /\ sub \in Seq(Cell) /\ Len(sub) = Len(wire)
          /\ \A i \in 1..Len(wire) : sub[i] = Stream[i]
        BY <2>1, <1>1, SubSeqProperties
    <2>3. \A i \in 1..Len(wire) : Stream[i] = Owed(i)
        BY <1>1 DEF Stream, PipeExact
    <2>4. \A i \in 1..Len(wire) : Owed(i) = [b |-> i, e |-> <<>>] /\ Owed(i)' = [b |-> i, e |-> <<>>]
        BY <1>1 DEF Owed
    <2>5. \A i \in 1..Len(wire) : Stream'[i] = Owed(i)'
        BY <1>2 DEF Stream
    <2>6. Stream' \in Seq(Cell) /\ Len(Stream') = Len(wire)
        BY <1>2 DEF PipeExact
    <2>. HIDE DEF sub
    <2>7. Stream' = sub
        BY <2>2, <2>3, <2>4, <2>5, <2>6, SeqEqual
    <2>. QED  BY <2>7 DEF sub, PipeExact
<1>. QED  BY <1>1, <1>3, <1>4 DEF Pipe!StartCipher, PipeOwed, PipeKeystream

\* Copy: the bytes taken are due behind all others, already in their last form.
LEMMA CopyAccepts ==
    ASSUME RInv, PipeExact, RInv', PipeExact', Copy
    PROVE  Pipe!Accept
<1>. DEFINE n == Minimum(Free, todo)
<1>1. n \in 1..MaxWrite
    <2>1. todo \in 1..MaxWrite /\ Free \in Nat /\ Free > 0
        BY LenProperties, WriterAssumption DEF Copy, Free, RInv, CallExact, IInv, TypeOK
    <2>. QED  BY <2>1, WriterAssumption DEF Minimum
<1>2. /\ accepted' = accepted + n /\ accepted \in Nat /\ keyAt \in Nat /\ wireAt \in Nat
      /\ UNCHANGED <<mode, wire, last, keyAt, wireAt>>
      /\ mode \in {"Standard", "Encrypt"}
    BY DEF Copy, sink, marks, RInv, IInv, TypeOK
<1>. HIDE DEF n
<1>3. n \in Nat /\ Due \in Nat /\ Due' = Due + n
    BY <1>1, <1>2, WriterAssumption DEF Due, PipeExact
<1>4. PipeKeystream' = IF mode = "Encrypt" THEN PipeKeystream + n ELSE 0
    BY <1>2, <1>3 DEF PipeExact
<1>. DEFINE new == [j \in 1..n |->
                       [b |-> accepted + j,
                        e |-> IF mode = "Encrypt" THEN <<PipeKeystream + j>> ELSE <<>>]]
<1>5. \A i : Owed(i)' = Owed(i)
    BY <1>2 DEF Owed
<1>6. ASSUME NEW j \in 1..n
      PROVE  Owed(Due + j) = new[j]
    <2>1. CASE mode = "Standard"
        <3>1. Due = accepted
            BY <2>1 DEF Due
        <3>. QED  BY <2>1, <3>1 DEF Owed
    <2>2. CASE mode = "Encrypt"
        <3>1. Due = wireAt + (accepted - keyAt) /\ PipeKeystream = Due - wireAt
            BY <2>2 DEF Due, PipeExact
        <3>2. wireAt <= Due
            BY <2>2, <1>2 DEF PipeExact, RInv, IInv, TypeOK
        <3>3. /\ ~(Due + j <= wireAt)
              /\ keyAt + ((Due + j) - wireAt) = accepted + j
              /\ (Due + j) - wireAt = PipeKeystream + j
            BY <3>1, <3>2, <1>2, <1>3
        <3>4. Owed(Due + j) = [b |-> keyAt + ((Due + j) - wireAt), e |-> <<(Due + j) - wireAt>>]
            <4>1. mode # "Standard"
                BY <2>2
            <4>. QED  BY <4>1, <3>3, Zenon DEF Owed
        <3>. QED  BY <2>2, <3>3, <3>4
    <2>. QED  BY <2>1, <2>2, <1>2
<1>7. new \in Seq(Cell) /\ Len(new) = n
    <2>1. Stream' \in Seq(Cell) /\ Len(Stream') = Due + n
        BY <1>3 DEF PipeExact
    <2>2. ASSUME NEW j \in 1..n
          PROVE  Owed(Due + j) \in Cell
        <3>1. Due + j \in 1..Due + n
            BY <1>3
        <3>2. Stream'[Due + j] = Owed(Due + j)
            BY <3>1, <1>3, <1>5 DEF Stream
        <3>. QED  BY <2>1, <3>1, <3>2, ElementOfSeq
    <2>3. new \in [1..n -> Cell]
        <3>1. \A j \in 1..n : new[j] \in Cell
            BY <2>2, <1>6
        <3>. QED  BY <3>1
    <2>. QED  BY <2>3, <1>3, FunctionIsSeq
<1>. HIDE DEF new
<1>8. Stream' = Stream \o new
    <2>1. Stream \in Seq(Cell) /\ Len(Stream) = Due
        BY DEF PipeExact
    <2>2. Stream' \in Seq(Cell) /\ Len(Stream') = Due + n
        BY <1>3 DEF PipeExact
    <2>3. /\ Stream \o new \in Seq(Cell) /\ Len(Stream \o new) = Due + n
          /\ \A i \in 1..Due + n :
                (Stream \o new)[i] = IF i <= Due THEN Stream[i] ELSE new[i - Due]
        <3>1. /\ Stream \o new \in Seq(Cell)
              /\ Len(Stream \o new) = Len(Stream) + Len(new)
              /\ \A i \in 1..Len(Stream) + Len(new) :
                    (Stream \o new)[i] = IF i <= Len(Stream) THEN Stream[i] ELSE new[i - Len(Stream)]
            BY <2>1, <1>7, ConcatProperties
        <3>. QED  BY <3>1, <2>1, <1>7
    <2>4. ASSUME NEW i \in 1..Due + n
          PROVE  Stream'[i] = (Stream \o new)[i]
        <3>1. Stream'[i] = Owed(i)
            BY <1>3, <1>5 DEF Stream
        <3>2. CASE i <= Due
            <4>1. i \in 1..Due
                BY <3>2, <1>3
            <4>2. Stream[i] = Owed(i)
                BY <4>1 DEF Stream
            <4>. QED  BY <3>1, <3>2, <4>2, <2>3
        <3>3. CASE i > Due
            <4>1. i - Due \in 1..n /\ Due + (i - Due) = i
                BY <3>3, <1>3
            <4>2. Owed(i) = new[i - Due]
                BY <4>1, <1>6
            <4>. QED  BY <3>1, <3>3, <4>2, <2>3, <1>3
        <3>4. i <= Due \/ i > Due
            BY <1>3
        <3>. QED  BY <3>2, <3>3, <3>4, Zenon
    <2>. QED  BY <2>2, <2>3, <2>4, SeqEqual
<1>9. PipeOwed' = PipeOwed \o Pipe!NewCells(n)
    BY <1>8 DEF PipeExact, new, Pipe!NewCells, PipeKeystream
<1>10. Len(wire') \in Len(wire)..Len(PipeOwed)
    BY <1>2 DEF PipeExact
<1>. QED  BY <1>1, <1>2, <1>4, <1>9, <1>10 DEF Pipe!Accept, PipeOwed, PipeKeystream

-----------------------------------------------------------------------------
\* The pipe starts empty.
LEMMA InitRefines == Init => Pipe!Init
<1>. SUFFICES ASSUME Init PROVE Pipe!Init
    OBVIOUS
<1>1. wire = <<>> /\ buffer = <<>> /\ Len(wire) = 0 /\ Len(buffer) = 0
    BY EmptySeq DEF Init
<1>2. PipeExact
    BY InitEstablishes, InitCallExact, PipeState DEF RInv
<1>3. PipeOwed = <<>>
    <2>1. Due = 0
        BY DEF Init, Due
    <2>2. Stream \in Seq(Cell) /\ Len(Stream) = 0 /\ PipeOwed = Stream
        BY <1>2, <2>1 DEF PipeExact
    <2>. QED  BY <2>2, EmptySeq
<1>. QED  BY <1>1, <1>3 DEF Init, Pipe!Init, PipeOwed

\* Each step is a step of the pipe or invisible.
LEMMA NextRefines ==
    RInv /\ PipeExact /\ RInv' /\ PipeExact' /\ [Next]_vars => [Pipe!Next]_Pipe!vars
<1>. SUFFICES ASSUME RInv, PipeExact, RInv', PipeExact', [Next]_vars
              PROVE  Pipe!Next \/ UNCHANGED Pipe!vars
    OBVIOUS
<1>1. CASE StartWrite
    BY <1>1, TouchOrStutter DEF StartWrite, writer, sink, marks, Pipe!Next
<1>2. CASE StartFlush
    BY <1>2, TouchOrStutter DEF StartFlush, writer, sink, marks, Pipe!Next
<1>3. CASE WithEncryption
    BY <1>3, WithEncryptionStarts DEF Pipe!Next
<1>4. CASE Cancel
    BY <1>4, TouchOrStutter DEF Cancel, writer, sink, marks, Pipe!Next
<1>5. CASE Wake
    BY <1>5, TouchOrStutter DEF Wake, writer, sink, marks, Pipe!Next
<1>6. CASE Copy
    BY <1>6, CopyAccepts DEF Pipe!Next
<1>7. CASE BeginDrain
    BY <1>7, TouchOrStutter DEF BeginDrain, caller, sink, marks, Pipe!Next
<1>8. CASE InnerWrite
    BY <1>8, InnerWriteSends DEF Pipe!Next
<1>9. CASE InnerPending
    BY <1>9, TouchOrStutter DEF InnerPending, writer, sink, marks, Pipe!Next
<1>10. CASE InnerError
    BY <1>10, TouchOrStutter DEF InnerError, writer, sink, marks, Pipe!Next
<1>11. CASE UNCHANGED vars
    BY <1>11, TouchOrStutter DEF vars, Pipe!Next
<1>. QED  BY <1>1, <1>2, <1>3, <1>4, <1>5, <1>6, <1>7, <1>8, <1>9, <1>10, <1>11 DEF Next

\* To its callers the asynchronous writer is an ordered pipe whose bytes are
\* enciphered from with_encryption on, and whose Ok from a flush means empty.
THEOREM ImplementsPipe == Spec => PipeSpec
<1>1. Init => Pipe!Init
    BY InitRefines
<1>2. RInv => PipeExact
    BY PipeState
<1>3. RInv /\ PipeExact /\ RInv' /\ PipeExact' /\ [Next]_vars => [Pipe!Next]_Pipe!vars
    BY NextRefines
<1>. QED  BY RInvariance, <1>1, <1>2, <1>3, PTL DEF Spec, PipeSpec, Pipe!Spec
=============================================================================
