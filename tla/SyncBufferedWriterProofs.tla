---------------------- MODULE SyncBufferedWriterProofs ----------------------
(***************************************************************************)
(* The safety of SyncBufferedWriter for every buffer size, slice length    *)
(* and inner writer and any number of failed calls, and its refinement of  *)
(* BytePipe up to the first of them.                                       *)
(***************************************************************************)
EXTENDS SyncBufferedWriter, SequenceTheorems, TLAPS

\* The buffer holds the bytes accepted last, in order, enciphered or not.
BufferNumbered ==
    /\ Len(buffer) <= accepted
    /\ \A j \in 1..Len(buffer) : buffer[j].b + Len(buffer) = accepted + j

\* How far the wire is.  Since the switch (or the start) nothing went out, and
\* all that was accepted is in the buffer; or the last byte sent is the one
\* before the buffer or one of the buffer's, when a write_all broke off.
Frontier ==
    /\ mode = "Standard" => keyAt = 0 /\ wireAt = 0
    /\ Len(wire) = wireAt => accepted = keyAt + Len(buffer)
    /\ Len(wire) > wireAt =>
           /\ wire[Len(wire)].b + Len(buffer) >= accepted
           /\ wire[Len(wire)].b <= accepted

\* Only a write_all in progress has bytes left to hand over.
Started == todo > 0 => last = "open" /\ todo <= MaxWrite

IInv == /\ TypeOK
        /\ NeverSkips
        /\ FlushedIsDelivered
        /\ BufferNumbered
        /\ Frontier
        /\ Started

\* Before the first failure every byte waits in clear, and no keystream is used
\* before the switch.
Unbroken ==
    /\ mode = "Standard" => keystream = 0
    /\ failures = 0 =>
           /\ last # "failed"
           /\ \A j \in 1..Len(buffer) : buffer[j].e = <<>>

-----------------------------------------------------------------------------
(* What the operators return. *)

\* A function over 1..n is a sequence of length n.
LEMMA FunctionIsSeq ==
    ASSUME NEW S, NEW n \in Nat, NEW f \in [1..n -> S]
    PROVE  f \in Seq(S) /\ Len(f) = n
<1>1. f \in Seq(S)
    BY SeqDef
<1>2. DOMAIN f = 1..n /\ DOMAIN f = 1..Len(f) /\ Len(f) \in Nat
    BY <1>1, LenProperties
<1>. QED  BY <1>1, <1>2

\* The bytes copied by write are numbered on from the last one, in clear.
LEMMA NewCellsShape ==
    ASSUME accepted \in Nat, NEW n \in Nat
    PROVE  /\ NewCells(n) \in Seq(Cell) /\ Len(NewCells(n)) = n
           /\ \A j \in 1..n : NewCells(n)[j] = [b |-> accepted + j, e |-> <<>>]
<1>1. \A j \in 1..n : [b |-> accepted + j, e |-> <<>>] \in Cell
    BY DEF Cell
<1>2. NewCells(n) \in [1..n -> Cell]
    BY <1>1 DEF NewCells
<1>3. NewCells(n) \in Seq(Cell) /\ Len(NewCells(n)) = n
    BY <1>2, FunctionIsSeq
<1>. QED  BY <1>3 DEF NewCells

\* The cells of buf as they go out under the keystream from key on.
CipherCell(c, at, m) == [b |-> c.b, e |-> IF m = "Encrypt" THEN Append(c.e, at) ELSE c.e]
Cipher(buf, key, m) == [j \in 1..Len(buf) |-> CipherCell(buf[j], key + j, m)]

\* Enciphering keeps length and bytes.
LEMMA CipherShape ==
    ASSUME NEW buf \in Seq(Cell), NEW key \in Nat, NEW m
    PROVE  /\ Cipher(buf, key, m) \in Seq(Cell)
           /\ Len(Cipher(buf, key, m)) = Len(buf) /\ Len(buf) \in Nat
           /\ \A j \in 1..Len(buf) :
                 Cipher(buf, key, m)[j] = CipherCell(buf[j], key + j, m)
<1>1. ASSUME NEW j \in 1..Len(buf)
      PROVE  CipherCell(buf[j], key + j, m) \in Cell
    <2>1. buf[j] \in Cell
        OBVIOUS
    <2>2. buf[j].e \in Seq(Nat) /\ buf[j].b \in Nat
        BY <2>1 DEF Cell
    <2>3. Append(buf[j].e, key + j) \in Seq(Nat)
        BY <2>2
    <2>. QED  BY <2>2, <2>3 DEF Cell, CipherCell
<1>2. Len(buf) \in Nat /\ Cipher(buf, key, m) \in [1..Len(buf) -> Cell]
    BY <1>1, LenProperties DEF Cipher
<1>3. Cipher(buf, key, m) \in Seq(Cell) /\ Len(Cipher(buf, key, m)) = Len(buf)
    BY <1>2, FunctionIsSeq
<1>. QED  BY <1>2, <1>3 DEF Cipher

\* Encryption keeps the bytes, and adds a keystream position to each.
LEMMA ReadyShape ==
    ASSUME buffer \in Seq(Cell), keystream \in Nat
    PROVE  /\ Ready = Cipher(buffer, keystream, mode)
           /\ Ready \in Seq(Cell) /\ Len(Ready) = Len(buffer) /\ Len(buffer) \in Nat
           /\ \A j \in 1..Len(buffer) : Ready[j].b = buffer[j].b
<1>1. Ready = Cipher(buffer, keystream, mode)
    BY DEF Ready, Cipher, CipherCell
<1>2. /\ Ready \in Seq(Cell) /\ Len(Ready) = Len(buffer) /\ Len(buffer) \in Nat
      /\ \A j \in 1..Len(buffer) : Ready[j] = CipherCell(buffer[j], keystream + j, mode)
    BY <1>1, CipherShape
<1>3. \A c, at, m : CipherCell(c, at, m).b = c.b
    BY DEF CipherCell
<1>4. \A j \in 1..Len(buffer) : Ready[j].b = buffer[j].b
    BY <1>2, <1>3
<1>. QED  BY <1>1, <1>2, <1>4

\* The part of the buffer a write_all that fails gets through.
LEMMA PrefixShape ==
    ASSUME NEW s \in Seq(Cell), NEW k \in 0..Len(s)
    PROVE  /\ SubSeq(s, 1, k) \in Seq(Cell) /\ Len(SubSeq(s, 1, k)) = k
           /\ \A j \in 1..k : SubSeq(s, 1, k)[j] = s[j]
<1>1. \A j \in 1..k : s[j] \in Cell
    BY LenProperties
<1>. QED  BY <1>1, SubSeqProperties, LenProperties

\* Concatenation, by its elements.
Joined(s, t, new) ==
    /\ new \in Seq(Cell) /\ Len(new) = Len(s) + Len(t)
    /\ \A i \in 1..Len(s) : new[i] = s[i]
    /\ \A j \in 1..Len(t) : new[Len(s) + j] = t[j]

\* What \o does, in that form.
LEMMA ConcatShape ==
    ASSUME NEW s \in Seq(Cell), NEW t \in Seq(Cell)
    PROVE  Joined(s, t, s \o t)
<1>1. Len(s) \in Nat /\ Len(t) \in Nat
    BY LenProperties
<1>2. /\ s \o t \in Seq(Cell)
      /\ Len(s \o t) = Len(s) + Len(t)
      /\ \A i \in 1..Len(s) + Len(t) :
            (s \o t)[i] = IF i <= Len(s) THEN s[i] ELSE t[i - Len(s)]
    BY ConcatProperties
<1>. QED  BY <1>1, <1>2 DEF Joined

\* An element of a sequence of cells has a number.
LEMMA CellAt ==
    ASSUME NEW s \in Seq(Cell), NEW i \in 1..Len(s)
    PROVE  s[i] \in Cell /\ s[i].b \in Nat
<1>1. s[i] \in Cell
    BY ElementOfSeq
<1>. QED  BY <1>1 DEF Cell

-----------------------------------------------------------------------------
(* The wire. *)

\* No byte is skipped, save where encryption was switched on.
GapFree(w, at) == \A i \in 1..Len(w) - 1 : w[i + 1].b <= w[i].b + 1 \/ i = at
Numbered(s, first) == \A j \in 1..Len(s) : s[j].b = first + j

\* Numbered bytes behind a wire that has come at least as far as the one before
\* them leave no gap.  `at` is where encryption was switched on.
LEMMA NoGap ==
    ASSUME NEW old \in Seq(Cell), NEW s \in Seq(Cell), NEW new, Joined(old, s, new),
           NEW first \in Nat, Numbered(s, first), NEW at \in 0..Len(old),
           Len(old) > at => old[Len(old)].b >= first, GapFree(old, at)
    PROVE  GapFree(new, at)
<1>1. Len(old) \in Nat /\ Len(s) \in Nat /\ Len(new) \in Nat
    BY LenProperties DEF Joined
<1>2. /\ Len(new) = Len(old) + Len(s)
      /\ \A i \in 1..Len(old) : new[i] = old[i]
      /\ \A j \in 1..Len(s) : new[Len(old) + j] = s[j]
    BY DEF Joined
<1>. SUFFICES ASSUME NEW i \in 1..Len(new) - 1
              PROVE  new[i + 1].b <= new[i].b + 1 \/ i = at
    BY DEF GapFree
<1>. USE DEF GapFree, Numbered
<1>3. CASE i < Len(old)
    <2>1. i \in 1..Len(old) - 1 /\ i \in 1..Len(old) /\ i + 1 \in 1..Len(old)
        BY <1>1, <1>3
    <2>. QED  BY <1>2, <2>1
<1>4. CASE i = Len(old) /\ i # at
    <2>1. Len(old) \in 1..Len(old) /\ 1 \in 1..Len(s) /\ Len(old) > at
        BY <1>1, <1>2, <1>4
    <2>2. new[i + 1].b = first + 1 /\ new[i] = old[Len(old)] /\ old[Len(old)].b >= first
        BY <1>2, <1>4, <2>1
    <2>3. old[Len(old)].b \in Nat
        BY <2>1, CellAt
    <2>. QED  BY <2>2, <2>3
<1>5. CASE i > Len(old)
    <2>1. PICK j \in 1..Len(s) : i = Len(old) + j /\ j + 1 \in 1..Len(s)
        <3>1. /\ i - Len(old) \in 1..Len(s) /\ i = Len(old) + (i - Len(old))
              /\ (i - Len(old)) + 1 \in 1..Len(s)
            BY <1>1, <1>2, <1>5
        <3>. QED  BY <3>1
    <2>2. i + 1 = Len(old) + (j + 1)
        BY <1>1, <2>1
    <2>3. new[i].b = first + j /\ new[i + 1].b = first + (j + 1)
        BY <1>2, <2>1, <2>2
    <2>. QED  BY <2>3
<1>. QED  BY <1>1, <1>3, <1>4, <1>5

\* Sending the buffer again from its start, whole or in part, skips no byte: its
\* first byte is at most one beyond the last one sent.
LEMMA SendsNoGap ==
    ASSUME IInv, NEW s \in Seq(Cell), Len(s) <= Len(buffer),
           \A j \in 1..Len(s) : s[j].b = buffer[j].b,
           NEW new, Joined(wire, s, new)
    PROVE  /\ \A i \in 1..Len(new) - 1 :
                 new[i + 1].b <= new[i].b + 1 \/ (mode = "Encrypt" /\ i = wireAt)
           /\ Len(s) > 0 => new[Len(new)].b + Len(buffer) = accepted + Len(s)
<1>1. /\ wire \in Seq(Cell) /\ Len(wire) \in Nat /\ Len(s) \in Nat /\ Len(buffer) \in Nat
      /\ wireAt \in 0..Len(wire) /\ accepted \in Nat /\ keyAt \in Nat
      /\ mode \in {"Standard", "Encrypt"}
    BY LenProperties DEF IInv, TypeOK
<1>2. /\ new \in Seq(Cell) /\ Len(new) = Len(wire) + Len(s)
      /\ \A i \in 1..Len(wire) : new[i] = wire[i]
      /\ \A j \in 1..Len(s) : new[Len(wire) + j] = s[j]
    BY DEF Joined
<1>3. PICK first \in Nat : first + Len(buffer) = accepted
    <2>1. accepted - Len(buffer) \in Nat /\ (accepted - Len(buffer)) + Len(buffer) = accepted
        BY <1>1 DEF IInv, BufferNumbered
    <2>. QED  BY <2>1
<1>4. ASSUME NEW j \in 1..Len(s)
      PROVE  s[j].b = first + j
    <2>1. s[j].b \in Nat /\ j \in 1..Len(buffer) /\ s[j].b = buffer[j].b
        BY <1>1, CellAt
    <2>2. s[j].b + Len(buffer) = accepted + j
        BY <2>1 DEF IInv, BufferNumbered
    <2>3. \A x \in Nat : x + Len(buffer) = accepted + j => x = first + j
        BY <1>1, <1>3
    <2>. QED  BY <2>1, <2>2, <2>3
<1>5. Len(wire) > wireAt => wire[Len(wire)].b >= first
    <2>1. Len(wire) > wireAt => wire[Len(wire)].b \in Nat
        BY <1>1, CellAt
    <2>2. Len(wire) > wireAt => wire[Len(wire)].b + Len(buffer) >= accepted
        BY DEF IInv, Frontier
    <2>. QED  BY <1>1, <1>3, <2>1, <2>2
<1>6. GapFree(wire, wireAt)
    BY DEF IInv, NeverSkips, GapFree
<1>7. GapFree(new, wireAt)
    <2>1. Numbered(s, first)
        BY <1>4 DEF Numbered
    <2>. QED  BY <1>1, <1>5, <1>6, <2>1, NoGap
<1>8. \A i \in 1..Len(new) - 1 : i = wireAt => mode = "Encrypt"
    BY <1>1 DEF IInv, Frontier
<1>9. Len(s) > 0 => new[Len(new)].b + Len(buffer) = accepted + Len(s)
    <2>1. Len(s) > 0 => Len(s) \in 1..Len(s)
        BY <1>1
    <2>2. Len(s) > 0 => new[Len(new)].b = first + Len(s)
        <3>1. Len(s) > 0 => s[Len(s)].b = first + Len(s)
            BY <1>4, <2>1
        <3>2. Len(s) > 0 => new[Len(wire) + Len(s)] = s[Len(s)]
            BY <1>2, <2>1
        <3>. QED  BY <1>2, <3>1, <3>2
    <2>3. first + Len(s) + Len(buffer) = accepted + Len(s)
        BY <1>1, <1>3
    <2>. QED  BY <2>2, <2>3
<1>. QED  BY <1>7, <1>8, <1>9 DEF GapFree

-----------------------------------------------------------------------------
(* Each action preserves the invariant. *)

\* The start of a write_all, and a step of nobody.
LEMMA OutsideWriterKeeps ==
    ASSUME IInv, UNCHANGED <<mode, buffer, keystream, wire, pushed, accepted,
                             keyAt, wireAt, cut, failures>>,
           todo' \in Nat, last' \in {"flushed", "open", "failed"},
           todo' > 0 => last' = "open" /\ todo' <= MaxWrite,
           last' = "flushed" => last = "flushed"
    PROVE  IInv'
<1>1. TypeOK'
    BY DEF IInv, TypeOK
<1>2. NeverSkips' /\ FlushedIsDelivered'
    BY DEF IInv, NeverSkips, FlushedIsDelivered
<1>3. BufferNumbered' /\ Frontier' /\ Started'
    BY DEF IInv, BufferNumbered, Frontier, Started
<1>. QED  BY <1>1, <1>2, <1>3 DEF IInv

\* with_encryption clears the buffer and starts a new count.
LEMMA WithEncryptionKeeps ==
    ASSUME IInv, WithEncryption
    PROVE  IInv'
<1>1. /\ buffer' = <<>> /\ Len(buffer') = 0 /\ buffer' \in Seq(Cell)
      /\ mode' = "Encrypt" /\ keystream' = 0 /\ cut' = 0
      /\ wire' = wire /\ pushed' = pushed /\ todo' = todo /\ last' = last
      /\ accepted' = accepted /\ failures' = failures
      /\ keyAt' = accepted /\ wireAt' = Len(wire) /\ Len(wire) \in Nat
      /\ mode = "Standard" /\ todo = 0
    BY EmptySeq, LenProperties DEF WithEncryption, IInv, TypeOK
<1>2. TypeOK'
    BY <1>1, SyncAssumption DEF IInv, TypeOK
<1>3. NeverSkips'
    BY <1>1 DEF IInv, NeverSkips
<1>4. FlushedIsDelivered'
    BY <1>1, <1>2 DEF IInv, TypeOK, FlushedIsDelivered
<1>5. BufferNumbered' /\ Frontier' /\ Started'
    BY <1>1, <1>2 DEF BufferNumbered, Frontier, Started, TypeOK
<1>. QED  BY <1>2, <1>3, <1>4, <1>5 DEF IInv

\* write with room: the new bytes follow those that wait.
LEMMA WriteCopiesKeeps ==
    ASSUME IInv, WriteCopies
    PROVE  IInv'
<1>. DEFINE n == Minimum(Free, todo)
<1>1. /\ n \in Nat /\ n <= todo /\ Len(buffer) + n <= Capacity
      /\ Len(buffer) \in Nat /\ todo \in Nat /\ todo > 0
      /\ accepted \in Nat /\ Len(wire) \in Nat
    BY SyncAssumption, LenProperties DEF IInv, TypeOK, WriteCopies, Free, Minimum
<1>2. /\ buffer' = buffer \o NewCells(n) /\ accepted' = accepted + n /\ todo' = todo - n
      /\ UNCHANGED <<mode, keystream, wire, pushed, last, keyAt, wireAt, cut, failures>>
    BY DEF WriteCopies
<1>. HIDE DEF n
<1>3. /\ NewCells(n) \in Seq(Cell) /\ Len(NewCells(n)) = n
      /\ \A j \in 1..n : NewCells(n)[j] = [b |-> accepted + j, e |-> <<>>]
    BY <1>1, NewCellsShape
<1>4. /\ buffer' \in Seq(Cell) /\ Len(buffer') = Len(buffer) + n
      /\ \A i \in 1..Len(buffer) : buffer'[i] = buffer[i]
      /\ \A j \in 1..n : buffer'[Len(buffer) + j] = NewCells(n)[j]
    <2>1. buffer \in Seq(Cell)
        BY DEF IInv, TypeOK
    <2>. DEFINE new == NewCells(n)
    <2>2. new \in Seq(Cell) /\ Len(new) = n /\ buffer' = buffer \o new
        BY <1>2, <1>3
    <2>. HIDE DEF new
    <2>3. /\ buffer' \in Seq(Cell) /\ Len(buffer') = Len(buffer) + Len(new)
          /\ \A i \in 1..Len(buffer) : buffer'[i] = buffer[i]
          /\ \A j \in 1..Len(new) : buffer'[Len(buffer) + j] = new[j]
        BY <2>1, <2>2, ConcatShape, Zenon DEF Joined
    <2>. QED  BY <2>2, <2>3 DEF new
<1>5. TypeOK'
    BY <1>1, <1>2, <1>4 DEF IInv, TypeOK
<1>6. NeverSkips'
    BY <1>2 DEF IInv, NeverSkips
<1>7. last' = "open"
    BY <1>1, <1>2 DEF IInv, Started
<1>8. BufferNumbered'
    <2>1. Len(buffer) <= accepted
        BY DEF IInv, BufferNumbered
    <2>2. ASSUME NEW i \in 1..Len(buffer) + n
          PROVE  buffer'[i].b + (Len(buffer) + n) = (accepted + n) + i
        <3>1. CASE i <= Len(buffer)
            <4>1. i \in 1..Len(buffer)
                BY <1>1, <3>1
            <4>2. buffer'[i] = buffer[i] /\ buffer[i].b + Len(buffer) = accepted + i
                BY <1>4, <4>1 DEF IInv, BufferNumbered
            <4>3. PICK b \in Nat : b = buffer[i].b
                BY <4>1, CellAt DEF IInv, TypeOK
            <4>4. buffer'[i].b = b /\ b + Len(buffer) = accepted + i
                BY <4>2, <4>3
            <4>5. b + (Len(buffer) + n) = (accepted + n) + i
                BY <1>1, <4>4
            <4>. QED  BY <4>4, <4>5
        <3>2. CASE i > Len(buffer)
            <4>1. PICK j \in 1..n : i = Len(buffer) + j
                <5>1. i - Len(buffer) \in 1..n /\ i = Len(buffer) + (i - Len(buffer))
                    BY <1>1, <3>2
                <5>. QED  BY <5>1
            <4>2. buffer'[i].b = accepted + j
                BY <1>3, <1>4, <4>1
            <4>. QED  BY <1>1, <4>1, <4>2
        <3>. QED  BY <1>1, <3>1, <3>2
    <2>. QED  BY <1>1, <1>2, <1>4, <2>1, <2>2 DEF BufferNumbered
<1>9. Frontier'
    <2>1. Len(wire) > wireAt => wire[Len(wire)].b \in Nat
        <3>1. Len(wire) > wireAt => Len(wire) \in 1..Len(wire)
            BY <1>1 DEF IInv, TypeOK
        <3>. QED  BY <3>1, CellAt DEF IInv, TypeOK
    <2>2. keyAt \in Nat
        BY DEF IInv, TypeOK
    <2>3. Len(wire) > wireAt =>
              /\ wire[Len(wire)].b + Len(buffer) >= accepted /\ wire[Len(wire)].b <= accepted
        BY DEF IInv, Frontier
    <2>4. Len(wire) > wireAt =>
              /\ wire[Len(wire)].b + (Len(buffer) + n) >= accepted + n
              /\ wire[Len(wire)].b <= accepted + n
        BY <1>1, <2>1, <2>3
    <2>5. Len(wire) = wireAt => accepted + n = keyAt + (Len(buffer) + n)
        BY <1>1, <2>2 DEF IInv, Frontier
    <2>. QED  BY <1>2, <1>4, <2>4, <2>5 DEF IInv, Frontier
<1>10. Started'
    BY <1>1, <1>2, <1>7, SyncAssumption DEF IInv, Started
<1>. QED  BY <1>5, <1>6, <1>7, <1>8, <1>9, <1>10 DEF IInv, FlushedIsDelivered

\* The inner write_all takes the whole buffer: the wire ends with the newest byte.
LEMMA DrainOkShape ==
    ASSUME IInv, DrainOk, mode' = mode, wireAt' = wireAt
    PROVE  /\ wire' \in Seq(Cell) /\ Len(wire') = Len(wire) + Len(buffer)
           /\ NeverSkips' /\ keystream' \in Nat /\ cut' = 0
           /\ Len(wire') > wireAt => wire'[Len(wire')].b = accepted
           /\ Len(wire') = wireAt => accepted = keyAt
<1>1. /\ buffer \in Seq(Cell) /\ keystream \in Nat /\ accepted \in Nat
      /\ Len(wire) \in Nat /\ wireAt \in 0..Len(wire) /\ keyAt \in Nat
      /\ wire' = wire \o Ready /\ cut' = 0 /\ wire \in Seq(Cell)
    BY LenProperties DEF IInv, TypeOK, DrainOk
<1>2. /\ Ready \in Seq(Cell) /\ Len(Ready) = Len(buffer) /\ Len(buffer) \in Nat
      /\ \A j \in 1..Len(buffer) : Ready[j].b = buffer[j].b
    BY <1>1, ReadyShape
<1>3. Joined(wire, Ready, wire')
    BY <1>1, <1>2, ConcatShape
<1>4. /\ wire' \in Seq(Cell) /\ Len(wire') = Len(wire) + Len(buffer)
      /\ \A i \in 1..Len(wire) : wire'[i] = wire[i]
    BY <1>2, <1>3 DEF Joined
<1>5. /\ \A i \in 1..Len(wire') - 1 :
            wire'[i + 1].b <= wire'[i].b + 1 \/ (mode = "Encrypt" /\ i = wireAt)
      /\ Len(buffer) > 0 => wire'[Len(wire')].b + Len(buffer) = accepted + Len(buffer)
    <2>1. Len(Ready) <= Len(buffer) /\ \A j \in 1..Len(Ready) : Ready[j].b = buffer[j].b
        BY <1>2
    <2>2. /\ \A i \in 1..Len(wire') - 1 :
                wire'[i + 1].b <= wire'[i].b + 1 \/ (mode = "Encrypt" /\ i = wireAt)
          /\ Len(Ready) > 0 => wire'[Len(wire')].b + Len(buffer) = accepted + Len(Ready)
        BY <1>2, <1>3, <2>1, SendsNoGap, Zenon
    <2>. QED  BY <1>2, <2>2
<1>6. keystream' \in Nat
    BY <1>1, <1>2 DEF DrainOk, Advance
<1>7. ASSUME Len(wire') > wireAt
      PROVE  wire'[Len(wire')].b = accepted
    <2>1. wire'[Len(wire')].b \in Nat
        <3>1. Len(wire') \in 1..Len(wire')
            BY <1>1, <1>2, <1>4, <1>7
        <3>. QED  BY <1>4, <3>1, CellAt
    <2>2. CASE Len(buffer) = 0
        <3>1. Len(wire') = Len(wire) /\ Len(wire) > wireAt /\ Len(wire) \in 1..Len(wire)
            BY <1>1, <1>4, <1>7, <2>2
        <3>2. wire'[Len(wire')] = wire[Len(wire)]
            BY <1>4, <3>1
        <3>3. wire[Len(wire)].b + Len(buffer) >= accepted /\ wire[Len(wire)].b <= accepted
            BY <3>1 DEF IInv, Frontier
        <3>. QED  BY <1>1, <2>1, <2>2, <3>2, <3>3
    <2>3. CASE Len(buffer) > 0
        BY <1>1, <1>2, <1>5, <2>1, <2>3
    <2>. QED  BY <1>2, <2>2, <2>3
<1>8. Len(wire') = wireAt => accepted = keyAt
    BY <1>1, <1>2, <1>4 DEF IInv, Frontier
<1>9. NeverSkips'
    BY <1>5 DEF NeverSkips
<1>. QED  BY <1>1, <1>4, <1>6, <1>7, <1>8, <1>9

\* write with a full buffer: the new bytes follow all that went out.
LEMMA WriteDrainsKeeps ==
    ASSUME IInv, WriteDrains
    PROVE  IInv'
<1>. DEFINE n == Minimum(Capacity, todo)
<1>1. /\ DrainOk /\ mode' = mode /\ wireAt' = wireAt /\ keyAt' = keyAt
      /\ Capacity = 0 => failures < MaxFailures
      /\ pushed' \in Passed(Len(wire'))
      /\ buffer' = NewCells(n) /\ accepted' = accepted + n
      /\ todo' = IF n = 0 THEN 0 ELSE todo - n
      /\ last' = IF n = 0 THEN "failed" ELSE last
      /\ failures' = IF n = 0 THEN failures + 1 ELSE failures
    BY DEF WriteDrains
<1>2. /\ todo \in Nat /\ todo > 0 /\ todo <= MaxWrite /\ last = "open" /\ MaxWrite \in Nat
      /\ accepted \in Nat /\ keyAt \in 0..accepted /\ failures \in 0..MaxFailures
      /\ Len(wire) \in Nat /\ wireAt \in 0..Len(wire) /\ pushed \in 0..Len(wire)
      /\ Len(buffer) \in Nat /\ Capacity \in Nat /\ MaxFailures \in Nat
      /\ mode \in {"Standard", "Encrypt"}
    BY LenProperties, SyncAssumption DEF IInv, TypeOK, Started, WriteDrains
<1>3. n \in Nat /\ n <= Capacity /\ n <= todo /\ (n = 0 => Capacity = 0)
    BY <1>2 DEF Minimum
<1>. HIDE DEF n
<1>4. /\ wire' \in Seq(Cell) /\ Len(wire') = Len(wire) + Len(buffer)
      /\ NeverSkips' /\ keystream' \in Nat /\ cut' = 0
      /\ Len(wire') > wireAt => wire'[Len(wire')].b = accepted
      /\ Len(wire') = wireAt => accepted = keyAt
    BY <1>1, DrainOkShape
<1>5. /\ buffer' \in Seq(Cell) /\ Len(buffer') = n
      /\ \A j \in 1..n : buffer'[j] = [b |-> accepted + j, e |-> <<>>]
    BY <1>1, <1>2, <1>3, NewCellsShape
<1>6. TypeOK'
    <2>1. pushed' \in 0..Len(wire')
        BY <1>1, <1>2, <1>4 DEF Passed
    <2>2. /\ todo' \in Nat /\ last' \in {"flushed", "open", "failed"}
          /\ failures' \in 0..MaxFailures /\ accepted' \in Nat /\ keyAt' \in 0..accepted'
          /\ wireAt' \in 0..Len(wire')
        BY <1>1, <1>2, <1>3, <1>4
    <2>. QED  BY <1>1, <1>2, <1>3, <1>4, <1>5, <2>1, <2>2 DEF TypeOK
<1>7. BufferNumbered'
    <2>1. \A j \in 1..n : buffer'[j].b + n = (accepted + n) + j
        BY <1>2, <1>3, <1>5
    <2>. QED  BY <1>1, <1>2, <1>3, <1>5, <2>1 DEF BufferNumbered
<1>8. Frontier'
    <2>1. Len(wire') > wireAt => /\ wire'[Len(wire')].b + n >= accepted + n
                                 /\ wire'[Len(wire')].b <= accepted + n
        BY <1>2, <1>3, <1>4
    <2>. QED  BY <1>1, <1>4, <1>5, <2>1 DEF IInv, Frontier
<1>9. Started' /\ FlushedIsDelivered'
    BY <1>1, <1>2, <1>3 DEF Started, FlushedIsDelivered
<1>. QED  BY <1>4, <1>6, <1>7, <1>8, <1>9 DEF IInv

\* An inner write_all that fails leaves the whole buffer, and a wire that ends
\* inside it or just before it.
LEMMA DrainFailsKeeps ==
    ASSUME IInv, DrainFails
    PROVE  IInv'
<1>1. PICK k \in 0..(Len(buffer) - 1) :
          /\ wire' = wire \o SubSeq(Ready, 1, k)
          /\ pushed' \in Passed(Len(wire) + k)
          /\ cut' = k
    BY DEF DrainFails
<1>2. /\ failures < MaxFailures /\ buffer' = Ready /\ todo' = 0 /\ last' = "failed"
      /\ failures' = failures + 1
      /\ UNCHANGED <<mode, accepted, keyAt, wireAt>>
      /\ keystream' = IF mode = "Encrypt" THEN keystream + Len(buffer) ELSE keystream
    BY DEF DrainFails, Kept, Advance
<1>3. /\ accepted \in Nat /\ keyAt \in 0..accepted /\ failures \in 0..MaxFailures
      /\ wire \in Seq(Cell) /\ Len(wire) \in Nat
      /\ wireAt \in 0..Len(wire) /\ pushed \in 0..Len(wire)
      /\ Len(buffer) \in Nat /\ buffer \in Seq(Cell) /\ keystream \in Nat
      /\ MaxFailures \in Nat
    BY LenProperties, SyncAssumption DEF IInv, TypeOK
<1>4. /\ Ready \in Seq(Cell) /\ Len(Ready) = Len(buffer)
      /\ \A j \in 1..Len(buffer) : Ready[j].b = buffer[j].b
    BY <1>3, ReadyShape
<1>. DEFINE s == SubSeq(Ready, 1, k)
<1>5. /\ s \in Seq(Cell) /\ Len(s) = k /\ k \in Nat /\ k <= Len(buffer)
      /\ \A j \in 1..k : s[j] = Ready[j]
    BY <1>3, <1>4, PrefixShape
<1>6. wire' = wire \o s
    BY <1>1
<1>. HIDE DEF s
<1>7. Joined(wire, s, wire')
    BY <1>3, <1>5, <1>6, ConcatShape
<1>8. /\ wire' \in Seq(Cell) /\ Len(wire') = Len(wire) + k
      /\ \A i \in 1..Len(wire) : wire'[i] = wire[i]
    BY <1>5, <1>7 DEF Joined
<1>9. /\ \A i \in 1..Len(wire') - 1 :
            wire'[i + 1].b <= wire'[i].b + 1 \/ (mode = "Encrypt" /\ i = wireAt)
      /\ k > 0 => wire'[Len(wire')].b + Len(buffer) = accepted + k
    <2>1. Len(s) <= Len(buffer) /\ \A j \in 1..Len(s) : s[j].b = buffer[j].b
        BY <1>3, <1>4, <1>5
    <2>2. /\ \A i \in 1..Len(wire') - 1 :
                wire'[i + 1].b <= wire'[i].b + 1 \/ (mode = "Encrypt" /\ i = wireAt)
          /\ Len(s) > 0 => wire'[Len(wire')].b + Len(buffer) = accepted + Len(s)
        BY <1>5, <1>7, <2>1, SendsNoGap, Zenon
    <2>. QED  BY <1>5, <2>2
<1>10. TypeOK'
    <2>1. pushed' \in 0..Len(wire')
        BY <1>1, <1>3, <1>5, <1>8 DEF Passed
    <2>2. keystream' \in Nat
        BY <1>2, <1>3
    <2>3. cut' \in 0..Len(buffer') /\ wireAt' \in 0..Len(wire') /\ failures' \in 0..MaxFailures
        BY <1>1, <1>2, <1>3, <1>4, <1>5, <1>8
    <2>. QED  BY <1>2, <1>3, <1>4, <1>8, <2>1, <2>2, <2>3 DEF IInv, TypeOK
<1>11. NeverSkips'
    BY <1>2, <1>9 DEF NeverSkips
<1>12. BufferNumbered'
    BY <1>2, <1>4 DEF IInv, BufferNumbered
<1>13. Frontier'
    <2>1. CASE k > 0
        <3>1. Len(wire') > wireAt /\ Len(wire') \in 1..Len(wire')
            BY <1>3, <1>5, <1>8, <2>1
        <3>2. wire'[Len(wire')].b \in Nat
            BY <1>8, <3>1, CellAt
        <3>3. \A x \in Nat : x + Len(buffer) = accepted + k
                                 => x + Len(buffer) >= accepted /\ x <= accepted
            BY <1>3, <1>5
        <3>4. wire'[Len(wire')].b + Len(buffer) >= accepted /\ wire'[Len(wire')].b <= accepted
            BY <1>9, <2>1, <3>2, <3>3
        <3>5. Len(wire') # wireAt
            BY <1>3, <1>5, <1>8, <2>1
        <3>. QED  BY <1>2, <1>4, <3>4, <3>5 DEF IInv, Frontier
    <2>2. CASE k = 0
        <3>1. Len(wire') = Len(wire)
            BY <1>3, <1>8, <2>2
        <3>2. Len(wire) > wireAt => wire'[Len(wire')] = wire[Len(wire)]
            <4>1. Len(wire) > wireAt => Len(wire) \in 1..Len(wire)
                BY <1>3
            <4>. QED  BY <1>8, <3>1, <4>1
        <3>. QED  BY <1>2, <1>4, <3>1, <3>2 DEF IInv, Frontier
    <2>. QED  BY <1>5, <2>1, <2>2
<1>14. Started' /\ FlushedIsDelivered'
    BY <1>2 DEF Started, FlushedIsDelivered
<1>. QED  BY <1>10, <1>11, <1>12, <1>13, <1>14 DEF IInv

\* A flush whose drain went through, or was not needed: nothing waits, and the
\* wire ends with the newest byte.
LEMMA FlushDrained ==
    ASSUME IInv, IF NeedsDrain THEN DrainOk /\ buffer' = <<>>
                               ELSE UNCHANGED <<buffer, wire, cut, keystream>>,
           mode' = mode, wireAt' = wireAt
    PROVE  /\ buffer' = <<>> /\ wire' \in Seq(Cell) /\ Len(wire') >= Len(wire)
           /\ NeverSkips' /\ keystream' \in Nat /\ cut' = 0
           /\ Len(wire') > wireAt => wire'[Len(wire')].b = accepted
           /\ Len(wire') = wireAt => accepted = keyAt
<1>1. /\ Len(wire) \in Nat /\ Len(buffer) \in Nat /\ wire \in Seq(Cell) /\ accepted \in Nat
      /\ wireAt \in 0..Len(wire) /\ keystream \in Nat /\ keyAt \in Nat
      /\ cut \in 0..Len(buffer)
    BY LenProperties DEF IInv, TypeOK
<1>2. CASE NeedsDrain
    BY <1>1, <1>2, DrainOkShape
<1>3. CASE ~NeedsDrain
    <2>1. /\ buffer = <<>> /\ Len(buffer) = 0
          /\ buffer' = buffer /\ wire' = wire /\ cut' = cut /\ keystream' = keystream
        BY <1>3, EmptySeq DEF NeedsDrain
    <2>2. cut = 0
        BY <1>1, <2>1
    <2>3. NeverSkips'
        BY <2>1 DEF IInv, NeverSkips
    <2>4. ASSUME Len(wire) > wireAt
          PROVE  wire[Len(wire)].b = accepted
        <3>1. wire[Len(wire)].b \in Nat
            BY <1>1, <2>4, CellAt
        <3>2. wire[Len(wire)].b + Len(buffer) >= accepted /\ wire[Len(wire)].b <= accepted
            BY <2>4 DEF IInv, Frontier
        <3>. QED  BY <1>1, <2>1, <3>1, <3>2
    <2>5. Len(wire) = wireAt => accepted = keyAt
        BY <1>1, <2>1 DEF IInv, Frontier
    <2>. QED  BY <1>1, <2>1, <2>2, <2>3, <2>4, <2>5
<1>. QED  BY <1>2, <1>3

\* After such a drain the invariant holds whatever the inner flush answers, if
\* an Ok means that everything was pushed.
LEMMA FlushKeeps ==
    ASSUME IInv, todo = 0,
           IF NeedsDrain THEN DrainOk /\ buffer' = <<>>
                         ELSE UNCHANGED <<buffer, wire, cut, keystream>>,
           UNCHANGED <<mode, todo, accepted, keyAt, wireAt>>,
           pushed' \in pushed..Len(wire'), failures' \in 0..MaxFailures,
           \/ last' = "flushed" /\ pushed' = Len(wire')
           \/ last' = "failed"
    PROVE  IInv'
<1>1. /\ Len(wire) \in Nat /\ accepted \in Nat /\ keyAt \in 0..accepted
      /\ wireAt \in 0..Len(wire) /\ pushed \in 0..Len(wire) /\ Capacity \in Nat
      /\ mode' = mode /\ todo' = 0 /\ accepted' = accepted /\ keyAt' = keyAt /\ wireAt' = wireAt
    BY LenProperties, SyncAssumption DEF IInv, TypeOK
<1>2. /\ buffer' = <<>> /\ wire' \in Seq(Cell) /\ Len(wire') >= Len(wire)
      /\ NeverSkips' /\ keystream' \in Nat /\ cut' = 0
      /\ Len(wire') > wireAt => wire'[Len(wire')].b = accepted
      /\ Len(wire') = wireAt => accepted = keyAt
    BY FlushDrained
<1>3. Len(buffer') = 0 /\ buffer' \in Seq(Cell) /\ Len(wire') \in Nat
    BY <1>2, EmptySeq, LenProperties
<1>4. TypeOK'
    BY <1>1, <1>2, <1>3 DEF IInv, TypeOK
<1>5. BufferNumbered' /\ Started'
    BY <1>1, <1>3 DEF BufferNumbered, Started
<1>6. Frontier'
    BY <1>1, <1>2, <1>3 DEF IInv, Frontier
<1>7. FlushedIsDelivered'
    <2>1. accepted > keyAt => Len(wire') > wireAt
        BY <1>1, <1>2, <1>3
    <2>2. Len(wire') > wireAt => wire' # <<>>
        BY <1>1, EmptySeq
    <2>. QED  BY <1>1, <1>2, <2>1, <2>2 DEF FlushedIsDelivered
<1>. QED  BY <1>2, <1>4, <1>5, <1>6, <1>7 DEF IInv

-----------------------------------------------------------------------------
(* The theorems. *)

\* A writer that was just made holds nothing and has sent nothing.
LEMMA InitEstablishes == Init => IInv /\ Unbroken
<1>. SUFFICES ASSUME Init PROVE IInv /\ Unbroken
    OBVIOUS
<1>1. Len(buffer) = 0 /\ Len(wire) = 0 /\ buffer \in Seq(Cell) /\ wire \in Seq(Cell)
    BY EmptySeq DEF Init
<1>2. TypeOK
    BY <1>1, SyncAssumption DEF Init, TypeOK
<1>3. NeverSkips /\ FlushedIsDelivered
    BY <1>1 DEF Init, NeverSkips, FlushedIsDelivered
<1>4. BufferNumbered /\ Frontier /\ Started /\ Unbroken
    BY <1>1 DEF Init, BufferNumbered, Frontier, Started, Unbroken
<1>. QED  BY <1>2, <1>3, <1>4 DEF IInv

\* Every call of write and flush, failed or not, keeps the invariant.
LEMMA NextKeeps == IInv /\ [Next]_vars => IInv'
<1>. SUFFICES ASSUME IInv, [Next]_vars PROVE IInv'
    OBVIOUS
<1>1. CASE StartWrite
    <2>1. todo' \in Nat /\ todo' <= MaxWrite
        BY <1>1, SyncAssumption DEF StartWrite
    <2>. QED  BY <1>1, <2>1, OutsideWriterKeeps DEF StartWrite
<1>2. CASE FlushOk
    <2>1. pushed' \in pushed..Len(wire')
        <3>1. Len(wire') >= Len(wire) /\ wire' \in Seq(Cell) /\ pushed' = Len(wire')
            BY <1>2, FlushDrained DEF FlushOk, PushedAll
        <3>2. pushed \in 0..Len(wire) /\ Len(wire) \in Nat /\ Len(wire') \in Nat
            BY <3>1, LenProperties DEF IInv, TypeOK
        <3>. QED  BY <3>1, <3>2
    <2>. QED  BY <1>2, <2>1, FlushKeeps DEF FlushOk, PushedAll, IInv, TypeOK
<1>3. CASE FlushInnerFails
    <2>1. pushed' \in pushed..Len(wire') /\ failures' \in 0..MaxFailures
        BY <1>3, SyncAssumption DEF FlushInnerFails, Passed, IInv, TypeOK
    <2>. QED  BY <1>3, <2>1, FlushKeeps DEF FlushInnerFails
<1>4. CASE UNCHANGED vars
    <2>1. UNCHANGED <<mode, buffer, keystream, wire, pushed, todo, last, accepted,
                      keyAt, wireAt, cut, failures>>
        BY <1>4 DEF vars
    <2>. QED  BY <2>1, OutsideWriterKeeps DEF IInv, TypeOK, Started
<1>. QED
    BY <1>1, <1>2, <1>3, <1>4, WithEncryptionKeeps, WriteCopiesKeeps, WriteDrainsKeeps,
       DrainFailsKeeps DEF Next, WriteFails, FlushDrainFails

\* The inductive invariant holds in every reachable state.
LEMMA Invariance == Spec => []IInv
BY InitEstablishes, NextKeeps, PTL DEF Spec

\* The buffer never outgrows the capacity, whatever calls fail.
THEOREM TypeCorrect == Spec => []TypeOK
BY Invariance, PTL DEF IInv

\* However many calls fail and wherever, the peer may see bytes again but never
\* misses one, save those that with_encryption clears.
THEOREM SkipsNothing == Spec => []NeverSkips
BY Invariance, PTL DEF IInv

\* After any failures, a flush that returns Ok has sent and pushed the newest byte.
THEOREM FlushDelivers == Spec => []FlushedIsDelivered
BY Invariance, PTL DEF IInv

-----------------------------------------------------------------------------
(* Until the first failure the writer is a BytePipe. *)

\* Every call keeps Unbroken, and a failed one leaves its case.
LEMMA NextUnbroken == IInv /\ Unbroken /\ [Next]_vars => Unbroken'
<1>. SUFFICES ASSUME IInv, Unbroken, [Next]_vars PROVE Unbroken'
    OBVIOUS
<1>1. failures \in Nat /\ keystream \in Nat /\ accepted \in Nat /\ buffer \in Seq(Cell)
    BY SyncAssumption DEF IInv, TypeOK
<1>2. CASE StartWrite
    BY <1>2 DEF StartWrite, Unbroken
<1>3. CASE WithEncryption
    <2>1. Len(buffer') = 0 /\ mode' = "Encrypt" /\ last' = last /\ failures' = failures
        BY <1>3, EmptySeq DEF WithEncryption
    <2>. QED  BY <2>1 DEF Unbroken
<1>4. CASE WriteCopies
    <2>. DEFINE n == Minimum(Free, todo)
                new == NewCells(n)
    <2>1. n \in Nat
        BY <1>4, SyncAssumption, LenProperties DEF IInv, TypeOK, Free, Minimum
    <2>2. /\ buffer' = buffer \o new /\ mode' = mode /\ last' = last
          /\ failures' = failures /\ keystream' = keystream
        BY <1>4 DEF WriteCopies
    <2>. HIDE DEF n
    <2>3. /\ new \in Seq(Cell) /\ Len(new) = n
          /\ \A j \in 1..n : new[j] = [b |-> accepted + j, e |-> <<>>]
        BY <1>1, <2>1, NewCellsShape
    <2>. HIDE DEF new
    <2>4. Joined(buffer, new, buffer')
        BY <1>1, <2>2, <2>3, ConcatShape
    <2>5. ASSUME failures = 0, NEW i \in 1..Len(buffer')
          PROVE  buffer'[i].e = <<>>
        <3>1. Len(buffer) \in Nat /\ Len(buffer') = Len(buffer) + n
            BY <1>1, <2>3, <2>4, LenProperties DEF Joined
        <3>2. CASE i <= Len(buffer)
            <4>1. i \in 1..Len(buffer) /\ buffer'[i] = buffer[i]
                BY <2>4, <3>1, <3>2 DEF Joined
            <4>. QED  BY <2>5, <4>1 DEF Unbroken
        <3>3. CASE i > Len(buffer)
            <4>1. PICK j \in 1..n : i = Len(buffer) + j
                <5>1. i - Len(buffer) \in 1..n /\ i = Len(buffer) + (i - Len(buffer))
                    BY <2>1, <3>1, <3>3
                <5>. QED  BY <5>1
            <4>2. buffer'[i] = new[j]
                BY <2>3, <2>4, <4>1 DEF Joined
            <4>. QED  BY <2>3, <4>2
        <3>. QED  BY <3>1, <3>2, <3>3
    <2>. QED  BY <2>2, <2>5 DEF Unbroken
<1>5. CASE WriteDrains
    <2>. DEFINE n == Minimum(Capacity, todo)
    <2>1. n \in Nat
        BY SyncAssumption DEF IInv, TypeOK, Minimum
    <2>2. /\ buffer' = NewCells(n) /\ mode' = mode
          /\ last' = IF n = 0 THEN "failed" ELSE last
          /\ failures' = IF n = 0 THEN failures + 1 ELSE failures
          /\ keystream' = IF mode = "Encrypt" THEN keystream + Len(buffer) ELSE keystream
        BY <1>5 DEF WriteDrains, DrainOk, Advance
    <2>. HIDE DEF n
    <2>3. Len(buffer') = n /\ \A j \in 1..n : buffer'[j].e = <<>>
        <3>1. /\ Len(NewCells(n)) = n
              /\ \A j \in 1..n : NewCells(n)[j] = [b |-> accepted + j, e |-> <<>>]
            BY <1>1, <2>1, NewCellsShape
        <3>. QED  BY <2>2, <3>1
    <2>. QED  BY <1>1, <2>2, <2>3 DEF Unbroken
<1>6. CASE WriteFails \/ FlushDrainFails
    BY <1>1, <1>6 DEF WriteFails, FlushDrainFails, DrainFails, Advance, Unbroken
<1>7. CASE FlushOk
    <2>1. /\ Len(buffer') = 0 /\ mode' = mode /\ last' = "flushed"
          /\ mode = "Standard" => keystream' = keystream
        <3>1. buffer' = <<>> /\ mode' = mode /\ last' = "flushed"
            BY <1>7 DEF FlushOk, NeedsDrain
        <3>2. mode = "Standard" => keystream' = keystream
            BY <1>7 DEF FlushOk, DrainOk, Advance
        <3>. QED  BY <3>1, <3>2, EmptySeq
    <2>. QED  BY <2>1 DEF Unbroken
<1>8. CASE FlushInnerFails
    <2>1. /\ mode' = mode /\ failures' = failures + 1
          /\ mode = "Standard" => keystream' = keystream
        BY <1>8 DEF FlushInnerFails, DrainOk, Advance
    <2>. QED  BY <1>1, <2>1 DEF Unbroken
<1>9. CASE UNCHANGED vars
    BY <1>9 DEF vars, Unbroken
<1>. QED  BY <1>2, <1>3, <1>4, <1>5, <1>6, <1>7, <1>8, <1>9 DEF Next

\* A keystream runs on from one part of the buffer to the next.
LEMMA CipherJoined ==
    ASSUME NEW s \in Seq(Cell), NEW t \in Seq(Cell), NEW key \in Nat, NEW m
    PROVE  Cipher(s \o t, key, m) = Cipher(s, key, m) \o Cipher(t, key + Len(s), m)
<1>. DEFINE new == s \o t
            C(buf, k) == Cipher(buf, k, m)
            join == C(s, key) \o C(t, key + Len(s))
<1>1. Joined(s, t, new) /\ new \in Seq(Cell) /\ Len(s) \in Nat /\ Len(t) \in Nat
    BY ConcatShape, LenProperties DEF Joined
<1>. HIDE DEF new
<1>2. Len(new) = Len(s) + Len(t) /\ key + Len(s) \in Nat
    BY <1>1 DEF Joined
<1>3. /\ C(new, key) \in Seq(Cell) /\ Len(C(new, key)) = Len(new)
      /\ \A i \in 1..Len(new) :
            C(new, key)[i] = CipherCell(new[i], key + i, m)
    BY <1>1, CipherShape
<1>4. /\ C(s, key) \in Seq(Cell) /\ Len(C(s, key)) = Len(s)
      /\ \A i \in 1..Len(s) :
            C(s, key)[i] = CipherCell(s[i], key + i, m)
    BY CipherShape
<1>5. /\ C(t, key + Len(s)) \in Seq(Cell) /\ Len(C(t, key + Len(s))) = Len(t)
      /\ \A j \in 1..Len(t) :
            C(t, key + Len(s))[j] = CipherCell(t[j], (key + Len(s)) + j, m)
    BY <1>2, CipherShape
<1>. HIDE DEF C
<1>6. Joined(C(s, key), C(t, key + Len(s)), join)
    BY <1>4, <1>5, ConcatShape
<1>. HIDE DEF join
<1>7. join \in Seq(Cell) /\ Len(join) = Len(new)
    BY <1>2, <1>4, <1>5, <1>6 DEF Joined
<1>8. ASSUME NEW i \in 1..Len(new)
      PROVE  C(new, key)[i] = join[i]
    <2>1. CASE i <= Len(s)
        <3>1. i \in 1..Len(s)
            BY <1>1, <1>2, <2>1
        <3>2. new[i] = s[i] /\ join[i] = C(s, key)[i]
            BY <1>1, <1>4, <1>6, <3>1 DEF Joined
        <3>. QED  BY <1>3, <1>4, <3>1, <3>2
    <2>2. CASE i > Len(s)
        <3>1. PICK j \in 1..Len(t) : i = Len(s) + j
            <4>1. i - Len(s) \in 1..Len(t) /\ i = Len(s) + (i - Len(s))
                BY <1>1, <1>2, <2>2
            <4>. QED  BY <4>1
        <3>2. new[i] = t[j] /\ join[i] = C(t, key + Len(s))[j]
            BY <1>1, <1>4, <1>5, <1>6, <3>1 DEF Joined
        <3>3. key + i = (key + Len(s)) + j
            BY <1>1, <3>1
        <3>. QED  BY <1>3, <1>5, <3>1, <3>2, <3>3
    <2>. QED  BY <1>1, <1>2, <2>1, <2>2
<1>9. C(new, key) = join
    BY <1>3, <1>7, <1>8, SeqEqual
<1>. QED  BY <1>9 DEF C, join, new

\* The two substitutions that depend on the buffer, and the pipe's view of
\* bytes that are written.
PipeOwed == wire \o Unsent
PipeKeystream == IF last # "failed" /\ mode = "Encrypt"
                 THEN keystream + Len(buffer) ELSE keystream

\* What the peer is owed before a failure: the wire, then the buffer enciphered.
LEMMA PipeState ==
    ASSUME IInv, Unbroken, failures = 0
    PROVE  /\ Unsent = Ready /\ Ready = Cipher(buffer, keystream, mode)
           /\ Ready \in Seq(Cell) /\ Len(Ready) = Len(buffer) /\ Len(buffer) \in Nat
           /\ PipeOwed \in Seq(Cell) /\ Len(PipeOwed) = Len(wire) + Len(buffer)
           /\ wire \in Seq(Cell) /\ Len(wire) \in Nat /\ keystream \in Nat
           /\ mode \in {"Standard", "Encrypt"} /\ buffer \in Seq(Cell) /\ accepted \in Nat
           /\ PipeKeystream = IF mode = "Encrypt" THEN keystream + Len(buffer) ELSE 0
<1>1. /\ wire \in Seq(Cell) /\ Len(wire) \in Nat /\ keystream \in Nat
      /\ mode \in {"Standard", "Encrypt"} /\ buffer \in Seq(Cell) /\ accepted \in Nat
      /\ Len(buffer) \in Nat
    BY LenProperties DEF IInv, TypeOK
<1>2. last # "failed" /\ (mode = "Standard" => keystream = 0)
    BY DEF Unbroken
<1>3. Unsent = Ready
    BY <1>2 DEF Unsent
<1>4. Ready = Cipher(buffer, keystream, mode)
    BY DEF Ready, Cipher, CipherCell
<1>5. Ready \in Seq(Cell) /\ Len(Ready) = Len(buffer)
    BY <1>1, ReadyShape
<1>6. PipeOwed \in Seq(Cell) /\ Len(PipeOwed) = Len(wire) + Len(buffer)
    <2>1. Joined(wire, Ready, wire \o Ready)
        BY <1>1, <1>5, ConcatShape
    <2>. QED  BY <1>3, <1>5, <2>1 DEF Joined, PipeOwed
<1>7. PipeKeystream = IF mode = "Encrypt" THEN keystream + Len(buffer) ELSE 0
    BY <1>1, <1>2 DEF PipeKeystream
<1>. QED  BY <1>1, <1>3, <1>4, <1>5, <1>6, <1>7

\* New bytes, enciphered from the pipe's keystream on, are the pipe's new cells.
LEMMA NewCellsAreThePipes ==
    ASSUME IInv, Unbroken, failures = 0, NEW n \in Nat, NEW key \in Nat,
           mode = "Encrypt" => key = PipeKeystream
    PROVE  /\ Cipher(NewCells(n), key, mode) = Pipe!NewCells(n)
           /\ Pipe!NewCells(n) \in Seq(Cell) /\ Len(Pipe!NewCells(n)) = n
<1>1. /\ mode \in {"Standard", "Encrypt"} /\ accepted \in Nat
      /\ PipeKeystream = IF mode = "Encrypt" THEN keystream + Len(buffer) ELSE 0
    BY PipeState
<1>2. /\ NewCells(n) \in Seq(Cell) /\ Len(NewCells(n)) = n
      /\ \A j \in 1..n : NewCells(n)[j] = [b |-> accepted + j, e |-> <<>>]
    BY <1>1, NewCellsShape
<1>. DEFINE new == Cipher(NewCells(n), key, mode)
<1>3. /\ new \in Seq(Cell) /\ Len(new) = n
      /\ new = [j \in 1..n |-> CipherCell(NewCells(n)[j], key + j, mode)]
    BY <1>2, CipherShape DEF Cipher
<1>4. ASSUME NEW j \in 1..n
      PROVE  CipherCell(NewCells(n)[j], key + j, mode) =
                [b |-> accepted + j,
                 e |-> IF mode = "Encrypt" THEN <<PipeKeystream + j>> ELSE <<>>]
    <2>1. Append(<<>>, key + j) = <<key + j>>
        OBVIOUS
    <2>2. NewCells(n)[j].b = accepted + j /\ NewCells(n)[j].e = <<>>
        BY <1>2
    <2>3. CASE mode = "Encrypt"
        BY <2>1, <2>2, <2>3 DEF CipherCell
    <2>4. CASE mode = "Standard"
        BY <2>2, <2>4 DEF CipherCell
    <2>. QED  BY <1>1, <2>3, <2>4
<1>5. Pipe!NewCells(n) = [j \in 1..n |->
          [b |-> accepted + j, e |-> IF mode = "Encrypt" THEN <<PipeKeystream + j>> ELSE <<>>]]
    BY DEF Pipe!NewCells, PipeKeystream
<1>6. new = Pipe!NewCells(n)
    BY <1>3, <1>4, <1>5
<1>. QED  BY <1>3, <1>6

\* write with room: the pipe accepts the bytes.
LEMMA WriteCopiesAccepts ==
    ASSUME IInv, Unbroken, failures = 0, IInv', Unbroken', WriteCopies
    PROVE  Pipe!Accept
<1>. DEFINE n == Minimum(Free, todo)
            new == NewCells(n)
<1>1. /\ buffer' = buffer \o new /\ accepted' = accepted + n
      /\ UNCHANGED <<mode, keystream, wire, last, failures>>
    BY DEF WriteCopies
<1>2. n \in 1..MaxWrite
    <2>1. todo \in Nat /\ todo > 0 /\ todo <= MaxWrite /\ MaxWrite \in Nat
        BY SyncAssumption DEF IInv, TypeOK, Started, WriteCopies
    <2>2. Free \in Nat /\ Free > 0
        BY SyncAssumption, LenProperties DEF IInv, TypeOK, WriteCopies, Free
    <2>. QED  BY <2>1, <2>2 DEF Minimum
<1>3. n \in Nat
    BY <1>2, SyncAssumption
<1>. HIDE DEF n
<1>4. /\ Unsent = Ready /\ Ready = Cipher(buffer, keystream, mode)
      /\ Ready \in Seq(Cell) /\ Len(buffer) \in Nat
      /\ PipeOwed \in Seq(Cell) /\ Len(PipeOwed) = Len(wire) + Len(buffer)
      /\ wire \in Seq(Cell) /\ Len(wire) \in Nat /\ keystream \in Nat
      /\ mode \in {"Standard", "Encrypt"} /\ buffer \in Seq(Cell) /\ accepted \in Nat
      /\ PipeKeystream = IF mode = "Encrypt" THEN keystream + Len(buffer) ELSE 0
    BY PipeState
<1>5. /\ new \in Seq(Cell) /\ Len(new) = n
    BY <1>3, <1>4, NewCellsShape
<1>. DEFINE pnew == Pipe!NewCells(n)
<1>6. /\ Cipher(new, keystream + Len(buffer), mode) = pnew
      /\ pnew \in Seq(Cell) /\ Len(pnew) = n
    BY <1>3, <1>4, NewCellsAreThePipes
<1>. HIDE DEF new, pnew
<1>7. Cipher(buffer \o new, keystream, mode) = Ready \o pnew
    <2>1. Cipher(buffer \o new, keystream, mode)
              = Cipher(buffer, keystream, mode) \o Cipher(new, keystream + Len(buffer), mode)
        <3>1. buffer \in Seq(Cell) /\ new \in Seq(Cell) /\ keystream \in Nat
            BY <1>4, <1>5
        <3>. QED  BY <3>1, CipherJoined
    <2>. QED  BY <1>4, <1>6, <2>1, Zenon
<1>8. Unsent' = Ready \o pnew
    <2>1. last' # "failed"
        BY <1>1 DEF Unbroken
    <2>2. Unsent' = Cipher(buffer', keystream', mode')
        BY <2>1 DEF Unsent, Ready, Cipher, CipherCell
    <2>. QED  BY <1>1, <1>7, <2>2
<1>9. PipeOwed' = PipeOwed \o pnew
    <2>1. PipeOwed' = wire \o (Ready \o pnew)
        BY <1>1, <1>8 DEF PipeOwed
    <2>2. (wire \o Ready) \o pnew = wire \o (Ready \o pnew)
        <3>1. wire \in Seq(Cell) /\ Ready \in Seq(Cell) /\ pnew \in Seq(Cell)
            BY <1>4, <1>6
        <3>. QED  BY <3>1, ConcatAssociative, SMTT(30)
    <2>. QED  BY <1>4, <2>1, <2>2 DEF PipeOwed
<1>10. PipeKeystream' = IF mode = "Encrypt" THEN PipeKeystream + n ELSE 0
    <2>1. Len(buffer') = Len(buffer) + n
        <3>1. Joined(buffer, new, buffer')
            BY <1>1, <1>4, <1>5, ConcatShape
        <3>. QED  BY <1>5, <3>1 DEF Joined
    <2>2. last' # "failed" /\ (mode = "Standard" => keystream = 0)
        BY <1>1 DEF Unbroken
    <2>3. PipeKeystream' = IF mode = "Encrypt" THEN keystream + (Len(buffer) + n) ELSE keystream
        BY <1>1, <2>1, <2>2 DEF PipeKeystream
    <2>. QED  BY <1>3, <1>4, <2>2, <2>3
<1>11. Len(wire') \in Len(wire)..Len(PipeOwed)
    BY <1>1, <1>4
<1>. QED  BY <1>1, <1>2, <1>9, <1>10, <1>11 DEF Pipe!Accept, PipeOwed, PipeKeystream, pnew

\* A full buffer goes out first, then the pipe accepts; with buffer_size 0 the
\* call fails with nothing taken.
LEMMA WriteDrainsAccepts ==
    ASSUME IInv, Unbroken, failures = 0, IInv', Unbroken', WriteDrains
    PROVE  Pipe!Accept \/ Pipe!Touch
<1>. DEFINE n == Minimum(Capacity, todo)
            new == NewCells(n)
<1>1. /\ buffer' = new /\ accepted' = accepted + n /\ mode' = mode
      /\ wire' = wire \o Ready
      /\ keystream' = IF mode = "Encrypt" THEN keystream + Len(buffer) ELSE keystream
      /\ last' = IF n = 0 THEN "failed" ELSE last
    BY DEF WriteDrains, DrainOk, Advance
<1>2. /\ n \in Nat /\ n <= MaxWrite /\ (n = 0 => Capacity = 0)
    BY SyncAssumption, LenProperties DEF IInv, TypeOK, Started, WriteDrains, Minimum
<1>. HIDE DEF n
<1>3. /\ Unsent = Ready /\ Ready = Cipher(buffer, keystream, mode)
      /\ Ready \in Seq(Cell) /\ Len(Ready) = Len(buffer) /\ Len(buffer) \in Nat
      /\ PipeOwed \in Seq(Cell) /\ Len(PipeOwed) = Len(wire) + Len(buffer)
      /\ wire \in Seq(Cell) /\ Len(wire) \in Nat /\ keystream \in Nat
      /\ mode \in {"Standard", "Encrypt"} /\ buffer \in Seq(Cell) /\ accepted \in Nat
      /\ PipeKeystream = IF mode = "Encrypt" THEN keystream + Len(buffer) ELSE 0
    BY PipeState
<1>4. last # "failed" /\ (mode = "Standard" => keystream = 0)
    BY DEF Unbroken
<1>5. wire' = PipeOwed /\ keystream' = PipeKeystream /\ PipeKeystream \in Nat
    BY <1>1, <1>3, <1>4 DEF PipeOwed
<1>6. CASE n > 0
    <2>. DEFINE pnew == Pipe!NewCells(n)
    <2>1. /\ Cipher(new, PipeKeystream, mode) = pnew
          /\ pnew \in Seq(Cell) /\ Len(pnew) = n /\ Len(new) = n
        BY <1>2, <1>3, <1>5, NewCellsAreThePipes, NewCellsShape
    <2>. HIDE DEF new, pnew
    <2>2. last' = last /\ last' # "failed" /\ n \in 1..MaxWrite
        BY <1>1, <1>2, <1>4, <1>6, SyncAssumption
    <2>3. Unsent' = Cipher(buffer', keystream', mode')
        BY <2>2 DEF Unsent, Ready, Cipher, CipherCell
    <2>4. PipeOwed' = PipeOwed \o pnew
        BY <1>1, <1>5, <2>1, <2>3 DEF PipeOwed
    <2>5. PipeKeystream' = IF mode = "Encrypt" THEN PipeKeystream + n ELSE 0
        <3>1. PipeKeystream' = IF mode = "Encrypt" THEN keystream' + Len(buffer') ELSE keystream'
            BY <1>1, <2>2 DEF PipeKeystream
        <3>. QED  BY <1>1, <1>3, <1>5, <2>1, <3>1
    <2>6. Len(wire') \in Len(wire)..Len(PipeOwed)
        BY <1>3, <1>5
    <2>. QED  BY <1>1, <2>2, <2>4, <2>5, <2>6 DEF Pipe!Accept, PipeOwed, PipeKeystream, pnew
<1>7. CASE n = 0
    <2>1. Len(buffer) = 0 /\ Ready = <<>> /\ accepted' = accepted /\ last' = "failed"
        <3>1. Len(buffer) = 0
            <4>1. Len(buffer) <= Capacity
                BY DEF IInv, TypeOK
            <4>. QED  BY <1>2, <1>3, <1>7, <4>1
        <3>2. Ready = <<>>
            BY <1>3, <3>1, EmptySeq
        <3>. QED  BY <1>1, <1>3, <1>7, <3>1, <3>2
    <2>2. wire' = wire /\ PipeOwed = wire
        BY <1>1, <1>3, <2>1, ConcatEmptySeq DEF PipeOwed
    <2>3. Len(buffer') = 0 /\ buffer' = <<>>
        <3>1. new \in Seq(Cell) /\ Len(new) = 0
            BY <1>2, <1>3, <1>7, NewCellsShape
        <3>. QED  BY <1>1, <3>1, EmptySeq
    <2>4. Unsent' = <<>>
        <3>1. Unsent' = Cipher(buffer', keystream', mode')
            BY <2>3 DEF Unsent, Ready, Cipher, CipherCell
        <3>2. buffer' \in Seq(Cell) /\ keystream' \in Nat
            BY <2>3, <1>5
        <3>3. Unsent' \in Seq(Cell) /\ Len(Unsent') = 0
            BY <2>3, <3>1, <3>2, CipherShape
        <3>. QED  BY <3>3, EmptySeq
    <2>5. PipeOwed' = PipeOwed
        BY <1>3, <2>2, <2>4, ConcatEmptySeq DEF PipeOwed
    <2>6. PipeKeystream' = PipeKeystream
        BY <1>5, <2>1 DEF PipeKeystream
    <2>. QED  BY <1>1, <2>1, <2>2, <2>5, <2>6 DEF Pipe!Touch, PipeOwed, PipeKeystream
<1>. QED  BY <1>2, <1>6, <1>7

\* A sequence cut in two is its two parts.
LEMMA CutInTwo ==
    ASSUME NEW s \in Seq(Cell), NEW k \in 0..Len(s)
    PROVE  /\ SubSeq(s, 1, k) \o SubSeq(s, k + 1, Len(s)) = s
           /\ SubSeq(s, 1, k) \in Seq(Cell) /\ Len(SubSeq(s, 1, k)) = k
           /\ SubSeq(s, k + 1, Len(s)) \in Seq(Cell)
<1>. DEFINE a == SubSeq(s, 1, k)
            c == SubSeq(s, k + 1, Len(s))
            both == a \o c
<1>1. Len(s) \in Nat /\ k \in Nat /\ k <= Len(s)
    BY LenProperties
<1>2. /\ a \in Seq(Cell) /\ Len(a) = k
      /\ \A j \in 1..k : a[j] = s[j]
    BY PrefixShape
<1>3. /\ c \in Seq(Cell) /\ Len(c) = Len(s) - k
      /\ \A j \in 1..Len(s) - k : c[j] = s[k + j]
    <2>1. \A i \in k + 1 .. Len(s) : s[i] \in Cell
        BY <1>1, CellAt
    <2>2. /\ c \in Seq(Cell)
          /\ Len(c) = IF k + 1 <= Len(s) THEN Len(s) - (k + 1) + 1 ELSE 0
          /\ \A i \in 1..Len(s) - (k + 1) + 1 : c[i] = s[(k + 1) + i - 1]
        BY <1>1, <2>1, SubSeqProperties
    <2>. HIDE DEF c
    <2>. QED  BY <1>1, <2>2
<1>. HIDE DEF a, c
<1>4. Joined(a, c, both)
    BY <1>2, <1>3, ConcatShape
<1>. HIDE DEF both
<1>5. both \in Seq(Cell) /\ Len(both) = Len(s)
    BY <1>1, <1>2, <1>3, <1>4 DEF Joined
<1>6. ASSUME NEW i \in 1..Len(s)
      PROVE  both[i] = s[i]
    <2>1. CASE i <= k
        <3>1. i \in 1..k
            BY <1>1, <2>1
        <3>. QED  BY <1>2, <1>4, <3>1 DEF Joined
    <2>2. CASE i > k
        <3>1. PICK j \in 1..Len(s) - k : i = k + j
            <4>1. i - k \in 1..Len(s) - k /\ i = k + (i - k)
                BY <1>1, <2>2
            <4>. QED  BY <4>1
        <3>. QED  BY <1>2, <1>3, <1>4, <3>1 DEF Joined
    <2>. QED  BY <1>1, <2>1, <2>2
<1>7. both = s
    BY <1>5, <1>6, SeqEqual
<1>. QED  BY <1>2, <1>3, <1>7 DEF a, c, both

\* The first failure: what went out is gone, the rest is still owed as it is.
LEMMA DrainFailsSends ==
    ASSUME IInv, Unbroken, failures = 0, DrainFails
    PROVE  Pipe!Send
<1>1. PICK k \in 0..(Len(buffer) - 1) :
          wire' = wire \o SubSeq(Ready, 1, k) /\ cut' = k
    BY DEF DrainFails
<1>2. /\ buffer' = Ready /\ last' = "failed" /\ mode' = mode /\ accepted' = accepted
      /\ keystream' = IF mode = "Encrypt" THEN keystream + Len(buffer) ELSE keystream
    BY DEF DrainFails, Kept, Advance
<1>3. /\ Unsent = Ready
      /\ Ready \in Seq(Cell) /\ Len(Ready) = Len(buffer) /\ Len(buffer) \in Nat
      /\ PipeOwed \in Seq(Cell) /\ Len(PipeOwed) = Len(wire) + Len(buffer)
      /\ wire \in Seq(Cell) /\ Len(wire) \in Nat /\ keystream \in Nat
      /\ mode \in {"Standard", "Encrypt"}
      /\ PipeKeystream = IF mode = "Encrypt" THEN keystream + Len(buffer) ELSE 0
    BY PipeState
<1>. DEFINE a == SubSeq(Ready, 1, k)
            c == SubSeq(Ready, k + 1, Len(Ready))
<1>4. /\ a \o c = Ready /\ a \in Seq(Cell) /\ Len(a) = k /\ c \in Seq(Cell)
      /\ k \in Nat /\ k < Len(buffer)
    BY <1>3, CutInTwo, SMTT(30)
<1>5. wire' = wire \o a
    BY <1>1
<1>6. Unsent' = c
    <2>1. buffer' # <<>>
        BY <1>2, <1>3, <1>4, EmptySeq
    <2>2. Unsent' = SubSeq(buffer', cut' + 1, Len(buffer'))
        BY <1>2, <2>1 DEF Unsent
    <2>. QED  BY <1>1, <1>2, <2>2
<1>. HIDE DEF a, c
<1>7. PipeOwed' = PipeOwed
    <2>1. PipeOwed' = (wire \o a) \o c
        BY <1>5, <1>6 DEF PipeOwed
    <2>2. (wire \o a) \o c = wire \o (a \o c)
        <3>1. wire \in Seq(Cell) /\ a \in Seq(Cell) /\ c \in Seq(Cell)
            BY <1>3, <1>4
        <3>. QED  BY <3>1, ConcatAssociative, SMTT(30)
    <2>. QED  BY <1>3, <1>4, <2>1, <2>2 DEF PipeOwed
<1>8. PipeKeystream' = PipeKeystream
    <2>1. mode = "Standard" => keystream = 0
        BY DEF Unbroken
    <2>. QED  BY <1>2, <1>3, <2>1 DEF PipeKeystream
<1>9. Len(wire') \in Len(wire)..Len(PipeOwed)
    <2>1. Joined(wire, a, wire')
        BY <1>3, <1>4, <1>5, ConcatShape
    <2>2. Len(wire') = Len(wire) + k
        BY <1>4, <2>1 DEF Joined
    <2>. QED  BY <1>3, <1>4, <2>2
<1>. QED  BY <1>2, <1>7, <1>8, <1>9 DEF Pipe!Send, PipeOwed, PipeKeystream

\* A flush sends all that is owed, whatever the inner flush answers after it.
LEMMA FlushSends ==
    ASSUME IInv, Unbroken, failures = 0,
           IF NeedsDrain THEN DrainOk /\ buffer' = <<>>
                         ELSE UNCHANGED <<buffer, wire, cut, keystream>>,
           mode' = mode, accepted' = accepted
    PROVE  Pipe!Send
<1>1. /\ Unsent = Ready /\ Ready = Cipher(buffer, keystream, mode)
      /\ Ready \in Seq(Cell) /\ Len(Ready) = Len(buffer) /\ Len(buffer) \in Nat
      /\ PipeOwed \in Seq(Cell) /\ Len(PipeOwed) = Len(wire) + Len(buffer)
      /\ wire \in Seq(Cell) /\ Len(wire) \in Nat /\ keystream \in Nat
      /\ mode \in {"Standard", "Encrypt"}
      /\ PipeKeystream = IF mode = "Encrypt" THEN keystream + Len(buffer) ELSE 0
    BY PipeState
<1>2. mode = "Standard" => keystream = 0
    BY DEF Unbroken
<1>3. wire' = PipeOwed /\ keystream' = PipeKeystream /\ buffer' = <<>>
    <2>1. CASE NeedsDrain
        <3>1. wire' = wire \o Ready /\ buffer' = <<>>
              /\ keystream' = IF mode = "Encrypt" THEN keystream + Len(buffer) ELSE keystream
            BY <2>1 DEF DrainOk, Advance
        <3>. QED  BY <1>1, <1>2, <3>1 DEF PipeOwed
    <2>2. CASE ~NeedsDrain
        <3>1. buffer = <<>> /\ Len(buffer) = 0 /\ wire' = wire /\ keystream' = keystream
              /\ buffer' = <<>>
            BY <2>2, EmptySeq DEF NeedsDrain
        <3>2. Ready = <<>>
            BY <1>1, <3>1, EmptySeq
        <3>3. wire \o Ready = wire
            BY <1>1, <3>2, ConcatEmptySeq
        <3>4. keystream = PipeKeystream
            BY <1>1, <1>2, <3>1
        <3>. QED  BY <1>1, <3>1, <3>3, <3>4 DEF PipeOwed
    <2>. QED  BY <2>1, <2>2
<1>4. Len(buffer') = 0 /\ buffer' \in Seq(Cell) /\ PipeKeystream \in Nat
    BY <1>1, <1>3, EmptySeq
<1>5. Unsent' = <<>>
    <2>1. Unsent' = Cipher(buffer', keystream', mode')
        BY <1>3 DEF Unsent, Ready, Cipher, CipherCell
    <2>2. Unsent' \in Seq(Cell) /\ Len(Unsent') = 0
        <3>1. PICK buf, key, m :
                  buf \in Seq(Cell) /\ key \in Nat /\ buf = buffer' /\ key = keystream' /\ m = mode'
            BY <1>3, <1>4
        <3>2. Cipher(buf, key, m) \in Seq(Cell) /\ Len(Cipher(buf, key, m)) = Len(buf)
            BY <3>1, CipherShape
        <3>. QED  BY <1>4, <2>1, <3>1, <3>2
    <2>. QED  BY <2>2, EmptySeq
<1>6. PipeOwed' = PipeOwed
    <2>1. PipeOwed' = PipeOwed \o <<>>
        BY <1>3, <1>5 DEF PipeOwed
    <2>. QED  BY <1>1, <2>1, ConcatEmptySeq
<1>7. PipeKeystream' = PipeKeystream
    <2>1. PipeKeystream' = keystream' + 0 \/ PipeKeystream' = keystream'
        BY <1>4 DEF PipeKeystream
    <2>. QED  BY <1>3, <1>4, <2>1
<1>8. Len(wire') \in Len(wire)..Len(PipeOwed) /\ Len(wire') = Len(PipeOwed)
    BY <1>1, <1>3
<1>. QED  BY <1>6, <1>7, <1>8 DEF Pipe!Send, PipeOwed, PipeKeystream

\* with_encryption on a writer that has flushed: the pipe starts its cipher.
LEMMA WithEncryptionStarts ==
    ASSUME IInv, Unbroken, failures = 0, WithEncryption
    PROVE  Pipe!StartCipher
<1>1. /\ mode = "Standard" /\ mode' = "Encrypt" /\ buffer' = <<>> /\ keystream' = 0
      /\ wire' = wire /\ last' = last /\ accepted' = accepted /\ last = "flushed"
    BY DEF WithEncryption, IInv, TypeOK, Unbroken
<1>2. buffer = <<>> /\ Len(buffer) = 0
    BY <1>1, EmptySeq DEF IInv, FlushedIsDelivered
<1>3. /\ Unsent = Ready /\ Ready \in Seq(Cell) /\ Len(Ready) = Len(buffer)
      /\ PipeOwed \in Seq(Cell) /\ wire \in Seq(Cell) /\ Len(wire) \in Nat
    BY PipeState
<1>4. PipeOwed = wire
    <2>1. Unsent = <<>>
        BY <1>2, <1>3, EmptySeq
    <2>. QED  BY <1>3, <2>1, ConcatEmptySeq DEF PipeOwed
<1>5. PipeOwed' = wire
    <2>1. Unsent' = Cipher(<<>>, 0, "Encrypt")
        BY <1>1 DEF Unsent, Ready, Cipher, CipherCell
    <2>2. <<>> \in Seq(Cell) /\ Len(<<>>) = 0
        BY EmptySeq
    <2>3. Unsent' \in Seq(Cell) /\ Len(Unsent') = 0
        BY <2>1, <2>2, CipherShape
    <2>4. Unsent' = <<>>
        BY <2>3, EmptySeq
    <2>. QED  BY <1>1, <1>3, <2>4, ConcatEmptySeq DEF PipeOwed
<1>6. SubSeq(PipeOwed, 1, Len(wire)) = wire
    <2>. DEFINE s == SubSeq(wire, 1, Len(wire))
    <2>1. /\ s \in Seq(Cell) /\ Len(s) = Len(wire)
          /\ \A j \in 1..Len(wire) : s[j] = wire[j]
        BY <1>3, PrefixShape
    <2>. HIDE DEF s
    <2>2. s = wire
        BY <1>3, <2>1, SeqEqual
    <2>. QED  BY <1>4, <2>2 DEF s
<1>7. PipeKeystream' = 0
    <2>1. Len(buffer') = 0
        BY <1>1, EmptySeq
    <2>. QED  BY <1>1, <2>1 DEF PipeKeystream
<1>. QED  BY <1>1, <1>5, <1>6, <1>7 DEF Pipe!StartCipher, PipeOwed, PipeKeystream

\* The pipe starts empty.
LEMMA InitRefines == Init => Pipe!Init
<1>. SUFFICES ASSUME Init PROVE Pipe!Init
    OBVIOUS
<1>1. /\ wire = <<>> /\ buffer = <<>> /\ Len(wire) = 0 /\ Len(buffer) = 0
      /\ failures = 0 /\ accepted = 0 /\ mode = "Standard" /\ keystream = 0 /\ last = "flushed"
    BY EmptySeq DEF Init
<1>2. PipeOwed \in Seq(Cell) /\ Len(PipeOwed) = 0
    BY <1>1, InitEstablishes, PipeState
<1>3. PipeOwed = <<>>
    BY <1>2, EmptySeq
<1>. QED  BY <1>1, <1>3 DEF Pipe!Init, PipeOwed

\* Until a call has failed, each call is a step of the pipe or invisible.
LEMMA NextRefines ==
    IInv /\ Unbroken /\ IInv' /\ Unbroken' /\ [Next]_vars
        => [failures = 0 => Pipe!Next \/ UNCHANGED Pipe!vars]_vars
<1>. SUFFICES ASSUME IInv, Unbroken, IInv', Unbroken', Next, failures = 0
              PROVE  Pipe!Next \/ UNCHANGED Pipe!vars
    OBVIOUS
<1>1. CASE StartWrite
    <2>1. UNCHANGED <<mode, buffer, keystream, wire, accepted>> /\ last' = "open"
        BY <1>1 DEF StartWrite
    <2>2. last # "failed"
        BY DEF Unbroken
    <2>3. UNCHANGED <<PipeOwed, PipeKeystream>>
        BY <2>1, <2>2 DEF PipeOwed, PipeKeystream, Unsent, Ready
    <2>4. Pipe!Touch
        BY <2>1, <2>3 DEF Pipe!Touch, PipeOwed, PipeKeystream
    <2>. QED  BY <2>4 DEF Pipe!Next
<1>2. CASE WithEncryption
    BY <1>2, WithEncryptionStarts DEF Pipe!Next
<1>3. CASE WriteCopies
    BY <1>3, WriteCopiesAccepts DEF Pipe!Next
<1>4. CASE WriteDrains
    BY <1>4, WriteDrainsAccepts DEF Pipe!Next
<1>5. CASE WriteFails \/ FlushDrainFails
    BY <1>5, DrainFailsSends DEF Pipe!Next, WriteFails, FlushDrainFails
<1>6. CASE FlushOk
    BY <1>6, FlushSends DEF Pipe!Next, FlushOk
<1>7. CASE FlushInnerFails
    BY <1>7, FlushSends DEF Pipe!Next, FlushInnerFails
<1>. QED  BY <1>1, <1>2, <1>3, <1>4, <1>5, <1>6, <1>7 DEF Next

\* Up to and including the first failed call the blocking writer is the same
\* ordered pipe as the asynchronous one, for every buffer and every inner writer.
THEOREM ImplementsPipeUntilFailure == Spec => PipeUntilFailure
<1>1. IInv /\ Unbroken /\ [Next]_vars => (IInv /\ Unbroken)'
    BY NextKeeps, NextUnbroken
<1>2. Spec => [](IInv /\ Unbroken)
    BY <1>1, InitEstablishes, PTL DEF Spec
<1>. QED  BY <1>2, InitRefines, NextRefines, PTL DEF Spec, PipeUntilFailure
=============================================================================
