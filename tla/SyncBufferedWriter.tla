------------------------- MODULE SyncBufferedWriter -------------------------
(***************************************************************************)
(* DefaultWriter of src/defaults/sync.rs: the enum over BufferedWriter and *)
(* EncryptionWriter, driven by std's write_all and flush over a blocking   *)
(* inner writer.                                                           *)
(*                                                                         *)
(* Nothing interleaves with a blocking call, so one step is one call of    *)
(* DefaultWriter::write or ::flush.  Unlike the asynchronous writer it has *)
(* no offset: when the inner write_all fails half way, the whole buffer -  *)
(* already encrypted in place - stays, and the next call sends it again.   *)
(* Cells are those of AsyncBufferedWriter.                                 *)
(***************************************************************************)
EXTENDS Naturals, Sequences

CONSTANTS
    Capacity,    \* buffer_size given to DefaultStreamProvider::new
    MaxWrite,    \* bound: longest slice given to one write_all
    MaxBytes,    \* bound: bytes the caller writes in one behaviour
    MaxFailures, \* bound: failed inner calls in one behaviour
    SinkRoom,    \* bytes the inner writer takes before it answers Ok(0)
    SinkBuffer   \* bytes the inner writer may keep until it is flushed

ASSUME SyncAssumption ==
    /\ Capacity \in Nat /\ MaxWrite \in Nat /\ MaxBytes \in Nat
    /\ MaxFailures \in Nat /\ SinkRoom \in Nat /\ SinkBuffer \in Nat

VARIABLES
    mode,       \* DefaultWriterState: "Standard" or "Encrypt"
    buffer,     \* cells in the Vec
    keystream,  \* positions the encryptor has used
    wire,       \* cells the inner writer accepted
    pushed,     \* how many of them it passed on to the peer
    todo,       \* bytes the running write_all still has to hand over
    last,       \* outcome: "flushed", "open", "failed"
    accepted,   \* history: bytes copied into the buffer
    keyAt,      \* history: accepted when encryption was switched on
    wireAt,     \* history: Len(wire) when encryption was switched on
    cut,        \* history: bytes of the buffer a failed write_all sent
    failures    \* history: failed calls

vars == <<mode, buffer, keystream, wire, pushed, todo, last, accepted,
          keyAt, wireAt, cut, failures>>

-----------------------------------------------------------------------------
Minimum(a, b) == IF a < b THEN a ELSE b

Cell == [b : Nat, e : Seq(Nat)]

\* self.buffer.capacity().saturating_sub(self.buffer.len())
FreeOffByOne == IF Len(buffer) <= Capacity THEN Capacity + 1 - Len(buffer) ELSE 0
Free == IF Len(buffer) < Capacity THEN Capacity - Len(buffer) ELSE 0

NewCells(n) == [j \in 1..n |-> [b |-> accepted + j, e |-> <<>>]]

\* The buffer as the inner writer gets it: encrypted in place, or as it is.
ReadyAnew ==
    [j \in 1..Len(buffer) |->
        [b |-> buffer[j].b,
         e |-> IF mode = "Encrypt" THEN Append(buffer[j].e, j) ELSE buffer[j].e]]
Ready ==
    [j \in 1..Len(buffer) |->
        [b |-> buffer[j].b,
         e |-> IF mode = "Encrypt" THEN Append(buffer[j].e, keystream + j)
                                   ELSE buffer[j].e]]

Init ==
    /\ mode = "Standard" /\ buffer = <<>> /\ keystream = 0
    /\ wire = <<>> /\ pushed = 0
    /\ todo = 0 /\ last = "flushed"
    /\ accepted = 0 /\ keyAt = 0 /\ wireAt = 0 /\ cut = 0 /\ failures = 0

-----------------------------------------------------------------------------
(* The caller, who may go on after an error. *)

\* write_all of a slice; an empty slice is never handed to write.
StartWrite ==
    /\ todo = 0
    /\ \E n \in 1..MaxWrite :
           /\ accepted + n <= MaxBytes
           /\ todo' = n
    /\ last' = "open"
    /\ UNCHANGED <<mode, buffer, keystream, wire, pushed, accepted,
                   keyAt, wireAt, cut, failures>>

\* DefaultWriter::with_encryption, never between two writes of one packet.
WithEncryption ==
    /\ todo = 0
    /\ last # "open" /\ mode = "Standard"
    /\ mode' = "Encrypt" /\ buffer' = <<>> /\ keystream' = 0
    /\ keyAt' = accepted /\ wireAt' = Len(wire) /\ cut' = 0
    /\ UNCHANGED <<wire, pushed, todo, last, accepted, failures>>

-----------------------------------------------------------------------------
(* One call of write or flush. *)

\* What the inner writer may hold back of a wire of length n.
Passed(n) == {p \in pushed..n : n - p <= SinkBuffer}

\* The buffer is encrypted whenever it is handed to the inner writer.
Advance == keystream' = IF mode = "Encrypt" THEN keystream + Len(buffer) ELSE keystream

\* The inner write_all takes the whole buffer.
DrainOk ==
    /\ Len(wire) + Len(buffer) <= SinkRoom \/ buffer = <<>>
    /\ wire' = wire \o Ready
    /\ cut' = 0
    /\ Advance

\* What stays in the buffer when the inner write_all fails: all of it.
KeptNothing == <<>>
Kept == Ready

\* The inner write_all fails after k bytes (an error, or Ok(0): WriteZero).
DrainFails ==
    /\ failures < MaxFailures
    /\ \E k \in 0..(Len(buffer) - 1) :
           /\ k = 0 \/ Len(wire) + k <= SinkRoom
           /\ wire' = wire \o SubSeq(Ready, 1, k)
           /\ pushed' \in Passed(Len(wire) + k)
           /\ cut' = k
    /\ buffer' = Kept
    /\ Advance
    /\ todo' = 0 /\ last' = "failed" /\ failures' = failures + 1
    /\ UNCHANGED <<mode, accepted, keyAt, wireAt>>

\* write with room in the buffer.
WriteCopies ==
    /\ todo > 0 /\ Free > 0
    /\ LET n == Minimum(Free, todo) IN
           /\ buffer' = buffer \o NewCells(n)
           /\ accepted' = accepted + n /\ todo' = todo - n
    /\ UNCHANGED <<mode, keystream, wire, pushed, last, keyAt, wireAt, cut, failures>>

\* write with a full buffer: drain, clear, copy.  With buffer_size 0 it copies
\* nothing, and write_all turns that Ok(0) into an error.
WriteDrains ==
    /\ todo > 0 /\ Free = 0
    /\ Capacity = 0 => failures < MaxFailures
    /\ DrainOk
    /\ pushed' \in Passed(Len(wire'))
    /\ LET n == Minimum(Capacity, todo) IN
           /\ buffer' = NewCells(n)
           /\ accepted' = accepted + n
           /\ todo' = IF n = 0 THEN 0 ELSE todo - n
           /\ last' = IF n = 0 THEN "failed" ELSE last
           /\ failures' = IF n = 0 THEN failures + 1 ELSE failures
    /\ UNCHANGED <<mode, keyAt, wireAt>>

WriteFails == todo > 0 /\ Free = 0 /\ DrainFails

\* flush drains a buffer that holds something.
NeedsDrain == buffer # <<>>

\* What reaches the peer when self.writer.flush() returns Ok.
PushedNothing == pushed
PushedAll == Len(wire')

\* flush that returns Ok: drain if needed, then flush the inner writer.
FlushOk ==
    /\ todo = 0
    /\ IF NeedsDrain THEN DrainOk /\ buffer' = <<>>
                     ELSE UNCHANGED <<buffer, wire, cut, keystream>>
    /\ pushed' = PushedAll
    /\ last' = "flushed"
    /\ UNCHANGED <<mode, todo, accepted, keyAt, wireAt, failures>>

FlushDrainFails == todo = 0 /\ NeedsDrain /\ DrainFails

\* The buffer got through, but the inner writer's own flush fails.
FlushInnerFails ==
    /\ todo = 0 /\ failures < MaxFailures
    /\ IF NeedsDrain THEN DrainOk /\ buffer' = <<>>
                     ELSE UNCHANGED <<buffer, wire, cut, keystream>>
    /\ pushed' \in Passed(Len(wire'))
    /\ last' = "failed" /\ failures' = failures + 1
    /\ UNCHANGED <<mode, todo, accepted, keyAt, wireAt>>

-----------------------------------------------------------------------------
Next ==
    \/ StartWrite \/ WithEncryption
    \/ WriteCopies \/ WriteDrains \/ WriteFails
    \/ FlushOk \/ FlushDrainFails \/ FlushInnerFails

Spec == Init /\ [][Next]_vars

-----------------------------------------------------------------------------
(* Properties. *)

\* Shape of the state; the Vec stays within the capacity it was built with.
TypeOK ==
    /\ mode \in {"Standard", "Encrypt"}
    /\ buffer \in Seq(Cell) /\ Len(buffer) <= Capacity
    /\ keystream \in Nat
    /\ wire \in Seq(Cell) /\ pushed \in 0..Len(wire)
    /\ todo \in Nat /\ last \in {"flushed", "open", "failed"}
    /\ accepted \in Nat /\ keyAt \in 0..accepted /\ wireAt \in 0..Len(wire)
    /\ cut \in 0..Len(buffer) /\ failures \in 0..MaxFailures

\* Used on after failed calls, the writer may repeat bytes (it sends the whole
\* buffer again) but never skips one, save those cleared by with_encryption.
NeverSkips ==
    \A i \in 1..Len(wire) - 1 :
        wire[i + 1].b <= wire[i].b + 1 \/ (mode = "Encrypt" /\ i = wireAt)

\* A flush that returned Ok has sent the newest byte, even when calls failed
\* before it, so with_encryption's clear() then loses nothing; and it has pushed
\* it past an inner writer that buffers, "ensuring the bytes are actually written"
\* as the doc of Writer::flush has it.
FlushedIsDelivered ==
    last = "flushed" =>
        /\ buffer = <<>> /\ pushed = Len(wire)
        /\ accepted > keyAt => wire # <<>> /\ wire[Len(wire)].b = accepted

\* What the peer is still owed; after a failed call the part it has not seen.
Unsent == IF last = "failed" /\ buffer # <<>> THEN SubSeq(buffer, cut + 1, Len(buffer))
                                             ELSE Ready

Pipe == INSTANCE BytePipe WITH
    owed      <- wire \o Unsent,
    sent      <- Len(wire),
    keyed     <- (mode = "Encrypt"),
    keystream <- IF last # "failed" /\ mode = "Encrypt"
                 THEN keystream + Len(buffer) ELSE keystream,
    clean     <- (last = "flushed")

\* Up to and including the first failed call - for good, if the caller then gives
\* the connection up, as the example server does - the writer implements the
\* abstract pipe: the peer reads exactly the bytes written, in order, each
\* enciphered once from the switch on.
PipeUntilFailure == Pipe!Init /\ [][failures = 0 => Pipe!Next \/ UNCHANGED Pipe!vars]_vars
=============================================================================
