------------------------ MODULE AsyncBufferedWriter -------------------------
(***************************************************************************)
(* AsyncDefaultWriter of src/defaults/asynchronous/{tokio,futures}.rs: the *)
(* enum over AsyncBufferedWriter and AsyncEncryptionWriter, driven by the  *)
(* write_all / flush futures of TokioIo and FuturesIo.                     *)
(*                                                                         *)
(* One step is one iteration of the loop in poll_write or poll_flush, or   *)
(* one reply of the inner writer.  Between a Pending and the next poll the *)
(* future is parked, and the caller may drop it (tokio::select!, timeout). *)
(*                                                                         *)
(* A cell [b, e] is one byte: b is its number among the bytes copied into  *)
(* the buffer, e the positions of the keystream applied to it, in order.   *)
(***************************************************************************)
EXTENDS Naturals, Sequences

CONSTANTS
    Capacity,    \* buffer_size given to AsyncDefaultStreamProvider::new
    MaxWrite,    \* bound: longest slice given to one write_all
    MaxBytes,    \* bound: bytes the caller writes in one behaviour
    SinkRoom,    \* bytes the inner writer takes before it answers Ok(0)
    SinkBuffer   \* bytes the inner writer may keep until it is flushed

ASSUME WriterAssumption ==
    /\ Capacity \in Nat
    /\ MaxWrite \in Nat
    /\ MaxBytes \in Nat
    /\ SinkRoom \in Nat
    /\ SinkBuffer \in Nat

VARIABLES
    mode,       \* AsyncDefaultWriter: "Standard" or "Encrypt"
    phase,      \* AsyncBufferedWriterState: "Fill" or "Write"
    offset,     \* the offset of Write(offset); 0 in Fill
    buffer,     \* cells in the Vec
    keystream,  \* positions the encryptor has used
    wire,       \* cells the inner writer accepted
    pushed,     \* how many of them the inner writer passed on to the peer
    call,       \* the caller's future: "idle", "write" (write_all) or "flush"
    todo,       \* bytes of the slice that write_all still has to hand over
    task,       \* "running" inside a poll, "parked" after Pending
    last,       \* outcome: "flushed", "open" (a write ended Ok), "failed"
    accepted,   \* history: bytes copied into the buffer
    keyAt,      \* history: accepted when encryption was switched on
    wireAt      \* history: Len(wire) when encryption was switched on

writer == <<mode, phase, offset, buffer, keystream>>
sink   == <<wire, pushed>>
caller == <<call, todo, task, last>>
marks  == <<keyAt, wireAt>>
vars   == <<mode, phase, offset, buffer, keystream, wire, pushed,
            call, todo, task, last, accepted, keyAt, wireAt>>

-----------------------------------------------------------------------------
Minimum(a, b) == IF a < b THEN a ELSE b

Cell == [b : Nat, e : Seq(Nat)]

\* this.buffer.capacity().saturating_sub(this.buffer.len())
FreeOffByOne == IF Len(buffer) <= Capacity THEN Capacity + 1 - Len(buffer) ELSE 0
Free == IF Len(buffer) < Capacity THEN Capacity - Len(buffer) ELSE 0

Remaining == Len(buffer) - offset

NewCells(n) == [j \in 1..n |-> [b |-> accepted + j, e |-> <<>>]]

\* The slice &this.buffer[*offset..], cut to the n bytes the inner writer takes.
SliceFromStart(n) == SubSeq(buffer, 1, n)
Slice(n) == SubSeq(buffer, offset + 1, offset + n)

\* *offset == this.buffer.len() once the n bytes are counted.
DrainedByOneWrite(n) == offset + n <= Len(buffer)
DrainedNever(n) == offset + n > Len(buffer)
Drained(n) == offset + n = Len(buffer)

\* poll_flush returns Ready(Ok(())) where poll_write goes back to Fill.
FlushDoneByOneWrite(n) == call = "flush" /\ n \in Nat
FlushDone(n) == call = "flush" /\ Drained(n)

\* encrypt_blocks_inout_mut over the whole buffer, in place.
EncryptedAnew == [j \in 1..Len(buffer) |->
                     [b |-> buffer[j].b, e |-> Append(buffer[j].e, j)]]
Encrypted == [j \in 1..Len(buffer) |->
                 [b |-> buffer[j].b, e |-> Append(buffer[j].e, keystream + j)]]

Init ==
    /\ mode = "Standard" /\ phase = "Fill" /\ offset = 0
    /\ buffer = <<>> /\ keystream = 0
    /\ wire = <<>> /\ pushed = 0
    /\ call = "idle" /\ todo = 0 /\ task = "running" /\ last = "flushed"
    /\ accepted = 0 /\ keyAt = 0 /\ wireAt = 0

-----------------------------------------------------------------------------
(* The caller. *)

\* async_write: write_all of a slice; an empty slice is never polled.
StartWrite ==
    /\ call = "idle"
    /\ \E n \in 1..MaxWrite :
           /\ accepted + n <= MaxBytes
           /\ todo' = n
    /\ call' = "write"
    /\ task' = "running"
    /\ last' = "open"
    /\ UNCHANGED <<writer, sink, accepted, marks>>

StartFlush ==
    /\ call = "idle"
    /\ call' = "flush"
    /\ task' = "running"
    /\ last' = "open"
    /\ UNCHANGED <<writer, sink, todo, accepted, marks>>

\* AsyncDefaultWriter::with_encryption.  It needs the writer for itself, and a
\* packet's writes end in a flush, an error or a cancellation, so it never
\* runs between two successful writes of one packet.
WithEncryption ==
    /\ call = "idle"
    /\ last # "open"
    /\ mode = "Standard"
    /\ mode' = "Encrypt"
    /\ phase' = "Fill" /\ offset' = 0 /\ buffer' = <<>> /\ keystream' = 0
    /\ keyAt' = accepted /\ wireAt' = Len(wire)
    /\ UNCHANGED <<sink, caller, accepted>>

\* The future is dropped while it waits; the writer keeps its state.
Cancel ==
    /\ call # "idle" /\ task = "parked"
    /\ call' = "idle" /\ todo' = 0 /\ task' = "running" /\ last' = "failed"
    /\ UNCHANGED <<writer, sink, accepted, marks>>

\* The executor polls the parked future again.
Wake ==
    /\ call # "idle" /\ task = "parked"
    /\ task' = "running"
    /\ UNCHANGED <<writer, sink, call, todo, last, accepted, marks>>

-----------------------------------------------------------------------------
(* Iterations of the loop in poll_write and poll_flush. *)

Polling == call # "idle" /\ task = "running"

\* poll_write in Fill with room: copy, return Ready(Ok(n)); write_all goes on.
Copy ==
    /\ Polling /\ call = "write" /\ phase = "Fill" /\ Free > 0
    /\ LET n == Minimum(Free, todo) IN
           /\ buffer' = buffer \o NewCells(n)
           /\ accepted' = accepted + n
           /\ todo' = todo - n
           /\ call' = IF todo = n THEN "idle" ELSE "write"
    /\ UNCHANGED <<mode, phase, offset, keystream, sink, task, last, marks>>

\* Fill to Write(0): the one place where the buffer is encrypted.
BeginDrain ==
    /\ Polling /\ phase = "Fill"
    /\ call = "flush" \/ Free = 0
    /\ phase' = "Write" /\ offset' = 0
    /\ IF mode = "Encrypt"
       THEN buffer' = Encrypted /\ keystream' = keystream + Len(buffer)
       ELSE UNCHANGED <<buffer, keystream>>
    /\ UNCHANGED <<mode, sink, caller, accepted, marks>>

\* The counts n the inner writer may answer for the slice buffer[offset..].
SinkAnswers ==
    LET room == Minimum(Remaining, IF Len(wire) < SinkRoom THEN SinkRoom - Len(wire) ELSE 0)
    IN  IF room = 0 THEN {0} ELSE 1..room

\* Write(offset), the inner write is Ready(Ok(n)).  The inner writer is never
\* flushed, so what it may hold back stays there.
InnerWrite ==
    /\ Polling /\ phase = "Write"
    /\ \E n \in SinkAnswers :
        /\ wire' = wire \o Slice(n)
        /\ pushed' \in {p \in pushed..Len(wire) + n : Len(wire) + n - p <= SinkBuffer}
        /\ IF Drained(n)
           THEN buffer' = <<>> /\ phase' = "Fill" /\ offset' = 0
           ELSE offset' = offset + n /\ UNCHANGED <<buffer, phase>>
        /\ IF FlushDone(n)
           THEN call' = "idle" /\ last' = "flushed"
           ELSE UNCHANGED <<call, last>>
    /\ UNCHANGED <<mode, keystream, todo, task, accepted, marks>>

\* Write(offset), the inner write is Pending.
InnerPending ==
    /\ Polling /\ phase = "Write"
    /\ task' = "parked"
    /\ UNCHANGED <<writer, sink, call, todo, last, accepted, marks>>

\* Write(offset), the inner write is Ready(Err(_)): `?` leaves the state alone.
InnerError ==
    /\ Polling /\ phase = "Write"
    /\ call' = "idle" /\ todo' = 0 /\ last' = "failed"
    /\ UNCHANGED <<writer, sink, task, accepted, marks>>

-----------------------------------------------------------------------------
Next ==
    \/ StartWrite \/ StartFlush \/ WithEncryption \/ Cancel \/ Wake
    \/ Copy \/ BeginDrain \/ InnerWrite \/ InnerPending \/ InnerError

Spec == Init /\ [][Next]_vars

\* A started call is polled whenever it is woken, and a peer that keeps
\* reading makes the inner writer take bytes again and again.
Fairness ==
    /\ WF_vars(Copy) /\ WF_vars(BeginDrain) /\ WF_vars(Wake)
    /\ SF_vars(InnerWrite)

FairSpec == Spec /\ Fairness

-----------------------------------------------------------------------------
(* Properties. *)

\* Shape of the state; the Vec never outgrows the capacity it was built with,
\* which poll_write reads back as its bound.
TypeOK ==
    /\ mode \in {"Standard", "Encrypt"} /\ phase \in {"Fill", "Write"}
    /\ buffer \in Seq(Cell) /\ Len(buffer) <= Capacity
    /\ offset \in Nat /\ offset <= Len(buffer) /\ (phase = "Fill" => offset = 0)
    /\ keystream \in Nat
    /\ wire \in Seq(Cell) /\ pushed \in Nat /\ pushed <= Len(wire)
    /\ call \in {"idle", "write", "flush"} /\ todo \in Nat
    /\ task \in {"running", "parked"} /\ last \in {"flushed", "open", "failed"}
    /\ accepted \in Nat /\ keyAt \in Nat /\ wireAt \in Nat
    /\ wireAt <= Len(wire) /\ keyAt <= accepted

\* The i-th byte the peer has to receive: in clear up to the switch, after it
\* the bytes written since, each enciphered once, at consecutive positions.
Owed(i) ==
    IF mode = "Standard" \/ i <= wireAt
    THEN [b |-> i, e |-> <<>>]
    ELSE [b |-> keyAt + (i - wireAt), e |-> <<i - wireAt>>]

\* Number of bytes the peer has to receive in all.
Due == IF mode = "Standard" THEN accepted ELSE wireAt + (accepted - keyAt)

\* Whatever mix of partial writes, Pending, errors, cancelled futures and
\* retries happened, the peer reads exactly the bytes written, in order, none
\* twice, each enciphered exactly once from the switch on (poll_write and
\* poll_flush keep Write(offset) across an early return).
WireExact == \A i \in 1..Len(wire) : wire[i] = Owed(i)

\* No byte is dropped by an error or a cancellation: what is not on the wire
\* is in the buffer behind the offset.
NothingDropped == Due = Len(wire) + Remaining

\* After a flush that returned Ok nothing waits in the buffer, so the clear()
\* in with_encryption loses nothing.
FlushedIsDelivered == call = "idle" /\ last = "flushed" => Len(wire) = Due

\* The doc of Writer::flush: "Flushes the stream, ensuring the bytes are
\* actually written" - also past an inner writer that buffers.
FlushReachesPeer == call = "idle" /\ last = "flushed" => pushed = Len(wire)

\* The doc of Writer::write: "Completely writes `data` to the stream, returning
\* an error if it cannot be done" - a call that is not dropped returns, as long
\* as the inner writer has room.  At its limit, where it answers Ok(0), the loops
\* never end.
CallReturns == call # "idle" ~> call = "idle"

\* What the peer is still owed, as it will leave.
Unsent == IF mode = "Encrypt" /\ phase = "Fill" THEN Encrypted ELSE Slice(Remaining)

Pipe == INSTANCE BytePipe WITH
    owed      <- wire \o Unsent,
    sent      <- Len(wire),
    keyed     <- (mode = "Encrypt"),
    keystream <- IF phase = "Fill" /\ mode = "Encrypt"
                 THEN keystream + Len(buffer) ELSE keystream,
    clean     <- (last = "flushed")

\* The writer implements the abstract pipe: every iteration of the poll loops
\* is an Accept, a Send, a StartCipher or invisible.
PipeSpec == Pipe!Spec
=============================================================================
