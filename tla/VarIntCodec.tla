---------------------------- MODULE VarIntCodec -----------------------------
(***************************************************************************)
(* VarInt of src/primatives/varint.rs: to_writer, from_reader and size, as *)
(* the loops they are.  The code's widths are Segment = 7 and Width = 32;  *)
(* smaller ones keep the same shape, a last group that is not full.        *)
(* A value is the i32 taken `as u32`.                                      *)
(***************************************************************************)
EXTENDS Naturals, Sequences

CONSTANTS
    Segment,   \* payload bits of a byte
    Width      \* bits of the integer

ASSUME WidthAssumption == Segment \in Nat \ {0} /\ Width \in Nat \ {0}

\* 2^n, as a recursion that proofs can unfold.
Power[n \in Nat] == IF n = 0 THEN 1 ELSE 2 * Power[n - 1]

Continue == Power[Segment]             \* CONTINUE_MASK
Word == Power[Width]
Byte == 0..(2 * Continue - 1)

\* Iterations of (0..Width).step_by(Segment), and bytes of the writer's buffer.
Groups == (Width + Segment - 1) \div Segment

\* What the lowest bit of group i counts: 1 << offset.
Weight(i) == Power[Segment * i]

VARIABLES
    origin,  \* "writer": bytes made by to_writer; "peer": any bytes
    value,   \* the integer written (origin "writer") or read at last
    bytes,   \* the bytes on the wire
    index,   \* bytes written or read so far
    acc,     \* `value` inside from_reader
    pc       \* "write", "read", "done", "oversized", "eof", "malformed"

vars == <<origin, value, bytes, index, acc, pc>>

\* A value is written, or the bytes of some peer are read.
Writing(n) ==
    /\ origin = "writer" /\ pc = "write" /\ value = n /\ bytes = <<>>
    /\ index = 0 /\ acc = 0
ReadingBytes(s) ==
    /\ origin = "peer" /\ pc = "read" /\ value = 0 /\ bytes = s
    /\ index = 0 /\ acc = 0

Init ==
    \/ \E n \in 0..(Word - 1) : Writing(n)
    \/ \E s \in UNION {[1..n -> Byte] : n \in 0..(Groups + 1)} : ReadingBytes(s)

-----------------------------------------------------------------------------
\* size: checked_ilog2 of 0 counts as 0.
Log2(n) == IF n = 0 THEN 0 ELSE CHOOSE k \in 0..(Width - 1) : Power[k] <= n /\ n < Power[k + 1]
SizeRoundedUp(n) == (Log2(n) + Segment - 1) \div Segment + 1
VarIntSize(n) == Log2(n) \div Segment + 1

\* The bits that no earlier byte carries: a logical shift of the u32.
RestArithmetic ==
    value \div Weight(index)
      + IF 2 * value >= Word THEN Word - Word \div Weight(index) ELSE 0
Rest == value \div Weight(index)

\* One iteration of to_writer's loop.  A buffer that is full with groups left
\* over ends in MalformedVarInt ("This should not be possible to reach").
WriteByte ==
    /\ pc = "write"
    /\ IF Rest < Continue
       THEN /\ bytes' = Append(bytes, Rest)
            /\ pc' = "read" /\ index' = 0
       ELSE /\ bytes' = Append(bytes, (Rest % Continue) + Continue)
            /\ index' = index + 1
            /\ pc' = IF index + 1 = Groups THEN "malformed" ELSE "write"
    /\ UNCHANGED <<origin, value, acc>>

\* value |= (curr & SEGMENT_MASK) << offset: the groups are disjoint, so | adds;
\* bits beyond the width are lost.
ShiftedBeyondWord(b, i) == (b % Continue) * Weight(i)
Shifted(b, i) == ((b % Continue) * Weight(i)) % Word

\* One iteration of from_reader's loop.
ReadByte ==
    /\ pc = "read" /\ index < Groups /\ index < Len(bytes)
    /\ LET b == bytes[index + 1] IN
           /\ acc' = acc + Shifted(b, index)
           /\ pc' = IF b < Continue THEN "done" ELSE "read"
    /\ index' = index + 1
    /\ UNCHANGED <<origin, value, bytes>>

ReadOversized ==
    /\ pc = "read" /\ index = Groups
    /\ pc' = "oversized"
    /\ UNCHANGED <<origin, value, bytes, index, acc>>

ReadEof ==
    /\ pc = "read" /\ index < Groups /\ index = Len(bytes)
    /\ pc' = "eof"
    /\ UNCHANGED <<origin, value, bytes, index, acc>>

Next == WriteByte \/ ReadByte \/ ReadOversized \/ ReadEof

Spec == Init /\ [][Next]_vars

-----------------------------------------------------------------------------
(* Properties. *)

\* Values stay inside the integer, even when the last byte carries more bits
\* than it has room for.
TypeOK ==
    /\ origin \in {"writer", "peer"} /\ value \in 0..(Word - 1)
    /\ bytes \in Seq(Byte) /\ index \in 0..Groups /\ acc \in 0..(Word - 1)
    /\ pc \in {"write", "read", "done", "oversized", "eof", "malformed"}

\* Every i32 comes back from its bytes, negative ones as their u32: to_writer ends
\* within its five bytes and from_reader takes all of them and no error.
RoundTrip ==
    origin = "writer" =>
        /\ pc \notin {"malformed", "oversized", "eof"}
        /\ pc = "done" => acc = value /\ index = Len(bytes)

\* Serializable::size, which frame lengths are computed from before a byte is
\* written, is what to_writer writes, and never more than any peer needs for the
\* same value: a length read within its three-byte bound is written within it.
SizeIsExact ==
    /\ origin = "writer" /\ pc \in {"read", "done"} => Len(bytes) = VarIntSize(value)
    /\ pc = "done" => VarIntSize(acc) <= index
=============================================================================
