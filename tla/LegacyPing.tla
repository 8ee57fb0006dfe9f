----------------------------- MODULE LegacyPing -----------------------------
(***************************************************************************)
(* Legacy1_3PingResponse and Legacy1_6PingResponse of protocol/mod.rs: the *)
(* length their constructors compute, from UTF-16 code units, and what     *)
(* their writers put on the stream.  A text is its number of code units.   *)
(***************************************************************************)
EXTENDS Integers

I16Max == 128 * 256 - 1

\* `payload_length as i16`.
AsI16(n) == LET u == n % (256 * 256) IN IF u > I16Max THEN u - 256 * 256 ELSE u

\* The byte 0xFF, the length, the code units: two bytes each.
Response(length, units) == [length |-> AsI16(length), units |-> units, bytes |-> 3 + 2 * units]
NoResponse == [length |-> 0, units |-> 0, bytes |-> 0]

\* A section sign between the texts.
Length1_3(t) == 2 + t.motd + t.online + t.max
Fits1_3(t) == Length1_3(t) <= 256
Written1_3(t) == t.motd + 1 + t.online + 1 + t.max

\* A section sign and a 1, "127", and a zero before each of the five fields.
Length1_6(t) == 10 + t.version + t.motd + t.online + t.max
Fits1_6Unsigned(t) == Length1_6(t) < 256 * 256
Fits1_6(t) == Length1_6(t) <= I16Max
Written1_6(t) ==
    2 + 1 + 3 + 1 + t.version + 1 + t.motd + 1 + t.online + 1 + t.max

\* The answer to a client found to be of a legacy version: NoResponse where the
\* constructor returns None.
ResponseTo(version, t) ==
    IF version = "Pre1_3"
    THEN IF Fits1_3(t) THEN Response(Length1_3(t), Written1_3(t)) ELSE NoResponse
    ELSE IF Fits1_6(t) THEN Response(Length1_6(t), Written1_6(t)) ELSE NoResponse

\* What an old client does with it: reads as many code units as the length
\* says, no more than its version allows.
AcceptedBy(version, r) ==
    /\ r.length >= 0 /\ r.length = r.units /\ r.bytes = 3 + 2 * r.length
    /\ version = "Pre1_3" => r.length <= 256
=============================================================================
