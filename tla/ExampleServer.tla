--------------------------- MODULE ExampleServer ----------------------------
(***************************************************************************)
(* The whole function of the example server: read_handshake, then the      *)
(* session of a modern client or the answer to a legacy ping, after which  *)
(* the server waits for the client to close.                               *)
(***************************************************************************)
EXTENDS HandshakeDetection, Session, LegacyPing

CONSTANTS
    PlayedOn,   \* length of the handshake whose client goes on; others leave
    Texts       \* texts of the legacy responses

ASSUME TextsAssumption ==
    \A t \in Texts : t.version \in Nat /\ t.motd \in Nat /\ t.online \in Nat /\ t.max \in Nat

VARIABLE response   \* written to a legacy client

serverVars == <<vars, sessionVars, response>>

\* HandshakeHandler's intent is read in SessionBegin; its errors are Handle's.
InHandshake == serverAt \in {"handshake", "legacy_read"}
DetectVersion == serverAt = "handshake" /\ Server /\ UNCHANGED <<sessionVars, response>>
Network(step) == InHandshake /\ step /\ UNCHANGED <<sessionVars, response>>

HandshakeFails ==
    /\ serverAt = "handshake" /\ pc \in Returned \ {"ok"}
    /\ Return("read_error")
    /\ UNCHANGED <<vars, plan, end, wire, clientAt, gone, wrong, trouble, response>>

\* The session follows on the handshake packet's last byte, or nowhere.
GoesOn == closed \/ (client = Modern(PlayedOn, 0) /\ prompt /\ arrived = Sent(client))
BeginSession ==
    /\ serverAt = "handshake" /\ pc = "ok" /\ version = "Standard" /\ GoesOn
    /\ IF pos = client.packet
       THEN /\ SessionBegin
            /\ gone' = closed /\ (plan'.honest => ~closed)
       ELSE /\ Return("garbled")
            /\ UNCHANGED <<plan, end, wire, clientAt, gone, wrong, trouble>>
    /\ UNCHANGED <<vars, response>>

\* A response the constructor refuses is an `expect` that fails.
AnswerPing ==
    /\ serverAt = "handshake" /\ pc = "ok" /\ version # "Standard"
    /\ \E t \in Texts : response' = ResponseTo(version, t)
    /\ \/ response' # NoResponse /\ serverAt' = "legacy_read" /\ UNCHANGED outcome
       \/ response' # NoResponse /\ closed /\ Return("write_error")
       \/ response' = NoResponse /\ Return("too_big")
    /\ UNCHANGED <<vars, plan, end, wire, clientAt, gone, wrong, trouble>>

-----------------------------------------------------------------------------
(* try_read_packet!(handler, HandshakeHandler).expect_err: read_packet, still *)
(* in the handshake state, on what is left of the ping.                       *)

\* Behind the 0xFA comes the length of MC|PingHost, 11, as two bytes.
PingByte(n) == IF client.kind = "Legacy1_6" /\ n = 5 THEN 11 ELSE ByteAt(client, n)

\* The length is a VarInt within a bound of three bytes.
Continues(k) == PingByte(pos + k) >= 128
LengthBytes == IF ~Continues(1) THEN 1 ELSE IF ~Continues(2) THEN 2 ELSE 3
Oversized == LengthBytes = 3 /\ Continues(3)
Digit(k) == PingByte(pos + k) % 128
PacketLength ==
    Digit(1) + (IF LengthBytes >= 2 THEN 128 * Digit(2) ELSE 0)
             + (IF LengthBytes >= 3 THEN 128 * 128 * Digit(3) ELSE 0)
PacketId == PingByte(pos + LengthBytes + 1)
IdEnds == IF PacketLength >= 2 /\ Continues(LengthBytes + 1) THEN 2 ELSE 1
Readable == /\ Has(1) /\ Has(LengthBytes)
            /\ Oversized \/ PacketLength = 0 \/ Has(LengthBytes + IdEnds)

\* ServerboundHandshakeState::designator_from_id.
KnownHandshakeId(id) == id = 0

\* HandshakeHandler succeeds on an id, a version, an address of no bytes and its
\* length, a port and an intent, at least, and on a modern client's packet, which
\* its fields fill, only on the whole of it; then `expect_err` fails.  A client
\* that sends a handshake packet behind its ping, or one with bytes behind its
\* fields, is not among the clients.
HandlerNeeds == IF client.kind = "Standard" THEN client.data ELSE 6
ReadSucceeds == ~Oversized /\ PacketLength >= HandlerNeeds /\ KnownHandshakeId(PacketId)
LegacyRead ==
    /\ serverAt = "legacy_read"
    /\ \/ Readable /\ Return(IF ReadSucceeds THEN "panic" ELSE "ok")
       \/ ~Readable /\ closed /\ Return("ok")
    /\ UNCHANGED <<vars, plan, end, wire, clientAt, gone, wrong, trouble, response>>

PlaySession(step) ==
    /\ serverAt \notin {"handshake", "legacy_read"} /\ step
    /\ UNCHANGED <<vars, response>>

-----------------------------------------------------------------------------
ServerInit == Init /\ SessionIdle /\ response = NoResponse

ServerNext ==
    \/ DetectVersion \/ Network(Arrive) \/ Network(Close)
    \/ HandshakeFails \/ BeginSession \/ AnswerPing \/ LegacyRead
    \/ PlaySession(SessionStep)

\* The server's thread runs, the network delivers what was sent, and an honest
\* client does its part.
ServerSpec ==
    /\ ServerInit /\ [][ServerNext]_serverVars
    /\ WF_serverVars(DetectVersion) /\ WF_serverVars(Network(Arrive))
    /\ WF_serverVars(HandshakeFails \/ BeginSession \/ AnswerPing \/ LegacyRead)
    /\ WF_serverVars(PlaySession(ServerStep))
    /\ WF_serverVars(PlaySession(plan.honest /\ ClientStep))

-----------------------------------------------------------------------------
(* Properties. *)

\* What a legacy client is sent, it can take apart: the length field is the
\* number of code units that follow, positive, within the 256 of the versions up
\* to 1.3 - also where a late byte made the ping look older than it is.  And "the
\* client should close the connection here": the rest of such a ping is never
\* read as a packet, which would panic.  This of the clients that send nothing
\* behind their ping, and whose handshakes are filled by their fields.
PingIsServed ==
    /\ response # NoResponse =>
           AcceptedBy(version, response) /\ AcceptedBy(client.kind, response)
    /\ outcome # "panic"

\* A connection whose client is gone does not keep its thread, whatever the
\* client was and wherever it left.
ThreadEnds == gone \/ closed ~> serverAt = "returned"
=============================================================================
