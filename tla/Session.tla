------------------------------ MODULE Session -------------------------------
(***************************************************************************)
(* The example server (handle_connection_with_errors) after the handshake, *)
(* with a client of any version at the other end of two byte streams.  An  *)
(* end is a ProtocolHandler over a default stream provider: the BufReader  *)
(* reads ahead, the decryptor below it deciphers what is read from then on *)
(* only, the threshold decides how packets are framed.  A packet is one    *)
(* unit of the stream; PacketReader and PacketWriter have their bytes.     *)
(***************************************************************************)
EXTENDS PacketTables

CONSTANTS
    ClientVersions,  \* protocol versions of the clients
    ReadAhead,       \* packets a BufReader may hold
    MaxWrong,        \* packets a client sends out of turn, at most
    PlayIds          \* ids a client in the play state sends

ASSUME ClientVersionsAssumption == ClientVersions \subseteq AllVersions
ASSUME ReadAheadAssumption == ReadAhead \in Nat \ {0}
ASSUME MaxWrongAssumption == MaxWrong \in Nat
ASSUME PlayIdsAssumption == PlayIds \subseteq Nat

VARIABLES
    plan,     \* the client's version and intent; `honest`: it follows the protocol
    end,      \* each end's handler and provider
    wire,     \* packets written and not yet read into a buffer, by reader
    serverAt,   \* where the server's function is
    clientAt,   \* where the client is
    gone,     \* the client's end of the streams is closed
    wrong,    \* packets sent out of turn so far
    outcome,  \* how the function returned
    trouble   \* what an end met that it could not take for what it was

sessionVars == <<plan, end, wire, serverAt, clientAt, gone, wrong, outcome, trouble>>

ServerVersion == 773   \* v1_21_10
Opposite(side) == IF side = "server" THEN "client" ELSE "server"
VersionOf(side) == IF side = "server" THEN ServerVersion ELSE plan.version
BoundTo(side) == IF side = "server" THEN "serverbound" ELSE "clientbound"

NewEnd(state) ==
    [state |-> state, deciphers |-> FALSE, enciphers |-> FALSE, framed |-> FALSE, buffer |-> <<>>]

-----------------------------------------------------------------------------
(* The provider's operations at one end. *)

\* with_encryption: the reader under the BufReader is replaced, what the
\* BufReader holds is not; the writer's buffer is empty after a flush.
WriterOnly(e) == [e EXCEPT !.enciphers = TRUE]
WithEncryption(e) == [e EXCEPT !.deciphers = TRUE, !.enciphers = TRUE]
WithThreshold(e) == [e EXCEPT !.framed = TRUE]
InState(e, state) == [e EXCEPT !.state = state]

\* write_packet in the end's state, written and flushed whole.
Encoded(side, name, id, data) ==
    [name |-> name, state |-> end[side].state, id |-> id, data |-> data,
     enciphered |-> end[side].enciphers, framed |-> end[side].framed]
Named(side, name, data) ==
    Encoded(side, name,
            IdOf(VersionOf(side), end[side].state, BoundTo(Opposite(side)), name), data)
Send(side, packet) ==
    wire' = [wire EXCEPT ![Opposite(side)] = Append(@, packet)]

\* The BufReader is empty and fills up: any number of packets has arrived.
Smaller(m, n) == IF m < n THEN m ELSE n
FillBuffer(side) ==
    /\ end[side].buffer = <<>> /\ wire[side] # <<>>
    /\ \E n \in 1..Smaller(ReadAhead, Len(wire[side])) :
           /\ end' = [end EXCEPT ![side].buffer =
                         [i \in 1..n |-> [packet |-> wire[side][i],
                                          deciphered |-> end[side].deciphers]]]
           /\ wire' = [wire EXCEPT ![side] = SubSeq(@, n + 1, Len(@))]
    /\ UNCHANGED <<plan, serverAt, clientAt, gone, wrong, outcome, trouble>>

\* The packet that read_packet of an end comes to, and what it is there.
Buffered(side) == end[side].buffer # <<>>
NextPacket(side) == Head(end[side].buffer)
Legible(side) ==
    /\ NextPacket(side).deciphered = NextPacket(side).packet.enciphered
    /\ end[side].framed = NextPacket(side).packet.framed
PacketTaken(side) == [end[side] EXCEPT !.buffer = Tail(@)]
Seen(side) ==
    IF end[side].state = "play"
    THEN IF Listed(Table(VersionOf(side)).play[BoundTo(side)], NextPacket(side).packet.id)
         THEN "play" ELSE "unknown"
    ELSE Name(VersionOf(side), end[side].state, BoundTo(side), NextPacket(side).packet.id)
Mistaken(side) == Seen(side) \notin {NextPacket(side).packet.name, "unknown"}
Noted(side) == IF Mistaken(side) THEN trouble \union {<<side, "mistaken">>} ELSE trouble

-----------------------------------------------------------------------------
(* The server. *)

Return(how) == serverAt' = "returned" /\ outcome' = how

\* One write_packet! of the function: what it writes where, and what comes next.
WritesOf == [
    status_response    |-> <<"StatusResponse", "status_ping">>,
    pong               |-> <<"Pong", "returned">>,
    encryption_request |-> <<"EncryptionRequest", "encryption_response">>,
    set_compression    |-> <<"SetCompression", "login_success">>,
    login_success      |-> <<"LoginSuccess", "login_acknowledge">>,
    show_dialog        |-> <<"ShowDialog", "config">>,
    clear_dialog       |-> <<"ClearDialog", "goodbye">>,
    goodbye            |-> <<"Disconnect", "returned">>,
    kick               |-> <<"Disconnect", "returned">>]

\* set_compression_threshold follows the packet that announces it.
ThresholdUnset(where, e) == e
ThresholdEarly(where, e) == IF where = "encryption_request" THEN WithThreshold(e) ELSE e
ThresholdAfter(where, e) == IF where = "set_compression" THEN WithThreshold(e) ELSE e
ServerWrites ==
    /\ serverAt \in DOMAIN WritesOf
    /\ \/ /\ Send("server", Named("server", WritesOf[serverAt][1], "good"))
          /\ end' = [end EXCEPT !.server = ThresholdAfter(serverAt, @)]
          /\ serverAt' = WritesOf[serverAt][2]
          /\ outcome' = IF serverAt' # "returned" THEN outcome
                        ELSE IF serverAt = "kick" THEN "kicked" ELSE "ok"
       \/ gone /\ Return("write_error") /\ UNCHANGED <<end, wire>>
    /\ UNCHANGED <<plan, clientAt, gone, wrong, trouble>>

ServerEnciphers ==
    /\ serverAt = "with_encryption"
    /\ end' = [end EXCEPT !.server = WithEncryption(@)] /\ serverAt' = "set_compression"
    /\ UNCHANGED <<plan, wire, clientAt, gone, wrong, outcome, trouble>>

\* What the handlers make of the packet, by its designator.
Awaited == [
    status_request      |-> "StatusRequest",
    status_ping         |-> "Ping",
    login_start         |-> "LoginStart",
    encryption_response |-> "EncryptionResponse",
    login_acknowledge   |-> "LoginAcknowledge",
    config              |-> "CustomClick"]
After == [
    status_request      |-> "status_response",
    status_ping         |-> "pong",
    login_start         |-> "encryption_request",
    encryption_response |-> "with_encryption",
    login_acknowledge   |-> "show_dialog",
    config              |-> "clear_dialog"]
Otherwise(where) ==
    CASE where \in {"status_request", "status_ping"} -> "returned"
      [] where = "config" -> "config"
      [] OTHER -> "kick"

\* A packet of the right type whose fields are not right.  The login's name fails
\* as a ReadError.  A response's token and secret end in a kick, when they are
\* not the ones asked for; in a ReadError, when their lengths reach beyond the
\* packet; in a panic of the thread, when one is negative, `as usize` of which
\* no vec! can be.
StateAfter(where, e) == IF where = "login_acknowledge" THEN InState(e, "config") ELSE e
ServerTakes(where, data) ==
    CASE data = "good" -> /\ serverAt' = After[where]
                          /\ outcome' = IF serverAt' = "returned" THEN "ok" ELSE outcome
      [] data = "wrong" /\ where = "encryption_response" ->
             serverAt' = "kick" /\ UNCHANGED outcome
      [] data = "negative" /\ where = "encryption_response" -> Return("capacity_overflow")
      [] OTHER -> Return("read_error")
ServerReads ==
    /\ serverAt \in DOMAIN Awaited /\ Buffered("server") /\ Legible("server")
    /\ trouble' = Noted("server")
    /\ LET name == Seen("server") IN
           /\ CASE name = "unknown" -> Return("read_error")
                [] name = Awaited[serverAt] -> ServerTakes(serverAt, NextPacket("server").packet.data)
                [] OTHER -> /\ serverAt' = Otherwise(serverAt)
                            /\ outcome' = IF serverAt' = "returned" THEN "ok" ELSE outcome
           /\ end' = [end EXCEPT !.server =
                         IF name = Awaited[serverAt]
                         THEN StateAfter(serverAt, PacketTaken("server"))
                         ELSE PacketTaken("server")]
    /\ UNCHANGED <<plan, wire, clientAt, gone, wrong>>

\* Bytes in the wrong cipher or frame are some error, now or once they end.
ServerGarbled ==
    /\ serverAt \in DOMAIN Awaited /\ Buffered("server") /\ ~Legible("server")
    /\ Return("garbled") /\ trouble' = trouble \union {<<"server", "garbled">>}
    /\ UNCHANGED <<plan, end, wire, clientAt, gone, wrong>>

ServerEof ==
    /\ serverAt \in DOMAIN Awaited /\ ~Buffered("server") /\ wire.server = <<>> /\ gone
    /\ Return("read_error")
    /\ UNCHANGED <<plan, end, wire, clientAt, gone, wrong, trouble>>

ServerStep ==
    \/ ServerWrites \/ ServerEnciphers \/ ServerReads \/ ServerGarbled \/ ServerEof
    \/ serverAt \in DOMAIN Awaited /\ FillBuffer("server")

-----------------------------------------------------------------------------
(* The client: what its users do with the same handlers, or with another     *)
(* implementation of the protocol.                                           *)

WithCipher(e) == [e EXCEPT !.deciphers = TRUE, !.enciphers = TRUE]
Lines == Table(plan.version).named[end.client.state].serverbound
Knows(name) == \E i \in DOMAIN Lines : Lines[i][2] = name
ClientChanged(e, next) ==
    /\ end' = [end EXCEPT !.client = e] /\ clientAt' = next
    /\ UNCHANGED <<plan, serverAt, wrong, outcome>>
ClientSent(name, e, next) ==
    /\ Send("client", Named("client", name, "good"))
    /\ ClientChanged(e, next) /\ UNCHANGED <<gone, trouble>>

ClientSends ==
    \/ clientAt = "request" /\ ClientSent("StatusRequest", end.client, "status")
    \/ clientAt = "ping" /\ ClientSent("Ping", end.client, "status")
    \/ clientAt = "start" /\ ClientSent("LoginStart", end.client, "login")
    \/ clientAt = "respond" /\ ClientSent("EncryptionResponse", WithCipher(end.client), "login")
    \/ /\ clientAt = "acknowledge" /\ Knows("LoginAcknowledge")
       /\ ClientSent("LoginAcknowledge", InState(end.client, "config"), "config")
    \/ /\ clientAt = "acknowledge" /\ ~Knows("LoginAcknowledge")
       /\ ClientChanged(InState(end.client, "play"), "play") /\ UNCHANGED <<wire, gone, trouble>>
    \/ clientAt = "click" /\ ClientSent("CustomClick", end.client, "config")

\* What it does with a packet of its table.
Reaction(name) ==
    CASE name = "StatusResponse" -> "ping"
      [] name = "EncryptionRequest" -> "respond"
      [] name = "LoginSuccess" -> "acknowledge"
      [] name = "ShowDialog" -> "click"
      [] name \in {"Pong", "Disconnect"} /\ end.client.state # "play" -> "done"
      [] name = "unknown" -> "failed"
      [] OTHER -> clientAt
ClientReads ==
    /\ clientAt \in {"status", "login", "config", "play"} /\ Buffered("client") /\ ~gone
    /\ IF Legible("client")
       THEN /\ ClientChanged(IF Seen("client") = "SetCompression" THEN WithThreshold(PacketTaken("client"))
                             ELSE PacketTaken("client"),
                             Reaction(Seen("client")))
            /\ trouble' = Noted("client")
       ELSE /\ ClientChanged(end.client, "failed")
            /\ trouble' = trouble \union {<<"client", "garbled", NextPacket("client").packet.name>>}
    /\ gone' = (clientAt' \in {"done", "failed"})
    /\ UNCHANGED wire

ClientEof ==
    /\ clientAt \in {"status", "login", "config", "play"} /\ ~Buffered("client") /\ ~gone
    /\ wire.client = <<>> /\ serverAt = "returned"
    /\ ClientChanged(end.client, "failed") /\ gone' = TRUE /\ UNCHANGED <<wire, trouble>>

ClientStep ==
    \/ ~gone /\ ClientSends
    \/ ClientReads \/ ClientEof
    \/ clientAt \in {"status", "login", "config", "play"} /\ ~gone /\ FillBuffer("client")

\* Any packet of the state it is in, or one whose fields are not right,
\* out of turn; `early`: between its switch of ciphers and the server's.  Only
\* the request brings the key; who answers it, in whatever way, enciphers from then on.
Early == end.client.enciphers /\ ~end.client.framed
MayBe(name) ==
    CASE name = "LoginStart" -> {"good", "short"}
      [] name = "EncryptionResponse" ->
             IF clientAt = "respond" THEN {"wrong", "short", "negative"} ELSE {}
      [] OTHER -> {"good"}
OutOfTurn ==
    /\ ~plan.honest /\ ~gone /\ wrong < MaxWrong
    /\ end.client.state \in {"status", "login", "config"}
    /\ \E i \in DOMAIN Lines : \E data \in MayBe(Lines[i][2]) :
           /\ Send("client", Encoded("client", Lines[i][2], Lines[i][1], data))
           /\ IF Lines[i][2] = "EncryptionResponse"
              THEN /\ end' = [end EXCEPT !.client = WithCipher(@)]
                   /\ clientAt' = "login"
              ELSE UNCHANGED <<end, clientAt>>
    /\ wrong' = wrong + 1
    /\ trouble' = IF Early THEN trouble \union {<<"client", "early">>} ELSE trouble
    /\ UNCHANGED <<plan, serverAt, gone, outcome>>

\* A client that is past the login already, for its version, plays.
Plays ==
    /\ clientAt = "play" /\ ~gone /\ wrong < MaxWrong
    /\ \E id \in PlayIds : Send("client", Encoded("client", "play", id, "good"))
    /\ wrong' = wrong + 1
    /\ UNCHANGED <<plan, end, serverAt, clientAt, gone, outcome, trouble>>

Leaves ==
    /\ ~plan.honest /\ ~gone /\ gone' = TRUE
    /\ UNCHANGED <<plan, end, wire, serverAt, clientAt, wrong, outcome, trouble>>

SessionStep == ServerStep \/ ClientStep \/ OutOfTurn \/ Plays \/ Leaves

-----------------------------------------------------------------------------
SessionIdle ==
    /\ plan = [version |-> ServerVersion, intent |-> 0, honest |-> FALSE]
    /\ end = [side \in {"client", "server"} |-> NewEnd("handshake")]
    /\ wire = [side \in {"client", "server"} |-> <<>>]
    /\ serverAt = "handshake" /\ clientAt = "handshake" /\ gone = FALSE
    /\ wrong = 0 /\ outcome = "running" /\ trouble = {}

\* into_status_state or into_login_state, at both ends: intent 1 is the status,
\* 2 and 3 (a transfer) the login.
SessionBegin ==
    /\ \E v \in ClientVersions, i \in 1..3, honest \in BOOLEAN :
           plan' = [version |-> v, intent |-> i, honest |-> honest]
    /\ end' = [side \in {"client", "server"} |->
                  NewEnd(IF plan'.intent = 1 THEN "status" ELSE "login")]
    /\ serverAt' = IF plan'.intent = 1 THEN "status_request" ELSE "login_start"
    /\ clientAt' = IF plan'.intent = 1 THEN "request" ELSE "start"
    /\ UNCHANGED <<wire, wrong, outcome, trouble>>

-----------------------------------------------------------------------------
(* Properties. *)

\* The server reads every packet in the cipher and the frame it was written in,
\* whatever the network cuts and the BufReader reads ahead - unless the client
\* sends on between its switch to the cipher and the server's compression:
\* what was read ahead before with_encryption is never deciphered.
PatientClientsAreRead ==
    <<"server", "garbled">> \in trouble => <<"client", "early">> \in trouble

\* The client reads whatever the server writes - but for the kick of a client
\* that enciphers already, which the server writes in the clear.
OnlyKicksAreLost ==
    \A name \in {"StatusResponse", "Pong", "EncryptionRequest", "SetCompression",
                 "LoginSuccess", "ShowDialog", "ClearDialog"} :
        <<"client", "garbled", name>> \notin trouble

\* A packet means the same to both ends or nothing to its reader: with tables
\* of two versions, as long as the client keeps to the protocol and its version
\* knows the config state the server goes on to after the login.
SameMeaning ==
    \A side \in {"client", "server"} :
        <<side, "mistaken">> \in trouble =>
            Len(Table(plan.version).named.config.serverbound) = 0 \/ wrong > 0

\* The two ends are in the same state whenever nothing is on its way.
InStep ==
    /\ serverAt \in {"status_request", "status_ping", "login_start", "encryption_response", "config"}
    /\ wrong = 0 /\ \A side \in {"client", "server"} : wire[side] = <<>> /\ ~Buffered(side)
    => \A field \in {"state", "deciphers", "enciphers", "framed"} :
           end.server[field] = end.client[field]

\* A status request of any version is answered, as examples/basic_handshake.rs
\* says; a login of a version with dialogs comes to its end.
Understood ==
    plan.honest /\ (plan.intent = 1 \/ (plan.intent > 1 /\ plan.version \in 771..774))
Completes == Understood ~> clientAt = "done" /\ outcome = "ok"
=============================================================================
