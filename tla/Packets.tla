------------------------------ MODULE Packets -------------------------------
(***************************************************************************)
(* A packet inside its frame, from one end to the other: the designator's  *)
(* id as a VarInt (write_packet_internal's data.0), which the other end    *)
(* turns back into a designator of its own state, and the payload, which   *)
(* its handler reads.  The id of any packet of any version is sent, as it  *)
(* stands in the version's table; the payload does not depend on the id,   *)
(* so one packet carries them all.                                         *)
(***************************************************************************)
EXTENDS VarIntCodec, ProtocolStates, Primitives

CONSTANT Carrier   \* the packet that carries the payloads

\* An id is an i32.
ASSUME IdsAssumption ==
    \A v \in Versions, state \in Tabled, bound \in Bounds :
        \A n \in 1..Len(Ids[v][state][bound]) : Ids[v][state][bound][n] < Word

VARIABLE packet    \* who sends what, NoPacket where only an integer is sent

packetsVars == <<vars, bodyVars, packet>>

Packet(v, state, side, designator) ==
    [version |-> v, state |-> state, side |-> side, designator |-> designator]
NoPacket == Packet(0, "handshake", "client", Unknown)
AllPackets ==
    UNION {{Packet(v, state, side, d) : d \in Writable(v, state, side)} :
           v \in Versions, state \in States, side \in Sides}

PacketsInit ==
    /\ BodyNone
    /\ \/ Init /\ packet = NoPacket
       \/ packet \in AllPackets /\ Writing(Id(packet.version, packet.designator))

SendId == Next /\ UNCHANGED <<bodyVars, packet>>

\* The payload is written after the id and read after it.
SendBody ==
    /\ packet = Carrier /\ pc = "done"
    /\ BodyBegin \/ BodyStep
    /\ UNCHANGED <<vars, packet>>

PacketsNext == SendId \/ SendBody

PacketsSpec == PacketsInit /\ [][PacketsNext]_packetsVars

-----------------------------------------------------------------------------
\* designator_from_id of the state the packet's reader is in.
Designated == DesignatorFromId(packet.version, packet.state, Peer(packet.side), acc)

\* What an end writes in a state, the end opposite reads as that very packet:
\* in every table of every version the line that matches an id first is the
\* line it was written from.
SamePacket == packet # NoPacket /\ pc = "done" => Designated = packet.designator
=============================================================================
