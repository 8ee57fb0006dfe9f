--------------------------- MODULE ProtocolStates ---------------------------
(***************************************************************************)
(* The type states of a ProtocolHandler, as build_protocol! and            *)
(* build_protocol_pre_1_21_2! generate them from a version's tables: which *)
(* packets an end may write in a state, which it understands there, and    *)
(* which state comes next.  A packet designator is a line of a table; its  *)
(* id is the literal that stands on the line.                              *)
(***************************************************************************)
EXTENDS Naturals, Sequences

CONSTANTS
    Versions,   \* protocol versions
    Ids         \* Ids[v][state][bound]: a table's literal ids, line by line

Tabled == {"status", "login", "config", "play"}
States == {"handshake"} \union Tabled
Sides == {"client", "server"}
Bounds == {"clientbound", "serverbound"}

ASSUME TablesAssumption == Ids \in [Versions -> [Tabled -> [Bounds -> Seq(Nat)]]]

\* The handshake states list their one packet, `id == 0`, themselves.
IdsIn(v, state, bound) ==
    CASE state = "handshake" -> IF bound = "serverbound" THEN <<0>> ELSE <<>>
      [] OTHER -> Ids[v][state][bound]

\* A packet: a line of a table, whatever id stands there.
Designator(state, bound, n) == [state |-> state, bound |-> bound, line |-> n]
Designators(v, state, bound) ==
    {Designator(state, bound, n) : n \in 1..Len(IdsIn(v, state, bound))}
Unknown == Designator("none", "none", 0)

\* ClientboundXState reads ClientboundXPacket and writes its reciprocal's;
\* a packet is written in the states with tables only.
Reads(side) == IF side = "client" THEN "clientbound" ELSE "serverbound"
Writes(side) == IF side = "client" THEN "serverbound" ELSE "clientbound"
Peer(side) == IF side = "client" THEN "server" ELSE "client"
Writable(v, state, side) ==
    IF state = "handshake" THEN {} ELSE Designators(v, state, Writes(side))

\* ProtocolState::designator_from_id of the state an end is in: the first arm
\* of its match that has the id.
Arms(ids, id) == {n \in 1..Len(ids) : ids[n] = id}
FirstOf(arms) == CHOOSE n \in arms : \A m \in arms : n <= m
DesignatorFromId(v, state, side, id) ==
    LET arms == Arms(IdsIn(v, state, Reads(side)), id) IN
        IF arms = {} THEN Unknown ELSE Designator(state, Reads(side), FirstOf(arms))

\* The packet type's `id`: the literal of its line.
Id(v, designator) == IdsIn(v, designator.state, designator.bound)[designator.line]

\* HandshakeProtocolState and HasNextProtocolState: into_status_state and
\* into_login_state from the handshake, into_next_state from there on.
HasConfig(v) == Ids[v]["config"]["serverbound"] # <<>>
NextStates(v, state) ==
    CASE state = "handshake" -> {"status", "login"}
      [] state = "login" -> IF HasConfig(v) THEN {"config"} ELSE {"play"}
      [] state = "config" -> {"play"}
      [] OTHER -> {}
=============================================================================
