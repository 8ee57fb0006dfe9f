------------------------ MODULE ExampleServerProofs -------------------------
(***************************************************************************)
(* The example server for every client, every timing and any number of     *)
(* packets out of turn: the handshake's theorems in the whole server, the  *)
(* answer to a legacy ping, and in the session the switches to the cipher  *)
(* and to compression and the meaning of packets.                          *)
(***************************************************************************)
EXTENDS ExampleServer, HandshakeDetectionProofs

-----------------------------------------------------------------------------
(* The packet tables. *)

\* The ids of a table count from 0, line by line; a name is on one line of it, or
\* on none.
Counted(t) == Len(t) \in Nat /\ \A i \in 1..Len(t) : t[i][1] = i - 1
OnLine(t, k, name) ==
    k \in 1..Len(t) /\ t[k][2] = name /\ \A i \in 1..Len(t) : t[i][2] = name => i = k
OnNoLine(t, name) == \A i \in 1..Len(t) : t[i][2] # name

\* The names that both ends go by in the login state, in any version.
LoginTable(t) ==
    /\ Counted(t.clientbound) /\ Counted(t.serverbound)
    /\ DOMAIN t.serverbound = 1..Len(t.serverbound)
    /\ OnLine(t.clientbound, 1, "Disconnect") /\ OnLine(t.clientbound, 2, "EncryptionRequest")
    /\ OnLine(t.clientbound, 3, "LoginSuccess")
    /\ Len(t.clientbound) <= 17
    /\ OnLine(t.clientbound, 4, "SetCompression") \/ Len(t.clientbound) = 3
    /\ OnNoLine(t.clientbound, "StatusResponse") /\ OnNoLine(t.clientbound, "ShowDialog")
    /\ OnLine(t.serverbound, 1, "LoginStart") /\ OnLine(t.serverbound, 2, "EncryptionResponse")
    /\ OnLine(t.serverbound, 4, "LoginAcknowledge") \/ OnNoLine(t.serverbound, "LoginAcknowledge")

\* Every login table of the versions has the common names on the common lines.
LEMMA LoginTables ==
    /\ LoginTable(Login4) /\ LoginTable(Login47) /\ LoginTable(Login401)
    /\ LoginTable(Login764) /\ LoginTable(Login766)
<1>1. LoginTable(Login4)
    BY DEF Login4, Both, LoginTable, Counted, OnLine, OnNoLine
<1>2. LoginTable(Login47)
    BY DEF Login47, Both, LoginTable, Counted, OnLine, OnNoLine
<1>3. LoginTable(Login401)
    BY DEF Login401, Both, LoginTable, Counted, OnLine, OnNoLine
<1>4. LoginTable(Login764)
    BY DEF Login764, Both, LoginTable, Counted, OnLine, OnNoLine
<1>5. LoginTable(Login766)
    BY DEF Login766, Both, LoginTable, Counted, OnLine, OnNoLine
<1>. QED  BY <1>1, <1>2, <1>3, <1>4, <1>5

ConfigTable(t) ==
    /\ Counted(t.clientbound) /\ Counted(t.serverbound)
    /\ DOMAIN t.serverbound = 1..Len(t.serverbound)
    /\ OnNoLine(t.clientbound, "StatusResponse") /\ OnNoLine(t.clientbound, "EncryptionRequest")
    /\ OnNoLine(t.clientbound, "SetCompression") /\ OnNoLine(t.clientbound, "LoginSuccess")
NoDialogs(t) == Len(t.clientbound) <= 17 /\ OnNoLine(t.clientbound, "ShowDialog")
Dialogs(t) ==
    /\ OnLine(t.clientbound, 19, "ShowDialog") /\ OnLine(t.clientbound, 18, "ClearDialog")
    /\ OnLine(t.clientbound, 3, "Disconnect") /\ OnLine(t.serverbound, 9, "CustomClick")

\* No config table has a name of the login, and the last two have dialogs.
LEMMA ConfigTables ==
    /\ ConfigTable(NoConfig) /\ NoDialogs(NoConfig)
    /\ ConfigTable(Config764) /\ NoDialogs(Config764)
    /\ ConfigTable(Config765) /\ NoDialogs(Config765)
    /\ ConfigTable(Config766) /\ NoDialogs(Config766)
    /\ ConfigTable(Config767) /\ NoDialogs(Config767)
    /\ ConfigTable(Config771) /\ Dialogs(Config771)
    /\ ConfigTable(Config773) /\ Dialogs(Config773)
<1>1. ConfigTable(NoConfig) /\ NoDialogs(NoConfig)
    BY DEF NoConfig, Both, ConfigTable, Counted, NoDialogs, OnNoLine
<1>2. ConfigTable(Config764) /\ NoDialogs(Config764)
    BY DEF Config764, Both, ConfigTable, Counted, NoDialogs, OnNoLine
<1>3. ConfigTable(Config765) /\ NoDialogs(Config765)
    BY DEF Config765, Both, ConfigTable, Counted, NoDialogs, OnNoLine
<1>4. ConfigTable(Config766) /\ NoDialogs(Config766)
    BY DEF Config766, Both, ConfigTable, Counted, NoDialogs, OnNoLine
<1>5. ConfigTable(Config767) /\ NoDialogs(Config767)
    BY DEF Config767, Both, ConfigTable, Counted, NoDialogs, OnNoLine
<1>6. ConfigTable(Config771) /\ Dialogs(Config771)
    BY DEF Config771, Both, ConfigTable, Counted, Dialogs, OnLine, OnNoLine
<1>7. ConfigTable(Config773) /\ Dialogs(Config773)
    BY DEF Config773, Both, ConfigTable, Counted, Dialogs, OnLine, OnNoLine
<1>. QED  BY <1>1, <1>2, <1>3, <1>4, <1>5, <1>6, <1>7

\* The tables of every version; those with dialogs are the last four.
DialogVersions == {771, 772, 773, 774}

\* So it is for the tables of every version.
LEMMA VersionTables ==
    ASSUME NEW v \in AllVersions
    PROVE  /\ Table(v).named.status = Status
           /\ LoginTable(Table(v).named.login) /\ ConfigTable(Table(v).named.config)
           /\ v \in DialogVersions => Dialogs(Table(v).named.config)
           /\ v \notin DialogVersions => NoDialogs(Table(v).named.config)
<1>. DEFINE Older == {V4, V5, V47, V107, V108, V109, V110, V210, V315, V316, V335, V338, V340,
                      V401, V404, V498, V578, V753, V754, V755, V756, V757, V758, V759, V760,
                      V761, V762, V763, V764, V765, V766, V767, V769, V770}
            Newer == {V771, V772, V773, V774}
            Fits(t) == /\ t.named.status = Status
                       /\ t.named.login \in {Login4, Login47, Login401, Login764, Login766}
<1>1. /\ v \in DialogVersions => Table(v) \in Newer
      /\ v \notin DialogVersions => Table(v) \in Older
    BY DEF AllVersions, Tables, Table, DialogVersions
<1>2. \A t \in Newer : Fits(t) /\ t.named.config \in {Config771, Config773}
    BY DEF V771, V772, V773, V774, Version, Both
<1>3. \A t \in Older : /\ Fits(t)
                       /\ t.named.config \in {NoConfig, Config764, Config765, Config766, Config767}
    BY DEF V4, V5, V47, V107, V108, V109, V110, V210, V315, V316, V335, V338, V340, V401, V404,
           V498, V578, V753, V754, V755, V756, V757, V758, V759, V760, V761, V762, V763, V764,
           V765, V766, V767, V769, V770, Version, Both
<1>. HIDE DEF Older, Newer
<1>4. Fits(Table(v))
    BY <1>1, <1>2, <1>3
<1>5. /\ v \in DialogVersions => Table(v).named.config \in {Config771, Config773}
      /\ v \notin DialogVersions =>
             Table(v).named.config \in {NoConfig, Config764, Config765, Config766, Config767}
    BY <1>1, <1>2, <1>3
<1>. QED  BY <1>4, <1>5, LoginTables, ConfigTables

\* The server's own tables.
LEMMA ServerTables ==
    /\ ServerVersion \in AllVersions /\ ServerVersion \in DialogVersions
    /\ Table(ServerVersion).named.login = Login766
    /\ Table(ServerVersion).named.config = Config773
BY DEF ServerVersion, AllVersions, DialogVersions, Tables, Table, V773, Version

\* The id of a name is the one on its line.
LEMMA LineOfName ==
    ASSUME NEW v, NEW state, NEW bound, NEW k \in Nat, NEW name,
           Counted(Table(v).named[state][bound]),
           OnLine(Table(v).named[state][bound], k + 1, name)
    PROVE  IdOf(v, state, bound, name) = k
<1>. DEFINE t == Table(v).named[state][bound]
<1>1. Counted(t) /\ OnLine(t, k + 1, name)
    OBVIOUS
<1>. DEFINE line == CHOOSE n \in 1..Len(t) : t[n][2] = name
<1>2. IdOf(v, state, bound, name) = t[line][1]
    BY DEF IdOf
<1>. HIDE DEF t
<1>3. k + 1 \in 1..Len(t) /\ t[k + 1][2] = name
    BY <1>1 DEF OnLine
<1>4. \A n \in 1..Len(t) : t[n][2] = name => n = k + 1
    BY <1>1 DEF OnLine
<1>5. line = k + 1
    BY <1>3, <1>4
<1>. HIDE DEF line
<1>6. t[k + 1][1] = k
    BY <1>1, <1>3 DEF Counted
<1>. QED  BY <1>2, <1>5, <1>6

\* What an id is called in such a table: what stands on the line after as many.
Called(t, id) == IF id < Len(t) THEN t[id + 1][2] ELSE "unknown"

LEMMA NameIsCalled ==
    ASSUME NEW t, Counted(t), NEW id \in Nat
    PROVE  NameIn(t, id) = Called(t, id)
<1>. DEFINE arms == {n \in 1..Len(t) : t[n][1] = id}
<1>1. NameIn(t, id) = IF arms = {} THEN "unknown"
                      ELSE t[CHOOSE n \in arms : \A m \in arms : n <= m][2]
    BY DEF NameIn
<1>2. arms = {n \in 1..Len(t) : n - 1 = id} /\ Len(t) \in Nat
    BY DEF Counted
<1>3. CASE id < Len(t)
    <2>1. arms = {id + 1}
        BY <1>2, <1>3
    <2>. HIDE DEF arms
    <2>2. (CHOOSE n \in arms : \A m \in arms : n <= m) = id + 1
        BY <2>1
    <2>. QED  BY <1>1, <1>3, <2>1, <2>2 DEF Called
<1>4. CASE ~(id < Len(t))
    <2>1. arms = {}
        BY <1>2, <1>4
    <2>. HIDE DEF arms
    <2>. QED  BY <1>1, <1>4, <2>1 DEF Called
<1>. QED  BY <1>3, <1>4

\* A name on a line is that of the line's id only.
LEMMA NameOnLine ==
    ASSUME NEW t, NEW id \in Nat, NEW k \in Nat, NEW name,
           Counted(t), OnLine(t, k, name), name # "unknown"
    PROVE  Called(t, id) = name <=> id = k - 1
<1>1. ASSUME Called(t, id) = name PROVE id = k - 1
    <2>1. id < Len(t) /\ Len(t) \in Nat /\ t[id + 1][2] = name
        BY <1>1 DEF Called, Counted
    <2>2. id + 1 \in 1..Len(t)
        BY <2>1
    <2>3. id + 1 = k
        BY <2>1, <2>2 DEF OnLine
    <2>. QED  BY <2>3
<1>2. ASSUME id = k - 1 PROVE Called(t, id) = name
    <2>1. k \in 1..Len(t) /\ t[k][2] = name
        BY DEF OnLine
    <2>2. id + 1 = k /\ id < Len(t)
        BY <1>2, <2>1 DEF Counted
    <2>. QED  BY <2>1, <2>2 DEF Called
<1>. QED  BY <1>1, <1>2

\* A name on no line is that of no id.
LEMMA NameOnNoLine ==
    ASSUME NEW t, NEW id \in Nat, NEW name,
           Counted(t), OnNoLine(t, name), name # "unknown"
    PROVE  Called(t, id) # name
<1>1. id < Len(t) => id + 1 \in 1..Len(t)
    BY DEF Counted
<1>. QED  BY <1>1 DEF OnNoLine, Called

-----------------------------------------------------------------------------
(* The two streams. *)

\* What packets and ends are made of.
Elements(q) == {q[i] : i \in 1..Len(q)}
NamesOn(t) == {t[i][2] : i \in 1..Len(t)}
Sides == {"client", "server"}
States == {"handshake", "status", "login", "config", "play"}
ServerNames == {"StatusResponse", "Pong", "EncryptionRequest", "SetCompression", "LoginSuccess",
                "ShowDialog", "ClearDialog", "Disconnect"}
ClientNames ==
    {"StatusRequest", "Ping", "LoginStart", "EncryptionResponse", "LoginAcknowledge",
     "CustomClick", "play"}
      \union UNION {NamesOn(Table(v).named[s].serverbound) :
                       v \in AllVersions, s \in {"status", "login", "config"}}
PacketType == [name : ServerNames \union ClientNames, state : States, id : Nat,
               data : {"good", "wrong", "short", "negative"},
               enciphered : BOOLEAN, framed : BOOLEAN]
EntryType == [packet : PacketType, deciphered : BOOLEAN]
EndType == [state : States, deciphers : BOOLEAN, enciphers : BOOLEAN, framed : BOOLEAN,
            buffer : Seq(EntryType)]

SessionTypes ==
    /\ end \in [Sides -> EndType] /\ wire \in [Sides -> Seq(PacketType)]
    /\ plan.version \in AllVersions /\ wrong \in Nat

\* What an end has still to read: what its BufReader holds, then what is on its way.
Held(buffer) == [i \in 1..Len(buffer) |-> buffer[i].packet]
Stream(side) == Held(end[side].buffer) \o wire[side]
Coming(side) == Elements(Stream(side))
HeldBy(side) == Elements(end[side].buffer)

\* What is held is a sequence of packets.
LEMMA HeldShape ==
    ASSUME NEW b \in Seq(EntryType)
    PROVE  /\ Held(b) \in Seq(PacketType) /\ Len(Held(b)) = Len(b) /\ Len(b) \in Nat
           /\ \A i \in 1..Len(b) : Held(b)[i] = b[i].packet /\ b[i] \in EntryType
<1>1. Len(b) \in Nat
    BY LenProperties
<1>2. \A i \in 1..Len(b) : b[i] \in EntryType
    BY <1>1, ElementOfSeq
<1>3. \A i \in 1..Len(b) : b[i].packet \in PacketType
    BY <1>2 DEF EntryType
<1>4. Held(b) \in [1..Len(b) -> PacketType]
    BY <1>3 DEF Held
<1>5. Held(b) \in Seq(PacketType)
    BY <1>1, <1>4, SeqDef
<1>6. Len(Held(b)) = Len(b)
    BY <1>1, <1>4, <1>5, LenProperties
<1>. QED  BY <1>1, <1>2, <1>5, <1>6 DEF Held

\* A stream is a sequence of packets, and every packet held is one of them.
LEMMA StreamShape ==
    ASSUME SessionTypes, NEW side \in Sides
    PROVE  /\ end[side] \in EndType /\ end[side].buffer \in Seq(EntryType)
           /\ wire[side] \in Seq(PacketType) /\ Held(end[side].buffer) \in Seq(PacketType)
           /\ Stream(side) \in Seq(PacketType) /\ Len(Stream(side)) \in Nat
           /\ \A p \in Elements(Stream(side)) : p \in PacketType
           /\ \A i \in 1..Len(end[side].buffer) :
                  end[side].buffer[i].packet \in Elements(Stream(side))
           /\ \A i \in 1..Len(wire[side]) : wire[side][i] \in Elements(Stream(side))
<1>. DEFINE b == end[side].buffer
            h == Held(b)
            w == wire[side]
            q == h \o w
<1>1. end[side] \in EndType /\ b \in Seq(EntryType) /\ w \in Seq(PacketType)
    BY DEF SessionTypes, EndType
<1>. HIDE DEF b, w
<1>2. /\ h \in Seq(PacketType) /\ Len(h) = Len(b) /\ Len(b) \in Nat
      /\ \A i \in 1..Len(b) : h[i] = b[i].packet
    BY <1>1, HeldShape
<1>. HIDE DEF h
<1>3. Len(w) \in Nat
    BY <1>1, LenProperties
<1>4. /\ q \in Seq(PacketType) /\ Len(q) = Len(h) + Len(w)
      /\ \A i \in 1..Len(h) + Len(w) : q[i] = IF i <= Len(h) THEN h[i] ELSE w[i - Len(h)]
    BY <1>1, <1>2, ConcatProperties
<1>. HIDE DEF q
<1>5. Len(q) \in Nat /\ \A i \in 1..Len(q) : q[i] \in PacketType
    BY <1>2, <1>3, <1>4, ElementOfSeq
<1>6. ASSUME NEW i \in 1..Len(b) PROVE b[i].packet \in Elements(q)
    <2>1. i \in 1..Len(q) /\ q[i] = b[i].packet
        BY <1>2, <1>3, <1>4
    <2>. QED  BY <2>1 DEF Elements
<1>7. ASSUME NEW i \in 1..Len(w) PROVE w[i] \in Elements(q)
    <2>1. PICK m \in Nat : m = Len(h)
        BY <1>2
    <2>2. m + i \in 1..Len(q) /\ ~(m + i <= m) /\ (m + i) - m = i
        BY <1>3, <1>4, <2>1
    <2>3. q[m + i] = w[i]
        BY <1>4, <2>1, <2>2
    <2>. QED  BY <2>2, <2>3 DEF Elements
<1>8. Stream(side) = q
    BY DEF Stream, q, h, b, w
<1>9. \A p \in Elements(q) : p \in PacketType
    BY <1>5 DEF Elements
<1>. QED  BY <1>1, <1>2, <1>4, <1>5, <1>6, <1>7, <1>8, <1>9 DEF b, w, h

\* An element more at the end.
LEMMA Appended ==
    ASSUME NEW S, NEW q \in Seq(S), NEW x \in S
    PROVE  /\ Append(q, x) \in Seq(S) /\ Elements(Append(q, x)) = Elements(q) \union {x}
           /\ Len(q) \in Nat /\ Len(Append(q, x)) = Len(q) + 1
           /\ \A i \in 1..Len(q) : Append(q, x)[i] = q[i]
           /\ Append(q, x)[Len(q) + 1] = x
<1>. DEFINE a == Append(q, x)
<1>1. Len(q) \in Nat
    BY LenProperties
<1>2. /\ a \in Seq(S) /\ Len(a) = Len(q) + 1 /\ (\A i \in 1..Len(q) : a[i] = q[i])
      /\ a[Len(q) + 1] = x
    BY AppendProperties
<1>. HIDE DEF a
<1>3. PICK n \in Nat : n = Len(q)
    BY <1>1
<1>4. Elements(a) \subseteq Elements(q) \union {x}
    <2>. SUFFICES ASSUME NEW i \in 1..n + 1 PROVE a[i] \in Elements(q) \union {x}
        BY <1>2, <1>3 DEF Elements
    <2>1. i \in 1..n \/ i = n + 1
        OBVIOUS
    <2>. QED  BY <1>2, <1>3, <2>1 DEF Elements
<1>5. Elements(q) \union {x} \subseteq Elements(a)
    <2>1. \A i \in 1..n : i \in 1..n + 1
        OBVIOUS
    <2>2. n + 1 \in 1..n + 1
        OBVIOUS
    <2>3. \A i \in 1..n : q[i] \in Elements(a)
        BY <1>2, <1>3, <2>1 DEF Elements
    <2>4. x \in Elements(a)
        BY <1>2, <1>3, <2>2 DEF Elements
    <2>. QED  BY <1>3, <2>3, <2>4 DEF Elements
<1>6. Elements(a) = Elements(q) \union {x}
    BY <1>4, <1>5
<1>. QED  BY <1>1, <1>2, <1>6 DEF a

\* An element less at the front.
LEMMA Shortened ==
    ASSUME NEW S, NEW q \in Seq(S), q # <<>>
    PROVE  /\ Tail(q) \in Seq(S) /\ Elements(Tail(q)) \subseteq Elements(q)
           /\ Elements(q) = {q[1]} \union Elements(Tail(q))
           /\ Len(q) \in Nat /\ Len(q) >= 1 /\ Len(Tail(q)) = Len(q) - 1
           /\ \A i \in 1..Len(q) - 1 : Tail(q)[i] = q[i + 1]
           /\ Head(q) = q[1] /\ q[1] \in Elements(q) /\ q[1] \in S
<1>1. Len(q) \in Nat /\ Len(q) >= 1
    <2>1. Len(q) \in Nat
        BY LenProperties
    <2>2. Len(q) # 0
        BY EmptySeq
    <2>. QED  BY <2>1, <2>2
<1>2. /\ Tail(q) \in Seq(S) /\ Len(Tail(q)) = Len(q) - 1
      /\ \A i \in 1..Len(Tail(q)) : Tail(q)[i] = q[i + 1]
    BY HeadTailProperties
<1>3. \A i \in 1..Len(q) - 1 : i + 1 \in 1..Len(q)
    BY <1>1
<1>4. Elements(Tail(q)) \subseteq Elements(q)
    BY <1>2, <1>3 DEF Elements
<1>5. 1 \in 1..Len(q)
    BY <1>1
<1>6. Head(q) = q[1]
    OBVIOUS
<1>7. q[1] \in Elements(q) /\ q[1] \in S
    BY <1>5, ElementOfSeq DEF Elements
<1>8. Elements(q) \subseteq {q[1]} \union Elements(Tail(q))
    <2>. SUFFICES ASSUME NEW i \in 1..Len(q) PROVE q[i] \in {q[1]} \union Elements(Tail(q))
        BY DEF Elements
    <2>1. CASE i = 1
        BY <2>1
    <2>2. CASE i # 1
        <3>1. i - 1 \in 1..Len(Tail(q)) /\ (i - 1) + 1 = i
            BY <1>1, <1>2, <2>2
        <3>2. Tail(q)[i - 1] = q[i]
            BY <1>2, <3>1
        <3>. QED  BY <3>1, <3>2 DEF Elements
    <2>. QED  BY <2>1, <2>2
<1>9. Elements(q) = {q[1]} \union Elements(Tail(q))
    BY <1>4, <1>7, <1>8
<1>. QED  BY <1>1, <1>2, <1>4, <1>6, <1>7, <1>9

-----------------------------------------------------------------------------
(* The invariant of the session. *)

StatusPlaces == {"status_request", "status_response", "status_ping", "pong"}
PlainPlaces == {"login_start", "encryption_request", "encryption_response", "with_encryption"}
FramedPlaces == {"login_success", "login_acknowledge", "show_dialog", "config", "clear_dialog",
                 "goodbye"}
ConfigPlaces == {"show_dialog", "config", "clear_dialog", "goodbye"}
LoginPlaces == PlainPlaces \union {"set_compression", "login_success", "login_acknowledge", "kick"}
OutsidePlaces == {"handshake", "legacy_read"}

\* How the server's handler and provider stand at each place of the function.
ServerEnd ==
    /\ serverAt \in OutsidePlaces \union StatusPlaces \union LoginPlaces \union ConfigPlaces
                      \union {"returned"}
    /\ end.server.enciphers <=> end.server.deciphers
    /\ end.server.framed => end.server.deciphers
    /\ serverAt \in OutsidePlaces \union StatusPlaces \union PlainPlaces => ~end.server.deciphers
    /\ serverAt = "set_compression" => end.server.deciphers /\ ~end.server.framed
    /\ serverAt \in FramedPlaces => end.server.framed
    /\ serverAt = "kick" => (end.server.framed <=> end.server.deciphers)
    /\ serverAt \in OutsidePlaces => end.server.state = "handshake"
    /\ serverAt \in StatusPlaces => end.server.state = "status"
    /\ serverAt \in LoginPlaces => end.server.state = "login"
    /\ serverAt \in ConfigPlaces => end.server.state = "config"
    /\ end.server.state # "play"

\* How the client's stand, at each place of the client.
ClientEnd ==
    /\ clientAt \in {"handshake", "request", "ping", "status", "start", "login", "respond",
                     "acknowledge", "click", "config", "play", "done", "failed"}
    /\ end.client.enciphers <=> end.client.deciphers
    /\ end.client.framed => end.client.enciphers
    /\ clientAt = "handshake" => end.client.state = "handshake"
    /\ clientAt \in {"request", "ping", "status"} => end.client.state = "status"
    /\ clientAt \in {"start", "login", "respond", "acknowledge"} => end.client.state = "login"
    /\ clientAt \in {"click", "config"} => end.client.state = "config"
    /\ clientAt = "play" => end.client.state = "play"
    /\ clientAt = "acknowledge" \/ end.client.state \in {"config", "play"} => end.client.framed
    /\ end.client.enciphers /\ ~end.client.framed => clientAt \in {"login", "done", "failed"}
    /\ clientAt = "click" => plan.version \in DialogVersions
    /\ clientAt \in {"done", "failed"} => gone

\* The two ends: the client switches first to the cipher, the server first to
\* compression, and the client is not past the server's question.
EndsMeet ==
    /\ end.server.deciphers \/ serverAt = "with_encryption" => end.client.enciphers
    /\ end.client.framed => end.server.framed
    /\ clientAt = "respond" \/ end.client.enciphers =>
           serverAt \notin {"login_start", "encryption_request"}
    /\ end.client.state \in {"handshake", "status"} =>
           ~end.client.enciphers /\ serverAt \in OutsidePlaces \union StatusPlaces \union {"returned"}
    /\ serverAt \in StatusPlaces => end.client.state = "status"
    /\ serverAt \in OutsidePlaces => clientAt = "handshake"

\* The order in which the server writes its packets, and how far it is.
Turn(name) ==
    CASE name \in {"StatusResponse", "EncryptionRequest"} -> 1
      [] name \in {"Pong", "SetCompression"} -> 2
      [] name = "LoginSuccess" -> 3
      [] name = "ShowDialog" -> 4
      [] name = "ClearDialog" -> 5
      [] OTHER -> 6
ServerTurn(where) ==
    CASE where \in OutsidePlaces \union {"status_request", "status_response", "login_start",
                                         "encryption_request"} -> 1
      [] where \in {"status_ping", "pong", "encryption_response", "with_encryption",
                    "set_compression"} -> 2
      [] where = "login_success" -> 3
      [] where \in {"login_acknowledge", "show_dialog"} -> 4
      [] where \in {"config", "clear_dialog"} -> 5
      [] where \in {"goodbye", "kick"} -> 6
      [] OTHER -> 7
Sorted(q) == \A i, j \in 1..Len(q) : i < j => Turn(q[i].name) < Turn(q[j].name)
InOrder == Sorted(Stream("client"))

\* The ids of the server's packets, in its own tables.
ServerId(p) ==
    /\ p.name \in ServerNames
    /\ p.name = "StatusResponse" => p.id = 0
    /\ p.name \in {"Pong", "EncryptionRequest"} => p.id = 1
    /\ p.name = "LoginSuccess" => p.id = 2
    /\ p.name = "SetCompression" => p.id = 3
    /\ p.name = "ClearDialog" => p.id = 17
    /\ p.name = "ShowDialog" => p.id = 18
    /\ p.name = "Disconnect" => p.id \in {0, 2}

\* A packet on its way to the client: written in its turn and in the cipher and
\* frame that go with its name, and still to be read by a client that is there.
StatusNames == {"StatusResponse", "Pong"}
FramedNames == {"LoginSuccess", "ShowDialog", "ClearDialog"}
FromServer(p) ==
    /\ ServerId(p) /\ Turn(p.name) < ServerTurn(serverAt)
    /\ p.enciphered => end.server.deciphers
    /\ p.framed => end.server.framed
    /\ p.name \in StatusNames => ~p.enciphered /\ ~p.framed /\ end.client.state = "status"
    /\ p.name \notin StatusNames => end.client.state \notin {"handshake", "status"}
    /\ p.name = "EncryptionRequest" =>
           ~p.enciphered /\ ~p.framed /\ ~end.client.enciphers /\ clientAt # "respond"
    /\ p.name = "SetCompression" =>
           p.enciphered /\ ~p.framed /\ ~end.client.framed /\ end.server.framed
    /\ p.name = "Disconnect" /\ p.id = 2 => p.framed
    /\ p.name \in FramedNames => p.enciphered /\ p.framed
    /\ p.name \in {"ShowDialog", "ClearDialog"} => end.server.state = "config"
ToClient ==
    /\ InOrder
    /\ \A p \in Coming("client") : FromServer(p)
    /\ \A e \in HeldBy("client") :
           e.packet.name # "Disconnect" => (e.deciphered <=> e.packet.enciphered)

\* A client that does not know of the compression yet will hear of it.
FramePending ==
    end.server.framed /\ ~gone /\ ~end.client.framed =>
        \E p \in Coming("client") : p.name = "SetCompression"

\* A packet on its way to the server: it is of the state the client is in or was
\* in, and an EncryptionResponse comes from a client that enciphers.
IsResponse(p) == p.state = "login" /\ p.id = 1
FromClient(p) ==
    /\ p.state \in {"status", "login", "config", "play"}
    /\ p.state = "status" => end.client.state = "status"
    /\ p.state = "config" => end.client.state = "config"
    /\ p.state = "play" => end.client.state = "play"
    /\ p.state = "login" => end.client.state \notin {"handshake", "status"}
    /\ IsResponse(p) => end.client.enciphers
    /\ wrong = 0 => /\ p.state # "play"
                    /\ p.state = "login" /\ p.id = 3 => end.client.state = "config"

\* ... and from a patient client: what is in the clear was written before the
\* switch and is read before it; what is enciphered was written after the
\* compression and is read after it; and nothing is behind the response that
\* starts the switch.
Patient == <<"client", "early">> \notin trouble
FromPatient(p) ==
    /\ p.enciphered <=> p.framed
    /\ p.enciphered => end.server.framed
    /\ ~p.enciphered => ~end.server.deciphers /\ serverAt # "with_encryption"
ResponseIsLast(q) == \A i \in 1..Len(q) : IsResponse(q[i]) => i = Len(q)
ResponseLast == ResponseIsLast(Stream("server"))
ToServer ==
    /\ \A p \in Coming("server") : FromClient(p)
    /\ serverAt = "encryption_response" /\ end.client.enciphers =>
           \E p \in Coming("server") : IsResponse(p)
    /\ wrong = 0 /\ end.server.state = "config" => end.client.state = "config"
Patience ==
    Patient =>
        /\ \A p \in Coming("server") : FromPatient(p)
        /\ ~end.server.deciphers => ResponseLast
        /\ \A e \in HeldBy("server") : e.deciphered <=> e.packet.enciphered

SInv == /\ SessionTypes
        /\ ServerEnd
        /\ ClientEnd
        /\ EndsMeet
        /\ ToClient
        /\ FramePending
        /\ ToServer
        /\ Patience
        /\ PatientClientsAreRead
        /\ OnlyKicksAreLost

-----------------------------------------------------------------------------
(* What a step does to the streams. *)

\* An element more at the end of the second of two sequences.
LEMMA ConcatAppend ==
    ASSUME NEW S, NEW h \in Seq(S), NEW w \in Seq(S), NEW p \in S
    PROVE  h \o Append(w, p) = Append(h \o w, p)
<1>1. <<p>> \in Seq(S) /\ h \o w \in Seq(S)
    BY ConcatProperties
<1>2. Append(w, p) = w \o <<p>>
    BY AppendIsConcat
<1>3. Append(h \o w, p) = (h \o w) \o <<p>>
    BY <1>1, AppendIsConcat
<1>4. (h \o w) \o <<p>> = h \o (w \o <<p>>)
    BY <1>1, ConcatAssociative
<1>. QED  BY <1>2, <1>3, <1>4

\* An element less at the front of the first.
LEMMA ConcatTail ==
    ASSUME NEW S, NEW h \in Seq(S), NEW w \in Seq(S), h # <<>>
    PROVE  h \o w # <<>> /\ Tail(h \o w) = Tail(h) \o w /\ Head(h \o w) = Head(h)
<1>. DEFINE q == h \o w
            t == Tail(h)
            r == t \o w
<1>1. /\ t \in Seq(S) /\ Len(h) \in Nat /\ Len(h) >= 1 /\ Len(t) = Len(h) - 1
      /\ \A i \in 1..Len(h) - 1 : t[i] = h[i + 1]
      /\ Head(h) = h[1]
    BY Shortened
<1>. HIDE DEF t
<1>2. PICK m \in Nat, n \in Nat : m + 1 = Len(h) /\ n = Len(w)
    <2>1. Len(h) - 1 \in Nat /\ (Len(h) - 1) + 1 = Len(h)
        BY <1>1
    <2>2. Len(w) \in Nat
        BY LenProperties
    <2>. QED  BY <2>1, <2>2
<1>3. /\ q \in Seq(S) /\ Len(q) = Len(h) + Len(w)
      /\ \A i \in 1..Len(h) + Len(w) : q[i] = IF i <= Len(h) THEN h[i] ELSE w[i - Len(h)]
    BY ConcatProperties
<1>4. /\ r \in Seq(S) /\ Len(r) = Len(t) + Len(w)
      /\ \A i \in 1..Len(t) + Len(w) : r[i] = IF i <= Len(t) THEN t[i] ELSE w[i - Len(t)]
    BY <1>1, ConcatProperties
<1>. HIDE DEF q, r
<1>5. Len(t) = m /\ Len(q) = (m + 1) + n /\ Len(r) = m + n
    <2>1. Len(t) = (m + 1) - 1
        BY <1>1, <1>2
    <2>2. (m + 1) - 1 = m
        BY <1>2
    <2>. QED  BY <1>2, <1>3, <1>4, <2>1, <2>2
<1>6. q # <<>>
    <2>1. Len(q) # 0
        BY <1>2, <1>5
    <2>. QED  BY <2>1
<1>7. /\ Tail(q) \in Seq(S) /\ Len(Tail(q)) = Len(q) - 1 /\ Head(q) = q[1]
      /\ \A i \in 1..Len(q) - 1 : Tail(q)[i] = q[i + 1]
    BY <1>3, <1>6, Shortened
<1>8. q[1] = h[1]
    BY <1>1, <1>2, <1>3
<1>9. ASSUME NEW i \in 1..m + n PROVE r[i] = Tail(q)[i]
    <2>1. Tail(q)[i] = q[i + 1]
        BY <1>5, <1>7
    <2>2. i + 1 \in 1..Len(h) + Len(w) /\ i \in 1..Len(t) + Len(w)
        BY <1>2, <1>5
    <2>3. CASE i <= m
        <3>1. i \in 1..Len(h) - 1 /\ i + 1 <= Len(h) /\ i <= Len(t)
            BY <1>2, <1>5, <2>3
        <3>. QED  BY <1>1, <1>3, <1>4, <2>1, <2>2, <3>1
    <2>4. CASE i > m
        <3>1. ~(i + 1 <= Len(h)) /\ ~(i <= Len(t)) /\ (i + 1) - Len(h) = i - Len(t)
            BY <1>2, <1>5, <2>4
        <3>. QED  BY <1>3, <1>4, <2>1, <2>2, <3>1
    <2>5. i <= m \/ i > m
        BY <1>2
    <2>. QED  BY <2>3, <2>4, <2>5
<1>10. Len(r) = Len(Tail(q)) /\ Len(r) = m + n
    BY <1>2, <1>5, <1>7
<1>11. r = Tail(q)
    BY <1>4, <1>7, <1>9, <1>10, SeqEqual
<1>. QED  BY <1>1, <1>6, <1>7, <1>8, <1>11 DEF q, r, t

\* What is held after the first entry is taken.
LEMMA HeldTail ==
    ASSUME NEW b \in Seq(EntryType), b # <<>>
    PROVE  Held(b) # <<>> /\ Tail(Held(b)) = Held(Tail(b)) /\ Head(Held(b)) = Head(b).packet
<1>. DEFINE h == Held(b)
            g == Held(Tail(b))
<1>1. /\ Tail(b) \in Seq(EntryType) /\ Len(b) \in Nat /\ Len(b) >= 1 /\ Len(Tail(b)) = Len(b) - 1
      /\ \A i \in 1..Len(b) - 1 : Tail(b)[i] = b[i + 1]
      /\ Head(b) = b[1]
    BY Shortened
<1>2. h \in Seq(PacketType) /\ Len(h) = Len(b) /\ \A i \in 1..Len(b) : h[i] = b[i].packet
    BY HeldShape
<1>3. /\ g \in Seq(PacketType) /\ Len(g) = Len(Tail(b))
      /\ \A i \in 1..Len(Tail(b)) : g[i] = Tail(b)[i].packet
    BY <1>1, HeldShape
<1>. HIDE DEF h, g
<1>4. h # <<>>
    <2>1. Len(h) # 0
        BY <1>1, <1>2
    <2>. QED  BY <2>1
<1>5. /\ Tail(h) \in Seq(PacketType) /\ Len(Tail(h)) = Len(h) - 1 /\ Head(h) = h[1]
      /\ \A i \in 1..Len(h) - 1 : Tail(h)[i] = h[i + 1]
    BY <1>2, <1>4, Shortened
<1>6. ASSUME NEW i \in 1..Len(b) - 1 PROVE g[i] = Tail(h)[i]
    <2>1. i + 1 \in 1..Len(b)
        BY <1>1
    <2>. QED  BY <1>1, <1>2, <1>3, <1>5, <2>1
<1>7. Len(g) = Len(Tail(h)) /\ Len(g) = Len(b) - 1
    BY <1>1, <1>2, <1>3, <1>5
<1>8. g = Tail(h)
    BY <1>3, <1>5, <1>6, <1>7, SeqEqual
<1>9. h[1] = b[1].packet
    BY <1>1, <1>2
<1>. QED  BY <1>1, <1>4, <1>5, <1>8, <1>9 DEF h, g

\* What is held after a read below: the first n packets of what was on its way.
Filled(b, w, n, d) ==
    /\ b \in Seq(EntryType) /\ Held(b) \o SubSeq(w, n + 1, Len(w)) = w
    /\ SubSeq(w, n + 1, Len(w)) \in Seq(PacketType)
    /\ \A e \in Elements(b) : (e.deciphered <=> d) /\ e.packet \in Elements(w)

LEMMA HeldFilled ==
    ASSUME NEW w \in Seq(PacketType), NEW n \in 1..Len(w), NEW d \in BOOLEAN, NEW b,
           b \in [1..n -> EntryType],
           \A i \in 1..n : b[i].packet = w[i] /\ (b[i].deciphered <=> d)
    PROVE  Filled(b, w, n, d)
<1>1. Len(w) \in Nat /\ n \in Nat
    BY LenProperties
<1>2. \A i \in 1..Len(w) : w[i] \in PacketType
    BY ElementOfSeq
<1>3. \A i \in 1..n : i \in 1..Len(w)
    BY <1>1
<1>6. b \in Seq(EntryType)
    BY <1>1, SeqDef
<1>7. DOMAIN b = 1..n
    OBVIOUS
<1>8. Len(b) = n
    BY <1>1, <1>6, <1>7, LenProperties
<1>9. \A i \in 1..n : b[i].packet = w[i] /\ (b[i].deciphered <=> d)
    OBVIOUS
<1>10. /\ Held(b) \in Seq(PacketType) /\ Len(Held(b)) = n
       /\ \A i \in 1..n : Held(b)[i] = w[i]
    BY <1>6, <1>8, <1>9, HeldShape
<1>11. /\ SubSeq(w, 1, n) \in Seq(PacketType) /\ Len(SubSeq(w, 1, n)) = n
       /\ \A i \in 1..n : SubSeq(w, 1, n)[i] = w[i]
    <2>1. \A i \in 1..n : w[i] \in PacketType
        BY <1>2, <1>3
    <2>2. /\ SubSeq(w, 1, n) \in Seq(PacketType)
          /\ Len(SubSeq(w, 1, n)) = IF 1 <= n THEN (n - 1) + 1 ELSE 0
          /\ \A i \in 1..(n - 1) + 1 : SubSeq(w, 1, n)[i] = w[(1 + i) - 1]
        BY <1>1, <2>1, SubSeqProperties
    <2>3. (n - 1) + 1 = n /\ 1 <= n /\ \A i \in 1..n : (1 + i) - 1 = i
        BY <1>1
    <2>. QED  BY <2>2, <2>3
<1>12. Held(b) = SubSeq(w, 1, n)
    BY <1>10, <1>11, SeqEqual
<1>13. SubSeq(w, 1, n) \o SubSeq(w, n + 1, Len(w)) = SubSeq(w, 1, Len(w))
    <2>1. 1 \in 1..Len(w) + 1 /\ n \in 1 - 1..Len(w) /\ Len(w) \in n..Len(w)
        BY <1>1
    <2>. QED  BY <2>1, ConcatAdjacentSubSeq
<1>14. SubSeq(w, 1, Len(w)) = w
    BY SubSeqFull
<1>15. SubSeq(w, n + 1, Len(w)) \in Seq(PacketType)
    <2>1. \A i \in n + 1..Len(w) : w[i] \in PacketType
        BY <1>1, <1>2
    <2>. QED  BY <1>1, <2>1, SubSeqProperties
<1>16. \A e \in Elements(b) : (e.deciphered <=> d) /\ e.packet \in Elements(w)
    BY <1>3, <1>8, <1>9 DEF Elements
<1>. QED  BY <1>6, <1>12, <1>13, <1>14, <1>15, <1>16 DEF Filled

\* A stream nobody touches.
LEMMA KeptStream ==
    ASSUME NEW side, end'[side].buffer = end[side].buffer, wire'[side] = wire[side]
    PROVE  Stream(side)' = Stream(side)
BY DEF Stream, Held

\* A packet is written: one more at the end of what the reader has to read.
LEMMA SendStream ==
    ASSUME SessionTypes, NEW side \in Sides, NEW p, p \in PacketType,
           wire' = [wire EXCEPT ![side] = Append(@, p)],
           end'[side].buffer = end[side].buffer
    PROVE  /\ Stream(side)' = Append(Stream(side), p)
           /\ wire' \in [Sides -> Seq(PacketType)]
           /\ \A s \in Sides : s # side => wire'[s] = wire[s]
<1>1. Held(end[side].buffer) \in Seq(PacketType) /\ wire[side] \in Seq(PacketType)
    BY StreamShape
<1>2. wire'[side] = Append(wire[side], p) /\ \A s \in Sides : s # side => wire'[s] = wire[s]
    BY DEF SessionTypes
<1>3. Append(wire[side], p) \in Seq(PacketType)
    BY <1>1, AppendProperties
<1>4. wire' \in [Sides -> Seq(PacketType)]
    BY <1>3 DEF SessionTypes
<1>5. Held(end[side].buffer) \o Append(wire[side], p)
          = Append(Held(end[side].buffer) \o wire[side], p)
    <2>. DEFINE h == Held(end[side].buffer)
                w == wire[side]
    <2>1. h \in Seq(PacketType) /\ w \in Seq(PacketType)
        BY <1>1
    <2>. HIDE DEF h, w
    <2>2. h \o Append(w, p) = Append(h \o w, p)
        BY <2>1, ConcatAppend
    <2>. QED  BY <2>2 DEF h, w
<1>. QED  BY <1>2, <1>4, <1>5 DEF Stream, Held

\* A packet is taken: the first of what the reader has to read.
LEMMA TakeStream ==
    ASSUME SessionTypes, NEW side \in Sides, Buffered(side),
           end'[side].buffer = Tail(end[side].buffer), wire'[side] = wire[side]
    PROVE  /\ Stream(side) # <<>> /\ Stream(side)' = Tail(Stream(side))
           /\ Head(Stream(side)) = NextPacket(side).packet
           /\ end'[side].buffer \in Seq(EntryType)
           /\ Elements(end[side].buffer)' \subseteq Elements(end[side].buffer)
           /\ NextPacket(side) \in Elements(end[side].buffer)
           /\ NextPacket(side) \in EntryType
<1>1. /\ end[side].buffer \in Seq(EntryType) /\ end[side].buffer # <<>>
      /\ Held(end[side].buffer) \in Seq(PacketType) /\ wire[side] \in Seq(PacketType)
    BY StreamShape DEF Buffered
<1>2. /\ Held(end[side].buffer) # <<>>
      /\ Tail(Held(end[side].buffer)) = Held(Tail(end[side].buffer))
      /\ Head(Held(end[side].buffer)) = Head(end[side].buffer).packet
    BY <1>1, HeldTail
<1>3. /\ Held(end[side].buffer) \o wire[side] # <<>>
      /\ Tail(Held(end[side].buffer) \o wire[side]) = Tail(Held(end[side].buffer)) \o wire[side]
      /\ Head(Held(end[side].buffer) \o wire[side]) = Head(Held(end[side].buffer))
    BY <1>1, <1>2, ConcatTail
<1>4. /\ Tail(end[side].buffer) \in Seq(EntryType)
      /\ Elements(Tail(end[side].buffer)) \subseteq Elements(end[side].buffer)
      /\ Head(end[side].buffer) \in Elements(end[side].buffer)
      /\ Head(end[side].buffer) \in EntryType
    BY <1>1, Shortened
<1>5. Stream(side)' = Tail(Stream(side))
    BY <1>2, <1>3 DEF Stream, Held
<1>6. Elements(end[side].buffer)' = Elements(Tail(end[side].buffer))
    BY DEF Elements
<1>. QED  BY <1>2, <1>3, <1>4, <1>5, <1>6 DEF Stream, NextPacket

\* A read below the BufReader: what there is to read stays the same, and what is
\* held now has gone through the decryptor of this moment.
LEMMA FillStream ==
    ASSUME SessionTypes, NEW side \in Sides, FillBuffer(side)
    PROVE  /\ end' \in [Sides -> EndType] /\ wire' \in [Sides -> Seq(PacketType)]
           /\ \A s \in Sides : Stream(s)' = Stream(s)
           /\ \A e \in Elements(end[side].buffer)' :
                  (e.deciphered <=> end[side].deciphers) /\ e.packet \in Elements(Stream(side))
           /\ \A s \in Sides : s # side => end'[s] = end[s]
           /\ \A s \in Sides : /\ end'[s].state = end[s].state
                               /\ end'[s].deciphers = end[s].deciphers
                               /\ end'[s].enciphers = end[s].enciphers
                               /\ end'[s].framed = end[s].framed
<1>1. /\ end[side] \in EndType /\ wire[side] \in Seq(PacketType) /\ end[side].buffer = <<>>
      /\ end[side].deciphers \in BOOLEAN /\ Len(wire[side]) \in Nat
    BY StreamShape, LenProperties DEF FillBuffer, EndType
<1>2. PICK n \in 1..Smaller(ReadAhead, Len(wire[side])) :
           /\ end' = [end EXCEPT ![side].buffer =
                         [i \in 1..n |-> [packet |-> wire[side][i],
                                          deciphered |-> end[side].deciphers]]]
           /\ wire' = [wire EXCEPT ![side] = SubSeq(@, n + 1, Len(@))]
    BY DEF FillBuffer
<1>3. n \in 1..Len(wire[side])
    BY <1>1, ReadAheadAssumption DEF Smaller
<1>. DEFINE b == [i \in 1..n |-> [packet |-> wire[side][i], deciphered |-> end[side].deciphers]]
            w == SubSeq(wire[side], n + 1, Len(wire[side]))
<1>4. end' = [end EXCEPT ![side].buffer = b] /\ wire' = [wire EXCEPT ![side] = w]
    BY <1>2 DEF SessionTypes
<1>5. /\ b \in Seq(EntryType) /\ Held(b) \o w = wire[side] /\ w \in Seq(PacketType)
      /\ \A e \in Elements(b) :
             (e.deciphered <=> end[side].deciphers) /\ e.packet \in Elements(wire[side])
    <2>. DEFINE v == wire[side]
                d == end[side].deciphers
    <2>1. /\ v \in Seq(PacketType) /\ n \in 1..Len(v) /\ d \in BOOLEAN
          /\ w = SubSeq(v, n + 1, Len(v))
        BY <1>1, <1>3
    <2>3. \A i \in 1..n : wire[side][i] \in PacketType
        BY <1>1, <1>3, ElementOfSeq
    <2>4. /\ b \in [1..n -> EntryType]
          /\ \A i \in 1..n : b[i].packet = v[i] /\ (b[i].deciphered <=> d)
        BY <2>1, <2>3 DEF EntryType
    <2>. HIDE DEF b, v, d, w
    <2>2. /\ b \in Seq(EntryType) /\ Held(b) \o SubSeq(v, n + 1, Len(v)) = v
          /\ SubSeq(v, n + 1, Len(v)) \in Seq(PacketType)
          /\ \A e \in Elements(b) : (e.deciphered <=> d) /\ e.packet \in Elements(v)
        <3>1. Filled(b, v, n, d)
            BY <2>1, <2>4, HeldFilled
        <3>. QED  BY <3>1 DEF Filled
    <2>. QED  BY <2>1, <2>2 DEF v, d
<1>. HIDE DEF b, w
<1>6. /\ end'[side].buffer = b /\ wire'[side] = w
      /\ \A s \in Sides : s # side => end'[s] = end[s] /\ wire'[s] = wire[s]
      /\ \A s \in Sides : /\ end'[s].state = end[s].state
                          /\ end'[s].deciphers = end[s].deciphers
                          /\ end'[s].enciphers = end[s].enciphers
                          /\ end'[s].framed = end[s].framed
    BY <1>1, <1>4 DEF SessionTypes, EndType
<1>7. end' \in [Sides -> EndType] /\ wire' \in [Sides -> Seq(PacketType)]
    BY <1>4, <1>5 DEF SessionTypes, EndType
<1>8. Stream(side) = wire[side]
    <2>1. Held(<<>>) = <<>>
        <3>1. <<>> \in Seq(EntryType) /\ Len(<<>>) = 0
            BY EmptySeq
        <3>2. Held(<<>>) \in Seq(PacketType) /\ Len(Held(<<>>)) = 0
            BY <3>1, HeldShape
        <3>. QED  BY <3>2, EmptySeq
    <2>2. <<>> \o wire[side] = wire[side]
        BY <1>1, ConcatEmptySeq
    <2>. QED  BY <1>1, <2>1, <2>2 DEF Stream
<1>9. Stream(side)' = wire[side]
    BY <1>5, <1>6 DEF Stream, Held
<1>10. \A s \in Sides : s # side => Stream(s)' = Stream(s)
    BY <1>6 DEF Stream, Held
<1>11. Elements(end[side].buffer)' = Elements(b)
    BY <1>6 DEF Elements
<1>. QED  BY <1>5, <1>6, <1>7, <1>8, <1>9, <1>10, <1>11

\* The order of the server's packets, and the place of the client's response.
LEMMA SortedAppend ==
    ASSUME NEW q \in Seq(PacketType), NEW p \in PacketType, Sorted(q),
           \A r \in Elements(q) : Turn(r.name) < Turn(p.name)
    PROVE  Sorted(Append(q, p))
<1>1. /\ Len(q) \in Nat /\ Len(Append(q, p)) = Len(q) + 1
      /\ \A i \in 1..Len(q) : Append(q, p)[i] = q[i] /\ q[i] \in Elements(q)
      /\ Append(q, p)[Len(q) + 1] = p
    BY Appended DEF Elements
<1>. SUFFICES ASSUME NEW i \in 1..Len(q) + 1, NEW j \in 1..Len(q) + 1, i < j
              PROVE  Turn(Append(q, p)[i].name) < Turn(Append(q, p)[j].name)
    BY <1>1 DEF Sorted
<1>2. i \in 1..Len(q)
    BY <1>1
<1>3. CASE j \in 1..Len(q)
    <2>1. Turn(q[i].name) < Turn(q[j].name)
        BY <1>2, <1>3 DEF Sorted
    <2>. QED  BY <1>1, <1>2, <1>3, <2>1
<1>4. CASE j = Len(q) + 1
    BY <1>1, <1>2, <1>4
<1>. QED  BY <1>1, <1>3, <1>4

\* The first packet of an ordered stream comes before all the others.
LEMMA SortedTail ==
    ASSUME NEW q \in Seq(PacketType), q # <<>>, Sorted(q)
    PROVE  /\ Sorted(Tail(q))
           /\ \A r \in Elements(Tail(q)) : Turn(Head(q).name) < Turn(r.name)
<1>1. /\ Len(q) \in Nat /\ Len(q) >= 1 /\ Len(Tail(q)) = Len(q) - 1 /\ Head(q) = q[1]
      /\ \A i \in 1..Len(q) - 1 : Tail(q)[i] = q[i + 1]
    BY Shortened
<1>2. \A i \in 1..Len(q) - 1 : i + 1 \in 1..Len(q) /\ 1 < i + 1
    BY <1>1
<1>3. 1 \in 1..Len(q)
    BY <1>1
<1>4. \A i \in 1..Len(q) - 1 : Turn(q[1].name) < Turn(q[i + 1].name)
    BY <1>2, <1>3 DEF Sorted
<1>5. \A i, j \in 1..Len(q) - 1 : i < j => i + 1 < j + 1
    BY <1>1
<1>6. \A i, j \in 1..Len(q) - 1 : i < j => Turn(q[i + 1].name) < Turn(q[j + 1].name)
    BY <1>2, <1>5 DEF Sorted
<1>7. Sorted(Tail(q))
    BY <1>1, <1>6 DEF Sorted
<1>8. \A r \in Elements(Tail(q)) : Turn(Head(q).name) < Turn(r.name)
    BY <1>1, <1>4 DEF Elements
<1>. QED  BY <1>7, <1>8

\* A packet behind others of which none is a response.
LEMMA LastAppend ==
    ASSUME NEW q \in Seq(PacketType), NEW p \in PacketType, \A r \in Elements(q) : ~IsResponse(r)
    PROVE  ResponseIsLast(Append(q, p))
<1>1. /\ Len(q) \in Nat /\ Len(Append(q, p)) = Len(q) + 1
      /\ \A i \in 1..Len(q) : Append(q, p)[i] = q[i] /\ q[i] \in Elements(q)
    BY Appended DEF Elements
<1>2. \A i \in 1..Len(q) + 1 : i \in 1..Len(q) \/ i = Len(q) + 1
    BY <1>1
<1>. QED  BY <1>1, <1>2 DEF ResponseIsLast

\* With a response taken that was the last packet, nothing is left.
LEMMA LastTail ==
    ASSUME NEW q \in Seq(PacketType), q # <<>>, ResponseIsLast(q)
    PROVE  /\ ResponseIsLast(Tail(q))
           /\ IsResponse(Head(q)) => Elements(Tail(q)) = {}
<1>1. /\ Len(q) \in Nat /\ Len(q) >= 1 /\ Len(Tail(q)) = Len(q) - 1 /\ Head(q) = q[1]
      /\ \A i \in 1..Len(q) - 1 : Tail(q)[i] = q[i + 1]
    BY Shortened
<1>2. PICK n \in Nat : n = Len(q)
    BY <1>1
<1>3. \A i \in 1..n - 1 : i + 1 \in 1..n
    OBVIOUS
<1>4. ASSUME NEW i \in 1..n - 1, IsResponse(q[i + 1]) PROVE i = n - 1
    <2>1. i + 1 = n
        BY <1>2, <1>3, <1>4 DEF ResponseIsLast
    <2>. QED  BY <2>1
<1>5. ResponseIsLast(Tail(q))
    BY <1>1, <1>2, <1>4 DEF ResponseIsLast
<1>6. ASSUME IsResponse(Head(q)) PROVE Elements(Tail(q)) = {}
    <2>1. 1 \in 1..n
        BY <1>1, <1>2
    <2>2. n = 1
        BY <1>1, <1>2, <1>6, <2>1 DEF ResponseIsLast
    <2>3. Len(Tail(q)) = 0
        BY <1>1, <1>2, <2>2
    <2>4. 1..0 = {}
        OBVIOUS
    <2>. QED  BY <2>3, <2>4 DEF Elements
<1>. QED  BY <1>5, <1>6

-----------------------------------------------------------------------------
(* Ids and names of the packets that matter. *)

\* The status table, the same in every version.
LEMMA StatusTable ==
    /\ Len(Status.clientbound) = 2 /\ Len(Status.serverbound) = 2
    /\ Counted(Status.clientbound) /\ Counted(Status.serverbound)
    /\ DOMAIN Status.serverbound = 1..2
    /\ OnLine(Status.clientbound, 1, "StatusResponse") /\ OnLine(Status.clientbound, 2, "Pong")
    /\ OnLine(Status.serverbound, 1, "StatusRequest") /\ OnLine(Status.serverbound, 2, "Ping")
    /\ \A name \in {"EncryptionRequest", "LoginSuccess", "SetCompression", "ShowDialog"} :
           OnNoLine(Status.clientbound, name)
BY DEF Status, Both, Counted, OnLine, OnNoLine

\* The ids under which the server writes.
LEMMA ServerIds ==
    /\ IdOf(ServerVersion, "status", "clientbound", "StatusResponse") = 0
    /\ IdOf(ServerVersion, "status", "clientbound", "Pong") = 1
    /\ IdOf(ServerVersion, "login", "clientbound", "Disconnect") = 0
    /\ IdOf(ServerVersion, "login", "clientbound", "EncryptionRequest") = 1
    /\ IdOf(ServerVersion, "login", "clientbound", "LoginSuccess") = 2
    /\ IdOf(ServerVersion, "login", "clientbound", "SetCompression") = 3
    /\ IdOf(ServerVersion, "config", "clientbound", "Disconnect") = 2
    /\ IdOf(ServerVersion, "config", "clientbound", "ClearDialog") = 17
    /\ IdOf(ServerVersion, "config", "clientbound", "ShowDialog") = 18
<1>. DEFINE v == ServerVersion
            status == Table(v).named["status"]["clientbound"]
            login == Table(v).named["login"]["clientbound"]
            config == Table(v).named["config"]["clientbound"]
<1>1. v \in AllVersions /\ v \in DialogVersions
    BY ServerTables
<1>2. /\ Counted(status) /\ OnLine(status, 0 + 1, "StatusResponse") /\ OnLine(status, 1 + 1, "Pong")
    BY <1>1, VersionTables, StatusTable
<1>3. /\ Counted(login) /\ OnLine(login, 0 + 1, "Disconnect")
      /\ OnLine(login, 1 + 1, "EncryptionRequest") /\ OnLine(login, 2 + 1, "LoginSuccess")
    BY <1>1, VersionTables DEF LoginTable, Counted
<1>4. OnLine(login, 3 + 1, "SetCompression")
    <2>1. OnLine(Login766["clientbound"], 3 + 1, "SetCompression")
        BY DEF Login766, Both, OnLine
    <2>. QED  BY <2>1, ServerTables
<1>5. /\ Counted(config) /\ OnLine(config, 2 + 1, "Disconnect")
      /\ OnLine(config, 17 + 1, "ClearDialog") /\ OnLine(config, 18 + 1, "ShowDialog")
    BY <1>1, VersionTables DEF ConfigTable, Counted, Dialogs
<1>6. /\ IdOf(v, "status", "clientbound", "StatusResponse") = 0
      /\ IdOf(v, "status", "clientbound", "Pong") = 1
    BY <1>2, LineOfName
<1>7. /\ IdOf(v, "login", "clientbound", "Disconnect") = 0
      /\ IdOf(v, "login", "clientbound", "EncryptionRequest") = 1
      /\ IdOf(v, "login", "clientbound", "LoginSuccess") = 2
      /\ IdOf(v, "login", "clientbound", "SetCompression") = 3
    BY <1>3, <1>4, LineOfName
<1>8. /\ IdOf(v, "config", "clientbound", "Disconnect") = 2
      /\ IdOf(v, "config", "clientbound", "ClearDialog") = 17
      /\ IdOf(v, "config", "clientbound", "ShowDialog") = 18
    BY <1>5, LineOfName
<1>. QED  BY <1>6, <1>7, <1>8

\* What a client of any version takes an id for, in each state.
LEMMA ClientNamesOf ==
    ASSUME NEW v \in AllVersions, NEW id \in Nat
    PROVE  /\ Name(v, "status", "clientbound", id) = "StatusResponse" <=> id = 0
           /\ Name(v, "status", "clientbound", id) = "Pong" <=> id = 1
           /\ Name(v, "status", "clientbound", id) \in {"StatusResponse", "Pong", "unknown"}
           /\ Name(v, "login", "clientbound", id) = "Disconnect" <=> id = 0
           /\ Name(v, "login", "clientbound", id) = "EncryptionRequest" <=> id = 1
           /\ Name(v, "login", "clientbound", id) = "LoginSuccess" <=> id = 2
           /\ Name(v, "login", "clientbound", id) = "SetCompression" => id = 3
           /\ id = 3 => Name(v, "login", "clientbound", id) \in {"SetCompression", "unknown"}
           /\ Name(v, "login", "clientbound", id) \notin {"StatusResponse", "ShowDialog"}
           /\ Name(v, "config", "clientbound", id) \notin
                  {"StatusResponse", "EncryptionRequest", "SetCompression", "LoginSuccess"}
           /\ Name(v, "config", "clientbound", id) = "ShowDialog" => v \in DialogVersions
<1>. DEFINE status == Table(v).named["status"]["clientbound"]
            login == Table(v).named["login"]["clientbound"]
            config == Table(v).named["config"]["clientbound"]
<1>1. /\ Counted(status) /\ Len(status) = 2
      /\ OnLine(status, 1, "StatusResponse") /\ OnLine(status, 2, "Pong")
    BY VersionTables, StatusTable
<1>2. /\ Counted(login) /\ OnLine(login, 1, "Disconnect")
      /\ OnLine(login, 2, "EncryptionRequest") /\ OnLine(login, 3, "LoginSuccess")
      /\ OnLine(login, 4, "SetCompression") \/ Len(login) = 3
      /\ OnNoLine(login, "StatusResponse") /\ OnNoLine(login, "ShowDialog")
    BY VersionTables DEF LoginTable
<1>3. /\ Counted(config)
      /\ OnNoLine(config, "StatusResponse") /\ OnNoLine(config, "EncryptionRequest")
      /\ OnNoLine(config, "SetCompression") /\ OnNoLine(config, "LoginSuccess")
      /\ v \notin DialogVersions => OnNoLine(config, "ShowDialog")
    BY VersionTables DEF ConfigTable, NoDialogs
<1>4. /\ Name(v, "status", "clientbound", id) = Called(status, id)
      /\ Name(v, "login", "clientbound", id) = Called(login, id)
      /\ Name(v, "config", "clientbound", id) = Called(config, id)
    BY <1>1, <1>2, <1>3, NameIsCalled DEF Name
<1>. HIDE DEF status, login, config
<1>5. Called(status, id) = "StatusResponse" <=> id = 1 - 1
    BY <1>1, NameOnLine
<1>6. Called(status, id) = "Pong" <=> id = 2 - 1
    BY <1>1, NameOnLine
<1>7. Called(status, id) \in {"StatusResponse", "Pong", "unknown"}
    <2>1. Called(status, id) = "unknown" \/ id = 0 \/ id = 1
        BY <1>1 DEF Called
    <2>. QED  BY <1>5, <1>6, <2>1
<1>8. Called(login, id) = "Disconnect" <=> id = 1 - 1
    BY <1>2, NameOnLine
<1>9. Called(login, id) = "EncryptionRequest" <=> id = 2 - 1
    BY <1>2, NameOnLine
<1>10. Called(login, id) = "LoginSuccess" <=> id = 3 - 1
    BY <1>2, NameOnLine
<1>11. Called(login, id) # "StatusResponse"
    BY <1>2, NameOnNoLine
<1>12. Called(login, id) # "ShowDialog"
    BY <1>2, NameOnNoLine
<1>13. /\ Called(login, id) = "SetCompression" => id = 3
       /\ id = 3 => Called(login, id) \in {"SetCompression", "unknown"}
    <2>1. CASE OnLine(login, 4, "SetCompression")
        <3>1. Called(login, id) = "SetCompression" <=> id = 4 - 1
            BY <1>2, <2>1, NameOnLine
        <3>. QED  BY <3>1
    <2>2. CASE Len(login) = 3
        <3>1. Called(login, id) = "unknown" \/ id = 0 \/ id = 1 \/ id = 2
            BY <2>2 DEF Called
        <3>. QED  BY <1>8, <1>9, <1>10, <3>1
    <2>. QED  BY <1>2, <2>1, <2>2
<1>14. Called(config, id) # "StatusResponse"
    BY <1>3, NameOnNoLine
<1>15. Called(config, id) # "EncryptionRequest"
    BY <1>3, NameOnNoLine
<1>16. Called(config, id) # "SetCompression"
    BY <1>3, NameOnNoLine
<1>17. Called(config, id) # "LoginSuccess"
    BY <1>3, NameOnNoLine
<1>18. v \notin DialogVersions => Called(config, id) # "ShowDialog"
    BY <1>3, NameOnNoLine
<1>19. /\ Name(v, "status", "clientbound", id) = "StatusResponse" <=> id = 0
       /\ Name(v, "status", "clientbound", id) = "Pong" <=> id = 1
       /\ Name(v, "status", "clientbound", id) \in {"StatusResponse", "Pong", "unknown"}
    BY <1>4, <1>5, <1>6, <1>7
<1>20. /\ Name(v, "login", "clientbound", id) = "Disconnect" <=> id = 0
       /\ Name(v, "login", "clientbound", id) = "EncryptionRequest" <=> id = 1
       /\ Name(v, "login", "clientbound", id) = "LoginSuccess" <=> id = 2
       /\ Name(v, "login", "clientbound", id) = "SetCompression" => id = 3
       /\ id = 3 => Name(v, "login", "clientbound", id) \in {"SetCompression", "unknown"}
       /\ Name(v, "login", "clientbound", id) \notin {"StatusResponse", "ShowDialog"}
    BY <1>4, <1>8, <1>9, <1>10, <1>11, <1>12, <1>13
<1>. QED  BY <1>4, <1>14, <1>15, <1>16, <1>17, <1>18, <1>19, <1>20

\* What the server takes an id for, in each state.
LEMMA ServerNamesOf ==
    ASSUME NEW id \in Nat
    PROVE  /\ Name(ServerVersion, "status", "serverbound", id) = "StatusRequest" <=> id = 0
           /\ Name(ServerVersion, "status", "serverbound", id) = "Ping" <=> id = 1
           /\ Name(ServerVersion, "login", "serverbound", id) = "LoginStart" <=> id = 0
           /\ Name(ServerVersion, "login", "serverbound", id) = "EncryptionResponse" <=> id = 1
           /\ Name(ServerVersion, "login", "serverbound", id) = "LoginAcknowledge" <=> id = 3
           /\ Name(ServerVersion, "config", "serverbound", id) = "CustomClick" <=> id = 8
<1>. DEFINE v == ServerVersion
            status == Table(v).named["status"]["serverbound"]
            login == Table(v).named["login"]["serverbound"]
            config == Table(v).named["config"]["serverbound"]
<1>1. v \in AllVersions /\ v \in DialogVersions
    BY ServerTables
<1>2. Counted(status) /\ OnLine(status, 1, "StatusRequest") /\ OnLine(status, 2, "Ping")
    BY <1>1, VersionTables, StatusTable
<1>3. Counted(login) /\ OnLine(login, 1, "LoginStart") /\ OnLine(login, 2, "EncryptionResponse")
    BY <1>1, VersionTables DEF LoginTable, Counted
<1>4. OnLine(login, 4, "LoginAcknowledge")
    <2>1. OnLine(Login766["serverbound"], 4, "LoginAcknowledge")
        BY DEF Login766, Both, OnLine
    <2>. QED  BY <2>1, ServerTables
<1>5. Counted(config) /\ OnLine(config, 9, "CustomClick")
    BY <1>1, VersionTables DEF ConfigTable, Counted, Dialogs
<1>6. /\ Name(v, "status", "serverbound", id) = Called(status, id)
      /\ Name(v, "login", "serverbound", id) = Called(login, id)
      /\ Name(v, "config", "serverbound", id) = Called(config, id)
    BY <1>2, <1>3, <1>5, NameIsCalled DEF Name
<1>. HIDE DEF status, login, config
<1>7. Called(status, id) = "StatusRequest" <=> id = 1 - 1
    BY <1>2, NameOnLine
<1>8. Called(status, id) = "Ping" <=> id = 2 - 1
    BY <1>2, NameOnLine
<1>9. Called(login, id) = "LoginStart" <=> id = 1 - 1
    BY <1>3, NameOnLine
<1>10. Called(login, id) = "EncryptionResponse" <=> id = 2 - 1
    BY <1>3, NameOnLine
<1>11. Called(login, id) = "LoginAcknowledge" <=> id = 4 - 1
    BY <1>3, <1>4, NameOnLine
<1>12. Called(config, id) = "CustomClick" <=> id = 9 - 1
    BY <1>5, NameOnLine
<1>. QED  BY <1>6, <1>7, <1>8, <1>9, <1>10, <1>11, <1>12

\* The ids under which a client of any version writes.
LEMMA ClientIds ==
    ASSUME NEW v \in AllVersions
    PROVE  /\ IdOf(v, "status", "serverbound", "StatusRequest") = 0
           /\ IdOf(v, "status", "serverbound", "Ping") = 1
           /\ IdOf(v, "login", "serverbound", "LoginStart") = 0
           /\ IdOf(v, "login", "serverbound", "EncryptionResponse") = 1
           /\ (\E i \in DOMAIN Table(v).named["login"]["serverbound"] :
                   Table(v).named["login"]["serverbound"][i][2] = "LoginAcknowledge") =>
                  IdOf(v, "login", "serverbound", "LoginAcknowledge") = 3
           /\ v \in DialogVersions => IdOf(v, "config", "serverbound", "CustomClick") = 8
<1>. DEFINE status == Table(v).named["status"]["serverbound"]
            login == Table(v).named["login"]["serverbound"]
            config == Table(v).named["config"]["serverbound"]
<1>2. Counted(status) /\ OnLine(status, 0 + 1, "StatusRequest") /\ OnLine(status, 1 + 1, "Ping")
    BY VersionTables, StatusTable
<1>3. /\ Counted(login) /\ OnLine(login, 0 + 1, "LoginStart")
      /\ OnLine(login, 1 + 1, "EncryptionResponse") /\ DOMAIN login = 1..Len(login)
      /\ OnLine(login, 3 + 1, "LoginAcknowledge") \/ OnNoLine(login, "LoginAcknowledge")
    BY VersionTables DEF LoginTable
<1>4. (\E i \in DOMAIN login : login[i][2] = "LoginAcknowledge") =>
          OnLine(login, 3 + 1, "LoginAcknowledge")
    BY <1>3 DEF OnNoLine
<1>5. Counted(config) /\ v \in DialogVersions => OnLine(config, 8 + 1, "CustomClick")
    BY VersionTables DEF ConfigTable, Dialogs
<1>6. /\ IdOf(v, "status", "serverbound", "StatusRequest") = 0
      /\ IdOf(v, "status", "serverbound", "Ping") = 1
    BY <1>2, LineOfName
<1>7. /\ IdOf(v, "login", "serverbound", "LoginStart") = 0
      /\ IdOf(v, "login", "serverbound", "EncryptionResponse") = 1
      /\ (\E i \in DOMAIN login : login[i][2] = "LoginAcknowledge") =>
             IdOf(v, "login", "serverbound", "LoginAcknowledge") = 3
    BY <1>3, <1>4, LineOfName
<1>8. v \in DialogVersions => IdOf(v, "config", "serverbound", "CustomClick") = 8
    <2>1. Counted(config)
        BY VersionTables DEF ConfigTable
    <2>. QED  BY <1>5, <2>1, LineOfName
<1>. QED  BY <1>6, <1>7, <1>8

-----------------------------------------------------------------------------
(* The same in terms of the invariant. *)

\* Neither the buffer nor the stream of a side is touched.
LEMMA Kept ==
    ASSUME NEW side, end'[side].buffer = end[side].buffer, wire'[side] = wire[side]
    PROVE  /\ Coming(side)' = Coming(side) /\ HeldBy(side)' = HeldBy(side)
           /\ side = "client" => InOrder' = InOrder
           /\ side = "server" => ResponseLast' = ResponseLast
<1>1. Stream(side)' = Stream(side)
    BY KeptStream
<1>2. Coming(side)' = Coming(side)
    BY <1>1 DEF Coming, Elements
<1>3. HeldBy(side)' = HeldBy(side)
    BY DEF HeldBy, Elements
<1>4. side = "client" => InOrder' = InOrder
    BY <1>1 DEF InOrder, Sorted
<1>5. side = "server" => ResponseLast' = ResponseLast
    BY <1>1 DEF ResponseLast, ResponseIsLast
<1>. QED  BY <1>2, <1>3, <1>4, <1>5

\* A packet is written to a side.
LEMMA SentTo ==
    ASSUME SessionTypes, NEW side \in Sides, NEW p, p \in PacketType,
           wire' = [wire EXCEPT ![side] = Append(@, p)],
           end'[side].buffer = end[side].buffer
    PROVE  /\ Coming(side)' = Coming(side) \union {p} /\ HeldBy(side)' = HeldBy(side)
           /\ wire' \in [Sides -> Seq(PacketType)]
           /\ \A s \in Sides : s # side => wire'[s] = wire[s]
           /\ side = "client" =>
                  (InOrder /\ (\A r \in Coming(side) : Turn(r.name) < Turn(p.name)) => InOrder')
           /\ side = "server" =>
                  ((\A r \in Coming(side) : ~IsResponse(r)) => ResponseLast')
<1>1. /\ Stream(side)' = Append(Stream(side), p) /\ wire' \in [Sides -> Seq(PacketType)]
      /\ \A s \in Sides : s # side => wire'[s] = wire[s]
    BY SendStream
<1>2. Stream(side) \in Seq(PacketType)
    BY StreamShape
<1>. DEFINE q == Stream(side)
<1>3. q \in Seq(PacketType) /\ Stream(side)' = Append(q, p)
    BY <1>1, <1>2
<1>4. Coming(side)' = Elements(Append(q, p)) /\ Coming(side) = Elements(q)
    BY <1>3 DEF Coming, Elements
<1>5. side = "client" => (InOrder <=> Sorted(q)) /\ (InOrder' <=> Sorted(Append(q, p)))
    BY <1>3 DEF InOrder, Sorted
<1>6. side = "server" => (ResponseLast' <=> ResponseIsLast(Append(q, p)))
    BY <1>3 DEF ResponseLast, ResponseIsLast
<1>7. HeldBy(side)' = HeldBy(side)
    BY DEF HeldBy, Elements
<1>. HIDE DEF q
<1>8. Elements(Append(q, p)) = Elements(q) \union {p}
    BY <1>3, Appended
<1>9. Sorted(q) /\ (\A r \in Elements(q) : Turn(r.name) < Turn(p.name)) => Sorted(Append(q, p))
    BY <1>3, SortedAppend
<1>10. (\A r \in Elements(q) : ~IsResponse(r)) => ResponseIsLast(Append(q, p))
    BY <1>3, LastAppend
<1>. QED  BY <1>1, <1>4, <1>5, <1>6, <1>7, <1>8, <1>9, <1>10

\* A side takes the packet in front.
LEMMA TakenBy ==
    ASSUME SessionTypes, NEW side \in Sides, Buffered(side),
           end'[side].buffer = Tail(end[side].buffer), wire'[side] = wire[side]
    PROVE  /\ Coming(side) = {NextPacket(side).packet} \union Coming(side)'
           /\ HeldBy(side)' \subseteq HeldBy(side) /\ end'[side].buffer \in Seq(EntryType)
           /\ NextPacket(side) \in HeldBy(side) /\ NextPacket(side) \in EntryType
           /\ NextPacket(side).packet \in Coming(side)
           /\ side = "client" =>
                  (InOrder => InOrder' /\ \A r \in Coming(side)' :
                                              Turn(NextPacket(side).packet.name) < Turn(r.name))
           /\ side = "server" =>
                  (ResponseLast => ResponseLast' /\ (IsResponse(NextPacket(side).packet) =>
                                                         Coming(side)' = {}))
<1>1. /\ Stream(side) # <<>> /\ Stream(side)' = Tail(Stream(side))
      /\ Head(Stream(side)) = NextPacket(side).packet
      /\ end'[side].buffer \in Seq(EntryType)
      /\ Elements(end[side].buffer)' \subseteq Elements(end[side].buffer)
      /\ NextPacket(side) \in Elements(end[side].buffer)
      /\ NextPacket(side) \in EntryType
    BY TakeStream
<1>2. Stream(side) \in Seq(PacketType)
    BY StreamShape
<1>. DEFINE q == Stream(side)
<1>3. q \in Seq(PacketType) /\ q # <<>> /\ Stream(side)' = Tail(q) /\ NextPacket(side).packet = Head(q)
    BY <1>1, <1>2
<1>4. Coming(side)' = Elements(Tail(q)) /\ Coming(side) = Elements(q)
    BY <1>3 DEF Coming, Elements
<1>5. side = "client" => (InOrder <=> Sorted(q)) /\ (InOrder' <=> Sorted(Tail(q)))
    BY <1>3 DEF InOrder, Sorted
<1>6. side = "server" =>
          (ResponseLast <=> ResponseIsLast(q)) /\ (ResponseLast' <=> ResponseIsLast(Tail(q)))
    BY <1>3 DEF ResponseLast, ResponseIsLast
<1>7. HeldBy(side)' \subseteq HeldBy(side) /\ NextPacket(side) \in HeldBy(side)
    BY <1>1 DEF HeldBy
<1>. HIDE DEF q
<1>8. Elements(q) = {Head(q)} \union Elements(Tail(q))
    BY <1>3, Shortened
<1>9. Sorted(q) => Sorted(Tail(q)) /\ \A r \in Elements(Tail(q)) : Turn(Head(q).name) < Turn(r.name)
    BY <1>3, SortedTail
<1>10. ResponseIsLast(q) => /\ ResponseIsLast(Tail(q))
                            /\ IsResponse(Head(q)) => Elements(Tail(q)) = {}
    BY <1>3, LastTail
<1>. QED  BY <1>1, <1>3, <1>4, <1>5, <1>6, <1>7, <1>8, <1>9, <1>10

\* A side's buffer fills up.
LEMMA FilledBy ==
    ASSUME SessionTypes, NEW side \in Sides, FillBuffer(side)
    PROVE  /\ SessionTypes'
           /\ \A s \in Sides : Coming(s)' = Coming(s)
           /\ \A e \in HeldBy(side)' :
                  (e.deciphered <=> end[side].deciphers) /\ e.packet \in Coming(side)
           /\ \A s \in Sides : s # side => HeldBy(s)' = HeldBy(s)
           /\ InOrder' = InOrder /\ ResponseLast' = ResponseLast
           /\ \A s \in Sides : /\ end'[s].state = end[s].state
                               /\ end'[s].deciphers = end[s].deciphers
                               /\ end'[s].enciphers = end[s].enciphers
                               /\ end'[s].framed = end[s].framed
<1>1. /\ end' \in [Sides -> EndType] /\ wire' \in [Sides -> Seq(PacketType)]
      /\ \A s \in Sides : Stream(s)' = Stream(s)
      /\ \A e \in Elements(end[side].buffer)' :
             (e.deciphered <=> end[side].deciphers) /\ e.packet \in Elements(Stream(side))
      /\ \A s \in Sides : s # side => end'[s] = end[s]
      /\ \A s \in Sides : /\ end'[s].state = end[s].state
                          /\ end'[s].deciphers = end[s].deciphers
                          /\ end'[s].enciphers = end[s].enciphers
                          /\ end'[s].framed = end[s].framed
    BY FillStream
<1>2. SessionTypes'
    BY <1>1 DEF SessionTypes, FillBuffer
<1>3. ASSUME NEW s \in Sides PROVE Coming(s)' = Coming(s)
    <2>1. Stream(s)' = Stream(s)
        BY <1>1
    <2>. QED  BY <2>1 DEF Coming, Elements
<1>4. ASSUME NEW s \in Sides, s # side PROVE HeldBy(s)' = HeldBy(s)
    <2>1. end'[s] = end[s]
        BY <1>1, <1>4
    <2>. QED  BY <2>1 DEF HeldBy, Elements
<1>5. Stream("client")' = Stream("client") /\ Stream("server")' = Stream("server")
    BY <1>1 DEF Sides
<1>6. InOrder' = InOrder /\ ResponseLast' = ResponseLast
    BY <1>5 DEF InOrder, Sorted, ResponseLast, ResponseIsLast
<1>. QED  BY <1>1, <1>2, <1>3, <1>4, <1>6 DEF HeldBy, Coming

-----------------------------------------------------------------------------
(* Every step keeps the invariant. *)

\* with_encryption: whatever a patient client has written by then is read.
LEMMA ServerEnciphersKeeps == ASSUME SInv, ServerEnciphers PROVE SInv'
<1>. USE DEF Sides
<1>1. /\ end'.client = end.client /\ wire' = wire
      /\ end'.server.deciphers = TRUE /\ end'.server.enciphers = TRUE
      /\ end'.server.framed = end.server.framed /\ end'.server.state = end.server.state
      /\ end'.server.buffer = end.server.buffer /\ end' \in [Sides -> EndType]
    BY DEF SInv, SessionTypes, EndType, ServerEnciphers, WithEncryption
<1>2. /\ serverAt = "with_encryption" /\ serverAt' = "set_compression"
      /\ UNCHANGED <<plan, clientAt, gone, wrong, trouble>>
    BY DEF ServerEnciphers
<1>3. /\ Coming("client")' = Coming("client") /\ HeldBy("client")' = HeldBy("client")
      /\ InOrder' = InOrder
    BY <1>1, Kept
<1>4. /\ Coming("server")' = Coming("server") /\ HeldBy("server")' = HeldBy("server")
      /\ ResponseLast' = ResponseLast
    BY <1>1, Kept
<1>5. SessionTypes'
    BY <1>1, <1>2 DEF SInv, SessionTypes
<1>6. (ServerEnd /\ ClientEnd /\ EndsMeet)'
    BY <1>1, <1>2 DEF SInv, ServerEnd, ClientEnd, EndsMeet, PlainPlaces, StatusPlaces,
       LoginPlaces, ConfigPlaces, FramedPlaces, OutsidePlaces
<1>7. ToClient'
    BY <1>1, <1>2, <1>3 DEF SInv, ToClient, FromServer, ServerTurn
<1>8. FramePending'
    BY <1>1, <1>2, <1>3 DEF SInv, FramePending
<1>9. ToServer'
    BY <1>1, <1>2, <1>4 DEF SInv, ToServer, FromClient
<1>10. Patience'
    BY <1>1, <1>2, <1>4 DEF SInv, Patience, Patient, FromPatient, ServerEnd, PlainPlaces
<1>11. (PatientClientsAreRead /\ OnlyKicksAreLost)'
    BY <1>2 DEF SInv, PatientClientsAreRead, OnlyKicksAreLost
<1>. QED  BY <1>5, <1>6, <1>7, <1>8, <1>9, <1>10, <1>11 DEF SInv

\* The function returns, for whatever reason, and leaves everything as it is; a
\* packet it could not read was sent by a client that did not wait.
LEMMA ReturnKeeps ==
    ASSUME SInv, serverAt' = "returned", UNCHANGED <<end, wire, plan, clientAt, gone, wrong>>,
           \/ trouble' = trouble
           \/ trouble' = trouble \union {<<"server", "garbled">>} /\ ~Patient
    PROVE  SInv'
<1>. USE DEF Sides
<1>1. /\ Coming("client")' = Coming("client") /\ HeldBy("client")' = HeldBy("client")
      /\ InOrder' = InOrder
    BY Kept
<1>2. /\ Coming("server")' = Coming("server") /\ HeldBy("server")' = HeldBy("server")
      /\ ResponseLast' = ResponseLast
    BY Kept
<1>3. SessionTypes'
    BY DEF SInv, SessionTypes
<1>4. (ServerEnd /\ ClientEnd /\ EndsMeet)'
    BY DEF SInv, ServerEnd, ClientEnd, EndsMeet, PlainPlaces, StatusPlaces,
       LoginPlaces, ConfigPlaces, FramedPlaces, OutsidePlaces
<1>5. ToClient'
    BY <1>1 DEF SInv, ToClient, FromServer, ServerTurn, OutsidePlaces, Turn
<1>6. FramePending'
    BY <1>1 DEF SInv, FramePending
<1>7. ToServer'
    BY <1>2 DEF SInv, ToServer, FromClient
<1>8. Patient' => Patient
    BY DEF Patient
<1>9. Patience'
    BY <1>2, <1>8 DEF SInv, Patience, FromPatient
<1>10. (PatientClientsAreRead /\ OnlyKicksAreLost)'
    BY DEF SInv, PatientClientsAreRead, OnlyKicksAreLost, Patient
<1>. QED  BY <1>3, <1>4, <1>5, <1>6, <1>7, <1>9, <1>10 DEF SInv

\* The packet in front is in the buffer and in the stream.
LEMMA FrontOf ==
    ASSUME SessionTypes, NEW side \in Sides, Buffered(side)
    PROVE  /\ NextPacket(side) \in HeldBy(side) /\ NextPacket(side) \in EntryType
           /\ NextPacket(side).packet \in Coming(side) /\ NextPacket(side).packet \in PacketType
<1>1. end[side].buffer \in Seq(EntryType) /\ end[side].buffer # <<>>
    BY StreamShape DEF Buffered
<1>2. /\ Len(end[side].buffer) \in Nat /\ Len(end[side].buffer) >= 1
      /\ Head(end[side].buffer) = end[side].buffer[1]
      /\ end[side].buffer[1] \in Elements(end[side].buffer)
      /\ end[side].buffer[1] \in EntryType
    BY <1>1, Shortened
<1>3. end[side].buffer[1].packet \in Elements(Stream(side))
    BY <1>2, StreamShape
<1>. QED  BY <1>2, <1>3 DEF NextPacket, HeldBy, Coming, EntryType

\* A read that fails: the stream ends, or the packet is not legible.
LEMMA ServerStopsKeeps == ASSUME SInv, ServerGarbled \/ ServerEof PROVE SInv'
<1>1. CASE ServerEof
    BY <1>1, ReturnKeeps DEF ServerEof, Return
<1>2. CASE ServerGarbled
    <2>1. /\ NextPacket("server") \in HeldBy("server") /\ NextPacket("server") \in EntryType
          /\ NextPacket("server").packet \in Coming("server")
          /\ NextPacket("server").packet \in PacketType
        BY <1>2, FrontOf DEF SInv, ServerGarbled, Sides
    <2>2. /\ end.server.framed \in BOOLEAN /\ NextPacket("server").deciphered \in BOOLEAN
          /\ NextPacket("server").packet.enciphered \in BOOLEAN
          /\ NextPacket("server").packet.framed \in BOOLEAN
        BY <2>1 DEF SInv, SessionTypes, EndType, EntryType, PacketType, Sides
    <2>3. Patient => Legible("server")
        BY <2>1, <2>2 DEF SInv, ServerEnd, Patience, FromPatient, Legible
    <2>. QED  BY <1>2, <2>3, ReturnKeeps DEF ServerGarbled, Return
<1>. QED  BY <1>1, <1>2

\* Only the client is gone or has gone on; its handler is as it was.
LEMMA LeavesKeeps == ASSUME SInv, Leaves PROVE SInv'
<1>. USE DEF Sides
<1>1. /\ UNCHANGED <<plan, end, wire, serverAt, clientAt, wrong, outcome, trouble>> /\ gone'
    BY DEF Leaves
<1>2. /\ Coming("client")' = Coming("client") /\ HeldBy("client")' = HeldBy("client")
      /\ InOrder' = InOrder
    BY <1>1, Kept
<1>3. /\ Coming("server")' = Coming("server") /\ HeldBy("server")' = HeldBy("server")
      /\ ResponseLast' = ResponseLast
    BY <1>1, Kept
<1>4. SessionTypes'
    BY <1>1 DEF SInv, SessionTypes
<1>5. (ServerEnd /\ ClientEnd /\ EndsMeet)'
    BY <1>1 DEF SInv, ServerEnd, ClientEnd, EndsMeet
<1>6. (ToClient /\ FramePending)'
    BY <1>1, <1>2 DEF SInv, ToClient, FramePending, FromServer
<1>7. (ToServer /\ Patience)'
    BY <1>1, <1>3 DEF SInv, ToServer, FromClient, Patience, Patient, FromPatient
<1>8. (PatientClientsAreRead /\ OnlyKicksAreLost)'
    BY <1>1 DEF SInv, PatientClientsAreRead, OnlyKicksAreLost
<1>. QED  BY <1>4, <1>5, <1>6, <1>7, <1>8 DEF SInv

\* The connection ends under the client.
LEMMA ClientEofKeeps == ASSUME SInv, ClientEof PROVE SInv'
<1>. USE DEF Sides
<1>1. /\ UNCHANGED <<plan, wire, serverAt, wrong, trouble>> /\ gone' /\ clientAt' = "failed"
      /\ end' = end
    BY DEF ClientEof, ClientChanged, SInv, SessionTypes
<1>2. /\ Coming("client")' = Coming("client") /\ HeldBy("client")' = HeldBy("client")
      /\ InOrder' = InOrder
    BY <1>1, Kept
<1>3. /\ Coming("server")' = Coming("server") /\ HeldBy("server")' = HeldBy("server")
      /\ ResponseLast' = ResponseLast
    BY <1>1, Kept
<1>4. SessionTypes'
    BY <1>1 DEF SInv, SessionTypes
<1>5. (ServerEnd /\ ClientEnd /\ EndsMeet)'
    BY <1>1 DEF SInv, ServerEnd, ClientEnd, EndsMeet, ClientEof, OutsidePlaces, StatusPlaces
<1>6. (ToClient /\ FramePending)'
    BY <1>1, <1>2 DEF SInv, ToClient, FramePending, FromServer
<1>7. (ToServer /\ Patience)'
    BY <1>1, <1>3 DEF SInv, ToServer, FromClient, Patience, Patient, FromPatient
<1>8. (PatientClientsAreRead /\ OnlyKicksAreLost)'
    BY <1>1 DEF SInv, PatientClientsAreRead, OnlyKicksAreLost
<1>. QED  BY <1>4, <1>5, <1>6, <1>7, <1>8 DEF SInv

\* A buffer fills up: what it holds has gone through the decryptor in place.
LEMMA FillKeeps ==
    ASSUME SInv, NEW side \in Sides, FillBuffer(side)
    PROVE  SInv'
<1>. USE DEF Sides
<1>1. UNCHANGED <<plan, serverAt, clientAt, gone, wrong, trouble>>
    BY DEF FillBuffer
<1>2. /\ SessionTypes'
      /\ \A s \in Sides : Coming(s)' = Coming(s)
      /\ \A e \in HeldBy(side)' :
             (e.deciphered <=> end[side].deciphers) /\ e.packet \in Coming(side)
      /\ \A s \in Sides : s # side => HeldBy(s)' = HeldBy(s)
      /\ InOrder' = InOrder /\ ResponseLast' = ResponseLast
      /\ \A s \in Sides : /\ end'[s].state = end[s].state
                          /\ end'[s].deciphers = end[s].deciphers
                          /\ end'[s].enciphers = end[s].enciphers
                          /\ end'[s].framed = end[s].framed
    BY FilledBy DEF SInv
<1>3. /\ Coming("client")' = Coming("client") /\ Coming("server")' = Coming("server")
      /\ end'.client.state = end.client.state /\ end'.server.state = end.server.state
      /\ end'.client.deciphers = end.client.deciphers /\ end'.server.deciphers = end.server.deciphers
      /\ end'.client.enciphers = end.client.enciphers /\ end'.server.enciphers = end.server.enciphers
      /\ end'.client.framed = end.client.framed /\ end'.server.framed = end.server.framed
    BY <1>2
<1>4. (ServerEnd /\ ClientEnd /\ EndsMeet)'
    BY <1>1, <1>3 DEF SInv, ServerEnd, ClientEnd, EndsMeet
<1>5. \A e \in HeldBy("client")' :
          e.packet.name # "Disconnect" => (e.deciphered <=> e.packet.enciphered)
    <2>1. CASE side = "client"
        <3>1. \A p \in Coming("client") : p.name # "Disconnect" =>
                  (p.enciphered <=> end.client.deciphers)
            BY DEF SInv, ToClient, FromServer, ServerId, ServerNames, StatusNames, FramedNames,
               ClientEnd, EndsMeet
        <3>. QED  BY <1>2, <2>1, <3>1
    <2>2. CASE side = "server"
        BY <1>2, <2>2 DEF SInv, ToClient
    <2>. QED  BY <2>1, <2>2
<1>6. (ToClient /\ FramePending)'
    BY <1>1, <1>2, <1>3, <1>5 DEF SInv, ToClient, FramePending, FromServer
<1>7. ToServer'
    BY <1>1, <1>3 DEF SInv, ToServer, FromClient
<1>8. Patient => \A e \in HeldBy("server")' : e.deciphered <=> e.packet.enciphered
    <2>1. CASE side = "server"
        <3>1. Patient => \A p \in Coming("server") : p.enciphered <=> end.server.deciphers
            BY DEF SInv, Patience, FromPatient, ServerEnd
        <3>. QED  BY <1>2, <2>1, <3>1
    <2>2. CASE side = "client"
        BY <1>2, <2>2 DEF SInv, Patience
    <2>. QED  BY <2>1, <2>2
<1>9. Patience'
    BY <1>1, <1>2, <1>3, <1>8 DEF SInv, Patience, Patient, FromPatient
<1>10. (PatientClientsAreRead /\ OnlyKicksAreLost)'
    BY <1>1 DEF SInv, PatientClientsAreRead, OnlyKicksAreLost
<1>. QED  BY <1>2, <1>4, <1>6, <1>7, <1>9, <1>10 DEF SInv

\* The packet of a write_packet!: its id, and where in the server's order it is.
LEMMA ServerPacket ==
    ASSUME SInv, serverAt \in DOMAIN WritesOf, NEW p,
           p = Named("server", WritesOf[serverAt][1], "good")
    PROVE  /\ p \in PacketType /\ ServerId(p) /\ p.name = WritesOf[serverAt][1]
           /\ p.enciphered = end.server.enciphers /\ p.framed = end.server.framed
           /\ serverAt = "kick" => p.id = 0
           /\ Turn(p.name) = ServerTurn(serverAt)
           /\ ServerTurn(serverAt) < ServerTurn(WritesOf[serverAt][2])
<1>. USE DEF Sides
<1>1. /\ end.server.state \in States /\ end.server.enciphers \in BOOLEAN
      /\ end.server.framed \in BOOLEAN
    BY DEF SInv, SessionTypes, EndType
<1>2. \/ serverAt = "status_response" /\ WritesOf[serverAt] = <<"StatusResponse", "status_ping">>
      \/ serverAt = "pong" /\ WritesOf[serverAt] = <<"Pong", "returned">>
      \/ /\ serverAt = "encryption_request"
         /\ WritesOf[serverAt] = <<"EncryptionRequest", "encryption_response">>
      \/ serverAt = "set_compression" /\ WritesOf[serverAt] = <<"SetCompression", "login_success">>
      \/ serverAt = "login_success" /\ WritesOf[serverAt] = <<"LoginSuccess", "login_acknowledge">>
      \/ serverAt = "show_dialog" /\ WritesOf[serverAt] = <<"ShowDialog", "config">>
      \/ serverAt = "clear_dialog" /\ WritesOf[serverAt] = <<"ClearDialog", "goodbye">>
      \/ serverAt = "goodbye" /\ WritesOf[serverAt] = <<"Disconnect", "returned">>
      \/ serverAt = "kick" /\ WritesOf[serverAt] = <<"Disconnect", "returned">>
    BY DEF WritesOf
<1>3. /\ p.name = WritesOf[serverAt][1] /\ p.state = end.server.state /\ p.data = "good"
      /\ p.id = IdOf(ServerVersion, end.server.state, "clientbound", WritesOf[serverAt][1])
      /\ p.enciphered = end.server.enciphers /\ p.framed = end.server.framed
      /\ p = [name |-> p.name, state |-> p.state, id |-> p.id, data |-> "good",
              enciphered |-> p.enciphered, framed |-> p.framed]
    BY DEF Named, Encoded, VersionOf, BoundTo, Opposite
<1>4. /\ serverAt \in {"status_response", "pong"} => end.server.state = "status"
      /\ serverAt \in {"encryption_request", "set_compression", "login_success", "kick"} =>
             end.server.state = "login"
      /\ serverAt \in {"show_dialog", "clear_dialog", "goodbye"} => end.server.state = "config"
    BY DEF SInv, ServerEnd, StatusPlaces, LoginPlaces, PlainPlaces, ConfigPlaces
<1>5. p.id \in Nat /\ ServerId(p) /\ (serverAt = "kick" => p.id = 0)
    BY <1>2, <1>3, <1>4, ServerIds DEF ServerId, ServerNames
<1>6. p.name \in ServerNames \union ClientNames
    BY <1>5 DEF ServerId
<1>7. p \in PacketType
    BY <1>1, <1>3, <1>5, <1>6 DEF PacketType
<1>8. Turn(p.name) = ServerTurn(serverAt)
    BY <1>2, <1>3 DEF Turn, ServerTurn, OutsidePlaces
<1>9. ServerTurn(serverAt) < ServerTurn(WritesOf[serverAt][2])
    BY <1>2 DEF ServerTurn, OutsidePlaces
<1>. QED  BY <1>3, <1>5, <1>7, <1>8, <1>9

\* A write_packet!: the packet is behind all the others in the server's order, and
\* is in the cipher and frame that the client will have when it comes to it.
LEMMA ServerWritesKeeps == ASSUME SInv, ServerWrites PROVE SInv'
<1>. USE DEF Sides
<1>1. serverAt \in DOMAIN WritesOf /\ UNCHANGED <<plan, clientAt, gone, wrong, trouble>>
    BY DEF ServerWrites
<1>2. CASE gone /\ Return("write_error") /\ UNCHANGED <<end, wire>>
    BY <1>1, <1>2, ReturnKeeps DEF Return
<1>3. CASE /\ Send("server", Named("server", WritesOf[serverAt][1], "good"))
           /\ end' = [end EXCEPT !.server = ThresholdAfter(serverAt, @)]
           /\ serverAt' = WritesOf[serverAt][2]
    <2>1. PICK p : p = Named("server", WritesOf[serverAt][1], "good")
        OBVIOUS
    <2>2. /\ p \in PacketType /\ ServerId(p) /\ p.name = WritesOf[serverAt][1]
          /\ p.enciphered = end.server.enciphers /\ p.framed = end.server.framed
          /\ serverAt = "kick" => p.id = 0
          /\ Turn(p.name) = ServerTurn(serverAt)
          /\ ServerTurn(serverAt) < ServerTurn(serverAt')
        BY <1>1, <1>3, <2>1, ServerPacket
    <2>3. /\ end'.client = end.client /\ end' \in [Sides -> EndType]
          /\ end'.server.deciphers = end.server.deciphers
          /\ end'.server.enciphers = end.server.enciphers
          /\ end'.server.framed = (end.server.framed \/ serverAt = "set_compression")
          /\ end'.server.state = end.server.state /\ end'.server.buffer = end.server.buffer
        BY <1>3 DEF SInv, SessionTypes, EndType, ThresholdAfter, WithThreshold
    <2>4. wire' = [wire EXCEPT !["client"] = Append(@, p)]
        BY <1>3, <2>1 DEF Send, Opposite
    <2>5. \A r \in Coming("client") : Turn(r.name) < Turn(p.name)
        BY <2>2 DEF SInv, ToClient, FromServer
    <2>6. /\ Coming("client")' = Coming("client") \union {p} /\ HeldBy("client")' = HeldBy("client")
          /\ wire' \in [Sides -> Seq(PacketType)] /\ wire'.server = wire.server /\ InOrder'
        <3>1. SessionTypes /\ InOrder /\ end'["client"].buffer = end["client"].buffer
            BY <2>3 DEF SInv, ToClient
        <3>2. /\ Coming("client")' = Coming("client") \union {p}
              /\ HeldBy("client")' = HeldBy("client")
              /\ wire' \in [Sides -> Seq(PacketType)]
              /\ \A s \in Sides : s # "client" => wire'[s] = wire[s]
              /\ (InOrder /\ (\A r \in Coming("client") : Turn(r.name) < Turn(p.name)) => InOrder')
            BY <2>2, <2>4, <3>1, SentTo
        <3>. QED  BY <2>5, <3>1, <3>2
    <2>7. /\ Coming("server")' = Coming("server") /\ HeldBy("server")' = HeldBy("server")
          /\ ResponseLast' = ResponseLast
        BY <2>3, <2>6, Kept
    <2>8. \/ /\ serverAt = "status_response" /\ p.name = "StatusResponse"
             /\ serverAt' = "status_ping"
          \/ serverAt = "pong" /\ p.name = "Pong" /\ serverAt' = "returned"
          \/ /\ serverAt = "encryption_request" /\ p.name = "EncryptionRequest"
             /\ serverAt' = "encryption_response"
          \/ /\ serverAt = "set_compression" /\ p.name = "SetCompression"
             /\ serverAt' = "login_success"
          \/ /\ serverAt = "login_success" /\ p.name = "LoginSuccess"
             /\ serverAt' = "login_acknowledge"
          \/ serverAt = "show_dialog" /\ p.name = "ShowDialog" /\ serverAt' = "config"
          \/ serverAt = "clear_dialog" /\ p.name = "ClearDialog" /\ serverAt' = "goodbye"
          \/ serverAt = "goodbye" /\ p.name = "Disconnect" /\ serverAt' = "returned"
          \/ serverAt = "kick" /\ p.name = "Disconnect" /\ serverAt' = "returned"
        BY <1>1, <1>3, <2>2 DEF WritesOf
    <2>9. SessionTypes'
        BY <1>1, <2>3, <2>6 DEF SInv, SessionTypes
    <2>10. (ServerEnd /\ ClientEnd /\ EndsMeet)'
        <3>1. ServerEnd'
            BY <2>3, <2>8 DEF SInv, ServerEnd, PlainPlaces, StatusPlaces, LoginPlaces, ConfigPlaces,
               FramedPlaces, OutsidePlaces
        <3>2. ClientEnd'
            BY <1>1, <2>3 DEF SInv, ClientEnd
        <3>3. EndsMeet'
            BY <1>1, <2>3, <2>8 DEF SInv, ServerEnd, EndsMeet, StatusPlaces, OutsidePlaces
        <3>. QED  BY <3>1, <3>2, <3>3
    <2>11. FromServer(p)'
        <3>1. Turn(p.name) < ServerTurn(serverAt')
            BY <2>2
        <3>2. /\ p.enciphered => end'.server.deciphers
              /\ p.framed => end'.server.framed
            BY <2>2, <2>3 DEF SInv, ServerEnd
        <3>3. /\ p.name \in StatusNames => ~p.enciphered /\ ~p.framed /\ end.client.state = "status"
              /\ p.name \notin StatusNames => end.client.state \notin {"handshake", "status"}
            BY <2>2, <2>8 DEF SInv, ServerEnd, EndsMeet, StatusNames, StatusPlaces, OutsidePlaces
        <3>4. /\ p.name = "EncryptionRequest" =>
                     ~p.enciphered /\ ~p.framed /\ ~end.client.enciphers /\ clientAt # "respond"
              /\ p.name = "SetCompression" =>
                     p.enciphered /\ ~p.framed /\ ~end.client.framed /\ end'.server.framed
            BY <2>2, <2>3, <2>8 DEF SInv, ServerEnd, EndsMeet, PlainPlaces
        <3>5. /\ p.name \in FramedNames => p.enciphered /\ p.framed
              /\ p.name = "Disconnect" /\ p.id = 2 => p.framed
              /\ p.name \in {"ShowDialog", "ClearDialog"} => end.server.state = "config"
            BY <2>2, <2>8 DEF SInv, ServerEnd, FramedPlaces, ConfigPlaces, FramedNames
        <3>. QED  BY <1>1, <2>2, <2>3, <3>1, <3>2, <3>3, <3>4, <3>5 DEF FromServer
    <2>12. \A r \in Coming("client") : FromServer(r)'
        <3>. SUFFICES ASSUME NEW r \in Coming("client") PROVE FromServer(r)'
            OBVIOUS
        <3>1. FromServer(r) /\ Turn(r.name) < ServerTurn(serverAt')
            <4>1. Turn(r.name) < Turn(p.name) /\ Turn(p.name) < ServerTurn(serverAt')
                BY <2>2, <2>5
            <4>2. Turn(r.name) \in Int /\ Turn(p.name) \in Int /\ ServerTurn(serverAt') \in Int
                BY DEF Turn, ServerTurn
            <4>. QED  BY <4>1, <4>2 DEF SInv, ToClient
        <3>. QED  BY <1>1, <2>3, <3>1 DEF FromServer
    <2>13. ToClient'
        BY <2>6, <2>11, <2>12 DEF SInv, ToClient
    <2>14. FramePending'
        BY <1>1, <2>3, <2>6, <2>8 DEF SInv, FramePending
    <2>15. ToServer'
        BY <1>1, <2>3, <2>7, <2>8 DEF SInv, ToServer, FromClient, EndsMeet
    <2>16. Patience'
        BY <1>1, <2>3, <2>7, <2>8 DEF SInv, Patience, Patient, FromPatient
    <2>17. (PatientClientsAreRead /\ OnlyKicksAreLost)'
        BY <1>1 DEF SInv, PatientClientsAreRead, OnlyKicksAreLost
    <2>. QED  BY <2>9, <2>10, <2>13, <2>14, <2>15, <2>16, <2>17 DEF SInv
<1>. QED  BY <1>2, <1>3 DEF ServerWrites

\* What a read may come to: the function returns, goes on, kicks, or reads again.
LEMMA ServerReadsTo ==
    ASSUME SInv, ServerReads
    PROVE  /\ \/ serverAt' = "returned"
              \/ serverAt' = After[serverAt] /\ Seen("server") = Awaited[serverAt]
              \/ /\ serverAt' = "kick"
                 /\ serverAt \in {"login_start", "encryption_response", "login_acknowledge"}
                 /\ end'.server.state = end.server.state
              \/ serverAt = "config" /\ serverAt' = "config"
           /\ end'.server.state =
                  IF serverAt = "login_acknowledge" /\ Seen("server") = "LoginAcknowledge"
                  THEN "config" ELSE end.server.state
           /\ end'.server.buffer = Tail(end.server.buffer)
           /\ end'.server.deciphers = end.server.deciphers
           /\ end'.server.enciphers = end.server.enciphers
           /\ end'.server.framed = end.server.framed
           /\ end'.client = end.client
           /\ end' = [end EXCEPT !.server = [@ EXCEPT !.buffer = end'.server.buffer,
                                                      !.state = end'.server.state]]
<1>. USE DEF Sides
<1>1. end \in [Sides -> EndType]
    BY DEF SInv, SessionTypes
<1>2. end' = [end EXCEPT !.server =
                 IF Seen("server") = Awaited[serverAt] THEN StateAfter(serverAt, PacketTaken("server"))
                 ELSE PacketTaken("server")]
    BY DEF ServerReads
<1>3. PacketTaken("server") = [end.server EXCEPT !.buffer = Tail(@)]
    BY DEF PacketTaken
<1>4. Awaited[serverAt] = "LoginAcknowledge" <=> serverAt = "login_acknowledge"
    BY DEF ServerReads, Awaited
<1>5. /\ end'.server = [end.server EXCEPT !.buffer = Tail(@),
                            !.state = IF /\ serverAt = "login_acknowledge"
                                         /\ Seen("server") = "LoginAcknowledge"
                                      THEN "config" ELSE end.server.state]
      /\ end'.client = end.client
    <2>1. CASE Seen("server") = Awaited[serverAt] /\ serverAt = "login_acknowledge"
        BY <1>1, <1>2, <1>3, <1>4, <2>1 DEF StateAfter, InState, EndType
    <2>2. CASE ~(Seen("server") = Awaited[serverAt] /\ serverAt = "login_acknowledge")
        BY <1>1, <1>2, <1>3, <1>4, <2>2 DEF StateAfter, EndType
    <2>. QED  BY <2>1, <2>2
<1>6. \/ serverAt' = "returned"
      \/ serverAt' = After[serverAt] /\ Seen("server") = Awaited[serverAt]
      \/ /\ serverAt' = "kick" /\ serverAt = "encryption_response"
      \/ /\ serverAt' = Otherwise(serverAt) /\ Seen("server") # Awaited[serverAt]
    BY DEF ServerReads, ServerTakes, Return
<1>7. serverAt \in {"status_request", "status_ping", "login_start", "encryption_response",
                    "login_acknowledge", "config"}
    BY DEF ServerReads, Awaited
<1>8. \/ serverAt' = "returned"
      \/ serverAt' = After[serverAt] /\ Seen("server") = Awaited[serverAt]
      \/ /\ serverAt' = "kick"
         /\ serverAt \in {"login_start", "encryption_response", "login_acknowledge"}
         /\ serverAt = "login_acknowledge" => Seen("server") # "LoginAcknowledge"
      \/ serverAt = "config" /\ serverAt' = "config"
    BY <1>4, <1>6, <1>7 DEF Otherwise
<1>9. /\ end'.server.state =
             IF serverAt = "login_acknowledge" /\ Seen("server") = "LoginAcknowledge"
             THEN "config" ELSE end.server.state
      /\ end'.server.buffer = Tail(end.server.buffer)
      /\ end'.server.deciphers = end.server.deciphers
      /\ end'.server.enciphers = end.server.enciphers
      /\ end'.server.framed = end.server.framed
    BY <1>1, <1>5 DEF EndType
<1>10. end' = [end EXCEPT !.server = [@ EXCEPT !.buffer = end'.server.buffer,
                                               !.state = end'.server.state]]
    BY <1>1, <1>2, <1>5, <1>9 DEF EndType
<1>. QED  BY <1>5, <1>8, <1>9, <1>10

\* A read_packet that succeeds: the response that starts the cipher comes from a
\* client that has it, and a patient one has sent nothing after it.
LEMMA ServerReadsKeeps == ASSUME SInv, ServerReads PROVE SInv'
<1>. USE DEF Sides
<1>. DEFINE p == NextPacket("server").packet
<1>1. /\ serverAt \in {"status_request", "status_ping", "login_start", "encryption_response",
                       "login_acknowledge", "config"}
      /\ UNCHANGED <<plan, wire, clientAt, gone, wrong>> /\ Buffered("server")
      /\ trouble' \in {trouble, trouble \union {<<"server", "mistaken">>}}
    BY DEF ServerReads, Awaited, Noted
<1>2. /\ \/ serverAt' = "returned"
         \/ serverAt' = After[serverAt] /\ Seen("server") = Awaited[serverAt]
         \/ /\ serverAt' = "kick"
            /\ serverAt \in {"login_start", "encryption_response", "login_acknowledge"}
            /\ end'.server.state = end.server.state
         \/ serverAt = "config" /\ serverAt' = "config"
      /\ end'.server.state =
             IF serverAt = "login_acknowledge" /\ Seen("server") = "LoginAcknowledge"
             THEN "config" ELSE end.server.state
      /\ end'.server.buffer = Tail(end.server.buffer)
      /\ end'.server.deciphers = end.server.deciphers
      /\ end'.server.enciphers = end.server.enciphers
      /\ end'.server.framed = end.server.framed
      /\ end'.client = end.client
      /\ end' = [end EXCEPT !.server = [@ EXCEPT !.buffer = end'.server.buffer,
                                                 !.state = end'.server.state]]
    BY ServerReadsTo
<1>3. /\ Coming("server") = {p} \union Coming("server")'
      /\ HeldBy("server")' \subseteq HeldBy("server") /\ end'.server.buffer \in Seq(EntryType)
      /\ p \in Coming("server") /\ p \in PacketType
      /\ ResponseLast => ResponseLast' /\ (IsResponse(p) => Coming("server")' = {})
    <2>1. SessionTypes /\ end'["server"].buffer = Tail(end["server"].buffer)
        BY <1>2 DEF SInv
    <2>2. /\ Coming("server") = {p} \union Coming("server")'
          /\ HeldBy("server")' \subseteq HeldBy("server")
          /\ end'["server"].buffer \in Seq(EntryType)
          /\ NextPacket("server") \in EntryType /\ p \in Coming("server")
          /\ ResponseLast => ResponseLast' /\ (IsResponse(p) => Coming("server")' = {})
        BY <1>1, <2>1, TakenBy
    <2>. QED  BY <2>2 DEF EntryType
<1>4. /\ Coming("client")' = Coming("client") /\ HeldBy("client")' = HeldBy("client")
      /\ InOrder' = InOrder
    BY <1>1, <1>2, Kept
<1>5. FromClient(p) /\ p.id \in Nat
    BY <1>3 DEF SInv, ToServer, PacketType
<1>6. end.server.state # "play" => Seen("server") = Name(ServerVersion, end.server.state, "serverbound", p.id)
    BY DEF Seen, VersionOf, BoundTo
<1>. HIDE DEF p
<1>7. ASSUME serverAt = "encryption_response", Seen("server") = "EncryptionResponse"
      PROVE  IsResponse(p)
    <2>1. end.server.state = "login" /\ ~end.server.framed
        BY <1>7 DEF SInv, ServerEnd, LoginPlaces, PlainPlaces
    <2>2. p.id = 1
        BY <1>5, <1>6, <1>7, <2>1, ServerNamesOf
    <2>3. end.client.state \notin {"handshake", "status", "config", "play"}
        BY <1>7, <2>1 DEF SInv, EndsMeet, ClientEnd, OutsidePlaces, StatusPlaces
    <2>. QED  BY <1>5, <2>2, <2>3 DEF FromClient, IsResponse
<1>8. ASSUME serverAt = "login_acknowledge", Seen("server") = "LoginAcknowledge", wrong = 0
      PROVE  end.client.state = "config"
    <2>1. end.server.state = "login"
        BY <1>8 DEF SInv, ServerEnd, LoginPlaces
    <2>2. p.id = 3
        BY <1>5, <1>6, <1>8, <2>1, ServerNamesOf
    <2>3. end.client.state # "status"
        BY <1>8 DEF SInv, EndsMeet, OutsidePlaces, StatusPlaces
    <2>. QED  BY <1>5, <1>8, <2>2, <2>3 DEF FromClient
<1>9. \/ serverAt' = "returned"
      \/ serverAt = "status_request" /\ serverAt' = "status_response"
      \/ serverAt = "status_ping" /\ serverAt' = "pong"
      \/ serverAt = "login_start" /\ serverAt' = "encryption_request"
      \/ serverAt = "encryption_response" /\ serverAt' = "with_encryption" /\ IsResponse(p)
      \/ /\ serverAt = "login_acknowledge" /\ serverAt' = "show_dialog"
         /\ end'.server.state = "config"
      \/ serverAt = "config" /\ serverAt' \in {"clear_dialog", "config"}
      \/ /\ serverAt' = "kick" /\ end'.server.state = end.server.state
         /\ serverAt \in {"login_start", "encryption_response", "login_acknowledge"}
    BY <1>1, <1>2, <1>7 DEF After, Awaited
<1>10. SessionTypes'
    <2>1. end'.server.state \in States
        BY <1>2 DEF SInv, SessionTypes, EndType, States
    <2>2. end' \in [Sides -> EndType]
        BY <1>2, <1>3, <2>1 DEF SInv, SessionTypes, EndType
    <2>. QED  BY <1>1, <2>2 DEF SInv, SessionTypes
<1>11. ServerEnd'
    BY <1>1, <1>2, <1>9 DEF SInv, ServerEnd, PlainPlaces, StatusPlaces,
       LoginPlaces, ConfigPlaces, FramedPlaces, OutsidePlaces
<1>12. (ClientEnd /\ EndsMeet)'
    <2>1. ClientEnd'
        BY <1>1, <1>2 DEF SInv, ClientEnd
    <2>2. serverAt' = "with_encryption" => end.client.enciphers
        BY <1>1, <1>5, <1>9 DEF FromClient
    <2>3. EndsMeet'
        BY <1>1, <1>2, <1>9, <2>2 DEF SInv, EndsMeet, OutsidePlaces, StatusPlaces
    <2>. QED  BY <2>1, <2>3
<1>13. ToClient'
    <2>1. /\ ServerTurn(serverAt) <= ServerTurn(serverAt')
          /\ ServerTurn(serverAt) \in Int /\ ServerTurn(serverAt') \in Int
        BY <1>1, <1>9 DEF ServerTurn, OutsidePlaces
    <2>2. \A name : Turn(name) \in Int
        BY DEF Turn
    <2>3. ASSUME NEW r \in Coming("client") PROVE FromServer(r)'
        <3>1. FromServer(r)
            BY DEF SInv, ToClient
        <3>2. Turn(r.name) < ServerTurn(serverAt')
            BY <2>1, <2>2, <3>1 DEF FromServer
        <3>. QED  BY <1>1, <1>2, <3>1, <3>2 DEF FromServer
    <2>. QED  BY <1>4, <2>3 DEF SInv, ToClient
<1>14. FramePending'
    BY <1>1, <1>2, <1>4 DEF SInv, FramePending
<1>15. ToServer'
    BY <1>1, <1>2, <1>3, <1>8, <1>9 DEF SInv, ToServer, FromClient
<1>16. Patience'
    <2>1. Patient' => Patient
        BY <1>1 DEF Patient
    <2>2. serverAt' = "with_encryption" /\ Patient => Coming("server")' = {}
        BY <1>1, <1>3, <1>9 DEF SInv, Patience, ServerEnd, PlainPlaces
    <2>. QED  BY <1>2, <1>3, <2>1, <2>2 DEF SInv, Patience, FromPatient
<1>17. (PatientClientsAreRead /\ OnlyKicksAreLost)'
    BY <1>1 DEF SInv, PatientClientsAreRead, OnlyKicksAreLost
<1>. QED  BY <1>10, <1>11, <1>12, <1>13, <1>14, <1>15, <1>16, <1>17 DEF SInv

\* Whatever the client writes, in turn or not: in the cipher and frame it has at
\* that moment, with the cipher on from the response on.
LEMMA ClientWritesKeeps ==
    ASSUME SInv, NEW p, p \in PacketType, wire' = [wire EXCEPT !["server"] = Append(@, p)],
           end' \in [Sides -> EndType], end'.server = end.server,
           end'.client.buffer = end.client.buffer, end'.client.framed = end.client.framed,
           \/ end'.client.enciphers = end.client.enciphers
           \/ clientAt = "respond" /\ end'.client.enciphers /\ IsResponse(p),
           \/ end'.client.state = end.client.state
           \/ end.client.state = "login" /\ end'.client.state \in {"config", "play"},
           UNCHANGED <<plan, serverAt, gone>>, wrong' \in Nat, wrong' = 0 => wrong = 0,
           p.state = end.client.state, end.client.state # "handshake",
           p.enciphered = end.client.enciphers, p.framed = end.client.framed,
           IsResponse(p) => end'.client.enciphers,
           wrong' = 0 => /\ p.state # "play"
                         /\ p.state = "login" /\ p.id = 3 => end'.client.state = "config",
           clientAt' = "respond" => clientAt = "respond",
           trouble' = IF Early THEN trouble \union {<<"client", "early">>} ELSE trouble,
           ClientEnd'
    PROVE  SInv'
<1>. USE DEF Sides
<1>1. /\ end.client.framed \in BOOLEAN /\ end.client.enciphers \in BOOLEAN
      /\ end.client.state \in States /\ end'.client.enciphers \in BOOLEAN
    BY DEF SInv, SessionTypes, EndType
<1>2. end.client.enciphers => end'.client.enciphers
    BY <1>1
<1>3. Patient' => Patient /\ (end.client.enciphers <=> end.client.framed)
    BY <1>1 DEF Patient, Early, SInv, ClientEnd
<1>4. /\ Coming("server")' = Coming("server") \union {p} /\ HeldBy("server")' = HeldBy("server")
      /\ wire' \in [Sides -> Seq(PacketType)] /\ wire'.client = wire.client
      /\ (\A r \in Coming("server") : ~IsResponse(r)) => ResponseLast'
    <2>1. SessionTypes /\ end'["server"].buffer = end["server"].buffer
        BY DEF SInv
    <2>2. /\ Coming("server")' = Coming("server") \union {p}
          /\ HeldBy("server")' = HeldBy("server")
          /\ wire' \in [Sides -> Seq(PacketType)]
          /\ \A s \in Sides : s # "server" => wire'[s] = wire[s]
          /\ (\A r \in Coming("server") : ~IsResponse(r)) => ResponseLast'
        BY <2>1, SentTo
    <2>. QED  BY <2>2
<1>5. /\ Coming("client")' = Coming("client") /\ HeldBy("client")' = HeldBy("client")
      /\ InOrder' = InOrder
    BY <1>4, Kept
<1>6. SessionTypes'
    BY <1>4 DEF SInv, SessionTypes
<1>7. ServerEnd'
    BY DEF SInv, ServerEnd
<1>8. EndsMeet'
    <2>1. clientAt # "handshake" => serverAt \notin OutsidePlaces
        BY DEF SInv, EndsMeet
    <2>2. clientAt = "handshake" => FALSE
        BY DEF SInv, ClientEnd
    <2>3. clientAt = "respond" => end.client.state = "login"
        BY DEF SInv, ClientEnd
    <2>. QED  BY <1>2, <2>1, <2>2, <2>3 DEF SInv, EndsMeet
<1>9. ToClient'
    <2>1. ASSUME NEW r \in Coming("client") PROVE FromServer(r)'
        <3>1. FromServer(r)
            BY DEF SInv, ToClient
        <3>. QED  BY <3>1 DEF FromServer
    <2>. QED  BY <1>5, <2>1 DEF SInv, ToClient
<1>10. FramePending'
    BY <1>5 DEF SInv, FramePending
<1>11. ToServer'
    <2>1. ASSUME NEW r \in Coming("server") PROVE FromClient(r)'
        <3>1. FromClient(r)
            BY DEF SInv, ToServer
        <3>. QED  BY <1>2, <3>1 DEF FromClient
    <2>2. FromClient(p)'
        BY <1>1 DEF FromClient, States
    <2>3. serverAt' = "encryption_response" /\ end'.client.enciphers =>
              \E r \in Coming("server")' : IsResponse(r)
        BY <1>4 DEF SInv, ToServer
    <2>. QED  BY <1>4, <2>1, <2>2, <2>3 DEF SInv, ToServer
<1>12. Patience'
    <2>. SUFFICES ASSUME Patient' 
                  PROVE  /\ \A r \in Coming("server")' : FromPatient(r)'
                         /\ ~end'.server.deciphers => ResponseLast'
                         /\ \A e \in HeldBy("server")' : e.deciphered <=> e.packet.enciphered
        BY DEF Patience
    <2>1. Patient /\ (end.client.enciphers <=> end.client.framed)
        BY <1>3
    <2>2. FromPatient(p)'
        BY <2>1 DEF FromPatient, SInv, EndsMeet
    <2>3. \A r \in Coming("server") : FromPatient(r)'
        BY <2>1 DEF FromPatient, SInv, Patience
    <2>4. ~end.server.deciphers => \A r \in Coming("server") : ~IsResponse(r)
        BY <2>1 DEF SInv, ToServer, FromClient, EndsMeet, ServerEnd
    <2>5. \A e \in HeldBy("server")' : e.deciphered <=> e.packet.enciphered
        BY <1>4, <2>1 DEF SInv, Patience
    <2>. QED  BY <1>4, <2>2, <2>3, <2>4, <2>5
<1>13. (PatientClientsAreRead /\ OnlyKicksAreLost)'
    BY DEF SInv, PatientClientsAreRead, OnlyKicksAreLost
<1>. QED  BY <1>6, <1>7, <1>8, <1>9, <1>10, <1>11, <1>12, <1>13 DEF SInv

\* A packet the client writes in its turn.
LEMMA ClientPacket ==
    ASSUME SInv, NEW name \in ClientNames, NEW p, p = Named("client", name, "good"),
           NEW id \in Nat, IdOf(plan.version, end.client.state, "serverbound", name) = id
    PROVE  /\ p \in PacketType /\ p.id = id /\ p.state = end.client.state
           /\ p.enciphered = end.client.enciphers /\ p.framed = end.client.framed
<1>1. /\ end.client.state \in States /\ end.client.enciphers \in BOOLEAN
      /\ end.client.framed \in BOOLEAN
    BY DEF SInv, SessionTypes, EndType, Sides
<1>2. p = [name |-> name, state |-> end.client.state, id |-> id, data |-> "good",
           enciphered |-> end.client.enciphers, framed |-> end.client.framed]
    BY DEF Named, Encoded, VersionOf, BoundTo, Opposite
<1>. QED  BY <1>1, <1>2 DEF PacketType

\* A client of a version without a config state goes on to the play state.
LEMMA ClientPlaysKeeps ==
    ASSUME SInv, clientAt = "acknowledge", ClientChanged(InState(end.client, "play"), "play"),
           UNCHANGED <<wire, gone, trouble>>
    PROVE  SInv'
<1>. USE DEF Sides
<1>1. /\ end' \in [Sides -> EndType] /\ end'.server = end.server
      /\ end'.client.buffer = end.client.buffer /\ end'.client.framed = end.client.framed
      /\ end'.client.enciphers = end.client.enciphers
      /\ end'.client.deciphers = end.client.deciphers
      /\ end'.client.state = "play" /\ clientAt' = "play"
      /\ UNCHANGED <<plan, serverAt, wrong>>
    BY DEF SInv, SessionTypes, EndType, ClientChanged, InState, States
<1>2. end.client.state = "login" /\ end.client.framed
    BY DEF SInv, ClientEnd
<1>3. /\ Coming("client")' = Coming("client") /\ HeldBy("client")' = HeldBy("client")
      /\ InOrder' = InOrder
    BY <1>1, Kept
<1>4. /\ Coming("server")' = Coming("server") /\ HeldBy("server")' = HeldBy("server")
      /\ ResponseLast' = ResponseLast
    BY <1>1, Kept
<1>5. SessionTypes'
    BY <1>1 DEF SInv, SessionTypes
<1>6. ServerEnd' /\ ClientEnd'
    BY <1>1, <1>2 DEF SInv, ServerEnd, ClientEnd
<1>7. EndsMeet'
    BY <1>1, <1>2 DEF SInv, EndsMeet, ServerEnd, OutsidePlaces, StatusPlaces
<1>8. ToClient'
    BY <1>1, <1>2, <1>3 DEF SInv, ToClient, FromServer
<1>9. FramePending'
    BY <1>1, <1>3 DEF SInv, FramePending
<1>10. ToServer'
    BY <1>1, <1>2, <1>4 DEF SInv, ToServer, FromClient
<1>11. Patience'
    BY <1>1, <1>4 DEF SInv, Patience, Patient, FromPatient
<1>12. (PatientClientsAreRead /\ OnlyKicksAreLost)'
    BY DEF SInv, PatientClientsAreRead, OnlyKicksAreLost
<1>. QED  BY <1>5, <1>6, <1>7, <1>8, <1>9, <1>10, <1>11, <1>12 DEF SInv

\* The client does what is its turn.
LEMMA ClientSendsKeeps == ASSUME SInv, ~gone, ClientSends PROVE SInv'
<1>. USE DEF Sides
<1>1. plan.version \in AllVersions /\ wrong \in Nat /\ end \in [Sides -> EndType]
    BY DEF SInv, SessionTypes
<1>2. clientAt \in {"request", "ping", "start", "respond", "acknowledge", "click"}
    BY DEF ClientSends
<1>3. ~Early
    BY <1>2 DEF SInv, ClientEnd, Early
<1>4. ASSUME NEW name \in ClientNames, NEW id \in Nat, NEW e, NEW next,
             IdOf(plan.version, end.client.state, "serverbound", name) = id,
             ClientSent(name, e, next), e \in EndType, e.buffer = end.client.buffer,
             e.framed = end.client.framed,
             \/ /\ e.enciphers = end.client.enciphers /\ e.deciphers = end.client.deciphers
                /\ ~(end.client.state = "login" /\ id = 1)
             \/ /\ clientAt = "respond" /\ e.enciphers /\ e.deciphers
                /\ end.client.state = "login" /\ id = 1,
             \/ e.state = end.client.state
             \/ end.client.state = "login" /\ e.state = "config" /\ clientAt = "acknowledge",
             end.client.state = "login" /\ id = 3 => e.state = "config",
             \/ next = "status" /\ e.state = "status"
             \/ next = "login" /\ e.state = "login"
             \/ next = "config" /\ e.state = "config"
      PROVE  SInv'
    <2>1. PICK p : p = Named("client", name, "good")
        OBVIOUS
    <2>2. /\ p \in PacketType /\ p.id = id /\ p.state = end.client.state
          /\ p.enciphered = end.client.enciphers /\ p.framed = end.client.framed
        BY <1>4, <2>1, ClientPacket
    <2>3. /\ wire' = [wire EXCEPT !["server"] = Append(@, p)]
          /\ end' \in [Sides -> EndType] /\ end'.server = end.server /\ end'.client = e
          /\ UNCHANGED <<plan, serverAt, gone, wrong, trouble>> /\ clientAt' = next
        BY <1>1, <1>4, <2>1 DEF ClientSent, ClientChanged, Send, Opposite
    <2>4. end.client.state \notin {"handshake", "play"}
        BY <1>2 DEF SInv, ClientEnd
    <2>5. ClientEnd'
        <3>1. e.enciphers /\ ~e.framed => next = "login"
            BY <1>3, <1>4 DEF Early
        <3>2. clientAt = "acknowledge" => end.client.framed
            BY DEF SInv, ClientEnd
        <3>. QED  BY <1>4, <2>3, <3>1, <3>2 DEF SInv, ClientEnd
    <2>6. /\ \/ end'.client.enciphers = end.client.enciphers
             \/ clientAt = "respond" /\ end'.client.enciphers /\ IsResponse(p)
          /\ IsResponse(p) => end'.client.enciphers
        <3>1. IsResponse(p) <=> end.client.state = "login" /\ id = 1
            BY <2>2 DEF IsResponse
        <3>2. /\ end'.client.enciphers = e.enciphers
              /\ e.enciphers \in BOOLEAN /\ end.client.enciphers \in BOOLEAN
            BY <1>1, <1>4, <2>3 DEF EndType
        <3>3. CASE e.enciphers = end.client.enciphers /\ ~IsResponse(p)
            BY <3>2, <3>3
        <3>4. CASE clientAt = "respond" /\ e.enciphers /\ IsResponse(p)
            BY <3>2, <3>4
        <3>. QED  BY <1>4, <3>1, <3>3, <3>4
    <2>7. /\ \/ end'.client.state = end.client.state
             \/ end.client.state = "login" /\ end'.client.state \in {"config", "play"}
          /\ wrong' \in Nat /\ (wrong' = 0 => wrong = 0)
          /\ wrong' = 0 => /\ p.state # "play"
                           /\ p.state = "login" /\ p.id = 3 => end'.client.state = "config"
          /\ clientAt' = "respond" => clientAt = "respond"
          /\ end'.client.buffer = end.client.buffer /\ end'.client.framed = end.client.framed
          /\ trouble' = IF Early THEN trouble \union {<<"client", "early">>} ELSE trouble
        BY <1>1, <1>3, <1>4, <2>2, <2>3, <2>4
    <2>. QED  BY <2>2, <2>3, <2>4, <2>5, <2>6, <2>7, ClientWritesKeeps
<1>. USE DEF ClientNames, EndType, States
<1>5. CASE clientAt = "request" /\ ClientSent("StatusRequest", end.client, "status")
    <2>1. end.client.state = "status"
        BY <1>5 DEF SInv, ClientEnd
    <2>2. IdOf(plan.version, end.client.state, "serverbound", "StatusRequest") = 0
        BY <1>1, <2>1, ClientIds
    <2>3. PICK e : e = end.client
        OBVIOUS
    <2>4. e \in EndType
        BY <1>1, <2>3
    <2>. QED  BY <1>4, <1>5, <2>1, <2>2, <2>3, <2>4
<1>6. CASE clientAt = "ping" /\ ClientSent("Ping", end.client, "status")
    <2>1. end.client.state = "status"
        BY <1>6 DEF SInv, ClientEnd
    <2>2. IdOf(plan.version, end.client.state, "serverbound", "Ping") = 1
        BY <1>1, <2>1, ClientIds
    <2>3. PICK e : e = end.client
        OBVIOUS
    <2>4. e \in EndType
        BY <1>1, <2>3
    <2>. QED  BY <1>4, <1>6, <2>1, <2>2, <2>3, <2>4
<1>7. CASE clientAt = "start" /\ ClientSent("LoginStart", end.client, "login")
    <2>1. end.client.state = "login"
        BY <1>7 DEF SInv, ClientEnd
    <2>2. IdOf(plan.version, end.client.state, "serverbound", "LoginStart") = 0
        BY <1>1, <2>1, ClientIds
    <2>3. PICK e : e = end.client
        OBVIOUS
    <2>4. e \in EndType
        BY <1>1, <2>3
    <2>. QED  BY <1>4, <1>7, <2>1, <2>2, <2>3, <2>4
<1>8. CASE clientAt = "respond" /\ ClientSent("EncryptionResponse", WithCipher(end.client), "login")
    <2>1. end.client.state = "login"
        BY <1>8 DEF SInv, ClientEnd
    <2>2. IdOf(plan.version, end.client.state, "serverbound", "EncryptionResponse") = 1
        BY <1>1, <2>1, ClientIds
    <2>3. PICK e : e = WithCipher(end.client)
        OBVIOUS
    <2>4. /\ e \in EndType /\ e.buffer = end.client.buffer /\ e.framed = end.client.framed
          /\ e.enciphers /\ e.deciphers /\ e.state = end.client.state
        BY <1>1, <2>3 DEF WithCipher
    <2>. QED  BY <1>4, <1>8, <2>1, <2>2, <2>3, <2>4
<1>9. CASE /\ clientAt = "acknowledge" /\ Knows("LoginAcknowledge")
           /\ ClientSent("LoginAcknowledge", InState(end.client, "config"), "config")
    <2>1. end.client.state = "login"
        BY <1>9 DEF SInv, ClientEnd
    <2>2. IdOf(plan.version, end.client.state, "serverbound", "LoginAcknowledge") = 3
        BY <1>1, <1>9, <2>1, ClientIds DEF Knows, Lines
    <2>3. PICK e : e = InState(end.client, "config")
        OBVIOUS
    <2>4. /\ e \in EndType /\ e.buffer = end.client.buffer /\ e.framed = end.client.framed
          /\ e.enciphers = end.client.enciphers /\ e.deciphers = end.client.deciphers
          /\ e.state = "config"
        BY <1>1, <2>3 DEF InState
    <2>. QED  BY <1>4, <1>9, <2>1, <2>2, <2>3, <2>4
<1>10. CASE /\ clientAt = "acknowledge" /\ ~Knows("LoginAcknowledge")
            /\ ClientChanged(InState(end.client, "play"), "play") /\ UNCHANGED <<wire, gone, trouble>>
    BY <1>10, ClientPlaysKeeps
<1>11. CASE clientAt = "click" /\ ClientSent("CustomClick", end.client, "config")
    <2>1. end.client.state = "config" /\ plan.version \in DialogVersions
        BY <1>11 DEF SInv, ClientEnd
    <2>2. IdOf(plan.version, end.client.state, "serverbound", "CustomClick") = 8
        BY <1>1, <2>1, ClientIds
    <2>. QED  BY <1>1, <1>4, <1>11, <2>1, <2>2
<1>. QED  BY <1>5, <1>6, <1>7, <1>8, <1>9, <1>10, <1>11 DEF ClientSends

\* What a table allows the client to send out of turn: only line 2 of the login is
\* a response.
LEMMA AnyName ==
    ASSUME NEW v \in AllVersions, NEW s \in {"status", "login", "config"},
           NEW i \in DOMAIN Table(v).named[s].serverbound
    PROVE  /\ Table(v).named[s].serverbound[i][1] \in Nat
           /\ Table(v).named[s].serverbound[i][2] \in ClientNames
           /\ s = "login" =>
                  (Table(v).named[s].serverbound[i][2] = "EncryptionResponse" <=>
                       Table(v).named[s].serverbound[i][1] = 1)
<1>. DEFINE t == Table(v).named[s].serverbound
<1>1. Counted(t) /\ DOMAIN t = 1..Len(t)
    BY VersionTables, StatusTable DEF LoginTable, ConfigTable
<1>2. s = "login" => OnLine(t, 2, "EncryptionResponse")
    BY VersionTables DEF LoginTable
<1>3. NamesOn(t) \subseteq ClientNames
    BY DEF ClientNames
<1>. HIDE DEF t
<1>4. Len(t) \in Nat /\ i \in 1..Len(t) /\ t[i][1] = i - 1
    BY <1>1 DEF Counted, t
<1>5. t[i][2] \in NamesOn(t) /\ t[i][1] \in Nat
    BY <1>4 DEF NamesOn
<1>6. s = "login" => (t[i][2] = "EncryptionResponse" <=> t[i][1] = 1)
    BY <1>2, <1>4 DEF OnLine
<1>. QED  BY <1>3, <1>5, <1>6 DEF t

\* A packet out of turn.
LEMMA OutOfTurnKeeps == ASSUME SInv, OutOfTurn PROVE SInv'
<1>. USE DEF Sides
<1>1. /\ plan.version \in AllVersions /\ wrong \in Nat /\ end \in [Sides -> EndType]
      /\ wire \in [Sides -> Seq(PacketType)]
    BY DEF SInv, SessionTypes
<1>2. /\ end.client.state \in {"status", "login", "config"} /\ wrong' = wrong + 1
      /\ trouble' = IF Early THEN trouble \union {<<"client", "early">>} ELSE trouble
      /\ UNCHANGED <<plan, serverAt, gone>>
    BY DEF OutOfTurn
<1>3. PICK i \in DOMAIN Lines :
          \E data \in MayBe(Lines[i][2]) :
              /\ Send("client", Encoded("client", Lines[i][2], Lines[i][1], data))
              /\ IF Lines[i][2] = "EncryptionResponse"
                 THEN /\ end' = [end EXCEPT !.client = WithCipher(@)]
                      /\ clientAt' = "login"
                 ELSE UNCHANGED <<end, clientAt>>
    BY DEF OutOfTurn
<1>4. PICK name, id : name = Lines[i][2] /\ id = Lines[i][1]
    OBVIOUS
<1>5. PICK data \in MayBe(name) :
              /\ Send("client", Encoded("client", name, id, data))
              /\ IF name = "EncryptionResponse"
                 THEN /\ end' = [end EXCEPT !.client = WithCipher(@)]
                      /\ clientAt' = "login"
                 ELSE UNCHANGED <<end, clientAt>>
    BY <1>3, <1>4
<1>6. /\ id \in Nat /\ name \in ClientNames
      /\ end.client.state = "login" => (name = "EncryptionResponse" <=> id = 1)
    <2>1. PICK v, s : v = plan.version /\ s = end.client.state
        OBVIOUS
    <2>2. v \in AllVersions /\ s \in {"status", "login", "config"}
          /\ i \in DOMAIN Table(v).named[s].serverbound
          /\ name = Table(v).named[s].serverbound[i][2] /\ id = Table(v).named[s].serverbound[i][1]
        BY <1>1, <1>2, <1>4, <2>1 DEF Lines
    <2>3. /\ Table(v).named[s].serverbound[i][1] \in Nat
          /\ Table(v).named[s].serverbound[i][2] \in ClientNames
          /\ s = "login" =>
                 (Table(v).named[s].serverbound[i][2] = "EncryptionResponse" <=>
                      Table(v).named[s].serverbound[i][1] = 1)
        BY <2>2, AnyName
    <2>. QED  BY <2>1, <2>2, <2>3
<1>7. data \in {"good", "wrong", "short", "negative"} /\ (name = "EncryptionResponse" => clientAt = "respond")
    BY <1>5 DEF MayBe
<1>8. clientAt = "respond" => end.client.state = "login"
    BY DEF SInv, ClientEnd
<1>9. PICK p : p = Encoded("client", name, id, data)
    OBVIOUS
<1>10. /\ p.state = end.client.state /\ p.id = id
       /\ p.enciphered = end.client.enciphers /\ p.framed = end.client.framed
       /\ p \in PacketType
    <2>1. p = [name |-> name, state |-> end.client.state, id |-> id, data |-> data,
               enciphered |-> end.client.enciphers, framed |-> end.client.framed]
        BY <1>9 DEF Encoded
    <2>2. /\ end.client.state \in States /\ end.client.enciphers \in BOOLEAN
          /\ end.client.framed \in BOOLEAN
        BY <1>1 DEF EndType
    <2>. QED  BY <1>6, <1>7, <2>1, <2>2 DEF PacketType
<1>11. IsResponse(p) <=> name = "EncryptionResponse"
    BY <1>6, <1>7, <1>8, <1>10 DEF IsResponse
<1>12. wire' = [wire EXCEPT !["server"] = Append(@, p)]
    BY <1>5, <1>9 DEF Send, Opposite
<1>13. wrong' \in Nat /\ wrong' # 0
    BY <1>1, <1>2
<1>14. CASE name = "EncryptionResponse"
    <2>1. /\ end' \in [Sides -> EndType] /\ end'.server = end.server /\ clientAt' = "login"
          /\ end'.client.buffer = end.client.buffer /\ end'.client.framed = end.client.framed
          /\ end'.client.enciphers = TRUE /\ end'.client.deciphers = TRUE
          /\ end'.client.state = "login" /\ end.client.state = "login"
        <3>1. /\ end' = [end EXCEPT !.client = WithCipher(@)] /\ clientAt' = "login"
              /\ end.client.state = "login"
            BY <1>5, <1>7, <1>8, <1>14
        <3>. QED  BY <1>1, <3>1 DEF WithCipher, EndType
    <2>2. ClientEnd'
        BY <1>2, <2>1 DEF SInv, ClientEnd
    <2>. QED  BY <1>2, <1>7, <1>10, <1>11, <1>12, <1>13, <1>14, <2>1, <2>2, ClientWritesKeeps
<1>15. CASE name # "EncryptionResponse"
    <2>1. UNCHANGED <<end, clientAt>>
        BY <1>5, <1>15
    <2>2. ClientEnd'
        BY <1>2, <2>1 DEF SInv, ClientEnd
    <2>. QED  BY <1>1, <1>2, <1>10, <1>11, <1>12, <1>13, <1>15, <2>1, <2>2, ClientWritesKeeps
<1>. QED  BY <1>14, <1>15

\* A packet of the play state, to a server that does not know of that state.
LEMMA PlaysKeeps == ASSUME SInv, Plays PROVE SInv'
<1>. USE DEF Sides
<1>1. plan.version \in AllVersions /\ wrong \in Nat /\ end \in [Sides -> EndType]
    BY DEF SInv, SessionTypes
<1>2. /\ clientAt = "play" /\ wrong' = wrong + 1
      /\ UNCHANGED <<plan, end, serverAt, clientAt, gone, trouble>>
    BY DEF Plays
<1>3. PICK id \in PlayIds : Send("client", Encoded("client", "play", id, "good"))
    BY DEF Plays
<1>4. PICK p : p = Encoded("client", "play", id, "good")
    OBVIOUS
<1>5. /\ p.state = end.client.state /\ p.id = id
      /\ p.enciphered = end.client.enciphers /\ p.framed = end.client.framed
      /\ p \in PacketType
    <2>1. p = [name |-> "play", state |-> end.client.state, id |-> id, data |-> "good",
               enciphered |-> end.client.enciphers, framed |-> end.client.framed]
        BY <1>4 DEF Encoded
    <2>2. /\ end.client.state \in States /\ end.client.enciphers \in BOOLEAN
          /\ end.client.framed \in BOOLEAN
        BY <1>1 DEF EndType
    <2>3. id \in Nat /\ "play" \in ClientNames
        BY <1>3, PlayIdsAssumption DEF ClientNames
    <2>. QED  BY <2>1, <2>2, <2>3 DEF PacketType
<1>6. wire' = [wire EXCEPT !["server"] = Append(@, p)]
    BY <1>3, <1>4 DEF Send, Opposite
<1>7. end.client.state = "play" /\ ~Early
    BY <1>2 DEF SInv, ClientEnd, Early
<1>8. ~IsResponse(p)
    BY <1>5, <1>7 DEF IsResponse
<1>9. wrong' \in Nat /\ wrong' # 0
    BY <1>1, <1>2
<1>10. ClientEnd'
    BY <1>2 DEF SInv, ClientEnd
<1>. QED  BY <1>1, <1>2, <1>5, <1>6, <1>7, <1>8, <1>9, <1>10, ClientWritesKeeps

\* The packet in front comes first in the server's order.
LEMMA FrontComesFirst ==
    ASSUME SessionTypes, InOrder, Buffered("client")
    PROVE  \A r \in Coming("client") :
               \/ r = NextPacket("client").packet
               \/ Turn(NextPacket("client").packet.name) < Turn(r.name)
<1>. USE DEF Sides
<1>1. /\ end["client"].buffer \in Seq(EntryType) /\ end["client"].buffer # <<>>
      /\ Held(end["client"].buffer) \in Seq(PacketType) /\ wire["client"] \in Seq(PacketType)
      /\ Stream("client") \in Seq(PacketType)
    BY StreamShape DEF Buffered
<1>2. /\ Held(end["client"].buffer) # <<>>
      /\ Head(Held(end["client"].buffer)) = Head(end["client"].buffer).packet
    BY <1>1, HeldTail
<1>3. /\ Held(end["client"].buffer) \o wire["client"] # <<>>
      /\ Head(Held(end["client"].buffer) \o wire["client"]) = Head(Held(end["client"].buffer))
    BY <1>1, <1>2, ConcatTail
<1>. DEFINE q == Stream("client")
<1>4. q \in Seq(PacketType) /\ q # <<>> /\ Head(q) = NextPacket("client").packet /\ Sorted(q)
    BY <1>1, <1>2, <1>3 DEF Stream, NextPacket, InOrder
<1>5. Coming("client") = Elements(q)
    BY DEF Coming
<1>. HIDE DEF q
<1>6. Elements(q) = {Head(q)} \union Elements(Tail(q))
    BY <1>4, Shortened
<1>7. \A r \in Elements(Tail(q)) : Turn(Head(q).name) < Turn(r.name)
    BY <1>4, SortedTail
<1>. QED  BY <1>4, <1>5, <1>6, <1>7

\* Only a kick is lost on a client that is there.
LEMMA LegibleToClient ==
    ASSUME SInv, Buffered("client"), ~gone, NextPacket("client").packet.name # "Disconnect"
    PROVE  Legible("client")
<1>. DEFINE p == NextPacket("client").packet
<1>. USE DEF Sides
<1>1. /\ NextPacket("client") \in HeldBy("client") /\ NextPacket("client") \in EntryType
      /\ p \in Coming("client") /\ p \in PacketType
    BY FrontOf DEF SInv
<1>2. /\ end.client.framed \in BOOLEAN /\ NextPacket("client").deciphered \in BOOLEAN
      /\ p.enciphered \in BOOLEAN /\ p.framed \in BOOLEAN
    BY <1>1 DEF SInv, SessionTypes, EndType, EntryType, PacketType
<1>3. NextPacket("client").deciphered = p.enciphered
    BY <1>1, <1>2 DEF SInv, ToClient
<1>4. \A r \in Coming("client") : r = p \/ Turn(p.name) < Turn(r.name)
    BY FrontComesFirst DEF SInv, ToClient
<1>5. FromServer(p)
    BY <1>1 DEF SInv, ToClient
<1>. HIDE DEF p
<1>6. CASE p.name \in FramedNames
    <2>1. p.framed /\ end.server.framed
        BY <1>5, <1>6 DEF FromServer
    <2>2. ASSUME ~end.client.framed PROVE FALSE
        <3>1. PICK r \in Coming("client") : r.name = "SetCompression"
            BY <2>1, <2>2 DEF SInv, FramePending
        <3>2. r # p
            BY <1>6, <3>1 DEF FramedNames
        <3>3. Turn(p.name) < Turn(r.name)
            BY <1>4, <3>2
        <3>. QED  BY <1>6, <3>1, <3>3 DEF Turn, FramedNames
    <2>3. end.client.framed = p.framed
        BY <1>2, <2>1, <2>2
    <2>. QED  BY <1>3, <2>3 DEF Legible, p
<1>7. CASE p.name \notin FramedNames
    <2>1. p.name \in {"StatusResponse", "Pong", "EncryptionRequest", "SetCompression"}
        BY <1>5, <1>7 DEF FromServer, ServerId, ServerNames, FramedNames, p
    <2>2. ~p.framed /\ ~end.client.framed
        BY <1>5, <2>1 DEF FromServer, StatusNames, SInv, ClientEnd, EndsMeet
    <2>3. end.client.framed = p.framed
        BY <1>2, <2>2
    <2>. QED  BY <1>3, <2>3 DEF Legible, p
<1>. QED  BY <1>6, <1>7

\* What a client does with a packet, by the packet's name and the client's state.
LEMMA ClientReadsTo ==
    ASSUME SInv, ClientReads, Legible("client"), NEW p, p = NextPacket("client").packet
    PROVE  /\ p \in Coming("client") /\ FromServer(p) /\ end.client.framed = p.framed
           /\ clientAt = end.client.state
           /\ \/ clientAt' = clientAt
              \/ clientAt' \in {"done", "failed"}
              \/ clientAt' = "ping" /\ end.client.state = "status"
              \/ /\ clientAt' = "respond" /\ end.client.state = "login"
                 /\ p.name = "EncryptionRequest"
              \/ clientAt' = "acknowledge" /\ end.client.state = "login" /\ p.framed
              \/ /\ clientAt' = "click" /\ end.client.state = "config"
                 /\ plan.version \in DialogVersions
           /\ Seen("client") = "SetCompression" =>
                  p.name = "SetCompression" /\ end.client.state = "login" /\ clientAt' = clientAt
           /\ p.name = "SetCompression" =>
                  Seen("client") = "SetCompression" \/ clientAt' = "failed"
<1>. USE DEF Sides
<1>1. /\ clientAt \in {"status", "login", "config", "play"} /\ Buffered("client") /\ ~gone
      /\ clientAt' = Reaction(Seen("client"))
    BY DEF ClientReads, ClientChanged
<1>2. p \in Coming("client") /\ p \in PacketType
    BY <1>1, FrontOf DEF SInv
<1>3. FromServer(p) /\ p.id \in Nat /\ plan.version \in AllVersions
    BY <1>2 DEF SInv, ToClient, PacketType, SessionTypes
<1>4. end.client.framed = p.framed
    BY DEF Legible
<1>5. end.client.state = clientAt
    BY <1>1 DEF SInv, ClientEnd
<1>6. end.client.state # "play" =>
          Seen("client") = Name(plan.version, end.client.state, "clientbound", p.id)
    BY DEF Seen, VersionOf, BoundTo
<1>7. CASE clientAt = "status"
    <2>1. Seen("client") \in {"StatusResponse", "Pong", "unknown"}
        BY <1>3, <1>5, <1>6, <1>7, ClientNamesOf
    <2>2. p.name # "SetCompression"
        BY <1>3, <1>5, <1>7 DEF FromServer, StatusNames
    <2>. QED  BY <1>1, <1>2, <1>3, <1>4, <1>5, <1>7, <2>1, <2>2 DEF Reaction
<1>8. CASE clientAt = "login"
    <2>1. /\ Seen("client") = "EncryptionRequest" <=> p.id = 1
          /\ Seen("client") = "LoginSuccess" <=> p.id = 2
          /\ Seen("client") = "SetCompression" => p.id = 3
          /\ p.id = 3 => Seen("client") \in {"SetCompression", "unknown"}
          /\ Seen("client") \notin {"StatusResponse", "ShowDialog"}
        BY <1>3, <1>5, <1>6, <1>8, ClientNamesOf
    <2>2. /\ p.id = 1 => p.name = "EncryptionRequest"
          /\ p.id = 2 => p.framed
          /\ p.id = 3 <=> p.name = "SetCompression"
        BY <1>3, <1>5, <1>8 DEF FromServer, ServerId, ServerNames, StatusNames, FramedNames
    <2>3. \/ clientAt' = clientAt
          \/ clientAt' \in {"done", "failed"}
          \/ clientAt' = "respond" /\ Seen("client") = "EncryptionRequest"
          \/ clientAt' = "acknowledge" /\ Seen("client") = "LoginSuccess"
        BY <1>1, <2>1 DEF Reaction
    <2>4. /\ Seen("client") = "SetCompression" => clientAt' = clientAt
          /\ Seen("client") = "unknown" => clientAt' = "failed"
        BY <1>1 DEF Reaction
    <2>. QED  BY <1>2, <1>3, <1>4, <1>5, <1>8, <2>1, <2>2, <2>3, <2>4
<1>9. CASE clientAt = "config"
    <2>1. /\ Seen("client") \notin
                 {"StatusResponse", "EncryptionRequest", "SetCompression", "LoginSuccess"}
          /\ Seen("client") = "ShowDialog" => plan.version \in DialogVersions
        BY <1>3, <1>5, <1>6, <1>9, ClientNamesOf
    <2>2. p.name # "SetCompression"
        BY <1>3, <1>5, <1>9 DEF FromServer, SInv, ClientEnd
    <2>. QED  BY <1>1, <1>2, <1>3, <1>4, <1>5, <1>9, <2>1, <2>2 DEF Reaction
<1>10. CASE clientAt = "play"
    <2>1. Seen("client") \in {"play", "unknown"}
        BY <1>5, <1>10 DEF Seen
    <2>2. p.name # "SetCompression"
        BY <1>3, <1>5, <1>10 DEF FromServer, SInv, ClientEnd
    <2>. QED  BY <1>1, <1>2, <1>3, <1>4, <1>5, <1>10, <2>1, <2>2 DEF Reaction
<1>. QED  BY <1>1, <1>7, <1>8, <1>9, <1>10

\* The client fails on a packet it cannot read: that is a kick.
LEMMA ClientGarbledKeeps ==
    ASSUME SInv, ClientReads, ~Legible("client")
    PROVE  SInv'
<1>. USE DEF Sides
<1>1. /\ UNCHANGED <<plan, wire, serverAt, wrong>> /\ gone' = TRUE /\ clientAt' = "failed"
      /\ end' = end /\ clientAt # "handshake"
      /\ trouble' = trouble \union {<<"client", "garbled", NextPacket("client").packet.name>>}
    BY DEF ClientReads, ClientChanged, SInv, SessionTypes
<1>2. NextPacket("client").packet.name = "Disconnect"
    BY LegibleToClient DEF ClientReads
<1>3. /\ Coming("client")' = Coming("client") /\ HeldBy("client")' = HeldBy("client")
      /\ InOrder' = InOrder
    BY <1>1, Kept
<1>4. /\ Coming("server")' = Coming("server") /\ HeldBy("server")' = HeldBy("server")
      /\ ResponseLast' = ResponseLast
    BY <1>1, Kept
<1>5. SessionTypes'
    BY <1>1 DEF SInv, SessionTypes
<1>6. (ServerEnd /\ ClientEnd /\ EndsMeet)'
    BY <1>1 DEF SInv, ServerEnd, ClientEnd, EndsMeet
<1>7. (ToClient /\ FramePending)'
    BY <1>1, <1>3 DEF SInv, ToClient, FramePending, FromServer
<1>8. ToServer'
    BY <1>1, <1>4 DEF SInv, ToServer, FromClient
<1>9. Patience'
    BY <1>1, <1>4 DEF SInv, Patience, Patient, FromPatient
<1>10. (PatientClientsAreRead /\ OnlyKicksAreLost)'
    BY <1>1, <1>2 DEF SInv, PatientClientsAreRead, OnlyKicksAreLost
<1>. QED  BY <1>5, <1>6, <1>7, <1>8, <1>9, <1>10 DEF SInv

\* The client takes a packet and does what it asks for.
LEMMA ClientReadsKeeps == ASSUME SInv, ClientReads PROVE SInv'
<1>. USE DEF Sides
<1>1. CASE ~Legible("client")
    BY <1>1, ClientGarbledKeeps
<1>2. CASE Legible("client")
    <2>1. PICK p : p = NextPacket("client").packet
        OBVIOUS
    <2>2. /\ p \in Coming("client") /\ FromServer(p) /\ end.client.framed = p.framed
          /\ clientAt = end.client.state
          /\ \/ clientAt' = clientAt
             \/ clientAt' \in {"done", "failed"}
             \/ clientAt' = "ping" /\ end.client.state = "status"
             \/ /\ clientAt' = "respond" /\ end.client.state = "login"
                /\ p.name = "EncryptionRequest"
             \/ clientAt' = "acknowledge" /\ end.client.state = "login" /\ p.framed
             \/ /\ clientAt' = "click" /\ end.client.state = "config"
                /\ plan.version \in DialogVersions
          /\ Seen("client") = "SetCompression" =>
                 p.name = "SetCompression" /\ end.client.state = "login" /\ clientAt' = clientAt
          /\ p.name = "SetCompression" =>
                 Seen("client") = "SetCompression" \/ clientAt' = "failed"
        BY <1>2, <2>1, ClientReadsTo
    <2>3. /\ Buffered("client") /\ ~gone /\ UNCHANGED <<plan, wire, serverAt, wrong>>
          /\ clientAt \in {"status", "login", "config", "play"}
          /\ gone' = (clientAt' \in {"done", "failed"})
          /\ trouble' \in {trouble, trouble \union {<<"client", "mistaken">>}}
          /\ end' = [end EXCEPT !.client =
                        IF Seen("client") = "SetCompression"
                        THEN WithThreshold(PacketTaken("client")) ELSE PacketTaken("client")]
        BY <1>2 DEF ClientReads, ClientChanged, Noted
    <2>4. PacketTaken("client") = [end.client EXCEPT !.buffer = Tail(@)]
        BY DEF PacketTaken
    <2>5. /\ end'.server = end.server /\ end'.client.buffer = Tail(end.client.buffer)
          /\ end'.client.state = end.client.state
          /\ end'.client.deciphers = end.client.deciphers
          /\ end'.client.enciphers = end.client.enciphers
          /\ end'.client.framed = (end.client.framed \/ Seen("client") = "SetCompression")
        BY <2>3, <2>4 DEF SInv, SessionTypes, EndType, WithThreshold
    <2>6. /\ Coming("client") = {p} \union Coming("client")'
          /\ HeldBy("client")' \subseteq HeldBy("client")
          /\ end'.client.buffer \in Seq(EntryType)
          /\ InOrder' /\ \A r \in Coming("client")' : Turn(p.name) < Turn(r.name)
        <3>1. SessionTypes /\ InOrder /\ end'["client"].buffer = Tail(end["client"].buffer)
            BY <2>5 DEF SInv, ToClient
        <3>2. /\ Coming("client") = {NextPacket("client").packet} \union Coming("client")'
              /\ HeldBy("client")' \subseteq HeldBy("client")
              /\ end'["client"].buffer \in Seq(EntryType)
              /\ InOrder => InOrder' /\ \A r \in Coming("client")' :
                                Turn(NextPacket("client").packet.name) < Turn(r.name)
            BY <2>3, <3>1, TakenBy
        <3>. QED  BY <2>1, <3>1, <3>2
    <2>7. /\ Coming("server")' = Coming("server") /\ HeldBy("server")' = HeldBy("server")
          /\ ResponseLast' = ResponseLast
        BY <2>3, <2>5, Kept
    <2>8. SessionTypes'
        <3>1. end'.client \in EndType
            BY <2>3, <2>4, <2>6 DEF SInv, SessionTypes, EndType, WithThreshold
        <3>2. end' \in [Sides -> EndType]
            BY <2>3, <3>1 DEF SInv, SessionTypes
        <3>. QED  BY <2>3, <3>2 DEF SInv, SessionTypes
    <2>9. ServerEnd'
        BY <2>3, <2>5 DEF SInv, ServerEnd
    <2>10. Seen("client") = "SetCompression" =>
               end.client.enciphers /\ end.server.framed /\ end.client.state = "login"
        BY <2>2 DEF FromServer, SInv, EndsMeet
    <2>11. clientAt' = "respond" =>
               /\ serverAt \notin {"login_start", "encryption_request"}
               /\ \A r \in Coming("client")' : r.name # "EncryptionRequest"
        <3>. SUFFICES ASSUME clientAt' = "respond"
                      PROVE  /\ serverAt \notin {"login_start", "encryption_request"}
                             /\ \A r \in Coming("client")' : r.name # "EncryptionRequest"
            OBVIOUS
        <3>1. p.name = "EncryptionRequest"
            BY <2>2, <2>3
        <3>2. Turn(p.name) = 1 /\ Turn("EncryptionRequest") = 1
            BY <3>1 DEF Turn
        <3>3. serverAt \notin {"login_start", "encryption_request"}
            BY <2>2, <3>2 DEF FromServer, ServerTurn
        <3>4. \A r \in Coming("client")' : r.name # "EncryptionRequest"
            BY <2>6, <3>2
        <3>. QED  BY <3>3, <3>4
    <2>12. clientAt' = "respond" => ~end.client.enciphers
        BY <2>2, <2>3 DEF FromServer
    <2>13. ClientEnd'
        BY <2>2, <2>3, <2>5, <2>10, <2>12 DEF SInv, ClientEnd, EndsMeet
    <2>14. EndsMeet'
        BY <2>2, <2>3, <2>5, <2>10, <2>11 DEF SInv, ClientEnd, EndsMeet
    <2>15. ToClient'
        <3>1. ASSUME NEW r \in Coming("client")' PROVE FromServer(r)'
            <4>1. FromServer(r)
                BY <2>6 DEF SInv, ToClient
            <4>2. Seen("client") = "SetCompression" => r.name # "SetCompression"
                <5>1. Turn("SetCompression") = 2 /\ Turn(p.name) < Turn(r.name)
                    BY <2>6 DEF Turn
                <5>. QED  BY <2>2, <5>1
            <4>. QED  BY <2>3, <2>5, <2>11, <4>1, <4>2 DEF FromServer
        <3>. QED  BY <2>6, <3>1 DEF SInv, ToClient
    <2>16. FramePending'
        BY <2>2, <2>3, <2>5, <2>6 DEF SInv, FramePending
    <2>17. ToServer'
        BY <2>3, <2>5, <2>7 DEF SInv, ToServer, FromClient
    <2>18. Patience'
        BY <2>3, <2>5, <2>7 DEF SInv, Patience, Patient, FromPatient
    <2>19. (PatientClientsAreRead /\ OnlyKicksAreLost)'
        BY <2>3 DEF SInv, PatientClientsAreRead, OnlyKicksAreLost
    <2>. QED  BY <2>8, <2>9, <2>13, <2>14, <2>15, <2>16, <2>17, <2>18, <2>19 DEF SInv
<1>. QED  BY <1>1, <1>2

-----------------------------------------------------------------------------
(* Around the session. *)

\* Nothing of the session changes.
LEMMA SessionStutters == ASSUME SInv, UNCHANGED sessionVars PROVE SInv'
<1>. USE DEF Sides, sessionVars
<1>1. /\ Coming("client")' = Coming("client") /\ HeldBy("client")' = HeldBy("client")
      /\ InOrder' = InOrder
    BY Kept
<1>2. /\ Coming("server")' = Coming("server") /\ HeldBy("server")' = HeldBy("server")
      /\ ResponseLast' = ResponseLast
    BY Kept
<1>3. SessionTypes'
    BY DEF SInv, SessionTypes
<1>4. (ServerEnd /\ ClientEnd /\ EndsMeet)'
    BY DEF SInv, ServerEnd, ClientEnd, EndsMeet
<1>5. (ToClient /\ FramePending)'
    BY <1>1 DEF SInv, ToClient, FramePending, FromServer
<1>6. (ToServer /\ Patience)'
    BY <1>2 DEF SInv, ToServer, FromClient, Patience, Patient, FromPatient
<1>7. (PatientClientsAreRead /\ OnlyKicksAreLost)'
    BY DEF SInv, PatientClientsAreRead, OnlyKicksAreLost
<1>. QED  BY <1>3, <1>4, <1>5, <1>6, <1>7 DEF SInv

\* The answer to a legacy ping is on its way, the session is not begun.
LEMMA LegacyKeeps ==
    ASSUME SInv, serverAt = "handshake", serverAt' = "legacy_read",
           UNCHANGED <<plan, end, wire, clientAt, gone, wrong, trouble>>
    PROVE  SInv'
<1>. USE DEF Sides
<1>1. /\ Coming("client")' = Coming("client") /\ HeldBy("client")' = HeldBy("client")
      /\ InOrder' = InOrder
    BY Kept
<1>2. /\ Coming("server")' = Coming("server") /\ HeldBy("server")' = HeldBy("server")
      /\ ResponseLast' = ResponseLast
    BY Kept
<1>3. SessionTypes'
    BY DEF SInv, SessionTypes
<1>4. (ServerEnd /\ ClientEnd /\ EndsMeet)'
    BY DEF SInv, ServerEnd, ClientEnd, EndsMeet, OutsidePlaces, StatusPlaces, PlainPlaces,
       LoginPlaces, ConfigPlaces, FramedPlaces
<1>5. (ToClient /\ FramePending)'
    BY <1>1 DEF SInv, ToClient, FramePending, FromServer, ServerTurn, OutsidePlaces
<1>6. (ToServer /\ Patience)'
    BY <1>2 DEF SInv, ToServer, FromClient, Patience, Patient, FromPatient
<1>7. (PatientClientsAreRead /\ OnlyKicksAreLost)'
    BY DEF SInv, PatientClientsAreRead, OnlyKicksAreLost
<1>. QED  BY <1>3, <1>4, <1>5, <1>6, <1>7 DEF SInv

\* Nothing is in a session's streams before it begins.
LEMMA NothingBefore ==
    ASSUME SInv, serverAt \in OutsidePlaces
    PROVE  wire = [side \in Sides |-> <<>>]
<1>. USE DEF Sides
<1>1. end.client.state = "handshake"
    BY DEF SInv, EndsMeet, ClientEnd
<1>2. \A p \in Coming("server") : FALSE
    BY <1>1 DEF SInv, ToServer, FromClient
<1>3. \A p \in Coming("client") : FALSE
    <2>1. \A name : ~(Turn(name) < 1)
        BY DEF Turn
    <2>2. ServerTurn(serverAt) = 1
        BY DEF ServerTurn, OutsidePlaces
    <2>. QED  BY <2>1, <2>2 DEF SInv, ToClient, FromServer
<1>4. ASSUME NEW side \in Sides PROVE wire[side] = <<>>
    <2>1. /\ wire[side] \in Seq(PacketType)
          /\ \A i \in 1..Len(wire[side]) : wire[side][i] \in Coming(side)
        BY StreamShape DEF SInv, Coming
    <2>2. \A i \in 1..Len(wire[side]) : FALSE
        BY <1>2, <1>3, <2>1
    <2>3. wire[side] # <<>> => Len(wire[side]) \in Nat /\ Len(wire[side]) >= 1
        BY <2>1, Shortened
    <2>. QED  BY <2>2, <2>3
<1>. QED  BY <1>4 DEF SInv, SessionTypes

\* With nothing buffered and nothing on its way, nothing is to be read.
LEMMA EmptyStream ==
    /\ Held(<<>>) \o <<>> = <<>> /\ Elements(<<>>) = {}
    /\ Sorted(<<>>) /\ ResponseIsLast(<<>>)
<1>1. <<>> \in Seq(EntryType) /\ <<>> \in Seq(PacketType) /\ Len(<<>>) = 0
    BY EmptySeq
<1>2. Held(<<>>) \in Seq(PacketType) /\ Len(Held(<<>>)) = 0
    BY <1>1, HeldShape
<1>3. Held(<<>>) = <<>>
    BY <1>2, EmptySeq
<1>4. <<>> \o <<>> = <<>>
    BY <1>1, ConcatEmptySeq
<1>5. 1..0 = {}
    OBVIOUS
<1>. QED  BY <1>1, <1>3, <1>4, <1>5 DEF Elements, Sorted, ResponseIsLast

\* So it is now ...
LEMMA NothingToRead ==
    ASSUME NEW side \in Sides, end[side].buffer = <<>>, wire[side] = <<>>
    PROVE  /\ Coming(side) = {} /\ HeldBy(side) = {}
           /\ side = "client" => InOrder
           /\ side = "server" => ResponseLast
<1>1. Stream(side) = <<>>
    BY EmptyStream DEF Stream
<1>. QED  BY <1>1, EmptyStream DEF Coming, HeldBy, InOrder, ResponseLast

\* ... and after a step.
LEMMA NothingNext ==
    ASSUME NEW side \in Sides, end'[side].buffer = <<>>, wire'[side] = <<>>
    PROVE  /\ Coming(side)' = {} /\ HeldBy(side)' = {}
           /\ side = "client" => InOrder'
           /\ side = "server" => ResponseLast'
<1>1. Stream(side)' = <<>>
    BY EmptyStream DEF Stream, Held
<1>2. Coming(side)' = Elements(<<>>)
    BY <1>1 DEF Coming, Elements
<1>3. HeldBy(side)' = Elements(<<>>)
    BY DEF HeldBy, Elements
<1>4. side = "client" => (InOrder' <=> Sorted(<<>>))
    BY <1>1 DEF InOrder, Sorted
<1>5. side = "server" => (ResponseLast' <=> ResponseIsLast(<<>>))
    BY <1>1 DEF ResponseLast, ResponseIsLast
<1>. QED  BY <1>2, <1>3, <1>4, <1>5, EmptyStream

\* The session begins, at both ends.
LEMMA BeginKeeps ==
    ASSUME SInv, serverAt = "handshake", SessionBegin
    PROVE  SInv'
<1>. USE DEF Sides
<1>1. PICK v \in ClientVersions, i \in 1..3, honest \in BOOLEAN :
          plan' = [version |-> v, intent |-> i, honest |-> honest]
    BY DEF SessionBegin
<1>2. plan'.version \in AllVersions
    BY <1>1, ClientVersionsAssumption
<1>3. PICK state \in {"status", "login"} :
          /\ end' = [side \in Sides |-> NewEnd(state)]
          /\ state = "status" => serverAt' = "status_request" /\ clientAt' = "request"
          /\ state = "login" => serverAt' = "login_start" /\ clientAt' = "start"
    <2>1. CASE plan'.intent = 1
        BY <2>1 DEF SessionBegin
    <2>2. CASE plan'.intent # 1
        BY <2>2 DEF SessionBegin
    <2>. QED  BY <2>1, <2>2
<1>4. UNCHANGED <<wire, wrong, trouble>>
    BY DEF SessionBegin
<1>5. /\ wire'.client = <<>> /\ wire'.server = <<>>
      /\ end'.client.buffer = <<>> /\ end'.server.buffer = <<>>
      /\ end'.client.state = state /\ end'.server.state = state
      /\ ~end'.client.enciphers /\ ~end'.client.deciphers /\ ~end'.client.framed
      /\ ~end'.server.enciphers /\ ~end'.server.deciphers /\ ~end'.server.framed
    BY <1>3, <1>4, NothingBefore DEF NewEnd, OutsidePlaces
<1>6. /\ Coming("client")' = {} /\ HeldBy("client")' = {} /\ InOrder'
      /\ Coming("server")' = {} /\ HeldBy("server")' = {} /\ ResponseLast'
    BY <1>5, NothingNext
<1>7. SessionTypes'
    <2>1. <<>> \in Seq(EntryType)
        BY EmptySeq
    <2>2. NewEnd(state) \in EndType
        BY <2>1 DEF NewEnd, EndType, States
    <2>. QED  BY <1>2, <1>3, <1>4, <2>2 DEF SInv, SessionTypes
<1>8. (ServerEnd /\ ClientEnd)'
    BY <1>3, <1>5 DEF ServerEnd, ClientEnd, OutsidePlaces, StatusPlaces, PlainPlaces,
       LoginPlaces, ConfigPlaces, FramedPlaces
<1>9. EndsMeet'
    BY <1>3, <1>5 DEF EndsMeet, OutsidePlaces, StatusPlaces
<1>10. (ToClient /\ FramePending)'
    BY <1>5, <1>6 DEF ToClient, FramePending
<1>11. (ToServer /\ Patience)'
    BY <1>3, <1>5, <1>6 DEF ToServer, Patience
<1>12. (PatientClientsAreRead /\ OnlyKicksAreLost)'
    BY <1>4 DEF SInv, PatientClientsAreRead, OnlyKicksAreLost
<1>. QED  BY <1>7, <1>8, <1>9, <1>10, <1>11, <1>12 DEF SInv

\* Before the session, no end has switched anything and nothing was written.
LEMMA IdleHolds == SessionIdle => SInv
<1>. SUFFICES ASSUME SessionIdle PROVE SInv
    OBVIOUS
<1>. USE DEF Sides
<1>1. /\ end = [side \in Sides |-> NewEnd("handshake")] /\ wire = [side \in Sides |-> <<>>]
      /\ serverAt = "handshake" /\ clientAt = "handshake" /\ gone = FALSE
      /\ wrong = 0 /\ trouble = {} /\ plan.version = ServerVersion
    BY DEF SessionIdle
<1>2. /\ wire.client = <<>> /\ wire.server = <<>>
      /\ end.client.buffer = <<>> /\ end.server.buffer = <<>>
      /\ end.client.state = "handshake" /\ end.server.state = "handshake"
      /\ ~end.client.enciphers /\ ~end.client.deciphers /\ ~end.client.framed
      /\ ~end.server.enciphers /\ ~end.server.deciphers /\ ~end.server.framed
    BY <1>1 DEF NewEnd
<1>3. /\ Coming("client") = {} /\ HeldBy("client") = {} /\ InOrder
      /\ Coming("server") = {} /\ HeldBy("server") = {} /\ ResponseLast
    BY <1>2, NothingToRead
<1>4. SessionTypes
    <2>1. <<>> \in Seq(EntryType) /\ <<>> \in Seq(PacketType)
        BY EmptySeq
    <2>2. NewEnd("handshake") \in EndType
        BY <2>1 DEF NewEnd, EndType, States
    <2>. QED  BY <1>1, <2>1, <2>2, ServerTables DEF SessionTypes
<1>5. ServerEnd /\ ClientEnd
    BY <1>1, <1>2 DEF ServerEnd, ClientEnd, OutsidePlaces, StatusPlaces, PlainPlaces,
       LoginPlaces, ConfigPlaces, FramedPlaces
<1>6. EndsMeet
    BY <1>1, <1>2 DEF EndsMeet, OutsidePlaces, StatusPlaces
<1>7. ToClient /\ FramePending
    BY <1>2, <1>3 DEF ToClient, FramePending
<1>8. ToServer /\ Patience
    BY <1>1, <1>2, <1>3 DEF ToServer, Patience
<1>9. PatientClientsAreRead /\ OnlyKicksAreLost
    BY <1>1 DEF PatientClientsAreRead, OnlyKicksAreLost
<1>. QED  BY <1>4, <1>5, <1>6, <1>7, <1>8, <1>9 DEF SInv

\* Every step of the session.
LEMMA SessionStepKeeps == ASSUME SInv, SessionStep PROVE SInv'
<1>. USE DEF Sides
<1>1. CASE ServerStep
    BY <1>1, ServerWritesKeeps, ServerEnciphersKeeps, ServerReadsKeeps, ServerStopsKeeps,
       FillKeeps DEF ServerStep
<1>2. CASE ClientStep
    BY <1>2, ClientSendsKeeps, ClientReadsKeeps, ClientEofKeeps, FillKeeps DEF ClientStep
<1>3. CASE OutOfTurn \/ Plays \/ Leaves
    BY <1>3, OutOfTurnKeeps, PlaysKeeps, LeavesKeeps
<1>. QED  BY <1>1, <1>2, <1>3 DEF SessionStep

\* Every step of the server.
LEMMA ServerStepKeeps == SInv /\ [ServerNext]_serverVars => SInv'
<1>. SUFFICES ASSUME SInv, [ServerNext]_serverVars PROVE SInv'
    OBVIOUS
<1>1. CASE DetectVersion \/ Network(Arrive) \/ Network(Close) \/ UNCHANGED serverVars
    <2>1. UNCHANGED sessionVars
        BY <1>1 DEF DetectVersion, Network, serverVars
    <2>. QED  BY <2>1, SessionStutters
<1>2. CASE HandshakeFails
    BY <1>2, ReturnKeeps DEF HandshakeFails, Return
<1>3. CASE BeginSession
    <2>1. CASE pos = client.packet
        BY <1>3, <2>1, BeginKeeps DEF BeginSession
    <2>2. CASE pos # client.packet
        BY <1>3, <2>2, ReturnKeeps DEF BeginSession, Return
    <2>. QED  BY <2>1, <2>2
<1>4. CASE AnswerPing
    <2>1. CASE serverAt' = "legacy_read"
        BY <1>4, <2>1, LegacyKeeps DEF AnswerPing
    <2>2. CASE serverAt' = "returned"
        BY <1>4, <2>2, ReturnKeeps DEF AnswerPing
    <2>. QED  BY <1>4, <2>1, <2>2 DEF AnswerPing, Return
<1>5. CASE LegacyRead
    BY <1>5, ReturnKeeps DEF LegacyRead, Return
<1>6. CASE PlaySession(SessionStep)
    BY <1>6, SessionStepKeeps DEF PlaySession
<1>. QED  BY <1>1, <1>2, <1>3, <1>4, <1>5, <1>6 DEF ServerNext

-----------------------------------------------------------------------------
(* The answer to a legacy ping. *)

\* A response has been checked by its constructor for the version it is in, the
\* version is settled once the server has left the handshake, and no read behind
\* a response has succeeded.
Legacy == pc = "ok" /\ version \in {"Legacy1_6", "Pre1_6", "Pre1_3"}
PInv == /\ serverAt = "handshake" => response = NoResponse
        /\ serverAt = "legacy_read" => Legacy
        /\ response # NoResponse => Legacy /\ AcceptedBy(version, response)
        /\ outcome # "panic"

\* What fits an i16 is its own length, and the constructor's sum is what the
\* writer writes: the response its version takes.
LEMMA ResponseShape ==
    ASSUME NEW v \in {"Legacy1_6", "Pre1_6", "Pre1_3"}, NEW t \in Texts,
           ResponseTo(v, t) # NoResponse
    PROVE  AcceptedBy(v, ResponseTo(v, t))
<1>1. t.version \in Nat /\ t.motd \in Nat /\ t.online \in Nat /\ t.max \in Nat
    BY TextsAssumption
<1>2. ASSUME NEW n \in Nat, n <= I16Max PROVE AsI16(n) = n
    BY <1>2 DEF AsI16, I16Max
<1>3. Length1_3(t) \in Nat /\ Length1_3(t) = Written1_3(t)
    BY <1>1 DEF Length1_3, Written1_3
<1>4. Length1_6(t) \in Nat /\ Length1_6(t) = Written1_6(t)
    BY <1>1 DEF Length1_6, Written1_6
<1>5. CASE v = "Pre1_3"
    <2>1. Length1_3(t) <= 256 /\ ResponseTo(v, t) = Response(Length1_3(t), Written1_3(t))
        BY <1>5 DEF ResponseTo, Fits1_3
    <2>2. AsI16(Length1_3(t)) = Length1_3(t)
        BY <2>1, <1>2, <1>3 DEF I16Max
    <2>. QED  BY <2>1, <2>2, <1>3 DEF Response, AcceptedBy
<1>6. CASE v # "Pre1_3"
    <2>1. Length1_6(t) <= I16Max /\ ResponseTo(v, t) = Response(Length1_6(t), Written1_6(t))
        BY <1>6 DEF ResponseTo, Fits1_6
    <2>2. AsI16(Length1_6(t)) = Length1_6(t)
        BY <2>1, <1>2, <1>4
    <2>. QED  BY <2>1, <2>2, <1>4, <1>6 DEF Response, AcceptedBy
<1>. QED  BY <1>5, <1>6

\* The session never comes back to the handshake, and does not panic.
LEMMA SessionLeaves ==
    ASSUME SessionStep, serverAt \notin OutsidePlaces, outcome # "panic"
    PROVE  serverAt' \notin OutsidePlaces /\ outcome' # "panic"
<1>. USE DEF OutsidePlaces
<1>1. CASE ServerWrites
    BY <1>1 DEF ServerWrites, WritesOf, Return
<1>2. CASE ServerEnciphers
    BY <1>2 DEF ServerEnciphers
<1>3. CASE ServerReads
    BY <1>3 DEF ServerReads, ServerTakes, Awaited, After, Otherwise, Return
<1>4. CASE ServerGarbled \/ ServerEof
    BY <1>4 DEF ServerGarbled, ServerEof, Return
<1>5. CASE UNCHANGED <<serverAt, outcome>>
    BY <1>5
<1>6. CASE ClientStep \/ OutOfTurn \/ Plays \/ Leaves
    BY <1>5, <1>6 DEF ClientStep, ClientSends, ClientSent, ClientChanged, ClientReads, ClientEof,
       FillBuffer, OutOfTurn, Plays, Leaves
<1>7. CASE FillBuffer("server")
    BY <1>5, <1>7 DEF FillBuffer
<1>. QED  BY <1>1, <1>2, <1>3, <1>4, <1>6, <1>7 DEF SessionStep, ServerStep

\* What is left behind a ping, or behind the 0xFE of a modern packet's length, is
\* no handshake: a byte or two of a ping, or a length that is a part of the
\* client's own.
LEMMA NoHandshakeLeft ==
    ASSUME IInv, Legacy, Has(LengthBytes)
    PROVE  ~ReadSucceeds
<1>1. client \in Clients /\ pos \in Nat /\ arrived \in 0..Sent(client) /\ LengthBytes \in 1..3
    BY DEF IInv, TypeOK, LengthBytes
<1>2. arrived >= pos + LengthBytes
    BY DEF Has
<1>3. pos = BoundAt + Bound
    <2>1. left = 0 /\ pos + left = BoundAt + Bound
        BY DEF IInv, AtBound, Bounded, Legacy
    <2>. QED  BY <1>1, <2>1
<1>4. CASE client.kind = "Standard"
    <2>1. /\ client.data \in Nat /\ client.channel = "none"
          /\ Len(client.head) = Size(client.data) /\ Len(client.head) \in 1..5
          /\ \A k \in 1..Len(client.head) :
                 client.head[k] = Group(client.data, k) + IF k < Len(client.head) THEN 128 ELSE 0
        BY <1>1, <1>4, ModernShape
    <2>2. Ambiguous /\ client.head[1] = 254 /\ (pos = 1 \/ pos = 2)
        BY <1>3, <1>4, <2>1 DEF IInv, Found, Plain, Ambiguous, BoundAt, Bound, Legacy
    <2>3. PICK n, L : n = client.data /\ L = Len(client.head)
        OBVIOUS
    <2>4. n \in Nat /\ L \in 2..5 /\ Group(n, 1) = 126
        <3>1. n \in Nat /\ L \in 1..5
            BY <2>1, <2>3
        <3>2. Group(n, 1) \in 0..127
            BY <3>1, GroupShape
        <3>3. 254 = Group(n, 1) + IF 1 < L THEN 128 ELSE 0
            BY <2>1, <2>2, <2>3, <3>1
        <3>. QED  BY <3>1, <3>2, <3>3
    <2>5. ASSUME NEW k \in 1..3
          PROVE  /\ pos + k <= L =>
                        Digit(k) = Group(n, pos + k) /\ (Continues(k) <=> pos + k < L)
                 /\ pos + k > L => Digit(k) \in {0, 1}
                 /\ pos + k > L + 1 => ~Continues(k)
        <3>1. PingByte(pos + k) = ByteAt(client, pos + k)
            BY <1>4 DEF PingByte
        <3>2. CASE pos + k <= L
            <4>1. pos + k \in 1..Len(client.head)
                BY <2>2, <2>3, <2>4, <3>2
            <4>. QED  BY <1>1, <1>4, <2>3, <3>1, <3>2, <4>1, LengthBytesOf DEF Continues, Digit
        <3>3. CASE pos + k > L
            <4>1. pos + k \in Nat /\ pos + k > Len(client.head)
                BY <1>1, <2>3, <3>3
            <4>2. /\ ByteAt(client, pos + k) \in {0, 1, 128}
                  /\ pos + k > L + 1 => ByteAt(client, pos + k) \in {0, 1}
                BY <1>1, <1>4, <2>3, <4>1, IdBytesOf
            <4>. QED  BY <1>1, <2>4, <3>1, <3>3, <4>2 DEF Continues, Digit
        <3>. QED  BY <1>1, <2>4, <3>2, <3>3
    <2>6. PacketLength \in Nat /\ PacketLength < n
        <3>1. \A k \in 1..5 : Group(n, k) \in 0..127
            BY <2>4, GroupShape
        <3>2. /\ L # 5 => n = Group(n, 1) + 128 * Group(n, 2)
                                + (IF L >= 3 THEN 128 * 128 * Group(n, 3) ELSE 0)
                                + (IF L >= 4 THEN 128 * 128 * 128 * Group(n, 4) ELSE 0)
              /\ L = 5 => n >= 128 * 128 * 128 * 128
              /\ L = 2 => n >= 128
            <4>1. /\ L = 5 \/ n < Weight[L]
                  /\ L = 5 => n >= Weight[4]
                  /\ L = 2 => n >= Weight[1]
                BY <2>1, <2>3, <2>4, SizeShape
            <4>2. CASE L = 2
                BY <2>4, <4>1, <4>2, GroupsSum DEF Weight
            <4>3. CASE L = 3
                BY <2>4, <4>1, <4>3, GroupsSum DEF Weight
            <4>4. CASE L = 4
                BY <2>4, <4>1, <4>4, GroupsSum DEF Weight
            <4>5. CASE L = 5
                BY <4>1, <4>5 DEF Weight
            <4>. QED  BY <2>4, <4>2, <4>3, <4>4, <4>5
        <3>3. Digit(1) \in 0..127 /\ Digit(2) \in 0..127 /\ Digit(3) \in 0..127
            <4>. SUFFICES ASSUME NEW k \in 1..3 PROVE Digit(k) \in 0..127
                OBVIOUS
            <4>1. pos + k <= L => pos + k \in 1..5
                BY <2>2, <2>4
            <4>. QED  BY <1>1, <2>4, <2>5, <3>1, <4>1
        <3>4. CASE L = 5
            <4>1. PICK a, b, c : a = Digit(1) /\ b = Digit(2) /\ c = Digit(3)
                OBVIOUS
            <4>2. PacketLength \in {a, a + 128 * b, a + 128 * b + 128 * 128 * c}
                BY <1>1, <3>3, <4>1 DEF PacketLength
            <4>3. a \in 0..127 /\ b \in 0..127 /\ c \in 0..127
                BY <3>3, <4>1
            <4>4. PacketLength \in Nat /\ PacketLength < 128 * 128 * 128 * 128
                BY <4>2, <4>3
            <4>. QED  BY <2>4, <3>2, <3>4, <4>4
        <3>5. CASE L # 5 /\ pos = 1
            <4>1. /\ Digit(1) = Group(n, 2)
                  /\ LengthBytes >= 2 => L >= 3 /\ Digit(2) = Group(n, 3)
                  /\ LengthBytes >= 3 => L >= 4 /\ Digit(3) = Group(n, 4)
                BY <2>4, <2>5, <3>5 DEF LengthBytes
            <4>2. /\ Group(n, 2) \in Nat /\ Group(n, 3) \in Nat /\ Group(n, 4) \in Nat
                BY <3>1
            <4>. QED  BY <1>1, <2>4, <3>2, <3>5, <4>1, <4>2 DEF PacketLength
        <3>6. CASE L # 5 /\ pos = 2
            <4>1. /\ LengthBytes < 3
                  /\ L >= 3 => Digit(1) = Group(n, 3)
                  /\ L >= 3 /\ LengthBytes = 2 => L = 4 /\ Digit(2) = Group(n, 4)
                  /\ L = 2 => Digit(1) \in {0, 1} /\ Digit(2) \in {0, 1}
                BY <2>4, <2>5, <3>6 DEF LengthBytes
            <4>2. /\ Group(n, 2) \in Nat /\ Group(n, 3) \in Nat /\ Group(n, 4) \in Nat
                BY <3>1
            <4>3. CASE L = 2
                <5>1. PacketLength \in Nat /\ PacketLength <= 129
                    BY <1>1, <4>1, <4>3 DEF PacketLength
                <5>2. n >= 128 /\ n = 126 + 128 * Group(n, 2)
                    BY <2>4, <3>2, <4>2, <4>3
                <5>. QED  BY <2>4, <4>2, <5>1, <5>2
            <4>4. CASE L >= 3
                BY <1>1, <2>4, <3>2, <3>6, <4>1, <4>2, <4>4 DEF PacketLength
            <4>. QED  BY <2>4, <4>3, <4>4
        <3>. QED  BY <2>2, <3>4, <3>5, <3>6
    <2>. QED  BY <1>4, <2>1, <2>3, <2>4, <2>6 DEF ReadSucceeds, HandlerNeeds
<1>5. CASE client.kind # "Standard"
    <2>1. version # "Legacy1_6" /\ (pos = 1 \/ pos = 2)
        <3>1. ASSUME version = "Legacy1_6" PROVE FALSE
            <4>1. client.channel = "good" /\ ~Negative(client.data) /\ value = client.data
                BY <3>1 DEF IInv, Found
            <4>2. Sent(client) = 29 + client.data /\ client.data \in Nat
                BY <1>1, <1>5, <4>1, PingShape DEF Sent
            <4>3. pos = 29 + client.data
                BY <1>3, <3>1, <4>1 DEF BoundAt, Bound
            <4>. QED  BY <1>1, <1>2, <4>2, <4>3
        <3>. QED  BY <1>3, <3>1 DEF Legacy, BoundAt, Bound
    <2>2. Sent(client) = client.packet
        BY <1>1, <1>5, PingShape DEF Sent
    <2>3. CASE client.head = <<254>> /\ client.packet = 1
        BY <1>1, <1>2, <2>1, <2>2, <2>3
    <2>4. ASSUME PingByte(pos + 1) \in {1, 2} PROVE ~ReadSucceeds
        <3>1. ~Continues(1) /\ Digit(1) < 6
            BY <2>4 DEF Continues, Digit
        <3>2. PacketLength \in Nat /\ PacketLength < 6
            BY <2>4, <3>1 DEF PacketLength, LengthBytes, Digit
        <3>. QED  BY <1>5, <3>2 DEF ReadSucceeds, HandlerNeeds
    <2>5. CASE client.head \in {<<254, 1>>, <<254, 2>>} /\ client.packet = 2
        <3>1. pos = 1
            BY <1>1, <1>2, <2>1, <2>2, <2>5
        <3>2. PingByte(pos + 1) \in {1, 2}
            <4>1. Len(client.head) = 2 /\ client.head[2] \in {1, 2}
                BY <2>5
            <4>2. ByteAt(client, 2) = client.head[2]
                BY <4>1 DEF ByteAt
            <4>. QED  BY <3>1, <4>1, <4>2 DEF PingByte
        <3>. QED  BY <2>4, <3>2
    <2>6. CASE pos = 1 /\ client.head \in {<<254, 1, 250>>, <<254, 1, 251>>}
        <3>1. PingByte(pos + 1) \in {1, 2}
            <4>1. Len(client.head) = 3 /\ client.head[2] = 1
                BY <2>6
            <4>2. ByteAt(client, 2) = client.head[2]
                BY <4>1 DEF ByteAt
            <4>. QED  BY <2>6, <4>1, <4>2 DEF PingByte
        <3>. QED  BY <2>4, <3>1
    <2>7. CASE pos = 2 /\ client.kind = "Legacy1_6" /\ client.head = <<254, 1, 250>> /\ client.id = 0
        <3>1. PingByte(3) = 250 /\ PingByte(4) = 0 /\ PingByte(5) = 11
            BY <2>7 DEF PingByte, ByteAt, IdBytes
        <3>2. LengthBytes = 2
            BY <2>7, <3>1 DEF LengthBytes, Continues
        <3>. QED  BY <2>7, <3>1, <3>2 DEF ReadSucceeds, KnownHandshakeId, PacketId
    <2>8. CASE pos = 2 /\ client.kind = "other" /\ client.head = <<254, 1, 251>> /\ client.packet = 3
        <3>1. PingByte(3) = 251
            BY <2>8 DEF PingByte, ByteAt, IdBytes
        <3>2. LengthBytes # 1
            BY <2>8, <3>1 DEF LengthBytes, Continues
        <3>. QED  BY <1>1, <1>2, <2>2, <2>8, <3>2
    <2>9. /\ client.id = 0
          /\ \/ client.head = <<254>> /\ client.packet = 1
             \/ client.head = <<254, 1>> /\ client.packet = 2
             \/ client.head = <<254, 2>> /\ client.packet = 2
             \/ client.kind = "Legacy1_6" /\ client.head = <<254, 1, 250>>
             \/ client.kind = "other" /\ client.head = <<254, 1, 251>> /\ client.packet = 3
        BY <1>1, <1>5, PingShape
    <2>. QED  BY <2>1, <2>3, <2>5, <2>6, <2>7, <2>8, <2>9
<1>. QED  BY <1>4, <1>5

\* No step behind the handshake breaks what is known of the answer.
LEMMA PingStepKeeps == PInv /\ IInv /\ [ServerNext]_serverVars => PInv'
<1>. SUFFICES ASSUME PInv, IInv, [ServerNext]_serverVars PROVE PInv'
    OBVIOUS
<1>. USE DEF PInv
<1>1. CASE DetectVersion
    BY <1>1 DEF DetectVersion, sessionVars
<1>2. CASE Network(Arrive) \/ Network(Close)
    BY <1>2 DEF Network, Arrive, Close, found, sessionVars, Legacy, AcceptedBy
<1>3. CASE HandshakeFails
    BY <1>3 DEF HandshakeFails, Return
<1>4. CASE BeginSession
    BY <1>4 DEF BeginSession, SessionBegin, Return
<1>5. CASE AnswerPing
    <2>1. Legacy /\ UNCHANGED <<pc, version>> /\ outcome' # "panic" /\ serverAt' # "handshake"
        BY <1>5 DEF AnswerPing, Return, vars, found, IInv, TypeOK, AtBound, Bounded, Legacy
    <2>2. response' # NoResponse => AcceptedBy(version, response')
        BY <1>5, <2>1, ResponseShape DEF AnswerPing, Legacy
    <2>. QED  BY <2>1, <2>2 DEF Legacy, AcceptedBy
<1>6. CASE LegacyRead
    BY <1>6, NoHandshakeLeft DEF LegacyRead, Return, Readable, vars, found, Legacy, AcceptedBy
<1>7. CASE PlaySession(SessionStep)
    BY <1>7, SessionLeaves DEF PlaySession, OutsidePlaces, vars, found, Legacy, AcceptedBy
<1>8. CASE UNCHANGED serverVars
    BY <1>8 DEF serverVars, vars, found, sessionVars, Legacy, AcceptedBy
<1>. QED  BY <1>1, <1>2, <1>3, <1>4, <1>5, <1>6, <1>7, <1>8 DEF ServerNext

-----------------------------------------------------------------------------
(* The meaning of a packet. *)

\* A client that keeps to the protocol, of a version with a config state.
HasConfig(v) == Len(Table(v).named.config.serverbound) # 0
ByTheBook == wrong = 0 /\ HasConfig(plan.version)

\* Where the server is when such a client has a packet to send, where it waits
\* after each of its questions, and the id of the packet it waits for.
SendsAt == [request |-> "status_request", ping |-> "status_ping", start |-> "login_start",
            respond |-> "encryption_response", acknowledge |-> "login_acknowledge",
            click |-> "config"]
AnswerAt == [StatusResponse |-> "status_ping", EncryptionRequest |-> "encryption_response",
             LoginSuccess |-> "login_acknowledge", ShowDialog |-> "config"]
AwaitedId == [status_request |-> 0, status_ping |-> 1, login_start |-> 0,
              encryption_response |-> 1, login_acknowledge |-> 3, config |-> 8]
Expected(p) ==
    /\ serverAt \in DOMAIN Awaited
    /\ p.name = Awaited[serverAt] /\ p.id = AwaitedId[serverAt] /\ p.data = "good"
    /\ serverAt = "config" => plan.version \in DialogVersions

\* One packet is under way to the server at most, and it is the one awaited; while
\* the client still has to send it, or to read the question, there is none.
Alone == Len(Stream("server")) <= 1
QuestionOpen(p) ==
    p.name \in DOMAIN AnswerAt =>
        /\ serverAt = AnswerAt[p.name] /\ Coming("server") = {}
        /\ clientAt \notin DOMAIN SendsAt
LockStep ==
    serverAt # "returned" =>
        /\ Alone /\ \A p \in Coming("server") : Expected(p)
        /\ clientAt \in DOMAIN SendsAt => serverAt = SendsAt[clientAt] /\ Coming("server") = {}
        /\ \A p \in Coming("client") : QuestionOpen(p)
        /\ end.client.state = "config" => serverAt \in ConfigPlaces \union {"login_acknowledge"}

\* What is under way to the client is of the state the client is in, and there is
\* no kick.
InItsState(p) ==
    /\ p.name = "LoginSuccess" => end.client.state = "login" /\ clientAt # "acknowledge"
    /\ p.name = "Disconnect" =>
           p.id = 2 /\ end.server.state = "config" /\ plan.version \in DialogVersions
Understandable ==
    /\ end.client.state # "play" /\ serverAt # "kick"
    /\ serverAt \in {"clear_dialog", "goodbye"} => plan.version \in DialogVersions
    /\ \A p \in Coming("client") : InItsState(p)
NotMistaken == \A side \in Sides : <<side, "mistaken">> \notin trouble

MInv == /\ serverAt \in OutsidePlaces => trouble = {}
        /\ ByTheBook => LockStep /\ Understandable /\ NotMistaken

\* A version with a config state acknowledges the login.
LEMMA Acknowledges ==
    ASSUME NEW v \in AllVersions, HasConfig(v)
    PROVE  \E i \in DOMAIN Table(v).named["login"]["serverbound"] :
               Table(v).named["login"]["serverbound"][i][2] = "LoginAcknowledge"
<1>. DEFINE Without == {V4, V5, V47, V107, V108, V109, V110, V210, V315, V316, V335, V338, V340,
                        V401, V404, V498, V578, V753, V754, V755, V756, V757, V758, V759, V760,
                        V761, V762, V763}
            With == {V764, V765, V766, V767, V769, V770, V771, V772, V773, V774}
<1>1. Table(v) \in Without \union With
    BY DEF AllVersions, Tables, Table
<1>2. \A t \in Without : t.named.config = NoConfig
    BY DEF V4, V5, V47, V107, V108, V109, V110, V210, V315, V316, V335, V338, V340, V401, V404,
           V498, V578, V753, V754, V755, V756, V757, V758, V759, V760, V761, V762, V763,
           Version, Both
<1>3. \A t \in With : t.named.login \in {Login764, Login766}
    BY DEF V764, V765, V766, V767, V769, V770, V771, V772, V773, V774, Version, Both
<1>4. Len(NoConfig.serverbound) = 0
    BY DEF NoConfig, Both
<1>. HIDE DEF Without, With
<1>5. Table(v).named.login \in {Login764, Login766}
    BY <1>1, <1>2, <1>3, <1>4 DEF HasConfig
<1>6. /\ 4 \in DOMAIN Login764.serverbound /\ Login764.serverbound[4][2] = "LoginAcknowledge"
      /\ 4 \in DOMAIN Login766.serverbound /\ Login766.serverbound[4][2] = "LoginAcknowledge"
    BY DEF Login764, Login766, Both
<1>. QED  BY <1>5, <1>6

\* The names of the server's config packets, in the versions that know them; the
\* other versions have no such ids.
LEMMA ConfigNamesOf ==
    ASSUME NEW v \in AllVersions
    PROVE  /\ v \in DialogVersions =>
                  /\ Name(v, "config", "clientbound", 2) = "Disconnect"
                  /\ Name(v, "config", "clientbound", 17) = "ClearDialog"
                  /\ Name(v, "config", "clientbound", 18) = "ShowDialog"
           /\ v \notin DialogVersions =>
                  /\ Name(v, "config", "clientbound", 17) = "unknown"
                  /\ Name(v, "config", "clientbound", 18) = "unknown"
<1>. DEFINE t == Table(v).named["config"]["clientbound"]
<1>1. Counted(t) /\ Len(t) \in Nat
    BY VersionTables DEF ConfigTable, Counted
<1>2. v \in DialogVersions => /\ OnLine(t, 3, "Disconnect") /\ OnLine(t, 18, "ClearDialog")
                              /\ OnLine(t, 19, "ShowDialog")
    BY VersionTables DEF Dialogs
<1>3. v \notin DialogVersions => Len(t) <= 17
    BY VersionTables DEF NoDialogs
<1>4. \A id \in Nat : Name(v, "config", "clientbound", id) = Called(t, id)
    BY <1>1, NameIsCalled DEF Name
<1>. HIDE DEF t
<1>5. v \in DialogVersions => Called(t, 2) = "Disconnect"
    BY <1>1, <1>2, NameOnLine
<1>6. v \in DialogVersions => Called(t, 17) = "ClearDialog"
    BY <1>1, <1>2, NameOnLine
<1>7. v \in DialogVersions => Called(t, 18) = "ShowDialog"
    BY <1>1, <1>2, NameOnLine
<1>8. v \notin DialogVersions => Called(t, 17) = "unknown" /\ Called(t, 18) = "unknown"
    BY <1>1, <1>3 DEF Called
<1>. QED  BY <1>4, <1>5, <1>6, <1>7, <1>8

\* Nothing happens on the way to the server.
LEMMA AloneKept ==
    ASSUME end'.server.buffer = end.server.buffer, wire'.server = wire.server
    PROVE  Alone' = Alone
<1>1. Stream("server")' = Stream("server")
    BY KeptStream
<1>. QED  BY <1>1 DEF Alone

\* A packet is alone behind nothing.
LEMMA AloneSent ==
    ASSUME SessionTypes, NEW p \in PacketType, Coming("server") = {},
           wire' = [wire EXCEPT !["server"] = Append(@, p)],
           end'.server.buffer = end.server.buffer
    PROVE  Alone'
<1>. USE DEF Sides
<1>1. Stream("server") \in Seq(PacketType)
    BY StreamShape
<1>2. Stream("server")' = Append(Stream("server"), p)
    BY SendStream
<1>. DEFINE q == Stream("server")
<1>3. q \in Seq(PacketType) /\ Elements(q) = {} /\ Stream("server")' = Append(q, p)
    BY <1>1, <1>2 DEF Coming
<1>. HIDE DEF q
<1>4. q = <<>>
    BY <1>3, Shortened
<1>5. Len(Append(q, p)) = 1
    BY <1>3, <1>4, EmptySeq
<1>. QED  BY <1>3, <1>5 DEF Alone

\* Nothing is behind a packet that was alone.
LEMMA AloneTaken ==
    ASSUME SessionTypes, Buffered("server"), Alone,
           end'.server.buffer = Tail(end.server.buffer), wire'.server = wire.server
    PROVE  Alone' /\ Coming("server")' = {}
<1>. USE DEF Sides
<1>1. Stream("server") \in Seq(PacketType)
    BY StreamShape
<1>2. Stream("server") # <<>> /\ Stream("server")' = Tail(Stream("server"))
    BY TakeStream
<1>. DEFINE q == Stream("server")
<1>3. q \in Seq(PacketType) /\ q # <<>> /\ Len(q) <= 1 /\ Stream("server")' = Tail(q)
    BY <1>1, <1>2 DEF Alone
<1>4. Coming("server")' = Elements(Tail(q))
    BY <1>3 DEF Coming, Elements
<1>. HIDE DEF q
<1>5. Len(q) \in Nat /\ Len(q) >= 1 /\ Len(Tail(q)) = Len(q) - 1
    BY <1>3, Shortened
<1>6. Len(Tail(q)) = 0
    BY <1>3, <1>5
<1>. QED  BY <1>3, <1>4, <1>6 DEF Alone, Elements

\* The steps that move no packet: a call fails, a buffer fills up, the cipher is
\* switched, the client leaves, the handshake goes on.
LEMMA QuietMeans ==
    ASSUME MInv, UNCHANGED <<plan, wrong>>,
           Coming("client")' = Coming("client"), Coming("server")' = Coming("server"),
           Alone' = Alone, end'.client.state = end.client.state,
           end'.server.state = end.server.state,
           \/ serverAt' \in {serverAt, "returned"}
           \/ serverAt = "with_encryption" /\ serverAt' = "set_compression"
           \/ serverAt = "handshake" /\ serverAt' = "legacy_read",
           clientAt' \in {clientAt, "failed"},
           \A side \in Sides : <<side, "mistaken">> \in trouble' => <<side, "mistaken">> \in trouble,
           serverAt \in OutsidePlaces => trouble' = trouble
    PROVE  MInv'
<1>1. serverAt' \in OutsidePlaces => trouble' = {}
    BY DEF MInv, OutsidePlaces
<1>2. ByTheBook' => ByTheBook
    BY DEF ByTheBook
<1>3. ASSUME ByTheBook PROVE LockStep'
    <2>1. CASE serverAt' = "returned"
        BY <2>1 DEF LockStep
    <2>2. CASE serverAt' = serverAt
        BY <1>3, <2>2 DEF MInv, LockStep, Expected, QuestionOpen, SendsAt
    <2>3. CASE /\ serverAt \in {"with_encryption", "handshake"}
               /\ serverAt' \in {"set_compression", "legacy_read"}
        BY <1>3, <2>3 DEF MInv, LockStep, Expected, QuestionOpen, SendsAt, AnswerAt, Awaited,
           ConfigPlaces
    <2>. QED  BY <2>1, <2>2, <2>3
<1>4. ASSUME ByTheBook PROVE Understandable' /\ NotMistaken'
    BY <1>4 DEF MInv, Understandable, InItsState, NotMistaken
<1>. QED  BY <1>1, <1>2, <1>3, <1>4 DEF MInv

\* The server writes a packet: nothing is on its way to it then, and a question is
\* open from then on.
LEMMA ServerWritesMeans ==
    ASSUME SInv, MInv, ServerWrites
    PROVE  MInv'
<1>. USE DEF Sides
<1>1. serverAt \in DOMAIN WritesOf /\ UNCHANGED <<plan, clientAt, gone, wrong, trouble>>
    BY DEF ServerWrites
<1>2. CASE gone /\ Return("write_error") /\ UNCHANGED <<end, wire>>
    <2>1. Coming("client")' = Coming("client") /\ Coming("server")' = Coming("server")
        BY <1>2, Kept
    <2>2. Alone' = Alone
        BY <1>2, AloneKept
    <2>. QED  BY <1>1, <1>2, <2>1, <2>2, QuietMeans DEF Return
<1>3. CASE /\ Send("server", Named("server", WritesOf[serverAt][1], "good"))
           /\ end' = [end EXCEPT !.server = ThresholdAfter(serverAt, @)]
           /\ serverAt' = WritesOf[serverAt][2]
    <2>1. PICK p : p = Named("server", WritesOf[serverAt][1], "good")
        OBVIOUS
    <2>2. /\ p \in PacketType /\ ServerId(p) /\ p.name = WritesOf[serverAt][1]
          /\ serverAt = "kick" => p.id = 0
        BY <1>1, <2>1, ServerPacket
    <2>3. /\ end'.client = end.client /\ end'.server.state = end.server.state
          /\ end'.server.buffer = end.server.buffer
        BY <1>3 DEF SInv, SessionTypes, EndType, ThresholdAfter, WithThreshold
    <2>4. wire' = [wire EXCEPT !["client"] = Append(@, p)]
        BY <1>3, <2>1 DEF Send, Opposite
    <2>5. Coming("client")' = Coming("client") \union {p} /\ wire'.server = wire.server
        <3>1. SessionTypes /\ end'["client"].buffer = end["client"].buffer
            BY <2>3 DEF SInv
        <3>2. /\ Coming("client")' = Coming("client") \union {p}
              /\ \A s \in Sides : s # "client" => wire'[s] = wire[s]
            BY <2>2, <2>4, <3>1, SentTo
        <3>. QED  BY <3>2
    <2>6. Coming("server")' = Coming("server") /\ Alone' = Alone
        BY <2>3, <2>5, Kept, AloneKept
    <2>7. \/ /\ serverAt = "status_response" /\ p.name = "StatusResponse"
             /\ serverAt' = "status_ping"
          \/ serverAt = "pong" /\ p.name = "Pong" /\ serverAt' = "returned"
          \/ /\ serverAt = "encryption_request" /\ p.name = "EncryptionRequest"
             /\ serverAt' = "encryption_response"
          \/ /\ serverAt = "set_compression" /\ p.name = "SetCompression"
             /\ serverAt' = "login_success"
          \/ /\ serverAt = "login_success" /\ p.name = "LoginSuccess"
             /\ serverAt' = "login_acknowledge"
          \/ serverAt = "show_dialog" /\ p.name = "ShowDialog" /\ serverAt' = "config"
          \/ serverAt = "clear_dialog" /\ p.name = "ClearDialog" /\ serverAt' = "goodbye"
          \/ serverAt = "goodbye" /\ p.name = "Disconnect" /\ serverAt' = "returned"
          \/ serverAt = "kick" /\ p.name = "Disconnect" /\ serverAt' = "returned"
        BY <1>1, <1>3, <2>2 DEF WritesOf
    <2>8. serverAt' \notin OutsidePlaces
        BY <2>7 DEF OutsidePlaces
    <2>9. ByTheBook' => ByTheBook
        BY <1>1 DEF ByTheBook
    <2>10. ASSUME ByTheBook PROVE (LockStep /\ Understandable /\ NotMistaken)'
        <3>1. LockStep /\ Understandable /\ NotMistaken
            BY <2>10 DEF MInv
        <3>2. serverAt \notin DOMAIN Awaited /\ serverAt # "returned"
            BY <2>7 DEF Awaited
        <3>3. Alone /\ Coming("server") = {}
            BY <3>1, <3>2 DEF LockStep, Expected
        <3>4. clientAt \notin DOMAIN SendsAt
            BY <2>7, <3>1, <3>2 DEF LockStep, SendsAt
        <3>5. \A r \in Coming("client") : r.name \notin DOMAIN AnswerAt
            BY <2>7, <3>1, <3>2 DEF LockStep, QuestionOpen, AnswerAt
        <3>6. QuestionOpen(p)'
            BY <1>1, <2>6, <2>7, <3>3, <3>4 DEF QuestionOpen, AnswerAt
        <3>7. \A r \in Coming("client") : QuestionOpen(r)'
            BY <3>5 DEF QuestionOpen
        <3>8. end'.client.state = "config" /\ serverAt' # "returned" =>
                  serverAt' \in ConfigPlaces \union {"login_acknowledge"}
            BY <2>3, <2>7, <3>1, <3>2 DEF LockStep, ConfigPlaces
        <3>9. LockStep'
            BY <1>1, <2>5, <2>6, <3>3, <3>4, <3>6, <3>7, <3>8 DEF LockStep
        <3>10. InItsState(p)'
            <4>1. p.name = "LoginSuccess" => end.client.state = "login" /\ clientAt # "acknowledge"
                BY <2>7, <3>1, <3>2, <3>4
                   DEF LockStep, SendsAt, Understandable, SInv, SessionTypes, EndType, States, EndsMeet,
                       OutsidePlaces, StatusPlaces, ConfigPlaces
            <4>2. p.name = "Disconnect" =>
                      p.id = 2 /\ end.server.state = "config" /\ plan.version \in DialogVersions
                <5>. SUFFICES ASSUME p.name = "Disconnect"
                              PROVE  p.id = 2 /\ end.server.state = "config"
                                     /\ plan.version \in DialogVersions
                    OBVIOUS
                <5>1. serverAt = "goodbye"
                    BY <2>7, <3>1 DEF Understandable
                <5>2. end.server.state = "config"
                    BY <5>1 DEF SInv, ServerEnd, ConfigPlaces
                <5>3. p.id = 2
                    BY <2>1, <5>1, <5>2, ServerIds
                       DEF Named, Encoded, WritesOf, VersionOf, BoundTo, Opposite
                <5>. QED  BY <3>1, <5>1, <5>2, <5>3 DEF Understandable
            <4>. QED  BY <1>1, <2>3, <4>1, <4>2 DEF InItsState
        <3>11. Understandable'
            BY <1>1, <2>3, <2>5, <2>7, <3>1, <3>10 DEF Understandable, InItsState
        <3>12. NotMistaken'
            BY <1>1, <3>1 DEF NotMistaken
        <3>. QED  BY <3>9, <3>11, <3>12
    <2>. QED  BY <2>8, <2>9, <2>10 DEF MInv
<1>. QED  BY <1>2, <1>3 DEF ServerWrites

\* The server reads the packet it waits for, and takes it for what it is.
LEMMA ServerReadsMeans ==
    ASSUME SInv, MInv, ServerReads
    PROVE  MInv'
<1>. USE DEF Sides
<1>1. /\ serverAt \in {"status_request", "status_ping", "login_start", "encryption_response",
                       "login_acknowledge", "config"}
      /\ UNCHANGED <<plan, wire, clientAt, gone, wrong>> /\ Buffered("server")
      /\ trouble' = Noted("server")
    BY DEF ServerReads, Awaited
<1>2. PICK p : p = NextPacket("server").packet
    OBVIOUS
<1>3. /\ \/ serverAt' = "returned"
         \/ serverAt' = After[serverAt] /\ Seen("server") = Awaited[serverAt]
         \/ /\ serverAt' = "kick"
            /\ serverAt \in {"login_start", "encryption_response", "login_acknowledge"}
         \/ serverAt = "config" /\ serverAt' = "config"
      /\ end'.server.state =
             IF serverAt = "login_acknowledge" /\ Seen("server") = "LoginAcknowledge"
             THEN "config" ELSE end.server.state
      /\ end'.server.buffer = Tail(end.server.buffer)
      /\ end'.client = end.client
    BY ServerReadsTo
<1>4. p \in Coming("server") /\ p \in PacketType
    BY <1>1, <1>2, FrontOf DEF SInv
<1>5. Coming("client")' = Coming("client")
    BY <1>1, <1>3, Kept
<1>6. serverAt' \notin OutsidePlaces
    BY <1>1, <1>3 DEF OutsidePlaces, After
<1>7. ByTheBook' => ByTheBook
    BY <1>1 DEF ByTheBook
<1>8. ASSUME ByTheBook PROVE (LockStep /\ Understandable /\ NotMistaken)'
    <2>1. LockStep /\ Understandable /\ NotMistaken
        BY <1>8 DEF MInv
    <2>2. serverAt # "returned"
        BY <1>1
    <2>3. Expected(p) /\ Alone
        BY <1>4, <2>1, <2>2 DEF LockStep
    <2>4. Alone' /\ Coming("server")' = {}
        BY <1>1, <1>3, <2>3, AloneTaken DEF SInv
    <2>5. Seen("server") = Awaited[serverAt]
        <3>1. /\ serverAt \in {"status_request", "status_ping"} => end.server.state = "status"
              /\ serverAt \in {"login_start", "encryption_response", "login_acknowledge"} =>
                     end.server.state = "login"
              /\ serverAt = "config" => end.server.state = "config"
            BY DEF SInv, ServerEnd, StatusPlaces, LoginPlaces, PlainPlaces, ConfigPlaces
        <3>2. end.server.state # "play" =>
                  Seen("server") = Name(ServerVersion, end.server.state, "serverbound", p.id)
            BY <1>2 DEF Seen, VersionOf, BoundTo
        <3>3. p.id \in Nat
            BY <1>4 DEF PacketType
        <3>4. p.id = AwaitedId[serverAt]
            BY <2>3 DEF Expected
        <3>. QED  BY <1>1, <3>1, <3>2, <3>3, <3>4, ServerNamesOf DEF Awaited, AwaitedId
    <2>6. serverAt' = After[serverAt]
        <3>1. NextPacket("server").packet.data = "good" /\ Seen("server") # "unknown"
            BY <1>1, <1>2, <2>3, <2>5 DEF Expected, Awaited
        <3>. QED  BY <2>5, <3>1 DEF ServerReads, ServerTakes
    <2>7. ~Mistaken("server")
        BY <1>2, <2>3, <2>5 DEF Mistaken, Expected
    <2>8. clientAt \notin DOMAIN SendsAt
        BY <1>4, <2>1, <2>2 DEF LockStep
    <2>9. \A r \in Coming("client") : r.name \notin DOMAIN AnswerAt
        BY <1>4, <2>1, <2>2 DEF LockStep, QuestionOpen
    <2>10. end'.client.state = "config" => serverAt' \in ConfigPlaces \union {"login_acknowledge"}
        BY <1>1, <1>3, <2>1, <2>2, <2>6 DEF LockStep, ConfigPlaces, After
    <2>11. LockStep'
        BY <1>1, <1>5, <2>4, <2>8, <2>9, <2>10 DEF LockStep, QuestionOpen
    <2>12. /\ serverAt' # "kick"
           /\ serverAt' \in {"clear_dialog", "goodbye"} => plan.version \in DialogVersions
        BY <1>1, <2>3, <2>6 DEF After, Expected
    <2>13. end.server.state = "config" => end'.server.state = "config"
        BY <1>3
    <2>14. Understandable'
        BY <1>1, <1>3, <1>5, <2>1, <2>12, <2>13 DEF Understandable, InItsState
    <2>15. NotMistaken'
        BY <1>1, <2>1, <2>7 DEF NotMistaken, Noted
    <2>. QED  BY <2>11, <2>14, <2>15
<1>. QED  BY <1>6, <1>7, <1>8 DEF MInv

\* The client sends what it owes, and nothing else is under way.
LEMMA ClientSentMeans ==
    ASSUME SInv, MInv, NEW name \in ClientNames, NEW e, NEW next,
           clientAt \in DOMAIN SendsAt, serverAt \notin OutsidePlaces,
           name = Awaited[SendsAt[clientAt]],
           IdOf(plan.version, end.client.state, "serverbound", name) = AwaitedId[SendsAt[clientAt]],
           clientAt = "click" => plan.version \in DialogVersions,
           ClientSent(name, e, next), e.buffer = end.client.buffer,
           next \in {"status", "login", "config"},
           \/ e.state = end.client.state
           \/ clientAt = "acknowledge" /\ e.state = "config"
    PROVE  MInv'
<1>. USE DEF Sides
<1>1. PICK p : p = Named("client", name, "good")
    OBVIOUS
<1>2. PICK id \in Nat : id = AwaitedId[SendsAt[clientAt]]
    BY DEF AwaitedId, SendsAt
<1>3. p \in PacketType /\ p.id = id
    BY <1>1, <1>2, ClientPacket
<1>4. p.name = name /\ p.data = "good"
    BY <1>1 DEF Named, Encoded
<1>5. /\ wire' = [wire EXCEPT !["server"] = Append(@, p)]
      /\ end'.server = end.server /\ end'.client = e
      /\ UNCHANGED <<plan, serverAt, gone, wrong, trouble>> /\ clientAt' = next
    BY <1>1 DEF ClientSent, ClientChanged, Send, Opposite, SInv, SessionTypes
<1>6. Coming("server")' = Coming("server") \union {p} /\ wire'.client = wire.client
    <2>1. SessionTypes /\ end'["server"].buffer = end["server"].buffer
        BY <1>5 DEF SInv
    <2>2. /\ Coming("server")' = Coming("server") \union {p}
          /\ \A s \in Sides : s # "server" => wire'[s] = wire[s]
        BY <1>3, <1>5, <2>1, SentTo
    <2>. QED  BY <2>2
<1>7. Coming("client")' = Coming("client")
    BY <1>5, <1>6, Kept
<1>8. next \notin DOMAIN SendsAt /\ next # "acknowledge"
    BY DEF SendsAt
<1>9. ByTheBook' => ByTheBook
    BY <1>5 DEF ByTheBook
<1>10. ASSUME ByTheBook PROVE (LockStep /\ Understandable /\ NotMistaken)'
    <2>1. LockStep /\ Understandable /\ NotMistaken
        BY <1>10 DEF MInv
    <2>2. LockStep'
        <3>. SUFFICES ASSUME serverAt # "returned" PROVE LockStep'
            BY <1>5 DEF LockStep
        <3>1. serverAt = SendsAt[clientAt] /\ Coming("server") = {}
            BY <2>1 DEF LockStep
        <3>2. \A r \in Coming("client") : r.name \notin DOMAIN AnswerAt
            BY <2>1 DEF LockStep, QuestionOpen
        <3>3. Expected(p)'
            BY <1>2, <1>3, <1>4, <1>5, <3>1 DEF Expected, SendsAt, Awaited
        <3>4. Alone'
            BY <1>3, <1>5, <3>1, AloneSent DEF SInv
        <3>5. end'.client.state = "config" => serverAt' \in ConfigPlaces \union {"login_acknowledge"}
            BY <1>5, <2>1, <3>1 DEF LockStep, SendsAt
        <3>. QED  BY <1>5, <1>6, <1>7, <1>8, <3>1, <3>2, <3>3, <3>4, <3>5 DEF LockStep, QuestionOpen
    <2>3. Understandable'
        BY <1>5, <1>7, <1>8, <2>1 DEF Understandable, InItsState
    <2>4. NotMistaken'
        BY <1>5, <2>1 DEF NotMistaken
    <2>. QED  BY <2>2, <2>3, <2>4
<1>. QED  BY <1>5, <1>9, <1>10 DEF MInv

\* The client's steps that send, each at its place.
LEMMA ClientSendsMeans ==
    ASSUME SInv, MInv, ~gone, ClientSends, serverAt \notin OutsidePlaces
    PROVE  MInv'
<1>. USE DEF Sides
<1>1. plan.version \in AllVersions /\ end.client \in EndType
    BY DEF SInv, SessionTypes
<1>. USE DEF ClientNames, SendsAt, AwaitedId, Awaited
<1>2. CASE clientAt = "request" /\ ClientSent("StatusRequest", end.client, "status")
    <2>1. IdOf(plan.version, end.client.state, "serverbound", "StatusRequest") = 0
        BY <1>1, <1>2, ClientIds DEF SInv, ClientEnd
    <2>. QED  BY <1>2, <2>1, ClientSentMeans
<1>3. CASE clientAt = "ping" /\ ClientSent("Ping", end.client, "status")
    <2>1. IdOf(plan.version, end.client.state, "serverbound", "Ping") = 1
        BY <1>1, <1>3, ClientIds DEF SInv, ClientEnd
    <2>. QED  BY <1>3, <2>1, ClientSentMeans
<1>4. CASE clientAt = "start" /\ ClientSent("LoginStart", end.client, "login")
    <2>1. IdOf(plan.version, end.client.state, "serverbound", "LoginStart") = 0
        BY <1>1, <1>4, ClientIds DEF SInv, ClientEnd
    <2>. QED  BY <1>4, <2>1, ClientSentMeans
<1>5. CASE clientAt = "respond" /\ ClientSent("EncryptionResponse", WithCipher(end.client), "login")
    <2>1. IdOf(plan.version, end.client.state, "serverbound", "EncryptionResponse") = 1
        BY <1>1, <1>5, ClientIds DEF SInv, ClientEnd
    <2>2. PICK e : e = WithCipher(end.client)
        OBVIOUS
    <2>3. e.buffer = end.client.buffer /\ e.state = end.client.state
        BY <1>1, <2>2 DEF WithCipher, EndType
    <2>. QED  BY <1>5, <2>1, <2>2, <2>3, ClientSentMeans
<1>6. CASE /\ clientAt = "acknowledge" /\ Knows("LoginAcknowledge")
           /\ ClientSent("LoginAcknowledge", InState(end.client, "config"), "config")
    <2>1. end.client.state = "login"
        BY <1>6 DEF SInv, ClientEnd
    <2>2. IdOf(plan.version, end.client.state, "serverbound", "LoginAcknowledge") = 3
        BY <1>1, <1>6, <2>1, ClientIds DEF Knows, Lines
    <2>3. PICK e : e = InState(end.client, "config")
        OBVIOUS
    <2>4. e.buffer = end.client.buffer /\ e.state = "config"
        BY <1>1, <2>3 DEF InState, EndType
    <2>. QED  BY <1>6, <2>2, <2>3, <2>4, ClientSentMeans
<1>7. CASE /\ clientAt = "acknowledge" /\ ~Knows("LoginAcknowledge")
           /\ ClientChanged(InState(end.client, "play"), "play")
    <2>1. end.client.state = "login"
        BY <1>7 DEF SInv, ClientEnd
    <2>2. ~HasConfig(plan.version)
        BY <1>1, <1>7, <2>1, Acknowledges DEF Knows, Lines
    <2>3. UNCHANGED <<plan, serverAt>>
        BY <1>7 DEF ClientChanged
    <2>. QED  BY <2>2, <2>3 DEF MInv, ByTheBook
<1>8. CASE clientAt = "click" /\ ClientSent("CustomClick", end.client, "config")
    <2>1. end.client.state = "config" /\ plan.version \in DialogVersions
        BY <1>8 DEF SInv, ClientEnd
    <2>2. IdOf(plan.version, end.client.state, "serverbound", "CustomClick") = 8
        BY <1>1, <2>1, ClientIds
    <2>. QED  BY <1>8, <2>1, <2>2, ClientSentMeans
<1>. QED  BY <1>2, <1>3, <1>4, <1>5, <1>6, <1>7, <1>8 DEF ClientSends

\* A packet of the server is to the client what it is to the server, or unknown.
LEMMA ClientSees ==
    ASSUME SInv, MInv, ByTheBook, Buffered("client"), NEW p, p = NextPacket("client").packet,
           clientAt \in {"status", "login", "config", "play"}
    PROVE  Seen("client") \in {p.name, "unknown"}
<1>. USE DEF Sides
<1>1. p \in Coming("client") /\ p \in PacketType
    BY FrontOf DEF SInv
<1>2. /\ FromServer(p) /\ InItsState(p) /\ p.id \in Nat /\ plan.version \in AllVersions
      /\ end.client.state # "play" /\ end.client.state = clientAt /\ ServerId(p)
    BY <1>1 DEF SInv, ToClient, FromServer, MInv, Understandable, PacketType, SessionTypes, ClientEnd
<1>3. Seen("client") = Name(plan.version, end.client.state, "clientbound", p.id)
    BY <1>2 DEF Seen, VersionOf, BoundTo
<1>4. end.server.state = "config" => end.client.state = "config"
    BY DEF SInv, ToServer, ByTheBook
<1>5. CASE clientAt = "status"
    <2>1. \/ p.name = "StatusResponse" /\ p.id = 0
          \/ p.name = "Pong" /\ p.id = 1
        BY <1>2, <1>5 DEF FromServer, StatusNames, ServerId
    <2>. QED  BY <1>2, <1>3, <1>5, <2>1, ClientNamesOf
<1>6. CASE clientAt = "login"
    <2>1. \/ p.name = "EncryptionRequest" /\ p.id = 1
          \/ p.name = "LoginSuccess" /\ p.id = 2
          \/ p.name = "SetCompression" /\ p.id = 3
        BY <1>2, <1>4, <1>6 DEF FromServer, InItsState, StatusNames, ServerId, ServerNames
    <2>. QED  BY <1>2, <1>3, <1>6, <2>1, ClientNamesOf
<1>7. CASE clientAt = "config"
    <2>1. end.client.framed /\ end.client.enciphers
        BY <1>2, <1>7 DEF SInv, ClientEnd
    <2>2. \/ p.name = "ShowDialog" /\ p.id = 18
          \/ p.name = "ClearDialog" /\ p.id = 17
          \/ p.name = "Disconnect" /\ p.id = 2 /\ plan.version \in DialogVersions
        BY <1>2, <1>7, <2>1 DEF FromServer, InItsState, StatusNames, ServerId, ServerNames
    <2>. QED  BY <1>2, <1>3, <1>7, <2>2, ConfigNamesOf
<1>. QED  BY <1>2, <1>5, <1>6, <1>7

\* The client reads a packet; if it is a question, the server waits for the answer
\* that the client now owes.
LEMMA ClientReadsMeans ==
    ASSUME SInv, MInv, ClientReads
    PROVE  MInv'
<1>. USE DEF Sides
<1>1. /\ UNCHANGED <<plan, wire, serverAt, wrong>> /\ Buffered("client")
      /\ clientAt \in {"status", "login", "config", "play"}
    BY DEF ClientReads, ClientChanged
<1>2. serverAt \notin OutsidePlaces
    BY <1>1 DEF SInv, EndsMeet
<1>3. CASE ~Legible("client")
    <2>1. /\ clientAt' = "failed" /\ end' = end
          /\ trouble' = trouble \union {<<"client", "garbled", NextPacket("client").packet.name>>}
        BY <1>3 DEF ClientReads, ClientChanged, SInv, SessionTypes
    <2>2. Coming("client")' = Coming("client") /\ Coming("server")' = Coming("server")
        BY <1>1, <2>1, Kept
    <2>3. Alone' = Alone
        BY <1>1, <2>1, AloneKept
    <2>4. \A side \in Sides : <<side, "mistaken">> \in trouble' => <<side, "mistaken">> \in trouble
        BY <2>1
    <2>. QED  BY <1>1, <1>2, <2>1, <2>2, <2>3, <2>4, QuietMeans
<1>4. CASE Legible("client")
    <2>1. PICK p : p = NextPacket("client").packet
        OBVIOUS
    <2>2. /\ clientAt' = Reaction(Seen("client")) /\ trouble' = Noted("client")
          /\ end' = [end EXCEPT !.client =
                        IF Seen("client") = "SetCompression"
                        THEN WithThreshold(PacketTaken("client")) ELSE PacketTaken("client")]
        BY <1>4 DEF ClientReads, ClientChanged
    <2>3. PacketTaken("client") = [end.client EXCEPT !.buffer = Tail(@)]
        BY DEF PacketTaken
    <2>4. /\ end'.server = end.server /\ end'.client.buffer = Tail(end.client.buffer)
          /\ end'.client.state = end.client.state
        BY <2>2, <2>3 DEF SInv, SessionTypes, EndType, WithThreshold
    <2>5. /\ Coming("client") = {p} \union Coming("client")'
          /\ \A r \in Coming("client")' : Turn(p.name) < Turn(r.name)
        <3>1. SessionTypes /\ InOrder /\ end'["client"].buffer = Tail(end["client"].buffer)
            BY <2>4 DEF SInv, ToClient
        <3>2. /\ Coming("client") = {NextPacket("client").packet} \union Coming("client")'
              /\ InOrder => \A r \in Coming("client")' :
                                Turn(NextPacket("client").packet.name) < Turn(r.name)
            BY <1>1, <3>1, TakenBy
        <3>. QED  BY <2>1, <3>1, <3>2
    <2>6. Coming("server")' = Coming("server") /\ Alone' = Alone
        BY <1>1, <2>4, Kept, AloneKept
    <2>7. ByTheBook' => ByTheBook
        BY <1>1 DEF ByTheBook
    <2>8. ASSUME ByTheBook PROVE (LockStep /\ Understandable /\ NotMistaken)'
        <3>1. LockStep /\ Understandable /\ NotMistaken
            BY <2>8 DEF MInv
        <3>2. Seen("client") \in {p.name, "unknown"}
            BY <1>1, <2>1, <2>8, ClientSees
        <3>3. \/ clientAt' \in {"status", "login", "config", "play", "done", "failed"}
              \/ p.name = "StatusResponse" /\ clientAt' = "ping"
              \/ p.name = "EncryptionRequest" /\ clientAt' = "respond"
              \/ p.name = "LoginSuccess" /\ clientAt' = "acknowledge"
              \/ p.name = "ShowDialog" /\ clientAt' = "click"
            BY <1>1, <2>2, <3>2 DEF Reaction
        <3>4. NotMistaken'
            BY <2>1, <2>2, <3>1, <3>2 DEF NotMistaken, Noted, Mistaken
        <3>5. Understandable'
            <4>1. ASSUME NEW r \in Coming("client")' PROVE InItsState(r)'
                <5>1. InItsState(r) /\ Turn(p.name) < Turn(r.name)
                    BY <2>5, <3>1 DEF Understandable
                <5>2. Turn("LoginSuccess") = 3
                    BY DEF Turn
                <5>3. r.name = "LoginSuccess" => clientAt' # "acknowledge"
                    BY <3>3, <5>1, <5>2
                <5>. QED  BY <1>1, <2>4, <5>1, <5>3 DEF InItsState
            <4>. QED  BY <1>1, <2>4, <3>1, <4>1 DEF Understandable
        <3>6. LockStep'
            <4>. SUFFICES ASSUME serverAt # "returned" PROVE LockStep'
                BY <1>1 DEF LockStep
            <4>1. QuestionOpen(p) /\ \A r \in Coming("client")' : QuestionOpen(r)
                BY <2>5, <3>1 DEF LockStep
            <4>2. clientAt' \in DOMAIN SendsAt =>
                      /\ serverAt = SendsAt[clientAt'] /\ Coming("server") = {}
                      /\ p.name \in DOMAIN AnswerAt
                BY <3>3, <4>1 DEF QuestionOpen, SendsAt, AnswerAt
            <4>3. ASSUME NEW r \in Coming("client")' PROVE QuestionOpen(r)'
                <5>1. ASSUME r.name \in DOMAIN AnswerAt, p.name \in DOMAIN AnswerAt PROVE FALSE
                    <6>1. AnswerAt[p.name] = AnswerAt[r.name]
                        BY <4>1, <5>1 DEF QuestionOpen
                    <6>2. p.name = r.name
                        BY <5>1, <6>1 DEF AnswerAt
                    <6>3. Turn(p.name) < Turn(r.name) /\ Turn(p.name) \in Int
                        BY <2>5 DEF Turn
                    <6>. QED  BY <6>2, <6>3
                <5>. QED  BY <1>1, <2>6, <4>1, <4>2, <5>1 DEF QuestionOpen
            <4>. QED  BY <1>1, <2>4, <2>6, <3>1, <4>2, <4>3 DEF LockStep, Expected
        <3>. QED  BY <3>4, <3>5, <3>6
    <2>. QED  BY <1>1, <1>2, <2>7, <2>8 DEF MInv
<1>. QED  BY <1>3, <1>4

\* The session begins with nothing under way.
LEMMA BeginMeans ==
    ASSUME SInv, MInv, serverAt = "handshake", SessionBegin
    PROVE  MInv'
<1>. USE DEF Sides
<1>1. /\ end' = [side \in Sides |-> NewEnd(IF plan'.intent = 1 THEN "status" ELSE "login")]
      /\ \/ serverAt' = "status_request" /\ clientAt' = "request"
         \/ serverAt' = "login_start" /\ clientAt' = "start"
      /\ UNCHANGED <<wire, wrong, trouble>> /\ trouble = {}
    BY DEF SessionBegin, MInv, OutsidePlaces
<1>2. /\ wire'.client = <<>> /\ wire'.server = <<>>
      /\ end'.client.buffer = <<>> /\ end'.server.buffer = <<>>
      /\ end'.client.state \in {"status", "login"}
    BY <1>1, NothingBefore DEF NewEnd, OutsidePlaces
<1>3. Coming("client")' = {} /\ Coming("server")' = {}
    BY <1>2, NothingNext
<1>4. Alone'
    <2>1. Stream("server")' = <<>>
        BY <1>2, EmptyStream DEF Stream, Held
    <2>2. Len(<<>>) <= 1
        BY EmptySeq
    <2>. QED  BY <2>1, <2>2 DEF Alone
<1>5. LockStep'
    BY <1>1, <1>2, <1>3, <1>4 DEF LockStep, SendsAt
<1>6. Understandable' /\ NotMistaken'
    BY <1>1, <1>2, <1>3 DEF Understandable, NotMistaken
<1>. QED  BY <1>1, <1>5, <1>6 DEF MInv, OutsidePlaces

\* A step of the session.
LEMMA SessionStepMeans ==
    ASSUME SInv, MInv, SessionStep, serverAt \notin OutsidePlaces
    PROVE  MInv'
<1>. USE DEF Sides
<1>1. CASE ServerWrites \/ ServerReads \/ ClientReads
    BY <1>1, ServerWritesMeans, ServerReadsMeans, ClientReadsMeans
<1>2. CASE ~gone /\ ClientSends
    BY <1>2, ClientSendsMeans
<1>3. CASE OutOfTurn \/ Plays
    <2>1. wrong' = wrong + 1 /\ UNCHANGED serverAt /\ wrong \in Nat
        BY <1>3 DEF OutOfTurn, Plays, SInv, SessionTypes
    <2>2. wrong' # 0
        BY <2>1
    <2>. QED  BY <2>1, <2>2 DEF MInv, ByTheBook
<1>4. ASSUME NEW side \in Sides, FillBuffer(side) PROVE MInv'
    <2>1. /\ \A s \in Sides : Coming(s)' = Coming(s) /\ Stream(s)' = Stream(s)
          /\ \A s \in Sides : end'[s].state = end[s].state
        BY <1>4, FilledBy, FillStream DEF SInv
    <2>2. Alone' = Alone
        BY <2>1 DEF Alone
    <2>3. UNCHANGED <<plan, serverAt, clientAt, wrong, trouble>>
        BY <1>4 DEF FillBuffer
    <2>. QED  BY <2>1, <2>2, <2>3, QuietMeans
<1>5. CASE ServerEnciphers \/ ServerGarbled \/ ServerEof \/ ClientEof \/ Leaves
    <2>1. /\ UNCHANGED <<plan, wire, wrong>>
          /\ end'.client.state = end.client.state /\ end'.server.state = end.server.state
          /\ end'.client.buffer = end.client.buffer /\ end'.server.buffer = end.server.buffer
          /\ \/ serverAt' \in {serverAt, "returned"}
             \/ serverAt = "with_encryption" /\ serverAt' = "set_compression"
          /\ clientAt' \in {clientAt, "failed"}
          /\ trouble' \in {trouble, trouble \union {<<"server", "garbled">>}}
        BY <1>5 DEF ServerEnciphers, ServerGarbled, ServerEof, ClientEof, Leaves, Return, ClientChanged,
           WithEncryption, SInv, SessionTypes, EndType
    <2>2. Coming("client")' = Coming("client") /\ Coming("server")' = Coming("server")
        BY <2>1, Kept
    <2>3. Alone' = Alone
        BY <2>1, AloneKept
    <2>4. \A side \in Sides : <<side, "mistaken">> \in trouble' => <<side, "mistaken">> \in trouble
        BY <2>1
    <2>. QED  BY <2>1, <2>2, <2>3, <2>4, QuietMeans
<1>. QED  BY <1>1, <1>2, <1>3, <1>4, <1>5 DEF SessionStep, ServerStep, ClientStep

\* A step of the server.
LEMMA ServerStepMeans == SInv /\ MInv /\ [ServerNext]_serverVars => MInv'
<1>. SUFFICES ASSUME SInv, MInv, [ServerNext]_serverVars PROVE MInv'
    OBVIOUS
<1>. USE DEF Sides
<1>1. ASSUME UNCHANGED <<plan, end, wire, clientAt, wrong, trouble>>,
             \/ serverAt' \in {serverAt, "returned"}
             \/ serverAt = "handshake" /\ serverAt' = "legacy_read"
      PROVE  MInv'
    <2>1. Coming("client")' = Coming("client") /\ Coming("server")' = Coming("server")
        BY <1>1, Kept
    <2>2. Alone' = Alone
        BY <1>1, AloneKept
    <2>. QED  BY <1>1, <2>1, <2>2, QuietMeans
<1>2. CASE DetectVersion \/ Network(Arrive) \/ Network(Close) \/ UNCHANGED serverVars
    BY <1>1, <1>2 DEF DetectVersion, Network, serverVars, sessionVars
<1>3. CASE HandshakeFails \/ AnswerPing \/ LegacyRead
    BY <1>1, <1>3 DEF HandshakeFails, AnswerPing, LegacyRead, Return
<1>4. CASE BeginSession
    <2>1. CASE pos = client.packet
        BY <1>4, <2>1, BeginMeans DEF BeginSession
    <2>2. CASE pos # client.packet
        BY <1>1, <1>4, <2>2 DEF BeginSession, Return
    <2>. QED  BY <2>1, <2>2
<1>5. CASE PlaySession(SessionStep)
    BY <1>5, SessionStepMeans DEF PlaySession, OutsidePlaces
<1>. QED  BY <1>2, <1>3, <1>4, <1>5 DEF ServerNext

-----------------------------------------------------------------------------
(* The theorems. *)

\* The handshake inside the server is the handshake of HandshakeDetection, whose
\* theorems are therefore theorems of the server.
THEOREM HandshakeInside == ServerSpec => Spec
<1>1. ServerInit => Init
    BY DEF ServerInit
<1>2. [ServerNext]_serverVars => [Next]_vars
    BY DEF ServerNext, serverVars, DetectVersion, Network, HandshakeFails, BeginSession,
       AnswerPing, LegacyRead, PlaySession, Next
<1>. QED  BY <1>1, <1>2, PTL DEF ServerSpec, Spec

\* The invariant of the session, inside the server.
THEOREM SessionInvariance == ServerSpec => []SInv
<1>1. ServerInit => SInv
    BY IdleHolds DEF ServerInit
<1>. QED  BY <1>1, ServerStepKeeps, PTL DEF ServerSpec

\* A client that does not send between its switch of ciphers and the server's
\* compression is read, however the network cuts and however far the BufReader
\* reads ahead of with_encryption: for every ReadAhead, version and MaxWrong.
THEOREM PatientIsRead == ServerSpec => []PatientClientsAreRead
<1>1. SInv => PatientClientsAreRead
    BY DEF SInv
<1>. QED  BY <1>1, SessionInvariance, PTL

\* Whatever the server writes but the kick reaches the client in the cipher and
\* frame the client has by then.
THEOREM ClientReadsAllButKicks == ServerSpec => []OnlyKicksAreLost
<1>1. SInv => OnlyKicksAreLost
    BY DEF SInv
<1>. QED  BY <1>1, SessionInvariance, PTL

\* Whenever the server waits for a packet and none is on its way, both ends are in
\* the same state, the same cipher and the same frame, as long as the client has
\* kept to the protocol.
THEOREM EndsAreInStep == ServerSpec => []InStep
<1>1. SInv => InStep
    <2>. SUFFICES ASSUME SInv, wrong = 0,
                         serverAt \in {"status_request", "status_ping", "login_start",
                                       "encryption_response", "config"},
                         \A side \in {"client", "server"} : wire[side] = <<>> /\ ~Buffered(side)
                  PROVE  \A field \in {"state", "deciphers", "enciphers", "framed"} :
                             end.server[field] = end.client[field]
        BY DEF InStep
    <2>. USE DEF Sides
    <2>1. Coming("server") = {}
        BY NothingToRead DEF Buffered
    <2>2. /\ end.client.deciphers \in BOOLEAN /\ end.server.deciphers \in BOOLEAN
          /\ end.client.enciphers \in BOOLEAN /\ end.server.enciphers \in BOOLEAN
          /\ end.client.framed \in BOOLEAN /\ end.server.framed \in BOOLEAN
          /\ end.client.state \in States
        BY DEF SInv, SessionTypes, EndType
    <2>3. end.client.state # "handshake"
        BY DEF SInv, EndsMeet, StatusPlaces, OutsidePlaces
    <2>4. CASE serverAt \in {"status_request", "status_ping"}
        <3>1. /\ end.server.state = "status" /\ end.client.state = "status"
              /\ ~end.server.deciphers /\ ~end.server.enciphers /\ ~end.server.framed
              /\ ~end.client.deciphers /\ ~end.client.enciphers /\ ~end.client.framed
            BY <2>4 DEF SInv, ServerEnd, ClientEnd, EndsMeet, StatusPlaces
        <3>. QED  BY <2>2, <3>1
    <2>5. CASE serverAt \in {"login_start", "encryption_response"}
        <3>1. /\ end.server.state = "login"
              /\ ~end.server.deciphers /\ ~end.server.enciphers /\ ~end.server.framed
            BY <2>5 DEF SInv, ServerEnd, LoginPlaces, PlainPlaces
        <3>2. ~end.client.deciphers /\ ~end.client.enciphers /\ ~end.client.framed
            BY <2>1, <2>5 DEF SInv, EndsMeet, ClientEnd, ToServer
        <3>3. end.client.state = "login"
            BY <2>2, <2>3, <2>5, <3>2 DEF SInv, ClientEnd, EndsMeet, States, OutsidePlaces, StatusPlaces
        <3>. QED  BY <2>2, <3>1, <3>2, <3>3
    <2>6. CASE serverAt = "config"
        <3>1. /\ end.server.state = "config" /\ end.client.state = "config"
              /\ end.server.deciphers /\ end.server.enciphers /\ end.server.framed
            BY <2>6 DEF SInv, ServerEnd, ConfigPlaces, FramedPlaces, ToServer
        <3>2. end.client.deciphers /\ end.client.enciphers /\ end.client.framed
            BY <3>1 DEF SInv, ClientEnd
        <3>. QED  BY <2>2, <3>1, <3>2
    <2>. QED  BY <2>4, <2>5, <2>6
<1>. QED  BY <1>1, SessionInvariance, PTL

\* As long as the client keeps to the protocol and its version has a config state,
\* each packet means to its reader, in the tables of the reader's version, what it
\* meant to its writer, or nothing.
THEOREM MeaningIsShared == ServerSpec => []SameMeaning
<1>1. ServerInit => MInv
    <2>. SUFFICES ASSUME SessionIdle PROVE MInv
        BY DEF ServerInit
    <2>. USE DEF Sides
    <2>1. /\ end.client = NewEnd("handshake") /\ end.server = NewEnd("handshake")
          /\ wire.client = <<>> /\ wire.server = <<>>
          /\ serverAt = "handshake" /\ clientAt = "handshake" /\ trouble = {}
        BY DEF SessionIdle
    <2>2. Coming("client") = {} /\ Coming("server") = {}
        BY <2>1, NothingToRead DEF NewEnd
    <2>3. Alone
        <3>1. Stream("server") = <<>>
            BY <2>1, EmptyStream DEF Stream, NewEnd
        <3>. QED  BY <3>1, EmptySeq DEF Alone
    <2>4. LockStep
        BY <2>1, <2>2, <2>3 DEF LockStep, SendsAt, NewEnd
    <2>5. Understandable /\ NotMistaken
        BY <2>1, <2>2 DEF Understandable, NotMistaken, NewEnd
    <2>. QED  BY <2>1, <2>4, <2>5 DEF MInv
<1>2. SInv /\ MInv => SameMeaning
    <2>. SUFFICES ASSUME SInv, MInv, NEW side \in {"client", "server"},
                         <<side, "mistaken">> \in trouble, ~(wrong > 0)
                  PROVE  Len(Table(plan.version).named.config.serverbound) = 0
        BY DEF SameMeaning
    <2>1. wrong = 0
        BY DEF SInv, SessionTypes
    <2>. QED  BY <2>1 DEF MInv, ByTheBook, HasConfig, NotMistaken, Sides
<1>. QED  BY <1>1, <1>2, ServerStepMeans, SessionInvariance, PTL DEF ServerSpec

\* What a legacy client is sent, it can take apart, for every text a response is
\* made from and however late the ping's bytes are; and the read behind it finds
\* no handshake in what is left, so `expect_err` never panics.
THEOREM PingsAreServed == ServerSpec => []PingIsServed
<1>1. ServerInit => PInv
    BY DEF ServerInit, Init, SessionIdle, PInv
<1>2. PInv /\ IInv /\ NeverUpgraded => PingIsServed
    BY DEF PInv, Legacy, NeverUpgraded, Rank, AcceptedBy, PingIsServed
<1>. QED  BY <1>1, <1>2, PingStepKeeps, HandshakeInside, Invariance, NeverTakenForNewer, PTL
             DEF ServerSpec
=============================================================================
