\* Modern handshakes with lengths of one, two and five bytes, two that start
\* with 0xFE and two that are misread, pings with and without data and with a
\* negative length; any delay, and none above 5 ms.  After a handshake of 127
\* bytes, clients of the oldest and the newest version, of each shape of the
\* login and of the versions around each of them, one packet out of turn and two
\* packets read ahead.
SPECIFICATION ServerSpec
CONSTANTS
    Lengths = {0, 1, 127, 200, 254, 255, 256, 300, 1022, 16383, 268435456}
    DataLengths = {0, 5, 65535}
    Pipelined <- Behind
    PlayedOn = 127
    Texts <- ExampleTexts
    ClientVersions <- AllVersions
    ReadAhead = 2
    MaxWrong = 2
    PlayIds = {0, 1, 2, 3, 4, 5, 8}
INVARIANTS TypeOK RightVersion NeverUpgraded BlockingReads EndsOnPacket
INVARIANTS PatientClientsAreRead OnlyKicksAreLost SameMeaning InStep
INVARIANTS PingIsServed
PROPERTIES Answered Completes ThreadEnds
CHECK_DEADLOCK FALSE
