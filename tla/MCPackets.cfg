\* VarInts of three bits a byte and eight bits a word: three groups, the last
\* one not full; every word and every string of up to four bytes, and the id of
\* every packet of every version (the largest is 138).  Payload bytes of three
\* values, types nested up to three deep, and any five bytes of a peer.
SPECIFICATION PacketsSpec
CONSTANTS
    Segment = 3
    Width = 8
    Versions <- AllVersions
    Ids <- AllIds
    ByteBase = 3
    Shapes <- AllShapes
    PeerBytes = {0, 1, 2, 3, 4, 5}
    Carrier <- PongPacket
INVARIANTS TypeOK RoundTrip SizeIsExact
INVARIANTS SamePacket BodyRoundTrip BodySizeIsExact DropsOnlyOwners
CHECK_DEADLOCK FALSE
