\* A length whose bit 7 is clear; no session follows.
SPECIFICATION ServerSpec
CONSTANTS
    Lengths = {256}
    DataLengths = {0}
    Pipelined <- Behind
    PlayedOn = 127
    Texts <- ExampleTexts
    ClientVersions <- AllVersions
    ReadAhead = 2
    MaxWrong = 2
    PlayIds = {0}
INVARIANT LengthIsVarInt
CHECK_DEADLOCK FALSE
