\* Two packets of any size, both providers, thresholds below and among the sizes.
SPECIFICATION FairSpec
CONSTANTS
    Packets <- PacketsOfAllSizes
    Thresholds = {1, 4}
    None = None
    Flavours = {"sync", "async"}
    Base = 2
    MaxInt = 12
    AsyncBuf = 2
    MaxPackets = 2
INVARIANTS TypeOK FrameExact FitsReaderBound SyncPayloadWhole
PROPERTY WriteReturns
CHECK_DEADLOCK FALSE
