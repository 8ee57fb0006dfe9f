\* One packet through the blocking writer: deflate leaves a single byte.
SPECIFICATION Spec
CONSTANTS
    Packets <- LongSlice
    Thresholds = {1}
    None = None
    Flavours = {"sync"}
    Base = 2
    MaxInt = 12
    AsyncBuf = 2
    MaxPackets = 1
INVARIANT NoPanic
CHECK_DEADLOCK FALSE
