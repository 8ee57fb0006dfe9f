\* One packet through the async writer: deflate gives more than its array holds.
SPECIFICATION Spec
CONSTANTS
    Packets <- LongSlice
    Thresholds = {1}
    None = None
    Flavours = {"async"}
    Base = 2
    MaxInt = 12
    AsyncBuf = 2
    MaxPackets = 1
INVARIANT PayloadWhole
CHECK_DEADLOCK FALSE
