\* Buffer of two: slices of three bytes overflow it, and six bytes fill it three
\* times.  The inner writer always has room, in pieces of any size.
SPECIFICATION FairSpec
CONSTANTS
    Capacity = 2
    MaxWrite = 3
    MaxBytes = 6
    SinkRoom = 6
    SinkBuffer = 0
INVARIANTS TypeOK WireExact NothingDropped FlushedIsDelivered
PROPERTIES PipeSpec CallReturns
