\* Buffer of two, up to two failed inner calls, an inner writer that keeps a byte
\* back until it is flushed.
SPECIFICATION Spec
CONSTANTS
    Capacity = 2
    MaxWrite = 3
    MaxBytes = 5
    MaxFailures = 2
    SinkRoom = 8
    SinkBuffer = 1
INVARIANTS TypeOK NeverSkips FlushedIsDelivered
PROPERTY PipeUntilFailure
CHECK_DEADLOCK FALSE
