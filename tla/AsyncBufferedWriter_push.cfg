\* The inner writer buffers one byte until somebody flushes it.
SPECIFICATION Spec
CONSTANTS
    Capacity = 2
    MaxWrite = 3
    MaxBytes = 4
    SinkRoom = 4
    SinkBuffer = 1
INVARIANT FlushReachesPeer
