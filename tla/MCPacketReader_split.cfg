\* One well-formed deflated frame in pieces: the trailer stays behind.
SPECIFICATION Spec
CONSTANTS
    Streams <- WellFormedDeflate
    Capacity = 3
    Arrivals = {"pieces"}
INVARIANT EndsOnBoundary
CHECK_DEADLOCK FALSE
