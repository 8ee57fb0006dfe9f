\* One well-formed deflated frame in pieces: the zlib header alone gives no output.
SPECIFICATION Spec
CONSTANTS
    Streams <- WellFormedDeflate
    Capacity = 3
    Arrivals = {"pieces"}
INVARIANT NoSpuriousEof
CHECK_DEADLOCK FALSE
