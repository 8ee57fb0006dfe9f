\* Every frame and every pair of frames under the same threshold, in pieces of
\* any size and whole; the connection ends anywhere.
SPECIFICATION FairSpec
CONSTANTS
    Streams <- AllStreams
    Capacity = 3
    Arrivals = {"pieces", "whole"}
INVARIANTS TypeOK WithinFrame ContentConserved UncutIsReadWhole
PROPERTY ReadReturns
CHECK_DEADLOCK FALSE
