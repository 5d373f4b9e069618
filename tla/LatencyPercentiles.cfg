SPECIFICATION LatencySpec
CONSTANTS
    NumBuckets = 3
    MaxRequests = 4
CHECK_DEADLOCK FALSE
INVARIANTS
    PercentilesAreKept
