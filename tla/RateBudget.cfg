CONSTANTS
    Requests = {r1, r2, r3, r4}
    Cap = 2
    WINDOW_BUCKETS = 3
    TicksPerSecond = 2
    AcquireWait = 3
    MaxTick = 15
    Start <- MCStart
SPECIFICATION FairSpec
INVARIANTS
    BucketsAreExact
PROPERTIES
    RefusedOnlyWhenFull
    ImplementsQuota
    AcquireEnds
CHECK_DEADLOCK FALSE
