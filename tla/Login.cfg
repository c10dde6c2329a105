CONSTANTS
    Runs = {r1}
    Codes = {c1, c2}
    Pairs = {p1, p2}
    None = None
    MAX_TRANSIENT_ERRORS = 2
SPECIFICATION FairSpec
INVARIANTS
    LiveCodeOnDisk
    NewestPairKept
PROPERTY LoginEnds
CHECK_DEADLOCK FALSE
