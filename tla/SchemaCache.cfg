CONSTANTS
    Servers = {s1, s2}
    Good = {g1, g2}
    Bad = {b1}
    MAX_RETRIES = 1
    MaxStarts = 3
    None = None
    Empty = Empty
    Torn = Torn
SPECIFICATION FairSpec
INVARIANTS
    CacheIsNewest
    GoodDocumentServes
PROPERTY StartEnds
CHECK_DEADLOCK FALSE
