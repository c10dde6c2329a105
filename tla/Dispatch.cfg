CONSTANTS
    Calls = {c1, c2}
    MAX_429_RETRIES = 1
    MAX_5XX_RETRIES = 1
    Cap = 3
    MaxMinute = 1
SPECIFICATION FairSpec
INVARIANTS
    SendsAreBounded
    NoDuplicateEffect
    QuotaBoundsSends
    GivesUpLast
PROPERTY DispatchEnds
CHECK_DEADLOCK FALSE
