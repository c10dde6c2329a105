CONSTANTS
    Tasks = {t1, t2}
    Pairs = {p1, p2}
    Codes = {}
    None = None
    Faults = FALSE
SPECIFICATION FairSpec
INVARIANTS
    FreshAfter401
    FlagHasTaker
PROPERTY ResolutionEnds
