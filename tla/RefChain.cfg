CONSTANTS
    Names = {n1, n2, n3}
    None = None
SPECIFICATION FairSpec
PROPERTY ResolutionEnds
CHECK_DEADLOCK FALSE
