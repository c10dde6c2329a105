CONSTANTS
    Runs = {r1}
    Codes = {c1}
    Pairs = {p1, p2}
    None = None
    MAX_TRANSIENT_ERRORS = 2
SPECIFICATION Spec
INVARIANT GivesUpAfterStreak
CHECK_DEADLOCK FALSE
