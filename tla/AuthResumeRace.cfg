CONSTANTS
    Tasks = {t1, t2}
    Pairs = {p1, p2}
    Codes = {c1}
    None = None
    Faults = FALSE
SPECIFICATION Spec
INVARIANT FreshAfter401
