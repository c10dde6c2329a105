CONSTANTS
    Tasks = {t1, t2}
    Pairs = {p1, p2}
    Codes = {c1}
    None = None
    Faults = TRUE
SYMMETRY Symmetry
SPECIFICATION Spec
INVARIANTS
    SingleFlight
    PersistedBeforeUse
    NoDoubleSpend
PROPERTIES
    WipesOnlyDeadPair
    ReauthOnlyWhenNeeded
