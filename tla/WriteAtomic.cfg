CONSTANTS
    p1 = p1
    p2 = p2
    n1 = n1
    n2 = n2
    Procs = {p1, p2}
    Pids = {n1, n2}
    PidOf <- OwnPid
    Values = {v1, v2}
    Files = {f1, f2, f3, f4}
    None = None
SYMMETRY Symmetry
SPECIFICATION Spec
INVARIANTS
    NeverTorn
    StaleFileFailsOnce
PROPERTIES
    ImplementsRegister
CHECK_DEADLOCK FALSE
