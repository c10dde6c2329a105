CONSTANTS
    Names = {n1, n2, n3}
    None = None
    a = a
    Words = {a}
    Operations <- MCOperations
    Params = {"x", "body"}
    v1 = v1
    v2 = v2
    v3 = v3
    plain = plain
    Types = {v1, v2, v3, plain}
    Versions = {v1, v2, v3}
    NoVersion = NoVersion
    MaxTools = 3
    NoRequest = NoRequest
SPECIFICATION RegistrySpec
INVARIANTS
    CircularIsReal
    NothingHidden
    NamesResolve
    ArgumentsArrive
    VersionFits
PROPERTY EndsUnlessChainLoops
CHECK_DEADLOCK FALSE
