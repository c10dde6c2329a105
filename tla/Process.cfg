CONSTANTS
    Inputs <- MCInputs
    Restarts <- TokenInputs
    MaxStarts = 3
    Paths = {"default", "p"}
    GUARD = 2
    MIN_LIFETIME = 4
    Lifetimes = {0, 3, 4, 6}
    Jumps = {3}
    Horizon = 10
    Calls = {c1}
    MAX_429_RETRIES = 3
    MAX_5XX_RETRIES = 1
    Cap = 4
    MaxMinute = 1
    BACKOFF_BASE = 500
    BACKOFF_MAX = 30000
    Jitters = {249}
    RETRY_AFTER_CAP = 30000
    Waits = {1150}
    FULL_LIFETIME = 120000
    TokenLives = {0, 61000, 120000}
    TraceIds = {"t", "binary"}
    RetryAfters <- MCRetryAfters
SPECIFICATION ProcessSpec
INVARIANTS
    HighestLayerWins
    GateIsExact
    TokensStayHome
    NeverHandedOutDead
    ExpiryCostsOneRefresh
    ReportTellsLastAnswer
PROPERTIES
    ServesAuthorized
    NoRefreshLoop
CHECK_DEADLOCK FALSE
