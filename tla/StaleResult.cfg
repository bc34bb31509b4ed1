CONSTANTS
    a = a
    b = b
    Steps = {a, b}
    MaxRuns = 4
    Capacities = {2}
    KeepAlive = TRUE
    Assistant = FALSE
    EarlyRetry = TRUE
SPECIFICATION LoopSpec
INVARIANTS OneProcessPerStep
CHECK_DEADLOCK FALSE
