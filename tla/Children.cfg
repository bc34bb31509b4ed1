CONSTANTS
    a = a
    b = b
    Steps = {a, b}
    MaxRuns = 2
    Capacities = {1, 2}
    KeepAlive = TRUE
    Assistant = FALSE
    EarlyRetry = FALSE
SPECIFICATION FairLoopSpec
INVARIANTS LoopTypeOK DoneMeansWhole StopsClean
PROPERTIES ProcessesImplementLife EveryRunIsReported WorkerStops
CHECK_DEADLOCK FALSE
