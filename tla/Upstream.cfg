CONSTANTS
    a = a
    b = b
    c = c
    Steps = {a, b, c}
    Statuses = {"PENDING", "RUNNING", "FAILED", "DISABLED", "UNKNOWN", "DONE", "ABSENT"}
SPECIFICATION FairUpstreamSpec
INVARIANTS NothingInvented EntriesAreExact
PROPERTIES WalkEnds
CHECK_DEADLOCK FALSE
