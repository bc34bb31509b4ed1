CONSTANTS
    p1 = p1
    p2 = p2
    p3 = p3
    p4 = p4
    p5 = p5
    Processes = {p1, p2, p3, p4, p5}
    Killers = {p4, p5}
    NumAvailable = 1
SPECIFICATION LockSpec
INVARIANTS LimitKept
PROPERTIES RefusalsAreJustified
SYMMETRY LockSymmetry
CHECK_DEADLOCK FALSE
