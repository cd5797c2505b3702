SPECIFICATION Spec
CONSTANTS
    c1 = c1
    c2 = c2
    c3 = c3
    Free = Free
    Listen = Listen
    Conns = {c1, c2}
    Asks <- LowerAsks
    FirstFd = 3
    LastFd = 13
    Backlog = 1
    PipeCap = 1
    Buffered = 0
    ClientFaults = {}
    SystemFaults = {}
SYMMETRY Symmetry
INVARIANTS LengthIsForPost
CHECK_DEADLOCK FALSE
