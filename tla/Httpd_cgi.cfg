SPECIFICATION Spec
CONSTANTS
    c1 = c1
    c2 = c2
    c3 = c3
    Free = Free
    Listen = Listen
    Conns = {c1, c2}
    Asks <- CgiAsks
    FirstFd = 3
    LastFd = 13
    Backlog = 1
    PipeCap = 1
    Buffered = 1
    ClientFaults = {}
    SystemFaults = {}
INVARIANT EofMeansComplete
PROPERTY OnlyFullPipesHang
CHECK_DEADLOCK FALSE
