SPECIFICATION Spec
CONSTANTS
    c1 = c1
    c2 = c2
    c3 = c3
    Free = Free
    Listen = Listen
    Conns = {c1, c2}
    Asks <- FaultyAsks
    FirstFd = 3
    LastFd = 8
    Backlog = 1
    PipeCap = 1
    Buffered = 1
    ClientFaults = {"half", "gone"}
    SystemFaults = {"thread", "fork", "sendfile"}
SYMMETRY Symmetry
INVARIANTS FdIntegrity NoFdLeak OneStatusLine ExitAnswersOffender
PROPERTY RefinesService
CHECK_DEADLOCK FALSE
