SPECIFICATION Spec
CONSTANTS
    c1 = c1
    c2 = c2
    None = None
    Conns <- TwoConns
    Outcomes <- AllOutcomes
    Events <- NoEvents
    Frames <- OneEach
    SockCap = 1
INVARIANTS LoopEndsOnRequestOnly
CHECK_DEADLOCK FALSE
