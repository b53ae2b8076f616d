SPECIFICATION Spec
CONSTANTS
    c1 = c1
    c2 = c2
    None = None
    Conns <- TwoConns
    Outcomes <- AllOutcomes
    Events <- AllEvents
    Frames <- OneEach
    SockCap = 1
SYMMETRY Symmetry
CONSTRAINT LoopRuns
INVARIANTS TypeOK NoLostWrite NoLostWakeup
CHECK_DEADLOCK FALSE
