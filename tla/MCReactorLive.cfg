SPECIFICATION FairSpec
CONSTANTS
    c1 = c1
    c2 = c2
    None = None
    Conns <- TwoConns
    Outcomes <- NoErrors
    Events <- NoEvents
    Frames <- OneEach
    SockCap = 1
PROPERTIES FramesAreWritten SelectorReturns TerminatedIsClosed
CHECK_DEADLOCK FALSE
