SPECIFICATION FairSpec
CONSTANTS
    c1 = c1
    c2 = c2
    None = None
    Conns <- TwoConns
    Outcomes <- NoLogout
    Events <- Leave
    Frames <- OneEach
    SockCap = 1
PROPERTIES SelectorReturns
CHECK_DEADLOCK FALSE
