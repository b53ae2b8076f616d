SPECIFICATION FairSpec
CONSTANTS
    c1 = c1
    c2 = c2
    None = None
    NUL = NUL
    Conns = {c1, c2}
    Leaving = {c2}
    Kinds = {"SUBSCRIBE", "SEND", "DISCONNECT"}
    Room = 1
    MaxRequests = 3
INVARIANTS TypeOK StreamsAreSet FramesStayWhole LastAnswerIsSent
 
CHECK_DEADLOCK FALSE
