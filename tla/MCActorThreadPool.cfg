SPECIFICATION FairSpec
CONSTANTS
    a1 = a1
    a2 = a2
    s1 = s1
    s2 = s2
    w1 = w1
    w2 = w2
    None = None
    Acts <- MCActs
    Submitters <- TwoSubmitters
    Workers <- MCWorkers
    MaxTasks = 4
INVARIANTS TypeOK OneAtATime PlayingNowIsExact InSubmissionOrder
PROPERTIES ImplementsSerialActors SubmittedTaskRuns
CHECK_DEADLOCK FALSE
