SPECIFICATION Spec
CONSTANTS
    p1 = p1
    p2 = p2
    police = police
    fire = fire
    TrueText = 5
    Clients = {p1, p2}
    Users <- MCUsers
    Channels = {police, fire}
    Files <- MCFiles
    MaxCommands = 4
    MaxEvents = 3
INVARIANTS TypeOK  NothingMissed
 
SYMMETRY MCSymmetry
CHECK_DEADLOCK FALSE
