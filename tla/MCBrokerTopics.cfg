SPECIFICATION Spec
CONSTANTS
    c1 = c1
    c2 = c2
    c3 = c3
    u1 = u1
    u2 = u2
    p1 = p1
    p2 = p2
    t1 = t1
    t2 = t2
    None = None
    Conns <- ThreeConns
    Users = {u1}
    Passwords = {p1}
    Topics = {t1, t2}
    Commands <- Topical
    PoolSize = 2
    MaxRequests = 4
SYMMETRY SymmetryThree
INVARIANTS  SendReachesSubscribers 
CHECK_DEADLOCK FALSE
