SPECIFICATION Spec
CONSTANTS
    c1 = c1
    c2 = c2
    c3 = c3
    u1 = u1
    u2 = u2
    p1 = p1
    p2 = p2
    t1 = t1
    t2 = t2
    None = None
    Conns <- TwoConns
    Users = {u1}
    Passwords = {p1, p2}
    Topics = {t1}
    Commands <- Everything
    PoolSize = 1
    MaxRequests = 4
INVARIANTS TypeOK OneSessionPerUser 
PROPERTIES ImplementsLoginRegistry
CHECK_DEADLOCK FALSE
