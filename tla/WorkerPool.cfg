SPECIFICATION FairSpec
CONSTANTS
    c1 = c1
    c2 = c2
    c3 = c3
    c4 = c4
    c5 = c5
    w1 = w1
    w2 = w2
    s1 = s1
    s2 = s2
    Conn = {c1, c2, c3, c4, c5}
    Worker = {w1, w2}
    Stopper = {s1, s2}
    QueueSize = 1
    NoConn = NoConn
INVARIANTS
    OneOwner
    DrainedOnReturn
    ResourceCeiling

    
CHECK_DEADLOCK FALSE
