SPECIFICATION Spec
CONSTANTS
    c1 = c1
    c2 = c2
    c3 = c3
    p1 = p1
    p2 = p2
    Cpu = {c1, c2, c3}
    Port = {p1, p2}
    MaxPackets = 5
    NumFrames = 6
    RingSize = 3
    MaxArrivals = 9
INVARIANTS
    CountsExactUnlessFirstRace
    BlockedIsDropped
    
PROPERTIES
    LostOnlyFullOrUnprimed
CHECK_DEADLOCK FALSE
