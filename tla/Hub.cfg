SPECIFICATION FairSpec
CONSTANTS
    a = a
    b = b
    c = c
    r1 = r1
    r2 = r2
    Client = {a, b, c}
    Room = {r1, r2}
    RoomOf <- TwoRooms
    SendCap = 1
    MaxMessages <- Two
INVARIANTS
    NoPanic
    

    
CHECK_DEADLOCK FALSE
