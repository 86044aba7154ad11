SPECIFICATION FairSpec
CONSTANTS
    c1 = c1
    c2 = c2
    Conn = {c1, c2}
    SocketCap = 1
    Price = {1, 2}
    Hashrate = {1, 2}
    DefaultAskPrice = 1
    PricePerTH = 1
    Served <- Connections
    MaxEvents <- Events
    MaxId = 4
INVARIANTS
    BookSettled
    NilCoversHandlers
PROPERTIES
    RevenueKept
    JobsReachReaders
CHECK_DEADLOCK FALSE
