SPECIFICATION FairSpec
CONSTANTS
    c1 = c1
    c2 = c2
    Client = {c1, c2}
    MinClients = {1, 2}
    Capacity = 1
    MaxLines = 2
INVARIANTS
    LobbyWaitsForMore
    Consistent
PROPERTIES
    StopWaitsForPeersOnly
CHECK_DEADLOCK FALSE
