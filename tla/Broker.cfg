SPECIFICATION BrokerFairSpec
CONSTANTS
    a = a
    b = b
    btc = btc
    eth = eth
    Client = {a, b}
    Topic = {btc, eth}
    QueueCap = 1
    SocketCap = 1
    MaxEvents = 4
INVARIANTS
    FramesWhole
    StreamIsTopicLog

    
CHECK_DEADLOCK FALSE
