SPECIFICATION FairSpec
CONSTANTS
    l1 = l1
    l2 = l2
    c1 = c1
    Line = {l1, l2}
    Client = {c1}
    Owner <- OneClient
    NoLine = NoLine
    MaxRetries = 2
    SeqLimit = 2
    OverlappingNextSeq = FALSE
    MaxServerRestarts = 1
INVARIANTS
    WaiterIsRegistered
    ConfirmedWasProcessed
    AtMostOncePerServerRun
PROPERTIES
    ImplementsPromise
    EverySendReturns
CHECK_DEADLOCK FALSE
