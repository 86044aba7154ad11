SPECIFICATION FairSpec
CONSTANTS
    e1 = e1
    e2 = e2
    Endpoint = {e1, e2}
    FailureThreshold = 2
    RecoveryTimeout = 1
    ResultsCap = 1
    MaxFails = 2
INVARIANTS
    CallbackTellsStatus
    BreakerExact
    
PROPERTIES
    EventuallyRetried
    StopReturns
\* After Stop has returned nothing is left to do.
CHECK_DEADLOCK FALSE
