SPECIFICATION StreamsSpec
CONSTANTS
    GroupSize = 4
    MaxFaults <- Faults
    MaxTicks <- Ticks
INVARIANTS
    
    ReportIsTrue
    
CHECK_DEADLOCK FALSE
