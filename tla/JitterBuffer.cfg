SPECIFICATION FairSpec
CONSTANTS
    MaxSeq = 3
    MaxCopies = 2
    Deadline = 1
    MaxTime = 4
INVARIANTS
    OnlyLateOutOfOrder
    
    ReportHolds

    
