SPECIFICATION Spec
CONSTANTS
    l1 = l1
    l2 = l2
    c1 = c1
    Line = {l1, l2}
    Client = {c1}
    Owner <- OneClient
    NoLine = NoLine
    MaxRetries = 2
    SeqLimit = 9
    OverlappingNextSeq = TRUE
    MaxServerRestarts = 0
INVARIANTS
    ConfirmedWasProcessed
CHECK_DEADLOCK FALSE
