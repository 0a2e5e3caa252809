\* Three calls that are the first of a worker, at once.
CONSTANTS
    Callers = {c1, c2, c3}
    WaitExpires = TRUE
SPECIFICATION FairLoopSpec
INVARIANT
    LoopTypeOK
PROPERTIES
    SettledStays
    GetReturns
    SharedLoopRuns
