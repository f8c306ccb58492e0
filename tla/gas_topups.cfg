SPECIFICATION FairSpec
CONSTANTS
    Singles = {s1}
    Batches = {b1, b2}
    Total = 2
    ToolTotal = 1
    MaxBeside = 1
    MaxFaults = 1
CHECK_DEADLOCK FALSE
INVARIANTS
    SuccessIsOnChain
    StatusTellsTheTruth
PROPERTIES
    BatchEnds
