SPECIFICATION FairSpec
CONSTANTS
    MaxBlock = 3
    MaxFaults = 1
    SolidReads = FALSE
    SolidSource = FALSE
CHECK_DEADLOCK FALSE
INVARIANTS
    LabelHonest
    NoLostWakeup
PROPERTIES
    LatestStored
