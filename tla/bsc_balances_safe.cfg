SPECIFICATION BscFairSpec
CONSTANTS
    BNBs <- MaybeOne
    USDTs <- MaybeTwo
    NoAmount = none
    Full = TRUE
    MaxTransfers = 2
    MaxFaults = 1
CHECK_DEADLOCK FALSE
INVARIANTS
    RowWasOwned
