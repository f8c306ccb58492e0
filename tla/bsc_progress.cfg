SPECIFICATION FairSpec
CONSTANTS
    Main = main
    Backups = {b1}
    Key <- OwnKeys
    MaxBlock = 6
    SkipThreshold = 2
    StartBlock = 1
    Confirmations = 1
    LateDeploy = TRUE
    MaxFaults = 0
    MaxRewinds = 1
INVARIANTS
    RefreshNotForgotten
    UnbookedIsInGap
PROPERTIES
    GapsGetRepaired
    StaleMainTakenOver
