SPECIFICATION FairSpec
CONSTANTS
    Main = main
    Backups = {b1}
    MaxBlock = 4
    SkipThreshold = 1
    RefreshInterval = 1
    RecheckInterval = 2
    StartBlock = 1
    NodeLag = 0
    LateDeploy = TRUE
    MaxFaults = 1
    MaxRewinds = 0
PROPERTIES
    GapsGetRepaired
    MainCatchesUp
