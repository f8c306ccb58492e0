SPECIFICATION Spec
CONSTANTS
    Main = main
    Backups = {b1}
    MaxBlock = 4
    SkipThreshold = 1
    RefreshInterval = 1
    RecheckInterval = 2
    StartBlock = 0
    NodeLag = 0
    LateDeploy = FALSE
    MaxFaults = 1
    MaxRewinds = 1
INVARIANTS
    NoBlockLost
    DoneMeansScanned
    NoHoleBelowBackup
PROPERTIES
    RepairStaysInGap
    LedgerSpec
