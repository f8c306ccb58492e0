SPECIFICATION Spec
CONSTANTS
    Main = main
    Backups = {b1, b2}
    Key <- OwnKeys
    MaxBlock = 4
    SkipThreshold = 0
    StartBlock = 0
    Confirmations = 1
    LateDeploy = FALSE
    MaxFaults = 1
    MaxRewinds = 0
SYMMETRY Symmetry
INVARIANTS
    NoRefreshLost
    ClaimsExclusive
    BackupPassesNothing
    DoneMeansRefreshed
