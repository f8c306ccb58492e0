SPECIFICATION FairSpec
CONSTANTS
    a1 = a1
    Addresses = {a1}
    Handlers = {h1, h2}
    Runner = runner
    MaxCacheFaults = 1
    Transfers = {t1}
    QueueSize = 1
    MaxAges = 1
    MaxCalls = 2
    MaxRestarts = 1
    AddressOf <- OneAddress
INVARIANTS
    RepeatsHaveACause
PROPERTIES
    CacheCatchesUp
