SPECIFICATION FairSpec
CONSTANTS
    Singles = {s1}
    Jobs = {j1, j2}
    Orders = {o1}
    Tool = tool
    Sweep = sweep
    Total = 2
    QueueSize = 1
    Settings <- SomeSettings
    Clock <- SomeHours
    Defaults <- SomeDefaults
    Configured = {"trxfee", "catfee"}
    MaxFaults = 1
CHECK_DEADLOCK FALSE
INVARIANTS
    PaidOnce
    JobStatusIsTrue
    ProviderOfTheHour
PROPERTIES
    FinishedStays
    AcceptedIsHandled
