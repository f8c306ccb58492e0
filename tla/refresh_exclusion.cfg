SPECIFICATION FairSpec
CONSTANTS
    Requests = {r1, r2}
    Tron = tron
    Bsc = bsc
INVARIANTS
    OneManualJob
    StatusTellsTheTruth
    FlagsAreReleased
