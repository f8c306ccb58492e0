SPECIFICATION Spec
CONSTANTS
    Clients = {c1, c2}
    Tags = {t1, t2}
    Count = 2
    Batch = 1
    MaxFaults = 2
SYMMETRY Alike
INVARIANTS
    SlotIsExclusive
    NoSecondTransfer
    ReportIsTrue
    KeysAreKept
