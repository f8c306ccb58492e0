SPECIFICATION RecordsFairSpec
CONSTANTS
    alice = alice
    bob = bob
    carol = carol
    Block <- ThreeTransactions
    Steady = {alice, bob}
    Edited = {carol}
    TxWorkers = 2
    MaxFaults = 2
    MaxStops = 1
INVARIANTS
    SavedMeansRecorded
    ToldIsStored
PROPERTIES
    SaveCoversBalances
    BlockGetsSaved
