SPECIFICATION FairSpec
CONSTANTS
    f1 = f1
    f2 = f2
    Lines = {10, 20}
    Instances <- MCInstances
    MaxRequests = 2
    MaxQueue = 1
    ClearFailures = {"kept"}
INVARIANTS
    StoreInv
    LiveIsWhole
PROPERTIES
    PlacedIsTracked
    CleanupWorks
CHECK_DEADLOCK FALSE
