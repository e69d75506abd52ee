SPECIFICATION FairSpec
CONSTANTS
    Cores = {0, 1}
    FirstCore = 0
    DefaultCores = {1}
    MaxID = 3
    MaxInt = 3
    Word = 4
    PageArguments <- MCPageArguments
    Filters = {"indexed"}
    Offsets <- MCOffsets
    FrameCounts = {1}
    Snapshots <- MCSnapshots
    Indexed = {2}
    Addresses = {3}
    MaxEpoch = 1
    MaxQueue = 2
    Operations = {"stack", "scopes", "variables", "evaluateTop", "memory"}
    Threads = {1}
    OtherDuring = {"idle"}
    Abandoned = {"evaluateTop"}
INVARIANTS
    ReferencesKeepMeaning
    ReferencesLastTheirStop
    InspectionInv
PROPERTIES
    RequestsAnswered
CHECK_DEADLOCK FALSE
