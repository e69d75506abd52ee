SPECIFICATION FairSpec
CONSTANTS
    MaxOwners = 2
    MaxClients = 2
    EventBuffer = 1
    QueueSize = 1
    Runs <- MCRuns
INVARIANTS
    FrontendsInv
    EventsReachOwner
    ConsoleComplete
PROPERTIES
    HoldingsComeFree
    ShutdownEnds
CHECK_DEADLOCK FALSE
