SPECIFICATION FairSpec
CONSTANTS
    MaxPackets = 1
    MaxEvents = 0
    NativeLimit = 1
    SessionLimit = 1
    None = None
    Callers = {c1, c2}
    NoCaller = NoCaller
    MaxRequests = 3
INVARIANTS
    BridgeInv
PROPERTIES
    CloseIsExact
    CallsReturn
    ImplementsBackend
CHECK_DEADLOCK FALSE
