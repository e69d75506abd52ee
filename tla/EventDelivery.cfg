SPECIFICATION FairDeliverySpec
CONSTANTS
    MaxStamp = 1
    MaxRequests = 1
    Breakpoints <- MCNoBreakpoints
    OtherCauses = {"user"}
    Hints = {}
    Anomalies <- MCTransport
    EventBuffer = 3
    QueueSize = 1
    MaxConnections = 2
INVARIANTS
    DeliveryInv
PROPERTIES
    ClientConverges
    FailureEndsFrontend
CHECK_DEADLOCK FALSE
