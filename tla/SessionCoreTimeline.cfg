SPECIFICATION Spec
CONSTANTS
    MaxStamp = 2
    MaxRequests = 1
    Breakpoints = {1, 2}
    OtherCauses = {"step"}
    Hints = {2}
    Anomalies <- MCStampsHold
INVARIANTS
    StopInv
    IndInv
PROPERTIES
    CanonicalStops
    FailsClosedOnlyOnCycle
    ImplementsTimeline
CHECK_DEADLOCK FALSE
