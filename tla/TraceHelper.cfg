SPECIFICATION Spec
CONSTANTS
    MaxPackets = 1
    MaxEvents = 3
    NativeLimit = 1
    SessionLimit = 1
    None = None
    MaxRequests = 4
INVARIANTS
    OneBufferPerGeneration
PROPERTIES
    StatusesHold
CHECK_DEADLOCK FALSE
