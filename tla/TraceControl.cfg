SPECIFICATION FairSpec
CONSTANTS
    Owners = {f1, f2}
    None = None
    MaxOpens = 2
    MaxQueue = 1
    Requested = {"open", "read", "close"}
    Answers = {"good", "changed", "bad"}
INVARIANTS
    ControlInv
    ReceiptsHold
PROPERTIES
    NoOpenAfterUncertain
    ControlSettles
CHECK_DEADLOCK FALSE
