SPECIFICATION FairSpec
CONSTANTS
    None = None
    Prepares = {TRUE, FALSE}
    Configurations = {{"elf0"}, {"elf0", "elf1"}}
    MaxOperations = 1
INVARIANTS
    WireInv
    EndsClean
    NothingStranded
PROPERTIES
    DaemonSettles
CHECK_DEADLOCK FALSE
