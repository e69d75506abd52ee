CONSTANTS
    d0 = d0
    c1 = c1
    c2 = c2
    e1 = e1
    e2 = e2
    Daemons = {d0, c1, c2}
    Ensurers = {e1}
    Child <- MCChild
    Digests = {1, 2}
    Projects <- MCProjects
    NoOne = NoOne
SPECIFICATION FairSpec
CHECK_DEADLOCK FALSE
INVARIANTS
    OneRuntime
    RendezvousInv
PROPERTIES
    DeadFileGoes
