CONSTANTS
    d0 = d0
    c1 = c1
    c2 = c2
    e1 = e1
    e2 = e2
    Daemons = {c1, c2}
    Ensurers = {e1, e2}
    Child <- MCChild
    Digests = {1, 2}
    Projects <- MCOneProject
    NoOne = NoOne
SPECIFICATION Spec
CHECK_DEADLOCK FALSE
INVARIANT EnsuresConverge
