SPECIFICATION Spec
CONSTANTS
    Indices = {0, 1, 2}
    Tokens = {1, 2}
INVARIANTS
    ClearedIsGone
    ForeignUntouched
