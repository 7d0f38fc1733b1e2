SPECIFICATION Spec
CONSTANTS
    Procs = {p1, p2, p3}
    Path = {key, pub}
    None = None
    MaxRemovals = 1
INVARIANTS
    TypeOK
    PairsMatch
    FinishedKeygensLeaveKeys
PROPERTIES
    PrivateKeysStay
CHECK_DEADLOCK FALSE
