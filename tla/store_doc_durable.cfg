SPECIFICATION Spec
CONSTANTS
    Writers = {w1}
    Results = {r1, r2}
    None = None
    MaxAppends = 3
INVARIANTS
    AppendedRowsAreReadable
CHECK_DEADLOCK FALSE
