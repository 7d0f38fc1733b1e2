SPECIFICATION Spec
CONSTANTS
    Writers = {w1, w2, w3}
    Results = {r1, r2}
    None = None
    MaxAppends = 3
INVARIANTS
    TypeOK
    LoudOrComplete
    IdsNumberRows
    WholeRowsStayReadable
PROPERTIES
    ReadsGrow
    ImplementsLog
CHECK_DEADLOCK FALSE
