SPECIFICATION Spec
CONSTANTS
    by_operator = by_operator
    by_agent = by_agent
    ill_formed = ill_formed
    None = None
    Writers = {w1, w2}
    Results <- ThreeResults
    IllFormed = {ill_formed}
    Foreign = {note}
    Authority <- Authorities
    AuthorityOf <- VouchedBy
    MaxId = 4
INVARIANTS
    TypeOK
    DurableAppendsAreKept
PROPERTIES
    ImplementsLog
CHECK_DEADLOCK FALSE
