SPECIFICATION FairSpec
CONSTANTS
    a = a
    b = b
    c = c
    Requests = {a, b, c}
    Key <- MCKey
    Guarded = {a, b}
    Other = other
    MaxRevision = 2
CHECK_DEADLOCK FALSE
INVARIANTS
    WritesTypeOK
    AppliedOnce
    AuditTrue
PROPERTIES
    WriteSettles
