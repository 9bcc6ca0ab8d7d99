SPECIFICATION Spec
CONSTANTS
    NULL = NULL
    r1 = r1
    r2 = r2
    r3 = r3
    r4 = r4
    Requests <- Four
    Steps <- NoSteps
    Operations <- AllOperations
    ContentLengths <- Boundary
    Targets <- Detour
    Ttl = 2
    RedisTtl = 2
    CommitFirst = TRUE
    FreshIds = TRUE
    MaxWriters = 1
    Faults <- NoFaults
    MaxTime = 0
SYMMETRY SymmetricFour
INVARIANTS
    ValidContentIsAccepted
