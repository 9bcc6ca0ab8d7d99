SPECIFICATION FairSpec
CONSTANTS
    NULL = NULL
    r1 = r1
    r2 = r2
    r3 = r3
    r4 = r4
    Requests <- Three
    Steps <- NoSteps
    Operations <- AllOperations
    ContentLengths <- Ordinary
    Targets <- Detour
    Ttl = 2
    RedisTtl = 2
    CommitFirst = TRUE
    FreshIds = TRUE
    MaxWriters = 3
    Faults <- AllFaults
    MaxTime = 0
INVARIANTS
    TurnsAreStoredOnce
    AnsweredTurnsAreTold
    StoredMessagesAreTold
PROPERTIES
    EveryRequestEnds
