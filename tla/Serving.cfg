SPECIFICATION FairSpec
CONSTANTS
    NULL = NULL
    r1 = r1
    r2 = r2
    r3 = r3
    Requests <- Three
    DbLimit = 2
    RedisLimit = 1
    MaxStarts = 2
INVARIANTS
    TypeOK
    NoCircularWait
    SharedPools
    NothingLeftOpen
PROPERTIES
    RequestsGiveBack
    ShutdownEnds
