SPECIFICATION Spec
CONSTANTS
    c1 = c1
    c2 = c2
    c3 = c3
    Requests <- MCRequests
    Steps <- MCSteps
    ContentLengths <- MCContentLengths
    Ttl = 2
    MaxTime = 3
    MaxRevision = 6
SYMMETRY Symmetric
INVARIANTS
    TypeOK
    MessagesNumbered
    SubmittedIsPastEditing
    MilestonesInOrder
    DeadlineFollowsActivity
PROPERTIES
    TerminalIsFinal
    EveryMutationIsCounted
