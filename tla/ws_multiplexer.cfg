\* Three messages on up to two of three lanes: admission, order, draining, expiry and termination.
SPECIFICATION FairSpec
CONSTANTS
    l1 = l1 l2 = l2 l3 = l3
    Lanes = {l1, l2, l3}
    MaxRequests = 3
    Messages <- MCMessages
    MaxOutstanding = 3
    MaxBytes = 3
    MaxLanes = 2
    Buffer = 1
    Identities = TRUE
    None = None
INVARIANTS
    AnsweredOnce
    AccountingExact
    LaneOrder
PROPERTIES
    QueuedRequestEnds
    ShutdownCloses
