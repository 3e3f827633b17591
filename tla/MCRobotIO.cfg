SPECIFICATION FairSpec
CONSTANTS
    Requests = {r1, r2}
    NoRequest = NoRequest
    MaxPendingOperations = 1
    MaxPendingReads = 1
    Submissions <- AllCalls
INVARIANTS
    QueueConsistent
    AbandonedCallQuarantines
PROPERTIES
    PortKept
    StopsGetThrough
