CONSTANTS
    Callers = {c1, c2, c3, c4, c5}
    MaxConcurrent = 2
    MaxQueued = 2
SPECIFICATION FairSpec
INVARIANTS
    TypeOK
    ActiveCountsHolders
    QueueHoldsPendingWaiters
    NoIdleSlotWhileWaiting
PROPERTIES
    WaiterSettles
    ImplementsPromise
