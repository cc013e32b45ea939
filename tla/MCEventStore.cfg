SPECIFICATION Spec
CONSTANTS
    t1 = t1
    t2 = t2
    buf = buf
    Tasks = {t1, t2}
    Buffer = buf
    Events <- MCEvents
    Plans <- MCPlans
    QueueCapacity = 1
    SignCapacity = 2
    MaxPlans = 2
INVARIANTS
    StoreTypeOK
    OkMeansStored
    NothingLost
PROPERTIES
    ImplementsPublication
    HandleEventReturns
    BufferFlushed
CHECK_DEADLOCK FALSE
