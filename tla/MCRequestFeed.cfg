SPECIFICATION Spec
CONSTANTS
    p1 = p1
    NoLimitValue = NoLimitValue
    NoLimit = NoLimitValue
    Events <- MCEvents
    Stored <- MCStored
    Publishers = {p1}
    FilterLists <- MCFilterLists
    MaxLimit = 2
    MaxSubscriptions = 1
    MaxAttempts = 3
    MaxRequests = 3
    MaxFaults = 1
INVARIANTS
    StoredOnce
    NewestSent
    LostOnlyInGap
PROPERTIES
    RequestEnds
CHECK_DEADLOCK FALSE
