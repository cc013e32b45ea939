SPECIFICATION DeliverySpec
CONSTANTS
    e1 = e1
    e2 = e2
    p1 = p1
    k1 = k1
    a = a
    b = b
    c1 = c1
    c2 = c2
    s1 = s1
    s2 = s2
    u1 = u1
    pub1 = pub1
    pub2 = pub2
    EventIds = {e1, e2}
    PublicKeys = {p1}
    Kinds = {k1}
    TagNames = {}
    TagValues = {}
    NotALetter = NotALetter
    None = None
    Sessions = {a}
    Publishers = {pub1, pub2}
    Conns = {c1}
    Scopes = {s1, s2}
    Subs = {u1, u2}
    AddrOf <- OwnAddress
    ScopeOf <- SameScope
    Writers <- MCWriters
    Distributors <- MCDistributors
    FilterLists <- MCFilterLists
    Events <- TwoEvents
    MaxFilters = 3
    MaxGroups = 3
    AuthorsPerLock = 1
    Unwinding = {}
    Capacity = 1
    MaxRequests = 3
    MaxPublishes = 2
INVARIANTS
    ScopeIsolation
    NoSilentLoss
    MetricExactInTime
    IndexMirrorsInTime
CHECK_DEADLOCK FALSE
