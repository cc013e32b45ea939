SPECIFICATION RegSpec
CONSTANTS
    e1 = e1
    e2 = e2
    p1 = p1
    k1 = k1
    a = a
    b = b
    c1 = c1
    c2 = c2
    s1 = s1
    s2 = s2
    pub1 = pub1
    pub2 = pub2
    EventIds = {e1, e2}
    PublicKeys = {p1}
    Kinds = {k1}
    TagNames = {}
    TagValues = {}
    NotALetter = NotALetter
    None = None
    Sessions = {a, b}
    Publishers = {pub1}
    Conns = {c1, c2}
    Scopes = {s1, s2}
    Subs = {u1}
    AddrOf <- SameAddress
    ScopeOf <- OwnScope
    Writers <- MCWriters
    Distributors <- MCDistributors
    FilterLists <- MCFilterLists
    Events <- OneEvent
    MaxFilters = 2
    MaxGroups = 2
    AuthorsPerLock = 1
    Unwinding = {}
    Capacity = 1
    MaxRequests = 1
    MaxPublishes = 1
INVARIANTS
    ScopeIsolation
CHECK_DEADLOCK FALSE
