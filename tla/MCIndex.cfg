SPECIFICATION MCSpec
CONSTANTS
    e1 = e1
    e2 = e2
    p1 = p1
    p2 = p2
    p3 = p3
    k1 = k1
    v1 = v1
    u1 = u1
    w1 = w1
    w2 = w2
    d1 = d1
    d2 = d2
    EventIds = {e1, e2}
    PublicKeys = {p1, p2, p3}
    Kinds = {k1}
    TagNames = {1}
    TagValues = {v1}
    NotALetter = NotALetter
    None = None
    Writers = {w1, w2}
    Distributors = {d1, d2}
    Scopes = {s1}
    Conns = {c1}
    Subs = {u1, u2}
    FilterLists <- MCFilterLists
    Events <- MCEvents
    MaxFilters = 3
    MaxGroups = 3
    AuthorsPerLock = 1
    MaxDistributions = 2
SYMMETRY TaskSymmetry
INVARIANTS
    IndexInv
    IndexExact
    SettledFindable
    OncePerDistribution
    AtLeastOnce
CHECK_DEADLOCK FALSE
