SPECIFICATION Spec
CONSTANTS
    e1 = e1
    e2 = e2
    p1 = p1
    p2 = p2
    k1 = k1
    k2 = k2
    v1 = v1
    v2 = v2
    EventIds = {e1, e2}
    PublicKeys = {p1, p2}
    Kinds = {k1, k2}
    TagNames = {1, 2}
    TagValues = {v1, v2}
    NotALetter = NotALetter
    MaxTags = 2
    MaxLabels = 4
    MaxTokens = 3
    MaxDamage = 2
    MaxEntries = 2
    h1 = h1
    h2 = h2
    Unscoped = Unscoped
    NoId = NoId
    Panic = Panic
    OtherBytes = OtherBytes
    BatchSize = 2
    Number = Number
    Blank = Blank
    Garbage = Garbage
    Addresses <- MCAddresses
    LocalLabels = {"localhost", "mylocalhost"}
    EndIn127 = {"127"}
    BeginWith1 = {"1", "10"}
    LocalRests = {"443/localhost"}
INVARIANTS
    Complete
    AuthUrlExact
    TransferExact
    RepairSound
CHECK_DEADLOCK FALSE
