SPECIFICATION Spec
CONSTANTS
    c1 = c1
    c2 = c2
    Conns = {c1, c2}
    Host <- MCHost
    RelayUrl <- MCRelayUrl
    ScopeConfig <- MCScopeConfig
    Addresses <- MCAddresses
    LocalLabels = {"localhost"}
    EndIn127 = {"127"}
    BeginWith1 = {"1"}
    LocalRests = {}
    ProcessorErrors <- MCErrors
    EnableAuth = TRUE
    EnableMetrics = FALSE
    WithoutDefaults = FALSE
    Custom <- MCCustom
    Messages <- MCMessages
    MaxSubscriptions = 1
    Capacity = 1
    Burst = 1
    GlobalBurst = 2
    AuthAge = 0
    MaxClock = 1
    MaxConnects = 2
INVARIANTS
    AuthBound
    NoReplay
    ProtectedByAuthor
    QuotaHolds
    Answered
PROPERTIES
    KeyFixed
CHECK_DEADLOCK FALSE
