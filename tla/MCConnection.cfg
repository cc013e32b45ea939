SPECIFICATION Spec
CONSTANTS
    Conns = {1}
    MaxConnections = 1
    Middlewares <- MCMiddlewares
    Faulty = {2}
    Repliers = {0, 2}
    Capacity = 2
    BatchSize = 2
    MaxDuration = 2
    IdleTimeout = 1
    Payloads <- MCPayloads
    Rewrite <- MCRewrite
    MaxSends <- MCMaxSends
INVARIANTS
    ConnTypeOK
    PermitsExact
    WrittenAsProcessed
    HooksPaired
PROPERTIES
    WrittenInOrder
    TimesOut
    OutboundEnds
CHECK_DEADLOCK FALSE
