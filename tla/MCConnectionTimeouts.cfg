SPECIFICATION Spec
CONSTANTS
    Conns = {1}
    MaxConnections = 1
    Middlewares <- MCSmallMiddlewares
    Faulty = {}
    Repliers = {0}
    Capacity = 1
    BatchSize = 1
    MaxDuration = 1
    IdleTimeout = 1
    Payloads <- MCSmallPayloads
    Rewrite <- MCSmallRewrite
    MaxSends <- MCMaxSends
PROPERTIES
    TimeoutsEnforced
CHECK_DEADLOCK FALSE
