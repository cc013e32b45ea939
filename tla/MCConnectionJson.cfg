SPECIFICATION Spec
CONSTANTS
    Conns = {1}
    MaxConnections = 1
    Middlewares <- MCMiddlewares
    Faulty = {}
    Repliers = {0}
    Capacity = 2
    BatchSize = 2
    MaxDuration = 2
    IdleTimeout = 1
    Payloads <- MCPayloads
    Rewrite <- MCRewrite
    MaxSends <- MCMaxSends
INVARIANT
    JsonIsCurrent
CHECK_DEADLOCK FALSE
