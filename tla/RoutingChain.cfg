SPECIFICATION MCFairSpec
CONSTANTS
    a = a
    b = b
    c = c
    d1 = d1
    d2 = d2
    d3 = d3
    None = None
    Requests = {r1}
    MaxLosses = 2
    Models = {a, b, c}
    Deployments = {d1, d2, d3}
    DeploymentsOf <- OneEach
    Allowed = {a, b, c}
    StandardFallbacks <- Chain
    ContextFallbacks <- ContextChain
    DefaultFallback = None
    NumRetries = 1
    AllowedFails = 2
    MaxParallel = 0
    Streams = {FALSE}
INVARIANTS
    CallsBounded
    ChainExhaustedBeforeFailure
PROPERTIES
    RequestsEnd
