SPECIFICATION MCSpec
CONSTANTS
    a = a
    b = b
    c = c
    d1 = d1
    d2 = d2
    d3 = d3
    None = None
    Requests = {r1, r2}
    MaxLosses = 1
    Models = {a}
    Deployments = {d1, d2}
    DeploymentsOf <- OneModel
    Allowed = {a}
    StandardFallbacks <- NoFallbacks
    ContextFallbacks <- NoFallbacks
    DefaultFallback = None
    NumRetries = 1
    AllowedFails = 2
    MaxParallel = 2
    Streams = {TRUE, FALSE}
SYMMETRY Symmetric
INVARIANTS
    BusyCountsCalls
    CooledDeploymentNotSelected
    ThresholdLeadsToCooldown
