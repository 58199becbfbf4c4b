SPECIFICATION MCSpec
CONSTANTS
    k1 = k1
    k2 = k2
    k3 = k3
    Keys = {k1, k2, k3}
    Models = {"m", "n"}
    ModelOf <- MCModelOf
    TtlOf <- MCTtlOf
    Overrides = {1}
    Slack = 1
    MaxAges = {0}
    NoAge = NoAge
    Delay = 1
    NoKey = NoKey
    Handlers = {w1, w2}
    MaxSize = 2
    MaxTime = 3
SYMMETRY Symmetric
INVARIANTS
    TypeOK
    IndexCovers
    InvalidationComplete
    HitsAreFresh
    RecentlyUsedStays
