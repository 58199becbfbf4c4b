SPECIFICATION Spec
CONSTANTS
    k1 = k1
    Nothing = Nothing
    Streams = {s1, s2}
    CacheKeys = {k1}
    KeyOf <- AllTheSame
    Deltas = 2
    Modes = {"normal", "no_store"}
CHECK_DEADLOCK FALSE
INVARIANTS
    HitsAreWhole
