SPECIFICATION FairSpec
CONSTANTS
    k1 = k1
    Nothing = Nothing
    Streams = {s1, s2}
    CacheKeys = {k1}
    KeyOf <- AllTheSame
    Deltas = 1
    Modes = {"normal", "no_cache"}
CHECK_DEADLOCK FALSE
INVARIANTS
    CachedWhole
    
PROPERTIES
    StreamsEnd
    CachedIsBilled
