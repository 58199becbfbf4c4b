SPECIFICATION Spec
CONSTANTS
    r1 = r1
    r2 = r2
    r3 = r3
    Requests = {r1, r2, r3}
    Limiters = {"key_rpm", "key_tpm", "user_rpm", "team_rpm", "org_rpm", "daily"}
    Chain <- RateChain
    Kind <- RateKind
    Limit <- RateLimit
    Blank = Blank
    TokenCounts = {0, 1, 2}
    Window = 3
    MaxDelay = 1
    MaxTime = 5
    MaxActive = 2
SYMMETRY Symmetric
CHECK_DEADLOCK FALSE
INVARIANTS
    RequestRateHeld
    RefusedOnlyWhenFull
    QuotaOvershootBounded
