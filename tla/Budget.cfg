SPECIFICATION MCSpec
CONSTANTS
    k1 = k1
    k2 = k2
    Keys = {k1, k2}
    Accounts = {"vk1", "vk2", "user", "team", "org"}
    NoAccount = NoAccount
    AccountOf <- MCAccountOf
    Requests = {r1, r2}
    Limits = {0, 1}
    NoLimit = NoLimit
    MaxCost = 1
    MaxCharged = 3
    MaxSettings = 1
SYMMETRY Symmetric
INVARIANTS
    TypeOK
    OvershootBounded
    ExhaustedNeverAdmitted
    UpperLevelsCoverKeys
    LogsNeverExceedBilling
PROPERTIES
    ImplementsLedger
