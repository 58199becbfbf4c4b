SPECIFICATION TasksSpec
CONSTANTS
    Total = 3
    Clients = {c1}
    MaxFaults = 2
    Keys = {k1, k2}
    Period <- PeriodOfTwo
    MaxNow = 2
    MaxAborts = 1
CHECK_DEADLOCK FALSE
INVARIANTS
    RepliesAreListed
    CompletedIsCharged
    CompletedIsWhole
    ResetsSpaced
PROPERTIES
    CompletesUnlessLost
    DueIsReset
