SPECIFICATION Spec
CONSTANTS
    Node = {1, 26, 31}
    Rates = {3}
    Period <- NormalPeriod
    NormalRate = 3
    ElectionTicks = 50
    RecoveryTicks = 15
    JoinRetryTicks = 20
    JoinMaxAttempts = 5
    AbsencePeriods = 5
    WatchdogPeriods = 6
    ProbePeriods = 4
    TickMs = 100
    StaggerMs = 20
    TickMod = 5
    SyncMod = 5
    Horizon = 66
    Plans <- ArrivalInElection
INVARIANT HealthyNotAccused
