SPECIFICATION ClockSpec
CONSTANTS
    Node = {6, 31}
    Rates = {3, 5}
    Period <- TwoPeriods
    NormalRate = 3
    ElectionTicks = 10
    RecoveryTicks = 3
    JoinRetryTicks = 4
    JoinMaxAttempts = 5
    AbsencePeriods = 5
    WatchdogPeriods = 6
    ProbePeriods = 4
    TickMs = 500
    StaggerMs = 20
    TickMod = 5
    SyncMod = 5
    Horizon = 13
    Plans <- OutagesAndCommands
INVARIANT TypeOK OfficeKnown FollowsAnother VacancyBounded SplitBounded FaultAgreed
PROPERTY FaultMemory
