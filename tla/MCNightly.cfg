CONSTANTS
    DayLength = 2
    Jobs <- MCJobs
    Rank <- MCRank
    ScheduleOf <- MCScheduleOf
    Processes = {p1}
    MaxAttempts = 1
    MaxTime = 4
    MaxFaults = 1
    MaxManual = 0
    PriceStale = 2
    PriceCritical = 3
    ThesisStale = 3
    QueueStale = 2
    SchedulerQuiet = 2
    FailureWindow = 1
    RunLimit = 3
    CashTolerance = 0
    WeekDays = 2
    MonthDays = 2
    Assets = {a1}
    ServedDays = {0, 2}
    Backlog <- MCBacklog
    Recorded = {"signal"}
    Configs <- MCConfigs
    MaxChanges = 1
SPECIFICATION NightSpec
INVARIANTS
    PricesBeforeReport
    NothingFallsBetween
    HealthIsHonest
CHECK_DEADLOCK FALSE
