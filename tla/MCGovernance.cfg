CONSTANTS
    ModelList <- MCModelList
    Requests <- MCRequests
    Threads = {t1, t2}
    MaxTime = 3
    RateKeys = {k1}
    PerMinute = 1
    PerHour = 2
    Minute = 1
    Hour = 2
    MaxHits = 4
    PerRequest = 3
    Limit <- MCLimit
    HourLimit = 3
    DayLimit = 4
    MonthLimit = 5
    HourLen = 1
    DayLen = 2
    MonthLen = 2
    WarnPercent = 80
    Projections = {1, 2, 4}
    Actuals = {1, 2}
    MaxEntries = 4
SYMMETRY ThreadSymmetry
SPECIFICATION MCSpec
INVARIANTS
    NoHitForgotten
    NoSpendForgotten
    OvershootBounded
    RoutingPolicy
