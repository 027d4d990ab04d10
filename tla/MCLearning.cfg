CONSTANTS
    ShortPeriod = 2
    LongPeriod = 3
    SlopeWindow = 2
    Turbulent <- MCTurbulent
    TrendWindow = 3
    MomentumWindow = 1
    RsiPeriod = 2
    Assets = {a1}
    Benchmark = a1
    Histories <- MCHistories
    MinCloses = 2
    Situations <- MCSituations
    FirstTheses = {"none", "THESIS_INVALIDATED"}
    Verdicts = {"THESIS_INTACT", "THESIS_INVALIDATED"}
    MaxDay = 3
    MaxEvents = 2
    MonthDays = 1
    Horizon = 2
    Company <- MCCompany
    Closings <- MCClosings
    MaxTries = 2
    Sessions = {worker, caller}
    Worker = worker
    AsOfOffsets <- MCOffsets
SPECIFICATION Spec
CHECK_DEADLOCK FALSE
INVARIANTS
    TypeOK
    SettledReviewsStand
    NoteMirrorsReview
    LineageKept
PROPERTIES
    WarningsComeFirst
