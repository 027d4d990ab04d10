CONSTANTS
    DayLength = 2
    Jobs <- MCJobs
    Rank <- MCRank
    ScheduleOf <- MCScheduleOf
    Processes = {p1, p2}
    MaxAttempts = 2
    MaxTime = 3
    MaxFaults = 1
    MaxManual = 1
SPECIFICATION FairSpec
INVARIANTS
    NoEarlyRepeat
PROPERTIES
    FaultsAreRetried
