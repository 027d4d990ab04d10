CONSTANTS
    DayLength = 2
    Jobs <- MCJobs
    Rank <- MCRank
    ScheduleOf <- MCScheduleOf
    Processes = {p1}
    MaxAttempts = 2
    MaxTime = 3
    MaxFaults = 0
    MaxManual = 0
SPECIFICATION FairSpec
PROPERTIES
    NoDaySkipped
