CONSTANTS
    ModelList <- MCModelList
    Requests <- MCRequests
    RateKeys <- MCRateKeys
    Fingerprints <- MCFingerprints
    Pricing <- MCPricing
    CharsPerToken = 4
    Ttl <- MCTtl
    Limit <- MCLimit
    AiEnabled = TRUE
    Minute = 1
    Hour = 2
    HourLen = 1
    DayLen = 2
    MonthLen = 2
    WarnPercent = 50
    Threads = {t1, t2}
    Asked = {"research", "other", "private"}
    MaxTime = 0
    PerMinute = 1
    PerHour = 0
    PerRequest = 0
    HourLimit = 0
    DayLimit = 2
    Usages <- MCUsages
    AllowUnpriced = FALSE
    AuditMayFail = TRUE
    MaxRequests = 2
    MaxRestarts = 1
    Operated = {}
SPECIFICATION FairSpec
PROPERTIES
    EveryRequestEnds
    ImplementsAnswerService
