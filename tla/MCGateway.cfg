CONSTANTS
    ModelList <- MCModelList
    Requests <- MCRequests
    RateKeys <- MCRateKeys
    Fingerprints <- MCFingerprints
    Pricing <- MCPricing
    CharsPerToken = 4
    Ttl <- MCTtl
    Limit <- MCLimit
    AiEnabled = TRUE
    Minute = 1
    Hour = 2
    HourLen = 1
    DayLen = 2
    MonthLen = 2
    WarnPercent = 50
    Threads = {t1, t2}
    Asked = {"research", "private", "nofrontier"}
    MaxTime = 1
    PerMinute = 2
    PerHour = 0
    PerRequest = 0
    HourLimit = 0
    DayLimit = 3
    Usages <- MCAllUsages
    AllowUnpriced = TRUE
    AuditMayFail = TRUE
    MaxRequests = 2
    MaxRestarts = 1
    Operated = {"anthropic"}
SYMMETRY ThreadSymmetry
SPECIFICATION Spec
INVARIANTS
    SingleFlight
    NoLeakedClaim
    PolicyHeldAtCall
    CachedAnswerSound
    AnswersAudited
