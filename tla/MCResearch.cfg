CONSTANTS
    MoveWindow = 2
    MaxTries = 2
    Assets = {a1}
    Sessions = {s1, s2}
    Situations <- MCSituations
    Regimes <- MCRegimes
    Verdicts = {"THESIS_INTACT", "THESIS_INVALIDATED"}
    Observed <- MCObserved
    Opening = "THESIS_INTACT"
    Days = {0, 46}
    MaxRequests = 3
    MaxFaults = 1
    MaxNews = 1
SYMMETRY SessionSymmetry
SPECIFICATION Spec
CHECK_DEADLOCK FALSE
INVARIANTS
    TypeOK
    DuplicatesOnlyFromOverlap
    DoneIsWrittenUp
    AssessmentsAudited
    RecommendationsFitTheEvent
PROPERTIES
    FoundIsQueued
