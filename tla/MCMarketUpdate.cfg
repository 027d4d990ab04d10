CONSTANTS
    a1 = a1
    a2 = a2
    yahoo = yahoo
    alphavantage = alphavantage
    mock = mock
    DayLength = 1
    Assets = {a1, a2}
    Rank <- MCRank
    Benchmark = a1
    Candidates <- MCCandidates
    Synthetic <- MCSynthetic
    Offset <- MCOffset
    Overlap = 1
    Backfill = 3
    MinCloses = 4
    Processes = {p1, p2}
    MaxTime = 3
    Versions = {1, 2}
    Quote <- MCQuote
    MaxFaults = 1
SPECIFICATION Spec
SYMMETRY ProcessSymmetry
INVARIANTS
    TypeOK
    WindowsCover
    BarsAccounted
    NoDeadlock
