CONSTANTS
    base = base
    twin = twin
    moving = moving
    steady = steady
    Days = 4
    InitialCash = 1000
    CommissionBps = 500
    SlippageBps = 1000
    MaxRangeDays = 10
    Runs <- MCRuns
    Tickers <- MCTickers
    Universe <- MCUniverse
    Histories <- MCHistories
    Requests <- MCRequests
    LoadedBars <- RequestBars
    InWindow <- RequestWindow
    OnBar <- MCOnBar
    Size <- StandardSize
SPECIFICATION Spec
INVARIANTS
    TypeOK
    NoLookAhead
    BooksAgree
    TestPeriodsSealed
