CONSTANTS
    Sessions = {s1, s2}
    Portfolios = {p1, p2}
    Assets = {a1}
    InitialCash = 10
    Quantities = {10}
    Prices = {1, 2}
    MaxTrades = 1
    MaxProposals = 1
SPECIFICATION Spec
SYMMETRY Interchangeable
INVARIANTS
    NoOverdraft
    LedgerReplaysUnlessStale
    ApprovalGate
    ClosedMeansSold
PROPERTIES
    SnapshotIsPointInTime
