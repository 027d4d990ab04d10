CONSTANTS
    Sessions = {s1, s2}
    Portfolios = {p1}
    Assets = {a1}
    InitialCash = 20
    Quantities = {10}
    Prices = {1, 2}
    MaxTrades = 1
    MaxProposals = 1
SPECIFICATION Spec
INVARIANT LedgerAlwaysReplays
