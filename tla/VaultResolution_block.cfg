SPECIFICATION Spec
CONSTANTS
    r1 = r1
    r2 = r2
    a = a
    b = b
    Requests = {r1, r2}
    Tokens = {a, b}
    Asks <- Prices
    Histories <- Fixed
    VaultUnits = 3
    Web3Limit = 2
    PositiveTtl = 2
    NegativeTtl = 4
    CacheMax = 1
    PruneInterval = 2
    CallLife = 1
    MaxTime = 4
SYMMETRY Interchangeable
INVARIANTS BlockOfRate
