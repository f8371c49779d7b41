SPECIFICATION FairSpec
CONSTANTS
    r1 = r1
    r2 = r2
    a = a
    b = b
    Requests = {r1, r2}
    Tokens = {a, b}
    Asks <- PricesAndQuotes
    Histories <- Fixed
    VaultUnits = 2
    Web3Limit = 1
    PositiveTtl = 2
    NegativeTtl = 4
    CacheMax = 1
    PruneInterval = 2
    CallLife = 1
    MaxTime = 1
PROPERTIES ResolutionsEnd
