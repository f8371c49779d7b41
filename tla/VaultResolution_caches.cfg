SPECIFICATION Spec
CONSTANTS
    r1 = r1
    r2 = r2
    a = a
    b = b
    Requests = {r1, r2}
    Tokens = {a, b}
    Asks <- PricesAndQuotes
    Histories <- Changing
    VaultUnits = 3
    Web3Limit = 2
    PositiveTtl = 2
    NegativeTtl = 6
    CacheMax = 1
    PruneInterval = 2
    CallLife = 1
    MaxTime = 5
SYMMETRY Interchangeable
INVARIANTS TypeOK AnswersFresh NoOlderMiss NothingKept
