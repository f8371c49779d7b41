SPECIFICATION Spec
CONSTANTS
    price = price
    quote = quote
    Requests = {price, quote}
    Budget <- Budgets
    Attempts = 2
    Grace = 2
    ClientTTL = 3
    ClientMaxRequests = 2
    PoolTimeoutThreshold = 2
    RecycleWindow = 2
    MaxClients = 4
    MaxTime = 6
CHECK_DEADLOCK FALSE
INVARIANTS TypeOK CallsKeepClient ReadinessTracksTimeouts
PROPERTIES RecycledOnEvidence
