SPECIFICATION FairSpec
CONSTANTS
    r1 = r1
    r2 = r2
    r3 = r3
    p1 = p1
    p2 = p2
    p3 = p3
    quote = quote
    Requests = {r1, r2, r3}
    Providers = {p1, p2}
    Plan <- CrossedPlans
    Groups = {quote}
    GroupOf <- AllQuotes
    Convertible = {r2}
    Unsupported <- OneUnsupported
    Answers = {}
    FanoutLimit = 1
    LaneCapacity = 1
    GlobalCapacity = 1
    FailureWindow = 1
    FailureThreshold = 1
    OpenDuration = 1
    ProbeCount = 1
    MaxRateLimitBackoff = 1
    RetryAfters = {1}
    MaxTime = 1
PROPERTIES RequestsEnd
