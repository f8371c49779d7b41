SPECIFICATION Spec
CONSTANTS
    r1 = r1
    r2 = r2
    s1 = s1
    s2 = s2
    c1 = c1
    k1 = k1
    o1 = o1
    Requests = {r1, r2}
    Servers = {s1, s2}
    ServerOf <- OneEach
    Clients = {c1}
    ClientOf <- OneClient
    Operators = {o1}
    Keys = {k1}
    Expiries = {3}
    Limits = {2}
    DefaultLimit = 1
    Window = 1
    Retention = 1
    CleanupInterval = 3
    UnauthAccess <- FirstOnly
    AnonInterval = 3
    AnonRetention = 1
    AnonCleanupInterval = 2
    MaxStall = 1
    MaxStep = 1
    MaxCount = 2
    MaxTime = 3
INVARIANTS TypeOK ServedRightly QuotaHolds AnonymousOncePerWindow
