SPECIFICATION Spec
CONSTANTS
    c1 = c1
    c2 = c2
    c3 = c3
    s1 = s1
    Scopes = {s1}
    Calls = {c1, c2, c3}
    ScopeOf <- OneScope
    FailureWindow = 2
    FailureThreshold = 2
    OpenDuration = 3
    ProbeCount = 2
    MaxRateLimitBackoff = 4
    RetryAfters = {0, 3, 5, 6}
    CallLife = 2
    MaxTime = 12
SYMMETRY SameScopeCalls
INVARIANTS TypeOK NoSlotLeak NeverWedged CooldownHonoured LockoutBounded ProbesBounded OnlyProbesInFlight
PROPERTIES OpensOnEvidence
