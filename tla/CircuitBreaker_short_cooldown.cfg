SPECIFICATION Spec
CONSTANTS
    c1 = c1
    c2 = c2
    c3 = c3
    s1 = s1
    Scopes = {s1}
    Calls = {c1, c2, c3}
    ScopeOf <- OneScope
    FailureWindow = 2
    FailureThreshold = 2
    OpenDuration = 3
    ProbeCount = 1
    MaxRateLimitBackoff = 4
    RetryAfters = {1}
    CallLife = 2
    MaxTime = 8
SYMMETRY SameScopeCalls
INVARIANTS ProbesBounded
