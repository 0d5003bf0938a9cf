CONSTANTS
    TTL = 5
    FailureTTL = 2
    Second = 2
    Timeout = 3
    Origins = {a, b}
    Allowed = {a}
    Everyone = FALSE
    NoOrigin = NoOrigin
    Probe = Probe
SPECIFICATION Spec
INVARIANTS
    EdgeWithinTwoLifetimes
    ErrorsShortLived
    NoForeignGrant
