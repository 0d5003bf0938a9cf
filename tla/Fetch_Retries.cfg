CONSTANTS
    MaxAttempts = 4
    Backoff = 1
    MaxBackoff = 3
    Timeout = 9
    Statuses = {404, 408, 429, 503}
    Detached = FALSE
CHECK_DEADLOCK FALSE
SPECIFICATION FairSpec
INVARIANTS
    WithinTimeout
    AttemptsCounted
    RetriesExhausted
    JudgedAlike
    PauseCapped
PROPERTIES
    RequestsSpaced
    LoadReturns
