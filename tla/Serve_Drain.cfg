CONSTANTS
    Requests = {r1, r2}
    Kinds <- SomeKinds
    Options = {"cors", "rateLimit", "timeout", "metrics"}
    Bounds = 1
CHECK_DEADLOCK FALSE
SPECIFICATION Spec
INVARIANT DrainKeepsAnswers
