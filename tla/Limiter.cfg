CONSTANTS
    Clients = {a, b}
    Rate = 3
    Burst = 10
    Cost = 2
    SweepInterval = 2
    MaxTime = 4
    None = None
CHECK_DEADLOCK FALSE
SPECIFICATION Spec
INVARIANTS
    RateHeld
    IdleCollected
PROPERTY ImplementsBucket
