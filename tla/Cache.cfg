CONSTANTS
    Callers = {c1, c2}
    Impatient = {c1}
    Markets = {gold}
    Entries = {1, 2, 3}
    TTL = 1
    FailureTTL = 2
    Timeout = 1
    MaxTime = 1
    MaxEpoch = 1
    MaxCalls = 3
    NoEntry = NoEntry
    NoCaller = NoCaller
    NoMarket = NoMarket
CHECK_DEADLOCK FALSE
SPECIFICATION HungUpstreamSpec
INVARIANTS
    AnswerNotStale
    AnswerAfterInvalidation
    FetchesApart
    AnswerIsPublished
    NoWaitForgotten
    NoForeignCancellation
PROPERTIES
    ImplementsPromise
    CancelledReturns
