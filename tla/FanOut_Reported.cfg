CONSTANTS
    BoardLists <- Lists
    Supported = {"coin", "currency", "gold"}
CHECK_DEADLOCK FALSE
SPECIFICATION Spec
INVARIANT UpstreamFailureReported
