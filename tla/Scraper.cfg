CONSTANTS
    MaxRaw = 4
    Publications <- AllPublications
CHECK_DEADLOCK FALSE
SPECIFICATION QuerySpec
INVARIANTS
    EmptyReported
    InstrumentsKept
    ColumnsKept
    NothingInvented
    SelectionExact
    LegacyFaithful
    UnitsAgree
