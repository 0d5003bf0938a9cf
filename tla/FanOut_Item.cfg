CONSTANTS
    BoardLists <- Lists
    Supported = {"coin", "currency", "gold"}
CHECK_DEADLOCK FALSE
SPECIFICATION HungBoardsSpec
INVARIANTS
    AnswerExact
    CauseKept
PROPERTY FailureEndsFanOut
