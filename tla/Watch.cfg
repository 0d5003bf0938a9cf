CONSTANTS
    CommandLines <- Lines
    DefaultInterval = 5
    DefaultCacheTTL = 3
    MinInterval = 2
    Unset = Unset
    Empty = Empty
    Malformed = Malformed
    Boards = {gold, coin}
    Home = gold
    Prices = {p1, p2}
    Timeout = 6
    FailureTTL = 1
    NoPrice = NoPrice
    Down = Down
CHECK_DEADLOCK FALSE
SPECIFICATION RunningSpec
INVARIANTS
    PollsIndependent
    LinesAreChanges
PROPERTIES
    SettingsHonoured
    InterruptEnds
    ChangeShown
