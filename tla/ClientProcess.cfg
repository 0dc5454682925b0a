SPECIFICATION FairProcessSpec
CONSTANTS
    MaxRetries = 1
    Interval = 3
    Timeout = 7
    None = None
    Total = 3
    Workers = 2
    Threads = {1, 2, 3}
    Refill = 2
    Token = 3
    Second = 3
    Calls = 2
    MaxSpan = 1
INVARIANTS
    WindowBound
    RequestBound
    OneJobPerCall
    OutcomeIsFinal
    ReturnsEveryKey
    TransientFaultsAreRetried
PROPERTIES
    GivesUpOnUnfinishedOnly
    NoFetchAfterFailure
    CallsEnd
