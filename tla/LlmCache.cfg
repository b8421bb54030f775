SPECIFICATION cacheFairSpec
CONSTANTS
    Workers = {w1, w2}
    Items <- MCItems
    Room = 2
    Retries = 1
    MaxCalls = 6
    MaxRuns = 2
    Null = Null
    Failed = Failed
INVARIANTS
    OneAnswerPerKey
    SpendBounded
PROPERTY
    RunEnds
CHECK_DEADLOCK FALSE
