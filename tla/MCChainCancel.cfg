\* Callers that give up, and an upstream that never failed.
SPECIFICATION ChainSpec
CONSTANTS
    Lookups = {l1, l2}
    N = 1
    InitialRate = 2
    MinRate = 1
    MaxRate = 2
    Increase = 1
    DecreaseNum = 1
    DecreaseDen = 2
    Second = 2
    Cooldown = 1
    AttemptsOption = 1
    Lag = 0
    Repeating = {}
    Threshold = 1
INVARIANT CancellationNoPenalty
CHECK_DEADLOCK FALSE
