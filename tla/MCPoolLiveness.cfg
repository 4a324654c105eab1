\* One goroutine calls again and again and takes the slots; contexts may end.
SPECIFICATION FairSpec
CONSTANTS
    Lookups = {l1, l2}
    N = 2
    InitialRate = 1
    MinRate = 1
    MaxRate = 1
    Increase = 1
    DecreaseNum = 1
    DecreaseDen = 2
    Second = 1
    Cooldown = 1
    AttemptsOption = 3
    Lag = 0
    Repeating = {l2}
PROPERTIES
    Terminates
    ContextHonoured
