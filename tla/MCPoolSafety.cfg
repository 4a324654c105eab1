\* Two lookups that call again and again on two upstreams.
SPECIFICATION Spec
CONSTANTS
    Lookups = {l1, l2}
    N = 2
    InitialRate = 1
    MinRate = 1
    MaxRate = 2
    Increase = 1
    DecreaseNum = 1
    DecreaseDen = 2
    Second = 2
    Cooldown = 2
    AttemptsOption = 3
    Lag = 1
    Repeating = {l1, l2}
SYMMETRY LookupSymmetry
INVARIANTS
    TypeOK
    InFlightExact
    DistinctUpstreams
    AlwaysKnowsEarliest
PROPERTIES
    PacedDispatch
    CoolingOnlyByRace
