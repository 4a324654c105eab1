SPECIFICATION Spec
CONSTANTS
    Calls = {c1, c2, c3, c4}
    Interval = 2
    Lag = 1
    Arrivals = 3
SYMMETRY CallSymmetry
INVARIANTS
    TypeOK
    Spaced
    NoGap
CHECK_DEADLOCK FALSE
