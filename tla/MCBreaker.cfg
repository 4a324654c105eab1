\* Three concurrent lookups: outages, recovery and late results.
SPECIFICATION FairSpec
CONSTANTS
    Lookups = {l1, l2, l3}
    Threshold = 2
    Cooling = 1
INVARIANTS
    TypeOK
    StampCurrent
    CountCurrent
    CoolingHonoured
    HalfOpenHasProbe
PROPERTIES
    Refinement
    Recovers
    TripsOnOutage
