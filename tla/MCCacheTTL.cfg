\* Every small response under two sets of options: what is kept, for how long, and
\* with which TTLs it is served.
SPECIFICATION Spec
CONSTANTS
    Responses <- MCResponses
    Options <- MCOptions
    MaxUint32 = 7
    Second = 2
    ServFailMax = 3
INVARIANTS
    TypeOK
    KeptInTime
    AddressOrProof
    HitTTLTight
