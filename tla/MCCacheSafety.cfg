\* Three lookups of one key: hits, expiry, eviction, flights, their waiters, and a
\* cache that others fill too.
SPECIFICATION Spec
CONSTANTS
    Lookups = {l1, l2, l3}
    TTL = 1
SYMMETRY LookupSymmetry
INVARIANTS
    TypeOK
    FetchOnlyMissing
    Isolation
    NobodyForgotten
