\* Two goroutines choose among four resolvers, by turns or at random, until the
\* counter has passed the largest int (here of 4 bits).  Calls stop at MaxCalls.
SPECIFICATION Spec
CONSTANTS
    Callers = {c1, c2}
    N = 4
    Pools <- MixedPools
    Strategies = {"roundRobin", "random"}
    IntLimit = 8
    MaxCalls = 11
INVARIANTS
    SettlesOnlyAfterAll
    PanicsOnlyAfterOverflow
