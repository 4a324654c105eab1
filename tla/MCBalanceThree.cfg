\* Random choice among three resolvers: one of them is never probed.
SPECIFICATION Spec
CONSTANTS
    Callers = {c1}
    N = 3
    Pools <- GuardedPools
    Strategies = {"random"}
    IntLimit = 8
    MaxCalls = 0
INVARIANT
    SettlesOnlyAfterAll
