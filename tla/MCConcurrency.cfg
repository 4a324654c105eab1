\* Three candidates race; contexts end, timers fire and resolvers keep silent.
SPECIFICATION FairSpec
CONSTANTS
    Chains <- MCChains
    Retry <- MCRetry
INVARIANTS
    TypeOK
    FailsOnlyAfterAll
    FirstResponseKept
    CanceledOnlyByCaller
PROPERTIES
    CallReturns
    CandidatesEnd
CHECK_DEADLOCK FALSE
