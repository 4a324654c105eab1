\* A waiter gets the context error of the lookup that started the flight.
SPECIFICATION Spec
CONSTANTS
    Lookups = {l1, l2}
    TTL = 1
INVARIANT
    OwnContextOnly
