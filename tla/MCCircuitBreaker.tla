--------------------------- MODULE MCCircuitBreaker ---------------------------
(* Model checking of CircuitBreaker: the lookups are interchangeable.       *)
EXTENDS CircuitBreaker, TLC

LookupSymmetry == Permutations(Lookups)
===============================================================================
