---------------------------- MODULE MCRateLimit ----------------------------
(* Model checking of RateLimit: the calls are interchangeable.               *)
EXTENDS RateLimit, TLC

CallSymmetry == Permutations(Calls)
============================================================================
