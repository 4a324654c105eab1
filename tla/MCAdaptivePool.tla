---------------------------- MODULE MCAdaptivePool ----------------------------
(* Model checking of AdaptivePool: the lookups are interchangeable.          *)
EXTENDS AdaptivePool, TLC

LookupSymmetry == Permutations(Lookups)
===============================================================================
