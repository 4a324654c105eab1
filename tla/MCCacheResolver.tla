---------------------------- MODULE MCCacheResolver ----------------------------
(* Model checking of CacheResolver: the lookups are interchangeable.         *)
EXTENDS CacheResolver, TLC

LookupSymmetry == Permutations(Lookups)
================================================================================
