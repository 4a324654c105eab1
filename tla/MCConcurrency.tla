---------------------------- MODULE MCConcurrency ----------------------------
(* Model checking of Concurrency: three candidates that differ in retries.   *)
EXTENDS Concurrency

MCRetry == [never |-> 0, once |-> 1, twice |-> 2]
MCChains == DOMAIN MCRetry
==============================================================================
