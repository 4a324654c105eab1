----------------------------- MODULE DefaultChain -----------------------------
(***************************************************************************)
(* The lower half of Default() (default.go): the adaptive pool over upstreams *)
(* that are each wrapped in a circuit breaker (circuit_breaker.go).  Both      *)
(* learn from the same answers, and the pool learns from the breaker.         *)
(*                                                                         *)
(* Abstractions.                                                           *)
(*  - Module CircuitBreaker has the breaker's own interleavings; here its     *)
(*    two halves, before and after the wrapped call, are a step each, and the *)
(*    second one is a step with the pool's feedback.                         *)
(*  - The breaker's cooling may be over at any time.                         *)
(***************************************************************************)
EXTENDS AdaptivePool

CONSTANT Threshold      \* failureThreshold, a natural number

VARIABLES
    mode,       \* per upstream: the breaker's state
    failure,    \* per upstream: MetricsResolver.failure, up to Threshold
    admitted,   \* per lookup: the state under which its breaker let it pass
    faulty,     \* history: the upstreams that failed or let a deadline pass
    canceled    \* history, per upstream: canceled requests it gave no answer to, up to Threshold

breakers == <<mode, failure, admitted, faulty, canceled>>
chainVars == <<vars, breakers>>

ChainInit ==
    /\ Init
    /\ mode = [u \in Upstreams |-> "closed"]
    /\ failure = [u \in Upstreams |-> 0]
    /\ admitted = [l \in Lookups |-> "none"]
    /\ faulty = {}
    /\ canceled = [u \in Upstreams |-> 0]

Enter(l, state) == admitted' = [admitted EXCEPT ![l] = state]

\* CircuitBreakerResolver.Lookup up to the wrapped call.
Admit(l) ==
    LET u == at[l]
    IN  /\ pc[l] = "call" /\ admitted[l] = "none"
        /\ \/ mode[u] # "open" /\ Enter(l, mode[u]) /\ UNCHANGED mode
           \/ mode[u] = "open" /\ Enter(l, "refused") /\ UNCHANGED mode
           \/ /\ mode[u] = "open"       \* cooled down
              /\ Enter(l, "halfOpen")
              /\ mode' = [mode EXCEPT ![u] = "halfOpen"]
        /\ UNCHANGED <<vars, failure, faulty, canceled>>

\* The CAS of a verdict: on a call let through in HalfOpen, or one that trips.
Verdict(l, u, next) ==
    mode' = [mode EXCEPT ![u] = IF admitted[l] = "halfOpen" /\ @ = "halfOpen" THEN next ELSE @]

\* MetricsResolver counts every error, then the breaker looks at the count.
Counted(u) == Least(failure[u] + 1, Threshold)
Trips(l, u) ==
    admitted[l] = "closed" /\ mode[u] = "closed" /\ Counted(u) >= Threshold

After(l, u, failed) ==
    \/ /\ failed
       /\ failure' = [failure EXCEPT ![u] = Counted(u)]
       /\ IF Trips(l, u)
          THEN mode' = [mode EXCEPT ![u] = "open"]
          ELSE Verdict(l, u, "open")
    \/ /\ ~failed
       /\ Verdict(l, u, "closed")
       /\ failure' = [failure EXCEPT ![u] =
              IF admitted[l] = "closed" \/ mode[u] = "halfOpen" THEN 0 ELSE @]

\* What the request says about the upstream itself.
Blame(l, u, failed) ==
    /\ faulty' = IF (failed /\ ctx[l] = "live") \/ ctx[l] = "expired"
                 THEN faulty \cup {u} ELSE faulty
    /\ canceled' = IF failed /\ ctx[l] = "canceled"
                   THEN [canceled EXCEPT ![u] = Least(@ + 1, Threshold)] ELSE canceled

\* ErrCircuitBreaker is an error of the upstream to the pool.
Refused(l) ==
    /\ admitted[l] = "refused"
    /\ SettleWith(l, "error")
    /\ UNCHANGED <<mode, failure, faulty, canceled>>

\* The answer of the upstream, through its breaker into the pool.
Answer(l) ==
    /\ pc[l] = "call" /\ admitted[l] # "none"
    /\ Enter(l, "none")
    /\ \/ Refused(l)
       \/ \E outcome \in Outcomes :
            /\ admitted[l] # "refused"
            /\ After(l, at[l], outcome # "answer")
            /\ Blame(l, at[l], outcome # "answer")
            /\ SettleWith(l, outcome)

PoolStep(l) ==
    /\ \/ Start(l) \/ Reserve(l) \/ Inspect(l) \/ Claim(l) \/ NoSlot(l)
       \/ Wake(l) \/ WaitEnded(l) \/ CallAgain(l) \/ EndContext(l)
    /\ UNCHANGED breakers

ChainNext ==
    \/ Tick /\ UNCHANGED breakers
    \/ \E l \in Lookups : PoolStep(l) \/ Admit(l) \/ Answer(l)

ChainSpec == ChainInit /\ [][ChainNext]_chainVars

------------------------------------------------------------------------------
(* Properties.                                                              *)

\* A learned rate is below the initial one only if the upstream has failed or let a
\* deadline pass itself, or if callers have canceled as many requests as open a breaker.
NoPenaltyBelowThreshold ==
    \A u \in Upstreams :
        rate[u] < InitialRate => u \in faulty \/ canceled[u] >= Threshold

\* "Explicit caller cancellation does not penalize an upstream"
\* (specs/001-native-dns-response/contracts/resolver-api.md): a learned rate is below
\* the initial one only if the upstream has failed or let a deadline pass itself.
CancellationNoPenalty == \A u \in Upstreams : rate[u] < InitialRate => u \in faulty
===============================================================================
