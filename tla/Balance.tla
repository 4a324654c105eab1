------------------------------- MODULE Balance -------------------------------
(***************************************************************************)
(* RoundRobinBalancer and RandomBalancer (balance.go) with the search for   *)
(* circuit breakers they rest on (unwrap.go).  Choose probes the resolvers  *)
(* one after the other, asks the breaker it finds in each whether it        *)
(* accepts, and stops at the first that does or that has no breaker.  Other *)
(* goroutines run between two probes, and breakers open and cool down.      *)
(*                                                                         *)
(* A resolver is a chain of layers from the outside in: breakers, wrappers  *)
(* that implement Unwrap, and layers that cannot be looked through.         *)
(* The shared counter is a uint64 converted to int, which holds the values  *)
(* from -IntLimit up to IntLimit - 1, where IntLimit is 2^63, or 2^31 on    *)
(* 32-bit platforms; MaxCalls bounds the counter.                           *)
(***************************************************************************)
EXTENDS Integers, Sequences

CONSTANTS
    Callers,    \* goroutines that call Choose
    N,          \* number of resolvers, indexed 0..N-1
    Pools,      \* the slices of resolvers considered: chains by index
    Strategies, \* which balancers: "roundRobin", "random"
    IntLimit,   \* half the number of values of an int
    MaxCalls    \* bound on the shared counter

Resolvers == 0..(N - 1)
Layers == {"breaker", "wrapper", "opaque"}

ASSUME ResolverAssumption ==
    /\ N \in Nat \ {0}
    /\ \A chains \in Pools :
          DOMAIN chains = Resolvers /\ \A k \in Resolvers : chains[k] \in Seq(Layers)
ASSUME StrategyAssumption == Strategies \subseteq {"roundRobin", "random"}
ASSUME WidthAssumption == IntLimit \in Nat \ {0} /\ MaxCalls \in Nat

VARIABLES
    resolvers,  \* the slice of resolvers
    strategy,   \* which balancer
    counter,    \* RoundRobinBalancer.idx
    accepts,    \* per resolver: would its outermost breaker accept now?
    pc,         \* per caller: "idle", "probe", "chosen" or "panic"
    start,      \* per caller: where its probes start
    i,          \* per caller: the loop variable
    idx,        \* per caller: index of the last probe, and in the end the choice
    refused     \* history: resolvers whose breaker refused when the caller came by

vars == <<resolvers, strategy, counter, accepts, pc, start, i, idx, refused>>

\* getCircuitBreaker: the breaker reached by unwrapping layer after layer.
FindsBreaker(chain) ==
    \E b \in DOMAIN chain :
        chain[b] = "breaker" /\ \A j \in 1..(b - 1) : chain[j] = "wrapper"
Breakers == {k \in Resolvers : FindsBreaker(resolvers[k])}

Init ==
    /\ resolvers \in Pools /\ strategy \in Strategies
    /\ counter = 0
    /\ accepts \in [Resolvers -> BOOLEAN]
    /\ \A k \in Resolvers \ Breakers : accepts[k]
    /\ pc = [c \in Callers |-> "idle"]
    /\ start = [c \in Callers |-> 0]
    /\ i = [c \in Callers |-> 0]
    /\ idx = [c \in Callers |-> 0]
    /\ refused = [c \in Callers |-> {}]

------------------------------------------------------------------------------
(* Go's conversion uint64 -> int, and its remainder, which takes the sign of *)
(* the dividend.                                                            *)

ToInt(x) ==
    LET low == x % (2 * IntLimit)
    IN  IF low >= IntLimit THEN low - 2 * IntLimit ELSE low
Remainder(x, n) == IF x >= 0 THEN x % n ELSE -((-x) % n)

Enter(c, first) ==
    /\ pc[c] = "idle"
    /\ pc' = [pc EXCEPT ![c] = "probe"]
    /\ start' = [start EXCEPT ![c] = first]
    /\ idx' = [idx EXCEPT ![c] = first]
    /\ UNCHANGED <<resolvers, strategy, accepts, i, refused>>

EnterRoundRobin(c) ==
    /\ strategy = "roundRobin"
    /\ counter < MaxCalls
    /\ counter' = counter + 1
    /\ Enter(c, Remainder(ToInt(counter), N))

EnterRandom(c) ==
    /\ strategy = "random"
    /\ \E first \in Resolvers : Enter(c, first)
    /\ UNCHANGED counter

\* The index of the next probe.  RandomBalancer adds the loop variable to the
\* previous index, not to the first.
ProbedPastEnd(c) == start[c] + i[c]
Probed(c) ==
    IF strategy = "roundRobin"
    THEN Remainder(start[c] + i[c], N)
    ELSE Remainder(idx[c] + i[c], N)

LastTurnEarly(c) == i[c] + 2 >= N
LastTurn(c) == i[c] + 1 = N

Stops(k) == k \notin Breakers \/ accepts[k]

\* One turn of the loop: index, find the breaker, Accept.
Probe(c) ==
    LET k == Probed(c)
    IN  /\ pc[c] = "probe"
        /\ idx' = [idx EXCEPT ![c] = k]
        /\ refused' = [refused EXCEPT ![c] =
               IF k \in Resolvers /\ ~accepts[k] THEN @ \cup {k} ELSE @]
        /\ \/ /\ k \notin Resolvers             \* index out of range
              /\ pc' = [pc EXCEPT ![c] = "panic"]
              /\ UNCHANGED i
           \/ /\ k \in Resolvers /\ (Stops(k) \/ LastTurn(c))
              /\ pc' = [pc EXCEPT ![c] = "chosen"]
              /\ UNCHANGED i
           \/ /\ k \in Resolvers /\ ~Stops(k) /\ ~LastTurn(c)
              /\ i' = [i EXCEPT ![c] = @ + 1]
              /\ UNCHANGED pc
        /\ UNCHANGED <<resolvers, strategy, counter, accepts, start>>

\* The chosen resolver is called; the goroutine may choose again.
Leave(c) ==
    /\ pc[c] = "chosen"
    /\ pc' = [pc EXCEPT ![c] = "idle"]
    /\ start' = [start EXCEPT ![c] = 0]
    /\ i' = [i EXCEPT ![c] = 0]
    /\ idx' = [idx EXCEPT ![c] = 0]
    /\ refused' = [refused EXCEPT ![c] = {}]
    /\ UNCHANGED <<resolvers, strategy, counter, accepts>>

\* A breaker opens, closes or has cooled down.
Flip(k) ==
    /\ k \in Breakers
    /\ accepts' = [accepts EXCEPT ![k] = ~@]
    /\ UNCHANGED <<resolvers, strategy, counter, pc, start, i, idx, refused>>

Next ==
    \/ \E c \in Callers : EnterRoundRobin(c) \/ EnterRandom(c) \/ Probe(c) \/ Leave(c)
    \/ \E k \in Resolvers : Flip(k)

Spec == Init /\ [][Next]_vars

------------------------------------------------------------------------------
\* Choose settles for a resolver that refuses only after it has found every
\* resolver refusing, each at its own time (the tests of both balancers expect a
\* healthy resolver whenever there is one).
SettlesOnlyAfterAll ==
    \A c \in Callers :
        pc[c] = "chosen" /\ idx[c] \in refused[c] => refused[c] = Resolvers

\* Choose indexes within the slice as long as the counter fits an int (the round
\* robin test takes the i-th choice to be ss[i % len(ss)]).
PanicsOnlyAfterOverflow ==
    \A c \in Callers : pc[c] = "panic" => counter > IntLimit
==============================================================================
