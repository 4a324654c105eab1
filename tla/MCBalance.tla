------------------------------ MODULE MCBalance ------------------------------
(* Model checking of Balance: resolvers as internal.go and the tests build   *)
(* them, all with a breaker to be found or one without.                     *)
EXTENDS Balance

\* A bare breaker, and one or two decorators around one.
Guard(k) ==
    CASE k % 3 = 0 -> <<"breaker", "opaque">>
      [] k % 3 = 1 -> <<"wrapper", "breaker", "opaque">>
      [] OTHER     -> <<"wrapper", "wrapper", "breaker", "wrapper", "opaque">>

AllGuarded == [k \in Resolvers |-> Guard(k)]
LastHidden == [AllGuarded EXCEPT ![N - 1] = <<"wrapper", "opaque", "breaker">>]

GuardedPools == {AllGuarded}
MixedPools == {AllGuarded, LastHidden}
==============================================================================
