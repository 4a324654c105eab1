# fastresolver: models, checks and proofs

fastresolver is a Go library of DNS resolvers that decorate one another. Every
resolver implements `ILookup` (`Lookup(ctx, name, qtype) (*dns.Msg, error)`), and a
chain of them is called by any number of goroutines at once. The library starts
few goroutines itself (`ConcurrencyResolver`, the shared flight of
`CacheResolver`). What is hard is the state that the callers share: the circuit
breaker's atomics, the adaptive pool's locks and rates, the round robin counter, the
cache and its flights.

This directory holds TLA+ models of that state, TLC configurations that check them
on small instances, and TLAPS proofs about them for every instance.

    tlc -workers 2 -config MCBreaker.cfg MCCircuitBreaker     # a run
    tlapm AdaptivePoolProofs.tla                              # a proof

`PROJECT.json` lists components, runs, mutants, hazards and theorems, and maps every
definition to the lines it models.

## 1. Inventory

| Component | Source | State | Operations | Hard behaviour | What makes it correct | Module |
|---|---|---|---|---|---|---|
| Circuit breaker | circuit_breaker.go | atomic `state`, `lastStateChange` under `mu`, atomic `failure` and `success` | `Lookup`, `Accept` | the state is visible before its stamp and before the counters are cleared; verdicts arrive late; CAS races | the state moves only on the right verdict, cooling times are honoured, HalfOpen is never stranded, it recovers and it trips | CircuitBreaker, BreakerSpec |
| Adaptive pool | adaptive.go | `selectionMu`, `cursor`; per upstream `rate`, `nextAllowed`, `cooldownUntil`, `inFlight` under `mu` | `Lookup` (reserve, wait, call, observe), `Stats` | a selection reads upstreams one by one while others change them; waiting and contexts; retries | exact in-flight counts, distinct upstreams, paced dispatch, cooling honoured, calls end | AdaptivePool |
| Balancers | balance.go | the `idx` counter of the round robin | `Choose`, `Lookup` | breakers flip between probes; counter overflow; index arithmetic | no resolver passed over unprobed for a refusing one; the index stays in the slice | Balance |
| Breaker discovery | unwrap.go | none | `getCircuitBreaker` | layers that hide a breaker | a breaker in reach is found | Balance |
| Cache lookups | cache.go | LRU of entries (shared by all chains of `Default()`), singleflight group | `Lookup`, `Get`, `Set` | check, fetch and store are separate steps; one flight for many callers with one caller's context; shared messages; other resolvers fill the same cache | one fetch at a time, none for what its own flights have stored, no message with two owners, nobody waits for ever | CacheResolver |
| Cache TTL policy | cache.go | an entry's `expiredAt` | `cacheTTL` and helpers, `Set`, `Get` | negative answers, referrals, SERVFAIL bound, overrides, rounding | no record outlives its TTL, no SERVFAIL its bound, nothing served that must not be | CacheTTL |
| UDP/TCP transport | lookup.go | none between calls | `exchange`, `validateResponse`, `normalizeLookupResult` | truncated UDP answer, then TCP fails | an error keeps the response that was obtained; a success answers the question | Exchange, Resolution |
| Rate limit | ratelimit.go | `rate.Limiter` | `Lookup` | clock read before the lock; a reservation canceled after later ones were made | slots in use are an interval apart, nobody waits for nothing | RateLimit |
| Concurrent lookups | concurrency.go | channel of results, local to a call | `Lookup` | context and result ready together; losers are cancelled | fails only after all have failed, first failed response kept, losers leave no trace in the error, no goroutine is left behind | Concurrency |
| Retry, timeout | retry.go, timeout.go | none | `Lookup` | composition of contexts; an answer at the deadline | calls end although the inner resolver is silent; error and response paired | Decorators |
| Fallback | recursive.go | none | `Lookup` | two lookups on one context | the second only after the first has failed, its outcome is the caller's | Resolution |
| CNAME following | cname.go | none | `lookup` | chains and cycles of aliases | ends; no dangling alias without an error | Resolution |
| Recursive resolution | recursive.go | `cacheForRecursive` and `rootResolvers` of the process, the call's list of resolvers | `recursiveLookup` | descent through delegations, the list reused in place, a cache all calls share | ends; asks the servers of the last referral; stores only final answers | Resolution |
| Composed chains | builder.go, default.go, internal.go | none of their own | constructors | pool over breakers: each learns from the other's errors | cancellations cost a healthy upstream no rate (they do, once they open its breaker) | DefaultChain |
| DoH, JSON API, HTTP | doh.go, json_api.go, http.go | an `http.Client` | `Lookup` | a body converted in part | an error keeps what was decoded; a success answers the question | Exchange, Resolution |
| Errors | error.go | none | | | | not modelled |

How they interact. `internal.go` composes, from the outside in: CNAME, cache, retry(3),
random balancer over nine resolvers, each breaker(100) over rate limit(100) over
transport. `Default()` composes CNAME, cache, adaptive pool over breakers(100) over
transports. The balancers look through the layers (`Unwrap`) for a breaker and ask it
`Accept`; nothing is held between that answer and the `Lookup` that follows. A pool
over breakers sees `ErrCircuitBreaker` as a failure of the upstream like any other.
`recursiveLookup` calls the internal chain for name server addresses. A context
crosses every layer; the cache's flight is the one place where a call runs with the
context of another. Every chain that `Default()` returns has a singleflight group of its own
above one cache, `DefaultMemCache`, and that cache is public: what a chain finds there may have
been stored by another at any moment.

The hazards, each at its line and with the properties that would notice it, are in
`PROJECT.json`.

## 2. Order of work

Components came in the order of how much they share among goroutines: `BreakerSpec` and
`CircuitBreaker`, `AdaptivePool`, `Balance`, `CacheResolver`, `CacheTTL`, `Decorators` and
`Concurrency`, then the limiter that calls share (`RateLimit`), the request path that is
sequential but long (`Exchange`, `Resolution`), and one composition of two stateful parts
(`DefaultChain`). Proofs follow the same order; they exist for all of them, and
every safety property of a passing run is the statement of a theorem.

What could come next: an abstract lookup (one request, then one result or the context's
error) that `Concurrency`, `CacheResolver` and `AdaptivePool` implement; the two layers
above the pool in `Default()`.

## 3. Modules and how they correspond to the code

**CircuitBreaker** models `CircuitBreakerResolver.Lookup` over
`MetricsResolver.Lookup`, one action per atomic operation. `pc[l]` is the next
operation of lookup `l`, `seen[l]` its local `state`. `Begin` loads the state;
`CoolingCheck` reads the stamp under the read lock; `Claim` is the CAS Open to
HalfOpen; `Reload` is the second load and the double check; `Respond` is the wrapped
call and the counting of its failure; `ProbeSucceeded`, `ProbeFailed`,
`CallSucceeded`, `CallFailed` and `Trip` are the verdict; `Stamp` refreshes
`lastStateChange`, an action of its own because the CAS is visible before it; `Reset`
clears `failure` after a recovery. Time is `age`, ticks since the stamp. Three history
variables (`sinceChange`, `tainted`, `recent`) are read by properties only.

**BreakerSpec** says what a breaker promises: a three-state machine whose state moves
on the verdict of a call of the right kind. `Refinement` maps the detailed state to it.
Its `Admit` lets any number of calls through in HalfOpen, because the code does.

**AdaptivePool** models `Lookup`, `reserveUpstream`, `waitForAdaptiveSlot`, and the
feedback. `Reserve` takes `selectionMu`; each turn of the selection loop is one
`Inspect`, as each takes the upstream's own mutex and releases it, so that feedback
of other lookups falls between turns; `Claim` or `NoSlot` ends the selection; `Wake`
and `WaitEnded` are the two cases of the select; `Settle` is the answer with its three
classes (cancelled, succeeded, failed). Times are relative to now, and kept in the
past only down to `-Lag`. Rates are integers with the additive and multiplicative
steps rounded; a success still always raises a rate below the maximum.

**Balance** models both `Choose` functions probe by probe with the caller's locals
(`start`, `i`, `idx`), the shared counter with Go's conversion to a signed integer
(`IntLimit` is half the number of its values, 2^63 or 2^31), and `getCircuitBreaker`
over the chain of layers of each resolver. That the breakers open, close and cool down between two probes is `Flip`.

**CacheResolver** models the lookups of one key: `Get` and the removal of an expired
entry as two steps, `Join` (DoChan), the flight with its own check, removal, fetch and
store, delivery to all who joined, the copies. A message is the identity of its
object. Of singleflight and the LRU, external libraries, the model has what the code
relies on: one flight per key, the result to everybody who joined, eviction at any
time (`Evict`). `OthersSet` is the `Set` of anybody else who has the cache: the flight of another
chain over `DefaultMemCache`, or the user. It may come between any two steps, and between the
flight's check and its fetch in particular; `flight.overtaken` records that it came during the fetch.

**CacheTTL** has `cacheTTL` and its helpers as operators over responses, and one key
with a clock: `Set`, `Tick`, `Get` with the rewriting of TTLs. The key is set once: what `Get`
returns depends on the last `Set` only. `options` is one of the option sets given.

**Decorators** models `TimeoutResolver.Lookup` around `RetryResolver.Lookup`, one call per
name in `Chains`, as actions that another module composes: `Begin` derives the context,
`Try` and `GiveUp` are the retry loop, `InnerAnswers` is the resolver underneath, `Leave`
the check of the context after it, `Expire` the timer, and `End` the end of the parent
context, which reaches the derived contexts in the same step.

**Concurrency** is `ConcurrencyResolver.Lookup` with such chains as candidates: `Start`
spawns them; `Run` is a step of one (its last is `Send`); `ReceiveEnded`,
`ReceiveSuccess` and `ReceiveFailure` are a turn of the caller's loop; `EndContext` ends the
caller's context. Candidates run on after the call has returned. One call is modelled:
the resolver keeps nothing between calls.

**RateLimit** is `RateLimitResolver.Lookup` by any number of goroutines on one limiter:
`Begin` looks at the context and reads the clock, `Reserve` is `ReserveN` with that time,
`Pass` the timer, `GiveUp` the other case of the select with its own reading of the clock,
`Cancel` is `CancelAt`. The limiter is golang.org/x/time/rate with a burst of one, external
and in exact arithmetic: `last`, `tokens` (counted in ticks, `Interval` of them for a
token) and `lastEvent`. History: `held` are the calls whose slot nobody else may use
any more, and `disordered` becomes true when a call reaches the limiter's lock with a time
before the limiter's own.

**Exchange** has the three base transports as actions on one request: `DialUDP`, `SendUDP`,
`DialTCP` and `SendTCP` are the four calls of `exchange` that may fail, `AskDoH` and
`AskJSON` an HTTP request each; `Validated` is `validateResponse` with its checks in order.
A message is a record of the facts that any of the modelled code asks of it.

**Resolution** is one call through `FollowCnameResolver` over `FallbackResolver`, with a
transport of Exchange as primary and the recursive resolver as secondary: `Follow` and
`Judge` are the CNAME recursion, `PrimaryDone` the fallback, `Recurse`, `Turn`, `Descend` the
parts of `recursiveLookup`, `Try` and `QueryDone` the `RetryResolver` it makes for each
turn. The list of resolvers is a sequence together with the array it lives in (`array`),
since `resolvers[:0]` and the appends write that array in place. The other calls of the
process show in `Others`, which fills or clears the entry of `cacheForRecursive`; what it
puts there is what the model proves this call to put there (SuccessComplete).

**DefaultChain** extends AdaptivePool with a breaker per upstream, as `Default()` builds it:
`Admit` is the half of the breaker's Lookup before the wrapped call, `Answer` the half after it
together with the pool's feedback (`SettleWith`); `Refused` is the answer of a breaker that lets
nothing through. `faulty` (the upstreams that failed by themselves) and `canceled` (how many canceled
requests got no answer) are history. The breaker's inner races are CircuitBreaker's subject.

The `MC` modules give TLC the symmetry of the lookups, the chains of layers, the
set of small responses, and the messages and server lists of Resolution.

## 4. Runs

Runs expected to pass:

| Run | Instance | Shows |
|---|---|---|
| breaker | 3 lookups, threshold 2, cooling 1 | StampCurrent, CountCurrent, CoolingHonoured, HalfOpenHasProbe; Refinement; Recovers and TripsOnOutage under fairness |
| pool_safety | 2 lookups that repeat, 2 upstreams, rates 1..2, cooldown 2, lag 1, 3 attempts asked | InFlightExact, DistinctUpstreams, AlwaysKnowsEarliest, PacedDispatch, CoolingOnlyByRace |
| pool_liveness | 2 lookups, one of which repeats, constant rate, lag 0 | Terminates, ContextHonoured |
| balance | 2 callers, 4 resolvers, both balancers, int of 4 bits, 11 calls | SettlesOnlyAfterAll, PanicsOnlyAfterOverflow |
| cache_safety | 3 lookups, lifetime 1 tick, others that fill the cache at any time | FetchOnlyMissing, Isolation, NobodyForgotten |
| concurrency | 3 candidates with 0, 1 and 2 retries | FailsOnlyAfterAll, FirstResponseKept, CanceledOnlyByCaller; CallReturns and CandidatesEnd under fairness |
| ttl | every response of up to two records in the answer section, one or two in the others; no overrides, and overrides that catch every response | KeptInTime (NoRecordOutlived, FailureBrief), AddressOrProof, HitTTLTight; TypeOK includes that no TTL of 0 is served |
| rate_limit | 4 calls, interval 2 ticks, lag 1, arrivals up to tick 3 | Spaced, NoGap |
| resolution | 13 messages, 2 roots, 2 lists of a zone, descent of 2, 1 alias | ErrorKeepsResponse, SuccessComplete, ListCurrent; Returns under fairness |

Runs expected to find a violation, each of a claim made by a document, a comment or a test:

| Run | Claim | What the code does |
|---|---|---|
| balance_random_three | SettlesOnlyAfterAll (balance_test.go:147) | probes are triangular numbers apart; unless the number of resolvers is a power of two, some are never probed |
| cache_foreign_context | OwnContextOnly (contracts/resolver-api.md:47) | the flight runs with the context of the lookup that started it, and its end is everybody's error |
| chain_cancel | CancellationNoPenalty (contracts/resolver-api.md:150) | canceled requests count as failures of the breaker under the pool; when it opens, the pool takes ErrCircuitBreaker for a failure and lowers the rate |

Bounds and why they are enough. Three lookups on a breaker give every race the code
has: one between CAS and stamp, one judging the stamp, one with a verdict from an
earlier period. Threshold 2 tells the first failure from the last, and cooling 1 a
cooled stamp from a fresh one. Two upstreams and two lookups give the pool a choice, a competitor, an
exclusion, and, with three attempts asked of two upstreams, the clamp; lag 1 lets time pass within a
selection. Four resolvers make the random sequence complete (a power of two); chains
have a bare breaker, one behind one wrapper, one behind two, and one that cannot be
reached; 11 calls pass the largest 4-bit int by three. Three lookups of a key give the
owner of a flight, a waiter, and one that arrives between the flight's steps. In the TTL run
a second is two ticks, so that remaining lifetimes fall within a second; the minimum
override is above the SERVFAIL bound. Three candidates give the race a winner, a loser that has
sent already and one that has not; the retries 0, 1 and 2 give a candidate that fails at
once, one without a second chance and one with.

Four calls give the rate limiter a slot in the middle that is canceled after a later one
was taken, and a fourth call to profit from it; an interval of two ticks has slots half over,
lag 1 lets calls overtake one another between clock and lock, and a timer fire late. In
the resolution run each of the messages makes some branch go its own way: final answers, aliases,
SOA (beside an empty answer section and beside other records), apex and foreign referrals, a
list of malformed servers, truncation, SERVFAIL with a referral,
answers to another question or to none. A descent of two has a first turn, a turn after a
referral, and the limit; one alias has a first lookup, a followed one, and the limit; the list
of a zone may be empty (the roots) or not. One upstream, two lookups and a threshold
of 1 are enough for `chain_cancel`. What holds of that chain (NoPenaltyBelowThreshold)
is proved, for any number of upstreams; exploring two upstreams behind breakers is beyond TLC.

Deadlock is checked in every run but `concurrency`, `resolution` and `chain_cancel`, which model calls
that end, and `rate_limit`, where every goroutine makes one call.

Fairness. The breaker: weak fairness of `Tick` and of each lookup's steps, which the
Go scheduler gives, and the assumption that the wrapped resolver answers and callers
keep calling. The pool: the same and, for each lookup, strong fairness of `Reserve`
and of `WaitEnded`. The mutex is free again and again, and `sync.Mutex` hands it to a
waiter that has waited for a millisecond (starvation mode); a select whose two cases
are ready picks at random, so it does not ignore an ended context for ever. `Terminates`
supposes that calls stop arriving: without that a lookup may lose every slot to others,
which is why `ContextHonoured` is stated separately.

The race: weak fairness of the caller's loop, of the candidates' own steps and of their
timers. The resolver under a candidate is fair only once its context has ended: before
that it may stay silent for ever, and CallReturns rests on the timeout decorator.

Resolution: weak fairness of the call's own steps. The goroutine runs, and a request always
ends, because every client has a timeout; the environment (`Others`, `EndContext`) owes nothing.

Every property of a passing run has a mutant in `PROJECT.json`: an operator, defined
next to the one it stands in for, with a plausible slip, under which TLC finds
that property violated.

## 5. Proofs

`CircuitBreakerProofs` (for every finite or infinite set of lookups, every threshold
and cooling time in Nat):

- **TypeCorrectness**: TypeOK is inductive. Its last conjunct says that a lookup whose
  local state is Open is before the double check.
- **StampCurrency**: StampCurrent is inductive with TypeOK: each CAS leads to a
  stamping point, and `Stamp` makes `age` 0.
- **CountCurrency**: CountCurrent is inductive with TypeOK: a failure is counted on both sides, the
  right side is cleared only where a recovery begins, and the store that ends a recovery
  clears the left.
- **CoolingIsHonoured**: needs StampCurrent; a cooling verdict taken while a stamp is
  missing is tainted by definition, and one taken otherwise is right and stays so
  until the next CAS.
- **HalfOpenNeverStranded**: the probe whose CAS made the state HalfOpen is the witness;
  a probe that ceases to be one has moved the state or lost its CAS to one that did.
- **BreakerRefinement**: initial states map to initial states, every action to a step of
  BreakerSpec or to a stutter; case by case over the actions, using TypeOK.

`AdaptivePoolProofs` (for every finite set of lookups, every number of upstreams and
all option values that satisfy the named assumptions, which are those
`validateAdaptivePoolOptions` checks): the inductive invariant `IInv` is the conjunction of

- TypeOK and `Mutex` (who scans holds the lock);
- `Reserved` and `AttemptLeft`: what a lookup holds at each point, and that one that is
  still reserving has an attempt, hence an untried upstream, left;
- InFlightExact, DistinctUpstreams, ChoiceNotWorse;
- `ChoiceFree`: the upstream a selection has chosen is not paced out (nobody else
  claims while the lock is held), and if it cools down, the failure is younger than the selection;
- `LoopSound`: every untried upstream already visited left its trace in `selected` or `earliest`.

From it follow TypeCorrectness, InFlightCorrect, AttemptsDistinct, ChoiceStands, EarliestKnown
(by counting: distinct attempts below the clamp leave an untried upstream), DispatchPaced and CoolingRaceOnly. None of the invariants is inductive by itself:
InFlightExact needs Reserved to know that a settling lookup is among those counted,
AlwaysKnowsEarliest needs the clamp through AttemptLeft.

The same module proves what holds of the pool over breakers (DefaultChain). Each step of the chain
is a step of the pool or leaves the pool alone, by construction of the module; the lemma
`ChainIsAPool` says so, and is there to have `IInv` at hand in the chain.
FewCancellationsForgiven is the other side of the run `chain_cancel`: cancellations do
cost a healthy upstream its rate, but only as many as open a breaker. Its invariant
`Accounted` follows the count from one component to the other: the failures counted against an
upstream that never failed are canceled requests; so a breaker that has left Closed, a call it refuses,
and a lowered rate each have their reason. The threshold is only assumed to be a natural number, in
the theorem itself. No run checks this property; it rests on the proof.

`RateLimitProofs` (for every set of calls, every interval, lag and bound on arrivals): the
invariant is built around `EmptyAt == last - tokens`, the time at which the limiter holds no
token. A reservation moves it forward by an interval, or to its own time when the bucket was
full, and a call that has to wait gets just that time as its slot. So no slot in use lies after it
(`EmptyBound`), and while the bucket is not full some slot in use lies at it
(`EmptyIsHeld`, whence NoGap); `EventBound` and `EventIsHeld` say the same of `lastEvent`. The
partial refund of `CancelAt` subtracts what was reserved after the canceled slot, so that
`EmptyAt` never falls behind a slot in use: a full refund breaks
Spaced. All of it is conditional on `~disordered`. Theorems:
TypeCorrect, Spacing (Spaced), NoIdleWait (NoGap).

`CacheProofs` (for every finite set of lookups and every lifetime): TypeOK with `FlightOK` (where
the flight is says what it has), FetchOnlyMissing, Isolation and NobodyForgotten are inductive
together. FetchOnlyMissing holds because a flight turns to the fetch with the entry missing or just
removed, and there is no other flight of the resolver to fill it: what is left is `OthersSet`.
Isolation rests on a count: there are more objects than references, so a copy is always one that
nobody refers to (`NewIsFree`). Theorems: TypeCorrect, FetchNeeded, MessagesIsolated, WaitersKnown.

`ConcurrencyProofs` (for every finite set of candidates and any retries): the invariant says that
the results in the channel and those taken come from candidates that are done, one from
each (`Delivered`); that as long as the call goes on all taken results are failures, and a
cancellation anywhere is the caller's (`Ongoing`); and that before the start no candidate runs
(`IdleCandidates`). At the last turn as many distinct results are taken as there are candidates, so
they come from all of them (`AllReceived`). `IsFirstResponse` says of the response kept so far that
it stands at some place of the sequence of taken results with none before it, which the next result
does not change. Theorems: TypeCorrect, FailsLast, FirstResponseStays, CancellationIsOwn.

`ResolutionProofs` (for any messages with the fields Exchange reads, any lists of servers, any
limits on aliases and referrals): the invariant `IInv` is TypeOK with three parts that support one
another. `RequestSound` says what the request in progress has decoded and what it hands over;
`DescentSound` that the list of resolvers is the descent's own (`array`), that after a
referral it holds servers of `lastResponse` only, and that the roots are untouched;
`ReplySound` what the response and error in hand are worth at each point, and that the cache holds
final answers only. The in-place refill of the list is a recursive function of its length
(`Refilled`): `RefillDefined` proves that the function exists, `RefillSound` that it yields
servers of the referral. Theorems: Invariance, TypeCorrect, ResponseSurvives, SuccessIsComplete,
ListStaysCurrent.

`BalanceProofs` (for any callers, any number of resolvers, any width of int): `InSlice`
says that no index is negative while the counter fits an int, whence PanicNeedsOverflow. `Search` says
that a caller in turn `i` has been refused by just the resolvers the first `i` turns visit. If
these are distinct (`DistinctProbes`), `N` refusals are all of them, whence SettlesLast. By
turns that is arithmetic modulo `N`. At random turn `t` is `t * (t + 1) / 2` away from the start,
and two turns `t` and `u` that meet would make `2 * N` a divisor of (t - u) * (t + u + 1). One of the two
factors is odd, and both are less than `2 * N`: impossible if `2 * N` is a power of two, which divides the
other factor of a product with an odd one (`OddFree`). So SettlesLast assumes `SearchComplete`: all by turns, or a
power of two; `SomePowers` shows that 1, 2, 4, ... are such. That the hypothesis is needed is what the
run `balance_random_three` shows with three resolvers. `internal.go` has nine.

`CacheTTLProofs` (for any responses of such fields, any options `NewLRUWithOptions` accepts, any clock
resolution): `MinimumSound`, `NegativeSound`, `PolicySound`, `OverridesSound` and `StoredSound` say what
each operator of the policy returns for every response; `SetResponseSound` and `RoundedUp` what
a hit is made of. The invariant is that the key holds at most one response, a cacheable one within
its `StoredTTL` (`Kept`), and that a hit is that response with the TTL of what is left
(`Served`). Theorems: Invariance, TypeCorrect, LifetimesBounded (from NothingOutlived and, for a
SERVFAIL even under a larger option min, FailureIsBrief), NothingUnproved, AnnouncedTightly. The last assumes `MinFits`, that no
option min exceeds 2^32 - 1 seconds: with a larger one the announced TTL is cut to that value and
falls short of what is left.

Where an argument needs a least natural number (the minimum of a set of TTLs, the first place in a
sequence, the first length at which a recursive function might go wrong) the proofs take it from the
well-foundedness of < on Nat (`WFMin`), since the induction theorems, which take a predicate as
parameter, are out of the provers' reach.

Assumptions made for the proofs, all named in the module that declares the constants:
`MessageAssumption` (Exchange) and `ResponseAssumption` (CacheTTL) give the messages their
fields and record TTLs their 32 bits; `ServerAssumption` (Resolution) makes server lists sequences;
`UnitAssumption` (CacheTTL) has the SERVFAIL bound, 30 seconds, within the largest TTL.

Only model-checked: liveness (Recovers, TripsOnOutage, Terminates, ContextHonoured, CallReturns,
CandidatesEnd, Returns), because fairness and ENABLED are out of the prover's reach.

## 6. Disagreements noticed without a run of their own

- circuit_breaker.go:72 says the breaker waits `coolingTimeout` after it has tripped. The CAS at :114
  shows Open before :116 refreshes the stamp, and a lookup that judges the old stamp in
  between probes at once. CoolingHonoured says that this and an overtaken verdict are the only ways.
- circuit_breaker.go:119 says that counting starts again with a recovery. A failure judged at
  :165 before the breaker opened may do its CAS at :166 after it has recovered, and the store at
  :120 comes after Closed is visible: old failures can trip the recovered breaker. CountCurrent
  says that once no recovery is under way the count holds none of them.
- FR-008 (specs/001-native-dns-response/spec.md:80) wants the response that was obtained
  returned along with the error. adaptive.go:196 overwrites the response of an earlier attempt with
  the nil of a later one.
- The failures that trip a breaker are consecutive (comment on the type) only for one
  lookup at a time: circuit_breaker.go:175 clears the count of all.
- `RetryResolver` discards the response of an earlier attempt when a later one has none
  (retry.go:29), as the pool does.
- HalfOpen lets every lookup through that loads it, not a single probe
  (circuit_breaker.go:63 and :137 against :151).
- `FailureCooldown` does not exclude an upstream whose failure is observed during the
  selection (adaptive.go:35 against :280 and :306); CoolingOnlyByRace says that there is no other way.
- `getCircuitBreaker` returns the outermost breaker; its comment says the innermost (unwrap.go:8).
- `int(uint64)` of the round robin counter (balance.go:53) and of the pool's cursor
  (adaptive.go:268) turns negative after 2^31 calls on 32-bit platforms, and the
  index leaves the slice; PanicsOnlyAfterOverflow pins it to the overflow.
- A lookup that found an expired entry removes whatever the key holds by then, a fresh
  successor too (cache.go:88), at the cost of one more fetch.
- Chains of `Default()` share a cache but not their flights (default.go:77, cache.go:246): the same
  question may be fetched by several of them at once, and a flight may ask its resolver while
  the cache has by now an answer from another (cache.go:261 against :264). FetchOnlyMissing says that
  only others can bring that about.
- data-model.md:82-85 (specs/001-native-dns-response) computes the lifetime of an answer
  differently from the code, and NoRecordOutlived goes with the code: by the document the minimum is
  over Answer and Authority only ("Extra does not participate"), a minimum of zero or no record
  means the default TTL, and a TTL below one minute becomes one minute. The code takes the minimum
  over all three sections (cache.go:179), does not cache a positive answer without a TTL (cache.go:136),
  uses the default for SERVFAIL only (cache.go:143) and has no floor but the option min. research.md:54
  and plan.md:109 there say the same as the document; MIGRATION.md:92-100, the later text,
  withdraws the one-minute floor and agrees with the code.
- README.md:106 says TTLs are decremented on hits, data-model.md:85 that they are not.
  The code sets them to the remaining lifetime, which for a negative answer may be
  more than a record's own TTL (cache.go:92 and :127).

## 7. Not modelled

- Error values and texts (error.go): no state, no decision.
- builder.go and the option constructors only nest and fill structs; internal.go and the
  lists of default.go are configuration; http.go is a constant.
- `Stats` and the counters only it reads, the breaker's success counter, which nothing reads,
  and `Accept` as a call of its own (Balance has its answers as an environment).
- The lookups of name server addresses within `recursiveLookup`: they go through a whole chain of
  their own, whose result is some list of servers or none. zonedb and publicsuffix are tables.
- In `Default()`, CNAME following and the cache above the pool: both are modelled alone, and
  composing all of them with the pool is beyond what TLC explores.
- A DoH body unpacked in part (doh.go:103) counts as not decoded, a UDP message unpacked in part as
  decoded, as in the code.
- Parsing and packing of DNS messages, JSON records, URLs and addresses; sockets and TLS.
- Two goroutines in one recursive descent: a descent's state is the call's own, and what is
  shared, the cache and the roots, is in Resolution.
