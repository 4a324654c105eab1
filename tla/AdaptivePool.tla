----------------------------- MODULE AdaptivePool -----------------------------
(***************************************************************************)
(* AdaptivePoolResolver (adaptive.go): lookups reserve the least loaded     *)
(* upstream that is neither paced out nor cooling down, wait when there is  *)
(* none, and feed the outcome back into the upstream's learned rate (AIMD). *)
(*                                                                         *)
(* reserveUpstream holds selectionMu for a whole selection but each         *)
(* upstream's own mutex only while it reads or writes that upstream, so     *)
(* every visit of the selection loop is an action here, and the feedback of *)
(* other lookups falls between two visits, as in the code.                  *)
(*                                                                         *)
(* Abstractions.                                                           *)
(*  - Times are ticks relative to the present: nextIn[u] is nextAllowed     *)
(*    minus time.Now().  A time in the past is kept down to -Lag, which is  *)
(*    as far back as a selection in progress can look (Lag bounds how long  *)
(*    one selection takes).                                                *)
(*  - Rates are integers; Second ticks make a second.                       *)
(*  - successes and failures are read by Stats only and are left out.       *)
(*  - A lookup checks its context and observes the outcome in one action:   *)
(*    the check concerns only its own context, so a cancellation between    *)
(*    the two is the same as one just after.                               *)
(***************************************************************************)
EXTENDS Integers, FiniteSets

CONSTANTS
    Lookups,        \* goroutines that call Lookup
    N,              \* number of upstreams, indexed 0..N-1
    InitialRate, MinRate, MaxRate, Increase,
    DecreaseNum, DecreaseDen,   \* DecreaseFactor = DecreaseNum / DecreaseDen
    Second,         \* ticks per second
    Cooldown,       \* FailureCooldown, in ticks
    AttemptsOption, \* the MaxAttempts option
    Lag,            \* bound: ticks one selection may take
    Repeating       \* bound: the goroutines that look up again after they returned

ASSUME UpstreamAssumption == N \in Nat \ {0}
ASSUME RateAssumption ==
    /\ {InitialRate, MinRate, MaxRate, Increase, Second} \subseteq Nat \ {0}
    /\ MinRate <= InitialRate /\ InitialRate <= MaxRate
ASSUME DecreaseAssumption ==
    DecreaseNum \in Nat \ {0} /\ DecreaseDen \in Nat \ {0} /\ DecreaseNum < DecreaseDen
ASSUME WaitAssumption == Cooldown \in Nat /\ Lag \in Nat
ASSUME AttemptsAssumption == AttemptsOption \in Nat \ {0}
ASSUME RepeatingAssumption == Repeating \subseteq Lookups
ASSUME LookupsAssumption == IsFiniteSet(Lookups) /\ "free" \notin Lookups

VARIABLES
    (* the pool *)
    lock,       \* holder of selectionMu, or Free
    cursor,     \* cursor modulo N
    rate,       \* per upstream: learned rate
    nextIn,     \* per upstream: ticks until nextAllowed
    cooldownIn, \* per upstream: ticks until cooldownUntil
    inFlight,   \* per upstream: requests executing
    (* each call of Lookup *)
    pc,
    ctx,        \* its context: "live", "canceled" or "expired"
    excluded,   \* upstreams it has tried and seen fail
    attempt,    \* its attempt counter
    at,         \* the upstream it has reserved, or None
    last,       \* is lastResponse non-nil?
    scan,       \* locals of reserveUpstream
    timer,      \* ticks until the timer of waitForAdaptiveSlot fires
    result      \* what Lookup returned

pool == <<lock, cursor, rate, nextIn, cooldownIn, inFlight>>
locals == <<excluded, attempt, at, last, scan, timer>>
vars == <<lock, cursor, rate, nextIn, cooldownIn, inFlight,
          pc, ctx, excluded, attempt, at, last, scan, timer, result>>

Upstreams == 0..(N - 1)
None == -1
Free == "free"
Points == {"idle", "reserve", "scan", "wait", "call", "done"}
Results == [err : {"nil", "ctx", "failed"}, resp : BOOLEAN]

MaxAttemptsUnclamped == AttemptsOption
MaxAttempts == IF AttemptsOption < N THEN AttemptsOption ELSE N

NoScan == [age |-> 0, start |-> 0, offset |-> 0,
           selected |-> None, load |-> 0, earliest |-> 0]

------------------------------------------------------------------------------
(* Rates.                                                                   *)

Least(a, b) == IF a < b THEN a ELSE b
Most(a, b) == IF a > b THEN a ELSE b

\* Rounded up: a success always raises a rate that is below the maximum.
RaisedUncapped(r) == r + ((Increase + r - 1) \div r)
Raised(r) == Least(MaxRate, r + ((Increase + r - 1) \div r))

Lowered(r) == Most(MinRate, (r * DecreaseNum) \div DecreaseDen)

Interval(r) == Most(Second \div r, 1)
Longest == Most(Second, 1)

------------------------------------------------------------------------------
TypeOK ==
    /\ lock \in Lookups \cup {Free}
    /\ cursor \in Upstreams
    /\ rate \in [Upstreams -> MinRate..MaxRate]
    /\ nextIn \in [Upstreams -> (-Lag)..Longest]
    /\ cooldownIn \in [Upstreams -> (-Lag)..Cooldown]
    /\ inFlight \in [Upstreams -> Nat]
    /\ pc \in [Lookups -> Points]
    /\ ctx \in [Lookups -> {"live", "canceled", "expired"}]
    /\ excluded \in [Lookups -> SUBSET Upstreams]
    /\ attempt \in [Lookups -> 0..MaxAttempts]
    /\ at \in [Lookups -> Upstreams \cup {None}]
    /\ last \in [Lookups -> BOOLEAN]
    /\ scan \in [Lookups -> [age : 0..Lag, start : Upstreams, offset : 0..N,
                             selected : Upstreams \cup {None},
                             load : Nat, earliest : Nat]]
    /\ timer \in [Lookups -> Nat]
    /\ result \in [Lookups -> Results]

Init ==
    /\ lock = Free
    /\ cursor = 0
    /\ rate = [u \in Upstreams |-> InitialRate]
    /\ nextIn = [u \in Upstreams |-> -Lag]
    /\ cooldownIn = [u \in Upstreams |-> -Lag]
    /\ inFlight = [u \in Upstreams |-> 0]
    /\ pc = [l \in Lookups |-> "idle"]
    /\ ctx = [l \in Lookups |-> "live"]
    /\ excluded = [l \in Lookups |-> {}]
    /\ attempt = [l \in Lookups |-> 0]
    /\ at = [l \in Lookups |-> None]
    /\ last = [l \in Lookups |-> FALSE]
    /\ scan = [l \in Lookups |-> NoScan]
    /\ timer = [l \in Lookups |-> 0]
    /\ result = [l \in Lookups |-> [err |-> "nil", resp |-> FALSE]]

Goto(l, point) == pc' = [pc EXCEPT ![l] = point]

\* Lookup returns; its locals and its context go out of scope.
Return(l, err, resp) ==
    /\ Goto(l, "done")
    /\ result' = [result EXCEPT ![l] = [err |-> err, resp |-> resp]]
    /\ excluded' = [excluded EXCEPT ![l] = {}]
    /\ attempt' = [attempt EXCEPT ![l] = 0]
    /\ at' = [at EXCEPT ![l] = None]
    /\ last' = [last EXCEPT ![l] = FALSE]
    /\ timer' = [timer EXCEPT ![l] = 0]
    /\ ctx' = [ctx EXCEPT ![l] = "live"]
    /\ UNCHANGED scan

Start(l) ==
    /\ pc[l] = "idle"
    /\ \/ ctx[l] = "live" /\ Goto(l, "reserve") /\ UNCHANGED <<locals, ctx, result>>
       \/ ctx[l] # "live" /\ Return(l, "ctx", FALSE)
    /\ UNCHANGED pool

------------------------------------------------------------------------------
(* reserveUpstream.                                                         *)

LockIgnored == TRUE
LockFree == lock = Free

\* Take selectionMu, read the clock, advance the cursor.
Reserve(l) ==
    /\ pc[l] = "reserve"
    /\ LockFree
    /\ lock' = l
    /\ scan' = [scan EXCEPT ![l] = [NoScan EXCEPT !.start = cursor]]
    /\ cursor' = (cursor + 1) % N
    /\ Goto(l, "scan")
    /\ UNCHANGED <<rate, nextIn, cooldownIn, inFlight, ctx, excluded, attempt,
                   at, last, timer, result>>

AvailableInIgnoringCooldown(u) == nextIn[u]
AvailableIn(u) == Most(nextIn[u], cooldownIn[u])

Visited(s) == (s.start + s.offset) % N

\* One turn of the loop, by the state of the upstream it visits.
UntriedForgotten(l, u) == TRUE
Untried(l, u) == u \notin excluded[l]
NotYet(l, u) == Untried(l, u) /\ AvailableIn(u) > -scan[l].age
Ready(l, u) == Untried(l, u) /\ AvailableIn(u) <= -scan[l].age

Earlier(s, t) == IF s.earliest = 0 \/ t < s.earliest THEN t ELSE s.earliest

Inspect(l) ==
    LET s == scan[l]
        u == Visited(s)
        next == [s EXCEPT !.offset = @ + 1]
    IN  /\ pc[l] = "scan" /\ s.offset < N
        /\ \/ /\ ~Untried(l, u)
              /\ scan' = [scan EXCEPT ![l] = next]
           \/ /\ NotYet(l, u)
              /\ scan' = [scan EXCEPT ![l] =
                     [next EXCEPT !.earliest = Earlier(s, AvailableIn(u) + s.age)]]
           \/ /\ Ready(l, u)
              /\ scan' = [scan EXCEPT ![l] =
                     IF s.selected = None \/ inFlight[u] < s.load
                     THEN [next EXCEPT !.selected = u, !.load = inFlight[u]]
                     ELSE next]
        /\ UNCHANGED <<pool, pc, ctx, excluded, attempt, at, last, timer, result>>

Claim(l) ==
    LET s == scan[l]
        u == s.selected
    IN  /\ pc[l] = "scan" /\ s.offset = N /\ u # None
        /\ nextIn' = [nextIn EXCEPT ![u] = Interval(rate[u]) - s.age]
        /\ inFlight' = [inFlight EXCEPT ![u] = @ + 1]
        /\ lock' = Free
        /\ at' = [at EXCEPT ![l] = u]
        /\ attempt' = [attempt EXCEPT ![l] = @ + 1]
        /\ scan' = [scan EXCEPT ![l] = NoScan]
        /\ Goto(l, "call")
        /\ UNCHANGED <<cursor, rate, cooldownIn, ctx, excluded, last, timer, result>>

\* Nothing free: unlock and wait for the earliest slot, one tick at least.
NoSlot(l) ==
    LET s == scan[l]
    IN  /\ pc[l] = "scan" /\ s.offset = N /\ s.selected = None
        /\ timer' = [timer EXCEPT ![l] =
               IF s.earliest = 0 THEN 1 ELSE Most(s.earliest - s.age, 1)]
        /\ lock' = Free
        /\ scan' = [scan EXCEPT ![l] = NoScan]
        /\ Goto(l, "wait")
        /\ UNCHANGED <<cursor, rate, nextIn, cooldownIn, inFlight, ctx, excluded,
                       attempt, at, last, result>>

------------------------------------------------------------------------------
(* waitForAdaptiveSlot.  When timer and context are both ready, Go's select  *)
(* picks either.                                                            *)

Wake(l) ==
    /\ pc[l] = "wait"
    /\ timer[l] = 0
    /\ Goto(l, "reserve")
    /\ UNCHANGED <<pool, locals, ctx, result>>

WaitIgnoresContext(l) == FALSE
WaitEnded(l) ==
    /\ pc[l] = "wait"
    /\ ctx[l] # "live"
    /\ Return(l, "ctx", last[l])
    /\ UNCHANGED pool

------------------------------------------------------------------------------
(* The answer of the reserved upstream: "answer", a REFUSED or SERVFAIL      *)
(* response, or an error without a response.                                *)

Outcomes == {"answer", "refused", "error"}
HasResponse(outcome) == outcome # "error"

Release(u) ==
    /\ inFlight' = [inFlight EXCEPT ![u] = @ - 1]
    /\ UNCHANGED <<rate, cooldownIn>>

ObserveSuccess(u) ==
    /\ inFlight' = [inFlight EXCEPT ![u] = @ - 1]
    /\ rate' = [rate EXCEPT ![u] = Raised(@)]
    /\ UNCHANGED cooldownIn

ObserveFailure(u) ==
    /\ inFlight' = [inFlight EXCEPT ![u] = @ - 1]
    /\ rate' = [rate EXCEPT ![u] = Lowered(@)]
    /\ cooldownIn' = [cooldownIn EXCEPT ![u] = Cooldown]

\* The context has ended by the time the upstream answers.
CancelledWithoutRelease(l, outcome) ==
    /\ ctx[l] # "live"
    /\ IF ctx[l] = "expired"
       THEN ObserveFailure(at[l])
       ELSE UNCHANGED <<inFlight, rate, cooldownIn>>
    /\ Return(l, "ctx", HasResponse(outcome))

Cancelled(l, outcome) ==
    /\ ctx[l] # "live"
    /\ IF ctx[l] = "expired" THEN ObserveFailure(at[l]) ELSE Release(at[l])
    /\ Return(l, "ctx", HasResponse(outcome))

Succeeded(l, outcome) ==
    /\ ctx[l] = "live" /\ outcome = "answer"
    /\ ObserveSuccess(at[l])
    /\ Return(l, "nil", TRUE)

\* Exclude the upstream and try another, or give up after MaxAttempts.
Failed(l, outcome) ==
    /\ ctx[l] = "live" /\ outcome # "answer"
    /\ ObserveFailure(at[l])
    /\ \/ /\ attempt[l] < MaxAttempts
          /\ excluded' = [excluded EXCEPT ![l] = @ \cup {at[l]}]
          /\ last' = [last EXCEPT ![l] = HasResponse(outcome)]
          /\ at' = [at EXCEPT ![l] = None]
          /\ Goto(l, "reserve")
          /\ UNCHANGED <<ctx, attempt, scan, timer, result>>
       \/ /\ attempt[l] >= MaxAttempts
          /\ Return(l, "failed", HasResponse(outcome))

SettleWith(l, outcome) ==
    /\ pc[l] = "call"
    /\ Cancelled(l, outcome) \/ Succeeded(l, outcome) \/ Failed(l, outcome)
    /\ UNCHANGED <<lock, cursor, nextIn>>

Settle(l) == \E outcome \in Outcomes : SettleWith(l, outcome)

------------------------------------------------------------------------------
(* Environment.                                                             *)

\* The goroutine makes another call, with a context of its own.
CallAgain(l) ==
    /\ l \in Repeating
    /\ pc[l] = "done"
    /\ Goto(l, "idle")
    /\ result' = [result EXCEPT ![l] = [err |-> "nil", resp |-> FALSE]]
    /\ UNCHANGED <<pool, locals, ctx>>

EndContext(l) ==
    /\ pc[l] # "done"
    /\ ctx[l] = "live"
    /\ \E how \in {"canceled", "expired"} : ctx' = [ctx EXCEPT ![l] = how]
    /\ UNCHANGED <<pool, locals, pc, result>>

Tick ==
    /\ \A l \in Lookups : pc[l] = "scan" => scan[l].age < Lag
    /\ nextIn' = [u \in Upstreams |-> Most(nextIn[u] - 1, -Lag)]
    /\ cooldownIn' = [u \in Upstreams |-> Most(cooldownIn[u] - 1, -Lag)]
    /\ timer' = [l \in Lookups |-> Most(timer[l] - 1, 0)]
    /\ scan' = [l \in Lookups |->
                   IF pc[l] = "scan" THEN [scan[l] EXCEPT !.age = @ + 1] ELSE scan[l]]
    /\ UNCHANGED <<lock, cursor, rate, inFlight, pc, ctx, excluded, attempt, at,
                   last, result>>

Step(l) ==
    \/ Start(l) \/ Reserve(l) \/ Inspect(l) \/ Claim(l) \/ NoSlot(l)
    \/ Wake(l) \/ WaitEnded(l) \/ Settle(l)

Next == Tick \/ \E l \in Lookups : Step(l) \/ CallAgain(l) \/ EndContext(l)

Spec == Init /\ [][Next]_vars

\* Time passes; goroutines run and their upstream answers.  Besides, sync.Mutex
\* does not starve a waiter, and select, which picks among the ready cases at
\* random, does not ignore one for ever.
FairSpec ==
    /\ Spec /\ WF_vars(Tick)
    /\ \A l \in Lookups : WF_vars(Step(l)) /\ SF_vars(Reserve(l)) /\ SF_vars(WaitEnded(l))

------------------------------------------------------------------------------
(* Safety.                                                                  *)

Calling(u) == {l \in Lookups : pc[l] = "call" /\ at[l] = u}

\* inFlight counts the requests executing on the upstream, whatever way each of
\* the other requests ended (observeSuccess, observeFailure, release).
InFlightExact == \A u \in Upstreams : inFlight[u] = Cardinality(Calling(u))

\* Each attempt of a lookup goes to an upstream it has not tried yet.
DistinctUpstreams ==
    \A l \in Lookups :
        /\ attempt[l] = Cardinality(excluded[l]) + (IF pc[l] = "call" THEN 1 ELSE 0)
        /\ pc[l] = "call" => at[l] \notin excluded[l]

\* A selection that found nothing knows when something will be free: the fallback
\* of one millisecond in reserveUpstream is never taken.
AlwaysKnowsEarliest ==
    \A l \in Lookups :
        pc[l] = "scan" /\ scan[l].offset = N /\ scan[l].selected = None
            => scan[l].earliest # 0

Claims(l, u) == pc[l] = "scan" /\ pc'[l] = "call" /\ at'[l] = u

\* Two requests to one upstream are an interval of its learned rate apart: at a
\* claim, nextAllowed is still not after the time the selection started.
PacedDispatch ==
    [][\A l \in Lookups, u \in Upstreams :
          Claims(l, u) => nextIn[u] <= -scan[l].age]_vars

\* A cooling upstream is claimed only when the failure that cools it was observed
\* while the selection was under way.
CoolingOnlyByRace ==
    [][\A l \in Lookups, u \in Upstreams :
          Claims(l, u) /\ cooldownIn[u] > -scan[l].age
              => cooldownIn[u] - Cooldown >= -scan[l].age]_vars

------------------------------------------------------------------------------
(* Liveness.                                                                *)

\* Once nobody begins a call any more, every call returns, even if no context ever
\* ends.
Terminates ==
    <>[](\A l \in Lookups : pc[l] # "idle")
        => \A l \in Lookups : pc[l] = "reserve" ~> pc[l] = "done"

\* However busy the others keep the pool, a call whose context has ended returns.
ContextHonoured ==
    \A l \in Lookups : pc[l] # "done" /\ ctx[l] # "live" ~> pc[l] = "done"
===============================================================================
