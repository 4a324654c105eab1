---------------------------- MODULE CircuitBreaker ----------------------------
(***************************************************************************)
(* CircuitBreakerResolver over MetricsResolver (circuit_breaker.go), one   *)
(* action per atomic operation of Lookup, so that lookups on different     *)
(* goroutines interleave between the load of the state, the reading of the *)
(* time stamp, the compare-and-swaps, the refreshing of the time stamp and *)
(* the counter updates, exactly where the code lets them.                  *)
(*                                                                         *)
(* Abstractions.                                                           *)
(*  - Time: "age" is time.Since(lastStateChange), counted in ticks up to   *)
(*    Cooling: the code only asks whether it has reached coolingTimeout.   *)
(*  - failure saturates at Threshold: the code only adds 1, stores 0 and   *)
(*    asks whether it is >= failureThreshold.                              *)
(*  - The success counter is never read and is left out.                   *)
(*  - The wrapped resolver is the environment: it succeeds while "up".     *)
(***************************************************************************)
EXTENDS Naturals, FiniteSets

CONSTANTS
    Lookups,    \* goroutines that call Lookup, each one call at a time
    Threshold,  \* failureThreshold
    Cooling     \* coolingTimeout, in ticks

ASSUME ThresholdAssumption == Threshold \in Nat
ASSUME CoolingAssumption == Cooling \in Nat

VARIABLES
    state,      \* the atomic state word
    age,        \* ticks since lastStateChange, saturating at Cooling
    failure,    \* MetricsResolver.failure, saturating at Threshold
    pc,         \* per lookup: the next atomic operation of Lookup
    seen,       \* per lookup: its local variable "state"
    up          \* environment: does the wrapped resolver succeed?

(* History variables: read by properties only, never by a guard.           *)
VARIABLES
    sinceChange, \* ticks since the last successful CAS, saturating at Cooling
    tainted,     \* lookups about to claim on a cooling verdict that was taken
                 \* while a stamp was missing, or that a later CAS made stale
    recent       \* failures counted since the breaker last became Closed

code == <<state, age, failure, pc, seen, up>>
history == <<sinceChange, tainted, recent>>
vars == <<state, age, failure, pc, seen, up, sinceChange, tainted, recent>>

States == {"Closed", "Open", "HalfOpen"}

Stamping == {"stampProbe", "stampOpen", "stampClosed"}
Points == {"idle", "cooling", "claim", "reload", "call",
           "ok", "failed", "trip", "reset"} \cup Stamping

TypeOK ==
    /\ state \in States
    /\ age \in 0..Cooling
    /\ failure \in 0..Threshold
    /\ pc \in [Lookups -> Points]
    /\ seen \in [Lookups -> States]
    /\ up \in BOOLEAN
    /\ sinceChange \in 0..Cooling
    /\ tainted \in SUBSET Lookups
    /\ recent \in 0..Threshold
    /\ \A l \in Lookups : seen[l] = "Open" => pc[l] \in {"cooling", "claim", "reload"}

Upto(bound, n) == IF n < bound THEN n ELSE bound

Init ==
    /\ state = "Closed"
    /\ age = 0
    /\ failure = 0
    /\ pc = [l \in Lookups |-> "idle"]
    /\ seen = [l \in Lookups |-> "Closed"]
    /\ up \in BOOLEAN
    /\ sinceChange = 0
    /\ tainted = {}
    /\ recent = 0

------------------------------------------------------------------------------
(* Control.                                                                *)

At(l, point) == pc[l] = point
Goto(l, point) == pc' = [pc EXCEPT ![l] = point]

\* Lookup returns; its local variable goes out of scope.
Return(l) ==
    /\ Goto(l, "idle")
    /\ seen' = [seen EXCEPT ![l] = "Closed"]

Learn(l, s) == seen' = [seen EXCEPT ![l] = s]

\* The plain stores and the atomic add, by what they do to the shared variables
\* (each followed by the slip that the runs are tested against).
CountFailureForgotten == UNCHANGED failure
CountFailure == failure' = Upto(Threshold, failure + 1)

ClearFailuresForgotten == UNCHANGED failure
ClearFailures == failure' = 0

EndStreak == failure' = 0

RefreshStampForgotten == UNCHANGED age
RefreshStamp == age' = 0

\* The CAS at the head of compareAndSwapState and changeState, when it succeeds.
Swap(l, old, new) ==
    /\ state = old
    /\ state' = new
    /\ sinceChange' = 0
    /\ tainted' = {c \in Lookups \ {l} : At(c, "claim")}
    /\ UNCHANGED <<age, failure, up>>

\* The CAS when another lookup has moved the state first.
SwapLost(l, old) ==
    /\ state # old
    /\ tainted' = tainted \ {l}
    /\ UNCHANGED <<state, age, failure, up, sinceChange, recent>>

------------------------------------------------------------------------------
(* Lookup, in program order.                                               *)

Begin(l) ==
    /\ At(l, "idle")
    /\ Learn(l, state)
    /\ Goto(l, IF state = "Open" THEN "cooling" ELSE "call")
    /\ UNCHANGED <<state, age, failure, up, history>>

CoolingOverEarly == age + 1 >= Cooling
CoolingOver == age >= Cooling

CoolingCheck(l) ==
    /\ At(l, "cooling")
    /\ \/ /\ CoolingOver
          /\ Goto(l, "claim")
          /\ tainted' = IF \E c \in Lookups : pc[c] \in Stamping
                        THEN tainted \cup {l} ELSE tainted
          /\ UNCHANGED seen
       \/ /\ ~CoolingOver        \* ErrCircuitBreaker
          /\ Return(l)
          /\ UNCHANGED tainted
    /\ UNCHANGED <<state, age, failure, up, sinceChange, recent>>

Claim(l) ==
    /\ At(l, "claim")
    /\ \/ /\ Swap(l, "Open", "HalfOpen")
          /\ Learn(l, "HalfOpen")
          /\ Goto(l, "stampProbe")
          /\ UNCHANGED recent
       \/ /\ SwapLost(l, "Open")
          /\ Goto(l, "reload")
          /\ UNCHANGED seen

ReloadWithoutCheck(l) ==
    /\ At(l, "reload")
    /\ Learn(l, state)
    /\ Goto(l, "call")
    /\ UNCHANGED <<state, age, failure, up, history>>

Reload(l) ==
    /\ At(l, "reload")
    /\ \/ /\ state = "Open"      \* ErrCircuitBreaker
          /\ Return(l)
       \/ /\ state # "Open"
          /\ Learn(l, state)
          /\ Goto(l, "call")
    /\ UNCHANGED <<state, age, failure, up, history>>

\* MetricsResolver.Lookup: call the wrapped resolver and count its failure.
Respond(l) ==
    /\ At(l, "call")
    /\ \/ /\ up
          /\ Goto(l, "ok")
          /\ UNCHANGED <<failure, recent>>
       \/ /\ ~up
          /\ Goto(l, "failed")
          /\ CountFailure
          /\ recent' = Upto(Threshold, recent + 1)
    /\ UNCHANGED <<state, age, seen, up, sinceChange, tainted>>

\* A probe whose verdict leaves the state alone.
ProbeDropped(l, verdict) ==
    /\ At(l, verdict)
    /\ seen[l] = "HalfOpen"
    /\ Return(l)
    /\ UNCHANGED <<state, age, failure, up, history>>

ProbeSucceededDropped(l) == ProbeDropped(l, "ok")
ProbeSucceeded(l) ==
    /\ At(l, "ok")
    /\ seen[l] = "HalfOpen"
    /\ \/ /\ Swap(l, "HalfOpen", "Closed")
          /\ Goto(l, "stampClosed")
          /\ UNCHANGED seen
          /\ recent' = 0
       \/ /\ SwapLost(l, "HalfOpen")
          /\ Return(l)

CallSucceeded(l) ==
    /\ At(l, "ok")
    /\ seen[l] = "Closed"
    /\ EndStreak
    /\ Return(l)
    /\ UNCHANGED <<state, age, up, history>>

ProbeFailedDropped(l) == ProbeDropped(l, "failed")
ProbeFailed(l) ==
    /\ At(l, "failed")
    /\ seen[l] = "HalfOpen"
    /\ \/ /\ Swap(l, "HalfOpen", "Open")
          /\ Goto(l, "stampOpen")
          /\ UNCHANGED <<seen, recent>>
       \/ /\ SwapLost(l, "HalfOpen")
          /\ Return(l)

\* failure.Load() >= failureThreshold, evaluated before the CAS that acts on it.
CallFailed(l) ==
    /\ At(l, "failed")
    /\ seen[l] = "Closed"
    /\ \/ /\ failure >= Threshold
          /\ Goto(l, "trip")
          /\ UNCHANGED seen
       \/ /\ failure < Threshold
          /\ Return(l)
    /\ UNCHANGED <<state, age, failure, up, history>>

TripFromAnywhere(l) ==
    /\ At(l, "trip")
    /\ \E s \in States : Swap(l, s, "Open")
    /\ Goto(l, "stampOpen")
    /\ UNCHANGED <<seen, recent>>

Trip(l) ==
    /\ At(l, "trip")
    /\ \/ /\ Swap(l, "Closed", "Open")
          /\ Goto(l, "stampOpen")
          /\ UNCHANGED <<seen, recent>>
       \/ /\ SwapLost(l, "Closed")
          /\ Return(l)

\* lastStateChange = time.Now(), under mu, after the CAS has become visible.
Stamp(l) ==
    /\ pc[l] \in Stamping
    /\ RefreshStamp
    /\ \/ At(l, "stampProbe") /\ Goto(l, "call") /\ UNCHANGED seen
       \/ At(l, "stampClosed") /\ Goto(l, "reset") /\ UNCHANGED seen
       \/ At(l, "stampOpen") /\ Return(l)
    /\ UNCHANGED <<state, failure, up, history>>

\* failure.Store(0) of a recovery, after Closed and its stamp have become visible.
Reset(l) ==
    /\ At(l, "reset")
    /\ ClearFailures
    /\ Return(l)
    /\ UNCHANGED <<state, age, up, history>>

------------------------------------------------------------------------------
(* Environment.                                                            *)

Tick ==
    /\ age < Cooling \/ sinceChange < Cooling
    /\ age' = Upto(Cooling, age + 1)
    /\ sinceChange' = Upto(Cooling, sinceChange + 1)
    /\ UNCHANGED <<state, failure, pc, seen, up, tainted, recent>>

Health ==
    /\ up' = ~up
    /\ UNCHANGED <<state, age, failure, pc, seen, history>>

Step(l) ==
    \/ Begin(l) \/ CoolingCheck(l) \/ Claim(l) \/ Reload(l) \/ Respond(l)
    \/ ProbeSucceeded(l) \/ CallSucceeded(l) \/ ProbeFailed(l) \/ CallFailed(l)
    \/ Trip(l) \/ Stamp(l) \/ Reset(l)

Next == Tick \/ Health \/ \E l \in Lookups : Step(l)

Spec == Init /\ [][Next]_vars

\* Goroutines run, the wrapped resolver answers every call, callers keep
\* calling, and time passes.
FairSpec == Spec /\ WF_vars(Tick) /\ \A l \in Lookups : WF_vars(Step(l))

------------------------------------------------------------------------------
(* Safety.                                                                 *)

\* Once no lookup stands between its CAS and its stamp, the time stamp is at
\* least as young as the last change of state (compareAndSwapState and
\* changeState each refresh it after their CAS).
StampCurrent ==
    (\A l \in Lookups : pc[l] \notin Stamping) => age <= sinceChange

\* Once no recovery is under way, failure counts nothing from before the breaker
\* last became Closed (changeState starts the count again).
CountCurrent ==
    (\A l \in Lookups : pc[l] \notin {"stampClosed", "reset"}) => failure <= recent

\* A lookup about to turn Open into HalfOpen does so after a full cooling time,
\* unless its verdict fell into one of the two race windows of the code: taken
\* between another lookup's CAS and stamp, or overtaken by another CAS.
CoolingHonoured ==
    \A l \in Lookups : At(l, "claim") /\ l \notin tainted => sinceChange >= Cooling

\* HalfOpen is never stranded: some call admitted as a probe has still to
\* deliver the verdict that takes the breaker out of HalfOpen.
Probing(l) == seen[l] = "HalfOpen" /\ pc[l] \in {"stampProbe", "call", "ok", "failed"}
HalfOpenHasProbe == state = "HalfOpen" => \E l \in Lookups : Probing(l)

------------------------------------------------------------------------------
(* Liveness.                                                               *)

\* If the wrapped resolver stays healthy, the breaker ends up Closed for good.
Recovers == <>[]up => <>[](state = "Closed")

\* If it stays down, the breaker leaves Closed for good, and keeps coming back
\* to Open rather than staying HalfOpen.
TripsOnOutage == <>[]~up => <>[](state # "Closed") /\ []<>(state = "Open")

------------------------------------------------------------------------------
(* The abstract breaker: the verdict of a call is still pending at "trip",  *)
(* and delivered once the CAS has been done.                                *)

Progress(point) ==
    CASE point \in {"idle", "cooling", "claim", "reload"} -> "none"
      [] point \in {"stampProbe", "call"} -> "running"
      [] point = "ok" -> "ok"
      [] point \in {"failed", "trip"} -> "failed"
      [] point \in {"stampOpen", "stampClosed", "reset"} -> "done"

CallOf(point, kind) ==
    IF Progress(point) = "none"
    THEN [at |-> "none", kind |-> "Closed"]
    ELSE [at |-> Progress(point), kind |-> kind]

callMapped == [l \in Lookups |-> CallOf(pc[l], seen[l])]

Abstract == INSTANCE BreakerSpec WITH mode <- state, call <- callMapped

\* The breaker's state moves only on the verdict of a call of the right kind.
Refinement == Abstract!ASpec
==============================================================================
