-------------------------- MODULE AdaptivePoolProofs --------------------------
(***************************************************************************)
(* Proofs about AdaptivePool, for every finite set of lookups, every number *)
(* of upstreams and all values of the options that the constructor accepts, *)
(* and, at the end, about DefaultChain, the pool over circuit breakers.      *)
(***************************************************************************)
EXTENDS DefaultChain, FiniteSetTheorems, TLAPS

(* The inductive invariant: the properties, and what the locals of a lookup  *)
(* say about the pool while its selection is under way.                      *)

\* selectionMu is held throughout a selection.
Mutex == \A l \in Lookups : pc[l] = "scan" => lock = l

Reserved == \A l \in Lookups : pc[l] = "call" => at[l] \in Upstreams

\* A lookup that is not calling has an attempt left.
AttemptLeft == \A l \in Lookups : pc[l] # "call" => attempt[l] < MaxAttempts

Choosing(l) == pc[l] = "scan" /\ scan[l].selected # None

\* The selected upstream was free when it was visited, and is still untried.  Since
\* then only a failure can have made it cool down.
ChoiceFree ==
    \A l \in Lookups : Choosing(l) =>
        LET u == scan[l].selected
        IN  /\ u \notin excluded[l]
            /\ nextIn[u] <= -scan[l].age
            /\ \/ cooldownIn[u] <= -scan[l].age
               \/ cooldownIn[u] - Cooldown >= -scan[l].age

\* While a selection is under way, the load it recorded for its choice can only
\* have gone down: nobody else claims in between.
ChoiceNotWorse ==
    \A l \in Lookups :
        pc[l] = "scan" /\ scan[l].selected # None
            => inFlight[scan[l].selected] <= scan[l].load

\* The upstreams the loop has visited.
Seen(s) == {(s.start + o) % N : o \in 0..(s.offset - 1)}

\* As long as nothing was selected and no time noted, all of them were tried.
LoopSound ==
    \A l \in Lookups :
        pc[l] = "scan" /\ scan[l].selected = None /\ scan[l].earliest = 0
            => Seen(scan[l]) \subseteq excluded[l]

IInv ==
    /\ TypeOK /\ Mutex /\ Reserved /\ AttemptLeft
    /\ InFlightExact /\ DistinctUpstreams
    /\ ChoiceNotWorse /\ ChoiceFree /\ LoopSound

------------------------------------------------------------------------------
(* Arithmetic of the rates and of the loop's index.                         *)

\* A quotient of naturals is a natural, and no greater than the dividend.
LEMMA DivAtMost ==
    ASSUME NEW a \in Nat, NEW b \in Nat \ {0}
    PROVE  a \div b \in Nat /\ a \div b <= a
  BY SMTT(30)

\* A rate times DecreaseFactor is not higher.
LEMMA ScaledDown ==
    ASSUME NEW r \in Nat
    PROVE  /\ (r * DecreaseNum) \div DecreaseDen \in Nat
           /\ (r * DecreaseNum) \div DecreaseDen <= r
  BY DecreaseAssumption, SMTT(30)

\* Both halves of AIMD keep a rate between MinRate and MaxRate.
LEMMA RatesInRange ==
    ASSUME NEW r \in MinRate..MaxRate
    PROVE  Raised(r) \in MinRate..MaxRate /\ Lowered(r) \in MinRate..MaxRate
<1>1. r \in Nat \ {0} /\ Increase + r - 1 \in Nat
  BY RateAssumption
<1>2. (Increase + r - 1) \div r \in Nat
  BY <1>1, DivAtMost
<1>3. (r * DecreaseNum) \div DecreaseDen \in Nat /\ (r * DecreaseNum) \div DecreaseDen <= r
  BY <1>1, ScaledDown
<1>. QED
  BY <1>1, <1>2, <1>3, RateAssumption DEF Raised, Lowered, Least, Most

\* A success never lowers a rate.
LEMMA RaisedNotLower ==
    ASSUME NEW r \in MinRate..MaxRate
    PROVE  Raised(r) >= r
<1>1. r \in Nat \ {0} /\ r <= MaxRate /\ MaxRate \in Nat /\ Increase + r - 1 \in Nat
  BY RateAssumption
<1>2. (Increase + r - 1) \div r \in Nat
  BY <1>1, DivAtMost
<1>. QED
  BY <1>1, <1>2 DEF Raised, Least


\* The interval of a rate is at least a tick and at most a second (intervalForQPS).
LEMMA IntervalInRange ==
    ASSUME NEW r \in MinRate..MaxRate
    PROVE  Interval(r) \in 1..Longest
<1>1. Second \div r \in Nat /\ Second \div r <= Second
  BY DivAtMost, RateAssumption
<1>. QED
  BY <1>1, RateAssumption DEF Interval, Longest, Most

\* A remainder modulo N is an upstream.
LEMMA ModRange ==
    ASSUME NEW k \in Int
    PROVE  k % N \in Upstreams
  BY UpstreamAssumption, SMTT(30) DEF Upstreams

\* One wrap around the upstreams.
LEMMA ModWrap ==
    /\ \A k \in Upstreams : k % N = k
    /\ \A k \in N..(2 * N - 1) : k % N = k - N
  BY UpstreamAssumption, SMTT(30) DEF Upstreams

\* The loop visits every upstream, wherever it starts.
LEMMA LoopVisitsAll ==
    ASSUME NEW start \in Upstreams, NEW u \in Upstreams
    PROVE  \E o \in 0..(N - 1) : u = (start + o) % N
<1>1. CASE u >= start
  <2>1. u - start \in 0..(N - 1) /\ (start + (u - start)) % N = u
    BY <1>1, ModWrap, UpstreamAssumption DEF Upstreams
  <2>. QED  BY <2>1
<1>2. CASE u < start
  <2>1. u - start + N \in 0..(N - 1) /\ start + (u - start + N) \in N..(2 * N - 1)
    BY <1>2, UpstreamAssumption DEF Upstreams
  <2>2. (start + (u - start + N)) % N = u
    BY <2>1, ModWrap, UpstreamAssumption DEF Upstreams
  <2>. QED  BY <2>1, <2>2
<1>. QED
  BY <1>1, <1>2, UpstreamAssumption DEF Upstreams

\* The constructor's clamp: at least one attempt, at most one per upstream.
LEMMA MaxAttemptsRange == MaxAttempts \in 1..N
  BY UpstreamAssumption, AttemptsAssumption DEF MaxAttempts

\* There are N upstreams.
LEMMA UpstreamsFinite == IsFiniteSet(Upstreams) /\ Cardinality(Upstreams) = N
  BY FS_Interval, UpstreamAssumption DEF Upstreams

\* The requests executing on an upstream can be counted.
LEMMA CallingFinite ==
    \A u \in Upstreams : IsFiniteSet(Calling(u)) /\ Cardinality(Calling(u)) \in Nat
  BY FS_Subset, FS_CardinalityType, LookupsAssumption DEF Calling

------------------------------------------------------------------------------
(* What the end of a request changes, whatever its outcome.                 *)

\* Whichever way a request ends, it gives its slot back, keeps the rates in range,
\* and leaves selections and paces alone.
LEMMA SettleEffect ==
    ASSUME TypeOK, Reserved, NEW l \in Lookups, Settle(l)
    PROVE  /\ pc[l] = "call" /\ at[l] \in Upstreams
           /\ inFlight' = [inFlight EXCEPT ![at[l]] = @ - 1]
           /\ rate' \in [Upstreams -> MinRate..MaxRate]
           /\ \/ cooldownIn' = cooldownIn
              \/ cooldownIn' = [cooldownIn EXCEPT ![at[l]] = Cooldown]
           /\ at' = [at EXCEPT ![l] = None]
           /\ \/ /\ pc' = [pc EXCEPT ![l] = "done"]
                 /\ excluded' = [excluded EXCEPT ![l] = {}]
                 /\ attempt' = [attempt EXCEPT ![l] = 0]
              \/ /\ pc' = [pc EXCEPT ![l] = "reserve"]
                 /\ attempt[l] < MaxAttempts
                 /\ excluded' = [excluded EXCEPT ![l] = @ \cup {at[l]}]
                 /\ UNCHANGED attempt
           /\ UNCHANGED <<lock, cursor, nextIn, scan>>
<1>1. pc[l] = "call" /\ at[l] \in Upstreams
  BY DEF Settle, SettleWith, Reserved
<1>2. UNCHANGED <<lock, cursor, nextIn>>
  BY DEF Settle, SettleWith
<1>3. PICK outcome \in Outcomes :
        Cancelled(l, outcome) \/ Succeeded(l, outcome) \/ Failed(l, outcome)
  BY DEF Settle, SettleWith
<1>4. rate \in [Upstreams -> MinRate..MaxRate] /\ rate[at[l]] \in MinRate..MaxRate
  BY <1>1 DEF TypeOK
<1>5. Raised(rate[at[l]]) \in MinRate..MaxRate /\ Lowered(rate[at[l]]) \in MinRate..MaxRate
  BY <1>4, RatesInRange
<1>6. CASE Cancelled(l, outcome)
  BY <1>1, <1>2, <1>4, <1>5, <1>6
  DEF Cancelled, Return, Goto, Release, ObserveFailure
<1>7. CASE Succeeded(l, outcome)
  BY <1>1, <1>2, <1>4, <1>5, <1>7 DEF Succeeded, Return, Goto, ObserveSuccess
<1>8. CASE Failed(l, outcome)
  BY <1>1, <1>2, <1>4, <1>5, <1>8 DEF Failed, Return, Goto, ObserveFailure
<1>. QED
  BY <1>3, <1>6, <1>7, <1>8

------------------------------------------------------------------------------
\* The invariant holds of a new pool.
LEMMA InitInvariant == Init => IInv
<1>1. SUFFICES ASSUME Init PROVE IInv
  OBVIOUS
<1>2. TypeOK
  BY <1>1, UpstreamAssumption, RateAssumption, WaitAssumption, MaxAttemptsRange
  DEF Init, TypeOK, Upstreams, None, Points, Results, NoScan, Longest, Most
<1>3. InFlightExact
  BY <1>1, FS_EmptySet DEF Init, InFlightExact, Calling
<1>4. DistinctUpstreams /\ AttemptLeft
  BY <1>1, FS_EmptySet, MaxAttemptsRange DEF Init, DistinctUpstreams, AttemptLeft
<1>. QED
  BY <1>1, <1>2, <1>3, <1>4
  DEF Init, IInv, Mutex, Reserved, ChoiceNotWorse, ChoiceFree, Choosing, LoopSound

------------------------------------------------------------------------------
\* A selection is under way only by the holder of the lock, and a call has its
\* upstream.
LEMMA ControlPreserved ==
    ASSUME TypeOK, Mutex, Reserved, AttemptLeft, [Next]_vars
    PROVE  Mutex' /\ Reserved' /\ AttemptLeft'
<1> USE DEF Mutex, Reserved, AttemptLeft, Goto, Return, pool, locals
<1>1. CASE Tick
  BY <1>1 DEF Tick
<1>2. ASSUME NEW l \in Lookups, Step(l) \/ CallAgain(l) \/ EndContext(l)
      PROVE  Mutex' /\ Reserved' /\ AttemptLeft'
  <2>0. MaxAttempts \in 1..N /\ attempt \in [Lookups -> 0..MaxAttempts]
        /\ pc \in [Lookups -> Points] /\ at \in [Lookups -> Upstreams \cup {None}]
    BY MaxAttemptsRange DEF TypeOK
  <2>1. CASE Start(l)      BY <2>0, <2>1, UpstreamAssumption DEF Start
  <2>2. CASE Reserve(l)
    BY <2>0, <2>2, LookupsAssumption DEF Reserve, LockFree, Free
  <2>3. CASE Inspect(l)    BY <2>0, <2>3 DEF Inspect
  <2>4. CASE Claim(l)
    <3>1. scan[l].selected \in Upstreams
      BY <2>4 DEF Claim, TypeOK
    <3>. QED  BY <2>0, <2>4, <3>1 DEF Claim
  <2>5. CASE NoSlot(l)     BY <2>0, <2>5 DEF NoSlot
  <2>6. CASE Wake(l)       BY <2>0, <2>6 DEF Wake
  <2>7. CASE WaitEnded(l)  BY <2>0, <2>7, UpstreamAssumption DEF WaitEnded
  <2>8. CASE Settle(l)     BY <2>0, <2>8, SettleEffect, UpstreamAssumption
  <2>9. CASE CallAgain(l)  BY <2>0, <2>9 DEF CallAgain
  <2>10. CASE EndContext(l) BY <2>0, <2>10 DEF EndContext
  <2>. QED
    BY <1>2, <2>1, <2>2, <2>3, <2>4, <2>5, <2>6, <2>7, <2>8, <2>9, <2>10 DEF Step
<1>3. CASE UNCHANGED vars
  BY <1>3 DEF vars
<1>. QED
  BY <1>1, <1>2, <1>3 DEF Next

------------------------------------------------------------------------------
\* Claim adds the lookup to the requests of its upstream, Settle takes it away, and
\* nothing else moves either count.
LEMMA InFlightPreserved ==
    ASSUME TypeOK, Reserved, InFlightExact, [Next]_vars
    PROVE  InFlightExact'
<1> USE DEF Goto, Return, pool, locals
<1>0. /\ inFlight \in [Upstreams -> Nat]
      /\ pc \in [Lookups -> Points]
      /\ at \in [Lookups -> Upstreams \cup {None}]
  BY DEF TypeOK
<1>1. CASE UNCHANGED inFlight /\ \A u \in Upstreams : Calling(u)' = Calling(u)
  BY <1>1 DEF InFlightExact
<1>2. CASE Tick \/ UNCHANGED vars
  BY <1>1, <1>2 DEF Tick, vars, Calling
<1>3. ASSUME NEW l \in Lookups, Claim(l) PROVE InFlightExact'
  <2>1. PICK u \in Upstreams : u = scan[l].selected
    BY <1>3 DEF Claim, TypeOK
  <2>2. /\ inFlight' = [inFlight EXCEPT ![u] = @ + 1]
        /\ pc' = [pc EXCEPT ![l] = "call"] /\ at' = [at EXCEPT ![l] = u]
        /\ pc[l] = "scan"
    BY <1>3, <2>1 DEF Claim
  <2>3. \A v \in Upstreams : v # u => Calling(v)' = Calling(v)
    BY <1>0, <2>2 DEF Calling
  <2>4. Calling(u)' = Calling(u) \cup {l} /\ l \notin Calling(u)
    BY <1>0, <2>2 DEF Calling
  <2>5. Cardinality(Calling(u)') = Cardinality(Calling(u)) + 1
    BY <2>4, CallingFinite, FS_AddElement
  <2>. QED
    BY <1>0, <2>2, <2>3, <2>5 DEF InFlightExact
<1>4. ASSUME NEW l \in Lookups, Settle(l) PROVE InFlightExact'
  <2>1. /\ pc[l] = "call" /\ at[l] \in Upstreams
        /\ inFlight' = [inFlight EXCEPT ![at[l]] = @ - 1]
        /\ at' = [at EXCEPT ![l] = None]
        /\ pc' = [pc EXCEPT ![l] = "done"] \/ pc' = [pc EXCEPT ![l] = "reserve"]
    BY <1>4, SettleEffect
  <2>2. \A v \in Upstreams : v # at[l] => Calling(v)' = Calling(v)
    BY <1>0, <2>1 DEF Calling
  <2>3. Calling(at[l])' = {m \in Lookups : pc'[m] = "call" /\ at'[m] = at'[l]}
        /\ {m \in Lookups : pc'[m] = "call" /\ at'[m] = at[l]} = Calling(at[l]) \ {l}
        /\ l \in Calling(at[l])
    BY <1>0, <2>1 DEF Calling
  <2>4. \A v \in Upstreams : v = at[l] => Calling(v)' = Calling(v) \ {l}
    BY <2>3 DEF Calling
  <2>5. Cardinality(Calling(at[l]) \ {l}) = Cardinality(Calling(at[l])) - 1
    BY <2>1, <2>3, CallingFinite, FS_RemoveElement
  <2>. QED
    BY <1>0, <2>1, <2>2, <2>4, <2>5 DEF InFlightExact
<1>5. ASSUME NEW l \in Lookups,
             Start(l) \/ Reserve(l) \/ Inspect(l) \/ NoSlot(l) \/ Wake(l) \/ WaitEnded(l)
                \/ CallAgain(l) \/ EndContext(l)
      PROVE  InFlightExact'
  <2>1. UNCHANGED inFlight
    BY <1>5 DEF Start, Reserve, Inspect, NoSlot, Wake, WaitEnded, CallAgain, EndContext
  <2>2. /\ \/ pc[l] # "call" /\ pc'[l] # "call"
           \/ UNCHANGED <<pc, at>>
        /\ \A m \in Lookups \ {l} : pc'[m] = pc[m] /\ at'[m] = at[m]
    BY <1>0, <1>5 DEF Start, Reserve, Inspect, NoSlot, Wake, WaitEnded, CallAgain, EndContext
  <2>3. \A u \in Upstreams : Calling(u)' = Calling(u)
    BY <2>2 DEF Calling
  <2>. QED
    BY <1>1, <2>1, <2>3
<1>. QED
  BY <1>2, <1>3, <1>4, <1>5 DEF Next, Step

------------------------------------------------------------------------------
\* The types of the pool: rates stay within the options, waits within their bounds.
LEMMA PoolTypePreserved ==
    ASSUME TypeOK, Reserved, InFlightExact', [Next]_vars
    PROVE  /\ lock' \in Lookups \cup {Free}
           /\ cursor' \in Upstreams
           /\ rate' \in [Upstreams -> MinRate..MaxRate]
           /\ nextIn' \in [Upstreams -> (-Lag)..Longest]
           /\ cooldownIn' \in [Upstreams -> (-Lag)..Cooldown]
           /\ inFlight' \in [Upstreams -> Nat]
<1> DEFINE PoolOK ==
             /\ lock \in Lookups \cup {Free}
             /\ cursor \in Upstreams
             /\ rate \in [Upstreams -> MinRate..MaxRate]
             /\ nextIn \in [Upstreams -> (-Lag)..Longest]
             /\ cooldownIn \in [Upstreams -> (-Lag)..Cooldown]
             /\ inFlight \in [Upstreams -> Nat]
<1> SUFFICES PoolOK'
  OBVIOUS
<1>0. PoolOK /\ Longest \in Nat /\ Cooldown \in Nat /\ Lag \in Nat
  BY RateAssumption, WaitAssumption DEF TypeOK, Longest, Most
<1>1. CASE Tick
  <2>1. \A u \in Upstreams : /\ Most(nextIn[u] - 1, -Lag) \in (-Lag)..Longest
                             /\ Most(cooldownIn[u] - 1, -Lag) \in (-Lag)..Cooldown
    BY <1>0 DEF Most
  <2>. QED
    BY <1>0, <1>1, <2>1 DEF Tick
<1>2. ASSUME NEW l \in Lookups, Reserve(l) PROVE PoolOK'
  <2>1. cursor + 1 \in Int
    BY <1>0, UpstreamAssumption DEF Upstreams
  <2>2. (cursor + 1) % N \in Upstreams
    BY <2>1, ModRange
  <2>. QED
    BY <1>0, <1>2, <2>2 DEF Reserve
<1>3. ASSUME NEW l \in Lookups, Claim(l) PROVE PoolOK'
  <2>1. PICK u \in Upstreams : u = scan[l].selected
    BY <1>3 DEF Claim, TypeOK
  <2>2. scan[l].age \in 0..Lag
    BY DEF TypeOK
  <2>0. Interval(rate[u]) \in 1..Longest
    BY <1>0, IntervalInRange
  <2>3. Interval(rate[u]) - scan[l].age \in (-Lag)..Longest
    BY <1>0, <2>0, <2>2
  <2>. QED
    BY <1>0, <1>3, <2>1, <2>3 DEF Claim
<1>4. ASSUME NEW l \in Lookups, Settle(l) PROVE PoolOK'
  <2>1. /\ at[l] \in Upstreams
        /\ inFlight' = [inFlight EXCEPT ![at[l]] = @ - 1]
        /\ rate' \in [Upstreams -> MinRate..MaxRate]
        /\ \/ cooldownIn' = cooldownIn
           \/ cooldownIn' = [cooldownIn EXCEPT ![at[l]] = Cooldown]
        /\ UNCHANGED <<lock, cursor, nextIn>>
    BY <1>4, SettleEffect
  <2>2. cooldownIn' \in [Upstreams -> (-Lag)..Cooldown]
    BY <1>0, <2>1
  <2>3. \A u \in Upstreams : Cardinality(Calling(u)') \in Nat
    BY FS_Subset, FS_CardinalityType, LookupsAssumption DEF Calling
  <2>4. \A u \in Upstreams : inFlight'[u] \in Nat
    BY <2>3 DEF InFlightExact
  <2>. QED
    BY <1>0, <2>1, <2>2, <2>4
<1>5. ASSUME NEW l \in Lookups,
             Start(l) \/ Inspect(l) \/ NoSlot(l) \/ Wake(l) \/ WaitEnded(l)
                \/ CallAgain(l) \/ EndContext(l)
      PROVE  PoolOK'
  BY <1>0, <1>5
  DEF Start, Inspect, NoSlot, Wake, WaitEnded, CallAgain, EndContext, pool
<1>6. CASE UNCHANGED vars
  BY <1>0, <1>6 DEF vars
<1>. QED
  BY <1>1, <1>2, <1>3, <1>4, <1>5, <1>6 DEF Next, Step

\* The locals of reserveUpstream.
ScanType == [age : 0..Lag, start : Upstreams, offset : 0..N,
             selected : Upstreams \cup {None}, load : Nat, earliest : Nat]

\* The loop visits upstreams.
LEMMA VisitedRange ==
    ASSUME NEW s \in ScanType
    PROVE  Visited(s) \in Upstreams
<1>1. s.start + s.offset \in Int
  BY UpstreamAssumption DEF ScanType, Upstreams
<1>. QED
  BY <1>1, ModRange DEF Visited

\* The locals of reserveUpstream keep their types.
LEMMA ScanTypePreserved ==
    ASSUME TypeOK, Reserved, [Next]_vars
    PROVE  scan' \in [Lookups -> ScanType]
<1>0. /\ scan \in [Lookups -> ScanType] /\ pc \in [Lookups -> Points]
      /\ cursor \in Upstreams /\ inFlight \in [Upstreams -> Nat]
      /\ nextIn \in [Upstreams -> Int] /\ cooldownIn \in [Upstreams -> Int]
      /\ Lag \in Nat /\ N \in Nat \ {0}
  BY UpstreamAssumption, RateAssumption, WaitAssumption
  DEF TypeOK, ScanType, Longest, Most
<1>1. NoScan \in ScanType /\ [NoScan EXCEPT !.start = cursor] \in ScanType
  <2>1. 0 \in 0..Lag /\ 0 \in Upstreams /\ 0 \in 0..N
    BY <1>0 DEF Upstreams
  <2>. QED
    BY <1>0, <2>1 DEF NoScan, ScanType
<1>2. CASE Tick
  <2>1. ASSUME NEW l \in Lookups, pc[l] = "scan"
        PROVE  [scan[l] EXCEPT !.age = @ + 1] \in ScanType
    <3>1. scan[l] \in ScanType
      BY <1>0
    <3>2. scan[l].age \in 0..Lag /\ scan[l].age < Lag
      BY <1>2, <2>1, <3>1 DEF Tick, ScanType
    <3>3. scan[l].age + 1 \in 0..Lag
      BY <1>0, <3>2
    <3>. QED
      BY <3>1, <3>3 DEF ScanType
  <2>. QED
    BY <1>0, <1>2, <2>1 DEF Tick
<1>3. ASSUME NEW l \in Lookups, Inspect(l) PROVE scan' \in [Lookups -> ScanType]
  <2> DEFINE s == scan[l]
             u == Visited(s)
             next == [s EXCEPT !.offset = @ + 1]
  <2>1. s \in ScanType /\ s.offset < N
    BY <1>0, <1>3 DEF Inspect
  <2>2. u \in Upstreams
    BY <2>1, VisitedRange
  <2>3. next \in ScanType
    BY <1>0, <2>1 DEF ScanType
  <2>4. CASE ~Untried(l, u) /\ scan' = [scan EXCEPT ![l] = next]
    BY <1>0, <2>3, <2>4
  <2>5. CASE NotYet(l, u) /\ scan' = [scan EXCEPT ![l] =
                 [next EXCEPT !.earliest = Earlier(s, AvailableIn(u) + s.age)]]
    <3>1. AvailableIn(u) \in Int /\ AvailableIn(u) > -s.age
      BY <1>0, <2>2, <2>5 DEF NotYet, AvailableIn, Most
    <3>2. AvailableIn(u) + s.age \in Nat
      BY <2>1, <3>1 DEF ScanType
    <3>3. Earlier(s, AvailableIn(u) + s.age) \in Nat
      BY <2>1, <3>2 DEF Earlier, ScanType
    <3>4. [next EXCEPT !.earliest = Earlier(s, AvailableIn(u) + s.age)] \in ScanType
      BY <2>3, <3>3 DEF ScanType
    <3>. QED
      BY <1>0, <2>5, <3>4
  <2>6. CASE scan' = [scan EXCEPT ![l] =
                 IF s.selected = None \/ inFlight[u] < s.load
                 THEN [next EXCEPT !.selected = u, !.load = inFlight[u]]
                 ELSE next]
    <3>1. inFlight[u] \in Nat
      BY <1>0, <2>2
    <3>2. [next EXCEPT !.selected = u, !.load = inFlight[u]] \in ScanType
      BY <2>2, <2>3, <3>1 DEF ScanType
    <3>. QED
      BY <1>0, <2>3, <2>6, <3>2
  <2>. QED
    BY <1>3, <2>4, <2>5, <2>6 DEF Inspect
<1>4. ASSUME NEW l \in Lookups, Reserve(l) \/ Claim(l) \/ NoSlot(l)
      PROVE  scan' \in [Lookups -> ScanType]
  BY <1>0, <1>1, <1>4 DEF Reserve, Claim, NoSlot
<1>5. ASSUME NEW l \in Lookups, Settle(l) PROVE scan' \in [Lookups -> ScanType]
  BY <1>0, <1>5, SettleEffect
<1>6. ASSUME NEW l \in Lookups,
             Start(l) \/ Wake(l) \/ WaitEnded(l) \/ CallAgain(l) \/ EndContext(l)
      PROVE  scan' \in [Lookups -> ScanType]
  BY <1>0, <1>6 DEF Start, Wake, WaitEnded, CallAgain, EndContext, Return, locals
<1>7. CASE UNCHANGED vars
  BY <1>0, <1>7 DEF vars
<1>. QED
  BY <1>2, <1>3, <1>4, <1>5, <1>6, <1>7 DEF Next, Step

\* The control state of a lookup and its other locals.
LEMMA LocalTypePreserved ==
    ASSUME TypeOK, Reserved, AttemptLeft, [Next]_vars
    PROVE  /\ pc' \in [Lookups -> Points]
           /\ ctx' \in [Lookups -> {"live", "canceled", "expired"}]
           /\ excluded' \in [Lookups -> SUBSET Upstreams]
           /\ attempt' \in [Lookups -> 0..MaxAttempts]
           /\ at' \in [Lookups -> Upstreams \cup {None}]
           /\ last' \in [Lookups -> BOOLEAN]
           /\ timer' \in [Lookups -> Nat]
           /\ result' \in [Lookups -> Results]
<1> DEFINE LocalOK ==
             /\ pc \in [Lookups -> Points]
             /\ ctx \in [Lookups -> {"live", "canceled", "expired"}]
             /\ excluded \in [Lookups -> SUBSET Upstreams]
             /\ attempt \in [Lookups -> 0..MaxAttempts]
             /\ at \in [Lookups -> Upstreams \cup {None}]
             /\ last \in [Lookups -> BOOLEAN]
             /\ timer \in [Lookups -> Nat]
             /\ result \in [Lookups -> Results]
<1> SUFFICES LocalOK'
  OBVIOUS
<1>0. LocalOK /\ MaxAttempts \in Nat
  BY MaxAttemptsRange, UpstreamAssumption DEF TypeOK
<1>1. /\ {"idle", "reserve", "scan", "wait", "call", "done"} \subseteq Points
      /\ \A err \in {"nil", "ctx", "failed"}, resp \in BOOLEAN :
            [err |-> err, resp |-> resp] \in Results
  BY DEF Points, Results
\* What Return leaves well-typed.
<1>2. ASSUME NEW l \in Lookups, NEW err \in {"nil", "ctx", "failed"}, NEW resp \in BOOLEAN,
             Return(l, err, resp)
      PROVE  LocalOK'
  BY <1>0, <1>1, <1>2 DEF Return, Goto
<1>3. CASE Tick
  <2>1. \A l \in Lookups : Most(timer[l] - 1, 0) \in Nat
    BY <1>0 DEF Most
  <2>. QED
    BY <1>0, <1>3, <2>1 DEF Tick
<1>4. ASSUME NEW l \in Lookups, Start(l) PROVE LocalOK'
  BY <1>0, <1>1, <1>2, <1>4 DEF Start, Goto, locals
<1>5. ASSUME NEW l \in Lookups, Reserve(l) \/ Inspect(l) \/ Wake(l) \/ EndContext(l)
      PROVE  LocalOK'
  BY <1>0, <1>1, <1>5 DEF Reserve, Inspect, Wake, EndContext, Goto, locals
<1>6. ASSUME NEW l \in Lookups, Claim(l) PROVE LocalOK'
  <2>1. pc[l] = "scan" /\ scan[l].selected \in Upstreams /\ attempt[l] < MaxAttempts
    BY <1>6 DEF Claim, TypeOK, AttemptLeft
  <2>2. attempt[l] + 1 \in 0..MaxAttempts
    BY <1>0, <2>1
  <2>. QED
    BY <1>0, <1>1, <1>6, <2>1, <2>2 DEF Claim, Goto
<1>7. ASSUME NEW l \in Lookups, NoSlot(l) PROVE LocalOK'
  <2>1. scan[l].earliest - scan[l].age \in Int
    BY DEF TypeOK
  <2>2. (IF scan[l].earliest = 0 THEN 1 ELSE Most(scan[l].earliest - scan[l].age, 1)) \in Nat
    BY <2>1 DEF Most
  <2>. QED
    BY <1>0, <1>1, <1>7, <2>2 DEF NoSlot, Goto
<1>8. ASSUME NEW l \in Lookups, WaitEnded(l) PROVE LocalOK'
  BY <1>0, <1>2, <1>8 DEF WaitEnded
<1>9. ASSUME NEW l \in Lookups, Settle(l) PROVE LocalOK'
  <2>1. at[l] \in Upstreams
    BY <1>9 DEF Settle, SettleWith, Reserved
  <2>2. PICK outcome \in Outcomes :
          Cancelled(l, outcome) \/ Succeeded(l, outcome) \/ Failed(l, outcome)
    BY <1>9 DEF Settle, SettleWith
  <2>3. HasResponse(outcome) \in BOOLEAN
    BY DEF HasResponse
  <2>4. CASE Cancelled(l, outcome)
    BY <1>2, <2>3, <2>4 DEF Cancelled
  <2>5. CASE Succeeded(l, outcome)
    BY <1>2, <2>3, <2>5 DEF Succeeded
  <2>6. CASE Failed(l, outcome)
    <3>1. CASE attempt[l] >= MaxAttempts /\ Return(l, "failed", HasResponse(outcome))
      BY <1>2, <2>3, <3>1
    <3>2. CASE /\ excluded' = [excluded EXCEPT ![l] = @ \cup {at[l]}]
               /\ last' = [last EXCEPT ![l] = HasResponse(outcome)]
               /\ at' = [at EXCEPT ![l] = None]
               /\ pc' = [pc EXCEPT ![l] = "reserve"]
               /\ UNCHANGED <<ctx, attempt, scan, timer, result>>
      <4>1. excluded' \in [Lookups -> SUBSET Upstreams]
        <5>1. excluded[l] \cup {at[l]} \in SUBSET Upstreams
          BY <1>0, <2>1
        <5>. QED
          BY <1>0, <3>2, <5>1
      <4>2. last' \in [Lookups -> BOOLEAN]
        BY <1>0, <2>3, <3>2
      <4>3. at' \in [Lookups -> Upstreams \cup {None}]
        BY <1>0, <3>2
      <4>4. pc' \in [Lookups -> Points]
        BY <1>0, <1>1, <3>2
      <4>. QED
        BY <1>0, <2>3, <3>2, <4>1, <4>2, <4>3, <4>4
    <3>. QED
      BY <2>6, <3>1, <3>2 DEF Failed, Goto
  <2>. QED
    BY <2>2, <2>4, <2>5, <2>6
<1>10. ASSUME NEW l \in Lookups, CallAgain(l) PROVE LocalOK'
  BY <1>0, <1>1, <1>10 DEF CallAgain, Goto, locals
<1>11. CASE UNCHANGED vars
  BY <1>0, <1>11 DEF vars
<1>. QED
  BY <1>3, <1>4, <1>5, <1>6, <1>7, <1>8, <1>9, <1>10, <1>11 DEF Next, Step

\* The types, put together.
LEMMA TypePreserved ==
    ASSUME TypeOK, Reserved, AttemptLeft, InFlightExact', [Next]_vars
    PROVE  TypeOK'
  BY PoolTypePreserved, ScanTypePreserved, LocalTypePreserved DEF TypeOK, ScanType

------------------------------------------------------------------------------
\* The upstreams a lookup has tried are as many as its attempts.
LEMMA AttemptsPreserved ==
    ASSUME TypeOK, Reserved, AttemptLeft, DistinctUpstreams, ChoiceFree, [Next]_vars
    PROVE  DistinctUpstreams'
<1> USE DEF Goto, Return, pool, locals
<1>0. /\ pc \in [Lookups -> Points] /\ at \in [Lookups -> Upstreams \cup {None}]
      /\ excluded \in [Lookups -> SUBSET Upstreams]
      /\ attempt \in [Lookups -> 0..MaxAttempts] /\ MaxAttempts \in Nat
  BY MaxAttemptsRange, UpstreamAssumption DEF TypeOK
<1>1. Cardinality({}) = 0
  BY FS_EmptySet
<1>c. \A l \in Lookups : IsFiniteSet(excluded[l]) /\ Cardinality(excluded[l]) \in Nat
  BY <1>0, FS_Subset, FS_CardinalityType, UpstreamsFinite
<1>2. ASSUME NEW l \in Lookups, Claim(l) PROVE DistinctUpstreams'
  <2>1. pc[l] = "scan" /\ scan[l].selected \notin excluded[l]
    BY <1>2 DEF Claim, ChoiceFree, Choosing
  <2>. QED
    BY <1>0, <1>c, <1>2, <2>1 DEF Claim, DistinctUpstreams
<1>3. ASSUME NEW l \in Lookups, Settle(l) PROVE DistinctUpstreams'
  <2>1. /\ pc[l] = "call" /\ at[l] \in Upstreams
        /\ at' = [at EXCEPT ![l] = None]
        /\ \/ /\ pc' = [pc EXCEPT ![l] = "done"]
              /\ excluded' = [excluded EXCEPT ![l] = {}]
              /\ attempt' = [attempt EXCEPT ![l] = 0]
           \/ /\ pc' = [pc EXCEPT ![l] = "reserve"]
              /\ excluded' = [excluded EXCEPT ![l] = @ \cup {at[l]}]
              /\ UNCHANGED attempt
    BY <1>3, SettleEffect
  <2>2. attempt[l] = Cardinality(excluded[l]) + 1 /\ at[l] \notin excluded[l]
    BY <2>1 DEF DistinctUpstreams
  <2>3. Cardinality(excluded[l] \cup {at[l]}) = Cardinality(excluded[l]) + 1
                                                /\ Cardinality(excluded[l]) \in Nat
    BY <1>c, <2>2, FS_AddElement
  <2>4. \A m \in Lookups \ {l} :
           /\ pc'[m] = pc[m] /\ at'[m] = at[m]
           /\ excluded'[m] = excluded[m] /\ attempt'[m] = attempt[m]
    BY <1>0, <2>1
  <2>5. attempt'[l] = Cardinality(excluded'[l]) /\ pc'[l] # "call"
    BY <1>0, <1>1, <2>1, <2>2, <2>3
  <2>6. attempt'[l] \in Nat
    BY <1>0, <2>1, <2>2
  <2>. QED
    BY <2>4, <2>5, <2>6 DEF DistinctUpstreams
<1>4. ASSUME NEW l \in Lookups, Start(l) \/ WaitEnded(l) PROVE DistinctUpstreams'
  <2>1. \A m \in Lookups \ {l} :
           /\ pc'[m] = pc[m] /\ at'[m] = at[m]
           /\ excluded'[m] = excluded[m] /\ attempt'[m] = attempt[m]
    BY <1>0, <1>4 DEF Start, WaitEnded
  <2>2. /\ pc[l] # "call" /\ pc'[l] # "call"
        /\ \/ excluded'[l] = excluded[l] /\ attempt'[l] = attempt[l]
           \/ excluded'[l] = {} /\ attempt'[l] = 0
    BY <1>0, <1>4 DEF Start, WaitEnded
  <2>4. attempt[l] = Cardinality(excluded[l])
    BY <1>0, <1>c, <2>2 DEF DistinctUpstreams
  <2>3. attempt'[l] = Cardinality(excluded'[l]) /\ attempt'[l] \in Nat
    <3>1. CASE excluded'[l] = excluded[l] /\ attempt'[l] = attempt[l]
      BY <1>c, <2>4, <3>1
    <3>2. CASE excluded'[l] = {} /\ attempt'[l] = 0
      BY <1>1, <3>2
    <3>. QED
      BY <2>2, <3>1, <3>2
  <2>. QED
    BY <2>1, <2>2, <2>3 DEF DistinctUpstreams
<1>5. ASSUME NEW l \in Lookups,
             Reserve(l) \/ Inspect(l) \/ NoSlot(l) \/ Wake(l) \/ CallAgain(l) \/ EndContext(l)
      PROVE  DistinctUpstreams'
  BY <1>0, <1>5
  DEF Reserve, Inspect, NoSlot, Wake, CallAgain, EndContext, DistinctUpstreams
<1>6. CASE Tick \/ UNCHANGED vars
  BY <1>6 DEF Tick, vars, DistinctUpstreams
<1>. QED
  BY <1>2, <1>3, <1>4, <1>5, <1>6 DEF Next, Step

------------------------------------------------------------------------------
\* The steps that leave a selection in progress and the paces alone.
Elsewhere(l) ==
    Start(l) \/ Wake(l) \/ WaitEnded(l) \/ CallAgain(l) \/ EndContext(l)

\* What a lookup selected stays as good as it was: the lock keeps other claims out,
\* and the other lookups can only give a slot back or start a cooldown.
LEMMA ChoicePreserved ==
    ASSUME TypeOK, Mutex, Reserved, ChoiceNotWorse, ChoiceFree, [Next]_vars
    PROVE  ChoiceNotWorse' /\ ChoiceFree'
<1> USE DEF Goto, pool, locals
<1> DEFINE Good(l) ==
             Choosing(l) =>
               /\ inFlight[scan[l].selected] <= scan[l].load
               /\ scan[l].selected \notin excluded[l]
               /\ nextIn[scan[l].selected] <= -scan[l].age
               /\ \/ cooldownIn[scan[l].selected] <= -scan[l].age
                  \/ cooldownIn[scan[l].selected] - Cooldown >= -scan[l].age
<1>0. /\ pc \in [Lookups -> Points]
      /\ excluded \in [Lookups -> SUBSET Upstreams]
      /\ inFlight \in [Upstreams -> Nat]
      /\ nextIn \in [Upstreams -> Int] /\ cooldownIn \in [Upstreams -> Int]
      /\ scan \in [Lookups -> ScanType]
      /\ Lag \in Nat /\ Cooldown \in Nat /\ N \in Nat \ {0}
  BY UpstreamAssumption, RateAssumption, WaitAssumption
  DEF TypeOK, ScanType, Longest, Most
<1>1. \A l \in Lookups : Good(l)
  BY DEF ChoiceNotWorse, ChoiceFree, Choosing
<1>2. SUFFICES \A l \in Lookups : Good(l)'
  BY DEF ChoiceNotWorse, ChoiceFree, Choosing
<1>3. \A l \in Lookups : Choosing(l) => scan[l].selected \in Upstreams
  BY <1>0 DEF Choosing, ScanType
<1>4. CASE Tick
  <2> SUFFICES ASSUME NEW l \in Lookups, Choosing(l)' PROVE Good(l)'
    OBVIOUS
  <2>1. /\ Choosing(l) /\ scan'[l] = [scan[l] EXCEPT !.age = @ + 1]
        /\ scan[l].age < Lag
    BY <1>0, <1>4 DEF Tick, Choosing, ScanType
  <2>2. /\ scan'[l].selected = scan[l].selected /\ scan'[l].load = scan[l].load
        /\ scan'[l].age = scan[l].age + 1
    BY <1>0, <2>1 DEF ScanType
  <2>3. PICK u \in Upstreams : u = scan[l].selected
    BY <1>3, <2>1
  <2>4. /\ nextIn'[u] = Most(nextIn[u] - 1, -Lag)
        /\ cooldownIn'[u] = Most(cooldownIn[u] - 1, -Lag)
        /\ inFlight' = inFlight /\ excluded' = excluded
    BY <1>4 DEF Tick
  <2>5. scan[l].age \in Nat
    BY <1>0 DEF ScanType
  <2>6. /\ nextIn'[u] <= -(scan[l].age + 1)
        /\ \/ cooldownIn'[u] <= -(scan[l].age + 1)
           \/ cooldownIn'[u] - Cooldown >= -(scan[l].age + 1)
    BY <1>0, <1>1, <2>1, <2>3, <2>4, <2>5 DEF Most
  <2>. QED
    BY <1>1, <2>1, <2>2, <2>3, <2>4, <2>6
<1>5. ASSUME NEW k \in Lookups, Inspect(k) PROVE \A l \in Lookups : Good(l)'
  <2>1. UNCHANGED <<pc, inFlight, nextIn, cooldownIn, excluded>>
    BY <1>5 DEF Inspect
  <2>2. \A l \in Lookups \ {k} : scan'[l] = scan[l]
    BY <1>0, <1>5 DEF Inspect
  <2>3. \A l \in Lookups \ {k} : Good(l)'
    BY <1>1, <2>1, <2>2 DEF Choosing
  <2>4. scan[k] \in ScanType /\ Visited(scan[k]) \in Upstreams
    BY <1>0, VisitedRange
  <2>5. \/ /\ scan'[k].selected = scan[k].selected /\ scan'[k].load = scan[k].load
           /\ scan'[k].age = scan[k].age
        \/ /\ Ready(k, Visited(scan[k]))
           /\ scan'[k].selected = Visited(scan[k]) /\ scan'[k].age = scan[k].age
           /\ scan'[k].load = inFlight[Visited(scan[k])]
    <3> DEFINE next == [scan[k] EXCEPT !.offset = @ + 1]
               u == Visited(scan[k])
    <3>1. /\ next.selected = scan[k].selected /\ next.load = scan[k].load
          /\ next.age = scan[k].age
          /\ \A t : [next EXCEPT !.earliest = t].selected = scan[k].selected
                   /\ [next EXCEPT !.earliest = t].load = scan[k].load
                   /\ [next EXCEPT !.earliest = t].age = scan[k].age
          /\ \A n : [next EXCEPT !.selected = u, !.load = n].selected = u
                   /\ [next EXCEPT !.selected = u, !.load = n].load = n
                   /\ [next EXCEPT !.selected = u, !.load = n].age = scan[k].age
      BY <2>4 DEF ScanType
    <3>2. \/ scan'[k] = next
          \/ \E t : scan'[k] = [next EXCEPT !.earliest = t]
          \/ Ready(k, u) /\ scan'[k] = [next EXCEPT !.selected = u, !.load = inFlight[u]]
      BY <1>0, <1>5 DEF Inspect
    <3> HIDE DEF next, u
    <3>3. CASE scan'[k] = next
      BY <3>1, <3>3
    <3>4. CASE \E t : scan'[k] = [next EXCEPT !.earliest = t]
      BY <3>1, <3>4
    <3>5. CASE Ready(k, u) /\ scan'[k] = [next EXCEPT !.selected = u, !.load = inFlight[u]]
      BY <3>1, <3>5 DEF u
    <3>. QED
      BY <3>2, <3>3, <3>4, <3>5
  <2>6. CASE /\ scan'[k].selected = scan[k].selected /\ scan'[k].load = scan[k].load
             /\ scan'[k].age = scan[k].age
    BY <1>1, <2>1, <2>3, <2>6 DEF Choosing
  <2>7. CASE /\ Ready(k, Visited(scan[k]))
             /\ scan'[k].selected = Visited(scan[k]) /\ scan'[k].age = scan[k].age
             /\ scan'[k].load = inFlight[Visited(scan[k])]
    <3>1. PICK u \in Upstreams : u = Visited(scan[k])
      BY <2>4
    <3>2. /\ u \notin excluded[k] /\ nextIn[u] <= -scan[k].age
          /\ cooldownIn[u] <= -scan[k].age
      BY <1>0, <2>4, <2>7, <3>1 DEF Ready, Untried, AvailableIn, Most, ScanType
    <3>3. inFlight[u] <= inFlight[u]
      BY <1>0
    <3>4. Good(k)'
      BY <2>1, <2>7, <3>1, <3>2, <3>3
    <3>. QED
      BY <2>3, <3>4
  <2>. QED
    BY <2>5, <2>6, <2>7
<1>6. ASSUME NEW k \in Lookups, Claim(k) \/ NoSlot(k) \/ Reserve(k)
      PROVE \A l \in Lookups : Good(l)'
  <2>1. \A l \in Lookups \ {k} : pc'[l] = pc[l] /\ pc[l] # "scan"
    BY <1>0, <1>6, LookupsAssumption
    DEF Claim, NoSlot, Reserve, Mutex, LockFree, Free
  <2>2. pc'[k] # "scan" \/ scan'[k].selected = None
    BY <1>0, <1>6 DEF Claim, NoSlot, Reserve, NoScan
  <2>. QED
    BY <2>1, <2>2 DEF Choosing
<1>7. ASSUME NEW k \in Lookups, Settle(k) PROVE \A l \in Lookups : Good(l)'
  <2>1. /\ pc[k] = "call" /\ at[k] \in Upstreams
        /\ inFlight' = [inFlight EXCEPT ![at[k]] = @ - 1]
        /\ \/ cooldownIn' = cooldownIn
           \/ cooldownIn' = [cooldownIn EXCEPT ![at[k]] = Cooldown]
        /\ UNCHANGED <<nextIn, scan>>
        /\ pc'[k] # "scan"
        /\ \A l \in Lookups \ {k} : pc'[l] = pc[l] /\ excluded'[l] = excluded[l]
    <3>1. \/ /\ pc' = [pc EXCEPT ![k] = "done"]
             /\ excluded' = [excluded EXCEPT ![k] = {}]
          \/ /\ pc' = [pc EXCEPT ![k] = "reserve"]
             /\ excluded' = [excluded EXCEPT ![k] = @ \cup {at[k]}]
      BY <1>7, SettleEffect
    <3>. QED
      BY <1>0, <1>7, <3>1, SettleEffect
  <2> SUFFICES ASSUME NEW l \in Lookups, Choosing(l)' PROVE Good(l)'
    OBVIOUS
  <2>2. l # k /\ Choosing(l) /\ excluded'[l] = excluded[l]
    BY <2>1 DEF Choosing
  <2>3. PICK u \in Upstreams : u = scan[l].selected
    BY <1>3, <2>2
  <2>4. /\ inFlight[u] <= scan[l].load /\ inFlight'[u] <= inFlight[u]
        /\ scan[l].load \in Nat /\ scan[l].age \in Nat /\ inFlight'[u] \in Int
    BY <1>0, <1>1, <2>1, <2>2, <2>3 DEF ScanType
  <2>5. \/ cooldownIn'[u] = cooldownIn[u]
        \/ cooldownIn'[u] - Cooldown >= -scan[l].age
    BY <1>0, <2>1, <2>4
  <2>6. inFlight'[u] <= scan[l].load
    BY <1>0, <2>4
  <2>. QED
    BY <1>1, <2>1, <2>2, <2>3, <2>5, <2>6
<1>8. ASSUME NEW k \in Lookups, Elsewhere(k) PROVE \A l \in Lookups : Good(l)'
  <2>1. UNCHANGED <<inFlight, nextIn, cooldownIn, scan>>
    BY <1>8 DEF Elsewhere, Start, Wake, WaitEnded, CallAgain, EndContext, Return
  <2>2. \A l \in Lookups : pc'[l] = "scan" => pc[l] = "scan" /\ excluded'[l] = excluded[l]
    BY <1>0, <1>8 DEF Elsewhere, Start, Wake, WaitEnded, CallAgain, EndContext, Return
  <2>. QED
    BY <1>1, <2>1, <2>2 DEF Choosing
<1>9. CASE UNCHANGED vars
  BY <1>1, <1>9 DEF vars, Choosing
<1>. QED
  BY <1>4, <1>5, <1>6, <1>7, <1>8, <1>9 DEF Next, Step, Elsewhere

------------------------------------------------------------------------------
\* One more turn of the loop.
LEMMA SeenNext ==
    ASSUME NEW s, NEW t, t.start = s.start, t.offset = s.offset + 1, s.offset \in Nat
    PROVE  Seen(t) = Seen(s) \cup {Visited(s)}
<1>1. 0..(t.offset - 1) = (0..(s.offset - 1)) \cup {s.offset}
  OBVIOUS
<1>. QED
  BY <1>1 DEF Seen, Visited

\* A visit that selects nothing and notes no time skips an upstream tried before.
LEMMA LoopPreserved ==
    ASSUME TypeOK, Reserved, LoopSound, [Next]_vars
    PROVE  LoopSound'
<1> USE DEF Goto, pool, locals
<1> DEFINE Blind(l) == pc[l] = "scan" /\ scan[l].selected = None /\ scan[l].earliest = 0
<1>0. /\ pc \in [Lookups -> Points] /\ scan \in [Lookups -> ScanType]
      /\ excluded \in [Lookups -> SUBSET Upstreams]
      /\ nextIn \in [Upstreams -> Int] /\ cooldownIn \in [Upstreams -> Int]
      /\ N \in Nat \ {0}
  BY UpstreamAssumption, RateAssumption, WaitAssumption
  DEF TypeOK, ScanType, Longest, Most
<1>1. SUFFICES ASSUME NEW l \in Lookups, Blind(l)'
               PROVE  Seen(scan'[l]) \subseteq excluded'[l]
  BY DEF LoopSound
<1>2. Blind(l) => Seen(scan[l]) \subseteq excluded[l]
  BY DEF LoopSound
<1>3. CASE pc[l] = "scan" /\ scan'[l] = scan[l] /\ excluded'[l] = excluded[l]
  BY <1>1, <1>2, <1>3
<1>4. CASE Tick
  <2>1. pc[l] = "scan" /\ excluded'[l] = excluded[l]
        /\ scan'[l] = [scan[l] EXCEPT !.age = @ + 1]
    BY <1>1, <1>4 DEF Tick
  <2>2. /\ scan'[l].start = scan[l].start /\ scan'[l].offset = scan[l].offset
        /\ scan'[l].selected = scan[l].selected /\ scan'[l].earliest = scan[l].earliest
    BY <1>0, <2>1 DEF ScanType
  <2>. QED
    BY <1>1, <1>2, <2>1, <2>2 DEF Seen
<1>5. CASE Inspect(l)
  <2> DEFINE s == scan[l]
             u == Visited(s)
             next == [s EXCEPT !.offset = @ + 1]
  <2>1. /\ s \in ScanType /\ u \in Upstreams
        /\ pc[l] = "scan" /\ s.offset < N /\ excluded'[l] = excluded[l]
    BY <1>0, <1>5, VisitedRange DEF Inspect
  <2>2. ~(NotYet(l, u) /\ scan' = [scan EXCEPT ![l] =
                [next EXCEPT !.earliest = Earlier(s, AvailableIn(u) + s.age)]])
    <3>1. SUFFICES ASSUME NotYet(l, u),
                          scan'[l] = [next EXCEPT !.earliest = Earlier(s, AvailableIn(u) + s.age)]
                   PROVE  FALSE
      BY <1>0
    <3>2. scan'[l].earliest = Earlier(s, AvailableIn(u) + s.age)
      BY <2>1, <3>1 DEF ScanType
    <3>3. AvailableIn(u) \in Int /\ s.age \in Nat /\ s.earliest \in Nat
      BY <1>0, <2>1 DEF AvailableIn, Most, ScanType
    <3>4. AvailableIn(u) + s.age > 0
      BY <3>1, <3>3 DEF NotYet
    <3>5. Earlier(s, AvailableIn(u) + s.age) # 0
      BY <3>3, <3>4 DEF Earlier
    <3>. QED
      BY <1>1, <3>2, <3>5
  <2>3. ~(scan' = [scan EXCEPT ![l] =
                [next EXCEPT !.selected = u, !.load = inFlight[u]]])
    <3>1. SUFFICES ASSUME scan'[l] = [next EXCEPT !.selected = u, !.load = inFlight[u]]
                   PROVE  FALSE
      BY <1>0
    <3>2. scan'[l].selected = u
      BY <2>1, <3>1 DEF ScanType
    <3>. QED
      BY <1>1, <2>1, <3>2, UpstreamAssumption DEF Upstreams, None
  <2>4. scan'[l] = next /\ (~Untried(l, u) \/ s.selected # None)
    <3>1. CASE ~Untried(l, u) /\ scan' = [scan EXCEPT ![l] = next]
      BY <1>0, <3>1
    <3>2. CASE scan' = [scan EXCEPT ![l] =
                  IF s.selected = None \/ inFlight[u] < s.load
                  THEN [next EXCEPT !.selected = u, !.load = inFlight[u]]
                  ELSE next]
      BY <1>0, <2>3, <3>2
    <3>. QED
      BY <1>5, <2>2, <3>1, <3>2 DEF Inspect
  <2>5. /\ scan'[l].selected = s.selected /\ scan'[l].earliest = s.earliest
        /\ scan'[l].start = s.start /\ scan'[l].offset = s.offset + 1
    BY <2>1, <2>4 DEF ScanType
  <2>6. Seen(s) \subseteq excluded[l] /\ u \in excluded[l]
    BY <1>1, <1>2, <2>1, <2>4, <2>5 DEF Untried
  <2>7. Seen(scan'[l]) = Seen(s) \cup {u}
    <3>1. s.offset \in Nat
      BY <2>1 DEF ScanType
    <3>2. PICK t : t = scan'[l]
      OBVIOUS
    <3>. QED
      BY <2>5, <3>1, <3>2, SeenNext
  <2>. QED
    BY <2>1, <2>6, <2>7
<1>6. CASE Reserve(l)
  <2>1. scan'[l].offset = 0
    BY <1>0, <1>6 DEF Reserve, NoScan
  <2>2. Seen(scan'[l]) = {}
    BY <2>1 DEF Seen
  <2>. QED
    BY <2>2
<1>7. CASE Claim(l) \/ NoSlot(l)
  BY <1>0, <1>1, <1>7 DEF Claim, NoSlot
<1>8. ASSUME NEW k \in Lookups, k # l, Inspect(k) \/ Reserve(k) \/ Claim(k) \/ NoSlot(k)
      PROVE  pc[l] = "scan" /\ scan'[l] = scan[l] /\ excluded'[l] = excluded[l]
  BY <1>0, <1>1, <1>8 DEF Inspect, Reserve, Claim, NoSlot
<1>9. ASSUME NEW k \in Lookups, Settle(k)
      PROVE  pc[l] = "scan" /\ scan'[l] = scan[l] /\ excluded'[l] = excluded[l]
  <2>1. UNCHANGED scan
    BY <1>9, SettleEffect
  <2>2. \/ pc' = [pc EXCEPT ![k] = "done"] /\ excluded' = [excluded EXCEPT ![k] = {}]
        \/ /\ pc' = [pc EXCEPT ![k] = "reserve"]
           /\ excluded' = [excluded EXCEPT ![k] = @ \cup {at[k]}]
    BY <1>9, SettleEffect
  <2>. QED
    BY <1>0, <1>1, <2>1, <2>2
<1>10. ASSUME NEW k \in Lookups, Elsewhere(k)
       PROVE  pc[l] = "scan" /\ scan'[l] = scan[l] /\ excluded'[l] = excluded[l]
  BY <1>0, <1>1, <1>10
  DEF Elsewhere, Start, Wake, WaitEnded, CallAgain, EndContext, Return
<1>11. CASE UNCHANGED vars
  BY <1>1, <1>3, <1>11 DEF vars
<1>. QED
  BY <1>3, <1>4, <1>5, <1>6, <1>7, <1>8, <1>9, <1>10, <1>11 DEF Next, Step, Elsewhere

------------------------------------------------------------------------------
\* The invariant is inductive.
LEMMA InvariantPreserved == IInv /\ [Next]_vars => IInv'
<1> SUFFICES ASSUME IInv, [Next]_vars PROVE IInv'
  OBVIOUS
<1>1. InFlightExact'
  BY InFlightPreserved DEF IInv
<1>2. TypeOK'
  BY <1>1, TypePreserved DEF IInv
<1>3. Mutex' /\ Reserved' /\ AttemptLeft'
  BY ControlPreserved DEF IInv
<1>4. DistinctUpstreams'
  BY AttemptsPreserved DEF IInv
<1>5. ChoiceNotWorse' /\ ChoiceFree' /\ LoopSound'
  BY ChoicePreserved, LoopPreserved DEF IInv
<1>. QED
  BY <1>1, <1>2, <1>3, <1>4, <1>5 DEF IInv

\* The invariant holds in every reachable state.
LEMMA Invariant == Spec => []IInv
  BY InitInvariant, InvariantPreserved, PTL DEF Spec

\* The loop visited all the upstreams, the lookup has an attempt left, and so it
\* had not tried all of them.
LEMMA EarliestFromInvariant == IInv => AlwaysKnowsEarliest
<1>1. SUFFICES ASSUME IInv, NEW l \in Lookups, pc[l] = "scan", scan[l].offset = N,
                      scan[l].selected = None, scan[l].earliest = 0
               PROVE  FALSE
  BY DEF AlwaysKnowsEarliest
<1>2. Seen(scan[l]) \subseteq excluded[l] /\ excluded[l] \subseteq Upstreams
      /\ scan[l].start \in Upstreams
  BY <1>1 DEF IInv, LoopSound, TypeOK
<1>3. Upstreams \subseteq Seen(scan[l])
  <2>1. SUFFICES ASSUME NEW u \in Upstreams PROVE u \in Seen(scan[l])
    OBVIOUS
  <2>2. PICK o \in 0..(N - 1) : u = (scan[l].start + o) % N
    BY <1>2, LoopVisitsAll
  <2>. QED
    BY <1>1, <2>2 DEF Seen
<1>4. excluded[l] = Upstreams
  BY <1>2, <1>3
<1>5. attempt[l] = N /\ attempt[l] < MaxAttempts
  BY <1>1, <1>4, UpstreamsFinite, UpstreamAssumption DEF IInv, DistinctUpstreams, AttemptLeft
<1>. QED
  BY <1>5, MaxAttemptsRange, UpstreamAssumption

\* Only Claim takes a lookup from its selection to its call.
LEMMA ClaimsSelected ==
    ASSUME IInv, [Next]_vars, NEW l \in Lookups, NEW u \in Upstreams, Claims(l, u)
    PROVE  Choosing(l) /\ u = scan[l].selected
<1> USE DEF Goto, pool, locals
<1>0. pc \in [Lookups -> Points] /\ at \in [Lookups -> Upstreams \cup {None}]
      /\ pc[l] = "scan" /\ pc'[l] = "call" /\ at'[l] = u /\ TypeOK /\ Reserved
  BY DEF IInv, TypeOK, Claims
<1>1. CASE Claim(l)
  BY <1>0, <1>1 DEF Claim, Choosing
<1>2. ASSUME NEW k \in Lookups, k # l, Step(k) \/ CallAgain(k) \/ EndContext(k)
      PROVE  FALSE
  <2>1. CASE Settle(k)
    <3>1. pc' = [pc EXCEPT ![k] = "done"] \/ pc' = [pc EXCEPT ![k] = "reserve"]
      BY <1>0, <2>1, SettleEffect
    <3>. QED  BY <1>0, <1>2, <3>1
  <2>. QED
    BY <1>0, <1>2, <2>1
    DEF Step, Start, Reserve, Inspect, Claim, NoSlot, Wake, WaitEnded, CallAgain,
        EndContext, Return
<1>3. CASE Step(l) \/ CallAgain(l) \/ EndContext(l)
  BY <1>0, <1>1, <1>3
  DEF Step, Start, Reserve, Inspect, NoSlot, Wake, WaitEnded, Settle, SettleWith, CallAgain,
      EndContext, Return
<1>4. CASE Tick \/ UNCHANGED vars
  BY <1>0, <1>4 DEF Tick, vars
<1>. QED
  BY <1>2, <1>3, <1>4 DEF Next

------------------------------------------------------------------------------
(* The theorems.                                                            *)

\* The variables keep their types: rates stay between MinQPS and MaxQPS, attempts
\* within MaxAttempts, and inFlight never goes negative (NewAdaptivePoolResolver,
\* observeSuccess, observeFailure).
THEOREM TypeCorrectness == Spec => []TypeOK
<1>. IInv => TypeOK
  BY DEF IInv
<1>. QED
  BY Invariant, PTL

\* inFlight counts the executing requests exactly (reserveUpstream, release,
\* observeSuccess, observeFailure).
THEOREM InFlightCorrect == Spec => []InFlightExact
<1>. IInv => InFlightExact
  BY DEF IInv
<1>. QED
  BY Invariant, PTL

\* The attempts of a lookup go to distinct upstreams (Lookup's excluded).
THEOREM AttemptsDistinct == Spec => []DistinctUpstreams
<1>. IInv => DistinctUpstreams
  BY DEF IInv
<1>. QED
  BY Invariant, PTL

\* A selection that comes up empty has a time to wait for, so that the fallback of
\* reserveUpstream is dead code.
THEOREM EarliestKnown == Spec => []AlwaysKnowsEarliest
  BY Invariant, EarliestFromInvariant, PTL

\* The load on which reserveUpstream chose is an upper bound until the claim.
THEOREM ChoiceStands == Spec => []ChoiceNotWorse
<1>. IInv => ChoiceNotWorse
  BY DEF IInv
<1>. QED
  BY Invariant, PTL

\* Two requests to one upstream are an interval apart (nextAllowed).
THEOREM DispatchPaced == Spec => PacedDispatch
<1>1. ASSUME IInv, [Next]_vars
      PROVE  [\A l \in Lookups, u \in Upstreams :
                 Claims(l, u) => nextIn[u] <= -scan[l].age]_vars
  BY <1>1, ClaimsSelected DEF IInv, ChoiceFree
<1>. QED
  BY <1>1, Invariant, PTL DEF Spec, PacedDispatch

\* A cooling upstream is claimed only if the failure fell into the selection
\* (cooldownUntil).
THEOREM CoolingRaceOnly == Spec => CoolingOnlyByRace
<1>1. ASSUME IInv, [Next]_vars
      PROVE  [\A l \in Lookups, u \in Upstreams :
                 Claims(l, u) /\ cooldownIn[u] > -scan[l].age
                     => cooldownIn[u] - Cooldown >= -scan[l].age]_vars
  <2>1. ASSUME NEW l \in Lookups, NEW u \in Upstreams, Claims(l, u),
               cooldownIn[u] > -scan[l].age
        PROVE  cooldownIn[u] - Cooldown >= -scan[l].age
    <3>1. /\ \/ cooldownIn[u] <= -scan[l].age
             \/ cooldownIn[u] - Cooldown >= -scan[l].age
          /\ cooldownIn[u] \in Int /\ scan[l].age \in Int
      <4>1. Choosing(l) /\ u = scan[l].selected
        BY <1>1, <2>1, ClaimsSelected
      <4>2. cooldownIn[u] \in Int /\ scan[l].age \in Int
        BY <1>1, WaitAssumption DEF IInv, TypeOK
      <4>. QED
        BY <1>1, <4>1, <4>2 DEF IInv, ChoiceFree
    <3>2. ~(cooldownIn[u] <= -scan[l].age)
      BY <2>1, <3>1
    <3>. QED
      BY <3>1, <3>2
  <2>. QED
    BY <2>1
<1>. QED
  BY <1>1, Invariant, PTL DEF Spec, CoolingOnlyByRace

------------------------------------------------------------------------------
(* The pool over breakers (DefaultChain).                                   *)

\* Each step of the chain is a step of the pool, or leaves the pool alone.
LEMMA ChainStepMaps == [ChainNext]_chainVars => [Next]_vars
<1> SUFFICES ASSUME [ChainNext]_chainVars PROVE [Next]_vars
  OBVIOUS
<1>1. ASSUME NEW l \in Lookups, PoolStep(l) PROVE [Next]_vars
  BY <1>1 DEF PoolStep, Next, Step
<1>2. ASSUME NEW l \in Lookups, Admit(l) PROVE [Next]_vars
  BY <1>2 DEF Admit
<1>3. ASSUME NEW l \in Lookups, Answer(l) PROVE [Next]_vars
  <2>1. Settle(l)
    BY <1>3 DEF Answer, Refused, Settle, Outcomes
  <2>. QED
    BY <2>1 DEF Next, Step
<1>4. CASE UNCHANGED chainVars
  BY <1>4 DEF chainVars
<1>5. CASE Tick
  BY <1>5 DEF Next
<1>. QED
  BY <1>1, <1>2, <1>3, <1>4, <1>5 DEF ChainNext

\* Every execution of the chain is one of the pool, so that what is invariant in the pool
\* may be used of the chain: a refusal is one more failed request to it.
LEMMA ChainIsAPool == ChainSpec => Spec
<1>1. ChainInit => Init
  BY DEF ChainInit
<1>. QED
  BY <1>1, ChainStepMaps, PTL DEF ChainSpec, Spec

\* What may cost an upstream its rate.
Excused(u) == u \in faulty \/ canceled[u] >= Threshold

ChainType ==
    /\ mode \in [Upstreams -> {"closed", "open", "halfOpen"}]
    /\ failure \in [Upstreams -> Nat]
    /\ admitted \in [Lookups -> {"none", "refused", "closed", "halfOpen"}]
    /\ faulty \subseteq Upstreams
    /\ canceled \in [Upstreams -> Nat]

\* The failures counted against an upstream that never failed are canceled requests,
\* and a breaker that has left Closed, or a refusal of one, has its reason.
Accounted ==
    /\ \A u \in Upstreams : u \notin faulty => failure[u] <= canceled[u]
    /\ \A u \in Upstreams : mode[u] # "closed" => Excused(u)
    /\ \A l \in Lookups : admitted[l] # "none" => pc[l] = "call"
    /\ \A l \in Lookups : admitted[l] = "refused" => Excused(at[l])
    /\ NoPenaltyBelowThreshold

CInv == ChainType /\ Accounted

\* What the pool does to rate and upstream of a call outside of its own settling.
LEMMA PoolStepFrame ==
    ASSUME TypeOK, NEW l \in Lookups, PoolStep(l)
    PROVE  /\ rate' = rate /\ UNCHANGED breakers
           /\ \A k \in Lookups : pc[k] = "call" => pc'[k] = "call" /\ at'[k] = at[k]
<1> USE DEF TypeOK, pool, locals, Goto, Return
<1>1. UNCHANGED breakers
  BY DEF PoolStep
<1>2. CASE Start(l)
  BY <1>1, <1>2 DEF Start
<1>3. CASE Reserve(l)
  BY <1>1, <1>3 DEF Reserve
<1>4. CASE Inspect(l)
  BY <1>1, <1>4 DEF Inspect
<1>5. CASE Claim(l)
  BY <1>1, <1>5 DEF Claim
<1>6. CASE NoSlot(l)
  BY <1>1, <1>6 DEF NoSlot
<1>7. CASE Wake(l)
  BY <1>1, <1>7 DEF Wake
<1>8. CASE WaitEnded(l)
  BY <1>1, <1>8 DEF WaitEnded
<1>9. CASE CallAgain(l)
  BY <1>1, <1>9 DEF CallAgain
<1>10. CASE EndContext(l)
  BY <1>1, <1>10 DEF EndContext
<1>. QED
  BY <1>2, <1>3, <1>4, <1>5, <1>6, <1>7, <1>8, <1>9, <1>10 DEF PoolStep

\* What the settling of a call does to rates and upstreams.
LEMMA SettleFrame ==
    ASSUME TypeOK, Reserved, NEW l \in Lookups, NEW outcome \in Outcomes, SettleWith(l, outcome)
    PROVE  /\ \A u \in Upstreams : u # at[l] => rate'[u] = rate[u]
           /\ rate'[at[l]] < InitialRate =>
                 rate[at[l]] < InitialRate \/ ctx[l] = "expired"
                    \/ (ctx[l] = "live" /\ outcome # "answer")
           /\ \A k \in Lookups \ {l} : pc'[k] = pc[k] /\ at'[k] = at[k]
<1>0. pc[l] = "call" /\ at[l] \in Upstreams
  BY DEF SettleWith, Reserved
<1>1. CASE Cancelled(l, outcome)
  BY <1>0, <1>1 DEF Cancelled, ObserveFailure, Release, Return, Goto, TypeOK
<1>2. CASE Succeeded(l, outcome)
  <2>1. /\ rate' = [rate EXCEPT ![at[l]] = Raised(@)]
        /\ \A k \in Lookups \ {l} : pc'[k] = pc[k] /\ at'[k] = at[k]
    BY <1>2 DEF Succeeded, ObserveSuccess, Return, Goto, TypeOK
  <2>2. rate[at[l]] \in MinRate..MaxRate
    BY <1>0 DEF TypeOK
  <2>3. Raised(rate[at[l]]) >= rate[at[l]]
    BY <2>2, RaisedNotLower
  <2>4. rate'[at[l]] = Raised(rate[at[l]])
    BY <1>0, <2>1 DEF TypeOK
  <2>5. \A u \in Upstreams : u # at[l] => rate'[u] = rate[u]
    BY <2>1 DEF TypeOK
  <2>6. Raised(rate[at[l]]) \in MinRate..MaxRate /\ InitialRate \in Nat
        /\ MinRate \in Nat /\ MaxRate \in Nat
    BY <2>2, RatesInRange, RateAssumption
  <2>. QED
    BY <2>1, <2>2, <2>3, <2>4, <2>5, <2>6
<1>3. CASE Failed(l, outcome)
  BY <1>0, <1>3 DEF Failed, ObserveFailure, Return, Goto, TypeOK
<1>. QED
  BY <1>1, <1>2, <1>3 DEF SettleWith

\* Nothing that excuses is ever taken back.
LEMMA ExcusesStay ==
    ASSUME Threshold \in Nat, ChainType,
           NEW l \in Lookups, NEW u \in Upstreams, NEW failed \in BOOLEAN,
           Blame(l, u, failed)
    PROVE  /\ faulty \subseteq faulty' /\ faulty' \subseteq Upstreams
           /\ canceled' \in [Upstreams -> Nat]
           /\ \A v \in Upstreams : Excused(v) => Excused(v)'
           /\ \A v \in Upstreams : v # u => canceled'[v] = canceled[v]
           /\ ctx[l] = "expired" \/ (ctx[l] = "live" /\ failed) => u \in faulty'
           /\ failed /\ ctx[l] = "canceled" => canceled'[u] = Least(canceled[u] + 1, Threshold)
           /\ ~(failed /\ ctx[l] = "canceled") => canceled' = canceled
<1>1. faulty \subseteq faulty' /\ faulty' \subseteq Upstreams
      /\ (ctx[l] = "expired" \/ (ctx[l] = "live" /\ failed) => u \in faulty')
  BY DEF Blame, ChainType
<1>2. CASE failed /\ ctx[l] = "canceled"
  <2>1. canceled' = [canceled EXCEPT ![u] = Least(canceled[u] + 1, Threshold)]
    BY <1>2 DEF Blame
  <2>2. canceled[u] \in Nat /\ Threshold \in Nat
    BY DEF ChainType
  <2>3. /\ Least(canceled[u] + 1, Threshold) \in Nat
        /\ canceled[u] >= Threshold => Least(canceled[u] + 1, Threshold) >= Threshold
    BY <2>2 DEF Least
  <2>4. /\ canceled' \in [Upstreams -> Nat]
        /\ \A v \in Upstreams : v # u => canceled'[v] = canceled[v]
        /\ canceled'[u] = Least(canceled[u] + 1, Threshold)
    BY <2>1, <2>3 DEF ChainType
  <2>5. ASSUME NEW v \in Upstreams, Excused(v) PROVE Excused(v)'
    BY <1>1, <2>3, <2>4, <2>5 DEF Excused
  <2>. QED
    BY <1>1, <1>2, <2>4, <2>5
<1>3. CASE ~(failed /\ ctx[l] = "canceled")
  <2>1. canceled' = canceled
    BY <1>3 DEF Blame
  <2>. QED
    BY <1>1, <1>3, <2>1 DEF ChainType, Excused
<1>. QED
  BY <1>2, <1>3

\* The breaker's types, and its own count against that of the canceled requests.
LEMMA VerdictSound ==
    ASSUME Threshold \in Nat, TypeOK, CInv, NEW l \in Lookups, NEW u \in Upstreams, NEW failed \in BOOLEAN,
           admitted[l] \in {"closed", "halfOpen"},
           After(l, u, failed), Blame(l, u, failed)
    PROVE  /\ mode' \in [Upstreams -> {"closed", "open", "halfOpen"}]
           /\ failure' \in [Upstreams -> Nat]
           /\ \A v \in Upstreams : v \notin faulty' => failure'[v] <= canceled'[v]
           /\ \A v \in Upstreams : mode'[v] # "closed" => Excused(v)'
<1>1. /\ ChainType /\ Accounted /\ failure[u] \in Nat /\ canceled[u] \in Nat
      /\ Threshold \in Nat /\ ctx[l] \in {"live", "canceled", "expired"}
  BY DEF CInv, ChainType, TypeOK
<1>2. /\ faulty \subseteq faulty'
      /\ canceled' \in [Upstreams -> Nat]
      /\ \A v \in Upstreams : Excused(v) => Excused(v)'
      /\ \A v \in Upstreams : v # u => canceled'[v] = canceled[v]
      /\ ctx[l] = "expired" \/ (ctx[l] = "live" /\ failed) => u \in faulty'
      /\ failed /\ ctx[l] = "canceled" => canceled'[u] = Least(canceled[u] + 1, Threshold)
      /\ ~(failed /\ ctx[l] = "canceled") => canceled' = canceled
  BY <1>1, ExcusesStay
<1>3. CASE failed
  <2>1. failure' = [failure EXCEPT ![u] = Counted(u)]
    BY <1>3 DEF After
  <2>2. Counted(u) \in Nat /\ (failure[u] <= canceled[u] =>
                                  Counted(u) <= Least(canceled[u] + 1, Threshold))
    BY <1>1 DEF Counted, Least
  <2>3. failure' \in [Upstreams -> Nat] /\ failure'[u] = Counted(u)
        /\ \A v \in Upstreams : v # u => failure'[v] = failure[v]
    BY <1>1, <2>1, <2>2 DEF ChainType
  <2>4. u \notin faulty' => Counted(u) <= canceled'[u]
    <3>1. ASSUME u \notin faulty' PROVE Counted(u) <= canceled'[u]
      <4>1. ctx[l] = "canceled" /\ failure[u] <= canceled[u]
        BY <1>1, <1>2, <1>3, <3>1 DEF Accounted
      <4>. QED
        BY <1>2, <1>3, <2>2, <4>1
    <3>. QED
      BY <3>1
  <2>5. \A v \in Upstreams : v \notin faulty' => failure'[v] <= canceled'[v]
    BY <1>1, <1>2, <2>3, <2>4 DEF Accounted
  <2>6. CASE Trips(l, u)
    <3>1. mode' = [mode EXCEPT ![u] = "open"]
      BY <1>3, <2>6 DEF After
    <3>2. Excused(u)'
      <4>1. Counted(u) >= Threshold
        BY <2>6 DEF Trips
      <4>2. canceled'[u] \in Nat
        BY <1>2
      <4>. QED
        BY <1>1, <2>2, <2>4, <4>1, <4>2 DEF Excused
    <3>. QED
      BY <1>1, <1>2, <2>3, <2>5, <3>1, <3>2 DEF ChainType, Accounted
  <2>7. CASE ~Trips(l, u)
    <3>1. mode' = [mode EXCEPT ![u] =
                      IF admitted[l] = "halfOpen" /\ @ = "halfOpen" THEN "open" ELSE @]
      BY <1>3, <2>7 DEF After, Verdict
    <3>2. mode' \in [Upstreams -> {"closed", "open", "halfOpen"}]
      BY <1>1, <3>1 DEF ChainType
    <3>3. \A v \in Upstreams : mode'[v] # "closed" => mode[v] # "closed"
      BY <1>1, <3>1 DEF ChainType
    <3>. QED
      BY <1>1, <1>2, <2>3, <2>5, <3>2, <3>3 DEF Accounted
  <2>. QED
    BY <2>6, <2>7
<1>4. CASE ~failed
  <2>1. mode' = [mode EXCEPT ![u] =
                    IF admitted[l] = "halfOpen" /\ @ = "halfOpen" THEN "closed" ELSE @]
    BY <1>4 DEF After, Verdict
  <2>2. failure' = [failure EXCEPT ![u] =
                       IF admitted[l] = "closed" \/ mode[u] = "halfOpen" THEN 0 ELSE @]
    BY <1>4 DEF After
  <2>3. /\ mode' \in [Upstreams -> {"closed", "open", "halfOpen"}]
        /\ \A v \in Upstreams : mode'[v] # "closed" => mode[v] # "closed"
    BY <1>1, <2>1 DEF ChainType
  <2>4. /\ failure' \in [Upstreams -> Nat]
        /\ \A v \in Upstreams : failure'[v] <= failure[v]
    BY <1>1, <2>2 DEF ChainType
  <2>5. canceled' = canceled
    BY <1>2, <1>4
  <2>6. ASSUME NEW v \in Upstreams, v \notin faulty' PROVE failure'[v] <= canceled'[v]
    <3>1. failure[v] \in Nat /\ failure'[v] \in Nat /\ canceled[v] \in Nat
      BY <1>1, <2>4 DEF ChainType
    <3>2. failure[v] <= canceled[v]
      BY <1>1, <1>2, <2>6 DEF Accounted
    <3>. QED
      BY <2>4, <2>5, <3>1, <3>2
  <2>. QED
    BY <1>1, <1>2, <2>3, <2>4, <2>6 DEF Accounted
<1>. QED
  BY <1>3, <1>4

\* Each step of the chain keeps the account.
LEMMA ChainAccounted ==
    ASSUME Threshold \in Nat, TypeOK, Reserved, CInv, [ChainNext]_chainVars
    PROVE  CInv'
<1>0. ChainType /\ Accounted
  BY DEF CInv
<1>1. ASSUME UNCHANGED breakers, rate' = rate,
             \A k \in Lookups : pc[k] = "call" => pc'[k] = "call" /\ at'[k] = at[k]
      PROVE  CInv'
  <2>1. /\ mode' = mode /\ failure' = failure /\ admitted' = admitted /\ faulty' = faulty
        /\ canceled' = canceled
    BY <1>1 DEF breakers
  <2>2. \A u : Excused(u)' = Excused(u)
    BY <2>1 DEF Excused
  <2>3. ASSUME NEW l \in Lookups, admitted[l] = "refused" PROVE Excused(at[l])'
    <3>1. at'[l] = at[l] /\ Excused(at[l])
      BY <1>0, <1>1, <2>3 DEF Accounted
    <3>. QED
      BY <2>1, <3>1 DEF Excused
  <2>4. NoPenaltyBelowThreshold'
    BY <1>0, <1>1, <2>1 DEF Accounted, NoPenaltyBelowThreshold
  <2>. QED
    BY <1>0, <1>1, <2>1, <2>2, <2>3, <2>4 DEF CInv, ChainType, Accounted
<1>2. ASSUME NEW l \in Lookups, PoolStep(l) PROVE CInv'
  BY <1>1, <1>2, PoolStepFrame
<1>3. ASSUME Tick, UNCHANGED breakers PROVE CInv'
  BY <1>1, <1>3 DEF Tick
<1>4. ASSUME UNCHANGED chainVars PROVE CInv'
  BY <1>1, <1>4 DEF chainVars, vars
<1>5. ASSUME NEW l \in Lookups, Admit(l) PROVE CInv'
  <2>1. /\ pc[l] = "call" /\ at[l] \in Upstreams
        /\ rate' = rate /\ pc' = pc /\ at' = at
        /\ failure' = failure /\ faulty' = faulty /\ canceled' = canceled
    BY <1>5 DEF Admit, vars, Reserved
  <2>2. \A u : Excused(u)' = Excused(u)
    BY <2>1 DEF Excused
  <2>3. /\ mode' \in [Upstreams -> {"closed", "open", "halfOpen"}]
        /\ \A u \in Upstreams : mode'[u] # "closed" => mode[u] # "closed"
    BY <1>0, <1>5, <2>1 DEF Admit, ChainType
  <2>4. \E state \in {"closed", "halfOpen", "refused"} :
           /\ admitted' = [admitted EXCEPT ![l] = state]
           /\ state = "refused" => mode[at[l]] # "closed"
    BY <1>0, <1>5, <2>1 DEF Admit, Enter, ChainType
  <2>5. /\ admitted' \in [Lookups -> {"none", "refused", "closed", "halfOpen"}]
        /\ \A k \in Lookups : k # l => admitted'[k] = admitted[k]
        /\ admitted'[l] = "refused" => mode[at[l]] # "closed"
    BY <1>0, <2>4 DEF ChainType
  <2>6. ASSUME NEW k \in Lookups, admitted'[k] = "refused" PROVE Excused(at[k])'
    <3>1. Excused(at[k])
      BY <1>0, <2>1, <2>5, <2>6 DEF Accounted
    <3>. QED
      BY <2>1, <3>1 DEF Excused
  <2>7. NoPenaltyBelowThreshold'
    BY <1>0, <2>1 DEF Accounted, NoPenaltyBelowThreshold
  <2>. QED
    BY <1>0, <2>1, <2>2, <2>3, <2>5, <2>6, <2>7 DEF CInv, ChainType, Accounted
<1>6. ASSUME NEW l \in Lookups, Answer(l) PROVE CInv'
  <2>1. /\ pc[l] = "call" /\ at[l] \in Upstreams
        /\ admitted' = [admitted EXCEPT ![l] = "none"]
    BY <1>6 DEF Answer, Enter, Reserved
  <2>2. /\ admitted' \in [Lookups -> {"none", "refused", "closed", "halfOpen"}]
        /\ admitted'[l] = "none"
        /\ \A k \in Lookups : k # l => admitted'[k] = admitted[k]
    BY <1>0, <2>1 DEF ChainType
  <2>3. \A u \in Upstreams : rate[u] < InitialRate => Excused(u)
    BY <1>0 DEF Accounted, NoPenaltyBelowThreshold, Excused
  \* What is left is the same in both cases: who is excused stays so, and at[l] is if its
  \* rate has gone down.
  <2>4. ASSUME NEW outcome \in Outcomes, SettleWith(l, outcome),
               \A u \in Upstreams : Excused(u) => Excused(u)',
               ctx[l] = "expired" \/ (ctx[l] = "live" /\ outcome # "answer") => Excused(at[l])
                  \/ at[l] \in faulty'
        PROVE  /\ \A k \in Lookups : admitted'[k] # "none" => pc'[k] = "call"
               /\ \A k \in Lookups : admitted'[k] = "refused" => Excused(at[k])'
               /\ NoPenaltyBelowThreshold'
    <3>1. /\ \A u \in Upstreams : u # at[l] => rate'[u] = rate[u]
          /\ rate'[at[l]] < InitialRate =>
                rate[at[l]] < InitialRate \/ ctx[l] = "expired"
                   \/ (ctx[l] = "live" /\ outcome # "answer")
          /\ \A k \in Lookups \ {l} : pc'[k] = pc[k] /\ at'[k] = at[k]
      BY <2>4, SettleFrame
    <3>2. \A k \in Lookups : admitted'[k] # "none" => pc'[k] = "call"
      BY <1>0, <2>2, <3>1 DEF Accounted
    <3>3. ASSUME NEW k \in Lookups, admitted'[k] = "refused" PROVE Excused(at[k])'
      <4>1. k # l /\ admitted[k] = "refused" /\ at'[k] = at[k] /\ at[k] \in Upstreams
            /\ Excused(at[k])
        BY <1>0, <2>2, <3>1, <3>3 DEF Accounted, Reserved
      <4>2. (at[k] \in faulty' \/ canceled'[at[k]] >= Threshold)
        BY <2>4, <4>1 DEF Excused
      <4>. QED
        BY <4>1, <4>2 DEF Excused
    <3>4. ASSUME NEW u \in Upstreams, rate'[u] < InitialRate
          PROVE  u \in faulty' \/ canceled'[u] >= Threshold
      <4>1. Excused(u) \/ u \in faulty'
        BY <2>3, <2>4, <3>1, <3>4
      <4>. QED
        BY <2>4, <4>1 DEF Excused
    <3>. QED
      BY <3>2, <3>3, <3>4 DEF NoPenaltyBelowThreshold
  <2>5. CASE Refused(l)
    <3>1. /\ admitted[l] = "refused" /\ SettleWith(l, "error") /\ "error" \in Outcomes
          /\ mode' = mode /\ failure' = failure /\ faulty' = faulty /\ canceled' = canceled
      BY <2>5 DEF Refused, Outcomes
    <3>2. Excused(at[l]) /\ \A u : Excused(u)' = Excused(u)
      BY <1>0, <3>1 DEF Accounted, Excused
    <3>3. /\ \A k \in Lookups : admitted'[k] # "none" => pc'[k] = "call"
          /\ \A k \in Lookups : admitted'[k] = "refused" => Excused(at[k])'
          /\ NoPenaltyBelowThreshold'
      BY <2>4, <3>1, <3>2
    <3>. QED
      BY <1>0, <2>2, <3>1, <3>2, <3>3 DEF CInv, ChainType, Accounted
  <2>6. ASSUME NEW outcome \in Outcomes, admitted[l] # "refused",
               After(l, at[l], outcome # "answer"), Blame(l, at[l], outcome # "answer"),
               SettleWith(l, outcome)
        PROVE  CInv'
    <3> DEFINE failed == outcome # "answer"
    <3>1. failed \in BOOLEAN /\ After(l, at[l], failed) /\ Blame(l, at[l], failed)
          /\ admitted[l] \in {"closed", "halfOpen"}
      BY <1>0, <1>6, <2>6 DEF Answer, ChainType
    <3>2. /\ faulty' \subseteq Upstreams /\ canceled' \in [Upstreams -> Nat]
          /\ \A u \in Upstreams : Excused(u) => Excused(u)'
          /\ ctx[l] = "expired" \/ (ctx[l] = "live" /\ failed) => at[l] \in faulty'
      BY <1>0, <2>1, <3>1, ExcusesStay
    <3>3. /\ mode' \in [Upstreams -> {"closed", "open", "halfOpen"}]
          /\ failure' \in [Upstreams -> Nat]
          /\ \A v \in Upstreams : v \notin faulty' => failure'[v] <= canceled'[v]
          /\ \A v \in Upstreams : mode'[v] # "closed" => Excused(v)'
      BY <2>1, <3>1, VerdictSound
    <3>4. /\ \A k \in Lookups : admitted'[k] # "none" => pc'[k] = "call"
          /\ \A k \in Lookups : admitted'[k] = "refused" => Excused(at[k])'
          /\ NoPenaltyBelowThreshold'
      BY <2>4, <2>6, <3>2
    <3>. QED
      BY <2>2, <3>2, <3>3, <3>4 DEF CInv, ChainType, Accounted
  <2>. QED
    BY <1>6, <2>5, <2>6 DEF Answer
<1>. QED
  BY <1>2, <1>3, <1>4, <1>5, <1>6 DEF ChainNext

\* Fewer cancellations than open a breaker never cost an upstream that has not failed any
\* of its learned rate (the breaker's count and observeFailure together).
THEOREM FewCancellationsForgiven ==
    ASSUME Threshold \in Nat PROVE ChainSpec => []NoPenaltyBelowThreshold
<1>1. ChainInit => CInv
  <2>1. ASSUME ChainInit PROVE ChainType
    BY <2>1 DEF ChainInit, ChainType
  <2>2. ASSUME ChainInit PROVE Accounted
    <3>1. \A u \in Upstreams : rate[u] = InitialRate /\ failure[u] = 0 /\ canceled[u] = 0
                               /\ mode[u] = "closed"
      BY <2>2 DEF ChainInit, Init
    <3>2. \A l \in Lookups : admitted[l] = "none"
      BY <2>2 DEF ChainInit
    <3>3. InitialRate \in Nat
      BY RateAssumption
    <3>. QED
      BY <3>1, <3>2, <3>3 DEF Accounted, NoPenaltyBelowThreshold
  <2>. QED
    BY <2>1, <2>2 DEF CInv
<1>2. IInv /\ CInv /\ [ChainNext]_chainVars => CInv'
  BY ChainAccounted DEF IInv
<1>3. ChainSpec => []IInv
  BY ChainIsAPool, Invariant, PTL
<1>4. CInv => NoPenaltyBelowThreshold
  BY DEF CInv, Accounted
<1>. QED
  BY <1>1, <1>2, <1>3, <1>4, PTL DEF ChainSpec
===============================================================================
