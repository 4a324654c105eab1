------------------------- MODULE CircuitBreakerProofs -------------------------
(***************************************************************************)
(* Proofs about CircuitBreaker, for any number of lookups, any threshold   *)
(* and any cooling time.                                                   *)
(***************************************************************************)
EXTENDS CircuitBreaker, TLAPS

(* The inductive invariant.  StampCurrent is what makes a cooling verdict    *)
(* mean something; TripSeesClosed ties the CAS of Trip to the kind of call   *)
(* it was decided for.                                                       *)
TripSeesClosed == \A l \in Lookups : At(l, "trip") => seen[l] = "Closed"

IInv ==
    /\ TypeOK
    /\ StampCurrent
    /\ CountCurrent
    /\ CoolingHonoured
    /\ HalfOpenHasProbe
    /\ TripSeesClosed

------------------------------------------------------------------------------
\* Saturating arithmetic stays within its bound.
LEMMA UptoInRange ==
    ASSUME NEW bound \in Nat, NEW n \in Nat
    PROVE  Upto(bound, n) \in 0..bound
  BY DEF Upto

\* Saturating two clocks by the same tick keeps their order.
LEMMA UptoMonotone ==
    ASSUME NEW bound \in Nat, NEW m \in 0..bound, NEW n \in 0..bound, m <= n
    PROVE  Upto(bound, m + 1) <= Upto(bound, n + 1)
  BY DEF Upto

\* The invariant holds initially.
LEMMA InitInvariant == Init => IInv
  BY ThresholdAssumption, CoolingAssumption
  DEF Init, IInv, TypeOK, States, Points, Stamping, StampCurrent, CountCurrent,
      CoolingHonoured, HalfOpenHasProbe, TripSeesClosed, At

------------------------------------------------------------------------------
\* Every operation of Lookup, the clock and the environment keep the types.
LEMMA TypePreserved ==
    ASSUME TypeOK, [Next]_vars
    PROVE  TypeOK'
<1> USE ThresholdAssumption, CoolingAssumption
<1> USE DEF TypeOK, States, Points, Stamping, At, Goto, Learn, Return, history
<1>0. \A n \in Nat : Upto(Cooling, n) \in 0..Cooling /\ Upto(Threshold, n) \in 0..Threshold
  BY UptoInRange
<1>1. CASE Tick
  <2>1. age + 1 \in Nat /\ sinceChange + 1 \in Nat
    OBVIOUS
  <2>2. age' \in 0..Cooling /\ sinceChange' \in 0..Cooling
    BY <1>0, <1>1, <2>1 DEF Tick
  <2>. QED
    BY <1>1, <2>2 DEF Tick
<1>2. CASE Health
  BY <1>2 DEF Health
<1>3. ASSUME NEW l \in Lookups, Step(l) PROVE TypeOK'
  <2>1. CASE Begin(l)         BY <2>1 DEF Begin
  <2>2. CASE CoolingCheck(l)  BY <2>2 DEF CoolingCheck
  <2>3. CASE Claim(l)         BY <2>3 DEF Claim, Swap, SwapLost
  <2>4. CASE Reload(l)        BY <2>4 DEF Reload
  <2>5. CASE Respond(l)
    <3>1. failure + 1 \in Nat /\ recent + 1 \in Nat
      OBVIOUS
    <3>2. /\ failure' \in 0..Threshold
          /\ recent' \in 0..Threshold
      BY <1>0, <2>5, <3>1 DEF Respond, CountFailure
    <3>. QED
      BY <2>5, <3>2 DEF Respond
  <2>6. CASE ProbeSucceeded(l)
    BY <2>6 DEF ProbeSucceeded, Swap, SwapLost
  <2>7. CASE CallSucceeded(l) BY <2>7 DEF CallSucceeded, EndStreak
  <2>8. CASE ProbeFailed(l)   BY <2>8 DEF ProbeFailed, Swap, SwapLost
  <2>9. CASE CallFailed(l)    BY <2>9 DEF CallFailed
  <2>10. CASE Trip(l)         BY <2>10 DEF Trip, Swap, SwapLost
  <2>11. CASE Stamp(l)        BY <2>11 DEF Stamp, RefreshStamp
  <2>12. CASE Reset(l)        BY <2>12 DEF Reset, ClearFailures
  <2>. QED
    BY <1>3, <2>1, <2>2, <2>3, <2>4, <2>5, <2>6, <2>7, <2>8, <2>9, <2>10,
       <2>11, <2>12 DEF Step
<1>4. CASE UNCHANGED vars
  BY <1>4 DEF vars
<1>. QED
  BY <1>1, <1>2, <1>3, <1>4 DEF Next

------------------------------------------------------------------------------
\* StampCurrent and CoolingHonoured are preserved together: a verdict taken while
\* no stamp is missing is about the last change of state.
LEMMA CoolingPreserved ==
    ASSUME TypeOK, StampCurrent, CoolingHonoured, [Next]_vars
    PROVE  StampCurrent' /\ CoolingHonoured'
<1> USE ThresholdAssumption, CoolingAssumption
<1> USE DEF TypeOK, States, Points, Stamping, At, Goto, Learn, Return, history,
            StampCurrent, CoolingHonoured
<1>1. CASE Tick
  <2>1. /\ age' \in 0..Cooling /\ sinceChange' \in 0..Cooling
        /\ age <= sinceChange => age' <= sinceChange'
        /\ sinceChange >= Cooling => sinceChange' >= Cooling
    BY <1>1 DEF Tick, Upto
  <2>. QED
    BY <1>1, <2>1 DEF Tick
<1>2. CASE Health
  BY <1>2 DEF Health
<1>3. ASSUME NEW l \in Lookups, Step(l) PROVE StampCurrent' /\ CoolingHonoured'
  <2>1. CASE Begin(l)         BY <1>3, <2>1 DEF Begin
  <2>2. CASE CoolingCheck(l)
    <3>1. StampCurrent'
      BY <2>2 DEF CoolingCheck
    <3>2. ASSUME NEW c \in Lookups, At(c, "claim")', c \notin tainted'
          PROVE  sinceChange' >= Cooling
      <4>1. CASE c = l
        BY <2>2, <3>2, <4>1 DEF CoolingCheck, CoolingOver
      <4>2. CASE c # l
        BY <2>2, <3>2, <4>2 DEF CoolingCheck
      <4>. QED
        BY <4>1, <4>2
    <3>. QED
      BY <3>1, <3>2
  <2>3. CASE Claim(l)         BY <2>3 DEF Claim, Swap, SwapLost
  <2>4. CASE Reload(l)        BY <2>4 DEF Reload
  <2>5. CASE Respond(l)       BY <2>5 DEF Respond
  <2>6. CASE ProbeSucceeded(l)
    BY <2>6 DEF ProbeSucceeded, Swap, SwapLost
  <2>7. CASE CallSucceeded(l) BY <2>7 DEF CallSucceeded
  <2>8. CASE ProbeFailed(l)   BY <2>8 DEF ProbeFailed, Swap, SwapLost
  <2>9. CASE CallFailed(l)    BY <2>9 DEF CallFailed
  <2>10. CASE Trip(l)         BY <2>10 DEF Trip, Swap, SwapLost
  <2>11. CASE Stamp(l)        BY <2>11 DEF Stamp, RefreshStamp
  <2>12. CASE Reset(l)        BY <2>12 DEF Reset
  <2>. QED
    BY <1>3, <2>1, <2>2, <2>3, <2>4, <2>5, <2>6, <2>7, <2>8, <2>9, <2>10,
       <2>11, <2>12 DEF Step
<1>4. CASE UNCHANGED vars
  BY <1>4 DEF vars
<1>. QED
  BY <1>1, <1>2, <1>3, <1>4 DEF Next

------------------------------------------------------------------------------
\* A failure is counted in failure and in recent alike, recent is cleared only where a
\* recovery begins, and the store that ends a recovery clears failure.
LEMMA CountPreserved ==
    ASSUME TypeOK, CountCurrent, [Next]_vars
    PROVE  CountCurrent'
<1> USE ThresholdAssumption
<1> USE DEF TypeOK, States, Points, Stamping, At, Goto, Learn, Return, history, CountCurrent
<1>1. CASE Tick
  BY <1>1 DEF Tick
<1>2. CASE Health
  BY <1>2 DEF Health
<1>3. ASSUME NEW l \in Lookups, Step(l) PROVE CountCurrent'
  <2>1. CASE Begin(l)         BY <2>1 DEF Begin
  <2>2. CASE CoolingCheck(l)  BY <2>2 DEF CoolingCheck
  <2>3. CASE Claim(l)         BY <2>3 DEF Claim, Swap, SwapLost
  <2>4. CASE Reload(l)        BY <2>4 DEF Reload
  <2>5. CASE Respond(l)       BY <2>5 DEF Respond, CountFailure, Upto
  <2>6. CASE ProbeSucceeded(l)
    BY <2>6 DEF ProbeSucceeded, Swap, SwapLost
  <2>7. CASE CallSucceeded(l) BY <2>7 DEF CallSucceeded, EndStreak
  <2>8. CASE ProbeFailed(l)   BY <2>8 DEF ProbeFailed, Swap, SwapLost
  <2>9. CASE CallFailed(l)    BY <2>9 DEF CallFailed
  <2>10. CASE Trip(l)         BY <2>10 DEF Trip, Swap, SwapLost
  <2>11. CASE Stamp(l)        BY <2>11 DEF Stamp
  <2>12. CASE Reset(l)        BY <2>12 DEF Reset, ClearFailures
  <2>. QED
    BY <1>3, <2>1, <2>2, <2>3, <2>4, <2>5, <2>6, <2>7, <2>8, <2>9, <2>10,
       <2>11, <2>12 DEF Step
<1>4. CASE UNCHANGED vars
  BY <1>4 DEF vars
<1>. QED
  BY <1>1, <1>2, <1>3, <1>4 DEF Next

------------------------------------------------------------------------------
\* A probe stays one until its own verdict, and that verdict leaves HalfOpen.
LEMMA ProbePreserved ==
    ASSUME TypeOK, HalfOpenHasProbe, [Next]_vars
    PROVE  HalfOpenHasProbe'
<1> SUFFICES ASSUME state' = "HalfOpen"
             PROVE  \E p \in Lookups : Probing(p)'
  BY DEF HalfOpenHasProbe
<1> USE DEF TypeOK, States, Points, Stamping, At, Goto, Learn, Return, history, Probing
<1>1. CASE Tick
  BY <1>1 DEF Tick, HalfOpenHasProbe
<1>2. CASE Health
  BY <1>2 DEF Health, HalfOpenHasProbe
<1>3. ASSUME NEW l \in Lookups, Step(l)
      PROVE  \E p \in Lookups : Probing(p)'
  <2>1. CASE Claim(l) /\ state = "Open"
    <3>1. Probing(l)'
      BY <2>1 DEF Claim, Swap, SwapLost
    <3>. QED
      BY <3>1
  <2>2. CASE state = "HalfOpen"
    <3>1. PICK p \in Lookups : Probing(p)
      BY <2>2 DEF HalfOpenHasProbe
    <3>2. CASE p # l
      <4>1. pc'[p] = pc[p] /\ seen'[p] = seen[p]
        BY <1>3, <3>2
        DEF Step, Begin, CoolingCheck, Claim, Reload, Respond, ProbeSucceeded,
            CallSucceeded, ProbeFailed, CallFailed, Trip, Stamp, Reset
      <4>. QED
        BY <3>1, <4>1
    <3>3. CASE p = l
      <4>1. Stamp(l) \/ Respond(l)
        BY <1>3, <2>2, <3>1, <3>3
        DEF Step, Begin, CoolingCheck, Claim, Reload, ProbeSucceeded,
            CallSucceeded, ProbeFailed, CallFailed, Trip, Reset, Swap, SwapLost
      <4>2. Probing(l)'
        BY <3>1, <3>3, <4>1 DEF Stamp, Respond
      <4>. QED
        BY <4>2
    <3>. QED
      BY <3>2, <3>3
  <2>. QED
    BY <1>3, <2>1, <2>2
    DEF Step, Begin, CoolingCheck, Claim, Reload, Respond, ProbeSucceeded,
        CallSucceeded, ProbeFailed, CallFailed, Trip, Stamp, Reset, Swap, SwapLost
<1>4. CASE UNCHANGED vars
  BY <1>4 DEF vars, HalfOpenHasProbe
<1>. QED
  BY <1>1, <1>2, <1>3, <1>4 DEF Next

\* Only CallFailed leads to "trip", from a call that saw Closed.
LEMMA TripSeesClosedPreserved ==
    ASSUME TypeOK, TripSeesClosed, [Next]_vars
    PROVE  TripSeesClosed'
<1> USE DEF TypeOK, TripSeesClosed, Points, Stamping, At, Goto, Learn, Return, history
<1>1. ASSUME NEW l \in Lookups, Step(l) PROVE TripSeesClosed'
  BY <1>1
  DEF Step, Begin, CoolingCheck, Claim, Reload, Respond, ProbeSucceeded,
      CallSucceeded, ProbeFailed, CallFailed, Trip, Stamp, Reset
<1>. QED
  BY <1>1 DEF Next, Tick, Health, vars

\* Every step keeps the invariant.
LEMMA InvariantPreserved == IInv /\ [Next]_vars => IInv'
  BY TypePreserved, CoolingPreserved, CountPreserved, ProbePreserved, TripSeesClosedPreserved
  DEF IInv

\* The inductive invariant holds of every execution of the breaker.
LEMMA Invariant == Spec => []IInv
<1>1. IInv /\ [Next]_vars => IInv'
  BY InvariantPreserved
<1>. QED
  BY InitInvariant, <1>1, PTL DEF Spec

------------------------------------------------------------------------------
\* Type correctness of every reachable state of the breaker, in particular that a
\* lookup never calls the wrapped resolver on an Open verdict.
THEOREM TypeCorrectness == Spec => []TypeOK
<1>1. IInv => TypeOK  BY DEF IInv
<1>. QED  BY Invariant, <1>1, PTL

\* With no stamp missing, lastStateChange is as young as the last change of state.
THEOREM StampCurrency == Spec => []StampCurrent
<1>1. IInv => StampCurrent  BY DEF IInv
<1>. QED  BY Invariant, <1>1, PTL

\* With no recovery under way, failure counts nothing from before the last one.
THEOREM CountCurrency == Spec => []CountCurrent
<1>1. IInv => CountCurrent  BY DEF IInv
<1>. QED  BY Invariant, <1>1, PTL

\* Outside the two race windows, a probe starts only after a full cooling time.
THEOREM CoolingIsHonoured == Spec => []CoolingHonoured
<1>1. IInv => CoolingHonoured  BY DEF IInv
<1>. QED  BY Invariant, <1>1, PTL

\* HalfOpen always has a probe whose verdict will leave it.
THEOREM HalfOpenNeverStranded == Spec => []HalfOpenHasProbe
<1>1. IInv => HalfOpenHasProbe  BY DEF IInv
<1>. QED  BY Invariant, <1>1, PTL

------------------------------------------------------------------------------
(* Refinement of the abstract breaker.                                       *)

\* Both breakers start closed, with no call under way.
LEMMA InitRefines == Init => Abstract!AInit
  BY DEF Init, Abstract!AInit, Abstract!NoCall, callMapped, CallOf, Progress

\* A step of l moves at most the abstract call of l.
LEMMA StepIsLocal ==
    ASSUME TypeOK, NEW l \in Lookups, Step(l)
    PROVE  callMapped' = [callMapped EXCEPT ![l] = CallOf(pc'[l], seen'[l])]
<1>1. \A c \in Lookups \ {l} : pc'[c] = pc[c] /\ seen'[c] = seen[c]
  BY DEF TypeOK, Step, Begin, CoolingCheck, Claim, Reload, Respond,
         ProbeSucceeded, CallSucceeded, ProbeFailed, CallFailed, Trip, Stamp,
         Reset, Goto, Learn, Return, history
<1>. QED
  BY <1>1 DEF callMapped

\* Each atomic operation of Lookup is one step of the abstract call, or none.
LEMMA StepRefines ==
    ASSUME TypeOK, TripSeesClosed, NEW l \in Lookups, Step(l)
    PROVE  [Abstract!ANext]_(Abstract!avars)
<1>1. callMapped' = [callMapped EXCEPT ![l] = CallOf(pc'[l], seen'[l])]
  BY StepIsLocal
<1>2. callMapped[l] = CallOf(pc[l], seen[l])
  BY DEF callMapped
<1>3. CASE CallOf(pc'[l], seen'[l]) = CallOf(pc[l], seen[l]) /\ UNCHANGED state
  <2>1. callMapped' = callMapped
    BY <1>1, <1>2, <1>3 DEF callMapped
  <2>. QED
    BY <1>3, <2>1 DEF Abstract!avars
<1> USE DEF TypeOK, States, Points, Stamping, At, Goto, Learn, Return, history,
            CallOf, Progress
<1>4. CASE Begin(l)
  <2>1. CASE state = "Open"
    BY <1>3, <1>4, <2>1 DEF Begin
  <2>2. CASE state # "Open"
    <3>1. Abstract!Admit(l)
      BY <1>1, <1>2, <1>4, <2>2 DEF Begin, Abstract!Admit, Abstract!NoCall
    <3>. QED
      BY <3>1 DEF Abstract!ANext
  <2>. QED
    BY <2>1, <2>2
<1>5. CASE CoolingCheck(l)
  BY <1>3, <1>5 DEF CoolingCheck
<1>6. CASE Claim(l)
  <2>1. CASE state = "Open"
    <3>1. Abstract!StartProbe(l)
      BY <1>1, <1>2, <1>6, <2>1
      DEF Claim, Swap, SwapLost, Abstract!StartProbe, Abstract!NoCall
    <3>. QED
      BY <3>1 DEF Abstract!ANext
  <2>2. CASE state # "Open"
    BY <1>3, <1>6, <2>2 DEF Claim, Swap, SwapLost
  <2>. QED
    BY <2>1, <2>2
<1>7. CASE Reload(l)
  <2>1. CASE state = "Open"
    BY <1>3, <1>7, <2>1 DEF Reload
  <2>2. CASE state # "Open"
    <3>1. Abstract!Admit(l)
      BY <1>1, <1>2, <1>7, <2>2 DEF Reload, Abstract!Admit, Abstract!NoCall
    <3>. QED
      BY <3>1 DEF Abstract!ANext
  <2>. QED
    BY <2>1, <2>2
<1>8. CASE Respond(l)
  <2>1. Abstract!Answer(l)
    <3>1. callMapped[l] = [at |-> "running", kind |-> seen[l]]
      BY <1>2, <1>8 DEF Respond
    <3>2. PICK verdict \in {"ok", "failed"} :
             CallOf(pc'[l], seen'[l]) = [at |-> verdict, kind |-> seen[l]]
      BY <1>8 DEF Respond
    <3>3. [callMapped[l] EXCEPT !.at = verdict] = [at |-> verdict, kind |-> seen[l]]
      BY <3>1
    <3>4. callMapped' = [callMapped EXCEPT ![l].at = verdict]
      BY <1>1, <3>2, <3>3, Zenon
    <3>5. callMapped[l].at = "running" /\ UNCHANGED state
      BY <1>8, <3>1 DEF Respond
    <3>. QED
      BY <3>4, <3>5 DEF Abstract!Answer
  <2>. QED
    BY <2>1 DEF Abstract!ANext
<1>9. ASSUME CallOf(pc[l], seen[l]).at \in {"ok", "failed", "done"},
              pc'[l] = "idle", UNCHANGED state
      PROVE  Abstract!ANext
  <2>1. CallOf(pc'[l], seen'[l]) = Abstract!NoCall
    BY <1>9 DEF Abstract!NoCall
  <2>2. Abstract!Finish(l)
    BY <1>1, <1>2, <1>9, <2>1 DEF Abstract!Finish
  <2>. QED
    BY <2>2 DEF Abstract!ANext
<1>10. ASSUME NEW verdict \in {"ok", "failed"}, NEW kind \in States, NEW next \in States,
              CallOf(pc[l], seen[l]) = [at |-> verdict, kind |-> kind],
              CallOf(pc'[l], seen'[l]) = [at |-> "done", kind |-> kind],
              state = kind, state' = next
       PROVE  Abstract!Verdict(l, verdict, kind, next)
  <2>1. callMapped[l] = [at |-> verdict, kind |-> kind]
    BY <1>2, <1>10
  <2>2. callMapped' = [callMapped EXCEPT ![l] = [at |-> "done", kind |-> kind]]
    BY <1>1, <1>10
  <2>3. [callMapped[l] EXCEPT !.at = "done"] = [at |-> "done", kind |-> kind]
    BY <2>1
  <2>4. callMapped' = [callMapped EXCEPT ![l].at = "done"]
    BY <2>2, <2>3, Zenon
  <2>. QED
    BY <1>10, <2>1, <2>4 DEF Abstract!Verdict
<1>11. CASE ProbeSucceeded(l)
  <2>1. CASE state = "HalfOpen"
    <3>1. /\ CallOf(pc[l], seen[l]) = [at |-> "ok", kind |-> "HalfOpen"]
          /\ CallOf(pc'[l], seen'[l]) = [at |-> "done", kind |-> "HalfOpen"]
          /\ state' = "Closed"
      BY <1>11, <2>1 DEF ProbeSucceeded, Swap, SwapLost
    <3>2. Abstract!Recover(l)
      BY <1>10, <2>1, <3>1 DEF Abstract!Recover
    <3>. QED
      BY <3>2 DEF Abstract!ANext
  <2>2. CASE state # "HalfOpen"
    BY <1>9, <1>11, <2>2 DEF ProbeSucceeded, Swap, SwapLost
  <2>. QED
    BY <2>1, <2>2
<1>12. CASE CallSucceeded(l)
  BY <1>9, <1>12 DEF CallSucceeded
<1>13. CASE ProbeFailed(l)
  <2>1. CASE state = "HalfOpen"
    <3>1. /\ CallOf(pc[l], seen[l]) = [at |-> "failed", kind |-> "HalfOpen"]
          /\ CallOf(pc'[l], seen'[l]) = [at |-> "done", kind |-> "HalfOpen"]
          /\ state' = "Open"
      BY <1>13, <2>1 DEF ProbeFailed, Swap, SwapLost
    <3>2. Abstract!Reopen(l)
      BY <1>10, <2>1, <3>1 DEF Abstract!Reopen
    <3>. QED
      BY <3>2 DEF Abstract!ANext
  <2>2. CASE state # "HalfOpen"
    BY <1>9, <1>13, <2>2 DEF ProbeFailed, Swap, SwapLost
  <2>. QED
    BY <2>1, <2>2
<1>14. CASE CallFailed(l)
  <2>1. CASE pc'[l] = "trip"
    BY <1>3, <1>14, <2>1 DEF CallFailed
  <2>2. CASE pc'[l] # "trip"
    BY <1>9, <1>14, <2>2 DEF CallFailed
  <2>. QED
    BY <2>1, <2>2
<1>15. CASE Trip(l)
  <2>0. seen[l] = "Closed"
    BY <1>15 DEF Trip, TripSeesClosed
  <2>1. CASE state = "Closed"
    <3>1. /\ CallOf(pc[l], seen[l]) = [at |-> "failed", kind |-> "Closed"]
          /\ CallOf(pc'[l], seen'[l]) = [at |-> "done", kind |-> "Closed"]
          /\ state' = "Open"
      BY <1>15, <2>0, <2>1 DEF Trip, Swap, SwapLost
    <3>2. Abstract!Trip(l)
      BY <1>10, <2>1, <3>1 DEF Abstract!Trip
    <3>. QED
      BY <3>2 DEF Abstract!ANext
  <2>2. CASE state # "Closed"
    BY <1>9, <1>15, <2>0, <2>2 DEF Trip, Swap, SwapLost
  <2>. QED
    BY <2>1, <2>2
<1>16. CASE Stamp(l)
  <2>1. CASE At(l, "stampOpen")
    BY <1>9, <1>16, <2>1 DEF Stamp
  <2>2. CASE ~At(l, "stampOpen")
    BY <1>3, <1>16, <2>2 DEF Stamp
  <2>. QED
    BY <2>1, <2>2
<1>17. CASE Reset(l)
  BY <1>9, <1>17 DEF Reset
<1>. QED
  BY <1>4, <1>5, <1>6, <1>7, <1>8, <1>11, <1>12, <1>13, <1>14, <1>15, <1>16,
     <1>17 DEF Step

\* The concurrent implementation keeps the promise of the abstract breaker: its
\* state moves only on the verdict of a call of the right kind.
THEOREM BreakerRefinement == Spec => Refinement
<1>1. IInv /\ [Next]_vars => [Abstract!ANext]_(Abstract!avars)
  <2> SUFFICES ASSUME IInv, [Next]_vars
               PROVE  [Abstract!ANext]_(Abstract!avars)
    OBVIOUS
  <2>1. CASE Tick
    BY <2>1 DEF Tick, Abstract!avars, callMapped
  <2>2. CASE Health
    BY <2>2 DEF Health, Abstract!avars, callMapped
  <2>3. ASSUME NEW l \in Lookups, Step(l)
        PROVE  [Abstract!ANext]_(Abstract!avars)
    BY <2>3, StepRefines DEF IInv
  <2>4. CASE UNCHANGED vars
    BY <2>4 DEF vars, Abstract!avars, callMapped
  <2>. QED
    BY <2>1, <2>2, <2>3, <2>4 DEF Next
<1>. QED
  BY InitRefines, Invariant, <1>1, PTL DEF Spec, Refinement, Abstract!ASpec
=============================================================================
