----------------------------- MODULE BreakerSpec -----------------------------
(***************************************************************************)
(* What CircuitBreakerResolver promises its caller, without clocks,        *)
(* counters, locks or compare-and-swaps: a three-state machine whose state *)
(* moves only on the verdict of a call of the right kind.                  *)
(*                                                                         *)
(*   - A call is admitted only while the breaker is not Open, and keeps    *)
(*     the state it was admitted in ("kind") until its verdict.            *)
(*   - Open is left only by a lookup that starts a probe.                  *)
(*   - HalfOpen is left only by the verdict of a call of kind HalfOpen,    *)
(*     Closed only by the failure of a call of kind Closed.                *)
(*                                                                         *)
(* CircuitBreaker.tla implements this specification (Refinement there).    *)
(***************************************************************************)
CONSTANT Lookups

VARIABLES
    mode,   \* "Closed", "Open" or "HalfOpen"
    call    \* per lookup: where its call stands and the mode it was admitted in

avars == <<mode, call>>

Modes == {"Closed", "Open", "HalfOpen"}
Progress == {"none", "running", "ok", "failed", "done"}

Calls == [at : Progress, kind : Modes]
NoCall == [at |-> "none", kind |-> "Closed"]

ATypeOK ==
    /\ mode \in Modes
    /\ call \in [Lookups -> Calls]

AInit ==
    /\ mode = "Closed"
    /\ call = [l \in Lookups |-> NoCall]

\* A lookup is let through while the breaker is Closed or HalfOpen.
Admit(l) ==
    /\ mode # "Open"
    /\ call[l] = NoCall
    /\ call' = [call EXCEPT ![l] = [at |-> "running", kind |-> mode]]
    /\ UNCHANGED mode

\* A lookup finds the breaker Open and turns it into HalfOpen with itself as probe.
StartProbe(l) ==
    /\ mode = "Open"
    /\ call[l] = NoCall
    /\ mode' = "HalfOpen"
    /\ call' = [call EXCEPT ![l] = [at |-> "running", kind |-> "HalfOpen"]]

\* The wrapped resolver answers.
Answer(l) ==
    /\ call[l].at = "running"
    /\ \E verdict \in {"ok", "failed"} : call' = [call EXCEPT ![l].at = verdict]
    /\ UNCHANGED mode

\* The verdict of l, reached in mode kind, moves the breaker from kind to next.
Verdict(l, verdict, kind, next) ==
    /\ call[l] = [at |-> verdict, kind |-> kind]
    /\ mode = kind
    /\ mode' = next
    /\ call' = [call EXCEPT ![l].at = "done"]

Trip(l)    == Verdict(l, "failed", "Closed", "Open")
Reopen(l)  == Verdict(l, "failed", "HalfOpen", "Open")
Recover(l) == Verdict(l, "ok", "HalfOpen", "Closed")

\* The lookup returns; a verdict that came too late or counts for nothing is dropped.
Finish(l) ==
    /\ call[l].at \in {"ok", "failed", "done"}
    /\ call' = [call EXCEPT ![l] = NoCall]
    /\ UNCHANGED mode

ANext ==
    \E l \in Lookups :
        \/ Admit(l) \/ StartProbe(l) \/ Answer(l)
        \/ Trip(l) \/ Reopen(l) \/ Recover(l) \/ Finish(l)

ASpec == AInit /\ [][ANext]_avars
=============================================================================
