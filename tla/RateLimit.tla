------------------------------- MODULE RateLimit -------------------------------
(***************************************************************************)
(* RateLimitResolver.Lookup (ratelimit.go) over a rate.Limiter with a burst   *)
(* of one, which is external and modelled from how Lookup uses it.  A call    *)
(* reads the clock, then reserves under the limiter's lock, then waits for    *)
(* its slot: other calls run between any two of these.  Each goroutine makes  *)
(* one call; the limiter is what they share.                                  *)
(*                                                                         *)
(* Time is counted in ticks.  A token is worth Interval ticks, and the number *)
(* of tokens is counted in these.  Lag bounds the time from reading the clock *)
(* to the lock and the lateness of a timer, Arrivals when calls begin.        *)
(***************************************************************************)
EXTENDS Integers

CONSTANTS Calls, Interval, Lag, Arrivals

ASSUME TimeAssumption ==
    Interval \in Nat \ {0} /\ Lag \in Nat /\ Arrivals \in Nat

VARIABLES
    now,
    last, tokens, lastEvent,    \* rate.Limiter
    pc,         \* per call
    ended,      \* per call: has its context ended?
    stamp,      \* per call: the time it read last
    slot,       \* per call: timeToAct of its reservation, kept when it returns
    held,       \* history: the calls whose slot nobody else may use any more
    disordered  \* history: did a call reach the lock with a time before last?

limiter == <<last, tokens, lastEvent>>
vars == <<now, last, tokens, lastEvent, pc, ended, stamp, slot, held, disordered>>

TypeOK ==
    /\ now \in Nat /\ last \in Nat /\ lastEvent \in Nat
    /\ tokens \in Int /\ tokens <= Interval
    /\ pc \in [Calls -> {"idle", "reserve", "wait", "cancel", "passed", "refused"}]
    /\ ended \in [Calls -> BOOLEAN]
    /\ stamp \in [Calls -> Nat]
    /\ slot \in [Calls -> Nat]
    /\ held \in SUBSET Calls
    /\ disordered \in BOOLEAN

Init ==
    /\ now = 0 /\ last = 0 /\ lastEvent = 0
    /\ tokens = Interval
    /\ pc = [c \in Calls |-> "idle"]
    /\ ended = [c \in Calls |-> FALSE]
    /\ stamp = [c \in Calls |-> 0]
    /\ slot = [c \in Calls |-> 0]
    /\ held = {}
    /\ disordered = FALSE

Goto(c, point) == pc' = [pc EXCEPT ![c] = point]
ReadClock(c) == stamp' = [stamp EXCEPT ![c] = now]
ForgetClock(c) == stamp' = [stamp EXCEPT ![c] = 0]

Least(a, b) == IF a < b THEN a ELSE b

\* Limiter.advance: the tokens at time t, which may lie before last.
AdvancedUncapped(t) == IF t < last THEN tokens ELSE tokens + t - last
Advanced(t) == IF t < last THEN tokens ELSE Least(Interval, tokens + t - last)

------------------------------------------------------------------------------
Begin(c) ==
    /\ pc[c] = "idle" /\ now <= Arrivals
    /\ \/ ended[c] /\ Goto(c, "refused") /\ UNCHANGED stamp
       \/ ~ended[c] /\ Goto(c, "reserve") /\ ReadClock(c)
    /\ UNCHANGED <<now, limiter, ended, slot, held, disordered>>

\* ReserveN(now, 1), which always succeeds, and the test of the delay.
Reserve(c) ==
    LET t == stamp[c]
        left == Advanced(t) - Interval
        act == IF left < 0 THEN t - left ELSE t
    IN  /\ pc[c] = "reserve"
        /\ tokens' = left /\ last' = t /\ lastEvent' = act
        /\ slot' = [slot EXCEPT ![c] = act]
        /\ held' = held \cup {c}
        /\ disordered' = (disordered \/ t < last)
        /\ Goto(c, IF left < 0 THEN "wait" ELSE "passed")
        /\ ForgetClock(c)
        /\ UNCHANGED <<now, ended>>

\* The timer fires: the call goes on to the wrapped resolver.
Pass(c) ==
    /\ pc[c] = "wait" /\ now >= slot[c]
    /\ Goto(c, "passed")
    /\ UNCHANGED <<now, limiter, ended, stamp, slot, held, disordered>>

\* The context ends, perhaps while the timer fires too.
GiveUp(c) ==
    /\ pc[c] = "wait" /\ ended[c]
    /\ Goto(c, "cancel")
    /\ ReadClock(c)
    /\ UNCHANGED <<now, limiter, ended, slot, held, disordered>>

\* Reservation.CancelAt: what later reservations have claimed is not restored.
RestoredAlways(c) == Interval
Restored(c) == Interval - (lastEvent - slot[c])

RestoresNever(c) == FALSE
Restores(c) == slot[c] >= stamp[c] /\ Restored(c) > 0

\* The last slot of all can be used again, unless it is over.
Returnable(c) == slot[c] >= stamp[c] /\ \A d \in held : slot[d] <= slot[c]

Cancel(c) ==
    LET t == stamp[c]
        previous == slot[c] - Interval
    IN  /\ pc[c] = "cancel"
        /\ Goto(c, "refused")
        /\ \/ /\ Restores(c)
              /\ tokens' = Least(Interval, Advanced(t) + Restored(c))
              /\ last' = t
              /\ lastEvent' = IF slot[c] = lastEvent /\ previous >= t
                              THEN previous ELSE lastEvent
           \/ ~Restores(c) /\ UNCHANGED limiter
        /\ disordered' = (disordered \/ t < last)
        /\ held' = IF Returnable(c) THEN held \ {c} ELSE held
        /\ ForgetClock(c)
        /\ UNCHANGED <<now, ended, slot>>

EndContext(c) ==
    /\ pc[c] \in {"idle", "reserve", "wait"} /\ ~ended[c]
    /\ ended' = [ended EXCEPT ![c] = TRUE]
    /\ UNCHANGED <<now, limiter, pc, stamp, slot, held, disordered>>

Tick ==
    /\ now < Arrivals \/ \E c \in Calls : pc[c] \in {"reserve", "wait", "cancel"}
    /\ \A c \in Calls :
          /\ pc[c] \in {"reserve", "cancel"} => now < stamp[c] + Lag
          /\ pc[c] = "wait" => now < slot[c] + Lag
    /\ now' = now + 1
    /\ UNCHANGED <<limiter, pc, ended, stamp, slot, held, disordered>>

Step(c) == Begin(c) \/ Reserve(c) \/ Pass(c) \/ GiveUp(c) \/ Cancel(c)

Next == Tick \/ \E c \in Calls : Step(c) \/ EndContext(c)

Spec == Init /\ [][Next]_vars

------------------------------------------------------------------------------
\* Two slots that were not given back are an interval apart, however many
\* reservations were canceled in between, as long as the calls reach the lock in the
\* order in which they read the clock ("strict per-resolver QPS limiter").
Spaced ==
    ~disordered =>
        \A c, d \in held : c # d => slot[c] + Interval <= slot[d] \/ slot[d] + Interval <= slot[c]

\* A call waits for a reason: an interval before its slot there is another one, which
\* is in use or was canceled too late to be given back.
NoGap ==
    ~disordered =>
        \A c \in held : pc[c] = "wait" =>
            \E d \in held : slot[d] = slot[c] - Interval
================================================================================
