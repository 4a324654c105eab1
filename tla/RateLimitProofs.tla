--------------------------- MODULE RateLimitProofs ---------------------------
(***************************************************************************)
(* Proofs about RateLimit, for any calls, interval and delays: its type       *)
(* invariant, that slots are an interval apart, and that no call waits for    *)
(* nothing.                                                                *)
(*                                                                         *)
(* The argument follows one number: the time at which the limiter would have  *)
(* been empty had nobody come since.  A reservation moves it to its own slot, *)
(* and a cancellation that gives a slot back moves it an interval down.      *)
(***************************************************************************)
EXTENDS RateLimit, TLAPS

EmptyAt == last - tokens

\* Calls that wait or are about to cancel hold their slot; the ones that have not
\* reserved do not.
Holding ==
    \A c \in Calls :
        /\ pc[c] \in {"wait", "cancel"} => c \in held
        /\ pc[c] \in {"idle", "reserve"} => c \notin held

SlotsApart ==
    \A c, d \in held : c # d => slot[c] + Interval <= slot[d] \/ slot[d] + Interval <= slot[c]

\* As NoGap, and for a call about to cancel as well.
SlotsMeet ==
    \A c \in held : pc[c] \in {"wait", "cancel"} =>
        \E d \in held : slot[d] = slot[c] - Interval

\* The limiter's numbers and the slots that are held.
EmptyBound == \A d \in held : slot[d] <= EmptyAt
EventBound == \A d \in held : slot[d] = lastEvent \/ slot[d] + Interval <= lastEvent
EmptyIsHeld == EmptyAt + Interval <= last \/ \E d \in held : slot[d] = EmptyAt
EventIsHeld == lastEvent < last + Interval \/ \E d \in held : slot[d] = lastEvent

Limiter == EmptyBound /\ EventBound /\ EmptyIsHeld /\ EventIsHeld

IInv ==
    /\ TypeOK
    /\ Holding
    /\ ~disordered => SlotsApart /\ SlotsMeet /\ Limiter

Most(a, b) == IF a > b THEN a ELSE b

------------------------------------------------------------------------------
(* The limiter's arithmetic.                                                *)

\* What Advanced returns stays within the burst.
LEMMA AdvancedBound ==
    ASSUME TypeOK, NEW t \in Nat
    PROVE  /\ Advanced(t) \in Int /\ Advanced(t) <= Interval
           /\ last <= t => Advanced(t) = Least(Interval, t - EmptyAt)
<1>1. last \in Nat /\ tokens \in Int /\ tokens <= Interval /\ Interval \in Nat
  BY TimeAssumption DEF TypeOK
<1>. QED
  BY <1>1 DEF Advanced, Least, EmptyAt

\* A reservation gets the first slot that is not before its time and an interval after
\* the limiter was empty.
LEMMA ReserveSlot ==
    ASSUME TypeOK, NEW c \in Calls, Reserve(c), last <= stamp[c]
    PROVE  \E act \in Nat :
              /\ act = stamp[c] \/ act = EmptyAt + Interval
              /\ act >= stamp[c] /\ act >= EmptyAt + Interval
              /\ EmptyAt' = act /\ lastEvent' = act /\ last' = stamp[c]
              /\ slot' = [slot EXCEPT ![c] = act]
              /\ pc'[c] = "wait" => act = EmptyAt + Interval /\ act > stamp[c]
<1> DEFINE t == stamp[c]
           left == Advanced(t) - Interval
           act == IF left < 0 THEN t - left ELSE t
<1>1. t \in Nat /\ last \in Nat /\ tokens \in Int /\ Interval \in Nat
  BY TimeAssumption DEF TypeOK
<1>2. /\ Advanced(t) \in Int /\ Advanced(t) <= Interval
      /\ Advanced(t) = Least(Interval, t - EmptyAt)
  BY <1>1, AdvancedBound
<1>3. /\ tokens' = left /\ last' = t /\ lastEvent' = act
      /\ slot' = [slot EXCEPT ![c] = act]
      /\ pc' = [pc EXCEPT ![c] = IF left < 0 THEN "wait" ELSE "passed"]
  BY DEF Reserve, Goto
<1>4. EmptyAt \in Int
  BY <1>1 DEF EmptyAt
<1> HIDE DEF t
<1>5. left \in Int /\ left <= 0 /\ act = t - left
  BY <1>1, <1>2
<1>6. act \in Nat /\ act >= t /\ act >= EmptyAt + Interval
  BY <1>1, <1>2, <1>4, <1>5 DEF Least
<1>7. act = t \/ act = EmptyAt + Interval
  BY <1>1, <1>2, <1>4, <1>5 DEF Least
<1>8. EmptyAt' = act
  BY <1>1, <1>3, <1>5 DEF EmptyAt
<1>9. pc'[c] = "wait" => left < 0
  BY <1>3 DEF TypeOK
<1>10. left < 0 => act = EmptyAt + Interval /\ act > t
  BY <1>1, <1>5, <1>7
<1> HIDE DEF act, left
<1>. QED
  BY <1>3, <1>6, <1>7, <1>8, <1>9, <1>10 DEF t

\* A cancellation in order that restores tokens moves the emptiness back by what it
\* restores, but not further than an interval before its own time.
LEMMA CancelEmpty ==
    ASSUME TypeOK, NEW c \in Calls, last <= stamp[c], Restored(c) > 0,
           Restored(c) \in Int,
           last' = stamp[c],
           tokens' = Least(Interval, Advanced(stamp[c]) + Restored(c))
    PROVE  EmptyAt' = Most(stamp[c] - Interval, EmptyAt - Restored(c))
<1>1. stamp[c] \in Nat /\ last \in Nat /\ tokens \in Int /\ Interval \in Nat
  BY TimeAssumption DEF TypeOK
<1>2. Advanced(stamp[c]) = Least(Interval, stamp[c] - EmptyAt) /\ EmptyAt \in Int
  BY <1>1, AdvancedBound DEF EmptyAt
<1>3. EmptyAt' = stamp[c] - Least(Interval, Advanced(stamp[c]) + Restored(c))
  BY DEF EmptyAt
<1>4. \A w, t, e, r \in Int :
         r > 0 => t - Least(w, Least(w, t - e) + r) = Most(t - w, e - r)
  BY DEF Least, Most
<1>. QED
  BY <1>1, <1>2, <1>3, <1>4

------------------------------------------------------------------------------
(* Types.                                                                   *)

\* The types hold initially.
LEMMA TypeInit == Init => TypeOK
<1> SUFFICES ASSUME Init PROVE TypeOK
  OBVIOUS
<1>1. tokens \in Int /\ tokens <= Interval
  BY TimeAssumption DEF Init
<1>2. held \in SUBSET Calls
  BY DEF Init
<1>. QED
  BY <1>1, <1>2 DEF Init, TypeOK

\* What a call does to its own variables keeps their types.
LEMMA TypeStep == TypeOK /\ [Next]_vars => TypeOK'
<1> SUFFICES ASSUME TypeOK, [Next]_vars PROVE TypeOK'
  OBVIOUS
<1> USE TimeAssumption
<1>1. CASE Tick
  BY <1>1 DEF Tick, TypeOK, limiter
<1>2. ASSUME NEW c \in Calls, Begin(c) PROVE TypeOK'
  BY <1>2 DEF Begin, Goto, ReadClock, TypeOK, limiter
<1>3. ASSUME NEW c \in Calls, Reserve(c) PROVE TypeOK'
  <2> DEFINE t == stamp[c]
             left == Advanced(t) - Interval
             act == IF left < 0 THEN t - left ELSE t
  <2>1. t \in Nat /\ Interval \in Nat
    BY DEF TypeOK
  <2>2. Advanced(t) \in Int /\ Advanced(t) <= Interval
    BY <2>1, AdvancedBound
  <2>3. left \in Int /\ left <= Interval /\ act \in Nat
    BY <2>1, <2>2
  <2>4. /\ tokens' = left /\ last' = t /\ lastEvent' = act
        /\ slot' = [slot EXCEPT ![c] = act]
        /\ stamp' = [stamp EXCEPT ![c] = 0]
        /\ held' = held \cup {c}
        /\ pc' = [pc EXCEPT ![c] = IF left < 0 THEN "wait" ELSE "passed"]
        /\ UNCHANGED <<now, ended>>
    BY <1>3 DEF Reserve, Goto, ForgetClock
  <2>5. disordered' \in BOOLEAN
    BY <1>3 DEF Reserve, TypeOK
  <2> HIDE DEF t, left, act
  <2>. QED
    BY <2>1, <2>3, <2>4, <2>5 DEF TypeOK
<1>4. ASSUME NEW c \in Calls, Pass(c) PROVE TypeOK'
  BY <1>4 DEF Pass, Goto, TypeOK, limiter
<1>5. ASSUME NEW c \in Calls, GiveUp(c) PROVE TypeOK'
  BY <1>5 DEF GiveUp, Goto, ReadClock, TypeOK, limiter
<1>6. ASSUME NEW c \in Calls, Cancel(c) PROVE TypeOK'
  <2> DEFINE t == stamp[c]
             previous == slot[c] - Interval
  <2>1. t \in Nat /\ previous \in Int /\ Interval \in Nat
    BY DEF TypeOK
  <2>2. Advanced(t) \in Int /\ Restored(c) \in Int
    BY <2>1, AdvancedBound DEF Restored, TypeOK
  <2>3. /\ pc' = [pc EXCEPT ![c] = "refused"]
        /\ stamp' = [stamp EXCEPT ![c] = 0]
        /\ held' \in SUBSET Calls
        /\ UNCHANGED <<now, ended, slot>>
    BY <1>6 DEF Cancel, Goto, ForgetClock, TypeOK
  <2>4. disordered' \in BOOLEAN
    BY <1>6 DEF Cancel, TypeOK
  <2>5. last' \in Nat /\ lastEvent' \in Nat /\ tokens' \in Int /\ tokens' <= Interval
    <3>1. CASE UNCHANGED limiter
      BY <3>1 DEF limiter, TypeOK
    <3>2. CASE /\ tokens' = Least(Interval, Advanced(t) + Restored(c))
               /\ last' = t
               /\ lastEvent' = IF slot[c] = lastEvent /\ previous >= t
                               THEN previous ELSE lastEvent
      <4>1. lastEvent' \in Nat
        BY <2>1, <3>2 DEF TypeOK
      <4>2. tokens' \in Int /\ tokens' <= Interval
        BY <2>1, <2>2, <3>2 DEF Least
      <4>. QED
        BY <2>1, <3>2, <4>1, <4>2
    <3>. QED
      BY <1>6, <3>1, <3>2 DEF Cancel
  <2>. QED
    BY <2>3, <2>4, <2>5 DEF TypeOK
<1>7. ASSUME NEW c \in Calls, EndContext(c) PROVE TypeOK'
  BY <1>7 DEF EndContext, TypeOK, limiter
<1>8. CASE UNCHANGED vars
  BY <1>8 DEF TypeOK, vars, limiter
<1>. QED
  BY <1>1, <1>2, <1>3, <1>4, <1>5, <1>6, <1>7, <1>8 DEF Next, Step

------------------------------------------------------------------------------
(* Steps that touch neither the limiter nor the slots.                       *)

\* A step that only moves calls on keeps what is said of limiter and slots, if no call
\* begins to wait.
LEMMA QuietStep ==
    ASSUME IInv, UNCHANGED <<limiter, slot, held, disordered>>,
           \A c \in Calls : pc'[c] \in {"wait", "cancel"} => pc[c] \in {"wait", "cancel"},
           \A c \in Calls : pc'[c] \in {"idle", "reserve"} => pc[c] \in {"idle", "reserve"}
    PROVE  Holding' /\ (~disordered' => SlotsApart' /\ SlotsMeet' /\ Limiter')
<1>1. Holding'
  BY DEF IInv, Holding
<1>2. UNCHANGED EmptyAt
  BY DEF EmptyAt, limiter
<1>3. held \subseteq Calls
  BY DEF IInv, TypeOK
<1>4. SlotsApart => SlotsApart'
  BY DEF SlotsApart
<1>5. SlotsMeet => SlotsMeet'
  BY <1>3 DEF SlotsMeet
<1>6. Limiter => Limiter'
  BY <1>2 DEF Limiter, EmptyBound, EventBound, EmptyIsHeld, EventIsHeld, limiter
<1>. QED
  BY <1>1, <1>4, <1>5, <1>6 DEF IInv

\* As long as the calls are in order, this one's time is not before the limiter's.
LEMMA InOrder ==
    ASSUME TypeOK, NEW c \in Calls, Reserve(c) \/ Cancel(c), ~disordered'
    PROVE  ~disordered /\ last <= stamp[c]
<1>1. disordered' = (disordered \/ stamp[c] < last)
  BY Zenon DEF Reserve, Cancel
<1>2. ~disordered /\ ~(stamp[c] < last)
  BY <1>1, Zenon
<1>3. stamp[c] \in Nat /\ last \in Nat
  BY DEF TypeOK
<1>. QED
  BY <1>2, <1>3

------------------------------------------------------------------------------
(* A reservation.                                                           *)

\* A reservation keeps the invariant.
LEMMA ReserveKeeps ==
    ASSUME IInv, NEW c \in Calls, Reserve(c)
    PROVE  Holding' /\ (~disordered' => SlotsApart' /\ SlotsMeet' /\ Limiter')
<1>1. /\ TypeOK /\ held \subseteq Calls /\ c \notin held /\ pc[c] = "reserve"
      /\ held' = held \cup {c}
      /\ \A d \in Calls \ {c} : pc'[d] = pc[d]
      /\ pc'[c] \in {"wait", "passed"}
  BY DEF IInv, TypeOK, Holding, Reserve, Goto
<1>2. Holding'
  BY <1>1 DEF IInv, Holding
<1>3. ASSUME ~disordered' PROVE SlotsApart' /\ SlotsMeet' /\ Limiter'
  <2>1. ~disordered /\ last <= stamp[c]
    BY <1>1, <1>3, InOrder
  <2>2. SlotsApart /\ SlotsMeet /\ EmptyBound /\ EmptyIsHeld
    BY <2>1 DEF IInv, Limiter
  <2>3. PICK act \in Nat :
           /\ act = stamp[c] \/ act = EmptyAt + Interval
           /\ act >= stamp[c] /\ act >= EmptyAt + Interval
           /\ EmptyAt' = act /\ lastEvent' = act /\ last' = stamp[c]
           /\ slot' = [slot EXCEPT ![c] = act]
           /\ pc'[c] = "wait" => act = EmptyAt + Interval /\ act > stamp[c]
    BY <1>1, <2>1, ReserveSlot
  <2>4. /\ slot'[c] = act
        /\ \A d \in held : slot'[d] = slot[d] /\ slot[d] \in Nat
    BY <1>1, <2>3 DEF TypeOK
  <2>5. EmptyAt \in Int /\ Interval \in Nat \ {0} /\ last \in Nat /\ stamp[c] \in Nat
    BY <1>1, TimeAssumption DEF EmptyAt, TypeOK
  <2>6. \A d \in held : slot[d] + Interval <= act
    BY <2>2, <2>3, <2>4, <2>5 DEF EmptyBound
  <2>7. SlotsApart'
    BY <1>1, <2>2, <2>4, <2>6 DEF SlotsApart
  <2>8. EmptyBound'
    BY <1>1, <2>3, <2>4, <2>5, <2>6 DEF EmptyBound
  <2>9. EventBound'
    BY <1>1, <2>3, <2>4, <2>6 DEF EventBound
  <2>10. EmptyIsHeld' /\ EventIsHeld'
    BY <1>1, <2>3, <2>4 DEF EmptyIsHeld, EventIsHeld
  <2>11. SlotsMeet'
    <3>1. ASSUME NEW d \in held, pc'[d] \in {"wait", "cancel"}
          PROVE  \E e \in held' : slot'[e] = slot'[d] - Interval
      <4>1. PICK e \in held : slot[e] = slot[d] - Interval
        BY <1>1, <2>2, <3>1 DEF SlotsMeet
      <4>. QED
        BY <1>1, <2>4, <4>1
    <3>2. ASSUME pc'[c] = "wait"
          PROVE  \E e \in held' : slot'[e] = slot'[c] - Interval
      <4>1. act = EmptyAt + Interval /\ act > stamp[c]
        BY <2>3, <3>2
      <4>2. ~(EmptyAt + Interval <= last)
        BY <2>1, <2>5, <4>1
      <4>3. PICK e \in held : slot[e] = EmptyAt
        BY <2>2, <4>2 DEF EmptyIsHeld
      <4>. QED
        BY <1>1, <2>4, <2>5, <4>1, <4>3
    <3>. QED
      BY <1>1, <3>1, <3>2 DEF SlotsMeet
  <2>. QED
    BY <2>7, <2>8, <2>9, <2>10, <2>11 DEF Limiter
<1>. QED
  BY <1>2, <1>3

------------------------------------------------------------------------------
(* A cancellation.                                                          *)

\* In order, what can be given back is the last slot of all, and the limiter is empty
\* at that slot.
LEMMA ReturnableIsLast ==
    ASSUME TypeOK, NEW c \in held, last <= stamp[c], Limiter, Returnable(c)
    PROVE  slot[c] = lastEvent /\ slot[c] = EmptyAt
<1>1. /\ held \subseteq Calls /\ stamp[c] \in Nat /\ last \in Nat /\ lastEvent \in Nat
      /\ \A d \in held : slot[d] \in Nat
      /\ EmptyAt \in Int /\ Interval \in Nat \ {0}
  BY TimeAssumption DEF TypeOK, EmptyAt
<1>2. slot[c] >= stamp[c] /\ \A d \in held : slot[d] <= slot[c]
  BY DEF Returnable
<1>3. slot[c] = lastEvent
  <2>1. CASE lastEvent < last + Interval
    BY <1>1, <1>2, <2>1 DEF Limiter, EventBound
  <2>2. CASE \E d \in held : slot[d] = lastEvent
    <3>1. PICK d \in held : slot[d] = lastEvent
      BY <2>2
    <3>. QED
      BY <1>1, <1>2, <3>1 DEF Limiter, EventBound
  <2>. QED
    BY <2>1, <2>2 DEF Limiter, EventIsHeld
<1>4. slot[c] <= EmptyAt
  BY DEF Limiter, EmptyBound
<1>5. ~(EmptyAt + Interval <= last)
  BY <1>1, <1>2, <1>4
<1>6. PICK d \in held : slot[d] = EmptyAt
  BY <1>5 DEF Limiter, EmptyIsHeld
<1>. QED
  BY <1>1, <1>2, <1>3, <1>4, <1>6

\* In order, tokens are restored if and only if the slot can be given back.
LEMMA RestoresReturnable ==
    ASSUME TypeOK, NEW c \in held, last <= stamp[c], Limiter
    PROVE  /\ Restores(c) <=> Returnable(c)
           /\ Returnable(c) => Restored(c) = Interval
<1>1. /\ held \subseteq Calls /\ stamp[c] \in Nat /\ last \in Nat /\ lastEvent \in Nat
      /\ \A d \in held : slot[d] \in Nat
      /\ Interval \in Nat \ {0}
  BY TimeAssumption DEF TypeOK
<1>2. ASSUME Returnable(c) PROVE Restores(c) /\ Restored(c) = Interval
  BY <1>1, <1>2, ReturnableIsLast DEF Returnable, Restores, Restored
<1>3. ASSUME Restores(c) PROVE Returnable(c)
  <2>1. slot[c] >= stamp[c] /\ lastEvent - slot[c] < Interval
    BY <1>1, <1>3 DEF Restores, Restored
  <2>2. slot[c] = lastEvent
    BY <1>1, <2>1 DEF Limiter, EventBound
  <2>3. \A d \in held : slot[d] <= lastEvent
    BY <1>1 DEF Limiter, EventBound
  <2>. QED
    BY <2>1, <2>2, <2>3 DEF Returnable
<1>. QED
  BY <1>2, <1>3

\* Canceling a reservation keeps the invariant.
LEMMA CancelKeeps ==
    ASSUME IInv, NEW c \in Calls, Cancel(c)
    PROVE  Holding' /\ (~disordered' => SlotsApart' /\ SlotsMeet' /\ Limiter')
<1>1. /\ TypeOK /\ held \subseteq Calls /\ c \in held /\ pc[c] = "cancel"
      /\ held' = (IF Returnable(c) THEN held \ {c} ELSE held)
      /\ \A d \in Calls \ {c} : pc'[d] = pc[d]
      /\ pc'[c] = "refused" /\ slot' = slot
  BY DEF IInv, TypeOK, Holding, Cancel, Goto
<1>2. Holding'
  BY <1>1 DEF IInv, Holding
<1>3. ASSUME ~disordered' PROVE SlotsApart' /\ SlotsMeet' /\ Limiter'
  <2>1. ~disordered /\ last <= stamp[c]
    BY <1>1, <1>3, InOrder
  <2>2. SlotsApart /\ SlotsMeet /\ Limiter
    BY <2>1 DEF IInv
  <2>3. /\ Restores(c) <=> Returnable(c)
        /\ Returnable(c) => Restored(c) = Interval
    BY <1>1, <2>1, <2>2, RestoresReturnable
  <2>4. SlotsApart'
    BY <1>1, <2>2 DEF SlotsApart
  <2>5. CASE ~Returnable(c)
    <3>1. UNCHANGED <<limiter, held, slot>>
      BY <1>1, <2>3, <2>5 DEF Cancel
    <3>2. SlotsMeet'
      BY <1>1, <2>2, <3>1 DEF SlotsMeet
    <3>3. UNCHANGED EmptyAt
      BY <3>1 DEF EmptyAt, limiter
    <3>4. Limiter'
      BY <2>2, <3>1, <3>3 DEF Limiter, EmptyBound, EventBound, EmptyIsHeld, EventIsHeld,
                              limiter
    <3>. QED
      BY <2>4, <3>2, <3>4
  <2>6. CASE Returnable(c)
    <3> DEFINE previous == slot[c] - Interval
    <3>1. /\ \A d \in held : slot[d] \in Nat
          /\ stamp[c] \in Nat /\ Interval \in Nat \ {0} /\ last \in Nat
          /\ EmptyAt \in Int
      BY <1>1, TimeAssumption DEF TypeOK, EmptyAt
    <3>2. /\ slot[c] >= stamp[c] /\ \A d \in held : slot[d] <= slot[c]
          /\ slot[c] = lastEvent /\ slot[c] = EmptyAt
      BY <1>1, <2>1, <2>2, <2>6, ReturnableIsLast DEF Returnable
    <3>3. /\ tokens' = Least(Interval, Advanced(stamp[c]) + Restored(c))
          /\ last' = stamp[c]
          /\ lastEvent' = IF previous >= stamp[c] THEN previous ELSE slot[c]
          /\ held' = held \ {c}
      BY <1>1, <2>3, <2>6, <3>2 DEF Cancel
    <3>4. EmptyAt' = previous
      <4>1. EmptyAt' = Most(stamp[c] - Interval, EmptyAt - Interval)
        BY <1>1, <2>1, <2>3, <2>6, <3>1, <3>3, CancelEmpty
      <4>. QED
        BY <3>1, <3>2, <4>1 DEF Most
    <3>5. PICK e \in held' : slot[e] = previous
      <4>1. PICK e \in held : slot[e] = previous
        BY <1>1, <2>2 DEF SlotsMeet
      <4>. QED
        BY <3>1, <3>3, <4>1
    <3>6. \A d \in held' : slot[d] <= previous
      BY <1>1, <2>2, <3>1, <3>2, <3>3 DEF SlotsApart
    <3>7. \A d \in held' : slot[d] = previous \/ slot[d] + Interval <= previous
      BY <2>2, <3>1, <3>3, <3>5, <3>6 DEF SlotsApart
    <3> HIDE DEF previous
    <3>8. EmptyBound'
      BY <1>1, <3>4, <3>6 DEF EmptyBound
    <3>9. EventBound'
      <4>1. CASE lastEvent' = previous
        BY <1>1, <3>7, <4>1 DEF EventBound
      <4>2. CASE lastEvent' = slot[c]
        BY <1>1, <3>1, <3>6, <4>2 DEF EventBound, previous
      <4>. QED
        BY <3>3, <4>1, <4>2
    <3>10. EmptyIsHeld'
      BY <1>1, <3>4, <3>5 DEF EmptyIsHeld
    <3>11. EventIsHeld'
      <4>1. CASE lastEvent' = previous
        BY <1>1, <3>5, <4>1 DEF EventIsHeld
      <4>2. CASE lastEvent' = slot[c] /\ ~(previous >= stamp[c])
        BY <1>1, <3>1, <3>3, <4>2 DEF EventIsHeld, previous
      <4>. QED
        BY <3>3, <4>1, <4>2
    <3>12. SlotsMeet'
      <4>1. SUFFICES ASSUME NEW d \in held', pc'[d] \in {"wait", "cancel"}
                     PROVE  \E f \in held' : slot'[f] = slot'[d] - Interval
        BY DEF SlotsMeet
      <4>2. d \in held /\ d # c /\ pc[d] \in {"wait", "cancel"}
        BY <1>1, <3>3, <4>1
      <4>3. PICK f \in held : slot[f] = slot[d] - Interval
        BY <2>2, <4>2 DEF SlotsMeet
      <4>4. f # c
        BY <3>1, <3>2, <4>2, <4>3
      <4>. QED
        BY <1>1, <3>3, <4>3, <4>4
    <3>. QED
      BY <2>4, <3>8, <3>9, <3>10, <3>11, <3>12 DEF Limiter
  <2>. QED
    BY <2>5, <2>6
<1>. QED
  BY <1>2, <1>3

------------------------------------------------------------------------------
(* The invariant and what it implies.                                       *)

\* The inductive invariant holds initially.
THEOREM IInvInit == Init => IInv
<1> SUFFICES ASSUME Init PROVE IInv
  OBVIOUS
<1>1. TypeOK
  BY TypeInit
<1>2. Holding
  BY DEF Init, Holding
<1>3. SlotsApart /\ SlotsMeet /\ EmptyBound /\ EventBound
  BY DEF Init, SlotsApart, SlotsMeet, EmptyBound, EventBound
<1>4. EmptyIsHeld /\ EventIsHeld
  BY TimeAssumption DEF Init, EmptyIsHeld, EventIsHeld, EmptyAt
<1>. QED
  BY <1>1, <1>2, <1>3, <1>4 DEF IInv, Limiter

\* Every step of the calls and of the clock keeps the inductive invariant.
THEOREM IInvStep == IInv /\ [Next]_vars => IInv'
<1> SUFFICES ASSUME IInv, [Next]_vars PROVE IInv'
  OBVIOUS
<1>1. TypeOK /\ TypeOK'
  BY TypeStep DEF IInv
<1>2. CASE Tick
  BY <1>1, <1>2, QuietStep DEF Tick, IInv
<1>3. ASSUME NEW c \in Calls, Begin(c) PROVE IInv'
  BY <1>1, <1>3, QuietStep DEF Begin, Goto, IInv, TypeOK
<1>4. ASSUME NEW c \in Calls, Reserve(c) PROVE IInv'
  BY <1>1, <1>4, ReserveKeeps DEF IInv
<1>5. ASSUME NEW c \in Calls, Pass(c) PROVE IInv'
  BY <1>1, <1>5, QuietStep DEF Pass, Goto, IInv, TypeOK
<1>6. ASSUME NEW c \in Calls, GiveUp(c) PROVE IInv'
  BY <1>1, <1>6, QuietStep DEF GiveUp, Goto, IInv, TypeOK
<1>7. ASSUME NEW c \in Calls, Cancel(c) PROVE IInv'
  BY <1>1, <1>7, CancelKeeps DEF IInv
<1>8. ASSUME NEW c \in Calls, EndContext(c) PROVE IInv'
  BY <1>1, <1>8, QuietStep DEF EndContext, IInv
<1>9. CASE UNCHANGED vars
  BY <1>1, <1>9, QuietStep DEF vars, limiter, IInv
<1>. QED
  BY <1>2, <1>3, <1>4, <1>5, <1>6, <1>7, <1>8, <1>9 DEF Next, Step

\* The inductive invariant holds of every execution of the rate limiter.
THEOREM Invariance == Spec => []IInv
  BY IInvInit, IInvStep, PTL DEF Spec

\* The variables of the rate limiter keep their types; the limiter never holds more
\* than one token.
THEOREM TypeCorrect == Spec => []TypeOK
<1>1. IInv => TypeOK
  BY DEF IInv
<1>. QED
  BY <1>1, Invariance, PTL

\* Slots that were not given back are an interval apart, for any number of calls,
\* whatever cancellations there were.
THEOREM Spacing == Spec => []Spaced
<1>1. IInv => Spaced
  BY DEF IInv, Spaced, SlotsApart
<1>. QED
  BY <1>1, Invariance, PTL

\* A call waits only because the slot an interval earlier is taken.
THEOREM NoIdleWait == Spec => []NoGap
<1>1. IInv => NoGap
  BY DEF IInv, NoGap, SlotsMeet
<1>. QED
  BY <1>1, Invariance, PTL
==============================================================================
