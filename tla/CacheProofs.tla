----------------------------- MODULE CacheProofs -----------------------------
(***************************************************************************)
(* Proofs about CacheResolver, for any number of lookups and any lifetime:    *)
(* its type invariant, that the wrapped resolver is asked for what the cache  *)
(* has only if others stored it meanwhile, that messages are not shared, and  *)
(* that no waiter is forgotten.                                             *)
(***************************************************************************)
EXTENDS CacheResolver, FiniteSetTheorems, TLAPS

\* Where the flight is says what it has: from the end of the fetch on, a result.
FlightOK ==
    /\ flight.at = "none" => flight = NoFlight
    /\ flight.at = "set" => flight.result.kind = "ok" /\ flight.result.msg # Nil
    /\ flight.at = "finish" => flight.result.kind # "none"

IInv ==
    /\ TypeOK
    /\ FlightOK
    /\ FetchOnlyMissing
    /\ Isolation
    /\ NobodyForgotten

------------------------------------------------------------------------------
(* There is always an object that nobody refers to.                          *)

\* There are more objects than the lookups, the entry and the flight can refer to.
LEMMA ObjectsCount ==
    /\ IsFiniteSet(Objects)
    /\ Cardinality(Objects) = 2 * Cardinality(Lookups) + 3
    /\ Nil \notin Objects
<1>1. Cardinality(Lookups) \in Nat
  BY LookupsAssumption, FS_CardinalityType
<1>2. 2 * Cardinality(Lookups) + 3 \in Nat
  BY <1>1
<1>. QED
  BY <1>1, <1>2, FS_Interval DEF Objects, Nil

\* A union has at most as many elements as its parts together.
LEMMA UnionBound ==
    ASSUME NEW S, NEW T, IsFiniteSet(S), IsFiniteSet(T)
    PROVE  IsFiniteSet(S \cup T) /\ Cardinality(S \cup T) <= Cardinality(S) + Cardinality(T)
<1>1. IsFiniteSet(S \cap T)
  BY FS_Intersection
<1>2. Cardinality(S) \in Nat /\ Cardinality(T) \in Nat /\ Cardinality(S \cap T) \in Nat
  BY <1>1, FS_CardinalityType
<1>3. /\ IsFiniteSet(S \cup T)
      /\ Cardinality(S \cup T) = Cardinality(S) + Cardinality(T) - Cardinality(S \cap T)
  BY FS_Union
<1>. QED
  BY <1>2, <1>3

\* How many objects can be referred to at once.
LEMMA InUseCount ==
    /\ IsFiniteSet(InUse)
    /\ Cardinality(InUse) <= 2 * Cardinality(Lookups) + 2
<1> DEFINE own == {entry.msg, flight.result.msg}
           mails == {mail[l].msg : l \in Lookups}
           gots == {got[l].msg : l \in Lookups}
<1>1. IsFiniteSet(own) /\ Cardinality(own) <= 2
  <2>1. IsFiniteSet({entry.msg}) /\ Cardinality({entry.msg}) = 1
    BY FS_Singleton
  <2>2. own = {entry.msg} \cup {flight.result.msg}
    OBVIOUS
  <2>. QED
    BY <2>1, <2>2, FS_AddElement
<1>2. IsFiniteSet(mails) /\ Cardinality(mails) <= Cardinality(Lookups)
  <2> DEFINE f == [l \in Lookups |-> mail[l].msg]
  <2>1. f \in Surjection(Lookups, mails)
    BY DEF Surjection
  <2>. QED
    BY <2>1, LookupsAssumption, FS_Surjection
<1>3. IsFiniteSet(gots) /\ Cardinality(gots) <= Cardinality(Lookups)
  <2> DEFINE f == [l \in Lookups |-> got[l].msg]
  <2>1. f \in Surjection(Lookups, gots)
    BY DEF Surjection
  <2>. QED
    BY <2>1, LookupsAssumption, FS_Surjection
<1> HIDE DEF own, mails, gots
<1>4. /\ IsFiniteSet(own \cup mails)
      /\ Cardinality(own \cup mails) <= Cardinality(own) + Cardinality(mails)
  BY <1>1, <1>2, UnionBound
<1>5. /\ IsFiniteSet((own \cup mails) \cup gots)
      /\ Cardinality((own \cup mails) \cup gots) <= Cardinality(own \cup mails) + Cardinality(gots)
  BY <1>3, <1>4, UnionBound
<1>6. InUse = (own \cup mails) \cup gots
  BY DEF InUse, own, mails, gots
<1>. QED
  BY <1>1, <1>2, <1>3, <1>4, <1>5, <1>6, LookupsAssumption, FS_CardinalityType

\* A copy is an object that nobody refers to.
LEMMA NewIsFree == New \in Objects /\ New \notin InUse /\ New # Nil
<1>1. Cardinality(Lookups) \in Nat
  BY LookupsAssumption, FS_CardinalityType
<1>2. ~(Objects \subseteq InUse)
  <2>1. SUFFICES ASSUME Objects \subseteq InUse PROVE FALSE
    OBVIOUS
  <2>2. Cardinality(Objects) <= Cardinality(InUse)
    BY <2>1, InUseCount, FS_Subset
  <2>. QED
    BY <1>1, <2>2, ObjectsCount, InUseCount, FS_CardinalityType
<1>3. \E m \in Objects : m \notin InUse
  BY <1>2
<1>4. New \in Objects /\ New \notin InUse
  BY <1>3 DEF New
<1>. QED
  BY <1>4, ObjectsCount

------------------------------------------------------------------------------
(* Types and shared flights.                                                *)

\* A copy of a message is one again.
LEMMA CopyType ==
    ASSUME NEW m \in Objects \cup {Nil}
    PROVE  /\ Copy(m) \in Objects \cup {Nil}
           /\ m # Nil => Copy(m) = New /\ Copy(m) # Nil
           /\ Copy(m) = Nil \/ Copy(m) \notin InUse
  BY NewIsFree DEF Copy

\* The invariant holds initially.
LEMMA InitOK == Init => IInv
<1> SUFFICES ASSUME Init PROVE IInv
  OBVIOUS
<1>1. NoResult \in Results /\ NoEntry \in [msg : Objects \cup {Nil}, left : 0..TTL]
  BY TTLAssumption DEF NoResult, NoEntry, Results, Kinds
<1>2. TypeOK
  BY <1>1 DEF Init, TypeOK, NoFlight, NewFlight, NoResult
<1>3. FlightOK /\ FetchOnlyMissing
  BY DEF Init, FlightOK, FetchOnlyMissing, NoFlight, NewFlight
<1>4. Isolation /\ NobodyForgotten
  BY DEF Init, Isolation, NobodyForgotten, NoResult
<1>. QED
  BY <1>2, <1>3, <1>4 DEF IInv

\* The types of what steps exchange.
EntryType == entry \in [msg : Objects \cup {Nil}, left : 0..TTL]
FlightType ==
    flight \in [at : {"none", "check", "remove", "fetch", "set", "finish"},
                owner : Lookups \cup {"none"}, live : BOOLEAN, result : Results,
                overtaken : BOOLEAN]
CallsType ==
    /\ joined \in SUBSET Lookups
    /\ pc \in [Lookups -> {"idle", "get", "remove", "join", "wait", "done"}]
    /\ ctx \in [Lookups -> BOOLEAN]
    /\ mail \in [Lookups -> Results]
    /\ got \in [Lookups -> Results]
    /\ \A l \in Lookups : got[l].kind = "ok" => got[l].msg # Nil

\* The type invariant, by the part of the state that it is about.
LEMMA TypeParts == TypeOK <=> EntryType /\ FlightType /\ CallsType
  BY DEF TypeOK, EntryType, FlightType, CallsType

\* Every step keeps the type of the entry.
LEMMA EntryStep == IInv /\ [Next]_vars => EntryType'
<1> SUFFICES ASSUME IInv, [Next]_vars PROVE EntryType'
  OBVIOUS
<1>1. EntryType /\ FlightType /\ CallsType /\ FlightOK
  BY TypeParts DEF IInv
<1>2. NoEntry \in [msg : Objects \cup {Nil}, left : 0..TTL]
  BY TTLAssumption DEF NoEntry
<1>3. ASSUME UNCHANGED entry PROVE EntryType'
  BY <1>1, <1>3 DEF EntryType
<1>4. ASSUME Remove PROVE EntryType'
  BY <1>2, <1>4 DEF Remove, EntryType
<1>5. ASSUME NEW m \in Objects \cup {Nil}, Store(m) PROVE EntryType'
  <2>1. Copy(m) \in Objects \cup {Nil}
    BY CopyType
  <2>2. [msg |-> Copy(m), left |-> TTL] \in [msg : Objects \cup {Nil}, left : 0..TTL]
    BY <2>1, TTLAssumption
  <2>. QED
    BY <1>5, <2>2 DEF Store, EntryType
<1>6. ASSUME FlightSet \/ OthersSet PROVE EntryType'
  <2>1. flight.result.msg \in Objects \cup {Nil} /\ New \in Objects \cup {Nil}
    BY <1>1, NewIsFree DEF FlightType, Results
  <2>. QED
    BY <1>3, <1>6, <1>5, <2>1 DEF FlightSet, Set, OthersSet
<1>7. ASSUME Tick PROVE EntryType'
  <2>1. entry.left \in 1..TTL
    BY <1>1, <1>7 DEF Tick, EntryType
  <2>2. entry.left - 1 \in 0..TTL
    BY <2>1, TTLAssumption
  <2>. QED
    BY <1>1, <1>7, <2>2 DEF Tick, EntryType
<1>8. ASSUME NEW l \in Lookups, Step(l) \/ CallAgain(l) \/ EndContext(l) PROVE EntryType'
  BY <1>3, <1>4, <1>8
  DEF Step, Begin, Get, GetRemove, Join, WaitEnded, Receive, CallAgain, EndContext
<1>9. ASSUME FlightStep PROVE EntryType'
  BY <1>3, <1>4, <1>6, <1>9
  DEF FlightStep, FlightCheck, FlightRemove, FlightFetch, FlightFinish
<1>10. ASSUME Evict PROVE EntryType'
  BY <1>4, <1>10 DEF Evict
<1>. QED
  BY <1>3, <1>6, <1>7, <1>8, <1>9, <1>10 DEF Next, vars

\* A flight that gets a result is at a later point, with this result.
LEMMA FlightUpdate ==
    ASSUME FlightType, NEW kind \in Kinds \ {"none"}, NEW m \in Objects \cup {Nil},
           NEW point \in {"set", "finish"}, FlightResult(kind, m, point),
           point = "set" => kind = "ok" /\ m # Nil
    PROVE  FlightType' /\ FlightOK'
<1> DEFINE r == [kind |-> kind, msg |-> m]
<1>1. r \in Results /\ r.kind = kind /\ r.msg = m
  BY DEF Results
<1> HIDE DEF r
<1>2. flight' = [flight EXCEPT !.at = point, !.result = r]
  BY DEF FlightResult, r
<1>3. FlightType'
  BY <1>1, <1>2 DEF FlightType
<1>4. flight'.at = point /\ flight'.result = r
  BY <1>2 DEF FlightType
<1>. QED
  BY <1>1, <1>3, <1>4 DEF FlightOK

\* Every step keeps the type of the flight and what its goroutine holds.
LEMMA FlightKept == IInv /\ [Next]_vars => FlightType' /\ FlightOK'
<1> SUFFICES ASSUME IInv, [Next]_vars PROVE FlightType' /\ FlightOK'
  OBVIOUS
<1>1. EntryType /\ FlightType /\ CallsType /\ FlightOK
  BY TypeParts DEF IInv
<1>2. NoResult \in Results /\ {"ok", "failed", "ctx"} \subseteq Kinds \ {"none"}
  BY DEF NoResult, Results, Kinds
<1>3. ASSUME UNCHANGED flight PROVE FlightType' /\ FlightOK'
  BY <1>1, <1>3 DEF FlightType, FlightOK
<1>4. ASSUME flight' = NoFlight PROVE FlightType' /\ FlightOK'
  BY <1>2, <1>4 DEF FlightType, FlightOK, NoFlight, NewFlight
<1>5. ASSUME NEW l \in Lookups, Join(l) PROVE FlightType' /\ FlightOK'
  <2>1. CASE flight' = NewFlight("check", l, ctx[l])
    BY <1>1, <1>2, <2>1 DEF NewFlight, FlightType, FlightOK, CallsType
  <2>. QED
    BY <1>3, <1>5, <2>1 DEF Join
<1>6. ASSUME NEW l \in Lookups, EndContext(l) PROVE FlightType' /\ FlightOK'
  <2>1. CASE flight.owner = l /\ flight' = [flight EXCEPT !.live = FALSE]
    <3>1. flight.owner # "none" \/ flight.at # "none" \/ flight = NoFlight
      BY <1>1 DEF FlightOK
    <3>2. CASE flight.at # "none"
      BY <1>1, <2>1, <3>2 DEF FlightType, FlightOK
    <3>3. CASE flight.at = "none"
      <4>1. flight = NoFlight
        BY <1>1, <3>3 DEF FlightOK
      <4>2. flight' = NoFlight
        BY <2>1, <4>1 DEF NoFlight, NewFlight
      <4>. QED
        BY <1>4, <4>2
    <3>. QED
      BY <3>2, <3>3
  <2>. QED
    BY <1>3, <1>6, <2>1 DEF EndContext
<1>7. ASSUME FlightCheck PROVE FlightType' /\ FlightOK'
  <2>1. CASE Fresh /\ FlightResult("ok", Copy(entry.msg), "finish")
    <3>1. Copy(entry.msg) \in Objects \cup {Nil}
      BY <1>1, CopyType DEF EntryType
    <3>. QED
      BY <1>1, <1>2, <2>1, <3>1, FlightUpdate
  <2>2. CASE FlightGoto("remove") \/ FlightGoto("fetch")
    BY <1>1, <1>2, <2>2 DEF FlightOK, FlightGoto, FlightType
  <2>. QED
    BY <1>7, <2>1, <2>2 DEF FlightCheck
<1>8. ASSUME FlightRemove PROVE FlightType' /\ FlightOK'
  BY <1>1, <1>8 DEF FlightRemove, FlightOK, FlightGoto, FlightType
<1>9. ASSUME FlightFetch PROVE FlightType' /\ FlightOK'
  <2>1. ASSUME NEW m \in {Nil, New}, Normalized("ok", m) = "ok", FlightResult("ok", m, "set")
        PROVE  FlightType' /\ FlightOK'
    <3>1. m # Nil /\ m \in Objects \cup {Nil}
      BY <2>1, NewIsFree DEF Normalized
    <3>. QED
      BY <1>1, <1>2, <2>1, <3>1, FlightUpdate
  <2>2. ASSUME NEW m \in {Nil, New}, FlightResult("failed", m, "finish")
        PROVE  FlightType' /\ FlightOK'
    <3>1. m \in Objects \cup {Nil}
      BY NewIsFree
    <3>. QED
      BY <1>1, <1>2, <2>2, <3>1, FlightUpdate
  <2>3. CASE FlightResult("ctx", Nil, "finish")
    BY <1>1, <1>2, <2>3, FlightUpdate
  <2>. QED
    BY <1>9, <2>1, <2>2, <2>3 DEF FlightFetch
<1>10. ASSUME FlightSet PROVE FlightType' /\ FlightOK'
  BY <1>1, <1>10 DEF FlightSet, FlightOK, FlightGoto, FlightType
<1>11. ASSUME FlightFinish PROVE FlightType' /\ FlightOK'
  BY <1>4, <1>11 DEF FlightFinish
<1>12. ASSUME NEW l \in Lookups, Step(l) \/ CallAgain(l) PROVE FlightType' /\ FlightOK'
  BY <1>3, <1>5, <1>12 DEF Step, Begin, Get, GetRemove, WaitEnded, Receive, CallAgain
<1>13. ASSUME Tick \/ Evict \/ UNCHANGED vars PROVE FlightType' /\ FlightOK'
  BY <1>3, <1>13 DEF Tick, Evict, vars
<1>14. ASSUME OthersSet PROVE FlightType' /\ FlightOK'
  <2>1. CASE flight.at = "fetch"
    BY <1>1, <1>14, <2>1 DEF OthersSet, FlightType, FlightOK
  <2>2. CASE flight.at # "fetch"
    <3>1. flight' = flight
      BY <1>1, <1>14, <2>2 DEF OthersSet, FlightType
    <3>. QED
      BY <1>3, <3>1
  <2>. QED
    BY <2>1, <2>2
<1>. QED
  BY <1>6, <1>7, <1>8, <1>9, <1>10, <1>11, <1>12, <1>13, <1>14 DEF Next, FlightStep

\* Every step keeps the types of the lookups.
LEMMA CallsStep == IInv /\ [Next]_vars => CallsType'
<1> SUFFICES ASSUME IInv, [Next]_vars PROVE CallsType'
  OBVIOUS
<1>1. EntryType /\ FlightType /\ CallsType
  BY TypeParts DEF IInv
<1>2. NoResult \in Results /\ NoResult.kind # "ok" /\ {"ok", "failed", "ctx"} \subseteq Kinds
  BY DEF NoResult, Results, Kinds
<1>3. ASSUME NEW l \in Lookups, Begin(l) \/ GetRemove(l) \/ Join(l) PROVE CallsType'
  BY <1>1, <1>3 DEF Begin, GetRemove, Join, Goto, CallsType
<1>4. ASSUME NEW l \in Lookups, NEW kind \in Kinds, NEW m \in Objects \cup {Nil},
             kind = "ok" => m # Nil, Return(l, kind, m),
             joined' \in SUBSET Lookups, mail' \in [Lookups -> Results], ctx' = ctx
      PROVE  CallsType'
  BY <1>1, <1>4 DEF Return, Goto, CallsType, Results
<1>5. ASSUME NEW l \in Lookups, Get(l) PROVE CallsType'
  <2>1. CASE Fresh /\ Return(l, "ok", Copy(entry.msg))
    <3>1. Copy(entry.msg) \in Objects \cup {Nil} /\ Copy(entry.msg) # Nil
      BY <1>1, <2>1, CopyType DEF EntryType, Fresh, Stored
    <3>. QED
      BY <1>1, <1>2, <1>4, <1>5, <2>1, <3>1 DEF Get, CallsType
  <2>2. CASE (Goto(l, "remove") \/ Goto(l, "join")) /\ UNCHANGED got
    BY <1>1, <1>5, <2>2 DEF Get, Goto, CallsType
  <2>. QED
    BY <1>5, <2>1, <2>2 DEF Get
<1>6. ASSUME NEW l \in Lookups, WaitEnded(l) PROVE CallsType'
  <2>1. mail' \in [Lookups -> Results] /\ joined' \in SUBSET Lookups
    BY <1>1, <1>2, <1>6 DEF WaitEnded, CallsType
  <2>. QED
    BY <1>2, <1>4, <1>6, <2>1 DEF WaitEnded
<1>7. ASSUME NEW l \in Lookups, Receive(l) PROVE CallsType'
  <2>1. mail' \in [Lookups -> Results] /\ joined' \in SUBSET Lookups
    BY <1>1, <1>2, <1>7 DEF Receive, CallsType
  <2>2. mail[l].kind \in Kinds /\ mail[l].msg \in Objects \cup {Nil}
    BY <1>1 DEF CallsType, Results
  <2>3. Deliver(mail[l].msg) \in Objects \cup {Nil}
        /\ (mail[l].msg # Nil => Deliver(mail[l].msg) # Nil)
    BY <2>2, CopyType DEF Deliver
  <2>4. /\ Normalized(mail[l].kind, mail[l].msg) \in Kinds
        /\ Normalized(mail[l].kind, mail[l].msg) = "ok" => mail[l].msg # Nil
    BY <1>2, <2>2 DEF Normalized
  <2>. QED
    BY <1>4, <1>7, <2>1, <2>3, <2>4 DEF Receive
<1>8. ASSUME NEW l \in Lookups, CallAgain(l) PROVE CallsType'
  BY <1>1, <1>2, <1>8 DEF CallAgain, Goto, CallsType
<1>9. ASSUME NEW l \in Lookups, EndContext(l) PROVE CallsType'
  BY <1>1, <1>9 DEF EndContext, CallsType
<1>10. ASSUME FlightFinish PROVE CallsType'
  <2>1. flight.result \in Results
    BY <1>1 DEF FlightType
  <2>. QED
    BY <1>1, <1>10, <2>1 DEF FlightFinish, CallsType
<1>11. ASSUME UNCHANGED <<joined, pc, ctx, mail, got>> PROVE CallsType'
  BY <1>1, <1>11 DEF CallsType
<1>12. ASSUME FlightStep \/ Tick \/ Evict \/ OthersSet \/ UNCHANGED vars PROVE CallsType'
  BY <1>10, <1>11, <1>12
  DEF FlightStep, FlightCheck, FlightRemove, FlightFetch, FlightSet, Tick, Evict, OthersSet, vars
<1>. QED
  BY <1>3, <1>5, <1>6, <1>7, <1>8, <1>9, <1>12 DEF Next, Step

\* Every step keeps the types.
LEMMA TypeStep == IInv /\ [Next]_vars => TypeOK' /\ FlightOK'
<1> SUFFICES ASSUME IInv, [Next]_vars PROVE TypeOK' /\ FlightOK'
  OBVIOUS
<1>1. EntryType' /\ FlightType' /\ FlightOK' /\ CallsType'
  BY EntryStep, FlightKept, CallsStep
<1>. QED
  BY <1>1 DEF TypeOK, EntryType, FlightType, CallsType

------------------------------------------------------------------------------
(* The wrapped resolver is asked for what the cache has only if others stored  *)
(* it during the fetch.                                                     *)

\* No step starts a fetch while a fresh entry is there, and of those that store one
\* during a fetch only that of others leaves the flight where it is.
LEMMA FetchStep == IInv /\ [Next]_vars => FetchOnlyMissing'
<1> SUFFICES ASSUME IInv, [Next]_vars PROVE FetchOnlyMissing'
  OBVIOUS
<1>1. EntryType /\ FlightType /\ FetchOnlyMissing
  BY TypeParts DEF IInv
<1>2. ASSUME entry' = NoEntry PROVE FetchOnlyMissing'
  BY <1>2 DEF NoEntry, FetchOnlyMissing, Fresh, Stored
<1>3. ASSUME flight'.at # "fetch" PROVE FetchOnlyMissing'
  BY <1>3 DEF FetchOnlyMissing
<1>4. ASSUME entry' = entry, flight'.at = flight.at, flight'.overtaken = flight.overtaken
      PROVE  FetchOnlyMissing'
  BY <1>1, <1>4 DEF FetchOnlyMissing, Fresh, Stored
<1>5. ASSUME NEW l \in Lookups, Join(l) PROVE FetchOnlyMissing'
  BY <1>3, <1>4, <1>5 DEF Join, NewFlight
<1>6. ASSUME NEW l \in Lookups, EndContext(l) PROVE FetchOnlyMissing'
  <2>1. flight'.at = flight.at /\ flight'.overtaken = flight.overtaken
    BY <1>1, <1>6 DEF EndContext, FlightType
  <2>. QED
    BY <1>4, <1>6, <2>1 DEF EndContext
<1>7. ASSUME NEW l \in Lookups, Step(l) \/ CallAgain(l) PROVE FetchOnlyMissing'
  BY <1>2, <1>4, <1>5, <1>7
  DEF Step, Begin, Get, GetRemove, Remove, WaitEnded, Receive, CallAgain
<1>8. ASSUME FlightCheck PROVE FetchOnlyMissing'
  <2>1. CASE FlightResult("ok", Copy(entry.msg), "finish") \/ FlightGoto("remove")
    BY <1>1, <1>3, <2>1 DEF FlightResult, FlightGoto, FlightType
  <2>2. CASE ~Stored
    BY <1>8, <2>2 DEF FlightCheck, FetchOnlyMissing, Fresh, Stored
  <2>. QED
    BY <1>8, <2>1, <2>2 DEF FlightCheck
<1>9. ASSUME FlightFetch \/ FlightSet PROVE FetchOnlyMissing'
  <2>1. flight'.at # "fetch"
    BY <1>1, <1>9 DEF FlightFetch, FlightSet, FlightResult, FlightGoto, FlightType
  <2>. QED
    BY <1>3, <2>1
<1>10. ASSUME FlightFinish \/ FlightRemove PROVE FetchOnlyMissing'
  BY <1>2, <1>3, <1>10 DEF FlightFinish, NoFlight, NewFlight, FlightRemove, Remove
<1>11. ASSUME Tick PROVE FetchOnlyMissing'
  <2>1. entry'.msg = entry.msg /\ entry.left > 0
    BY <1>1, <1>11 DEF Tick, EntryType
  <2>. QED
    BY <1>1, <1>11, <2>1 DEF Tick, FetchOnlyMissing, Fresh, Stored
<1>12. ASSUME Evict \/ UNCHANGED vars PROVE FetchOnlyMissing'
  BY <1>2, <1>4, <1>12 DEF Evict, Remove, vars
<1>13. ASSUME OthersSet PROVE FetchOnlyMissing'
  <2>1. flight'.at = flight.at /\ (flight.at = "fetch" => flight'.overtaken)
    BY <1>1, <1>13 DEF OthersSet, FlightType
  <2>. QED
    BY <2>1 DEF FetchOnlyMissing
<1>. QED
  BY <1>6, <1>7, <1>8, <1>9, <1>10, <1>11, <1>12, <1>13 DEF Next, FlightStep

------------------------------------------------------------------------------
(* Messages are not shared.                                                 *)

\* No call gets a message; cache and flight may get a new one, channels that of the
\* flight.
LEMMA OthersGet ==
    ASSUME Isolation,
           \A l \in Lookups : got'[l].msg \in {Nil, got[l].msg},
           entry'.msg \in {Nil, New, entry.msg},
           flight'.result.msg \in {Nil, New, flight.result.msg},
           \A l \in Lookups : mail'[l].msg \in {Nil, mail[l].msg, flight.result.msg}
    PROVE  Isolation'
<1>1. \A l \in Lookups : got[l].msg # New
  BY NewIsFree DEF InUse
<1>. QED
  BY <1>1 DEF Isolation

\* One call returns a new message, or none.
LEMMA CallGets ==
    ASSUME TypeOK, Isolation, NEW l \in Lookups, NEW kind, NEW m \in {Nil, New},
           Return(l, kind, m), UNCHANGED <<entry, flight>>,
           \A k \in Lookups : mail'[k].msg \in {Nil, mail[k].msg}
    PROVE  Isolation'
<1>1. /\ New \notin {entry.msg, flight.result.msg}
      /\ \A k \in Lookups : New # mail[k].msg /\ New # got[k].msg
  BY NewIsFree DEF InUse
<1>2. New # Nil
  BY NewIsFree
<1>3. got'[l].msg = m /\ \A k \in Lookups \ {l} : got'[k] = got[k]
  BY DEF Return, TypeOK
<1>. QED
  BY <1>1, <1>2, <1>3 DEF Isolation

\* No step hands out an object that somebody else refers to.
LEMMA IsolationStep == IInv /\ [Next]_vars => Isolation'
<1> SUFFICES ASSUME IInv, [Next]_vars PROVE Isolation'
  OBVIOUS
<1>1. EntryType /\ FlightType /\ CallsType /\ FlightOK /\ TypeOK /\ Isolation
  BY TypeParts DEF IInv
<1>2. NoResult.msg = Nil /\ NoEntry.msg = Nil /\ NoFlight.result.msg = Nil
  BY DEF NoResult, NoEntry, NoFlight, NewFlight
<1>3. \A m \in Objects \cup {Nil} : Copy(m) \in {Nil, New}
  BY DEF Copy
<1>4. /\ entry.msg \in Objects \cup {Nil} /\ flight.result.msg \in Objects \cup {Nil}
      /\ \A l \in Lookups : mail[l].msg \in Objects \cup {Nil}
  BY <1>1 DEF EntryType, FlightType, CallsType, Results
<1>5. ASSUME UNCHANGED <<got, mail>>, entry'.msg \in {Nil, New, entry.msg},
             flight'.result.msg \in {Nil, New, flight.result.msg}
      PROVE  Isolation'
  BY <1>1, <1>5, OthersGet
<1>6. ASSUME NEW l \in Lookups, Begin(l) \/ GetRemove(l) PROVE Isolation'
  BY <1>2, <1>5, <1>6 DEF Begin, GetRemove, Remove
<1>7. ASSUME NEW l \in Lookups, Get(l) PROVE Isolation'
  <2>1. CASE Return(l, "ok", Copy(entry.msg))
    BY <1>1, <1>3, <1>4, <1>7, <2>1, CallGets DEF Get
  <2>. QED
    BY <1>5, <1>7, <2>1 DEF Get
<1>8. ASSUME NEW l \in Lookups, Join(l) PROVE Isolation'
  BY <1>2, <1>5, <1>8 DEF Join, NewFlight
<1>9. ASSUME NEW l \in Lookups, WaitEnded(l) PROVE Isolation'
  <2>1. \A k \in Lookups : mail'[k].msg \in {Nil, mail[k].msg}
    BY <1>1, <1>2, <1>9 DEF WaitEnded, CallsType
  <2>. QED
    BY <1>1, <1>9, <2>1, CallGets DEF WaitEnded
<1>10. ASSUME NEW l \in Lookups, Receive(l) PROVE Isolation'
  <2>1. \A k \in Lookups : mail'[k].msg \in {Nil, mail[k].msg}
    BY <1>1, <1>2, <1>10 DEF Receive, CallsType
  <2>2. Deliver(mail[l].msg) \in {Nil, New}
    BY <1>3, <1>4 DEF Deliver
  <2>. QED
    BY <1>1, <1>10, <2>1, <2>2, CallGets DEF Receive
<1>11. ASSUME NEW l \in Lookups, CallAgain(l) PROVE Isolation'
  <2>1. \A k \in Lookups : got'[k].msg \in {Nil, got[k].msg}
    BY <1>1, <1>2, <1>11 DEF CallAgain, CallsType
  <2>. QED
    BY <1>1, <1>11, <2>1, OthersGet DEF CallAgain
<1>12. ASSUME NEW l \in Lookups, EndContext(l) PROVE Isolation'
  <2>1. flight'.result = flight.result
    BY <1>1, <1>12 DEF EndContext, FlightType
  <2>. QED
    BY <1>5, <1>12, <2>1 DEF EndContext
<1>13. ASSUME FlightCheck \/ FlightRemove \/ FlightFetch \/ FlightSet PROVE Isolation'
  <2>1. entry'.msg \in {Nil, New, entry.msg}
    BY <1>2, <1>3, <1>4, <1>13
    DEF FlightCheck, FlightRemove, FlightFetch, FlightSet, Remove, Set, Store
  <2>2. flight'.result.msg \in {Nil, New, flight.result.msg}
    <3>1. ASSUME NEW kind, NEW m, NEW point, FlightResult(kind, m, point)
          PROVE  flight'.result.msg = m
      BY <1>1, <3>1 DEF FlightResult, FlightType
    <3>2. ASSUME NEW point, FlightGoto(point) PROVE flight'.result.msg = flight.result.msg
      BY <1>1, <3>2 DEF FlightGoto, FlightType
    <3>3. CASE FlightCheck
      BY <1>3, <1>4, <3>1, <3>2, <3>3 DEF FlightCheck
    <3>4. CASE FlightFetch
      BY <3>1, <3>4 DEF FlightFetch
    <3>. QED
      BY <1>13, <3>2, <3>3, <3>4 DEF FlightRemove, FlightSet
  <2>. QED
    BY <1>5, <1>13, <2>1, <2>2 DEF FlightCheck, FlightRemove, FlightFetch, FlightSet
<1>14. ASSUME FlightFinish PROVE Isolation'
  <2>1. /\ \A l \in Lookups : mail'[l].msg \in {Nil, mail[l].msg, flight.result.msg}
        /\ flight'.result.msg = Nil
    BY <1>2, <1>14 DEF FlightFinish
  <2>. QED
    BY <1>1, <1>14, <2>1, OthersGet DEF FlightFinish
<1>15. ASSUME Tick \/ Evict \/ UNCHANGED vars PROVE Isolation'
  <2>1. entry'.msg \in {Nil, New, entry.msg}
    BY <1>1, <1>2, <1>15 DEF Tick, Evict, Remove, vars, EntryType
  <2>. QED
    BY <1>5, <1>15, <2>1 DEF Tick, Evict, vars
<1>16. ASSUME OthersSet PROVE Isolation'
  <2>1. entry'.msg \in {Nil, New, entry.msg}
    BY <1>3, <1>16, NewIsFree DEF OthersSet, Store
  <2>2. flight'.result = flight.result
    BY <1>1, <1>16 DEF OthersSet, FlightType
  <2>. QED
    BY <1>5, <1>16, <2>1, <2>2 DEF OthersSet
<1>. QED
  BY <1>6, <1>7, <1>8, <1>9, <1>10, <1>11, <1>12, <1>13, <1>14, <1>15, <1>16
  DEF Next, Step, FlightStep

------------------------------------------------------------------------------
(* No waiter is forgotten.                                                  *)

\* No step loses a lookup that waits for a flight.
LEMMA WaitersStep == IInv /\ [Next]_vars => NobodyForgotten'
<1> SUFFICES ASSUME IInv, [Next]_vars PROVE NobodyForgotten'
  OBVIOUS
<1>1. FlightType /\ CallsType /\ FlightOK /\ NobodyForgotten
  BY TypeParts DEF IInv
<1>2. flight # NoFlight => flight.at # "none"
  BY <1>1 DEF FlightOK
<1>3. flight'.at # "none" => flight' # NoFlight
  BY DEF NoFlight, NewFlight
\* The waiters stay as they are and the flight, if any, goes on.
<1>4. ASSUME NEW k \in Lookups,
             pc'[k] = "wait" => pc[k] = "wait" /\ mail'[k] = mail[k] /\ (k \in joined => k \in joined'),
             flight # NoFlight => flight' # NoFlight
      PROVE  pc'[k] = "wait" => mail'[k] # NoResult \/ (k \in joined' /\ flight' # NoFlight)
  BY <1>1, <1>4 DEF NobodyForgotten
<1>5. ASSUME NEW l \in Lookups,
             Begin(l) \/ Get(l) \/ GetRemove(l) \/ WaitEnded(l) \/ Receive(l) \/ CallAgain(l)
      PROVE  NobodyForgotten'
  <2>1. /\ flight' = flight
        /\ pc'[l] # "wait" /\ \A k \in Lookups \ {l} :
              pc'[k] = pc[k] /\ mail'[k] = mail[k] /\ (k \in joined => k \in joined')
    BY <1>1, <1>5
    DEF Begin, Get, GetRemove, WaitEnded, Receive, CallAgain, Return, Goto, CallsType
  <2>. QED
    BY <1>4, <2>1 DEF NobodyForgotten
<1>6. ASSUME NEW l \in Lookups, Join(l) PROVE NobodyForgotten'
  <2>1. flight' # NoFlight
    BY <1>3, <1>6 DEF Join, NewFlight
  <2>2. /\ l \in joined'
        /\ \A k \in Lookups \ {l} :
              pc'[k] = pc[k] /\ mail'[k] = mail[k] /\ (k \in joined => k \in joined')
    BY <1>1, <1>6 DEF Join, Goto, CallsType
  <2>. QED
    BY <1>4, <2>1, <2>2 DEF NobodyForgotten
<1>7. ASSUME NEW l \in Lookups, EndContext(l) PROVE NobodyForgotten'
  <2>1. flight # NoFlight => flight'.at # "none"
    BY <1>1, <1>2, <1>7 DEF EndContext, FlightType
  <2>. QED
    BY <1>3, <1>4, <1>7, <2>1 DEF EndContext, NobodyForgotten
<1>8. ASSUME FlightCheck \/ FlightRemove \/ FlightFetch \/ FlightSet PROVE NobodyForgotten'
  <2>1. flight'.at # "none" /\ UNCHANGED <<joined, pc, mail>>
    BY <1>1, <1>8
    DEF FlightCheck, FlightRemove, FlightFetch, FlightSet, FlightGoto, FlightResult, FlightType
  <2>. QED
    BY <1>3, <1>4, <2>1 DEF NobodyForgotten
<1>9. ASSUME FlightFinish PROVE NobodyForgotten'
  <2>1. flight.result # NoResult
    BY <1>1, <1>9 DEF FlightFinish, FlightOK, NoResult
  <2>. QED
    BY <1>1, <1>9, <2>1 DEF FlightFinish, NobodyForgotten
<1>10. ASSUME Tick \/ Evict \/ UNCHANGED vars PROVE NobodyForgotten'
  BY <1>4, <1>10 DEF Tick, Evict, vars, NobodyForgotten
<1>11. ASSUME OthersSet PROVE NobodyForgotten'
  <2>1. (flight # NoFlight => flight'.at # "none") /\ UNCHANGED <<joined, pc, mail>>
    BY <1>1, <1>2, <1>11 DEF OthersSet, FlightType
  <2>. QED
    BY <1>3, <1>4, <2>1 DEF NobodyForgotten
<1>. QED
  BY <1>5, <1>6, <1>7, <1>8, <1>9, <1>10, <1>11 DEF Next, Step, FlightStep

------------------------------------------------------------------------------
(* The theorems.                                                            *)

\* Every step of the cache keeps the inductive invariant.
THEOREM IInvStep == IInv /\ [Next]_vars => IInv'
  BY TypeStep, FetchStep, IsolationStep, WaitersStep DEF IInv

\* The inductive invariant holds of every execution of the cache.
THEOREM Invariance == Spec => []IInv
  BY InitOK, IInvStep, PTL DEF Spec

\* The cache, its flight and its calls keep their types; a lookup that returns without
\* an error returns a message.
THEOREM TypeCorrect == Spec => []TypeOK
<1>1. IInv => TypeOK
  BY DEF IInv
<1>. QED
  BY <1>1, Invariance, PTL

\* The second check of the cache spares every fetch that the resolver's own flights can
\* spare, however many lookups there are: while one fetches, only others of the cache
\* can have stored a fresh answer.
THEOREM FetchNeeded == Spec => []FetchOnlyMissing
<1>1. IInv => FetchOnlyMissing
  BY DEF IInv
<1>. QED
  BY <1>1, Invariance, PTL

\* A message returned is never shared: the copies made are enough.
THEOREM MessagesIsolated == Spec => []Isolation
<1>1. IInv => Isolation
  BY DEF IInv
<1>. QED
  BY <1>1, Invariance, PTL

\* Whoever waits has an answer in its channel or is known to a flight.
THEOREM WaitersKnown == Spec => []NobodyForgotten
<1>1. IInv => NobodyForgotten
  BY DEF IInv
<1>. QED
  BY <1>1, Invariance, PTL
==============================================================================
