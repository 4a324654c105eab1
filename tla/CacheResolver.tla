----------------------------- MODULE CacheResolver -----------------------------
(***************************************************************************)
(* CacheResolver over memLRU (cache.go), for the lookups of one name and    *)
(* type: the check of the cache, the shared flight that fetches from the    *)
(* wrapped resolver once for all who wait, the second check inside the      *)
(* flight, and the copies of the message at each change of owner.           *)
(*                                                                         *)
(* Abstractions.                                                           *)
(*  - memLRU.Get reads the entry and the clock in one action; removing an   *)
(*    expired entry is a second action, as in the code.                    *)
(*  - A message is the identity of its Go object: Copy allocates an object  *)
(*    that nobody refers to.  A cached response lives TTL ticks.            *)
(*  - Capacity: the keys of other lookups evict the entry at any time.      *)
(*  - The cache may be shared: DefaultMemCache is that of every Default()    *)
(*    chain, each with flights of its own, and anybody may call Set.  They   *)
(*    store a response under the key at any time.                           *)
(*  - singleflight is an external library: DoChan starts one flight per key *)
(*    in a goroutine of its own or joins the one under way; the end of the  *)
(*    flight forgets the key and sends the result to all who joined.        *)
(***************************************************************************)
EXTENDS Naturals, FiniteSets

CONSTANTS
    Lookups,    \* goroutines that call Lookup for the key
    TTL         \* ticks a response may be cached

ASSUME TTLAssumption == TTL \in Nat \ {0}
ASSUME LookupsAssumption == IsFiniteSet(Lookups)

VARIABLES
    entry,      \* the cache entry of the key: its message and the ticks left
    flight,     \* the flight under way: its next step, the lookup that started
                \* it, whether that lookup's context is live, its result, and
                \* (history) whether others filled the cache during its fetch
    joined,     \* lookups waiting for the flight
    pc,         \* per lookup
    ctx,        \* per lookup: is its context live?
    mail,       \* per lookup: the result in its channel
    got         \* per lookup: what Lookup returned

vars == <<entry, flight, joined, pc, ctx, mail, got>>

Nil == 0
Objects == 1..(2 * Cardinality(Lookups) + 3)

Kinds == {"none", "ok", "failed", "ctx"}
Results == [kind : Kinds, msg : Objects \cup {Nil}]
NoResult == [kind |-> "none", msg |-> Nil]

NoEntry == [msg |-> Nil, left |-> 0]
NewFlight(point, owner, live) ==
    [at |-> point, owner |-> owner, live |-> live, result |-> NoResult, overtaken |-> FALSE]
NoFlight == NewFlight("none", "none", FALSE)

TypeOK ==
    /\ entry \in [msg : Objects \cup {Nil}, left : 0..TTL]
    /\ flight \in [at : {"none", "check", "remove", "fetch", "set", "finish"},
                   owner : Lookups \cup {"none"}, live : BOOLEAN, result : Results,
                   overtaken : BOOLEAN]
    /\ joined \in SUBSET Lookups
    /\ pc \in [Lookups -> {"idle", "get", "remove", "join", "wait", "done"}]
    /\ ctx \in [Lookups -> BOOLEAN]
    /\ mail \in [Lookups -> Results]
    /\ got \in [Lookups -> Results]
    /\ \A l \in Lookups :       \* a nil error comes with a response
          got[l].kind = "ok" => got[l].msg # Nil

Init ==
    /\ entry = NoEntry
    /\ flight = NoFlight
    /\ joined = {}
    /\ pc = [l \in Lookups |-> "idle"]
    /\ ctx = [l \in Lookups |-> TRUE]
    /\ mail = [l \in Lookups |-> NoResult]
    /\ got = [l \in Lookups |-> NoResult]

------------------------------------------------------------------------------
(* Messages.                                                                *)

InUse ==
    {entry.msg, flight.result.msg}
        \cup {mail[l].msg : l \in Lookups} \cup {got[l].msg : l \in Lookups}

New == CHOOSE m \in Objects : m \notin InUse

\* Msg.Copy of a message, nil included.
Copy(m) == IF m = Nil THEN Nil ELSE New

\* normalizeLookupResult: no response and no error is an error.
NormalizedNot(kind, m) == kind
Normalized(kind, m) == IF kind = "ok" /\ m = Nil THEN "failed" ELSE kind

------------------------------------------------------------------------------
(* memLRU.                                                                  *)

Stored == entry.msg # Nil
Fresh == Stored /\ entry.left > 0
Expired == Stored /\ entry.left = 0

Remove == entry' = NoEntry

Store(m) == entry' = [msg |-> Copy(m), left |-> TTL]

\* Set copies the response, unless it is one that must not be cached.
Set(m) ==
    \/ m # Nil /\ Store(m)
    \/ UNCHANGED entry

------------------------------------------------------------------------------
(* Lookup.                                                                  *)

Goto(l, point) == pc' = [pc EXCEPT ![l] = point]

Return(l, kind, m) ==
    /\ Goto(l, "done")
    /\ got' = [got EXCEPT ![l] = [kind |-> kind, msg |-> m]]

Begin(l) ==
    /\ pc[l] = "idle"
    /\ Goto(l, "get")
    /\ UNCHANGED <<entry, flight, joined, ctx, mail, got>>

Get(l) ==
    /\ pc[l] = "get"
    /\ \/ Fresh /\ Return(l, "ok", Copy(entry.msg))
       \/ Expired /\ Goto(l, "remove") /\ UNCHANGED got
       \/ ~Stored /\ Goto(l, "join") /\ UNCHANGED got
    /\ UNCHANGED <<entry, flight, joined, ctx, mail>>

\* Removes whatever the key holds by now.
GetRemove(l) ==
    /\ pc[l] = "remove"
    /\ Remove
    /\ Goto(l, "join")
    /\ UNCHANGED <<flight, joined, ctx, mail, got>>

\* sfGroup.DoChan
Join(l) ==
    /\ pc[l] = "join"
    /\ Goto(l, "wait")
    /\ joined' = joined \cup {l}
    /\ \/ /\ flight = NoFlight
          /\ flight' = NewFlight("check", l, ctx[l])
       \/ /\ flight # NoFlight
          /\ UNCHANGED flight
    /\ UNCHANGED <<entry, ctx, mail, got>>

\* The two cases of the select.
WaitEnded(l) ==
    /\ pc[l] = "wait"
    /\ ~ctx[l]
    /\ Return(l, "ctx", Nil)
    /\ joined' = joined \ {l}
    /\ mail' = [mail EXCEPT ![l] = NoResult]
    /\ UNCHANGED <<entry, flight, ctx>>

DeliverShared(m) == m
Deliver(m) == Copy(m)

Receive(l) ==
    /\ pc[l] = "wait"
    /\ mail[l] # NoResult
    /\ Return(l, Normalized(mail[l].kind, mail[l].msg), Deliver(mail[l].msg))
    /\ mail' = [mail EXCEPT ![l] = NoResult]
    /\ UNCHANGED <<entry, flight, joined, ctx>>

------------------------------------------------------------------------------
(* The function the flight runs, with the context of the lookup that started *)
(* it.                                                                      *)

FlightGoto(point) == flight' = [flight EXCEPT !.at = point]
FlightResult(kind, m, point) ==
    flight' = [flight EXCEPT !.at = point, !.result = [kind |-> kind, msg |-> m]]

FlightCheckSkipped ==
    /\ flight.at = "check"
    /\ FlightGoto("fetch")
    /\ UNCHANGED <<entry, joined, pc, ctx, mail, got>>

FlightCheck ==
    /\ flight.at = "check"
    /\ \/ Fresh /\ FlightResult("ok", Copy(entry.msg), "finish")
       \/ Expired /\ FlightGoto("remove")
       \/ ~Stored /\ FlightGoto("fetch")
    /\ UNCHANGED <<entry, joined, pc, ctx, mail, got>>

FlightRemove ==
    /\ flight.at = "remove"
    /\ Remove
    /\ FlightGoto("fetch")
    /\ UNCHANGED <<joined, pc, ctx, mail, got>>

\* The wrapped resolver answers: a response, an error with or without a response,
\* or the error of the context it was given.
FlightFetch ==
    /\ flight.at = "fetch"
    /\ \/ \E m \in {Nil, New} :
             \/ Normalized("ok", m) = "ok" /\ FlightResult("ok", m, "set")
             \/ FlightResult("failed", m, "finish")
       \/ ~flight.live /\ FlightResult("ctx", Nil, "finish")
    /\ UNCHANGED <<entry, joined, pc, ctx, mail, got>>

FlightSet ==
    /\ flight.at = "set"
    /\ Set(flight.result.msg)
    /\ FlightGoto("finish")
    /\ UNCHANGED <<joined, pc, ctx, mail, got>>

FlightFinishOwnerOnly ==
    /\ flight.at = "finish"
    /\ mail' = [l \in Lookups |-> IF l = flight.owner /\ l \in joined
                                  THEN flight.result ELSE mail[l]]
    /\ joined' = {}
    /\ flight' = NoFlight
    /\ UNCHANGED <<entry, pc, ctx, got>>

FlightFinish ==
    /\ flight.at = "finish"
    /\ mail' = [l \in Lookups |-> IF l \in joined THEN flight.result ELSE mail[l]]
    /\ joined' = {}
    /\ flight' = NoFlight
    /\ UNCHANGED <<entry, pc, ctx, got>>

------------------------------------------------------------------------------
(* Environment.                                                             *)

CallAgain(l) ==
    /\ pc[l] = "done"
    /\ Goto(l, "idle")
    /\ got' = [got EXCEPT ![l] = NoResult]
    /\ ctx' = [ctx EXCEPT ![l] = TRUE]
    /\ UNCHANGED <<entry, flight, joined, mail>>

EndContext(l) ==
    /\ pc[l] \notin {"idle", "done"}
    /\ ctx[l]
    /\ ctx' = [ctx EXCEPT ![l] = FALSE]
    /\ flight' = IF flight.owner = l THEN [flight EXCEPT !.live = FALSE] ELSE flight
    /\ UNCHANGED <<entry, joined, pc, mail, got>>

Tick ==
    /\ entry.left > 0
    /\ entry' = [entry EXCEPT !.left = @ - 1]
    /\ UNCHANGED <<flight, joined, pc, ctx, mail, got>>

Evict ==
    /\ Stored
    /\ Remove
    /\ UNCHANGED <<flight, joined, pc, ctx, mail, got>>

\* Set by another resolver on the same cache, or by the user.
OthersSet ==
    /\ Store(New)
    /\ flight' = [flight EXCEPT !.overtaken = @ \/ flight.at = "fetch"]
    /\ UNCHANGED <<joined, pc, ctx, mail, got>>

Step(l) == Begin(l) \/ Get(l) \/ GetRemove(l) \/ Join(l) \/ WaitEnded(l) \/ Receive(l)
FlightStep == FlightCheck \/ FlightRemove \/ FlightFetch \/ FlightSet \/ FlightFinish

Next ==
    \/ \E l \in Lookups : Step(l) \/ CallAgain(l) \/ EndContext(l)
    \/ FlightStep \/ Tick \/ Evict \/ OthersSet

Spec == Init /\ [][Next]_vars

------------------------------------------------------------------------------
(* Safety.                                                                  *)

\* The wrapped resolver is asked for what the cache has only when others, who share
\* the cache but not the flight, stored it after the flight's own check: whatever the
\* resolver's flights stored between a lookup's miss and its turn to fetch is found.
FetchOnlyMissing == flight.at = "fetch" /\ Fresh => flight.overtaken

\* A returned message is the caller's own: nobody else returned it, and neither
\* the cache, nor the flight, nor another waiter's channel refers to it.
Isolation ==
    \A l \in Lookups : got[l].msg # Nil =>
        /\ got[l].msg \notin {entry.msg, flight.result.msg}
        /\ \A m \in Lookups : got[l].msg # mail[m].msg
        /\ \A m \in Lookups \ {l} : got[l].msg # got[m].msg

\* A waiting lookup is always about to be answered: by its channel, or by a flight
\* that knows of it.
NobodyForgotten ==
    \A l \in Lookups : pc[l] = "wait" =>
        mail[l] # NoResult \/ (l \in joined /\ flight # NoFlight)

\* A lookup fails with a context error only when its own context has ended (error
\* matrix of contracts/resolver-api.md).
OwnContextOnly ==
    \A l \in Lookups : pc[l] = "done" /\ got[l].kind = "ctx" => ~ctx[l]

================================================================================
