------------------------------ MODULE Resolution ------------------------------
(***************************************************************************)
(* One call through FollowCnameResolver (cname.go) over FallbackResolver      *)
(* (recursive.go), whose primary is a base transport (module Exchange) and    *)
(* whose secondary is the recursive resolver, which asks its servers over     *)
(* UDP and TCP through RetryResolver and LoadBalanceResolver.                 *)
(*                                                                         *)
(* Abstractions.                                                           *)
(*  - Other recursive lookups of the process are an environment: all they     *)
(*    share with the call is cacheForRecursive and rootResolvers.  They put   *)
(*    what this call would put into the cache (SuccessComplete).              *)
(*  - Only the entry of the name and type asked for now is kept.              *)
(*  - Which of the final messages memLRU.Set takes is left open (CacheTTL).   *)
(*  - A server list is a sequence of servers and the array behind it.         *)
(*  - A request whose context has ended may still succeed.                    *)
(***************************************************************************)
EXTENDS Exchange, Naturals, Functions

CONSTANTS
    RootServers,    \* rootResolvers, a sequence
    Zones,          \* the server lists the zone database may lead to
    Malformed,      \* server names NewResolver rejects
    MaxDepth,       \* defaultRecursiveMaxDepth
    MaxHops         \* FollowCnameResolver.maxDepth

\* The reply of recursiveLookup for a name that is in no public zone.
NoSuchZone ==
    [echo |-> "same", rcode |-> "nx", tc |-> FALSE, aa |-> FALSE, target |-> FALSE,
     alias |-> FALSE, others |-> FALSE, ns |-> <<>>, apex |-> FALSE, soa |-> FALSE]

ASSUME NoSuchZoneAssumption == NoSuchZone \in Messages
ASSUME ServerAssumption == RootServers \in Seq(STRING) /\ Zones \subseteq Seq(STRING)
ASSUME DepthAssumption == MaxDepth \in Nat \ {0} /\ MaxHops \in Nat

VARIABLES
    pc, ended,      \* where the call stands; has its context ended?
    base, qtype,    \* the primary transport and the type asked for
    hops,           \* FollowCnameResolver: depth
    depth, tries,   \* recursiveLookup and RetryResolver: loop variables
    resolvers,      \* recursiveLookup: the servers to ask
    array,          \* the array behind this list: "own" or that of "roots"
    roots,          \* rootResolvers
    asked,          \* the server of the query in progress
    lastResponse,   \* recursiveLookup: the last referral
    cached,         \* cacheForRecursive: the entry, or NoMessage
    reply           \* response and error in hand, at last what the call returns

descent == <<depth, tries, resolvers, array, asked, lastResponse>>
call == <<ended, base, qtype>>
vars == <<exchangeVars, pc, ended, base, qtype, hops, depth, tries, resolvers, array,
          roots, asked, lastResponse, cached, reply>>

Followed == {"A"}           \* A, AAAA and PTR
Types == Followed \cup {"NS", "SOA", "TXT"}
Transports == {"dns", "doh", "json"}
CallErrors == Errors \cup {"ended", "noResolver", "maxDepth", "cnameDepth"}

Init ==
    /\ ExchangeInit
    /\ pc = "follow" /\ ended \in BOOLEAN
    /\ base \in Transports /\ qtype \in Types
    /\ hops = 0 /\ roots = RootServers /\ cached = NoMessage
    /\ depth = 0 /\ tries = 0 /\ resolvers = <<>> /\ array = "own"
    /\ asked = NoMessage /\ lastResponse = NoMessage
    /\ reply = Outcome(NoMessage, "nil")

Goto(point) == pc' = point

\* The secondary or the primary returns; the locals go out of scope.
Deliver(resp, err) ==
    /\ reply' = Outcome(resp, err)
    /\ Goto("judge")
    /\ depth' = 0 /\ tries' = 0 /\ resolvers' = <<>> /\ array' = "own"
    /\ asked' = NoMessage /\ lastResponse' = NoMessage

\* isTerminalNegative.
TerminalNegative(m) ==
    \/ m.rcode = "nx"
    \/ qtype # "SOA" /\ ~(m.target \/ m.alias \/ m.others) /\ m.soa

Final(m) == m.aa \/ TerminalNegative(m)

------------------------------------------------------------------------------
(* FollowCnameResolver.lookup and FallbackResolver.Lookup.                   *)

\* The primary is asked.
Follow ==
    /\ pc = "follow"
    /\ Ask(base)
    /\ Goto("primary")
    /\ UNCHANGED <<call, hops, descent, roots, cached, reply>>

PrimaryDone ==
    /\ pc = "primary" /\ step = "done"
    /\ Taken
    /\ \/ out.err = "nil" /\ Deliver(out.resp, "nil")
       \/ out.err # "nil" /\ Goto("recurse") /\ UNCHANGED <<reply, descent>>
    /\ UNCHANGED <<call, hops, roots, cached>>

Dangling(m) == qtype \in Followed /\ m.alias /\ ~m.target
Unfollowed == reply.err = "nil" /\ Dangling(reply.resp)

HopsLeftAtLimit == hops <= MaxHops
HopsLeft == hops < MaxHops

Judge ==
    /\ pc = "judge"
    /\ \/ /\ ~Unfollowed
          /\ Goto("returned")
          /\ UNCHANGED <<hops, reply>>
       \/ /\ Unfollowed
          /\ \/ HopsLeft /\ hops' = hops + 1 /\ Goto("follow") /\ UNCHANGED reply
             \/ /\ ~HopsLeft
                /\ reply' = [reply EXCEPT !.err = "cnameDepth"]
                /\ Goto("returned")
                /\ UNCHANGED hops
    /\ UNCHANGED <<exchangeVars, call, descent, roots, cached>>

------------------------------------------------------------------------------
(* recursiveLookup.                                                         *)

\* The list before the descent: that of the zone, or else a copy of the roots.
FromRootsShared == resolvers' = roots /\ array' = "roots"
FromRoots == resolvers' = roots /\ array' = "own"

Recurse ==
    /\ pc = "recurse"
    /\ \/ cached # NoMessage /\ Deliver(cached, "nil")
       \/ cached = NoMessage /\ Deliver(NoSuchZone, "nil")
       \/ /\ cached = NoMessage
          /\ \E servers \in Zones :
                \/ servers # <<>> /\ resolvers' = servers /\ array' = "own"
                \/ servers = <<>> /\ FromRoots
          /\ depth' = 0 /\ lastResponse' = NoMessage
          /\ Goto("turn")
          /\ UNCHANGED <<tries, asked, reply>>
    /\ UNCHANGED <<exchangeVars, call, hops, roots, cached>>

\* The loop's conditions; then a fresh RetryResolver with a try per server.
Turn ==
    /\ pc = "turn"
    /\ \/ depth >= MaxDepth /\ Deliver(lastResponse, "maxDepth")
       \/ depth < MaxDepth /\ resolvers = <<>> /\ Deliver(lastResponse, "noResolver")
       \/ /\ depth < MaxDepth /\ resolvers # <<>>
          /\ reply' = Outcome(NoMessage, "nil")
          /\ Goto("try")
          /\ UNCHANGED descent
    /\ UNCHANGED <<exchangeVars, call, hops, roots, cached>>

\* RetryResolver.Lookup: the context, then a server at random.
Try ==
    /\ pc = "try"
    /\ \/ /\ tries < Len(resolvers) /\ ~ended
          /\ tries' = tries + 1
          /\ asked' \in Range(resolvers)
          /\ Ask("dns")
          /\ Goto("query")
          /\ UNCHANGED <<depth, resolvers, array, lastResponse, reply>>
       \/ /\ tries < Len(resolvers) /\ ended
          /\ Deliver(reply.resp, "ended")
          /\ UNCHANGED exchangeVars
       \/ /\ tries >= Len(resolvers)
          /\ Deliver(reply.resp, reply.err)
          /\ UNCHANGED exchangeVars
    /\ UNCHANGED <<call, hops, roots, cached>>

QueryDone ==
    /\ pc = "query" /\ step = "done"
    /\ Taken
    /\ reply' = out
    /\ Goto(IF out.err = "nil" THEN "descend" ELSE "try")
    /\ UNCHANGED <<call, hops, descent, roots, cached>>

\* resolvers[:0] with an append per valid server: the array is written in place.
RefilledBehind(ns) == resolvers \o ns
Refilled(ns) ==
    LET kept[n \in 0..Len(ns)] ==
            IF n = 0 THEN <<>>
            ELSE IF ns[n] \in Malformed THEN kept[n - 1] ELSE Append(kept[n - 1], ns[n])
    IN  kept[Len(ns)]
Overwritten(old, new) == [k \in DOMAIN old |-> IF k <= Len(new) THEN new[k] ELSE old[k]]

LeadsNoFurther(m) == m.ns = <<>> \/ (qtype = "NS" /\ m.apex)

\* An answer is cached; what leads no further is returned; a referral is followed.
DescendUncounted == UNCHANGED depth
CountDepth == depth' = depth + 1

Descend ==
    LET m == reply.resp
        servers == Refilled(m.ns)
    IN  /\ pc = "descend"
        /\ \/ /\ Final(m) \/ LeadsNoFurther(m)
              /\ cached' \in IF Final(m) THEN {m, cached} ELSE {cached}
              /\ Deliver(m, "nil")
              /\ UNCHANGED roots
           \/ /\ ~Final(m) /\ ~LeadsNoFurther(m)
              /\ resolvers' = servers
              /\ roots' = IF array = "roots" THEN Overwritten(roots, servers) ELSE roots
              /\ array' = IF Len(servers) > Len(roots) THEN "own" ELSE array
              /\ CountDepth
              /\ tries' = 0 /\ asked' = NoMessage /\ lastResponse' = m
              /\ Goto("turn")
              /\ UNCHANGED <<cached, reply>>
        /\ UNCHANGED <<exchangeVars, call, hops>>

------------------------------------------------------------------------------
(* Environment.                                                             *)

\* What recursive lookups may put into the cache.
Acceptable(m) == m.echo = "same" /\ m.rcode \notin {"refused", "servfail"}
Cacheable == {m \in Messages : Acceptable(m) /\ ~m.tc /\ Final(m)}

\* Another lookup fills the entry, or the entry expires.
Others ==
    /\ pc # "returned"
    /\ cached' \in Cacheable \cup {NoMessage}
    /\ UNCHANGED <<exchangeVars, call, pc, hops, descent, roots, reply>>

EndContext ==
    /\ pc # "returned" /\ ~ended
    /\ ended' = TRUE
    /\ UNCHANGED <<exchangeVars, pc, base, qtype, hops, descent, roots, cached, reply>>

Request == Exchanges /\ UNCHANGED <<call, pc, hops, descent, roots, cached, reply>>

Progress ==
    \/ Follow \/ PrimaryDone \/ Recurse \/ Turn \/ Try \/ QueryDone \/ Descend \/ Judge
    \/ Request

Next == Progress \/ Others \/ EndContext

\* The goroutine runs, and every request ends: the clients have timeouts.
Spec == Init /\ [][Next]_vars /\ WF_vars(Progress)

------------------------------------------------------------------------------
TypeOK ==
    /\ ExchangeTypeOK
    /\ pc \in {"follow", "primary", "recurse", "turn", "try", "query", "descend",
               "judge", "returned"}
    /\ ended \in BOOLEAN /\ base \in Transports /\ qtype \in Types
    /\ hops \in 0..MaxHops /\ depth \in 0..MaxDepth /\ tries \in 0..Len(resolvers)
    /\ reply \in [resp : Messages \cup {NoMessage}, err : CallErrors]
    /\ pc \in {"primary", "query"} <=> step # "idle"

\* Once a message has been decoded the request's error comes with one, also when TCP
\* fails after a truncated answer, and so do the two limits (FR-008 of
\* specs/001-native-dns-response/spec.md).
ErrorKeepsResponse ==
    /\ step = "done" /\ decoded => out.resp # NoMessage
    /\ pc = "returned" /\ reply.err \in {"maxDepth", "cnameDepth"}
          => reply.resp # NoMessage

\* What the call returns without an error, and what it leaves in the cache for others,
\* answers the question asked, is no REFUSED or SERVFAIL, is truncated only if it came
\* over HTTP, and is no alias still to be followed; a cached one was final.
SuccessComplete ==
    /\ pc = "returned" /\ reply.err = "nil" =>
          /\ Acceptable(reply.resp)
          /\ reply.resp.tc => base # "dns"
          /\ ~Unfollowed
    /\ cached \in Cacheable \cup {NoMessage}

\* A descent asks only servers the last referral named, and the list it reuses in
\* place is never that of the roots every other lookup starts from.
ListCurrent ==
    /\ pc = "query" /\ depth > 0 => asked \in Range(lastResponse.ns)
    /\ roots = RootServers

\* Aliases and referrals that lead in circles come to an end.
Returns == <>(pc = "returned")
================================================================================
