------------------------------- MODULE CacheTTL -------------------------------
(***************************************************************************)
(* How long memLRU keeps a response and what a hit returns (cache.go):      *)
(* cacheTTL and its helpers as operators, and one cache key with a clock.   *)
(*                                                                         *)
(* A section is the set of its records: the code only takes minima over a   *)
(* section and asks whether it holds a record of some type.  DNS TTLs are   *)
(* seconds in 0..MaxUint32; durations are ticks, Second to the second.      *)
(***************************************************************************)
EXTENDS Naturals, FiniteSetsExt

CONSTANTS
    Responses,      \* the responses that are set
    MaxUint32,      \* largest TTL of a record, also the "none seen" of the code
    Second,         \* ticks per second
    ServFailMax,    \* servFailMaxCacheTTL, in ticks
    Options         \* the CacheOptions considered: default, min and max, in ticks

ASSUME OptionsAssumption ==
    \A o \in Options :
        /\ {o.default, o.min, o.max} \subseteq Nat
        /\ o.max > 0 => o.min <= o.max
ASSUME UnitAssumption ==
    /\ {MaxUint32, Second, ServFailMax} \subseteq Nat \ {0}
    /\ ServFailMax <= MaxUint32 * Second

Records == [type : STRING, ttl : 0..MaxUint32, minttl : 0..MaxUint32]
ASSUME ResponseAssumption ==
    Responses \subseteq
        [truncated : BOOLEAN, questions : Nat, qtype : STRING, rcode : STRING,
         answer : SUBSET Records, ns : SUBSET Records, extra : SUBSET Records]

VARIABLES
    options,    \* the cache's own options
    stored,     \* the responses the key holds: none or one
    left,       \* ticks until expiredAt
    hit         \* what the last Get returned: no response or one

vars == <<options, stored, left, hit>>

Refused == [ttl |-> 0, ok |-> FALSE]
Lifetime(ttl, ok) == [ttl |-> ttl, ok |-> ok]

------------------------------------------------------------------------------
(* The TTL policy.                                                          *)

All(response) == response.answer \cup response.ns \cup response.extra
NonOPT(records) == {rr \in records : rr.type # "OPT"}

\* RFC 2308: min(SOA TTL, SOA.MINIMUM); a referral has no negative TTL.
NegativeResponseTTL(response) ==
    LET soas == {rr \in response.ns : rr.type = "SOA"}
        minimum == Min({MaxUint32} \cup {rr.ttl : rr \in soas} \cup {rr.minttl : rr \in soas})
    IN  IF \E rr \in response.ns : rr.type = "NS"
        THEN Refused
        ELSE IF soas = {} \/ minimum = 0
        THEN Lifetime(0, soas # {})
        ELSE Lifetime(minimum * Second, TRUE)

AnswerTTLOnly(response) ==
    Min({MaxUint32} \cup {rr.ttl : rr \in NonOPT(response.answer)}) * Second

MinimumResponseTTL(response) ==
    LET minimum == Min({MaxUint32} \cup {rr.ttl : rr \in NonOPT(All(response))})
    IN  IF minimum = MaxUint32 THEN 0 ELSE minimum * Second

HasAddressAnswer(response) == \E rr \in response.answer : rr.type = response.qtype

\* NOERROR: NODATA with an SOA, else a positive answer.
PositiveTTLAnyAnswer(response) ==
    Lifetime(MinimumResponseTTL(response), MinimumResponseTTL(response) > 0)
PositiveTTL(response) ==
    IF response.qtype \in {"A", "AAAA"} /\ ~HasAddressAnswer(response)
    THEN Refused
    ELSE Lifetime(MinimumResponseTTL(response), MinimumResponseTTL(response) > 0)

SuccessTTL(response) ==
    LET negative == NegativeResponseTTL(response)
    IN  IF response.answer = {} /\ negative.ok
        THEN Lifetime(negative.ttl, negative.ttl > 0)
        ELSE PositiveTTL(response)

NameErrorTTL(response) ==
    LET negative == NegativeResponseTTL(response)
    IN  Lifetime(negative.ttl, negative.ok /\ negative.ttl > 0)

ServerFailureTTL(response) ==
    LET minimum == MinimumResponseTTL(response)
        ttl == Min({IF minimum = 0 THEN options.default ELSE minimum, ServFailMax})
    IN  Lifetime(ttl, ttl > 0)

CacheTTL(response) ==
    IF response.truncated \/ response.questions # 1
    THEN Refused
    ELSE CASE response.rcode = "NOERROR"  -> SuccessTTL(response)
           [] response.rcode = "NXDOMAIN" -> NameErrorTTL(response)
           [] response.rcode = "SERVFAIL" -> ServerFailureTTL(response)
           [] OTHER -> Refused

RespectTTLOverrides(ttl) ==
    LET raised == IF options.min > 0 /\ ttl < options.min THEN options.min ELSE ttl
    IN  IF options.max > 0 /\ raised > options.max THEN options.max ELSE raised

\* The bound on SERVFAIL is applied once more after the overrides.
StoredTTLOverridden(response) == RespectTTLOverrides(CacheTTL(response).ttl)
StoredTTL(response) ==
    LET ttl == RespectTTLOverrides(CacheTTL(response).ttl)
    IN  IF response.rcode = "SERVFAIL" THEN Min({ttl, ServFailMax}) ELSE ttl

\* Rounded up to whole seconds.
RoundedDown(duration) == duration \div Second
DurationToTTL(duration) ==
    Min({(duration + Second - 1) \div Second, MaxUint32})

SetTTLs(records, ttl) ==
    {IF rr.type = "OPT" THEN rr ELSE [rr EXCEPT !.ttl = ttl] : rr \in records}

SetResponseTTL(response, ttl) ==
    [response EXCEPT !.answer = SetTTLs(@, ttl),
                     !.ns = SetTTLs(@, ttl),
                     !.extra = SetTTLs(@, ttl)]

------------------------------------------------------------------------------
(* One key of the cache.                                                    *)

Init ==
    /\ options \in Options
    /\ stored = {}
    /\ left = 0
    /\ hit = {}

Set(response) ==
    /\ hit' = {}
    /\ UNCHANGED options
    /\ \/ /\ CacheTTL(response).ok
          /\ stored' = {response}
          /\ left' = StoredTTL(response)
       \/ /\ ~CacheTTL(response).ok
          /\ UNCHANGED <<stored, left>>

\* At left = 0 it is exactly expiredAt, and the entry has expired.
ExpiredOnlyAfter == FALSE
Expired == left = 0

Get ==
    /\ UNCHANGED <<options, left>>
    /\ \/ /\ ~Expired
          /\ hit' = {SetResponseTTL(response, DurationToTTL(left)) : response \in stored}
          /\ UNCHANGED stored
       \/ /\ Expired
          /\ stored' = {}
          /\ hit' = {}

Tick ==
    /\ left > 0
    /\ left' = left - 1
    /\ hit' = {}
    /\ UNCHANGED <<options, stored>>

\* The key is set once: what Get returns depends on the last Set only.
Next == Get \/ Tick \/ \E response \in Responses : stored = {} /\ Set(response)

Spec == Init /\ [][Next]_vars

------------------------------------------------------------------------------
(* Properties.                                                              *)

TypeOK ==
    /\ options \in Options
    /\ left \in Nat
    /\ stored # {} => left <= Max({StoredTTL(response) : response \in stored})
    /\ \A response \in hit :
          \A rr \in NonOPT(All(response)) : rr.ttl \in 1..MaxUint32

Positive(response) == response.rcode = "NOERROR" /\ response.answer # {}

\* A positive answer is not kept longer than any of its records lives, whatever the
\* section the shortest one is in, unless the option min says so.
NoRecordOutlived ==
    \A response \in stored :
        Positive(response) => \A rr \in NonOPT(All(response)) :
            left <= Max({rr.ttl * Second, options.min})

\* A server failure is kept no longer than its bound, although option min may be above.
FailureBrief ==
    \A response \in stored : response.rcode = "SERVFAIL" => left <= ServFailMax

\* How long the cache may repeat itself: no positive answer outlives a record of it, and
\* no server failure its bound, under any options (cacheTTL, Set).
KeptInTime == NoRecordOutlived /\ FailureBrief

\* What is served for an address question either has an address or proves that
\* there is none by an SOA; a referral is neither.
AddressOrProof ==
    \A response \in hit :
        response.qtype \in {"A", "AAAA"} /\ response.rcode \in {"NOERROR", "NXDOMAIN"}
        => \/ \E rr \in response.answer : rr.type = response.qtype
           \/ /\ \E rr \in response.ns : rr.type = "SOA"
              /\ \A rr \in response.ns : rr.type # "NS"

\* A hit announces at least the remaining lifetime, by less than a second more, so
\* that TTL 0 is never served.
HitTTLTight ==
    \A response \in hit : \A rr \in NonOPT(All(response)) :
        left <= rr.ttl * Second /\ rr.ttl * Second < left + Second

===============================================================================
