---------------------------- MODULE CacheTTLProofs ----------------------------
(***************************************************************************)
(* Proofs about CacheTTL, for any responses and options: what is kept, for    *)
(* how long, and with which TTLs a hit is served.                           *)
(***************************************************************************)
EXTENDS CacheTTL, Integers, WellFoundedInduction, TLAPS

\* The key holds at most one response, one that is cacheable and not kept past its time.
Kept ==
    /\ stored \subseteq Responses /\ \A r, s \in stored : r = s
    /\ \A r \in stored : CacheTTL(r).ok /\ left <= StoredTTL(r)

\* A hit is the stored response with what is left for its TTLs, rounded up.
Served ==
    /\ hit # {} => left > 0
    /\ \A h \in hit : \E r \in stored : h = SetResponseTTL(r, DurationToTTL(left))

IInv == options \in Options /\ left \in Nat /\ Kept /\ Served

------------------------------------------------------------------------------
(* Minima and maxima.                                                       *)

\* A set of naturals that is not empty has a least element.
LEMMA LeastNat ==
    ASSUME NEW T \in SUBSET Nat, T # {}
    PROVE  Min(T) \in T /\ \A y \in T : Min(T) <= y
<1> DEFINE R == OpToRel(<, Nat)
<1>1. \E x \in T : \A y \in T : ~ (<<y, x>> \in R)
  BY NatLessThanWellFounded, WFMin
<1>2. ASSUME NEW x \in Nat, NEW y \in Nat, ~(<<y, x>> \in R) PROVE x <= y
  <2>1. R = {ss \in Nat \X Nat : ss[1] < ss[2]}
    BY Zenon DEF OpToRel
  <2> HIDE DEF R
  <2>. QED
    BY <1>2, <2>1
<1> HIDE DEF R
<1>3. \E x \in T : \A y \in T : x <= y
  BY <1>1, <1>2
<1>. QED
  BY <1>3 DEF Min

\* The greater of two naturals.
LEMMA MaxPair ==
    ASSUME NEW x \in Nat, NEW y \in Nat
    PROVE  Max({x, y}) \in {x, y} /\ Max({x, y}) >= x /\ Max({x, y}) >= y
<1>1. \E m \in {x, y} : \A n \in {x, y} : m >= n
  <2>1. CASE x >= y
    BY <2>1
  <2>2. CASE y >= x
    BY <2>2
  <2>. QED
    BY <2>1, <2>2
<1>. QED
  BY <1>1 DEF Max

\* The lesser of two naturals.
LEMMA MinPair ==
    ASSUME NEW x \in Nat, NEW y \in Nat
    PROVE  Min({x, y}) \in {x, y} /\ Min({x, y}) <= x /\ Min({x, y}) <= y
<1>1. {x, y} \in SUBSET Nat /\ {x, y} # {}
  OBVIOUS
<1>. QED
  BY <1>1, LeastNat

\* The longest lifetime a record can have.
Longest == MaxUint32 * Second

\* The units are positive, and seconds compare as the ticks they stand for.
LEMMA Units ==
    /\ MaxUint32 \in Nat \ {0} /\ Second \in Nat \ {0} /\ ServFailMax \in Nat \ {0}
    /\ ServFailMax <= Longest /\ Longest \in Nat
    /\ \A x, y \in Nat : x <= y => x * Second \in Nat /\ x * Second <= y * Second
<1>1. MaxUint32 \in Nat \ {0} /\ Second \in Nat \ {0} /\ ServFailMax \in Nat \ {0}
      /\ ServFailMax <= Longest
  BY UnitAssumption DEF Longest
<1>2. ASSUME NEW x \in Nat, NEW y \in Nat, x <= y
      PROVE  x * Second \in Nat /\ x * Second <= y * Second
  <2>1. PICK d \in Nat : y = x + d
    <3>1. y - x \in Nat /\ y = x + (y - x)
      BY <1>2
    <3>. QED
      BY <3>1
  <2>2. y * Second = x * Second + d * Second /\ d * Second \in Nat /\ x * Second \in Nat
    BY <1>1, <2>1
  <2>. QED
    BY <2>2
<1>. QED
  BY <1>1, <1>2 DEF Longest

------------------------------------------------------------------------------
(* The TTL policy.                                                          *)

\* The sections of a response are sets of records.
LEMMA Sections ==
    ASSUME NEW r \in Responses
    PROVE  /\ r.answer \subseteq Records /\ r.ns \subseteq Records /\ r.extra \subseteq Records
           /\ All(r) \subseteq Records /\ NonOPT(All(r)) \subseteq Records
           /\ \A rr \in Records : rr.ttl \in 0..MaxUint32 /\ rr.minttl \in 0..MaxUint32
  BY ResponseAssumption DEF All, NonOPT, Records

\* The TTL of a response is at most that of each of its records, in every section.
LEMMA MinimumSound ==
    ASSUME NEW r \in Responses
    PROVE  /\ MinimumResponseTTL(r) \in 0..Longest
           /\ \A rr \in NonOPT(All(r)) : MinimumResponseTTL(r) <= rr.ttl * Second
<1> DEFINE T == {MaxUint32} \cup {rr.ttl : rr \in NonOPT(All(r))}
           m == Min(T)
<1>1. T \in SUBSET Nat /\ MaxUint32 \in T /\ \A rr \in NonOPT(All(r)) : rr.ttl \in T
  BY Sections, Units
<1> HIDE DEF T
<1>2. m \in Nat /\ m <= MaxUint32 /\ \A rr \in NonOPT(All(r)) : m <= rr.ttl /\ rr.ttl \in Nat
  BY <1>1, LeastNat
<1> HIDE DEF m
<1>3. m * Second \in 0..Longest /\ \A rr \in NonOPT(All(r)) : m * Second <= rr.ttl * Second
  BY <1>2, Units DEF Longest
<1>4. \A rr \in NonOPT(All(r)) : 0 <= rr.ttl * Second
  BY <1>2, Units
<1>5. MinimumResponseTTL(r) = IF m = MaxUint32 THEN 0 ELSE m * Second
  BY DEF MinimumResponseTTL, m, T
<1>. QED
  BY <1>3, <1>4, <1>5, Units

\* A negative answer proves itself by an SOA, is no referral, and lives as long as a
\* record can.
LEMMA NegativeSound ==
    ASSUME NEW r \in Responses
    PROVE  /\ NegativeResponseTTL(r).ttl \in 0..Longest
           /\ NegativeResponseTTL(r).ok =>
                 /\ \E rr \in r.ns : rr.type = "SOA"
                 /\ \A rr \in r.ns : rr.type # "NS"
<1> DEFINE soas == {rr \in r.ns : rr.type = "SOA"}
           T == {MaxUint32} \cup {rr.ttl : rr \in soas} \cup {rr.minttl : rr \in soas}
           m == Min(T)
<1>1. T \in SUBSET Nat /\ MaxUint32 \in T
  BY Sections, Units
<1> HIDE DEF T
<1>2. m \in Nat /\ m <= MaxUint32
  BY <1>1, LeastNat
<1> HIDE DEF m
<1>3. m * Second \in 0..Longest /\ 0 \in 0..Longest
  BY <1>2, Units DEF Longest
<1>4. NegativeResponseTTL(r) =
         IF \E rr \in r.ns : rr.type = "NS" THEN Refused
         ELSE IF soas = {} \/ m = 0 THEN Lifetime(0, soas # {})
         ELSE Lifetime(m * Second, TRUE)
  BY DEF NegativeResponseTTL, m, T
<1>5. Refused.ttl = 0 /\ ~Refused.ok
  BY DEF Refused
<1>6. \A t, o : Lifetime(t, o).ttl = t /\ Lifetime(t, o).ok = o
  BY DEF Lifetime
<1>7. soas # {} => \E rr \in r.ns : rr.type = "SOA"
  OBVIOUS
<1> HIDE DEF soas
<1>8. CASE \E rr \in r.ns : rr.type = "NS"
  <2>1. NegativeResponseTTL(r) = Refused
    BY <1>4, <1>8
  <2>. QED
    BY <1>3, <1>5, <2>1
<1>9. CASE ~(\E rr \in r.ns : rr.type = "NS") /\ (soas = {} \/ m = 0)
  <2>1. NegativeResponseTTL(r) = Lifetime(0, soas # {})
    BY <1>4, <1>9
  <2>2. NegativeResponseTTL(r).ttl = 0 /\ NegativeResponseTTL(r).ok = (soas # {})
    BY <1>6, <2>1
  <2>. QED
    BY <1>3, <1>7, <1>9, <2>2
<1>10. CASE ~(\E rr \in r.ns : rr.type = "NS") /\ ~(soas = {} \/ m = 0)
  <2>1. NegativeResponseTTL(r) = Lifetime(m * Second, TRUE)
    BY <1>4, <1>10
  <2>2. NegativeResponseTTL(r).ttl = m * Second
    BY <1>6, <2>1
  <2>. QED
    BY <1>3, <1>7, <1>10, <2>2
<1>. QED
  BY <1>8, <1>9, <1>10

\* The policy as a whole: a lifetime within that of a record, for positive answers that of
\* their records, and for address questions an address or the proof that there is none.
LEMMA PolicySound ==
    ASSUME NEW r \in Responses, options \in Options
    PROVE  /\ CacheTTL(r).ttl \in 0..Longest
           /\ r.rcode = "SERVFAIL" => CacheTTL(r).ttl <= ServFailMax
           /\ CacheTTL(r).ok /\ Positive(r) =>
                 \A rr \in NonOPT(All(r)) : CacheTTL(r).ttl <= rr.ttl * Second
           /\ CacheTTL(r).ok /\ r.qtype \in {"A", "AAAA"} /\ r.rcode \in {"NOERROR", "NXDOMAIN"} =>
                 \/ \E rr \in r.answer : rr.type = r.qtype
                 \/ (\E rr \in r.ns : rr.type = "SOA") /\ \A rr \in r.ns : rr.type # "NS"
<1>1. 0 \in 0..Longest /\ Refused.ttl = 0 /\ ~Refused.ok /\ 0 <= ServFailMax
  BY Units DEF Refused
<1>2. \A t, o : Lifetime(t, o).ttl = t /\ Lifetime(t, o).ok = o
  BY DEF Lifetime
<1>3. CASE r.truncated \/ r.questions # 1
  <2>1. CacheTTL(r) = Refused
    BY <1>3 DEF CacheTTL
  <2>. QED
    BY <1>1, <2>1
<1>4. CASE ~(r.truncated \/ r.questions # 1) /\ r.rcode = "NOERROR"
  <2>1. CacheTTL(r) = SuccessTTL(r)
    BY <1>4 DEF CacheTTL
  <2>2. CASE r.answer = {} /\ NegativeResponseTTL(r).ok
    <3>1. SuccessTTL(r) = Lifetime(NegativeResponseTTL(r).ttl, NegativeResponseTTL(r).ttl > 0)
      BY <2>2 DEF SuccessTTL
    <3>. QED
      BY <1>2, <1>4, <2>1, <2>2, <3>1, NegativeSound DEF Positive
  <2>3. CASE ~(r.answer = {} /\ NegativeResponseTTL(r).ok)
    <3>1. SuccessTTL(r) = PositiveTTL(r)
      BY <2>3 DEF SuccessTTL
    <3>2. CASE r.qtype \in {"A", "AAAA"} /\ ~HasAddressAnswer(r)
      BY <1>1, <1>4, <2>1, <3>1, <3>2 DEF PositiveTTL
    <3>3. CASE ~(r.qtype \in {"A", "AAAA"} /\ ~HasAddressAnswer(r))
      <4>1. PositiveTTL(r) = Lifetime(MinimumResponseTTL(r), MinimumResponseTTL(r) > 0)
        BY <3>3 DEF PositiveTTL
      <4>. QED
        BY <1>2, <1>4, <2>1, <3>1, <3>3, <4>1, MinimumSound DEF HasAddressAnswer
    <3>. QED
      BY <3>2, <3>3
  <2>. QED
    BY <2>2, <2>3
<1>5. CASE ~(r.truncated \/ r.questions # 1) /\ r.rcode = "NXDOMAIN"
  <2>1. CacheTTL(r) = NameErrorTTL(r)
    BY <1>5 DEF CacheTTL
  <2>2. CacheTTL(r) = Lifetime(NegativeResponseTTL(r).ttl,
                               NegativeResponseTTL(r).ok /\ NegativeResponseTTL(r).ttl > 0)
    BY <2>1 DEF NameErrorTTL
  <2>3. CacheTTL(r).ttl = NegativeResponseTTL(r).ttl /\ (CacheTTL(r).ok => NegativeResponseTTL(r).ok)
    BY <1>2, <2>2
  <2>4. r.rcode # "SERVFAIL" /\ ~Positive(r)
    BY <1>5 DEF Positive
  <2>. QED
    BY <2>3, <2>4, NegativeSound
<1>6. CASE ~(r.truncated \/ r.questions # 1) /\ r.rcode = "SERVFAIL"
  <2> DEFINE m == IF MinimumResponseTTL(r) = 0 THEN options.default ELSE MinimumResponseTTL(r)
             ttl == Min({m, ServFailMax})
  <2>1. CacheTTL(r) = Lifetime(ttl, ttl > 0)
    BY <1>6 DEF CacheTTL, ServerFailureTTL
  <2>2. m \in Nat
    BY MinimumSound, OptionsAssumption
  <2> HIDE DEF m
  <2>3. ttl \in Nat /\ ttl <= ServFailMax
    BY <2>2, MinPair, Units
  <2> HIDE DEF ttl
  <2>4. ttl \in 0..Longest
    BY <2>3, Units
  <2>. QED
    BY <1>2, <1>6, <2>1, <2>3, <2>4 DEF Positive
<1>7. CASE /\ ~(r.truncated \/ r.questions # 1)
           /\ r.rcode \notin {"NOERROR", "NXDOMAIN", "SERVFAIL"}
  <2>1. CacheTTL(r) = Refused
    BY <1>7 DEF CacheTTL
  <2>. QED
    BY <1>1, <1>7, <2>1
<1>. QED
  BY <1>3, <1>4, <1>5, <1>6, <1>7

\* Overrides lengthen a lifetime no further than the option min.
LEMMA OverridesSound ==
    ASSUME NEW ttl \in Nat, options \in Options
    PROVE  /\ RespectTTLOverrides(ttl) \in Nat
           /\ RespectTTLOverrides(ttl) <= Max({ttl, options.min})
<1>1. options.min \in Nat /\ options.max \in Nat
  BY OptionsAssumption
<1>2. Max({ttl, options.min}) \in Nat /\ Max({ttl, options.min}) >= ttl
      /\ Max({ttl, options.min}) >= options.min
  BY <1>1, MaxPair
<1>. QED
  BY <1>1, <1>2 DEF RespectTTLOverrides

\* How long a response is kept.
LEMMA StoredSound ==
    ASSUME NEW r \in Responses, options \in Options
    PROVE  /\ StoredTTL(r) \in Nat
           /\ StoredTTL(r) <= Max({CacheTTL(r).ttl, options.min})
           /\ r.rcode = "SERVFAIL" => StoredTTL(r) <= ServFailMax
<1> DEFINE ttl == RespectTTLOverrides(CacheTTL(r).ttl)
<1>0. CacheTTL(r).ttl \in Nat
  BY PolicySound, Units
<1>1. ttl \in Nat /\ ttl <= Max({CacheTTL(r).ttl, options.min})
  BY <1>0, OverridesSound
<1>2. StoredTTL(r) = IF r.rcode = "SERVFAIL" THEN Min({ttl, ServFailMax}) ELSE ttl
  BY DEF StoredTTL
<1> HIDE DEF ttl
<1>3. Max({CacheTTL(r).ttl, options.min}) \in Nat
  BY <1>0, MaxPair, OptionsAssumption
<1>4. Min({ttl, ServFailMax}) \in Nat /\ Min({ttl, ServFailMax}) <= ttl
      /\ Min({ttl, ServFailMax}) <= ServFailMax
  BY <1>1, MinPair, Units
<1>. QED
  BY <1>1, <1>2, <1>3, <1>4, Units

------------------------------------------------------------------------------
(* A hit.                                                                   *)

\* Setting the TTLs of a section leaves the types of its records.
LEMMA SetTTLsSound ==
    ASSUME NEW S \in SUBSET Records, NEW ttl
    PROVE  /\ \A x \in SetTTLs(S, ttl) : x.type # "OPT" => x.ttl = ttl
           /\ \A x \in SetTTLs(S, ttl) : \E y \in S : x.type = y.type
           /\ \A y \in S : \E x \in SetTTLs(S, ttl) : x.type = y.type
<1> DEFINE set(y) == IF y.type = "OPT" THEN y ELSE [y EXCEPT !.ttl = ttl]
<1>1. SetTTLs(S, ttl) = {set(y) : y \in S}
  BY DEF SetTTLs
<1>2. ASSUME NEW y \in S
      PROVE  set(y).type = y.type /\ (set(y).type # "OPT" => set(y).ttl = ttl)
  BY DEF Records
<1> HIDE DEF set
<1>. QED
  BY <1>1, <1>2

\* A hit answers as the stored response does, with one TTL everywhere.
LEMMA SetResponseSound ==
    ASSUME NEW r \in Responses, NEW ttl, NEW h, h = SetResponseTTL(r, ttl)
    PROVE  /\ h.qtype = r.qtype /\ h.rcode = r.rcode
           /\ \A x \in NonOPT(All(h)) : x.ttl = ttl
           /\ \A y \in r.answer : \E x \in h.answer : x.type = y.type
           /\ \A y \in r.ns : \E x \in h.ns : x.type = y.type
           /\ \A x \in h.ns : \E y \in r.ns : x.type = y.type
<1>1. /\ h.qtype = r.qtype /\ h.rcode = r.rcode
      /\ h.answer = SetTTLs(r.answer, ttl)
      /\ h.ns = SetTTLs(r.ns, ttl)
      /\ h.extra = SetTTLs(r.extra, ttl)
  BY ResponseAssumption DEF SetResponseTTL
<1>2. r.answer \in SUBSET Records /\ r.ns \in SUBSET Records /\ r.extra \in SUBSET Records
  BY Sections
<1>3. ASSUME NEW x \in NonOPT(All(h)) PROVE x.ttl = ttl
  <2>1. x.type # "OPT" /\ (x \in h.answer \/ x \in h.ns \/ x \in h.extra)
    BY DEF NonOPT, All
  <2>2. \A S \in SUBSET Records : x \in SetTTLs(S, ttl) => x.ttl = ttl
    BY <2>1, SetTTLsSound
  <2>. QED
    BY <1>1, <1>2, <2>1, <2>2
<1>. QED
  BY <1>1, <1>2, <1>3, SetTTLsSound

\* Rounding up to seconds: never 0 and, unless the TTL is at its largest, by less than
\* a second.
LEMMA RoundedUp ==
    ASSUME NEW d \in Nat, d > 0
    PROVE  /\ DurationToTTL(d) \in 1..MaxUint32
           /\ d <= Longest => /\ d <= DurationToTTL(d) * Second
                              /\ DurationToTTL(d) * Second < d + Second
<1> DEFINE q == (d + Second - 1) \div Second
<1>1. Second \in Nat \ {0} /\ MaxUint32 \in Nat \ {0}
  BY Units
<1>2. q \in Nat /\ d <= q * Second /\ q * Second < d + Second
  BY <1>1
<1>3. DurationToTTL(d) = Min({q, MaxUint32})
  BY DEF DurationToTTL
<1> HIDE DEF q
<1>4. Min({q, MaxUint32}) \in {q, MaxUint32} /\ Min({q, MaxUint32}) <= MaxUint32
      /\ Min({q, MaxUint32}) <= q
  BY <1>1, <1>2, MinPair
<1>5. q # 0
  BY <1>1, <1>2
<1>6. DurationToTTL(d) \in 1..MaxUint32
  BY <1>1, <1>2, <1>3, <1>4, <1>5
<1>7. ASSUME d <= Longest
      PROVE  d <= DurationToTTL(d) * Second /\ DurationToTTL(d) * Second < d + Second
  <2>1. CASE DurationToTTL(d) = q
    BY <1>2, <2>1
  <2>2. CASE DurationToTTL(d) = MaxUint32
    <3>1. MaxUint32 * Second <= q * Second /\ MaxUint32 * Second \in Nat /\ q * Second \in Nat
      BY <1>1, <1>2, <1>3, <1>4, <2>2, Units
    <3>. QED
      BY <1>1, <1>2, <1>7, <2>2, <3>1 DEF Longest
  <2>. QED
    BY <1>3, <1>4, <2>1, <2>2
<1>. QED
  BY <1>6, <1>7

------------------------------------------------------------------------------
(* The inductive invariant.                                                 *)

\* The policy reads the options only.
LEMMA PolicyFixed ==
    ASSUME options' = options, NEW r
    PROVE  CacheTTL(r)' = CacheTTL(r) /\ StoredTTL(r)' = StoredTTL(r)
<1>1. CacheTTL(r)' = CacheTTL(r)
  BY DEF CacheTTL, ServerFailureTTL
<1>2. \A t : RespectTTLOverrides(t)' = RespectTTLOverrides(t)
  BY DEF RespectTTLOverrides
<1>. QED
  BY <1>1, <1>2 DEF StoredTTL

\* What each step keeps.
LEMMA Step ==
    ASSUME IInv, [Next]_vars
    PROVE  IInv'
<1> USE DEF IInv
<1>1. ASSUME NEW r \in Responses, stored = {}, Set(r) PROVE IInv'
  <2>1. options' = options /\ hit' = {}
    BY <1>1 DEF Set
  <2>2. CacheTTL(r)' = CacheTTL(r) /\ StoredTTL(r)' = StoredTTL(r)
    BY <2>1, PolicyFixed
  <2>3. CASE CacheTTL(r).ok /\ stored' = {r} /\ left' = StoredTTL(r)
    <3>1. left' \in Nat
      BY <2>3, StoredSound
    <3>. QED
      BY <2>1, <2>2, <2>3, <3>1 DEF Kept, Served
  <2>4. CASE UNCHANGED <<stored, left>>
    BY <1>1, <2>1, <2>4 DEF Kept, Served
  <2>. QED
    BY <1>1, <2>3, <2>4 DEF Set
<1>2. ASSUME Get PROVE IInv'
  <2>1. options' = options /\ left' = left
    BY <1>2 DEF Get
  <2>2. \A r : CacheTTL(r)' = CacheTTL(r) /\ StoredTTL(r)' = StoredTTL(r)
    BY <2>1, PolicyFixed
  <2>3. DurationToTTL(left)' = DurationToTTL(left)
    BY <2>1 DEF DurationToTTL
  <2>4. CASE /\ ~Expired
             /\ hit' = {SetResponseTTL(response, DurationToTTL(left)) : response \in stored}
             /\ UNCHANGED stored
    BY <2>1, <2>2, <2>3, <2>4 DEF Kept, Served, Expired
  <2>5. CASE stored' = {} /\ hit' = {}
    BY <2>1, <2>5 DEF Kept, Served
  <2>. QED
    BY <1>2, <2>4, <2>5 DEF Get
<1>3. ASSUME Tick PROVE IInv'
  <2>1. options' = options /\ left > 0 /\ left' = left - 1 /\ hit' = {} /\ stored' = stored
    BY <1>3 DEF Tick
  <2>2. \A r : CacheTTL(r)' = CacheTTL(r) /\ StoredTTL(r)' = StoredTTL(r)
    BY <2>1, PolicyFixed
  <2>3. \A r \in stored : StoredTTL(r) \in Nat
    BY StoredSound DEF Kept
  <2>. QED
    BY <2>1, <2>2, <2>3 DEF Kept, Served
<1>4. ASSUME UNCHANGED vars PROVE IInv'
  <2>1. options' = options /\ left' = left /\ hit' = hit /\ stored' = stored
    BY <1>4 DEF vars
  <2>2. \A r : CacheTTL(r)' = CacheTTL(r) /\ StoredTTL(r)' = StoredTTL(r)
    BY <2>1, PolicyFixed
  <2>3. DurationToTTL(left)' = DurationToTTL(left)
    BY <2>1 DEF DurationToTTL
  <2>. QED
    BY <2>1, <2>2, <2>3 DEF Kept, Served
<1>. QED
  BY <1>1, <1>2, <1>3, <1>4 DEF Next

\* The key holds one cacheable response within its time, and a hit is that response with
\* the time it has left (memLRU.Set and memLRU.Get).
THEOREM Invariance == Spec => []IInv
<1>1. Init => IInv
  BY DEF Init, IInv, Kept, Served
<1>2. IInv /\ [Next]_vars => IInv'
  BY Step
<1>. QED
  BY <1>1, <1>2, PTL DEF Spec

------------------------------------------------------------------------------
(* What follows.                                                            *)

\* Where a hit comes from.
LEMMA HitSound ==
    ASSUME IInv, NEW h \in hit
    PROVE  /\ left \in Nat /\ left > 0
           /\ \E r \in stored : /\ r \in Responses /\ CacheTTL(r).ok /\ left <= StoredTTL(r)
                                /\ h = SetResponseTTL(r, DurationToTTL(left))
  BY DEF IInv, Kept, Served

\* Every TTL a hit announces is one a DNS record can carry and is not 0.
THEOREM TypeCorrect == Spec => []TypeOK
<1>1. IInv => TypeOK
  <2> SUFFICES ASSUME IInv PROVE TypeOK
    OBVIOUS
  <2>1. options \in Options /\ left \in Nat
    BY DEF IInv
  <2>2. ASSUME stored # {} PROVE left <= Max({StoredTTL(response) : response \in stored})
    <3>1. PICK r \in stored : stored = {r} /\ r \in Responses /\ left <= StoredTTL(r)
      BY <2>2 DEF IInv, Kept
    <3>2. {StoredTTL(response) : response \in stored} = {StoredTTL(r), StoredTTL(r)}
      BY <3>1
    <3>3. StoredTTL(r) \in Nat
      BY <2>1, <3>1, StoredSound
    <3>4. Max({StoredTTL(r), StoredTTL(r)}) = StoredTTL(r)
      BY <3>3, MaxPair
    <3>. QED
      BY <3>1, <3>2, <3>4
  <2>3. ASSUME NEW h \in hit, NEW rr \in NonOPT(All(h)) PROVE rr.ttl \in 1..MaxUint32
    <3>1. PICK r \in Responses : h = SetResponseTTL(r, DurationToTTL(left))
      BY HitSound
    <3>2. rr.ttl = DurationToTTL(left)
      BY <3>1, SetResponseSound
    <3>. QED
      BY <3>2, HitSound, RoundedUp
  <2>. QED
    BY <2>1, <2>2, <2>3 DEF TypeOK
<1>. QED
  BY <1>1, Invariance, PTL

\* A positive answer is served no longer than its shortest record lives, whichever section
\* that is in, or than the option min says (cacheTTL, respectTTLOverrides).
THEOREM NothingOutlived == Spec => []NoRecordOutlived
<1>1. IInv => NoRecordOutlived
  <2> SUFFICES ASSUME IInv, NEW r \in stored, Positive(r), NEW rr \in NonOPT(All(r))
               PROVE  left <= Max({rr.ttl * Second, options.min})
    BY DEF NoRecordOutlived
  <2>1. options \in Options /\ left \in Nat /\ r \in Responses /\ CacheTTL(r).ok
        /\ left <= StoredTTL(r)
    BY DEF IInv, Kept
  <2>2. CacheTTL(r).ttl \in Nat /\ CacheTTL(r).ttl <= rr.ttl * Second
    BY <2>1, PolicySound, Units
  <2>3. StoredTTL(r) \in Nat /\ StoredTTL(r) <= Max({CacheTTL(r).ttl, options.min})
    BY <2>1, StoredSound
  <2>4. rr.ttl * Second \in Nat /\ options.min \in Nat
    <3>1. rr.ttl \in Nat
      BY <2>1, Sections, Units
    <3>. QED
      BY <2>1, <3>1, Units, OptionsAssumption
  <2>5. /\ Max({CacheTTL(r).ttl, options.min}) \in {CacheTTL(r).ttl, options.min}
        /\ Max({rr.ttl * Second, options.min}) \in {rr.ttl * Second, options.min}
        /\ Max({rr.ttl * Second, options.min}) >= rr.ttl * Second
        /\ Max({rr.ttl * Second, options.min}) >= options.min
    BY <2>2, <2>4, MaxPair
  <2>. QED
    BY <2>1, <2>2, <2>3, <2>4, <2>5
<1>. QED
  BY <1>1, Invariance, PTL

\* A server failure is never kept longer than the code's bound on it, whatever the options.
THEOREM FailureIsBrief == Spec => []FailureBrief
<1>1. IInv => FailureBrief
  <2> SUFFICES ASSUME IInv, NEW r \in stored, r.rcode = "SERVFAIL"
               PROVE  left <= ServFailMax
    BY DEF FailureBrief
  <2>1. options \in Options /\ left \in Nat /\ r \in Responses /\ left <= StoredTTL(r)
    BY DEF IInv, Kept
  <2>2. StoredTTL(r) \in Nat /\ StoredTTL(r) <= ServFailMax
    BY <2>1, StoredSound
  <2>. QED
    BY <2>1, <2>2, Units
<1>. QED
  BY <1>1, Invariance, PTL

\* No response is kept for too long, whatever the options (cacheTTL, Set).
THEOREM LifetimesBounded == Spec => []KeptInTime
  BY NothingOutlived, FailureIsBrief, PTL DEF KeptInTime

\* A hit for an address question has an address, or an SOA proves there is none: a referral
\* is never served as an answer (successTTL, nameErrorTTL, negativeResponseTTL).
THEOREM NothingUnproved == Spec => []AddressOrProof
<1>1. IInv => AddressOrProof
  <2> SUFFICES ASSUME IInv, NEW h \in hit,
                      h.qtype \in {"A", "AAAA"}, h.rcode \in {"NOERROR", "NXDOMAIN"}
               PROVE  \/ \E x \in h.answer : x.type = h.qtype
                      \/ (\E x \in h.ns : x.type = "SOA") /\ \A x \in h.ns : x.type # "NS"
    BY DEF AddressOrProof
  <2>1. PICK r \in Responses : CacheTTL(r).ok /\ h = SetResponseTTL(r, DurationToTTL(left))
    BY HitSound
  <2>2. /\ h.qtype = r.qtype /\ h.rcode = r.rcode
        /\ \A y \in r.answer : \E x \in h.answer : x.type = y.type
        /\ \A y \in r.ns : \E x \in h.ns : x.type = y.type
        /\ \A x \in h.ns : \E y \in r.ns : x.type = y.type
    BY <2>1, SetResponseSound
  <2>3. \/ \E rr \in r.answer : rr.type = r.qtype
        \/ (\E rr \in r.ns : rr.type = "SOA") /\ \A rr \in r.ns : rr.type # "NS"
    <3>1. options \in Options
      BY DEF IInv
    <3>. QED
      BY <2>1, <2>2, <3>1, PolicySound
  <2>. QED
    BY <2>2, <2>3
<1>. QED
  BY <1>1, Invariance, PTL

\* No option keeps a response longer than a DNS TTL can announce.
MinFits == \A o \in Options : o.min <= Longest

\* Unless an option min exceeds what a DNS TTL can announce, a hit announces the remaining
\* lifetime rounded up to seconds, never less (durationToTTL, setResponseTTL).
THEOREM AnnouncedTightly ==
    ASSUME MinFits PROVE Spec => []HitTTLTight
<1>1. IInv => HitTTLTight
  <2> SUFFICES ASSUME IInv, NEW h \in hit, NEW rr \in NonOPT(All(h))
               PROVE  left <= rr.ttl * Second /\ rr.ttl * Second < left + Second
    BY DEF HitTTLTight
  <2>1. PICK r \in Responses : left <= StoredTTL(r) /\ h = SetResponseTTL(r, DurationToTTL(left))
    BY HitSound
  <2>2. options \in Options /\ left \in Nat /\ left > 0
    BY HitSound DEF IInv
  <2>3. rr.ttl = DurationToTTL(left)
    BY <2>1, SetResponseSound
  <2>4. left <= Longest
    <3>1. StoredTTL(r) \in Nat /\ StoredTTL(r) <= Max({CacheTTL(r).ttl, options.min})
      BY <2>2, StoredSound
    <3>2. CacheTTL(r).ttl \in Nat /\ CacheTTL(r).ttl <= Longest
      BY <2>2, PolicySound, Units
    <3>3. options.min \in Nat /\ options.min <= Longest
      BY <2>2, MinFits, OptionsAssumption DEF MinFits
    <3>4. Max({CacheTTL(r).ttl, options.min}) \in {CacheTTL(r).ttl, options.min}
      BY <3>2, <3>3, MaxPair
    <3>. QED
      BY <2>1, <2>2, <3>1, <3>2, <3>3, <3>4, Units
  <2>. QED
    BY <2>2, <2>3, <2>4, RoundedUp
<1>. QED
  BY <1>1, Invariance, PTL
===============================================================================
