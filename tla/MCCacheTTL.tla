------------------------------ MODULE MCCacheTTL ------------------------------
(* Model checking of CacheTTL: every small response.                         *)
EXTENDS CacheTTL

Record(type, ttl) == [type |-> type, ttl |-> ttl, minttl |-> 0]
SOA(ttl, minttl) == [type |-> "SOA", ttl |-> ttl, minttl |-> minttl]

TTLs == {0, 1, 2, MaxUint32}
AnswerRecords == {Record(type, ttl) : type \in {"A", "CNAME"}, ttl \in TTLs}
AuthorityRecords ==
    {Record("NS", ttl) : ttl \in {1, 2}} \cup {SOA(1, 2), SOA(2, 1), SOA(2, 0), SOA(2, 2)}
ExtraRecords == {Record("OPT", 0), Record("A", 1), Record("A", 2)}

Answers == {{}} \cup kSubset(1, AnswerRecords) \cup kSubset(2, AnswerRecords)
Authorities == {{}} \cup kSubset(1, AuthorityRecords)
                    \cup {{Record("NS", 1), SOA(2, 2)}, {SOA(1, 2), SOA(2, 2)}}
Extras == {{}} \cup kSubset(1, ExtraRecords) \cup {{Record("OPT", 0), Record("A", 1)}}

\* Header and question: truncation and a missing question with one section each.
Headers ==
    [truncated : {FALSE}, questions : {1}, qtype : {"A", "AAAA", "TXT"},
     rcode : {"NOERROR", "NXDOMAIN", "SERVFAIL", "OTHER"}]
        \cup [truncated : {TRUE}, questions : {1}, qtype : {"A"}, rcode : {"NOERROR"}]
        \cup [truncated : {FALSE}, questions : {0, 2}, qtype : {"A"}, rcode : {"NOERROR"}]

MCResponses ==
    {[truncated |-> h.truncated, questions |-> h.questions, qtype |-> h.qtype,
      rcode |-> h.rcode, answer |-> answer, ns |-> ns, extra |-> extra] :
        h \in Headers, answer \in Answers, ns \in Authorities, extra \in Extras}

\* No overrides, and overrides that catch every response: min is above the bound
\* on SERVFAIL, and max within a second of it.
MCOptions ==
    {[default |-> 10, min |-> 0, max |-> 0], [default |-> 10, min |-> 5, max |-> 6]}
===============================================================================
