--------------------------- MODULE ResolutionProofs ---------------------------
(***************************************************************************)
(* Proofs about Resolution, for any messages, servers and limits: its type    *)
(* invariant, that errors keep the response, that successes and cached         *)
(* messages are complete, and that a descent asks only servers named by the    *)
(* last referral and never writes into the list of the roots.                 *)
(***************************************************************************)
EXTENDS Resolution, Integers, WellFoundedInduction, TLAPS

\* What a resolver below the cache takes for an answer; over HTTP it may be truncated.
Answer(m) == m \in Messages /\ Acceptable(m) /\ (m.tc => base # "dns")
WholeAnswer(m) == m \in Messages /\ Acceptable(m) /\ ~m.tc

\* The request in progress: what it has decoded is not lost, and HTTP serves the primary.
RequestSound ==
    /\ step \in {"idle", "dialUDP", "sendUDP", "doh", "json"} => ~decoded
    /\ step \in {"dialTCP", "sendTCP"} => truncatedUDP \in Messages
    /\ step \in {"doh", "json"} => pc = "primary" /\ base # "dns"
    /\ step = "done" /\ decoded => out.resp \in Messages
    /\ step = "done" /\ out.err = "nil" =>
          Answer(out.resp) /\ (pc = "query" => WholeAnswer(out.resp))

\* The descent: a list of servers of its own, those of the last referral.
DescentSound ==
    /\ resolvers \in Seq(STRING) /\ array = "own" /\ roots = RootServers
    /\ lastResponse \in Messages \cup {NoMessage}
    /\ depth > 0 => lastResponse \in Messages /\ Range(resolvers) \subseteq Range(lastResponse.ns)
    /\ pc \in {"try", "query", "descend"} => depth < MaxDepth /\ resolvers # <<>>
    /\ pc \notin {"try", "query", "descend"} => tries = 0
    /\ pc \in {"query", "descend"} => tries > 0
    /\ pc = "query" => asked \in Range(resolvers)

\* Response and error in hand.
ReplySound ==
    /\ pc \in {"judge", "returned"} /\ reply.err = "nil" => Answer(reply.resp)
    /\ pc \in {"judge", "returned"} /\ reply.err \in {"maxDepth", "cnameDepth"}
          => reply.resp \in Messages
    /\ pc \in {"try", "query"} => reply.err \in Errors /\ (tries > 0 /\ pc = "try" => reply.err # "nil")
    /\ pc = "descend" => reply.err = "nil" /\ WholeAnswer(reply.resp)
    /\ pc = "returned" /\ reply.err = "nil" => ~Unfollowed
    /\ cached \in Cacheable \cup {NoMessage}

IInv == TypeOK /\ RequestSound /\ DescentSound /\ ReplySound

------------------------------------------------------------------------------
(* Server lists.                                                            *)

\* A set of naturals that is not empty has a least element: what is false of no least
\* natural is false of none.
LEMMA Least ==
    ASSUME NEW T \in SUBSET Nat, T # {}
    PROVE  \E x \in T : \A y \in T : x <= y
<1> DEFINE R == OpToRel(<, Nat)
<1>1. \E x \in T : \A y \in T : ~ (<<y, x>> \in R)
  BY NatLessThanWellFounded, WFMin
<1>2. ASSUME NEW x \in Nat, NEW y \in Nat, ~(<<y, x>> \in R) PROVE x <= y
  <2>1. R = {ss \in Nat \X Nat : ss[1] < ss[2]}
    BY Zenon DEF OpToRel
  <2> HIDE DEF R
  <2>. QED
    BY <1>2, <2>1
<1> HIDE DEF R
<1>. QED
  BY <1>1, <1>2

\* What the loop over the name servers has kept after turn n, if kept holds what it had
\* kept before.
Filled(kept, ns, n) ==
    IF n = 0 THEN <<>>
    ELSE IF ns[n] \in Malformed THEN kept[n - 1] ELSE Append(kept[n - 1], ns[n])

\* The loop is defined on every list.
LEMMA RefillDefined ==
    ASSUME NEW S, NEW ns \in Seq(S)
    PROVE  \E kept : kept = [n \in 0..Len(ns) |-> Filled(kept, ns, n)]
<1> DEFINE Fills(f, m) == f = [n \in 0..m |-> Filled(f, ns, n)]
           Missing == {m \in 0..Len(ns) : ~\E f : Fills(f, m)}
<1>1. ASSUME NEW m \in Missing, \A n \in Missing : m <= n PROVE FALSE
  <2>1. m # 0
    <3>1. Fills([n \in 0..0 |-> <<>>], 0)
      BY DEF Filled
    <3>. QED
      BY <3>1
  <2>2. m \in Nat /\ m - 1 \in 0..Len(ns) /\ m - 1 \notin Missing
    <3>1. Missing \subseteq 0..Len(ns) /\ Len(ns) \in Nat
      OBVIOUS
    <3> HIDE DEF Missing
    <3>. QED
      BY <1>1, <2>1, <3>1
  <2>3. PICK f : Fills(f, m - 1)
    BY <2>2
  <2> DEFINE g == [n \in 0..m |-> IF n = m THEN Filled(f, ns, m) ELSE f[n]]
  <2>4. \A n \in 0..(m - 1) : f[n] = Filled(f, ns, n)
    BY <2>2, <2>3
  <2>5. \A n \in 0..m : g[n] = Filled(g, ns, n)
    BY <2>1, <2>2, <2>4 DEF Filled
  <2>6. Fills(g, m)
    BY <2>5
  <2>. QED
    BY <1>1, <2>6
<1>2. Missing = {}
  <2>1. Missing \in SUBSET Nat
    OBVIOUS
  <2> HIDE DEF Missing
  <2>. QED
    BY <1>1, <2>1, Least
<1>3. \E f : Fills(f, Len(ns))
  <2>1. Len(ns) \in 0..Len(ns)
    OBVIOUS
  <2> HIDE DEF Fills
  <2>. QED
    BY <1>2, <2>1
<1>. QED
  BY <1>3

\* Only servers that were named, and are not malformed, are in the list made of them.
LEMMA RefillSound ==
    ASSUME NEW S, NEW ns \in Seq(S)
    PROVE  Refilled(ns) \in Seq(Range(ns) \ Malformed)
<1> DEFINE kept == CHOOSE f : f = [n \in 0..Len(ns) |->
                      IF n = 0 THEN <<>>
                      ELSE IF ns[n] \in Malformed THEN f[n - 1] ELSE Append(f[n - 1], ns[n])]
           Sound == Range(ns) \ Malformed
           Unsound == {n \in 0..Len(ns) : kept[n] \notin Seq(Sound)}
<1>1. kept = [n \in 0..Len(ns) |-> IF n = 0 THEN <<>>
                ELSE IF ns[n] \in Malformed THEN kept[n - 1] ELSE Append(kept[n - 1], ns[n])]
  BY RefillDefined DEF Filled
<1>2. Refilled(ns) = kept[Len(ns)]
  BY DEF Refilled
<1> HIDE DEF kept
<1>3. ASSUME NEW m \in Unsound, \A n \in Unsound : m <= n PROVE FALSE
  <2>1. m # 0
    BY <1>1
  <2>2. m - 1 \in 0..Len(ns) /\ kept[m - 1] \in Seq(Sound)
    BY <1>3, <2>1
  <2>3. ns[m] \notin Malformed => ns[m] \in Sound
    BY <2>1 DEF Range
  <2>4. kept[m] = IF ns[m] \in Malformed THEN kept[m - 1] ELSE Append(kept[m - 1], ns[m])
    BY <1>1, <2>1
  <2>5. kept[m] \notin Seq(Sound)
    BY <1>1
  <2> HIDE DEF Sound, Unsound
  <2>. QED
    BY <2>2, <2>3, <2>4, <2>5
<1>4. Unsound = {}
  <2>1. Unsound \in SUBSET Nat
    OBVIOUS
  <2> HIDE DEF Unsound
  <2>. QED
    BY <1>3, <2>1, Least
<1>. QED
  BY <1>2, <1>4

------------------------------------------------------------------------------
(* The request in progress.                                                 *)

\* The verdict on a message is an error of a request, and nil only for an answer.
LEMMA ValidatedSound ==
    ASSUME NEW m \in Messages
    PROVE  Validated(m) \in Errors /\ (Validated(m) = "nil" => Acceptable(m))
<1>1. m.echo \in {"same", "other", "several", "none"}
      /\ m.rcode \in {"ok", "nx", "refused", "servfail"}
  BY MessageAssumption
<1>2. CASE m.echo = "none"
  BY <1>2 DEF Validated, Errors
<1>3. CASE m.echo \in {"several", "other"}
  BY <1>3 DEF Validated, Errors
<1>4. CASE m.echo = "same" /\ m.rcode \in {"refused", "servfail"}
  BY <1>4 DEF Validated, Errors
<1>5. CASE m.echo = "same" /\ m.rcode \in {"ok", "nx"}
  BY <1>5 DEF Validated, Errors, Acceptable
<1>. QED
  BY <1>1, <1>2, <1>3, <1>4, <1>5

\* The request ends with something that may be returned.
LEMMA FinishSound ==
    ASSUME ExchangeTypeOK, NEW resp \in Messages \cup {NoMessage}, NEW err \in Errors,
           Finish(resp, err), decoded' \in BOOLEAN, UNCHANGED <<pc, base>>,
           decoded' => resp \in Messages,
           err = "nil" => Answer(resp) /\ (pc = "query" => WholeAnswer(resp))
    PROVE  ExchangeTypeOK' /\ RequestSound' /\ step' = "done"
<1>1. step' = "done" /\ truncatedUDP' = NoMessage /\ out' = [resp |-> resp, err |-> err]
  BY DEF Finish, Outcome
<1>2. ExchangeTypeOK'
  BY <1>1 DEF ExchangeTypeOK
<1>3. out'.err = "nil" => Answer(out.resp)' /\ (pc' = "query" => WholeAnswer(out.resp)')
  BY <1>1 DEF Answer, WholeAnswer
<1>. QED
  BY <1>1, <1>2, <1>3 DEF RequestSound, Answer, WholeAnswer

\* Every step of a request keeps what it has decoded and lets only answers through.
LEMMA RequestStep ==
    ASSUME ExchangeTypeOK, RequestSound, Exchanges, UNCHANGED <<pc, base>>
    PROVE  ExchangeTypeOK' /\ RequestSound' /\ step # "idle" /\ step' # "idle"
<1>1. "failed" \in Errors /\ "truncated" \in Errors /\ "failed" # "nil" /\ "truncated" # "nil"
  BY DEF Errors
<1>2. CASE DialUDP
  <2>1. CASE Finish(NoMessage, "failed")
    BY <1>1, <1>2, <2>1, FinishSound DEF DialUDP, RequestSound, ExchangeTypeOK
  <2>2. CASE Reach("sendUDP")
    BY <1>2, <2>2 DEF DialUDP, Reach, RequestSound, ExchangeTypeOK
  <2>. QED
    BY <1>2, <2>1, <2>2 DEF DialUDP
<1>3. CASE SendUDP
  <2>1. CASE Finish(NoMessage, "failed") /\ UNCHANGED decoded
    BY <1>1, <1>3, <2>1, FinishSound DEF SendUDP, RequestSound, ExchangeTypeOK
  <2>2. ASSUME NEW m \in Messages, decoded' = TRUE, Finish(m, "failed")
        PROVE  ExchangeTypeOK' /\ RequestSound' /\ step' # "idle"
    BY <1>1, <2>2, FinishSound
  <2>3. ASSUME NEW m \in Messages, decoded' = TRUE, ~m.tc, Finish(m, Validated(m))
        PROVE  ExchangeTypeOK' /\ RequestSound' /\ step' # "idle"
    BY <2>3, FinishSound, ValidatedSound DEF Answer, WholeAnswer
  <2>4. ASSUME NEW m \in Messages, decoded' = TRUE, step' = "dialTCP", truncatedUDP' = m,
               UNCHANGED out
        PROVE  ExchangeTypeOK' /\ RequestSound' /\ step' # "idle"
    BY <2>4 DEF RequestSound, ExchangeTypeOK
  <2>. QED
    BY <1>3, <2>1, <2>2, <2>3, <2>4 DEF SendUDP
<1>4. CASE DialTCP
  <2>1. CASE Finish(truncatedUDP, "failed")
    BY <1>1, <1>4, <2>1, FinishSound DEF DialTCP, RequestSound, ExchangeTypeOK
  <2>2. CASE Reach("sendTCP")
    BY <1>4, <2>2 DEF DialTCP, Reach, RequestSound, ExchangeTypeOK
  <2>. QED
    BY <1>4, <2>1, <2>2 DEF DialTCP
<1>5. CASE SendTCP
  <2>1. CASE Finish(truncatedUDP, "failed")
    BY <1>1, <1>5, <2>1, FinishSound DEF SendTCP, RequestSound, ExchangeTypeOK
  <2>2. ASSUME NEW m \in Messages, Finish(m, IF m.tc THEN "truncated" ELSE Validated(m)),
               UNCHANGED decoded
        PROVE  ExchangeTypeOK' /\ RequestSound' /\ step' # "idle"
    <3>1. CASE m.tc
      BY <1>1, <2>2, <3>1, FinishSound DEF ExchangeTypeOK
    <3>2. CASE ~m.tc
      BY <2>2, <3>2, FinishSound, ValidatedSound DEF ExchangeTypeOK, Answer, WholeAnswer
    <3>. QED
      BY <3>1, <3>2
  <2>. QED
    BY <1>5, <2>1, <2>2 DEF SendTCP
<1>6. CASE AskDoH \/ AskJSON
  <2>1. pc = "primary" /\ base # "dns" /\ step # "idle" /\ ~decoded
    BY <1>6 DEF AskDoH, AskJSON, RequestSound
  <2>2. CASE Finish(NoMessage, "failed") /\ UNCHANGED decoded
    BY <1>1, <2>1, <2>2, FinishSound DEF ExchangeTypeOK
  <2>3. ASSUME NEW m \in Messages, decoded' = TRUE,
               Finish(m, "failed") \/ Finish(m, Validated(m))
        PROVE  ExchangeTypeOK' /\ RequestSound' /\ step' # "idle"
    <3>1. CASE Finish(m, "failed")
      BY <1>1, <2>3, <3>1, FinishSound
    <3>2. CASE Finish(m, Validated(m))
      BY <2>1, <2>3, <3>2, FinishSound, ValidatedSound DEF Answer
    <3>. QED
      BY <2>3, <3>1, <3>2
  <2>. QED
    BY <1>6, <2>1, <2>2, <2>3 DEF AskDoH, AskJSON, Convertible
<1>. QED
  BY <1>2, <1>3, <1>4, <1>5, <1>6 DEF Exchanges, DialUDP, SendUDP, DialTCP, SendTCP

\* No request is in progress after its outcome has been taken, nor as long as none is asked.
LEMMA NoRequest ==
    ASSUME TypeOK, RequestSound, Taken \/ (step = "idle" /\ UNCHANGED exchangeVars),
           UNCHANGED base
    PROVE  ExchangeTypeOK' /\ RequestSound' /\ step' = "idle"
<1>1. "nil" \in Errors
  BY DEF Errors
<1>2. CASE Taken
  BY <1>1, <1>2 DEF Taken, Outcome, TypeOK, ExchangeTypeOK, RequestSound
<1>3. CASE step = "idle" /\ UNCHANGED exchangeVars
  BY <1>3 DEF exchangeVars, TypeOK, ExchangeTypeOK, RequestSound
<1>. QED
  BY <1>2, <1>3

------------------------------------------------------------------------------
(* The call.                                                                *)

Quiet == pc \notin {"primary", "query"}

\* What holds of the request, given where the call stands before and after a step.
LEMMA RequestOver ==
    ASSUME IInv, UNCHANGED base,
           (pc \in {"primary", "query"} /\ Taken) \/ (Quiet /\ UNCHANGED exchangeVars)
    PROVE  ExchangeTypeOK' /\ RequestSound' /\ step' = "idle"
<1>1. Quiet => step = "idle"
  BY DEF IInv, TypeOK, Quiet
<1>. QED
  BY <1>1, NoRequest DEF IInv

\* A new request, over HTTP only for the primary.
LEMMA AskSound ==
    ASSUME IInv, Quiet, NEW via \in Transports, Ask(via), UNCHANGED base,
           via # "dns" => pc' = "primary" /\ base # "dns"
    PROVE  ExchangeTypeOK' /\ RequestSound' /\ step' # "idle"
<1>1. step = "idle" /\ ~decoded /\ ExchangeTypeOK
  BY DEF IInv, TypeOK, Quiet, RequestSound
<1>2. step' \in {"dialUDP", "doh", "json"} /\ (step' # "dialUDP" => via # "dns")
      /\ UNCHANGED <<truncatedUDP, decoded, out>>
  BY DEF Ask, Transports
<1>. QED
  BY <1>1, <1>2 DEF ExchangeTypeOK, RequestSound

\* A resolver below the primary or the fallback returns what may be returned.
LEMMA DeliverSound ==
    ASSUME IInv, NEW resp \in Messages \cup {NoMessage}, NEW err \in CallErrors,
           Deliver(resp, err), UNCHANGED <<call, hops, roots>>,
           cached' \in Cacheable \cup {NoMessage},
           (pc \in {"primary", "query"} /\ Taken) \/ (Quiet /\ UNCHANGED exchangeVars),
           err = "nil" => Answer(resp),
           err \in {"maxDepth", "cnameDepth"} => resp \in Messages
    PROVE  IInv'
<1>1. ExchangeTypeOK' /\ RequestSound' /\ step' = "idle"
  BY RequestOver DEF call
<1>2. /\ reply' = [resp |-> resp, err |-> err] /\ pc' = "judge"
      /\ depth' = 0 /\ tries' = 0 /\ resolvers' = <<>> /\ array' = "own"
      /\ asked' = NoMessage /\ lastResponse' = NoMessage
      /\ UNCHANGED <<ended, base, qtype, hops, roots>>
  BY DEF Deliver, Goto, Outcome, call
<1>3. TypeOK'
  BY <1>1, <1>2, DepthAssumption DEF IInv, TypeOK
<1>4. DescentSound'
  BY <1>2 DEF IInv, DescentSound
<1>5. Cacheable' = Cacheable
  BY <1>2 DEF Cacheable, Final, TerminalNegative
<1>6. reply'.err = "nil" => Answer(reply.resp)'
  BY <1>2 DEF Answer
<1>7. ReplySound'
  BY <1>2, <1>5, <1>6 DEF ReplySound
<1>. QED
  BY <1>1, <1>3, <1>4, <1>7 DEF IInv

\* The errors of requests and those of the call.
LEMMA ErrorKinds ==
    /\ Errors \subseteq CallErrors /\ {"nil", "ended", "noResolver", "maxDepth", "cnameDepth"} \subseteq CallErrors
    /\ "ended" \notin Errors /\ "maxDepth" \notin Errors /\ "cnameDepth" \notin Errors
    /\ "nil" \in Errors
  BY DEF Errors, CallErrors

\* The primary is asked.
LEMMA FollowStep == ASSUME IInv, Follow PROVE IInv'
<1>1. pc = "follow" /\ pc' = "primary" /\ Ask(base) /\ base \in Transports
      /\ UNCHANGED <<ended, base, qtype, hops, depth, tries, resolvers, array, asked,
                      lastResponse, roots, cached, reply>>
  BY DEF Follow, Goto, IInv, TypeOK, call, descent
<1>2. ExchangeTypeOK' /\ RequestSound' /\ step' # "idle"
  BY <1>1, AskSound DEF Quiet
<1>3. TypeOK'
  BY <1>1, <1>2 DEF IInv, TypeOK
<1>4. DescentSound'
  BY <1>1 DEF IInv, DescentSound
<1>5. Cacheable' = Cacheable
  BY <1>1 DEF Cacheable, Final, TerminalNegative
<1>6. ReplySound'
  BY <1>1, <1>5 DEF IInv, ReplySound
<1>. QED
  BY <1>2, <1>3, <1>4, <1>6 DEF IInv

\* The primary has answered: its answer goes up, its failure leads to the descent.
LEMMA PrimaryDoneStep == ASSUME IInv, PrimaryDone PROVE IInv'
<1>1. pc = "primary" /\ step = "done" /\ Taken /\ UNCHANGED <<call, hops, roots, cached>>
  BY DEF PrimaryDone
<1>2. out.resp \in Messages \cup {NoMessage}
  BY DEF IInv, TypeOK, ExchangeTypeOK
<1>3. Cacheable' = Cacheable
  BY <1>1 DEF Cacheable, Final, TerminalNegative, call
<1>4. CASE out.err = "nil" /\ Deliver(out.resp, "nil")
  BY <1>1, <1>2, <1>4, DeliverSound, ErrorKinds DEF IInv, RequestSound, ReplySound
<1>5. CASE Goto("recurse") /\ UNCHANGED <<reply, descent>>
  <2>1. ExchangeTypeOK' /\ RequestSound' /\ step' = "idle"
    BY <1>1, RequestOver DEF call
  <2>2. TypeOK'
    BY <1>1, <1>5, <2>1 DEF IInv, TypeOK, Goto, call, descent
  <2>3. DescentSound'
    BY <1>1, <1>5 DEF IInv, DescentSound, Goto, descent
  <2>4. ReplySound'
    BY <1>1, <1>3, <1>5 DEF IInv, ReplySound, Goto
  <2>. QED
    BY <2>1, <2>2, <2>3, <2>4 DEF IInv
<1>. QED
  BY <1>4, <1>5 DEF PrimaryDone

\* The verdict on what came back: follow once more, or return it.
LEMMA JudgeStep == ASSUME IInv, Judge PROVE IInv'
<1>1. pc = "judge" /\ UNCHANGED <<exchangeVars, ended, base, qtype, depth, tries, resolvers,
                                  array, asked, lastResponse, roots, cached>>
  BY DEF Judge, call, descent
<1>2. ExchangeTypeOK' /\ RequestSound' /\ step' = "idle"
  BY <1>1, RequestOver DEF Quiet
<1>3. Cacheable' = Cacheable
  BY <1>1 DEF Cacheable, Final, TerminalNegative
<1>4. DescentSound' \/ pc' \notin {"returned", "follow"}
  BY <1>1 DEF IInv, DescentSound
<1>5. CASE ~Unfollowed /\ pc' = "returned" /\ UNCHANGED <<hops, reply>>
  <2>1. TypeOK'
    BY <1>1, <1>2, <1>5 DEF IInv, TypeOK
  <2>2. ReplySound'
    BY <1>1, <1>3, <1>5 DEF IInv, ReplySound, Answer, Unfollowed, Dangling
  <2>. QED
    BY <1>2, <1>4, <1>5, <2>1, <2>2 DEF IInv
<1>6. CASE HopsLeft /\ hops' = hops + 1 /\ pc' = "follow" /\ UNCHANGED reply
  <2>1. TypeOK'
    BY <1>1, <1>2, <1>6, DepthAssumption DEF IInv, TypeOK, HopsLeft
  <2>2. ReplySound'
    BY <1>1, <1>3, <1>6 DEF IInv, ReplySound
  <2>. QED
    BY <1>2, <1>4, <1>6, <2>1, <2>2 DEF IInv
<1>7. CASE /\ Unfollowed /\ reply' = [reply EXCEPT !.err = "cnameDepth"]
           /\ pc' = "returned" /\ UNCHANGED hops
  <2>1. reply \in [resp : Messages \cup {NoMessage}, err : CallErrors]
    BY DEF IInv, TypeOK
  <2>2. reply'.resp = reply.resp /\ reply'.err = "cnameDepth"
        /\ reply' \in [resp : Messages \cup {NoMessage}, err : CallErrors]
    BY <1>7, <2>1, ErrorKinds
  <2>3. reply.resp \in Messages
    BY <1>1, <1>7 DEF IInv, ReplySound, Unfollowed, Answer
  <2>4. TypeOK'
    BY <1>1, <1>2, <1>7, <2>2 DEF IInv, TypeOK
  <2>5. ReplySound'
    BY <1>1, <1>3, <1>7, <2>2, <2>3 DEF IInv, ReplySound
  <2>. QED
    BY <1>2, <1>4, <1>7, <2>4, <2>5 DEF IInv
<1>. QED
  BY <1>5, <1>6, <1>7 DEF Judge, Goto

------------------------------------------------------------------------------
(* The descent.                                                             *)

\* The messages the resolver has at hand without asking anybody are answers.
LEMMA AtHand ==
    /\ WholeAnswer(NoSuchZone)
    /\ \A m \in Cacheable : WholeAnswer(m)
    /\ \A m : WholeAnswer(m) => Answer(m)
  BY NoSuchZoneAssumption DEF WholeAnswer, Answer, Acceptable, Cacheable, NoSuchZone

\* The cache answers, or there is no such zone, or a descent starts with a list of its own.
LEMMA RecurseStep == ASSUME IInv, Recurse PROVE IInv'
<1>1. pc = "recurse" /\ UNCHANGED <<exchangeVars, call, hops, roots, cached>>
  BY DEF Recurse
<1>2. cached \in Cacheable \cup {NoMessage} /\ Cacheable \subseteq Messages
  BY DEF IInv, ReplySound, Cacheable
<1>3. Cacheable' = Cacheable
  BY <1>1 DEF Cacheable, Final, TerminalNegative, call
<1>4. CASE cached # NoMessage /\ Deliver(cached, "nil")
  BY <1>1, <1>2, <1>3, <1>4, AtHand, DeliverSound, ErrorKinds DEF Quiet
<1>5. CASE Deliver(NoSuchZone, "nil")
  BY <1>1, <1>2, <1>3, <1>5, AtHand, DeliverSound, ErrorKinds, NoSuchZoneAssumption DEF Quiet
<1>6. ASSUME NEW servers \in Zones,
             \/ servers # <<>> /\ resolvers' = servers /\ array' = "own"
             \/ servers = <<>> /\ FromRoots,
             depth' = 0, lastResponse' = NoMessage, pc' = "turn", UNCHANGED <<tries, asked, reply>>
      PROVE  IInv'
  <2>1. resolvers' \in Seq(STRING) /\ array' = "own" /\ tries = 0
    BY <1>1, <1>6, ServerAssumption DEF FromRoots, IInv, DescentSound
  <2>2. ExchangeTypeOK' /\ RequestSound' /\ step' = "idle"
    BY <1>1, RequestOver DEF Quiet, call
  <2>3. TypeOK'
    BY <1>1, <1>6, <2>1, <2>2, DepthAssumption DEF IInv, TypeOK, call
  <2>4. DescentSound'
    BY <1>1, <1>6, <2>1 DEF IInv, DescentSound
  <2>5. ReplySound'
    BY <1>1, <1>3, <1>6 DEF IInv, ReplySound
  <2>. QED
    BY <2>2, <2>3, <2>4, <2>5 DEF IInv
<1>. QED
  BY <1>4, <1>5, <1>6 DEF Recurse, Goto

\* A turn begins unless the depth is reached, with a last referral, or no server is left.
LEMMA TurnStep == ASSUME IInv, Turn PROVE IInv'
<1>1. pc = "turn" /\ UNCHANGED <<exchangeVars, call, hops, roots, cached>>
  BY DEF Turn
<1>2. /\ cached \in Cacheable \cup {NoMessage} /\ lastResponse \in Messages \cup {NoMessage}
      /\ (depth > 0 => lastResponse \in Messages) /\ tries = 0 /\ depth \in Nat
  BY <1>1 DEF IInv, ReplySound, DescentSound, TypeOK
<1>3. Cacheable' = Cacheable
  BY <1>1 DEF Cacheable, Final, TerminalNegative, call
<1>4. CASE depth >= MaxDepth /\ Deliver(lastResponse, "maxDepth")
  BY <1>1, <1>2, <1>3, <1>4, DepthAssumption, DeliverSound, ErrorKinds DEF Quiet
<1>5. CASE Deliver(lastResponse, "noResolver")
  BY <1>1, <1>2, <1>3, <1>5, DeliverSound, ErrorKinds DEF Quiet
<1>6. CASE /\ depth < MaxDepth /\ resolvers # <<>> /\ reply' = Outcome(NoMessage, "nil")
           /\ pc' = "try" /\ UNCHANGED descent
  <2>1. ExchangeTypeOK' /\ RequestSound' /\ step' = "idle"
    BY <1>1, RequestOver DEF Quiet, call
  <2>2. TypeOK'
    BY <1>1, <1>6, <2>1, ErrorKinds DEF IInv, TypeOK, call, descent, Outcome
  <2>3. DescentSound'
    BY <1>1, <1>6 DEF IInv, DescentSound, descent
  <2>4. ReplySound'
    BY <1>1, <1>2, <1>3, <1>6, ErrorKinds DEF IInv, ReplySound, Outcome, descent
  <2>. QED
    BY <2>1, <2>2, <2>3, <2>4 DEF IInv
<1>. QED
  BY <1>4, <1>5, <1>6 DEF Turn, Goto

\* A server of the list is asked over UDP and TCP, or the turn has failed.
LEMMA TryStep == ASSUME IInv, Try PROVE IInv'
<1>1. pc = "try" /\ UNCHANGED <<call, hops, roots, cached>>
  BY DEF Try
<1>2. /\ cached \in Cacheable \cup {NoMessage} /\ reply.resp \in Messages \cup {NoMessage}
      /\ reply.err \in Errors /\ (tries > 0 => reply.err # "nil")
      /\ resolvers # <<>> /\ resolvers \in Seq(STRING) /\ tries \in 0..Len(resolvers)
  BY <1>1 DEF IInv, ReplySound, DescentSound, TypeOK
<1>3. Cacheable' = Cacheable
  BY <1>1 DEF Cacheable, Final, TerminalNegative, call
<1>4. CASE /\ tries < Len(resolvers) /\ tries' = tries + 1 /\ asked' \in Range(resolvers)
           /\ Ask("dns") /\ pc' = "query"
           /\ UNCHANGED <<depth, resolvers, array, lastResponse, reply>>
  <2>1. ExchangeTypeOK' /\ RequestSound' /\ step' # "idle"
    BY <1>1, <1>4, AskSound DEF Quiet, call, Transports
  <2>2. TypeOK'
    BY <1>1, <1>2, <1>4, <2>1 DEF IInv, TypeOK, call
  <2>3. DescentSound'
    BY <1>1, <1>2, <1>4 DEF IInv, DescentSound
  <2>4. ReplySound'
    BY <1>1, <1>2, <1>3, <1>4 DEF IInv, ReplySound
  <2>. QED
    BY <2>1, <2>2, <2>3, <2>4 DEF IInv
<1>5. CASE Deliver(reply.resp, "ended") /\ UNCHANGED exchangeVars
  BY <1>1, <1>2, <1>3, <1>5, DeliverSound, ErrorKinds DEF Quiet
<1>6. CASE tries >= Len(resolvers) /\ Deliver(reply.resp, reply.err) /\ UNCHANGED exchangeVars
  <2>1. Len(resolvers) > 0
    BY <1>2
  <2>2. reply.err # "nil"
    BY <1>2, <1>6, <2>1
  <2>. QED
    BY <1>1, <1>2, <1>3, <1>6, <2>2, DeliverSound, ErrorKinds DEF Quiet
<1>. QED
  BY <1>4, <1>5, <1>6 DEF Try, Goto

\* The server has answered: an answer is examined, after a failure comes the next try.
LEMMA QueryDoneStep == ASSUME IInv, QueryDone PROVE IInv'
<1>1. /\ pc = "query" /\ step = "done" /\ Taken /\ reply' = out
      /\ pc' = IF out.err = "nil" THEN "descend" ELSE "try"
      /\ UNCHANGED <<ended, base, qtype, hops, depth, tries, resolvers, array, asked,
                     lastResponse, roots, cached>>
  BY DEF QueryDone, Goto, call, descent
<1>2. out \in [resp : Messages \cup {NoMessage}, err : Errors]
  BY DEF IInv, TypeOK, ExchangeTypeOK
<1>3. ExchangeTypeOK' /\ RequestSound' /\ step' = "idle"
  BY <1>1, RequestOver
<1>4. Cacheable' = Cacheable
  BY <1>1 DEF Cacheable, Final, TerminalNegative
<1>5. TypeOK'
  BY <1>1, <1>2, <1>3, ErrorKinds DEF IInv, TypeOK
<1>6. DescentSound'
  BY <1>1 DEF IInv, DescentSound
<1>7. out.err = "nil" => WholeAnswer(out.resp)
  BY <1>1 DEF IInv, RequestSound
<1>8. ReplySound'
  BY <1>1, <1>2, <1>4, <1>7 DEF IInv, ReplySound, WholeAnswer, Acceptable
<1>. QED
  BY <1>3, <1>5, <1>6, <1>8 DEF IInv

\* What is final goes into the cache and up; a referral replaces the list by its own
\* servers, in an array that is not that of the roots.
LEMMA DescendStep == ASSUME IInv, Descend PROVE IInv'
<1> DEFINE m == reply.resp
           servers == Refilled(m.ns)
<1>1. pc = "descend" /\ UNCHANGED <<exchangeVars, call, hops>>
  BY DEF Descend
<1>2. WholeAnswer(m) /\ m \in Messages /\ cached \in Cacheable \cup {NoMessage} /\ array = "own"
  BY <1>1 DEF IInv, ReplySound, DescentSound, WholeAnswer
<1>3. Cacheable' = Cacheable
  BY <1>1 DEF Cacheable, Final, TerminalNegative, call
<1>4. CASE /\ cached' \in IF Final(m) THEN {m, cached} ELSE {cached}
           /\ Deliver(m, "nil") /\ UNCHANGED roots
  <2>1. cached' \in Cacheable \cup {NoMessage}
    BY <1>2, <1>4 DEF Cacheable, WholeAnswer
  <2>. QED
    BY <1>1, <1>2, <1>4, <2>1, AtHand, DeliverSound, ErrorKinds DEF Quiet
<1>5. CASE /\ resolvers' = servers
           /\ roots' = IF array = "roots" THEN Overwritten(roots, servers) ELSE roots
           /\ array' = IF Len(servers) > Len(roots) THEN "own" ELSE array
           /\ CountDepth /\ tries' = 0 /\ asked' = NoMessage /\ lastResponse' = m
           /\ pc' = "turn" /\ UNCHANGED <<cached, reply>>
  <2>1. m.ns \in Seq(STRING)
    BY <1>2, MessageAssumption
  <2>2. servers \in Seq(Range(m.ns) \ Malformed)
    BY <2>1, RefillSound
  <2>3. servers \in Seq(STRING) /\ Range(servers) \subseteq Range(m.ns)
    <3>1. Range(m.ns) \subseteq STRING
      BY <2>1 DEF Range
    <3> HIDE DEF servers
    <3>. QED
      BY <2>2, <3>1 DEF Range
  <2>4. array' = "own" /\ UNCHANGED roots
    BY <1>2, <1>5
  <2>5. ExchangeTypeOK' /\ RequestSound' /\ step' = "idle"
    BY <1>1, RequestOver DEF Quiet, call
  <2>6. depth' \in 0..MaxDepth
    BY <1>1, <1>5, DepthAssumption DEF IInv, TypeOK, DescentSound, CountDepth
  <2> HIDE DEF servers, m
  <2>7. TypeOK'
    BY <1>1, <1>5, <2>3, <2>5, <2>6 DEF IInv, TypeOK, call
  <2>8. DescentSound'
    BY <1>1, <1>2, <1>5, <2>3, <2>4 DEF IInv, DescentSound
  <2>9. ReplySound'
    BY <1>1, <1>3, <1>5 DEF IInv, ReplySound
  <2>. QED
    BY <2>5, <2>7, <2>8, <2>9 DEF IInv
<1>. QED
  BY <1>4, <1>5 DEF Descend, Goto

------------------------------------------------------------------------------
(* The theorems.                                                            *)

\* The invariant holds initially.
LEMMA IInvInit == ASSUME Init PROVE IInv
<1>1. TypeOK
  <2>1. Len(resolvers) = 0 /\ tries \in 0..Len(resolvers)
    BY DEF Init
  <2>2. ExchangeTypeOK
    BY ErrorKinds DEF Init, ExchangeInit, ExchangeTypeOK, Outcome
  <2>. QED
    BY <2>1, <2>2, ErrorKinds, DepthAssumption DEF Init, ExchangeInit, TypeOK, Outcome
<1>2. RequestSound /\ DescentSound /\ ReplySound
  BY DEF Init, ExchangeInit, RequestSound, DescentSound, ReplySound
<1>. QED
  BY <1>1, <1>2 DEF IInv

\* Every step keeps the invariant.
LEMMA IInvStep == ASSUME IInv, [Next]_vars PROVE IInv'
<1>1. CASE Request
  <2>1. Exchanges /\ UNCHANGED <<ended, base, qtype, pc, hops, depth, tries, resolvers, array,
                                 asked, lastResponse, roots, cached, reply>>
    BY <1>1 DEF Request, call, descent
  <2>2. ExchangeTypeOK' /\ RequestSound' /\ step # "idle" /\ step' # "idle"
    BY <2>1, RequestStep DEF IInv, TypeOK
  <2>3. Cacheable' = Cacheable
    BY <2>1 DEF Cacheable, Final, TerminalNegative
  <2>4. TypeOK'
    BY <2>1, <2>2 DEF IInv, TypeOK
  <2>5. DescentSound'
    BY <2>1 DEF IInv, DescentSound
  <2>6. ReplySound'
    BY <2>1, <2>3 DEF IInv, ReplySound, Answer, Unfollowed, Dangling
  <2>. QED
    BY <2>2, <2>4, <2>5, <2>6 DEF IInv
\* Steps of the environment, and none.
<1>2. ASSUME UNCHANGED <<exchangeVars, base, qtype, pc, hops, descent, roots, reply>>,
             ended' \in BOOLEAN, cached' \in Cacheable \cup {NoMessage}
      PROVE  IInv'
  <2>1. UNCHANGED <<step, truncatedUDP, decoded, out, base, qtype, pc, hops, depth, tries,
                    resolvers, array, asked, lastResponse, roots, reply>>
    BY <1>2 DEF exchangeVars, descent
  <2>2. Cacheable' = Cacheable
    BY <2>1 DEF Cacheable, Final, TerminalNegative
  <2>3. TypeOK'
    BY <1>2, <2>1 DEF IInv, TypeOK, ExchangeTypeOK
  <2>4. RequestSound'
    BY <2>1 DEF IInv, RequestSound, Answer
  <2>5. DescentSound'
    BY <2>1 DEF IInv, DescentSound
  <2>6. ReplySound'
    BY <1>2, <2>1, <2>2 DEF IInv, ReplySound, Answer, Unfollowed, Dangling
  <2>. QED
    BY <2>3, <2>4, <2>5, <2>6 DEF IInv
<1>3. CASE Others
  BY <1>2, <1>3 DEF Others, call, IInv, TypeOK
<1>4. CASE EndContext
  BY <1>2, <1>4 DEF EndContext, IInv, ReplySound
<1>5. CASE UNCHANGED vars
  BY <1>2, <1>5 DEF vars, descent, IInv, TypeOK, ReplySound
<1>. QED
  BY <1>1, <1>3, <1>4, <1>5, FollowStep, PrimaryDoneStep, JudgeStep, RecurseStep, TurnStep,
     TryStep, QueryDoneStep, DescendStep
  DEF Next, Progress

\* The inductive invariant holds of every execution of a call.
THEOREM Invariance == Spec => []IInv
<1>1. Init => IInv
  BY IInvInit
<1>2. IInv /\ [Next]_vars => IInv'
  BY IInvStep
<1>. QED
  BY <1>1, <1>2, PTL DEF Spec

\* Type correctness: the limits on aliases, referrals and tries are kept, and a request
\* is in progress exactly while somebody waits for it.
THEOREM TypeCorrect == Spec => []TypeOK
<1>1. IInv => TypeOK
  BY DEF IInv
<1>. QED
  BY <1>1, Invariance, PTL

\* An error does not lose a response that was decoded.
THEOREM ResponseSurvives == Spec => []ErrorKeepsResponse
<1>1. IInv => ErrorKeepsResponse
  BY MessageAssumption DEF IInv, RequestSound, ReplySound, ErrorKeepsResponse
<1>. QED
  BY <1>1, Invariance, PTL

\* What is returned without an error, and what is cached, is a complete answer.
THEOREM SuccessIsComplete == Spec => []SuccessComplete
<1>1. IInv => SuccessComplete
  BY DEF IInv, ReplySound, SuccessComplete, Answer
<1>. QED
  BY <1>1, Invariance, PTL

\* A descent asks servers of the last referral, and the roots stay as they are.
THEOREM ListStaysCurrent == Spec => []ListCurrent
<1>1. IInv => ListCurrent
  BY DEF IInv, DescentSound, ListCurrent
<1>. QED
  BY <1>1, Invariance, PTL
==============================================================================
