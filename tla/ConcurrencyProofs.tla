-------------------------- MODULE ConcurrencyProofs --------------------------
(***************************************************************************)
(* Proofs about Concurrency, for any number of candidates and of tries: its   *)
(* type invariant, that a call with a live context fails only after every     *)
(* candidate, that a cancellation in its error is the caller's own, and that a *)
(* failing call returns the first response it took.                          *)
(***************************************************************************)
EXTENDS Concurrency, FiniteSetTheorems, TLAPS

\* The results that are out, in the channel or taken, come from candidates that are
\* done, one from each.
Distinct(s) == \A i, j \in DOMAIN s : i # j => s[i] # s[j]
AllSent(s) == \A i \in DOMAIN s : at[s[i]] = "sent"
Delivered ==
    /\ AllSent(results) /\ AllSent(received)
    /\ Distinct(results) /\ Distinct(received)
    /\ \A i \in DOMAIN results, j \in DOMAIN received : results[i] # received[j]

\* As long as the call goes on, all it has taken are failures, and nothing was canceled
\* but by the caller.
AllFailed(s) == \A i \in DOMAIN s : reply[s[i]].err # "nil"
CanceledByCaller ==
    /\ lookupCtx = "canceled" => caller = "canceled"
    /\ \A k \in Chains : context[k] = "canceled" \/ reply[k].err = "canceled" => caller = "canceled"
Ongoing == AllFailed(received) /\ CanceledByCaller

IdleCandidates == pc = "idle" => \A k \in Chains : at[k] = "none"

IInv ==
    /\ TypeOK
    /\ Delivered /\ IdleCandidates
    /\ pc # "done" => Ongoing /\ IsFirstResponse(failedResponse)
    /\ FailsOnlyAfterAll
    /\ CanceledOnlyByCaller
    /\ FirstResponseKept

------------------------------------------------------------------------------
(* One candidate.                                                           *)

ChainStep(k) ==
    Begin(k, lookupCtx) \/ Try(k) \/ GiveUp(k) \/ Leave(k) \/ InnerAnswers(k) \/ Expire(k)

\* Replies.
LEMMA ReplyType ==
    ASSUME NEW resp \in BOOLEAN, NEW err \in Errors
    PROVE  /\ Reply(resp, err) \in Replies
           /\ Reply(resp, err).resp = resp /\ Reply(resp, err).err = err
  BY DEF Reply, Replies

\* Normalization keeps a reply or makes it a failure; a nil error comes with a response.
LEMMA NormalizedType ==
    ASSUME NEW r \in Replies
    PROVE  /\ Normalized(r) \in Replies
           /\ Normalized(r).err = "nil" => Normalized(r).resp
           /\ Normalized(r).err \in {r.err, "failed"}
<1>1. CASE r = Reply(FALSE, "nil")
  <2>1. Normalized(r) = Reply(FALSE, "failed")
    BY <1>1 DEF Normalized
  <2>. QED
    BY <2>1, ReplyType DEF Errors
<1>2. CASE r # Reply(FALSE, "nil")
  <2>1. Normalized(r) = r
    BY <1>2 DEF Normalized
  <2>2. r = [resp |-> r.resp, err |-> r.err] /\ r.resp \in BOOLEAN
    BY DEF Replies
  <2>3. r.err = "nil" => r.resp
    BY <1>2, <2>2 DEF Reply
  <2>. QED
    BY <2>1, <2>3
<1>. QED
  BY <1>1, <1>2

\* What one candidate's step does, before it sends.
LEMMA ChainEffect ==
    ASSUME TypeOK, NEW k \in Chains, ChainStep(k)
    PROVE  /\ ChainTypeOK'
           /\ at[k] \notin {"none", "sent"} /\ at'[k] # "sent"
           /\ \A j \in Chains \ {k} :
                 at'[j] = at[j] /\ reply'[j] = reply[j] /\ context'[j] = context[j]
           /\ reply'[k].err \in {"nil", "failed", reply[k].err} \cup ({context[k]} \ {"live"})
           /\ context'[k] \in {context[k], lookupCtx, "expired"}
<1>1. /\ ChainTypeOK /\ at \in [Chains -> {"none", "ready", "try", "call", "timed", "left", "sent"}]
      /\ context \in [Chains -> Contexts] /\ lookupCtx \in Contexts
      /\ attempt \in [Chains -> Nat] /\ reply \in [Chains -> Replies]
      /\ Retry \in [Chains -> Nat]
  BY RetryAssumption DEF TypeOK, ChainTypeOK
<1>2. reply[k] \in Replies /\ reply[k].resp \in BOOLEAN /\ reply[k].err \in Errors
  BY <1>1 DEF Replies
<1>3. Contexts \ {"live"} \subseteq Errors \ {"nil"}
  BY DEF Contexts, Errors
<1>4. CASE Begin(k, lookupCtx)
  BY <1>1, <1>2, <1>4 DEF Begin, Goto, ChainTypeOK
<1>5. CASE Expire(k)
  BY <1>1, <1>2, <1>5 DEF Expire, Limited, ChainTypeOK, Contexts
\* A reply that takes the place of the last one.
<1>6. ASSUME NEW r \in Replies, reply' = [reply EXCEPT ![k] = r],
             NEW point \in {"try", "timed", "left"}, Goto(k, point),
             r.err = "nil" => r.resp, UNCHANGED <<context, attempt>>
      PROVE  /\ ChainTypeOK' /\ at'[k] = point /\ reply'[k] = r
             /\ \A j \in Chains \ {k} : at'[j] = at[j] /\ reply'[j] = reply[j]
  BY <1>1, <1>6 DEF Goto, ChainTypeOK
\* An error that takes the place of the last one.
<1>7. ASSUME NEW err \in Errors \ {"nil"}, reply' = [reply EXCEPT ![k].err = err],
             NEW point \in {"timed", "left"}, Goto(k, point), UNCHANGED <<context, attempt>>
      PROVE  /\ ChainTypeOK' /\ at'[k] = point /\ reply'[k].err = err
             /\ \A j \in Chains \ {k} : at'[j] = at[j] /\ reply'[j] = reply[j]
  <2> DEFINE r == Reply(reply[k].resp, err)
  <2>1. [reply[k] EXCEPT !.err = err] = r
    BY <1>2 DEF Reply, Replies
  <2>2. reply' = [reply EXCEPT ![k] = r]
    BY <1>7, <2>1
  <2>3. r \in Replies /\ r.err = err
    BY <1>2, ReplyType
  <2> HIDE DEF r
  <2>. QED
    BY <1>6, <1>7, <2>2, <2>3
<1>8. CASE Try(k)
  <2>1. CASE context[k] = "live" /\ UNCHANGED reply
    BY <1>1, <1>2, <1>8, <2>1 DEF Try, Goto, ChainTypeOK
  <2>2. CASE context[k] # "live"
    <3>1. context[k] \in Errors \ {"nil"}
      BY <1>1, <1>3, <2>2
    <3>2. reply' = [reply EXCEPT ![k].err = context[k]] /\ Goto(k, "timed") /\ at[k] = "try"
          /\ UNCHANGED <<context, attempt>>
      BY <1>8, <2>2 DEF Try
    <3>3. ChainTypeOK' /\ at'[k] = "timed" /\ reply'[k].err = context[k]
          /\ \A j \in Chains \ {k} : at'[j] = at[j] /\ reply'[j] = reply[j]
      BY <1>7, <3>1, <3>2
    <3>. QED
      BY <2>2, <3>2, <3>3
  <2>. QED
    BY <1>8, <2>1, <2>2 DEF Try
<1>9. CASE GiveUp(k)
  <2>1. reply' = [reply EXCEPT ![k] = Normalized(reply[k])]
    BY <1>9 DEF GiveUp
  <2>. QED
    BY <1>2, <1>6, <1>9, <2>1, NormalizedType DEF GiveUp
<1>10. CASE InnerAnswers(k)
  <2>1. PICK r \in Answers(k) :
          /\ reply' = [reply EXCEPT ![k] = Normalized(r)]
          /\ Goto(k, IF Normalized(r).err = "nil" THEN "timed" ELSE "try")
    BY <1>10 DEF InnerAnswers
  <2>2. r \in Replies /\ r.err \in {"nil", "failed"} \cup ({context[k]} \ {"live"})
    BY <1>1, <1>3 DEF Answers, Replies, Errors
  <2>. QED
    BY <1>6, <1>10, <2>1, <2>2, NormalizedType DEF InnerAnswers
<1>11. CASE Leave(k)
  <2>1. at[k] = "timed" /\ Goto(k, "left") /\ UNCHANGED <<context, attempt>>
    BY <1>11 DEF Leave
  <2>2. CASE context[k] = "live"
    <3>1. reply' = [reply EXCEPT ![k] = reply[k]]
      <4>1. [reply[k] EXCEPT !.err = reply[k].err] = reply[k]
        BY <1>2 DEF Replies
      <4>. QED
        BY <1>11, <2>2, <4>1 DEF Leave
    <3>2. reply[k].err = "nil" => reply[k].resp
      BY <1>1, <2>1 DEF ChainTypeOK
    <3>. QED
      BY <1>2, <1>6, <2>1, <3>1, <3>2
  <2>3. CASE context[k] # "live"
    <3>1. context[k] \in Errors \ {"nil"}
      BY <1>1, <1>3, <2>3
    <3>2. reply' = [reply EXCEPT ![k].err = context[k]]
      BY <1>11, <2>3 DEF Leave
    <3>3. ChainTypeOK' /\ at'[k] = "left" /\ reply'[k].err = context[k]
          /\ \A j \in Chains \ {k} : at'[j] = at[j] /\ reply'[j] = reply[j]
      BY <1>7, <2>1, <3>1, <3>2
    <3>. QED
      BY <2>1, <2>3, <3>3
  <2>. QED
    BY <2>2, <2>3
<1>. QED
  BY <1>4, <1>5, <1>8, <1>9, <1>10, <1>11 DEF ChainStep

\* The end of a context derived from another.
LEMMA EndEffect ==
    ASSUME TypeOK, NEW how \in {"canceled", "expired"}, End(how),
           UNCHANGED <<at, attempt, reply>>
    PROVE  /\ ChainTypeOK'
           /\ \A k \in Chains : context'[k] \in {context[k], how}
  BY DEF TypeOK, ChainTypeOK, End, Contexts

\* A candidate that left its chain puts its name into the channel.
LEMMA SendEffect ==
    ASSUME TypeOK, NEW k \in Chains, Send(k)
    PROVE  /\ ChainTypeOK' /\ at[k] = "left" /\ at' = [at EXCEPT ![k] = "sent"]
           /\ results' = Append(results, k)
           /\ UNCHANGED <<context, attempt, reply>>
<1>1. /\ at[k] = "left" /\ at' = [at EXCEPT ![k] = "sent"]
      /\ results' = Append(results, k)
      /\ UNCHANGED <<context, attempt, reply>>
  BY DEF Send, Goto
<1>2. ChainTypeOK'
  BY <1>1 DEF TypeOK, ChainTypeOK
<1>. QED
  BY <1>1, <1>2

------------------------------------------------------------------------------
(* Sequences of results.                                                    *)

\* A sequence with one more element.
LEMMA AppendSeq ==
    ASSUME NEW s \in Seq(Chains), NEW k \in Chains
    PROVE  /\ Append(s, k) \in Seq(Chains)
           /\ Len(Append(s, k)) = Len(s) + 1
           /\ DOMAIN Append(s, k) = DOMAIN s \cup {Len(s) + 1}
           /\ Len(s) + 1 \notin DOMAIN s
           /\ \A i \in DOMAIN s : Append(s, k)[i] = s[i]
           /\ Append(s, k)[Len(s) + 1] = k
  OBVIOUS

\* A sequence without its first element.
LEMMA TailSeq ==
    ASSUME NEW s \in Seq(Chains), s # <<>>
    PROVE  /\ Tail(s) \in Seq(Chains) /\ Head(s) \in Chains
           /\ 1 \in DOMAIN s /\ Head(s) = s[1]
           /\ \A i \in DOMAIN Tail(s) : i + 1 \in DOMAIN s /\ i + 1 # 1 /\ Tail(s)[i] = s[i + 1]
           /\ \A i, j \in DOMAIN Tail(s) : i # j => i + 1 # j + 1
  OBVIOUS

\* The elements of a sequence of candidates are candidates.
LEMMA ElementInSet ==
    ASSUME NEW s \in Seq(Chains), NEW i \in DOMAIN s
    PROVE  s[i] \in Chains
  OBVIOUS

\* As many distinct results as there are candidates come from all of them.
LEMMA AllReceived ==
    ASSUME NEW s \in Seq(Chains), Distinct(s), Len(s) = Cardinality(Chains)
    PROVE  \A k \in Chains : \E i \in DOMAIN s : s[i] = k
<1>1. Len(s) \in Nat /\ DOMAIN s = 1..Len(s) /\ s \in [1..Len(s) -> Chains]
  OBVIOUS
<1>2. s \in Injection(1..Len(s), Chains)
  BY <1>1 DEF Distinct, Injection, IsInjective
<1>3. Cardinality(1..Len(s)) = Len(s)
  BY <1>1, FS_Interval
<1>4. s \in Surjection(1..Len(s), Chains)
  BY <1>2, <1>3, CandidatesAssumption, FS_Injection
<1>. QED
  BY <1>1, <1>4 DEF Surjection

------------------------------------------------------------------------------
(* Types.                                                                   *)

\* The types hold initially.
LEMMA TypeInit == Init => TypeOK
<1> SUFFICES ASSUME Init PROVE TypeOK
  OBVIOUS
<1>1. ChainTypeOK
  <2>1. reply = [k \in Chains |-> Reply(FALSE, "nil")] /\ Reply(FALSE, "nil") \in Replies
    BY ReplyType DEF Init, ChainInit, Errors
  <2>2. \A k \in Chains : at[k] = "none" /\ attempt[k] = 0
    BY DEF Init, ChainInit
  <2>3. \A k \in Chains : Retry[k] \in Nat
    BY RetryAssumption
  <2>4. at \in [Chains -> {"none"}] /\ attempt \in [Chains -> {0}]
        /\ context \in [Chains -> {"live"}]
    BY DEF Init, ChainInit
  <2>5. reply \in [Chains -> Replies]
    BY <2>1
  <2>. QED
    BY <2>2, <2>3, <2>4, <2>5 DEF ChainTypeOK, Contexts
<1>2. results \in Seq(Chains) /\ received \in Seq(Chains)
  BY DEF Init
<1>3. result \in [resp : Chains \cup {None}, errs : SUBSET (Errors \ {"nil"})]
  BY DEF Init
<1>. QED
  BY <1>1, <1>2, <1>3 DEF Init, TypeOK, Contexts

\* What is taken from the channel.
LEMMA TakeEffect ==
    ASSUME TypeOK, Take
    PROVE  /\ Head(results) \in Chains /\ results # <<>>
           /\ results' = Tail(results) /\ results' \in Seq(Chains)
           /\ received' = Append(received, Head(results)) /\ received' \in Seq(Chains)
  BY TailSeq, AppendSeq DEF Take, TypeOK

\* Returning keeps the types, whatever is returned.
LEMMA ReturnType ==
    ASSUME TypeOK, NEW resp \in Chains \cup {None}, NEW errs \in SUBSET (Errors \ {"nil"}),
           Return(resp, errs), UNCHANGED <<at, attempt, reply, caller>>,
           results' \in Seq(Chains), received' \in Seq(Chains),
           failedResponse' \in Chains \cup {None}
    PROVE  TypeOK'
<1>1. ChainTypeOK'
  BY EndEffect DEF Return
<1>2. lookupCtx' \in Contexts
  BY DEF Return, TypeOK, Contexts
<1>. QED
  BY <1>1, <1>2 DEF Return, TypeOK

\* Every step keeps the types; those of the joined errors need that all taken are failures.
LEMMA TypeStep == IInv /\ [Next]_vars => TypeOK'
<1> SUFFICES ASSUME IInv, [Next]_vars PROVE TypeOK'
  OBVIOUS
<1>1. TypeOK
  BY DEF IInv
<1>2. Contexts \ {"live"} \subseteq Errors \ {"nil"}
  BY DEF Contexts, Errors
<1>3. CASE Start
  <2>1. CASE caller # "live" /\ pc' = "done" /\ UNCHANGED at
    <3>1. {caller} \in SUBSET (Errors \ {"nil"})
      BY <1>1, <1>2, <2>1 DEF TypeOK
    <3>. QED
      BY <1>1, <1>3, <2>1, <3>1 DEF Start, TypeOK, ChainTypeOK
  <2>2. CASE pc' = "receive" /\ at' = [k \in Chains |-> "ready"] /\ UNCHANGED result
    BY <1>1, <1>3, <2>2 DEF Start, TypeOK, ChainTypeOK
  <2>. QED
    BY <1>3, <2>1, <2>2 DEF Start
<1>4. CASE ReceiveEnded
  <2>1. {caller} \in SUBSET (Errors \ {"nil"})
    BY <1>1, <1>2, <1>4 DEF TypeOK, ReceiveEnded
  <2>. QED
    BY <1>1, <1>4, <2>1, ReturnType DEF ReceiveEnded, TypeOK
<1>5. CASE ReceiveSuccess
  BY <1>1, <1>5, TakeEffect, ReturnType DEF ReceiveSuccess, TypeOK
<1>6. CASE ReceiveFailure
  <2>1. failedResponse' \in Chains \cup {None}
    BY <1>1, <1>6, TakeEffect DEF ReceiveFailure, Kept, TypeOK
  <2>2. CASE Return(failedResponse', Joined)
    <3>1. AllFailed(received)
      BY <1>6 DEF ReceiveFailure, Take, IInv, Ongoing
    <3>2. \A i \in DOMAIN received' : received'[i] \in Chains /\ reply[received'[i]].err # "nil"
      <4>1. /\ received \in Seq(Chains) /\ Head(results) \in Chains
            /\ received' = Append(received, Head(results))
            /\ reply[Head(results)].err # "nil"
        BY <1>1, <1>6, TakeEffect DEF ReceiveFailure, TypeOK
      <4>2. DOMAIN received' = DOMAIN received \cup {Len(received) + 1}
            /\ (\A i \in DOMAIN received : received'[i] = received[i])
            /\ received'[Len(received) + 1] = Head(results)
        BY <4>1, AppendSeq
      <4>3. \A i \in DOMAIN received : received[i] \in Chains /\ reply[received[i]].err # "nil"
        BY <3>1, <4>1, ElementInSet DEF AllFailed
      <4>. QED
        BY <4>1, <4>2, <4>3
    <3>3. \A k \in Chains : reply[k].err \in Errors
      BY <1>1 DEF TypeOK, ChainTypeOK, Replies
    <3>4. Joined \in SUBSET (Errors \ {"nil"})
      BY <3>2, <3>3 DEF Joined
    <3>. QED
      BY <1>1, <1>6, <2>1, <2>2, <3>4, TakeEffect, ReturnType DEF ReceiveFailure
  <2>3. CASE AfterFailure /\ UNCHANGED <<pc, result>>
    BY <1>1, <1>6, <2>1, <2>3, TakeEffect DEF ReceiveFailure, AfterFailure, TypeOK, ChainTypeOK
  <2>. QED
    BY <1>6, <2>2, <2>3 DEF ReceiveFailure
<1>7. CASE EndContext
  <2>1. PICK how \in {"canceled", "expired"} :
           caller' = how /\ lookupCtx' = how /\ End(how)
    BY <1>7 DEF EndContext
  <2>2. ChainTypeOK'
    BY <1>1, <1>7, <2>1, EndEffect DEF EndContext
  <2>. QED
    BY <1>1, <1>7, <2>1, <2>2 DEF EndContext, TypeOK, Contexts
<1>8. ASSUME NEW k \in Chains, Send(k), Run(k) PROVE TypeOK'
  BY <1>1, <1>8, SendEffect, AppendSeq DEF Run, TypeOK
<1>9. ASSUME NEW k \in Chains, ChainStep(k),
             UNCHANGED <<pc, caller, lookupCtx, results, received, failedResponse, result>>
      PROVE  TypeOK'
  BY <1>1, <1>9, ChainEffect DEF TypeOK
<1>10. ASSUME NEW k \in Chains, Run(k) \/ InnerStep(k) \/ Timer(k) PROVE TypeOK'
  BY <1>8, <1>9, <1>10 DEF Run, InnerStep, Timer, ChainStep
<1>11. CASE UNCHANGED vars
  BY <1>1, <1>11 DEF vars, TypeOK, ChainTypeOK
<1>. QED
  BY <1>3, <1>4, <1>5, <1>6, <1>7, <1>10, <1>11 DEF Next, Receive

------------------------------------------------------------------------------
(* The results that are out.                                                *)

\* Nothing that is out changes as long as the candidates that are done do not.
LEMMA DeliveredKept ==
    ASSUME TypeOK, Delivered, UNCHANGED <<results, received>>,
           \A k \in Chains : at[k] = "sent" => at'[k] = "sent"
    PROVE  Delivered'
  BY ElementInSet DEF TypeOK, Delivered, AllSent, Distinct

\* A result moves from the channel to those taken.
LEMMA DeliveredTaken ==
    ASSUME TypeOK, Delivered, Take, UNCHANGED at
    PROVE  Delivered'
<1>1. /\ results \in Seq(Chains) /\ results # <<>> /\ received \in Seq(Chains)
      /\ Head(results) \in Chains
      /\ results' = Tail(results) /\ received' = Append(received, Head(results))
  BY TakeEffect DEF TypeOK
<1>2. /\ 1 \in DOMAIN results /\ Head(results) = results[1]
      /\ \A i \in DOMAIN results' :
            i + 1 \in DOMAIN results /\ i + 1 # 1 /\ results'[i] = results[i + 1]
      /\ \A i, j \in DOMAIN results' : i # j => i + 1 # j + 1
  BY <1>1, TailSeq
<1>3. /\ DOMAIN received' = DOMAIN received \cup {Len(received) + 1}
      /\ \A i \in DOMAIN received : received'[i] = received[i]
      /\ received'[Len(received) + 1] = Head(results)
  BY <1>1, AppendSeq
<1>4. AllSent(results)' /\ AllSent(received)'
  BY <1>2, <1>3 DEF Delivered, AllSent
<1>5. Distinct(results)'
  BY <1>2 DEF Delivered, Distinct
<1>6. \A j \in DOMAIN received : Head(results) # received[j]
  BY <1>2 DEF Delivered
<1>7. Distinct(received)'
  BY <1>3, <1>6 DEF Delivered, Distinct
<1>8. \A i \in DOMAIN results', j \in DOMAIN received' : results'[i] # received'[j]
  BY <1>2, <1>3 DEF Delivered, Distinct
<1>. QED
  BY <1>4, <1>5, <1>7, <1>8 DEF Delivered

\* A candidate that had not sent yet puts its result into the channel.
LEMMA DeliveredSent ==
    ASSUME TypeOK, Delivered, NEW k \in Chains, Send(k), UNCHANGED received
    PROVE  Delivered'
<1>1. /\ results \in Seq(Chains) /\ received \in Seq(Chains)
      /\ at[k] = "left" /\ results' = Append(results, k) /\ at'[k] = "sent"
      /\ \A j \in Chains : at[j] = "sent" => at'[j] = "sent"
  BY SendEffect DEF TypeOK, ChainTypeOK
<1>2. /\ DOMAIN results' = DOMAIN results \cup {Len(results) + 1}
      /\ \A i \in DOMAIN results : results'[i] = results[i]
      /\ results'[Len(results) + 1] = k
  BY <1>1, AppendSeq
<1>3. /\ \A i \in DOMAIN results : results[i] \in Chains /\ results[i] # k
      /\ \A i \in DOMAIN received : received[i] \in Chains /\ received[i] # k
  BY <1>1, ElementInSet DEF Delivered, AllSent
<1>4. AllSent(results)' /\ AllSent(received)'
  BY <1>1, <1>2, <1>3 DEF Delivered, AllSent
<1>5. Distinct(results)' /\ Distinct(received)'
  BY <1>2, <1>3 DEF Delivered, Distinct
<1>6. \A i \in DOMAIN results', j \in DOMAIN received' : results'[i] # received'[j]
  BY <1>2, <1>3 DEF Delivered
<1>. QED
  BY <1>4, <1>5, <1>6 DEF Delivered

\* Every step keeps each result out once.
LEMMA DeliveredStep == IInv /\ [Next]_vars => Delivered' /\ IdleCandidates'
<1> SUFFICES ASSUME IInv, [Next]_vars PROVE Delivered' /\ IdleCandidates'
  OBVIOUS
<1>1. TypeOK /\ Delivered /\ IdleCandidates
  BY DEF IInv
<1>2. CASE Start
  <2>1. pc' # "idle" /\ UNCHANGED <<results, received>>
        /\ \A k \in Chains : at[k] = "none"
    BY <1>1, <1>2 DEF Start, IdleCandidates
  <2>. QED
    BY <1>1, <2>1, DeliveredKept DEF IdleCandidates
<1>3. CASE ReceiveEnded
  BY <1>1, <1>3, DeliveredKept DEF ReceiveEnded, Return, IdleCandidates
<1>4. CASE ReceiveSuccess \/ ReceiveFailure
  <2>1. Take /\ UNCHANGED at /\ pc' # "idle"
    BY <1>4 DEF ReceiveSuccess, ReceiveFailure, Take, Return
  <2>. QED
    BY <1>1, <2>1, DeliveredTaken DEF IdleCandidates
<1>5. CASE EndContext
  BY <1>1, <1>5, DeliveredKept DEF EndContext, IdleCandidates
<1>6. ASSUME NEW k \in Chains, Run(k) \/ InnerStep(k) \/ Timer(k)
      PROVE  Delivered' /\ IdleCandidates'
  <2>1. CASE Send(k) /\ UNCHANGED <<pc, received>>
    <3>1. pc # "idle"
      BY <1>1, <2>1 DEF Send, IdleCandidates
    <3>. QED
      BY <1>1, <2>1, <3>1, DeliveredSent DEF IdleCandidates
  <2>2. CASE ChainStep(k) /\ UNCHANGED <<pc, results, received>>
    <3>1. at[k] \notin {"none", "sent"} /\ \A j \in Chains \ {k} : at'[j] = at[j]
      BY <1>1, <2>2, ChainEffect
    <3>2. pc # "idle" /\ \A j \in Chains : at[j] = "sent" => at'[j] = "sent"
      BY <1>1, <3>1 DEF IdleCandidates
    <3>. QED
      BY <1>1, <2>2, <3>2, DeliveredKept DEF IdleCandidates
  <2>. QED
    BY <1>6, <2>1, <2>2 DEF Run, InnerStep, Timer, ChainStep
<1>7. CASE UNCHANGED vars
  BY <1>1, <1>7 DEF vars, Delivered, AllSent, Distinct, IdleCandidates
<1>. QED
  BY <1>2, <1>3, <1>4, <1>5, <1>6, <1>7 DEF Next, Receive

------------------------------------------------------------------------------
(* The call while it goes on, and what it returns.                          *)

Outcome == (pc # "done" => Ongoing) /\ FailsOnlyAfterAll /\ CanceledOnlyByCaller

\* A failure that is taken joins those taken before.
LEMMA FailedTaken ==
    ASSUME TypeOK, AllFailed(received), Take, UNCHANGED reply, reply[Head(results)].err # "nil"
    PROVE  AllFailed(received)'
<1>1. /\ received \in Seq(Chains) /\ Head(results) \in Chains
      /\ received' = Append(received, Head(results))
  BY TakeEffect DEF TypeOK
<1>2. /\ DOMAIN received' = DOMAIN received \cup {Len(received) + 1}
      /\ \A i \in DOMAIN received : received'[i] = received[i]
      /\ received'[Len(received) + 1] = Head(results)
  BY <1>1, AppendSeq
<1>3. \A i \in DOMAIN received' : reply[received'[i]].err # "nil"
  BY <1>2 DEF AllFailed
<1>. QED
  BY <1>3 DEF AllFailed

\* A step of a candidate.
LEMMA OutcomeRun ==
    ASSUME IInv, NEW k \in Chains, Run(k) \/ InnerStep(k) \/ Timer(k)
    PROVE  Outcome'
<1>1. TypeOK /\ Delivered /\ FailsOnlyAfterAll /\ CanceledOnlyByCaller
  BY DEF IInv
<1>2. UNCHANGED <<pc, caller, lookupCtx, received, result>>
  BY DEF Run, InnerStep, Timer
<1>3. CASE Send(k)
  <2>1. at[k] = "left" /\ at' = [at EXCEPT ![k] = "sent"] /\ UNCHANGED <<context, reply>>
    BY <1>1, <1>3, SendEffect
  <2>2. at \in [Chains -> {"none", "ready", "try", "call", "timed", "left", "sent"}]
    BY <1>1 DEF TypeOK, ChainTypeOK
  <2>3. pc' # "done" => Ongoing'
    BY <1>2, <2>1 DEF IInv, Ongoing, AllFailed, CanceledByCaller
  <2>4. FailsOnlyAfterAll' /\ CanceledOnlyByCaller'
    BY <1>1, <1>2, <2>1, <2>2 DEF FailsOnlyAfterAll, CanceledOnlyByCaller
  <2>. QED
    BY <2>3, <2>4 DEF Outcome
<1>4. CASE ChainStep(k)
  <2>1. /\ at[k] # "sent"
        /\ \A j \in Chains \ {k} :
              at'[j] = at[j] /\ reply'[j] = reply[j] /\ context'[j] = context[j]
        /\ reply'[k].err \in {"nil", "failed", reply[k].err} \cup ({context[k]} \ {"live"})
        /\ context'[k] \in {context[k], lookupCtx, "expired"}
    BY <1>1, <1>4, ChainEffect
  <2>2. ASSUME pc' # "done" PROVE Ongoing'
    <3>1. Ongoing
      BY <1>2, <2>2 DEF IInv
    <3>2. \A i \in DOMAIN received : received[i] \in Chains \ {k}
      BY <1>1, <2>1, ElementInSet DEF Delivered, AllSent, TypeOK
    <3>3. AllFailed(received)'
      BY <1>2, <2>1, <3>1, <3>2 DEF Ongoing, AllFailed
    <3>4. CanceledByCaller'
      BY <1>2, <2>1, <3>1 DEF Ongoing, CanceledByCaller
    <3>. QED
      BY <3>3, <3>4 DEF Ongoing
  <2>3. FailsOnlyAfterAll'
    BY <1>1, <1>2, <2>1 DEF FailsOnlyAfterAll
  <2>4. CanceledOnlyByCaller'
    BY <1>1, <1>2 DEF CanceledOnlyByCaller
  <2>. QED
    BY <2>2, <2>3, <2>4 DEF Outcome
<1>. QED
  BY <1>3, <1>4 DEF Run, InnerStep, Timer, ChainStep

\* The last failure: every candidate has failed, and "canceled" among the errors comes
\* from the caller.
LEMMA OutcomeLast ==
    ASSUME TypeOK, Delivered, Ongoing, Take, LastTurn, UNCHANGED <<at, reply, caller>>,
           reply[Head(results)].err # "nil", pc' = "done", result'.errs = Joined
    PROVE  Outcome'
<1>1. received' \in Seq(Chains) /\ Len(received') = Cardinality(Chains)
  BY TakeEffect, AppendSeq DEF TypeOK, LastTurn
<1>2. Delivered'
  BY DeliveredTaken
<1>3. AllFailed(received)'
  BY FailedTaken DEF Ongoing
<1>4. \A k \in Chains : \E i \in DOMAIN received' : received'[i] = k
  BY <1>1, <1>2, AllReceived DEF Delivered, Distinct
<1>5. \A k \in Chains : at'[k] = "sent" /\ reply'[k].err # "nil"
  BY <1>2, <1>3, <1>4 DEF Delivered, AllSent, AllFailed
<1>6. ASSUME "canceled" \in Joined PROVE caller = "canceled"
  <2>1. PICK i \in DOMAIN received' : reply[received'[i]].err = "canceled"
    BY <1>6 DEF Joined
  <2>2. received'[i] \in Chains
    BY <1>1, <2>1, ElementInSet
  <2>. QED
    BY <2>1, <2>2 DEF Ongoing, CanceledByCaller
<1>. QED
  BY <1>5, <1>6 DEF Outcome, FailsOnlyAfterAll, CanceledOnlyByCaller

\* Every step keeps what the call returns within its two promises.
LEMMA OutcomeStep == IInv /\ [Next]_vars => Outcome'
<1> SUFFICES ASSUME IInv, [Next]_vars PROVE Outcome'
  OBVIOUS
<1>1. TypeOK /\ Delivered /\ FailsOnlyAfterAll /\ CanceledOnlyByCaller
      /\ (pc # "done" => Ongoing)
  BY DEF IInv
<1>2. CASE Start
  <2>1. CASE caller # "live" /\ pc' = "done" /\ result'.errs = {caller} /\ UNCHANGED caller
    BY <2>1 DEF Outcome, FailsOnlyAfterAll, CanceledOnlyByCaller
  <2>2. CASE pc' = "receive"
    BY <1>1, <1>2, <2>2
    DEF Start, Outcome, FailsOnlyAfterAll, CanceledOnlyByCaller, Ongoing, AllFailed, CanceledByCaller
  <2>. QED
    BY <1>2, <2>1, <2>2 DEF Start
<1>3. CASE ReceiveEnded
  <2>1. pc' = "done" /\ result'.errs = {caller} /\ UNCHANGED caller /\ caller # "live"
    BY <1>3 DEF ReceiveEnded, Return
  <2>. QED
    BY <2>1 DEF Outcome, FailsOnlyAfterAll, CanceledOnlyByCaller
<1>4. CASE ReceiveSuccess
  <2>1. pc' = "done" /\ result'.errs = {}
    BY <1>4 DEF ReceiveSuccess, Return
  <2>. QED
    BY <2>1 DEF Outcome, FailsOnlyAfterAll, CanceledOnlyByCaller
<1>5. CASE ReceiveFailure
  <2>1. /\ Take /\ reply[Head(results)].err # "nil" /\ UNCHANGED <<at, reply, caller>>
        /\ pc = "receive"
    BY <1>5 DEF ReceiveFailure, Take
  <2>2. Ongoing
    BY <1>1, <2>1
  <2>3. CASE LastTurn /\ Return(failedResponse', Joined)
    <3>1. pc' = "done" /\ result'.errs = Joined
      BY <2>3 DEF Return
    <3>. QED
      BY <1>1, <2>1, <2>2, <2>3, <3>1, OutcomeLast
  <2>4. CASE AfterFailure /\ UNCHANGED <<pc, result>>
    <3>1. AllFailed(received)'
      BY <1>1, <2>1, <2>2, FailedTaken DEF Ongoing
    <3>2. CanceledByCaller'
      BY <2>1, <2>2, <2>4 DEF AfterFailure, Ongoing, CanceledByCaller
    <3>. QED
      BY <2>1, <2>4, <3>1, <3>2 DEF Outcome, Ongoing, FailsOnlyAfterAll, CanceledOnlyByCaller
  <2>. QED
    BY <1>5, <2>3, <2>4 DEF ReceiveFailure
<1>6. CASE EndContext
  <2>1. PICK how \in {"canceled", "expired"} :
           caller' = how /\ lookupCtx' = how /\ End(how)
    BY <1>6 DEF EndContext
  <2>2. pc # "done" /\ caller = "live" /\ UNCHANGED <<at, attempt, pc, received, reply>>
    BY <1>6 DEF EndContext
  <2>3. \A k \in Chains : context'[k] \in {context[k], how}
    BY <1>1, <2>1, <2>2, EndEffect
  <2>4. Ongoing'
    BY <1>1, <2>1, <2>2, <2>3 DEF Ongoing, AllFailed, CanceledByCaller
  <2>. QED
    BY <2>2, <2>4 DEF Outcome, FailsOnlyAfterAll, CanceledOnlyByCaller
<1>7. ASSUME NEW k \in Chains, Run(k) \/ InnerStep(k) \/ Timer(k) PROVE Outcome'
  BY <1>7, OutcomeRun
<1>8. CASE UNCHANGED vars
  BY <1>1, <1>8 DEF vars, Outcome, Ongoing, AllFailed, CanceledByCaller, FailsOnlyAfterAll,
                    CanceledOnlyByCaller
<1>. QED
  BY <1>2, <1>3, <1>4, <1>5, <1>6, <1>7, <1>8 DEF Next, Receive

------------------------------------------------------------------------------
(* The response that is kept.                                               *)

\* As long as the replies that were taken stay, so does the first response among them.
LEMMA FirstSame ==
    ASSUME TypeOK, UNCHANGED received, NEW kept, IsFirstResponse(kept),
           \A n \in DOMAIN received : reply'[received[n]] = reply[received[n]]
    PROVE  IsFirstResponse(kept)'
<1>1. \A n \in DOMAIN received : \A m \in 1..(n - 1) : m \in DOMAIN received
  BY DEF TypeOK
<1>. QED
  BY <1>1 DEF IsFirstResponse

\* What is kept of a failure that is taken.
LEMMA FirstTaken ==
    ASSUME TypeOK, Take, UNCHANGED reply, IsFirstResponse(failedResponse),
           failedResponse' = Kept(Head(results))
    PROVE  IsFirstResponse(failedResponse)'
<1> DEFINE new == Len(received) + 1
<1>1. /\ received \in Seq(Chains) /\ Head(results) \in Chains
      /\ received' = Append(received, Head(results))
  BY TakeEffect DEF TypeOK
<1>2. /\ DOMAIN received' = DOMAIN received \cup {new}
      /\ \A n \in DOMAIN received : received'[n] = received[n]
      /\ received'[new] = Head(results)
      /\ DOMAIN received = 1..(new - 1) /\ new \in Nat
  BY <1>1, AppendSeq
<1>3. \A n \in DOMAIN received : received[n] \in Chains /\ received[n] # None
  BY <1>1, ElementInSet, CandidatesAssumption
<1> HIDE DEF new
<1>4. CASE \E n \in DOMAIN received : reply[received[n]].resp
  <2>1. PICK n \in DOMAIN received :
           /\ failedResponse = received[n] /\ reply[received[n]].resp
           /\ \A m \in 1..(n - 1) : ~reply[received[m]].resp
    BY <1>4 DEF IsFirstResponse
  <2>2. failedResponse' = received'[n] /\ reply'[received'[n]].resp /\ n \in DOMAIN received'
    BY <1>2, <1>3, <2>1 DEF Kept
  <2>3. \A m \in 1..(n - 1) : ~reply'[received'[m]].resp
    BY <1>2, <2>1
  <2>. QED
    BY <2>2, <2>3 DEF IsFirstResponse
<1>5. CASE ~\E n \in DOMAIN received : reply[received[n]].resp
  <2>1. failedResponse = None
    BY <1>5 DEF IsFirstResponse
  <2>2. \A m \in 1..(new - 1) : ~reply'[received'[m]].resp
    BY <1>2, <1>5
  <2>3. CASE reply[Head(results)].resp
    BY <1>2, <2>1, <2>2, <2>3 DEF Kept, IsFirstResponse
  <2>4. CASE ~reply[Head(results)].resp
    BY <1>2, <2>1, <2>2, <2>4 DEF Kept, IsFirstResponse
  <2>. QED
    BY <2>3, <2>4
<1>. QED
  BY <1>4, <1>5

\* What the call keeps on its way, and what it returns.
FirstKept == (pc # "done" => IsFirstResponse(failedResponse)) /\ FirstResponseKept

\* Every step keeps the first response.
LEMMA FirstKeptStep == IInv /\ [Next]_vars => FirstKept'
<1> SUFFICES ASSUME IInv, [Next]_vars PROVE FirstKept'
  OBVIOUS
<1>1. TypeOK /\ Delivered /\ FirstKept
  BY DEF IInv, FirstKept
\* Steps that take nothing from the channel and return nothing.
<1>2. ASSUME UNCHANGED <<pc, received, failedResponse, result>>,
             \A n \in DOMAIN received : reply'[received[n]] = reply[received[n]]
      PROVE  FirstKept'
  BY <1>1, <1>2, FirstSame DEF FirstKept, FirstResponseKept
<1>3. CASE Start
  <2>1. UNCHANGED <<reply, received, failedResponse>> /\ pc = "idle"
    BY <1>3 DEF Start
  <2>2. IsFirstResponse(failedResponse)'
    BY <1>1, <2>1, FirstSame DEF FirstKept
  <2>3. \A n \in DOMAIN received : at[received[n]] = "none" /\ at[received[n]] = "sent"
    BY <1>1, <2>1, ElementInSet DEF IInv, IdleCandidates, Delivered, AllSent, TypeOK
  <2>4. pc' = "done" => result'.resp = failedResponse'
    BY <1>1, <1>3, <2>1, <2>3 DEF Start, FirstKept, IsFirstResponse
  <2>. QED
    BY <2>2, <2>4 DEF FirstKept, FirstResponseKept
<1>4. CASE ReceiveEnded
  <2>1. /\ UNCHANGED <<reply, received, failedResponse>>
        /\ pc = "receive" /\ pc' = "done" /\ result'.resp = failedResponse
    BY <1>4 DEF ReceiveEnded, Return
  <2>2. IsFirstResponse(failedResponse)'
    BY <1>1, <2>1, FirstSame DEF FirstKept
  <2>. QED
    BY <2>1, <2>2 DEF FirstKept, FirstResponseKept
<1>5. CASE ReceiveSuccess
  <2>1. pc' = "done" /\ result'.errs = {}
    BY <1>5 DEF ReceiveSuccess, Return
  <2>. QED
    BY <2>1 DEF FirstKept, FirstResponseKept
<1>6. CASE ReceiveFailure
  <2>1. Take /\ UNCHANGED reply /\ failedResponse' = Kept(Head(results)) /\ pc = "receive"
    BY <1>6 DEF ReceiveFailure, Take
  <2>2. IsFirstResponse(failedResponse)'
    BY <1>1, <2>1, FirstTaken DEF FirstKept
  <2>3. pc' = "done" => result'.resp = failedResponse'
    BY <1>6, <2>1 DEF ReceiveFailure, Return
  <2>. QED
    BY <2>2, <2>3 DEF FirstKept, FirstResponseKept
<1>7. CASE EndContext
  BY <1>2, <1>7 DEF EndContext
<1>8. ASSUME NEW k \in Chains, Run(k) \/ InnerStep(k) \/ Timer(k) PROVE FirstKept'
  <2>1. UNCHANGED <<pc, received, failedResponse, result>>
    BY <1>8 DEF Run, InnerStep, Timer
  <2>2. CASE Send(k)
    BY <1>2, <2>1, <2>2 DEF Send
  <2>3. CASE ChainStep(k)
    <3>1. at[k] # "sent" /\ \A j \in Chains \ {k} : reply'[j] = reply[j]
      BY <1>1, <2>3, ChainEffect
    <3>2. \A n \in DOMAIN received : received[n] \in Chains \ {k}
      BY <1>1, <3>1, ElementInSet DEF Delivered, AllSent, TypeOK
    <3>. QED
      BY <1>2, <2>1, <3>1, <3>2
  <2>. QED
    BY <1>8, <2>2, <2>3 DEF Run, InnerStep, Timer, ChainStep
<1>9. CASE UNCHANGED vars
  BY <1>2, <1>9 DEF vars
<1>. QED
  BY <1>3, <1>4, <1>5, <1>6, <1>7, <1>8, <1>9 DEF Next, Receive

------------------------------------------------------------------------------
(* The theorems.                                                            *)

\* The invariant holds initially.
LEMMA IInvInit == Init => IInv
<1> SUFFICES ASSUME Init PROVE IInv
  OBVIOUS
<1>1. TypeOK
  BY TypeInit
<1>2. results = <<>> /\ received = <<>> /\ pc = "idle" /\ caller = "live" /\ lookupCtx = "live"
      /\ \A k \in Chains : at[k] = "none" /\ context[k] = "live"
  BY DEF Init, ChainInit
<1>3. \A k \in Chains : reply[k].err = "nil"
  BY DEF Init, ChainInit, Reply
<1>4. Delivered /\ AllFailed(received)
  BY <1>2 DEF Delivered, AllSent, Distinct, AllFailed
<1>. QED
  BY <1>1, <1>2, <1>3, <1>4
  DEF Init, IInv, IdleCandidates, Ongoing, CanceledByCaller, FailsOnlyAfterAll,
      CanceledOnlyByCaller, FirstResponseKept, IsFirstResponse

\* A step keeps all of the invariant.
LEMMA IInvStep == IInv /\ [Next]_vars => IInv'
  BY TypeStep, DeliveredStep, OutcomeStep, FirstKeptStep DEF IInv, Outcome, FirstKept

\* The inductive invariant holds of every execution of the race.
THEOREM Invariance == Spec => []IInv
  BY IInvInit, IInvStep, PTL DEF Spec

\* Type correctness: the channel and the results taken hold candidates, and a candidate
\* that finished without an error has a response.
THEOREM TypeCorrect == Spec => []TypeOK
<1>1. IInv => TypeOK
  BY DEF IInv
<1>. QED
  BY <1>1, Invariance, PTL

\* A call whose context lives fails only after each candidate has failed, for any number
\* of candidates.
THEOREM FailsLast == Spec => []FailsOnlyAfterAll
<1>1. IInv => FailsOnlyAfterAll
  BY DEF IInv
<1>. QED
  BY <1>1, Invariance, PTL

\* A failing call returns the first of the responses that came with an error.
THEOREM FirstResponseStays == Spec => []FirstResponseKept
<1>1. IInv => FirstResponseKept
  BY DEF IInv
<1>. QED
  BY <1>1, Invariance, PTL

\* The cancellation of the losers never shows as the error of a call.
THEOREM CancellationIsOwn == Spec => []CanceledOnlyByCaller
<1>1. IInv => CanceledOnlyByCaller
  BY DEF IInv
<1>. QED
  BY <1>1, Invariance, PTL
==============================================================================
