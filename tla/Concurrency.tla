------------------------------ MODULE Concurrency ------------------------------
(***************************************************************************)
(* ConcurrencyResolver.Lookup (concurrency.go): one call races its candidates, *)
(* each a goroutine whose resolver is limited by a timeout and retried         *)
(* (Decorators).  The resolver keeps no state between calls, so one call shows  *)
(* all there is; its candidates may outlive it.                               *)
(*                                                                         *)
(* A result in the channel is the name of the candidate that sent it: its      *)
(* reply does not change any more.                                            *)
(***************************************************************************)
EXTENDS Decorators, FiniteSets, Sequences

VARIABLES
    pc,         \* of the caller: "idle", "receive" or "done"
    caller,     \* the caller's context
    lookupCtx,  \* the context of the candidates
    results,    \* the channel
    received,   \* the results taken from it, in order
    failedResponse, \* the candidate whose response is kept, or None
    result      \* what Lookup returned: whose response, and the kinds of errors

vars == <<at, context, attempt, reply,
          pc, caller, lookupCtx, results, received, failedResponse, result>>

None == "none"
ASSUME CandidatesAssumption == IsFiniteSet(Chains) /\ Chains # {} /\ None \notin Chains

TypeOK ==
    /\ ChainTypeOK
    /\ pc \in {"idle", "receive", "done"}
    /\ caller \in Contexts
    /\ lookupCtx \in Contexts
    /\ results \in Seq(Chains)
    /\ received \in Seq(Chains)
    /\ failedResponse \in Chains \cup {None}
    /\ result \in [resp : Chains \cup {None}, errs : SUBSET (Errors \ {"nil"})]

Init ==
    /\ ChainInit
    /\ pc = "idle"
    /\ caller = "live"
    /\ lookupCtx = "live"
    /\ results = <<>>
    /\ received = <<>>
    /\ failedResponse = None
    /\ result = [resp |-> None, errs |-> {}]

\* Return with the deferred cancel of lookupCtx.
Return(resp, errs) ==
    /\ pc' = "done"
    /\ result' = [resp |-> resp, errs |-> errs]
    /\ lookupCtx' = IF lookupCtx = "live" THEN "canceled" ELSE lookupCtx
    /\ End("canceled")

Start ==
    /\ pc = "idle"
    /\ \/ /\ caller # "live"
          /\ pc' = "done"
          /\ result' = [resp |-> None, errs |-> {caller}]
          /\ UNCHANGED at
       \/ /\ caller = "live"
          /\ pc' = "receive"
          /\ at' = [k \in Chains |-> "ready"]
          /\ UNCHANGED result
    /\ UNCHANGED <<context, attempt, reply, caller, lookupCtx, results, received, failedResponse>>

------------------------------------------------------------------------------
(* A candidate.                                                             *)

CapacityOne == 1
Capacity == Cardinality(Chains)

Send(k) ==
    /\ at[k] = "left"
    /\ Len(results) < Capacity
    /\ Goto(k, "sent")
    /\ results' = Append(results, k)
    /\ UNCHANGED <<context, attempt, reply>>

Run(k) ==
    /\ \/ /\ Begin(k, lookupCtx) \/ Try(k) \/ GiveUp(k) \/ Leave(k)
          /\ UNCHANGED results
       \/ Send(k)
    /\ UNCHANGED <<pc, caller, lookupCtx, received, failedResponse, result>>

InnerStep(k) ==
    /\ InnerAnswers(k)
    /\ UNCHANGED <<pc, caller, lookupCtx, results, received, failedResponse, result>>

Timer(k) ==
    /\ Expire(k)
    /\ UNCHANGED <<pc, caller, lookupCtx, results, received, failedResponse, result>>

------------------------------------------------------------------------------
(* The loop of the caller: N turns of a select between its context and the   *)
(* channel.  Both ready, either is picked.                                   *)

ReceiveEnded ==
    /\ pc = "receive"
    /\ caller # "live"
    /\ Return(failedResponse, {caller})
    /\ UNCHANGED <<at, attempt, reply, caller, results, received, failedResponse>>

Take ==
    /\ pc = "receive"
    /\ results # <<>>
    /\ results' = Tail(results)
    /\ received' = Append(received, Head(results))

ReceiveSuccess ==
    /\ Take
    /\ reply[Head(results)].err = "nil"
    /\ Return(Head(results), {})
    /\ UNCHANGED <<at, attempt, reply, caller, failedResponse>>

KeptLatest(k) == IF reply[k].resp THEN k ELSE failedResponse
Kept(k) == IF failedResponse = None /\ reply[k].resp THEN k ELSE failedResponse

LastTurnEarly == Len(received) + 2 >= Cardinality(Chains)
LastTurn == Len(received) + 1 = Cardinality(Chains)

AfterFailureCancel == lookupCtx' = "canceled" /\ End("canceled")
AfterFailure == UNCHANGED <<lookupCtx, context>>

\* errors.Join of all failures after the last.
Joined == {reply[received'[i]].err : i \in DOMAIN received'}

ReceiveFailure ==
    /\ Take
    /\ reply[Head(results)].err # "nil"
    /\ failedResponse' = Kept(Head(results))
    /\ \/ LastTurn /\ Return(failedResponse', Joined)
       \/ ~LastTurn /\ AfterFailure /\ UNCHANGED <<pc, result>>
    /\ UNCHANGED <<at, attempt, reply, caller>>

Receive == ReceiveEnded \/ ReceiveSuccess \/ ReceiveFailure

\* The caller's context is canceled or its deadline passes.
EndContext ==
    /\ pc # "done"
    /\ caller = "live"
    /\ \E how \in {"canceled", "expired"} :
          /\ caller' = how
          /\ lookupCtx' = how
          /\ End(how)
    /\ UNCHANGED <<at, attempt, reply, pc, results, received, failedResponse, result>>

Next ==
    \/ Start \/ Receive \/ EndContext
    \/ \E k \in Chains : Run(k) \/ InnerStep(k) \/ Timer(k)

Spec == Init /\ [][Next]_vars

\* Goroutines run and timers fire.  A resolver may keep silent as long as its
\* context lives.
FairSpec ==
    /\ Spec /\ WF_vars(Receive)
    /\ \A k \in Chains :
          /\ WF_vars(Run(k)) /\ WF_vars(Timer(k))
          /\ WF_vars(InnerStep(k) /\ context[k] # "live")

------------------------------------------------------------------------------
(* Safety.                                                                  *)

\* With a live context the call fails only after each candidate has failed, however
\* their results interleave with its turns.
FailsOnlyAfterAll ==
    pc = "done" /\ result.errs # {} /\ caller = "live" =>
        \A k \in Chains : at[k] = "sent" /\ reply[k].err # "nil"

\* kept is the candidate of the first response that was taken, None without any.
IsFirstResponse(kept) ==
    IF \E n \in DOMAIN received : reply[received[n]].resp
    THEN \E n \in DOMAIN received :
            /\ kept = received[n] /\ reply[received[n]].resp
            /\ \A m \in 1..(n - 1) : ~reply[received[m]].resp
    ELSE kept = None

\* A failing call returns the first response that it received with an error, also
\* when its context ends in the middle of the race.
FirstResponseKept == pc = "done" /\ result.errs # {} => IsFirstResponse(result.resp)

\* Candidates are canceled for the sake of a winner only: no error says "canceled"
\* unless the caller's own context was (error matrix of contracts/resolver-api.md).
CanceledOnlyByCaller ==
    pc = "done" /\ "canceled" \in result.errs => caller = "canceled"

------------------------------------------------------------------------------
(* Liveness.                                                                *)

\* The call returns even if every resolver is silent until its context ends: the
\* timeouts of the candidates see to it.
CallReturns == pc = "receive" ~> pc = "done"

\* No goroutine is left behind at the channel after the call has returned.
CandidatesEnd == \A k \in Chains : at[k] = "ready" ~> at[k] = "sent"
================================================================================
