------------------------------ MODULE Decorators ------------------------------
(***************************************************************************)
(* TimeoutResolver over RetryResolver (timeout.go, retry.go) over a resolver *)
(* that is not modelled: one call of such a chain per name in Chains.  The    *)
(* module has no specification of its own; the module that makes the calls    *)
(* composes its actions and says when the parent context ends.               *)
(*                                                                         *)
(* Abstractions.                                                           *)
(*  - A response is there or not; an error is its kind.                     *)
(*  - Ending a context ends the contexts derived from it in the same step,  *)
(*    as package context does under its lock.                               *)
(*  - The timer may fire at any time.                                       *)
(***************************************************************************)
EXTENDS Naturals

CONSTANTS
    Chains,     \* the calls
    Retry       \* per call: RetryResolver.retry

ASSUME RetryAssumption == Retry \in [Chains -> Nat]

VARIABLES
    at,         \* per call: where it stands
    context,    \* per call: the context with the timeout
    attempt,    \* per call: attempts made
    reply       \* per call: response and error in hand

chainVars == <<at, context, attempt, reply>>

Contexts == {"live", "canceled", "expired"}
Errors == {"nil", "failed", "canceled", "expired"}
Replies == [resp : BOOLEAN, err : Errors]
Reply(resp, err) == [resp |-> resp, err |-> err]

ChainTypeOK ==
    /\ at \in [Chains -> {"none", "ready", "try", "call", "timed", "left", "sent"}]
    /\ context \in [Chains -> Contexts]
    /\ attempt \in [Chains -> Nat] /\ \A k \in Chains : attempt[k] <= Retry[k]
    /\ reply \in [Chains -> Replies]
    /\ \A k \in Chains :        \* a nil error comes with a response
          at[k] \in {"timed", "left", "sent"} /\ reply[k].err = "nil" => reply[k].resp

ChainInit ==
    /\ at = [k \in Chains |-> "none"]
    /\ context = [k \in Chains |-> "live"]
    /\ attempt = [k \in Chains |-> 0]
    /\ reply = [k \in Chains |-> Reply(FALSE, "nil")]

Goto(k, point) == at' = [at EXCEPT ![k] = point]

\* normalizeLookupResult: no response and no error is an error.
NormalizedNot(r) == r
Normalized(r) == IF r = Reply(FALSE, "nil") THEN Reply(FALSE, "failed") ELSE r

------------------------------------------------------------------------------
(* TimeoutResolver.Lookup before the inner call: a context of its own.       *)
Begin(k, parent) ==
    /\ at[k] = "ready"
    /\ Goto(k, "try")
    /\ context' = [context EXCEPT ![k] = parent]
    /\ UNCHANGED <<attempt, reply>>

Limited(k) == at[k] \in {"try", "call", "timed"}

ExpireNever(k) == FALSE /\ UNCHANGED chainVars
Expire(k) ==
    /\ Limited(k)
    /\ context[k] = "live"
    /\ context' = [context EXCEPT ![k] = "expired"]
    /\ UNCHANGED <<at, attempt, reply>>

\* The parent of the contexts ends.
End(how) ==
    context' = [k \in Chains |->
                   IF Limited(k) /\ context[k] = "live" THEN how ELSE context[k]]

------------------------------------------------------------------------------
(* RetryResolver.Lookup.                                                    *)

Try(k) ==
    /\ at[k] = "try" /\ attempt[k] < Retry[k]
    /\ \/ /\ context[k] = "live"
          /\ attempt' = [attempt EXCEPT ![k] = @ + 1]
          /\ Goto(k, "call")
          /\ UNCHANGED reply
       \/ /\ context[k] # "live"
          /\ reply' = [reply EXCEPT ![k].err = context[k]]
          /\ Goto(k, "timed")
          /\ UNCHANGED attempt
    /\ UNCHANGED context

GiveUp(k) ==
    /\ at[k] = "try" /\ attempt[k] >= Retry[k]
    /\ reply' = [reply EXCEPT ![k] = Normalized(@)]
    /\ Goto(k, "timed")
    /\ UNCHANGED <<context, attempt>>

\* The inner resolver answers with anything, or with the end of its context.
Answers(k) ==
    [resp : BOOLEAN, err : {"nil", "failed"} \cup ({context[k]} \ {"live"})]

InnerAnswers(k) ==
    /\ at[k] = "call"
    /\ \E r \in Answers(k) :
          /\ reply' = [reply EXCEPT ![k] = Normalized(r)]
          /\ Goto(k, IF Normalized(r).err = "nil" THEN "timed" ELSE "try")
    /\ UNCHANGED <<context, attempt>>

------------------------------------------------------------------------------
(* TimeoutResolver.Lookup after the inner call: an ended context overrides   *)
(* the error, and the response stays.                                       *)
Leave(k) ==
    /\ at[k] = "timed"
    /\ Goto(k, "left")
    /\ reply' = [reply EXCEPT ![k].err = IF context[k] = "live" THEN @ ELSE context[k]]
    /\ UNCHANGED <<context, attempt>>
================================================================================
