------------------------------- MODULE Exchange -------------------------------
(***************************************************************************)
(* The base resolvers: UDP with TCP after a truncated answer (lookup.go), DNS *)
(* over HTTPS (doh.go) and the JSON API (json_api.go).  One request at a time. *)
(* The module has no specification of its own: Resolution composes its        *)
(* actions.                                                                 *)
(*                                                                         *)
(* A message is a record of what the code looks at:                          *)
(*   echo    its question section: "same" as asked, "other", "several", "none" *)
(*   rcode   "ok", "nx", "refused" or "servfail"                             *)
(*   tc, aa  its header bits: truncated, authoritative                       *)
(*   target  has the answer section a record of the type asked for?          *)
(*   alias   has the answer section a CNAME?                                 *)
(*   others  has the answer section records of yet another type?              *)
(*   ns      the servers named by the NS records of the authority section     *)
(*   apex    are these the NS records of the name asked for?                 *)
(*   soa     has the authority section the SOA of a zone above the name?     *)
(***************************************************************************)
EXTENDS Sequences

CONSTANTS
    Messages,   \* the messages that may arrive
    NoMessage   \* nil

ASSUME MessageAssumption ==
    /\ NoMessage \notin Messages
    /\ Messages \subseteq
          [echo : {"same", "other", "several", "none"},
           rcode : {"ok", "nx", "refused", "servfail"}, tc : BOOLEAN, aa : BOOLEAN,
           target : BOOLEAN, alias : BOOLEAN, others : BOOLEAN,
           ns : Seq(STRING), apex : BOOLEAN, soa : BOOLEAN]

VARIABLES
    step,       \* where the request stands
    truncatedUDP, \* the answer kept while TCP is tried
    decoded,    \* history: has a message arrived and been decoded?
    out         \* response and error of the request

exchangeVars == <<step, truncatedUDP, decoded, out>>

Errors == {"nil", "failed", "noQuestion", "invalidQuestion", "refused", "servfail", "truncated"}
Outcome(resp, err) == [resp |-> resp, err |-> err]

ExchangeTypeOK ==
    /\ step \in {"idle", "dialUDP", "sendUDP", "dialTCP", "sendTCP", "doh", "json", "done"}
    /\ truncatedUDP \in Messages \cup {NoMessage}
    /\ decoded \in BOOLEAN
    /\ out \in [resp : Messages \cup {NoMessage}, err : Errors]

ExchangeInit ==
    /\ step = "idle"
    /\ truncatedUDP = NoMessage
    /\ decoded = FALSE
    /\ out = Outcome(NoMessage, "nil")

\* validateResponse: the checks in their order.
ValidatedByRcodeOnly(m) == IF m.rcode \in {"refused", "servfail"} THEN m.rcode ELSE "nil"
Validated(m) ==
    CASE m.echo = "none" -> "noQuestion"
      [] m.echo \in {"several", "other"} -> "invalidQuestion"
      [] m.echo = "same" /\ m.rcode \in {"refused", "servfail"} -> m.rcode
      [] OTHER -> "nil"

Ask(via) ==
    /\ step' = IF via = "dns" THEN "dialUDP" ELSE via
    /\ UNCHANGED <<truncatedUDP, decoded, out>>

\* The caller has taken response and error.
Taken ==
    /\ step' = "idle" /\ decoded' = FALSE /\ out' = Outcome(NoMessage, "nil")
    /\ UNCHANGED truncatedUDP

Finish(resp, err) ==
    /\ step' = "done"
    /\ truncatedUDP' = NoMessage
    /\ out' = Outcome(resp, err)

Reach(next) == step' = next /\ UNCHANGED <<truncatedUDP, out>>

------------------------------------------------------------------------------
(* Resolver.exchange.                                                       *)

DialUDP ==
    /\ step = "dialUDP"
    /\ Finish(NoMessage, "failed") \/ Reach("sendUDP")
    /\ UNCHANGED decoded

\* A reply that cannot be unpacked to its end comes with an error.
SendUDP ==
    /\ step = "sendUDP"
    /\ \/ Finish(NoMessage, "failed") /\ UNCHANGED decoded
       \/ \E m \in Messages :
             /\ decoded' = TRUE
             /\ \/ Finish(m, "failed")
                \/ ~m.tc /\ Finish(m, Validated(m))
                \/ m.tc /\ step' = "dialTCP" /\ truncatedUDP' = m /\ UNCHANGED out

DialTCPForgetful ==
    /\ step = "dialTCP"
    /\ Finish(NoMessage, "failed") \/ Reach("sendTCP")
    /\ UNCHANGED decoded
DialTCP ==
    /\ step = "dialTCP"
    /\ Finish(truncatedUDP, "failed") \/ Reach("sendTCP")
    /\ UNCHANGED decoded

SendTCP ==
    /\ step = "sendTCP"
    /\ \/ Finish(truncatedUDP, "failed")
       \/ \E m \in Messages : Finish(m, IF m.tc THEN "truncated" ELSE Validated(m))
    /\ UNCHANGED decoded

(* DoH.Lookup: everything up to unpacking the body fails without a message;   *)
(* a message with an ID of its own is refused.                               *)
AskDoH ==
    /\ step = "doh"
    /\ \/ Finish(NoMessage, "failed") /\ UNCHANGED decoded
       \/ \E m \in Messages :
             /\ decoded' = TRUE
             /\ Finish(m, "failed") \/ Finish(m, Validated(m))

\* What toDNSMsg makes of payloads, in whole or up to the first name or record that is
\* not valid: a message that is never authoritative.
Convertible == {m \in Messages : ~m.aa}

(* JSONAPI.Lookup: a payload that is not valid in all of its parts gives what  *)
(* could be converted, and an error; so does an error text in the payload of a *)
(* valid message.                                                           *)
AskJSON ==
    /\ step = "json"
    /\ \/ Finish(NoMessage, "failed") /\ UNCHANGED decoded
       \/ \E m \in Convertible :
             /\ decoded' = TRUE
             /\ Finish(m, "failed") \/ Finish(m, Validated(m))

Exchanges == DialUDP \/ SendUDP \/ DialTCP \/ SendTCP \/ AskDoH \/ AskJSON
================================================================================
