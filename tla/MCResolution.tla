---------------------------- MODULE MCResolution ----------------------------
(* Model checking of Resolution: the messages that make its code decide.     *)
EXTENDS Resolution

Plain == [echo |-> "same", rcode |-> "ok", tc |-> FALSE, aa |-> FALSE, target |-> FALSE,
          alias |-> FALSE, others |-> FALSE, ns |-> <<>>, apex |-> FALSE, soa |-> FALSE]

MCMessages ==
    { Plain, NoSuchZone,
      [Plain EXCEPT !.aa = TRUE, !.target = TRUE],
      [Plain EXCEPT !.aa = TRUE, !.alias = TRUE],
      [Plain EXCEPT !.soa = TRUE],
      [Plain EXCEPT !.soa = TRUE, !.others = TRUE],
      [Plain EXCEPT !.ns = <<"s1">>, !.apex = TRUE],
      [Plain EXCEPT !.ns = <<"s2", "s3">>],
      [Plain EXCEPT !.ns = <<"bad">>],
      [Plain EXCEPT !.tc = TRUE, !.target = TRUE],
      [Plain EXCEPT !.rcode = "servfail", !.ns = <<"s1">>],
      [Plain EXCEPT !.echo = "other", !.aa = TRUE, !.target = TRUE],
      [Plain EXCEPT !.echo = "none", !.rcode = "refused"] }

MCRootServers == <<"r1", "r2">>
MCZones == { <<>>, <<"s3">> }
=============================================================================
