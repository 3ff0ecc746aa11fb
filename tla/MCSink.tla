--------------------------------- MODULE MCSink ---------------------------------
(* Instances of DeliverySink for model checking. *)
EXTENDS DeliverySink

Url(scheme, host, tailnet) ==
    [scheme |-> scheme, host |-> host, tailnet |-> tailnet, credentials |-> FALSE]

Hermes == Url("https", "hermes", FALSE)
Triage == Url("http", "triage", FALSE)
Tailnet == Url("http", "100.64.0.7", TRUE)

StatusThenAnalysis == [red |-> "success", analysis |-> "analysis"]

Sink(success, analysis, trusted, n) ==
    [success |-> success, analysis |-> analysis, trusted |-> trusted, maxAttempts |-> n]

(* One route and two, an endpoint the options do not trust, and a limit    *)
(* below the one attempt the constructor makes of it.                      *)
TheOptions ==
    {Sink(Hermes, {}, {}, 0), Sink(Hermes, {Tailnet}, {}, 2),
     Sink(Triage, {Hermes}, {"triage"}, 2), Sink(Hermes, {Triage}, {}, 2)}

================================================================================
