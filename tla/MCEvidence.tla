------------------------------- MODULE MCEvidence -------------------------------
(* Values TLC gives to the constants of EvidenceReads.  A value of 2 is       *)
(* healthy, 1 degraded, 0 unhealthy; times 2 and 3 are in the window.         *)
EXTENDS EvidenceReads

Rule(operator, value) == [operator |-> operator, value |-> value]

Health(template, healthy, degraded) ==
    [queryTemplate |-> template, healthyWhen |-> healthy, degradedWhen |-> degraded]

Rules ==
    [api |-> Health("errors", Rule("gt", 1), Rule("eq", 1)),
     web |-> Health("errors", Rule("gte", 2), Null),
     cron |-> Health("other", Rule("lt", 1), Rule("lte", 1))]

Queries == [rates |-> "metrics", spans |-> "traces"]

Seconds == {2, 3}

Both == [grafana : BOOLEAN, visuals : BOOLEAN]

-----------------------------------------------------------------------------
(* Asks *)

Snapshots == {[tool |-> "health_snapshot", services |-> s] :
                 s \in {{"api"}, {"api", "web"}, {"api", "cron", "db"}, {"db"}}}

AlertQueries == [tool : {"active_alerts"},
                 services : {Null, {"api"}}, states : {Null, {"firing"}, {"pending", "resolved"}}]

MetricQueries == [tool : {"query_metrics"}, template : {"errors", "other"}]

Incidents ==
    {[tool |-> "incident_context", alertId |-> a, serviceId |-> s, visuals |-> v] :
        <<a, s>> \in {<<"down", Null>>, <<"alert-2", Null>>, <<Null, "api">>, <<Null, "db">>},
        v \in BOOLEAN}

Renders == [tool : {"render"}, listed : BOOLEAN, routed : BOOLEAN, dashboard : BOOLEAN]

Collects ==
    {[tool |-> "collect", queryIds |-> [metrics |-> m, traces |-> t]] :
        m \in {"rates", "spans"}, t \in {"spans", "gone"}}

AllAsks == Snapshots \cup AlertQueries \cup MetricQueries \cup Incidents \cup Renders \cup Collects

-----------------------------------------------------------------------------
(* Answers *)

Vector(samples) == [samples |-> samples, private |-> FALSE, admitted |-> TRUE]

Vectors ==
    {Malformed, <<>>, <<Null, Vector(<<2>>)>>, <<Vector(<<Null>>)>>, <<Vector(<<0>>), Vector(<<2>>)>>,
     <<[Vector(<<1>>) EXCEPT !.private = TRUE]>>}

Ranges == Vectors \cup
    {<<Vector(<<0, 1, 2>>)>>, <<Vector(<<0>>), Vector(<<1>>), Vector(<<2>>)>>,
     <<Vector(<<Null, 1>>), Null>>, <<Vector(<<2>>), [Vector(<<1>>) EXCEPT !.admitted = FALSE]>>,
     <<[Vector(<<Null>>) EXCEPT !.admitted = FALSE]>>}

Alert(fingerprint, alertname, service, state) ==
    [fingerprint |-> fingerprint, alertname |-> alertname, service |-> service, state |-> state]

Alerts ==
    {Alert(Null, "down", "api", "firing"), Alert("down", "latency", Null, "active"),
     Alert(Null, Null, "web", "suppressed"), Alert(Null, "down", "web", "inactive"),
     Alert(Null, "slow", "api", "pending"), Null}

AlertLists == {Malformed} \cup UNION {[1..n -> Alerts] : n \in 0..3}

Metrics ==
    {Malformed, <<>>, <<<<1, 2>>>>, <<<<1, 2, 3>>>>, <<<<1>>, <<2>>>>, <<<<2>>, <<3>>, <<2>>>>,
     <<<<Null, 3>>>>, <<<<4>>>>}

Span(at, measured) == [at |-> at, measured |-> measured]

Spans ==
    {Malformed, <<>>, <<Span(2, TRUE)>>, <<Span(Null, TRUE), Span(1, TRUE)>>, <<Span(3, FALSE)>>,
     <<Span(1, TRUE), Span(4, TRUE), Span(2, TRUE)>>}

LogLines ==
    {[lines |-> n, truncated |-> t, redactionsApplied |-> FALSE] : n \in {0, 2, 3}, t \in {FALSE}}
    \cup {[lines |-> 2, truncated |-> TRUE, redactionsApplied |-> TRUE]}

Answers ==
    [api |-> Vectors, web |-> Vectors, query |-> Ranges, alerts |-> AlertLists,
     image |-> {Malformed, 1, 2, 3}, status |-> {"requested", "other"},
     logs |-> LogLines, metrics |-> Metrics, traces |-> Spans]
=============================================================================
