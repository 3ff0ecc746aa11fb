--------------------------- MODULE TelemetryAdapters ---------------------------
(***************************************************************************)
(* What the observability provider (providers/victoriametrics-provider.ts) *)
(* and the telemetry adapter (providers/telemetry-evidence-provider.ts)    *)
(* make of the payload of one request.                                     *)
(*                                                                         *)
(* Null is a request without an answer, Malformed an answer of another     *)
(* shape than the backend's.  A sample is its value for the provider and   *)
(* its time for the adapter, which keeps a window; Null cannot be read.    *)
(* Texts, their redaction, digests and severities are left out.            *)
(***************************************************************************)
EXTENDS Integers, SequencesExt

CONSTANTS
    Null, Malformed,
    MaxAlerts, MaxSeries, MaxSamples,       \* of the observability provider
    QueryLimit,                             \* items a worker asks for
    SeriesLimit, SampleLimit, SpanLimit,    \* limits of the telemetry adapter
    MaxItems,                               \* MAX_TELEMETRY_ITEMS of the schema
    Window,                                 \* times of the requested window
    HealthRules,    \* serviceHealth: what is healthy and degraded, by service
    Templates,      \* queryTemplates
    QueryIds        \* queries of the adapter, with their kind

ASSUME LimitAssumption ==
    {MaxAlerts, MaxSeries, MaxSamples, QueryLimit, SeriesLimit, SampleLimit, SpanLimit,
     MaxItems} \subseteq Nat

-----------------------------------------------------------------------------
(* What the backends send, where it is not malformed *)

Sample == Int \cup {Null}

(* Of a series: does it have private labels, and no more labels and no     *)
(* later times than the schema of the answer admits?                       *)
VectorRecord == [samples : Seq(Sample), private : BOOLEAN, admitted : BOOLEAN]

AlertRecord ==
    [fingerprint : STRING \cup {Null}, alertname : STRING \cup {Null},
     service : STRING \cup {Null}, state : STRING]

SpanRecord == [at : Sample, measured : BOOLEAN]

LogRecord == [lines : Nat, truncated : BOOLEAN, redactionsApplied : BOOLEAN]

Lost(raw) == raw \in {Null, Malformed}

PayloadOf(source) ==
    CASE source = "alerts" -> Seq(AlertRecord \cup {Null})
      [] source = "image" -> Nat
      [] source = "status" -> {"requested", "other"}
      [] source = "logs" -> LogRecord
      [] source = "metrics" -> Seq(Seq(Sample))
      [] source = "traces" -> Seq(SpanRecord)
      [] OTHER -> Seq(VectorRecord \cup {Null})

-----------------------------------------------------------------------------
(* Sequences *)

Take(s, n) == SubSeq(s, 1, Min({n, Len(s)}))

(* filter: the entries at these places, in their order.                    *)
Kept(s, places) ==
    [n \in 1..Cardinality(places) |->
        s[CHOOSE i \in places : Cardinality({j \in places : j < i}) = n - 1]]

Present(s) == Kept(s, {i \in DOMAIN s : s[i] # Null})

Full(s) == Kept(s, {i \in DOMAIN s : s[i] # <<>>})

-----------------------------------------------------------------------------
(* Metrics and health of services *)

(* Series without labels and samples without a number are left out.        *)
parseMetrics(payload) ==
    IF Lost(payload) THEN Null
    ELSE LET few == Present(Take(payload, MaxSeries))
             read == [i \in DOMAIN few |-> Present(Take(few[i].samples, MaxSamples))]
         IN [series |-> Full(read),
             truncated |-> \/ Len(payload) > MaxSeries
                           \/ \E i \in DOMAIN few : Len(few[i].samples) > MaxSamples,
             redactionsApplied |-> \E i \in DOMAIN few : few[i].private,
             admitted |-> \A i \in DOMAIN few : read[i] # <<>> => few[i].admitted]

matches(value, rule) ==
    CASE rule.operator = "eq" -> value = rule.value
      [] rule.operator = "gt" -> value > rule.value
      [] rule.operator = "gte" -> value >= rule.value
      [] rule.operator = "lt" -> value < rule.value
      [] rule.operator = "lte" -> value <= rule.value

healthStatus(value, mapping) ==
    CASE matches(value, mapping.healthyWhen) -> "healthy"
      [] /\ ~matches(value, mapping.healthyWhen)
         /\ mapping.degradedWhen # Null /\ matches(value, mapping.degradedWhen) -> "degraded"
      [] OTHER -> "unhealthy"

Mapped(service) ==
    service \in DOMAIN HealthRules /\ HealthRules[service].queryTemplate \in Templates

(* The first sample of the first series decides.                           *)
HealthOf(service, payload) ==
    LET parsed == parseMetrics(payload)
    IN IF parsed = Null \/ parsed.series = <<>> THEN "unknown"
       ELSE healthStatus(parsed.series[1][1], HealthRules[service])

-----------------------------------------------------------------------------
(* Alerts *)

grafanaAlertState(state) ==
    CASE state \in {"suppressed", "unprocessed"} -> "pending"
      [] state = "active" -> "firing"
      [] OTHER -> "resolved"

alertState(state) ==
    CASE state = "pending" -> "pending"
      [] state \in {"resolved", "inactive"} -> "resolved"
      [] OTHER -> "firing"

(* vmalert has no fingerprint: two alerts of one rule share their id.      *)
normalizeAlert(raw, i, grafana) ==
    [alertId |-> CASE raw.fingerprint # Null -> raw.fingerprint
                   [] raw.fingerprint = Null /\ raw.alertname # Null -> raw.alertname
                   [] OTHER -> "alert-" \o ToString(i),
     serviceId |-> IF raw.service = Null THEN "unknown" ELSE raw.service,
     state |-> IF grafana THEN grafanaAlertState(raw.state) ELSE alertState(raw.state)]

(* The first alerts are taken before any is filtered.                      *)
normalizeAlerts(payload, grafana) ==
    LET few == Take(payload, MaxAlerts)
    IN Kept([i \in DOMAIN few |-> normalizeAlert(few[i], i, grafana)],
            {i \in DOMAIN few : few[i] # Null})

Wanted(alert, services, states) ==
    /\ services # Null => alert.serviceId \in services
    /\ states # Null => alert.state \in states

Asked(alerts, services, states) ==
    Kept(alerts, {i \in DOMAIN alerts : Wanted(alerts[i], services, states)})

-----------------------------------------------------------------------------
(* Evidence of the telemetry adapter *)

Unavailable == [available |-> FALSE, items |-> <<>>, truncated |-> FALSE, redactionsApplied |-> FALSE]

normalizeMetrics(series) ==
    LET few == Take(series, Min({QueryLimit, SeriesLimit}))
        kept == [i \in DOMAIN few |->
                   LET samples == Take(few[i], SampleLimit)
                   IN Kept(samples, {j \in DOMAIN samples : samples[j] \in Window})]
    IN [available |-> TRUE,
        items |-> Full(kept),
        truncated |-> Len(series) > Len(few) \/ \E i \in DOMAIN few : Len(few[i]) > SampleLimit,
        redactionsApplied |-> \E i \in DOMAIN few : kept[i] = <<>>]

(* A span without a time is taken to be in the window.                     *)
normalizeTraces(spans) ==
    LET few == Take(spans, Min({QueryLimit, SpanLimit}))
        kept == Kept(few, {i \in DOMAIN few :
                              few[i].measured /\ few[i].at \in Window \cup {Null}})
    IN [available |-> TRUE,
        items |-> kept,
        truncated |-> Len(spans) > Len(few),
        redactionsApplied |-> Len(spans) > Len(kept)]

Queried(kind, payload) ==
    CASE Lost(payload) -> Unavailable
      [] ~Lost(payload) /\ kind = "metrics" -> normalizeMetrics(payload)
      [] ~Lost(payload) /\ kind = "traces" -> normalizeTraces(payload)

(* unsupported and kind-mismatch are thrown before anything is asked.      *)
Supported(queryId, kind) == queryId \in DOMAIN QueryIds /\ QueryIds[queryId] = kind

-----------------------------------------------------------------------------
(* Evidence of the worker, telemetry/forensics-worker.ts *)

(* What stands for a source that threw.                                    *)
baseUnknown == Unavailable

(* The log evidence of an adapter is always available and fresh.           *)
fromCILogEvidence(log) ==
    [available |-> TRUE, items |-> [i \in 1..log.lines |-> i],
     truncated |-> log.truncated, redactionsApplied |-> log.redactionsApplied]

LogResultParses(log) == log.lines <= MaxItems

evidenceStatus(evidence) ==
    CASE ~evidence.available -> "unavailable"
      [] evidence.available /\ evidence.items = <<>> -> "no-evidence"
      [] OTHER -> "matched"

aggregateFreshness(evidence) ==
    IF \E k \in DOMAIN evidence : ~evidence[k].available THEN "unknown" ELSE "fresh"
=============================================================================
