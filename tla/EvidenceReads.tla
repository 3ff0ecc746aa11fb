----------------------------- MODULE EvidenceReads -----------------------------
(***************************************************************************)
(* One call of a tool of observability, or of the telemetry worker, and    *)
(* the requests it has in flight at once (Promise.all): each is answered,  *)
(* refused, broken off or aborted by its own timer, in any order.          *)
(*                                                                         *)
(* A timer runs until the body is read, but for the requests of the        *)
(* telemetry adapter, which clear it when the headers are there            *)
(* (telemetry-evidence-provider.ts, request).                              *)
(*                                                                         *)
(* Calls share nothing, so that one stands for all.                        *)
(***************************************************************************)
EXTENDS TelemetryAdapters

CONSTANTS
    Asks,           \* what is asked
    Payloads,       \* what each source may answer
    Deployments,    \* grafana: alerts of Grafana's Alertmanager, not of vmalert;
                    \* visuals: Grafana renders, not the server itself
    PanelBytes, DashboardBytes, ProviderBytes   \* PANEL_MAX_BYTES, ..., maxBytes

Tools == {"health_snapshot", "active_alerts", "query_metrics", "incident_context",
          "render", "collect"}

(* Nothing is not what was parsed. *)
ASSUME NullAssumption ==
    Null \notin [series : Seq(Seq(Int)), truncated : BOOLEAN, redactionsApplied : BOOLEAN,
                admitted : BOOLEAN]

VARIABLES
    deployed,
    pc, ask,
    legs,           \* requests of the call, by their source
    unavailable,    \* the flag the health checks share
    drawn           \* has the server drawn the image it was asked for?

vars == <<deployed, pc, ask, legs, unavailable, drawn>>

NoAsk == [tool |-> "none"]

Init ==
    /\ deployed \in Deployments
    /\ pc = "idle"
    /\ ask = NoAsk
    /\ legs = <<>>
    /\ unavailable = FALSE
    /\ drawn = FALSE

Tool == ask.tool

(* Service whose health an incident asks for: with an alert it is unknown. *)
SubjectOf(a) == IF a.serviceId = Null THEN "unknown" ELSE a.serviceId

Services(a) ==
    CASE a.tool = "health_snapshot" -> a.services
      [] a.tool = "incident_context" -> {SubjectOf(a)}
      [] OTHER -> {}

(* What is asked, what a source may answer; no service has the name of    *)
(* another source.                                                         *)
ASSUME SourceAssumption ==
    /\ \A a \in Asks :
          a.tool \in Tools
            /\ Services(a) \cap {"alerts", "query", "image", "status", "logs", "metrics", "traces"}
                 = {}
    /\ \A s \in DOMAIN Payloads : Payloads[s] \subseteq {Malformed} \cup PayloadOf(s)

(* allowsPanel and allowsDashboard, then the routes of the provider.       *)
Rendered(a) == a.listed /\ a.routed /\ deployed.visuals

Sources(a) ==
    {s \in Services(a) : Mapped(s)} \cup
    CASE a.tool = "health_snapshot" -> {}
      [] a.tool \in {"active_alerts", "incident_context"} -> {"alerts"}
      [] a.tool = "query_metrics" -> IF a.template \in Templates THEN {"query"} ELSE {}
      [] a.tool = "render" -> IF Rendered(a) THEN {"image"} ELSE {}
      [] a.tool = "collect" ->
           {"status", "logs"} \cup {k \in {"metrics", "traces"} : Supported(a.queryIds[k], k)}

-----------------------------------------------------------------------------
(* Asking, and what becomes of a request *)

Ask(a) ==
    /\ pc = "idle"
    /\ pc' = "waiting"
    /\ ask' = a
    /\ legs' = [l \in Sources(a) |-> [pc |-> "headers", raw |-> Null]]
    /\ UNCHANGED <<deployed, unavailable, drawn>>

InFlight(l) == l \in DOMAIN legs /\ legs[l].pc # "settled"

(* Mutant: the last health check decides.                                  *)
FlagLast(l, raw) == IF l \in Services(ask) THEN Lost(raw) ELSE unavailable

(* A health check raises the flag of its snapshot and never lowers it.     *)
Flag(l, raw) == unavailable \/ (l \in Services(ask) /\ Lost(raw))

Settle(l, raw) ==
    /\ legs' = [legs EXCEPT ![l] = [pc |-> "settled", raw |-> raw]]
    /\ unavailable' = Flag(l, raw)
    /\ UNCHANGED <<deployed, pc, ask, drawn>>

Headers(l) ==
    /\ InFlight(l)
    /\ legs[l].pc = "headers"
    /\ legs' = [legs EXCEPT ![l].pc = "body"]
    /\ UNCHANGED <<deployed, pc, ask, unavailable, drawn>>

Body(l) ==
    /\ InFlight(l)
    /\ legs[l].pc = "body"
    /\ \E raw \in Payloads[l] : Settle(l, raw)

(* An error status, a lost connection, a body above its limit.             *)
Refuse(l) == InFlight(l) /\ Settle(l, Null)

(* Mutant: every timer is cleared when the headers are there.              *)
TimedHeaders(l) == legs[l].pc = "headers"

Timed(l) == l \in {"metrics", "traces"} => legs[l].pc = "headers"

Abort(l) == InFlight(l) /\ Timed(l) /\ Settle(l, Null)

-----------------------------------------------------------------------------
(* What a call answers *)

Raw(l) == IF l \in DOMAIN legs THEN legs[l].raw ELSE Null

Freshness(lost) == IF lost THEN "unknown" ELSE "fresh"

Error(code) == [code |-> code]

Targets == [s \in Services(ask) |-> HealthOf(s, Raw(s))]

healthSnapshot == [code |-> "content", freshness |-> Freshness(unavailable), targets |-> Targets]

(* Mutant: the cut is looked for where it is already made.                *)
activeAlertsUnmarked(services, states) ==
    LET raw == Raw("alerts")
        alerts == IF Lost(raw) THEN <<>> ELSE normalizeAlerts(raw, deployed.grafana)
    IN [code |-> "content",
        freshness |-> Freshness(Lost(raw)),
        truncated |-> Len(alerts) > MaxAlerts,
        alerts |-> Asked(alerts, services, states)]

activeAlerts(services, states) ==
    LET raw == Raw("alerts")
    IN [code |-> "content",
        freshness |-> Freshness(Lost(raw)),
        truncated |-> ~Lost(raw) /\ Len(raw) > MaxAlerts,
        alerts |-> IF Lost(raw) THEN <<>>
                   ELSE Asked(normalizeAlerts(raw, deployed.grafana), services, states)]

(* One series the schema does not admit refuses the whole answer.          *)
queryMetrics ==
    LET parsed == parseMetrics(Raw("query"))
    IN IF ask.template \notin Templates \/ (parsed # Null /\ ~parsed.admitted)
       THEN Error("provider_unavailable")
       ELSE [code |-> "content",
             freshness |-> Freshness(parsed = Null),
             truncated |-> parsed # Null /\ parsed.truncated,
             redactionsApplied |-> parsed # Null /\ parsed.redactionsApplied,
             series |-> IF parsed = Null THEN <<>> ELSE parsed.series]

incidentContext ==
    LET found == activeAlerts(Null, Null)
        matching == Kept(found.alerts,
                         {i \in DOMAIN found.alerts : found.alerts[i].alertId = ask.alertId})
        lost == unavailable \/ found.freshness = "unknown"
    IN [code |-> "content",
        freshness |-> Freshness(lost),
        warnings |-> {w \in {"provider-unavailable"} : lost},
        subject |-> IF ask.serviceId = Null /\ matching # <<>> THEN Head(matching).serviceId
                    ELSE SubjectOf(ask),
        targets |-> Targets,
        alerts |-> Take(matching, 1),
        image |-> FALSE]

(* The server draws the image itself, whatever provider renders panels.    *)
incidentResult ==
    CASE ~ask.visuals -> incidentContext
      [] ask.visuals /\ drawn -> [incidentContext EXCEPT !.image = TRUE]
      [] ask.visuals /\ ~drawn ->
           [incidentContext EXCEPT !.warnings = @ \cup {"visual-unavailable"}]

Visual(available) ==
    [code |-> "content", freshness |-> Freshness(~available), image |-> available]

(* A body above the provider's limit, or that is no PNG, throws.           *)
Delivers(raw) == ~Lost(raw) /\ raw \in 1..ProviderBytes

render ==
    LET raw == Raw("image")
    IN CASE ~ask.listed -> Error("resource_not_allowed")
         [] ask.listed /\ ~deployed.visuals ->
              IF drawn THEN Visual(TRUE) ELSE Error("visual_too_large")
         [] ask.listed /\ deployed.visuals ->
              Visual(Delivers(raw) /\ raw <= IF ask.dashboard THEN DashboardBytes ELSE PanelBytes)

Threw(l) == l \notin DOMAIN legs \/ (l \in {"status", "logs"} /\ Lost(Raw(l)))

evidenceOf(l) ==
    CASE Threw(l) -> baseUnknown
      [] ~Threw(l) /\ l = "logs" -> fromCILogEvidence(Raw(l))
      [] ~Threw(l) /\ l # "logs" -> Queried(l, Raw(l))

commitMatch ==
    CASE Threw("status") -> "unknown"
      [] ~Threw("status") /\ Raw("status") = "requested" -> "matched"
      [] OTHER -> "mismatched"

(* A query that failed says so in its own evidence; the worker warns of    *)
(* what threw.                                                             *)
collect ==
    LET evidence == [l \in {"logs", "metrics", "traces"} |-> evidenceOf(l)]
        threw == {l \in {"status"} \cup DOMAIN evidence : Threw(l)}
    IN IF ~Threw("logs") /\ ~LogResultParses(Raw("logs")) THEN Error("rejected")
       ELSE [code |-> "content",
             freshness |-> aggregateFreshness(evidence),
             truncated |-> \E l \in DOMAIN evidence : evidence[l].truncated,
             redactionsApplied |-> \E l \in DOMAIN evidence : evidence[l].redactionsApplied,
             commitMatch |-> commitMatch,
             warnings |-> threw \cup {w \in {"ci-correlation-mismatch"} : commitMatch = "mismatched"},
             status |-> [l \in DOMAIN evidence |-> evidenceStatus(evidence[l])],
             evidence |-> [l \in DOMAIN evidence |-> evidence[l].items]]

result ==
    CASE Tool = "health_snapshot" -> healthSnapshot
      [] Tool = "active_alerts" -> activeAlerts(ask.services, ask.states)
      [] Tool = "query_metrics" -> queryMetrics
      [] Tool = "incident_context" -> incidentResult
      [] Tool = "render" -> render
      [] Tool = "collect" -> collect

Conclude ==
    /\ pc = "waiting"
    /\ \A l \in DOMAIN legs : ~InFlight(l)
    /\ drawn' \in BOOLEAN
    /\ pc' = "ended"
    /\ UNCHANGED <<deployed, ask, legs, unavailable>>

-----------------------------------------------------------------------------

Source == DOMAIN Payloads

Next ==
    \/ \E a \in Asks : Ask(a)
    \/ \E l \in Source : Headers(l) \/ Body(l) \/ Refuse(l) \/ Abort(l)
    \/ Conclude

(* A timer fires; no source has to answer.                                 *)
Fairness == WF_vars(Conclude) /\ \A l \in Source : WF_vars(Abort(l))

Spec == Init /\ [][Next]_vars /\ Fairness

-----------------------------------------------------------------------------
(* Properties *)

Ended(tools) == pc = "ended" /\ Tool \in tools

Failing == {l \in DOMAIN legs : Lost(legs[l].raw)}

(* A source that fails is said to have failed, by the freshness of the     *)
(* answer and by the status of its part, whatever the others answer and    *)
(* whoever answers last; and it takes no other source's evidence with it.  *)
(* Only a log of more lines than the telemetry schema admits makes the     *)
(* worker fail (healthSnapshot, incidentContext, render, collect).         *)
SilenceIsSaid ==
    /\ Ended({"health_snapshot", "active_alerts", "query_metrics", "incident_context"})
         /\ result.code = "content"
         => (result.freshness = "unknown" <=> Failing # {})
    /\ Ended({"health_snapshot", "incident_context"}) =>
         \A s \in DOMAIN result.targets :
            result.targets[s] # "unknown" <=>
               /\ s \in DOMAIN legs \ Failing
               /\ \E i \in DOMAIN Take(legs[s].raw, MaxSeries) :
                    /\ legs[s].raw[i] # Null
                    /\ \E v \in ToSet(Take(legs[s].raw[i].samples, MaxSamples)) : v # Null
    /\ Ended({"incident_context"}) => (Failing # {} <=> "provider-unavailable" \in result.warnings)
    /\ Ended({"render"}) /\ result.code = "content" /\ result.image => Failing = {}
    /\ Ended({"collect"}) =>
         IF result.code = "rejected" THEN legs["logs"].raw.lines > MaxItems
         ELSE /\ \A l \in DOMAIN result.status :
                   result.status[l] = "unavailable" <=> l \in Failing \/ l \notin DOMAIN legs
              /\ result.commitMatch = "unknown" <=> "status" \in Failing
              /\ result.freshness = "fresh" => DOMAIN legs \ {"status"} = DOMAIN result.status
                                                /\ Failing \subseteq {"status"}

(* All of it is in the answer, or the answer says that it was cut: alerts  *)
(* that match, numbers of a query, and what a source has in the window.    *)
(* So "no-evidence" is a fact about the source.  The alert of an incident  *)
(* is left out: its answer drops the mark (incidentContext).               *)
NothingIsLeftOut ==
    /\ Ended({"active_alerts"}) /\ result.freshness = "fresh" /\ ~result.truncated =>
         \A i \in DOMAIN legs["alerts"].raw :
            LET raw == legs["alerts"].raw[i]
            IN raw # Null /\ Wanted(normalizeAlert(raw, i, deployed.grafana), ask.services, ask.states)
               => normalizeAlert(raw, i, deployed.grafana) \in ToSet(result.alerts)
    /\ Ended({"query_metrics"}) /\ result.code = "content" /\ result.freshness = "fresh"
         /\ ~result.truncated =>
         \A s \in ToSet(legs["query"].raw) \ {Null} : \A v \in ToSet(s.samples) \ {Null} :
            \E t \in ToSet(result.series) : v \in ToSet(t)
    /\ Ended({"collect"}) /\ result.code = "content" /\ ~result.truncated =>
         /\ result.status["metrics"] # "unavailable" =>
              \A s \in ToSet(legs["metrics"].raw) : \A t \in ToSet(s) \cap Window :
                 \E kept \in ToSet(result.evidence["metrics"]) : t \in ToSet(kept)
         /\ result.status["traces"] # "unavailable" =>
              \A s \in ToSet(legs["traces"].raw) :
                 s.measured /\ s.at \in Window => s \in ToSet(result.evidence["traces"])
         /\ \A l \in {"metrics", "traces"} :
              result.status[l] = "no-evidence" /\ ~result.redactionsApplied => legs[l].raw = <<>>

(* Every call of a tool ends, whatever its sources do.  The worker does    *)
(* not: no timer runs while the telemetry adapter reads a body.            *)
ReadsEnd == (pc = "waiting" /\ Tool # "collect") ~> (pc = "ended")
=============================================================================
