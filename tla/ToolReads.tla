------------------------------- MODULE ToolReads -------------------------------
(***************************************************************************)
(* A server that loads its configuration (RuntimeConfiguration), and the   *)
(* calls of its read-only tools (ciRead and scmRead in                     *)
(* server/create-server.ts): the requests each adapter sends one after the *)
(* other while branches and runs move on, the cached token of a GitHub App *)
(* installation that concurrent calls share                                *)
(* (github-app-token-provider.ts), the budget of a read of source control, *)
(* and the audit of what was answered.                                     *)
(*                                                                         *)
(* Every await is a point where other calls, the providers and the clock   *)
(* go on.  An abort signal ends an await when its time is over.            *)
(***************************************************************************)
EXTENDS RuntimeConfiguration, SCMAdapters

CONSTANTS
    Caller,         \* calls in flight, each asks once
    Deployments,    \* configurations with the secret files they find
    Asks,           \* what each caller may ask of each kind
    RawRuns,        \* what each kind of provider may say of the run
    JobsOf,         \* the jobs GitHub lists for a run
    Logs,           \* logs a job may have
    Change,         \* the change of each revision of the branch
    Timeout,        \* of a request, ten seconds
    Skew,           \* TOKEN_REFRESH_SKEW_MS
    Lifetime,       \* of an installation token
    MaxClock        \* bound of the clock

(* A token lives an hour, a request ten seconds.                           *)
ASSUME TimeAssumption ==
    /\ {Timeout, Skew, Lifetime, MaxClock} \subseteq Nat
    /\ Timeout < Skew /\ Skew < Lifetime
    /\ 2 * Timeout < Lifetime

(* What the schemas of configurations, tools and budgets let through       *)
(* (runtime-config.ts, create-server.ts, scm/schemas.ts), and what the     *)
(* providers have.                                                         *)
ASSUME ReadsAssumption ==
    /\ \A d \in Deployments : d.document.ci # Null =>
          /\ d.document.ci.own.type \in Kind
          /\ d.document.ci.providers # Null =>
                \A p \in Range(d.document.ci.providers) : p.type \in Kind
    /\ DefaultBudget \in [maxFiles: Nat, maxHunks: Nat, maxLines: Nat, maxBytes: Nat,
                          maxRequests: Nat, maxDuration: Nat]
    /\ \A x \in Kind, c \in Caller : \A ask \in Asks[x][c] :
          /\ ask.tool = "scm_change_evidence" =>
                \A limit \in DOMAIN ask.given : ask.given[limit] \in Nat
          /\ ask.tool = "log_evidence" => ask.maxLines \in Nat
    /\ \A x \in Kind : \A raw \in RawRuns[x] :
          "attempt" \in DOMAIN raw /\ raw.attempt \in DOMAIN JobsOf
    /\ {BigLog, FileOverhead} \subseteq Nat
    /\ Logs \subseteq Seq(Nat)
    /\ Change \in Seq(Seq(File)) \ {<<>>}

(* Nothing is not the metadata of a provider.                              *)
ASSUME NullAssumption ==
    Null \notin [kind: Kind, capabilities: [read: BOOLEAN, rerun: BOOLEAN],
                approvalRequired: BOOLEAN]

Revision == DOMAIN Change

VARIABLES
    config,     \* what is deployed, until it is loaded
    svc,        \* the server's CI service
    clock,
    head,       \* the revision the branch is at
    run,        \* the run, as its provider has it
    cache,      \* when the cached token of each adapter expires
    call,       \* the calls
    trail       \* the audit records of each call

vars == <<config, svc, clock, head, run, cache, call, trail>>

world == <<config, svc, head, run>>

(* Each has a token provider of its own.                                   *)
Adapters == {"ci", "scm"}

Codes == {"content", "ci_permission_denied", "ci_malformed", "ci_unavailable",
          "ci_policy_denied", "ci_audit_unavailable"}

NoAsk == [tool |-> "none"]

NewCall ==
    [pc |-> "new", ask |-> NoAsk, parts |-> <<>>, began |-> 0, since |-> 0,
     expiry |-> Null, sent |-> 0, code |-> "none", result |-> Null]

Init ==
    /\ config \in Deployments
    /\ svc = Null
    /\ clock = 0
    /\ head = 1
    /\ run = Null
    /\ cache = [adapter \in Adapters |-> Null]
    /\ call = [c \in Caller |-> NewCall]
    /\ trail = [c \in Caller |-> {}]

kind == svc.provider.kind

Waiting(c) == call[c].pc \in {"fetching", "waiting"}

IsSCM(k) == k.ask.tool = "scm_change_evidence"

Adapter(k) == IF IsSCM(k) THEN "scm" ELSE "ci"

(* Telemetry is the instant query of the observability provider.           *)
Requests(k) ==
    CASE IsSCM(k) -> SCMRequests(kind, k.ask.by)
      [] k.ask.tool = "telemetry_correlation" -> <<"metrics">>
      [] OTHER -> CIRequests(kind, k.ask.tool)

Request(k) == Requests(k)[Len(k.parts) + 1]

budget(k) == resolveSCMBudget(k.ask.given)

Elapsed(k) == clock - k.began

(* The signal of a request to source control also ends with the budget.    *)
Patience(k) ==
    IF IsSCM(k) /\ k.pc = "waiting"
    THEN Min({Timeout, k.began + budget(k).maxDuration - k.since})
    ELSE Timeout

Overdue(k) == clock >= k.since + Patience(k)

-----------------------------------------------------------------------------
(* What a call does between two awaits *)

Failed(k, error) == [k EXCEPT !.pc = "failed", !.code = error]

(* Mutant: one request more than the budget has.                           *)
MayBeginLate(k) ==
    ~IsSCM(k) \/ (Elapsed(k) <= budget(k).maxDuration /\ k.sent <= budget(k).maxRequests)

(* beginRequest of the budget's guard; CI adapters have none.              *)
MayBegin(k) ==
    ~IsSCM(k) \/ (Elapsed(k) <= budget(k).maxDuration /\ k.sent < budget(k).maxRequests)

Send(k, expiry) ==
    IF MayBegin(k)
    THEN [k EXCEPT !.pc = "waiting", !.since = clock, !.expiry = expiry, !.sent = @ + 1]
    ELSE Failed(k, "unavailable")

(* Mutant: a token is used until it expires.                               *)
FreshToTheEnd(expiry) == expiry # Null /\ expiry > clock

Fresh(expiry) == expiry # Null /\ expiry - Skew > clock

(* On to the next request, with the cached token if that is fresh.         *)
Proceed(k) ==
    IF Len(k.parts) = Len(Requests(k)) THEN [k EXCEPT !.pc = "ready", !.expiry = Null]
    ELSE IF ~Authorized(kind, Request(k)) THEN Send(k, Null)
    ELSE IF Fresh(cache[Adapter(k)]) THEN Send(k, cache[Adapter(k)])
    ELSE [k EXCEPT !.pc = "fetching", !.since = clock, !.expiry = Null]

With(k, part) == Proceed([k EXCEPT !.parts = Append(@, part)])

Step(c, k) == call' = [call EXCEPT ![c] = k]

-----------------------------------------------------------------------------
(* Starting *)

Load ==
    /\ config # Null
    /\ config' = Null
    /\ svc' = loadRuntimeConfiguration(config.document, config.files)
    /\ run' \in IF svc' = Null THEN {Null} ELSE RawRuns[svc'.provider.kind]
    /\ UNCHANGED <<clock, head, cache, call, trail>>

Serving == svc # Null

-----------------------------------------------------------------------------
(* Asking *)

Listed(k) ==
    IF IsSCM(k) THEN k.ask.workflow # "other-repository"
    ELSE matchesWorkflow(kind, k.ask.workflow)

Refusal(k) ==
    CASE IsSCM(k) -> SCMRefusal(kind, k.ask.by, k.ask.branch = "allowed", svc.branchKnown)
      [] k.ask.tool = "telemetry_correlation" /\ ~svc.queryKnown -> "unavailable"
      [] OTHER -> "none"

(* Nothing is requested of a provider for what the policy does not list.   *)
Ask(c) ==
    /\ Serving
    /\ call[c].pc = "new"
    /\ \E ask \in Asks[kind][c] :
          /\ ask.tool \in ToolsOf(svc)
          /\ \E k \in {[NewCall EXCEPT !.ask = ask]} :
                Step(c, IF ~Listed(k) THEN [k EXCEPT !.pc = "denied"]
                        ELSE IF Refusal(k) # "none" THEN Failed(k, Refusal(k))
                        ELSE Proceed(IF IsSCM(k) THEN [k EXCEPT !.began = clock] ELSE k))
    /\ UNCHANGED <<world, clock, cache, trail>>

-----------------------------------------------------------------------------
(* Tokens *)

(* Issued at any time since the request left; cached whatever the cache    *)
(* holds by then.                                                          *)
TokenGranted(c) ==
    LET k == call[c] IN
    /\ k.pc = "fetching"
    /\ \E issued \in k.since..clock :
          /\ cache' = [cache EXCEPT ![Adapter(k)] = issued + Lifetime]
          /\ Step(c, Send(k, issued + Lifetime))
    /\ UNCHANGED <<world, clock, trail>>

(* Source control takes every failure for a lack of permission.            *)
TokenDenied(c) ==
    LET k == call[c] IN
    /\ k.pc = "fetching"
    /\ \E error \in {"permission", "malformed", "unavailable"} :
          Step(c, Failed(k, IF IsSCM(k) THEN "permission" ELSE error))
    /\ UNCHANGED <<world, clock, cache, trail>>

-----------------------------------------------------------------------------
(* Answers *)

(* The revision a request to source control is answered for; a commit that *)
(* is asked for is the first.                                              *)
RevisionFor(k) ==
    CASE Request(k) \in {"pinned-diffstat", "pinned-diff"} -> k.parts[1]
      [] /\ Request(k) \notin {"pinned-diffstat", "pinned-diff"}
         /\ k.ask.by \in {"commit", "compare-commits"} -> 1
      [] OTHER -> head

(* Answers of a CI provider, as its adapter takes them.                    *)
CIParts(k) ==
    CASE Request(k) = "run" -> {Normalized(kind, run)}
      [] Request(k) = "jobs" ->
            {[i \in DOMAIN jobs |-> normalizeJob(jobs[i])] : jobs \in {JobsOf[run.attempt]}}
      [] Request(k) = "metrics" -> {"series", "no-metrics"}
      [] OTHER -> Logs

Bad(k, part) ==
    CASE Request(k) = "run" -> part = Malformed
      [] Request(k) = "jobs" -> Malformed \in ToSet(part)
      [] Request(k) = "metrics" -> FALSE
      [] OTHER -> RefusesLog(kind, part)

(* GitHub may answer with the log itself where it usually redirects.       *)
CIAnswer(c) ==
    LET k == call[c] IN
    /\ k.pc = "waiting"
    /\ ~IsSCM(k)
    /\ \/ /\ kind = "github" /\ Request(k) = "log"
          /\ \/ Step(c, With(k, "redirect"))
             \/ \E log \in Logs :
                   Step(c, IF Bad(k, log) THEN Failed(k, "malformed")
                           ELSE Proceed([k EXCEPT !.parts = <<"direct", log>>]))
       \/ /\ ~(kind = "github" /\ Request(k) = "log")
          /\ \E part \in CIParts(k) :
                Step(c, IF Bad(k, part) THEN Failed(k, "malformed") ELSE With(k, part))
    /\ UNCHANGED <<world, clock, cache, trail>>

(* A pull request is refused when one of its branches is not allowed.      *)
SCMAnswer(c) ==
    LET k == call[c] IN
    /\ k.pc = "waiting"
    /\ IsSCM(k)
    /\ Step(c, IF Request(k) = "pull" /\ k.ask.branch # "allowed"
               THEN Failed(k, "permission")
               ELSE With(k, RevisionFor(k)))
    /\ UNCHANGED <<world, clock, cache, trail>>

(* A status that is not a success, a body that cannot be read, a redirect  *)
(* to a host that is not trusted; of metrics, a series the schema of their *)
(* result refuses.                                                         *)
Refused(c) ==
    LET k == call[c] IN
    /\ k.pc = "waiting"
    /\ \/ Request(k) = "metrics" /\ Step(c, Failed(k, "unavailable"))
       \/ /\ Request(k) # "metrics"
          /\ \/ \E status \in {403, 404, 500} :
                   Step(c, Failed(k, IF IsSCM(k) THEN providerHttpError(status)
                                     ELSE httpError(kind, status)))
             \/ Step(c, Failed(k, "malformed"))
             \/ kind = "github" /\ Request(k) = "log" /\ Step(c, Failed(k, "permission"))
    /\ UNCHANGED <<world, clock, cache, trail>>

(* The connection is lost, or the signal aborts it.  To an answer from     *)
(* telemetry that is the same as a status that is not a success.           *)
Lost(c) ==
    /\ Waiting(c)
    /\ Step(c, CASE Request(call[c]) = "metrics" -> With(call[c], "no-metrics")
                 [] IsSCM(call[c]) /\ call[c].pc = "fetching" -> Failed(call[c], "permission")
                 [] OTHER -> Failed(call[c], "unavailable"))
    /\ UNCHANGED <<world, clock, cache, trail>>

-----------------------------------------------------------------------------
(* Results *)

(* The first part names the head; the last one or two carry the change.    *)
ChangeResult(k) ==
    LET n == Len(k.parts)
        max == budget(k).maxFiles
        page(rev) == Page(kind, k.ask.by, Change[rev], budget(k))
        raw == CASE kind = "bitbucket" ->
                      bitbucketFiles(page(k.parts[n - 1]), Change[k.parts[n]], max)
                 [] kind = "jenkins" -> jenkinsFiles(page(k.parts[n]), max)
                 [] OTHER -> githubFiles(page(k.parts[n]), max)
        listed == k.parts[IF kind = "bitbucket" THEN n - 1 ELSE n]
    IN [head |-> k.parts[1],
        of |-> {listed, k.parts[n]},
        came |-> Len(page(listed)),
        evidence |-> finalizeSCMEvidence(raw, ProviderTruncated(kind, page(listed), max), budget(k))]

ResultOf(k) ==
    CASE IsSCM(k) -> ChangeResult(k)
      [] k.ask.tool = "log_evidence" ->
            [log |-> Last(k.parts), evidence |-> SelectLog(kind, Last(k.parts), k.ask.maxLines)]
      [] k.ask.tool = "workflow_status" -> [run |-> k.parts[1]]
      [] k.ask.tool = "telemetry_correlation" -> [available |-> k.parts[1] = "series"]
      [] k.ask.tool = "remediation_plan" ->
            [plan |-> PlanOf(FailedJobs(kind, k.parts[1], Last(k.parts)))]
      [] OTHER -> [run |-> k.parts[1], failed |-> FailedJobs(kind, k.parts[1], Last(k.parts))]

Reply(c, code, result) ==
    Step(c, [call[c] EXCEPT !.pc = "done", !.code = code, !.result = result,
                            !.parts = <<>>, !.since = 0, !.began = 0])

(* The record of an outcome may be written, or not, or be written by a     *)
(* call that throws when it releases the lock of the audit file.           *)
Audited(c, outcome, code, result, otherwise(_)) ==
    \/ /\ Reply(c, code, result)
       /\ trail' = IF svc.audited THEN [trail EXCEPT ![c] = @ \cup {outcome}] ELSE trail
    \/ svc.audited /\ otherwise({})
    \/ svc.audited /\ otherwise({outcome})

(* The catch block: a failure whose record fails as well is answered with  *)
(* the audit's own error.                                                  *)
Unrecorded(c, records) ==
    /\ Reply(c, "ci_audit_unavailable", Null)
    /\ trail' = [trail EXCEPT ![c] = @ \cup records]

CaughtAfter(c, code, before) ==
    \/ /\ Reply(c, code, Null)
       /\ trail' = [trail EXCEPT ![c] = @ \cup before \cup {"provider_failure"}]
    \/ Unrecorded(c, before)
    \/ Unrecorded(c, before \cup {"provider_failure"})

Deny(c) ==
    /\ call[c].pc = "denied"
    /\ Audited(c, "policy_denied", "ci_policy_denied", Null, LAMBDA r : Unrecorded(c, r))
    /\ UNCHANGED <<world, clock, cache>>

(* Mutant: the answer does not wait for its record.                        *)
AnswerUnrecorded(c) ==
    /\ call[c].pc = "ready"
    /\ Audited(c, "success", "content", ResultOf(call[c]),
               LAMBDA r : /\ Reply(c, "content", ResultOf(call[c]))
                          /\ trail' = [trail EXCEPT ![c] = @ \cup r])
    /\ UNCHANGED <<world, clock, cache>>

(* What the audit throws is no error of a CI provider.                     *)
Answer(c) ==
    /\ call[c].pc = "ready"
    /\ Audited(c, "success", "content", ResultOf(call[c]),
               LAMBDA r : CaughtAfter(c, "ci_unavailable", r))
    /\ UNCHANGED <<world, clock, cache>>

Fail(c) ==
    /\ call[c].pc = "failed"
    /\ Audited(c, "provider_failure", ciProviderError(call[c].ask.tool, call[c].code),
               Null, LAMBDA r : Unrecorded(c, r))
    /\ UNCHANGED <<world, clock, cache>>

-----------------------------------------------------------------------------
(* The world *)

Push ==
    /\ Serving
    /\ head + 1 \in Revision
    /\ head' = head + 1
    /\ UNCHANGED <<config, svc, run, clock, cache, call, trail>>

(* GitHub counts the attempts of a run; its jobs are those of the last.    *)
Restart ==
    /\ Serving
    /\ kind = "github"
    /\ run.attempt + 1 \in DOMAIN JobsOf
    /\ run' = [run EXCEPT !.attempt = @ + 1, !.status = "in_progress", !.conclusion = Null]
    /\ UNCHANGED <<config, svc, head, clock, cache, call, trail>>

(* No time passes between two awaits, nor beyond a signal's time.          *)
Tick ==
    /\ Serving
    /\ clock < MaxClock
    /\ \A c \in Caller :
          /\ call[c].pc \notin {"ready", "failed", "denied"}
          /\ Waiting(c) => ~Overdue(call[c])
    /\ clock' = clock + 1
    /\ UNCHANGED <<world, cache, call, trail>>

Next ==
    \/ \E c \in Caller :
          \/ Ask(c) \/ TokenGranted(c) \/ TokenDenied(c)
          \/ CIAnswer(c) \/ SCMAnswer(c) \/ Refused(c) \/ Lost(c)
          \/ Deny(c) \/ Answer(c) \/ Fail(c)
    \/ Load \/ Push \/ Restart \/ Tick

Spec == Init /\ [][Next]_vars

-----------------------------------------------------------------------------
TypeOK ==
    /\ config \in Deployments \cup {Null}
    /\ svc # Null => config = Null /\ svc.provider.kind \in Kind
    /\ clock \in 0..MaxClock
    /\ head \in Revision
    /\ run # Null => run.attempt \in DOMAIN JobsOf
    /\ cache \in [Adapters -> (1..MaxClock + Lifetime) \cup {Null}]
    /\ \A c \in Caller :
          /\ call[c].pc \in {"new", "fetching", "waiting", "ready", "failed", "denied", "done"}
          /\ call[c].pc = "done" => call[c].code \in Codes
          /\ trail[c] \subseteq {"success", "provider_failure", "policy_denied"}

ReadTools == {"workflow_status", "failed_job_analysis", "log_evidence", "remediation_plan"}

(* A configuration that is loaded is served as it stands: by the provider  *)
(* it selects, with every tool that this provider's sections ask for and   *)
(* no other, a re-run among them only where GitHub is told to and an       *)
(* approval is there to record it (loadRuntimeConfiguration, the provider  *)
(* registry, and registerCITools agree).                                   *)
ServesWhatIsLoaded ==
    [][config # Null /\ config' = Null /\ svc' # Null =>
         LET p == resolveCIProvider(config.document.ci)
             tools == ToolsOf(svc')
         IN /\ svc'.provider.kind = p.type
            /\ ReadTools \subseteq tools
            /\ "scm_change_evidence" \in tools <=> WantsSCM(p)
            /\ "telemetry_correlation" \in tools <=> WantsTelemetry(p)
            /\ "rerun_failed_workflow" \in tools <=>
                  p.type = "github" /\ p.settings["github"].rerun /\ config.document.ci.approval]_vars

(* While a request to GitHub is under way, the token it carries has not    *)
(* expired: cached tokens are given up a skew before, however long ago     *)
(* their call was made (github-app-token-provider.ts getToken).            *)
TokenOutlivesRequest ==
    \A c \in Caller :
        call[c].pc = "waiting" /\ call[c].expiry # Null => call[c].expiry > clock

Evidence(c) == call[c].result.evidence

Answered(c, tool) ==
    call[c].pc = "done" /\ call[c].code = "content" /\ call[c].ask.tool = tool

(* A change asked for by branch or by commit is the change of the head the *)
(* answer names, whatever is pushed between the requests of its adapter.   *)
ChangeIsOfItsHead ==
    \A c \in Caller :
        Answered(c, "scm_change_evidence") /\ call[c].ask.by \in {"ref", "commit"}
        => call[c].result.of = {call[c].result.head}

(* Evidence leaves a server with an audit only once its record is written, *)
(* and what the policy denies was never asked of a provider (ciRead,       *)
(* scmRead).                                                               *)
AnswersAreOnRecord ==
    \A c \in Caller :
        /\ Serving /\ svc.audited =>
              /\ call[c].code = "content" => "success" \in trail[c]
              /\ call[c].code = "ci_policy_denied" => "policy_denied" \in trail[c]
        /\ "policy_denied" \in trail[c] => call[c].sent = 0

(* A read of source control stays within the requests, the time, and the   *)
(* size its budget allows (createSCMBudgetGuard, boundSCMItems).           *)
WithinBudget ==
    \A c \in Caller : IsSCM(call[c]) =>
        LET k == call[c] IN
        /\ k.sent <= budget(k).maxRequests
        /\ k.pc = "waiting" => Elapsed(k) <= budget(k).maxDuration
        /\ Answered(c, "scm_change_evidence") =>
              LET files == Evidence(c).files IN
              /\ Len(files) <= budget(k).maxFiles
              /\ SizeOf(files) <= budget(k).maxBytes
              /\ Headers(PatchesOf(files)) <= budget(k).maxHunks
              /\ BodyLines(PatchesOf(files)) <= budget(k).maxLines

(* Every line of a log and every file a provider sent that the answer does *)
(* without is marked (getLogEvidence and the file lists of each adapter,   *)
(* finalizeSCMEvidence).                                                   *)
CutIsMarked ==
    \A c \in Caller :
        /\ Answered(c, "log_evidence") /\ ~Whole(Evidence(c).lines, call[c].result.log)
           => Evidence(c).truncated
        /\ /\ Answered(c, "scm_change_evidence")
           /\ Len(Evidence(c).files) < call[c].result.came
           => Evidence(c).truncated

(* README.md:263 says that oversized evidence is marked explicitly.        *)
(* GitHub and Bitbucket are asked for no more files than the budget has,   *)
(* so that the adapter never sees that there are more.                     *)
OversizedChangeIsMarked ==
    \A c \in Caller :
        /\ Answered(c, "scm_change_evidence")
        /\ call[c].result.of = {call[c].result.head}
        /\ Len(Evidence(c).files) < Len(Change[call[c].result.head])
        => Evidence(c).truncated
===============================================================================
