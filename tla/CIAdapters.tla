------------------------------- MODULE CIAdapters -------------------------------
(***************************************************************************)
(* The pure part of the CI adapters (github-actions-provider.ts,           *)
(* jenkins-provider.ts, bitbucket-provider.ts) and of what decides which   *)
(* tools a server offers (ci-provider-registry.ts, create-server.ts).      *)
(*                                                                         *)
(* A log is the sequence of its lines; what an adapter selects of it keeps *)
(* their numbers.  Null stands for a field without a value.                *)
(***************************************************************************)
EXTENDS Integers, SequencesExt

CONSTANTS
    Null,
    BigLog,             \* lines that make MAX_RESPONSE_BYTES
    WorkflowCategory    \* what classifyFailure finds in the workflow's name

Kind == {"github", "jenkins", "bitbucket"}

Malformed == [conclusion |-> "malformed"]

-----------------------------------------------------------------------------
(* Runs *)

GitHubConclusions ==
    {"success", "failure", "cancelled", "skipped", "neutral", "timed_out", "action_required"}

(* What GitHub reports that the schema does not list is malformed.         *)
normalizeRun(raw) ==
    IF /\ raw.status \in {"queued", "in_progress", "completed"}
       /\ raw.conclusion \in GitHubConclusions \cup {Null}
    THEN [status |-> raw.status, conclusion |-> raw.conclusion, attempt |-> raw.attempt]
    ELSE Malformed

(* A job has its conclusion only when it is over; before, it is malformed. *)
normalizeJob(raw) ==
    IF raw.conclusion \in GitHubConclusions
    THEN [id |-> raw.id, conclusion |-> raw.conclusion, category |-> raw.category]
    ELSE Malformed

normalizeBuild(raw) ==
    [status |-> IF raw.building THEN "in_progress" ELSE "completed",
     conclusion |-> CASE raw.building -> Null
                      [] ~raw.building /\ raw.result = "SUCCESS" -> "success"
                      [] ~raw.building /\ raw.result = "ABORTED" -> "cancelled"
                      [] ~raw.building /\ raw.result = Null -> "unknown"
                      [] OTHER -> "failure",
     attempt |-> 1]

(* A result comes before the state, except that of a pipeline stopped.     *)
ConclusionOf(state, result) ==
    IF result = "SUCCESSFUL" THEN "success"
    ELSE IF result \in {"FAILED", "ERROR"} THEN "failure"
    ELSE IF {state, result} \cap {"STOPPED", "HALTED"} # {} THEN "cancelled"
    ELSE "unknown"

pipelineConclusion(state, result) ==
    CASE state \in {"PENDING", "IN_PROGRESS", "RUNNING"} -> Null
      [] state = "PAUSED" -> "action_required"
      [] OTHER -> ConclusionOf(state, result)

(* A pipeline without a result has its state for one.                      *)
normalizePipeline(raw) ==
    [status |-> IF raw.state \in {"PENDING", "IN_PROGRESS", "PAUSED", "RUNNING"}
                THEN "in_progress" ELSE "completed",
     conclusion |-> pipelineConclusion(raw.state, IF raw.result = Null THEN raw.state
                                                  ELSE raw.result),
     attempt |-> 1]

Normalized(kind, raw) ==
    CASE kind = "github" -> normalizeRun(raw)
      [] kind = "jenkins" -> normalizeBuild(raw)
      [] OTHER -> normalizePipeline(raw)

Fine == {"success", "skipped", "neutral"}

-----------------------------------------------------------------------------
(* Failed jobs *)

githubFailedJobs(jobs) == SelectSeq(jobs, LAMBDA job : job.conclusion \notin Fine)

(* Jenkins and Bitbucket make one job of the run, running or not.          *)
RunAsJob(run) ==
    IF run.conclusion \in Fine THEN <<>>
    ELSE <<[id |-> 0, category |-> WorkflowCategory,
            conclusion |-> IF run.conclusion = Null THEN "unknown" ELSE run.conclusion]>>

FailedJobs(kind, run, jobs) ==
    IF kind = "github" THEN githubFailedJobs(jobs) ELSE RunAsJob(run)

(* getRemediationPlan has one action for each category of failed jobs.     *)
PlanOf(failedJobs) == {failedJobs[i].category : i \in DOMAIN failedJobs}

-----------------------------------------------------------------------------
(* Logs *)

FirstLines(log, n) == SubSeq(log, 1, Min({n, Len(log)}))

LastLines(log, n) == SubSeq(log, Max({1, Len(log) - n + 1}), Len(log))

(* Jenkins keeps the end of a big log, less its first line, which may have *)
(* lost its beginning.                                                     *)
JenkinsLines(log) ==
    IF Len(log) > BigLog THEN Tail(LastLines(log, BigLog)) ELSE log

Whole(selected, log) == Len(selected) = Len(log)

(* Mutant: the cut of a big log goes unmarked.                             *)
SelectLogUnmarked(kind, log, maxLines) ==
    IF kind = "jenkins"
    THEN [lines |-> LastLines(JenkinsLines(log), maxLines),
          truncated |-> Len(JenkinsLines(log)) > maxLines]
    ELSE [lines |-> FirstLines(log, maxLines), truncated |-> Len(log) > maxLines]

(* getLogEvidence: the first lines, of Jenkins the last.                   *)
SelectLog(kind, log, maxLines) ==
    IF kind = "jenkins"
    THEN [lines |-> LastLines(JenkinsLines(log), maxLines),
          truncated |-> Len(log) > BigLog \/ Len(JenkinsLines(log)) > maxLines]
    ELSE [lines |-> FirstLines(log, maxLines), truncated |-> Len(log) > maxLines]

(* GitHub and Bitbucket refuse a log they would have to cut unread.        *)
RefusesLog(kind, log) == kind # "jenkins" /\ Len(log) > BigLog

-----------------------------------------------------------------------------
(* Requests and errors *)

(* The requests of one answer, in order.  GitHub lists the jobs of a run   *)
(* on their own, and redirects to another host for a log.                  *)
githubCIRequests(tool) ==
    CASE tool = "log_evidence" -> <<"log", "archive">>
      [] tool \in {"failed_job_analysis", "remediation_plan"} -> <<"run", "jobs">>
      [] OTHER -> <<"run">>

(* A build on Jenkins, a pipeline on Bitbucket, answers everything but its *)
(* log.                                                                    *)
oneRequest(tool) == IF tool = "log_evidence" THEN <<"log">> ELSE <<"run">>

CIRequests(kind, tool) ==
    IF kind = "github" THEN githubCIRequests(tool) ELSE oneRequest(tool)

(* A request that carries the token of a GitHub App installation.          *)
Authorized(kind, request) == kind = "github" /\ request \notin {"archive", "metrics"}

httpError(kind, status) ==
    CASE status \in {401, 403} -> "permission"
      [] status = 404 /\ kind # "github" -> "malformed"
      [] OTHER -> "unavailable"

-----------------------------------------------------------------------------
(* What a server offers *)

(* On Jenkins an entry of the allowlist covers the branches below it.      *)
matchesWorkflow(kind, workflow) ==
    \/ workflow = "listed"
    \/ kind = "jenkins" /\ workflow = "branch-of-listed"

(* Only GitHub can be declared to re-run, and then with an approval.       *)
CapabilitiesOf(kind) == [read |-> TRUE, rerun |-> kind = "github"]

(* The registry refuses a provider that lacks a port it is declared with.  *)
Registrable(registration) ==
    /\ registration.capabilities.read => registration.readPorts
    /\ registration.capabilities.rerun => registration.rerunPort

(* Metadata that does not agree with the provider means no tools at all.   *)
validRuntimeMetadata(ci) ==
    /\ ci.metadata # Null
    /\ ci.metadata.capabilities.read => ci.provider.readPorts
    /\ ci.metadata.kind = ci.provider.kind
    /\ ci.registry => /\ Registrable(ci.provider)
                      /\ ci.provider.capabilities = ci.metadata.capabilities
    /\ ci.metadata.capabilities.read \/ ci.metadata.capabilities.rerun
    /\ ci.metadata.approvalRequired <=>
          ci.metadata.kind = "github" /\ ci.metadata.capabilities.rerun

(* registerCITools: a re-run also needs an approval service and an opt-in. *)
ToolsOf(ci) ==
    IF ~validRuntimeMetadata(ci) THEN {}
    ELSE {tool \in {"workflow_status", "failed_job_analysis", "log_evidence",
                    "remediation_plan", "failure_analysis", "scm_change_evidence",
                    "telemetry_correlation", "rerun_failed_workflow"} :
            /\ ci.metadata.capabilities.read
            /\ tool = "failure_analysis" => ci.forensics # {}
            /\ tool = "scm_change_evidence" => ci.scm \/ "scm" \in ci.forensics
            /\ tool = "telemetry_correlation" => "telemetry" \in ci.forensics
            /\ tool = "rerun_failed_workflow" =>
                  /\ ci.rerunEnabled
                  /\ ci.metadata.capabilities.rerun
                  /\ ci.metadata.kind = "github"
                  /\ ci.audited}

(* ciProviderError knows the errors of CI adapters only.                   *)
ciProviderError(tool, code) ==
    CASE tool # "scm_change_evidence" /\ code = "permission" -> "ci_permission_denied"
      [] tool # "scm_change_evidence" /\ code = "malformed" -> "ci_malformed"
      [] OTHER -> "ci_unavailable"
================================================================================
