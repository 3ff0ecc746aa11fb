# Verification of pak-satpam

pak-satpam is a read-mostly gateway between agents and a team's CI, SCM and
observability systems. One part of it, the CI observer, runs by itself: it
polls the CI provider, takes webhooks, keeps a durable document of what it has
seen, and tells a notification sink about failed, stale and recovered runs,
with a bounded analysis of each failure. The other parts answer requests: they
read from several services at once, under policies, budgets and timeouts, and
re-run a workflow under an approval. This directory holds TLA+ models of these
parts, TLC configurations that check them on small instances, and TLAPS proofs
for every instance. Paths below are relative to the repository's `src/`
directory.

## Inventory

| Part | State | Operations | What is hard about it | Correct when |
| --- | --- | --- | --- | --- |
| **Observer runtime** `observer/runtime.ts` | the working copy of the document, `currentTarget`, the copy held before a page, the page's candidates, backoffs | `pollOnce` (hot lane, backlog lane), `ingestWebhook`, `reconcileRuns`, `buildEvent`, `start` | every `await` is a point where the process may die; three copies of one record; deliveries whose answer is lost; pages that shift; incidents that open and close | no notification without a record, no second analysis, outcomes final, a complete scan moves the cursor past no unsettled failure, failures eventually announced, incidents eventually closed |
| **State document** `observer/state.ts` | per target: cursor, page, backoffs, incident, recovery id, records by event id | `load`, `save` (write, fsync, rename) | atomic as a whole; pruned above a size; legacy records | a restart finds what may have been sent |
| **Lease** `observer/state.ts` | a lock file and its modification time | `acquireLease`, release | stale takeover by stat, unlink, create; release by name; never refreshed | one call at a time; a dead holder is replaced |
| **Delivery sink** `observer/delivery.ts` | none between calls | `deliver`: bounded attempts, backoff, two routes | a request outlives its timeout; an answer is lost after the receipt | it ends, and says delivered only of what was accepted |
| **CI forensics** `ci/forensics.ts` | the evidence, requests and lines of one analysis | `assembleFailureAnalysis` over six sources, `buildAgentNotificationPayload` | any source fails; five budgets and three cuts in a row; the observer gives the analysis up while it goes on | budgets hold, every source is accounted for, cuts are marked, only the mandatory sources can make an analysis unavailable |
| **Analysis policy, event envelope** `observer/analysis-policy.ts`, `event-envelope.ts` | none | a bounded callback, a bounded serialization | callback, timer and deadline race; limits that contradict each other | the reason given for missing advice is true; the event is built in the end |
| **Approval** `ci/approval.ts`, `approval-cli.ts` | replay file, audit file, lock files, action leases | `issue`, `verifyAndConsume`, `acquireActionLease`, `append` | several processes on the same files, stale locks, a record written and the next write failing | an approval is used once, one rerun of a run at a time |
| **MCP server** `server/create-server.ts`, `ci/service.ts`, `ci/policy.ts` | none of its own | registration of tools, `ciRead`, `scmRead`, the reads of observability, `rerunFailedWorkflow` | check of the run, then act; audit around the act; an audit that fails after the read | no rerun without a fresh, matching, eligible run and a spent approval; no evidence without its record |
| **Token cache** `providers/github-app-token-provider.ts`, `mapped-github-app-token-provider.ts` | token and expiry by repository | `getToken` | concurrent misses, a clock read before an await | a token outlives the request it is sent with |
| **CI provider adapters, registry** `providers/*-provider.ts`, `ci-provider-registry.ts` | none | status, failed jobs, logs, plans | a run that restarts between two requests; logs cut at two places | errors are one of three kinds, cuts are marked, the selected provider is served with its own tools |
| **SCM adapters** `providers/*-scm-provider.ts`, `scm/*` | the budget of one read | change by reference, commit, pull request, comparison | the branch moves between requests; five limits | a change is that of the head it names, within the budget, its cuts marked |
| **Observability and visual providers** `providers/victoriametrics-provider.ts`, `grafana-visual-provider.ts`, `telemetry-evidence-provider.ts` | none | health, alerts, metrics, incidents, panels; metrics and traces as evidence | concurrent requests with a shared flag; cut, then filtered | an outage is said to be one, nothing is left out unmarked |
| **Telemetry worker** `telemetry/forensics-worker.ts` | none | `collect` | four sources at once | one failure leaves the others' evidence |
| **Configuration loader** `runtime/load-runtime-configuration.ts` | none | sections to services | selected and unselected sections, defaults drawn from other sections | what is loaded is what is served |
| **HTTP app**, **schemas**, **diagnostics**, **synthetic visuals** | none | one request, one answer | parsing and drawing | unit-testable |

Interactions: the runtime calls the CI provider (listing, analysis evidence),
the sink and the store; the lease keeps polls and webhooks of all processes off
each other's document; the server calls the approval service before the
provider's rerun and after every read; adapters draw tokens from the cache; the
failure analysis is asked for by the runtime and by a tool and asks the CI
provider, the SCM adapter and the telemetry service.

`PROJECT.json` lists these parts as components, with the hazards found in the
code, each at its line.

## Modules

| Module | Models | State and actions |
| --- | --- | --- |
| `ObserverTarget` | the record of one target in the document and the pure functions on it: `markSeen`, `isSettledDelivery`, `withDeliveryBackoff`, `withProviderBackoff`, `withoutBackoff`, `hasDeliveredNonSuccess`, `pruneSeen` | none: operators |
| `ObserverRuntime` | one observer process and one target | `disk` is what `save` made durable, `mem` the entry in the working document, `cur` `currentTarget`, `base` the target `pollOnce` holds while `reconcileRuns` runs; `pc` is the await the process is in. One action per stretch between two awaits or saves |
| `NotificationLedger` | the abstract promise about failing events, implemented by `ObserverRuntime` | `record`, `told`, `analysed` |
| `ObserverLease` | the lock file and the calls that take it | `lock` is the file's age, `pc` the file operation a call has reached |
| `DeliverySink` | `HttpDeliverySink`, the network and the receiver | `call` is the call for each event with its attempt, `flight` the requests under way, `answers` the answer to the attempt awaited |
| `EventDelivery` | the abstract promise of the sink, implemented by `DeliverySink`, and what `ObserverRuntime` relies on when it delivers in one step | `accepted`, `outcome` |
| `EvidenceBudget` | the budgets and cuts of a failure analysis and of its payload | none: operators |
| `FailureAnalysis` | `assembleFailureAnalysis` as a task, and its caller: the tool, or `buildEvent` with its deadline and recommendation callback | `place` is the source the assembly waits for, `call` what its caller does; one action per answer, timer and settlement |
| `ApprovedRerun` | calls of `rerunFailedWorkflow` over the replay file, its lock, the audit and the action lease | `pc` is the file operation or await a call has reached, `replay` and `audit` are the files, `run` and `inflight` the provider's side |
| `SCMAdapters`, `CIAdapters` | the requests each adapter sends for each question, and what it makes of the answers: selection, cuts, refusals, categories | none: operators |
| `RuntimeConfiguration` | what the loader accepts and the service it builds | none: operators |
| `ToolReads` | a server from its configuration on: concurrent reads of CI and source control, the token caches, the audit | `config`, `svc`, `cache`, `trail`, and per call the parts it has; one action per answer |
| `TelemetryAdapters` | what the observability provider, the telemetry adapter and the worker make of a payload | none: operators |
| `EvidenceReads` | one call of an observability tool or of the worker with its concurrent requests | `legs` are the requests with what each has brought, `unavailable` the flag the health checks share, `drawn` whether the server has drawn the image itself; the answer, `result`, follows from these |
| `MCObserver`, `MCLease`, `MCSink`, `MCAnalysis`, `MCApproval`, `MCReads`, `MCEvidence` | values TLC gives to constants | |
| `ObserverRuntime_proofs`, `ObserverEffects_proofs`, `ObserverLease_proofs`, `ApprovedRerun_proofs`, `DeliverySink_proofs`, `ToolReads_proofs`, `FailureAnalysis_proofs`, `EvidenceReads_proofs` | theorems about the module each is named for (`ObserverEffects_proofs` is about `ObserverRuntime`), and their lemmas | |

How the code maps onto `ObserverRuntime`:

- `pollOnce`: `PollBegin` (backoff check, cursor), `ListHot`, `EnterBacklog`,
  `SaveProgress`, `ListBacklog`, `NextBacklogPage`, and the four ways a target
  ends: `ScanTruncated`, `ScanClean`, `ScanFailed`, `ListFails`.
- `ingestWebhook`: `WebhookBegin`, `WebhookDone`. A webhook ignores the
  provider backoff and saves nothing after `reconcileRuns`.
- `reconcileRuns`: candidates newest first; `SkipRun`, `SuppressStale`,
  `SuppressQuiet`, `SuppressSuccess`, `StartRecovery`, `StopForBackoff`,
  `StartStatus`, `StartAnalysis`, `BuildAnalysis`.
- delivery: `SinkAccepts`, `SinkReceives` (answer lost), `DeliveryFails`.
- `BuildThrows` is the exception of an analysis payload that cannot be built,
  which leaves `reconcileRuns` altogether.
- `Crash` loses every local; `LeaseExpires` is the restart, which waits for
  the dead process's lease.

The CI provider (`StartRun`, `EndRun`, `RerunRun`, `PageOf`) and the sink are
modelled from how the code uses them: newest-first pages of completed runs, a
re-run keeps its id and creation time, a webhook may be delivered again at any
later time.

What `ObserverRuntime` abstracts:

- one target, whose event ids are the constants `RedEvents`, `GreenEvents`,
  `QuietEvents`: an event id is repository, workflow, sha and conclusion, so
  two runs may share one;
- the `delivery` field of version-1 records and their run-id keys are merged
  with the fields and keys that replaced them;
- `pruneSeen` may keep any set of finished records of the right size, where
  the code keeps the most recently inserted;
- malformed candidates and the errors of a source are only counted by the
  code, and left out with metrics and health;
- errors of the file system while saving are left out, and so are envelopes of a
  status that `createObserverEventEnvelope` refuses (`runtime.ts:509`, `:548`);
- the process is alone: what several do to each other is `ObserverLease`;
- a backoff doubles from its base even where the code's lower clamp would give
  2 ms for a base of 1 ms; `RecoveryDelivered`, a branch the code has, is never
  taken in the checked states.

`ObserverLease` reduces the work under the lease to its essence: load the whole
document, send events it does not record, save the whole copy. Sending and
saving are one step there, since `ObserverRuntime` takes them apart. The
synchronous `acquireLease` is interleaved between its file operations, but only
by calls of other processes. A poll that throws ends its process (the timer
does not handle the rejection); a webhook that throws does not.

`ApprovedRerun` follows a call from `verifyAndConsume` (`Submit`, `Open`,
`FindStale`, `Unlink`, `Refuse`, `Read`, `Append`, `Log`) through
`acquireActionLease` (`Lease` to `Vanished`) to the recheck and the request
under the lease (`Start`, `Deny`, `Succeed`, `Fail`). All but the two requests
to the provider is synchronous, so calls of one process meet only there.

- Whether an approval verifies is any answer (`Submit`, `Reject`): signatures
  and expiry are computations on one token.
- An audit append, its own lock included, happens or throws. What the audit
  says of a call that was denied is left out.
- A lock file of a call at work never looks stale: 30 s and 10 min exceed the
  work under the replay lock (one audit append, which waits 5 s at most) and
  under the action lease (a few requests of 10 s). Those that a crash or a race
  leaves do.
- Waiting for a fresh lock is stuttering; five seconds end in `GiveUp`.
- The provider may receive a request after the call has given it up, end
  attempts in any way, and be asked for reruns by others.

`DeliverySink`: `Deliver`, `Wake` post an attempt; `Answered`, `Thrown` end its
fetch; `Receive` is the endpoint, which may take a request long after its signal
has fired; `Restart` ends the process and leaves requests under way. Constructed
sinks are those the constructor does not refuse, so that trust in URLs is part
of the initial states.

`FailureAnalysis` follows `assembleFailureAnalysis` source by source: `Status`,
`Analysis` (mandatory), `Remediation`, `Log` for each job or `NoLogs`, `SCM`,
`Telemetry`, then `Fit` and the payload. Each step ends one awaited request with
any of the answers or failures the code tells apart. `Deadline`, `GiveUp`,
`Answer`, `Settle`, `Reply` and `Stop` are the caller's side: the race of
`buildEvent`, the callback, and its two timers. A size counts entries, where the
code counts bytes; what a budget does (what is cut first, and when it stops) is
the code's. `input.methods` says whether the observer's provider is an instance
of a class, as `provider-factory.ts:31` builds it, or a plain object. `Parses`
is the schema every result passes last: `TooLong` holds the references that
exceed 64 characters with their prefix and the summaries that exceed 512,
`Marked` the texts with a `<` or `>` that `sanitizeEvidenceText` leaves.
`BasisCap` and `ListCap` are the 8 and 20 of the code.

`ToolReads` begins with `Load`, which makes a service of a configuration or
refuses it. `Ask` is the stretch of a handler up to its first await: policy,
refusals of the adapter, the first request. `TokenGranted` and `TokenDenied` end
`getToken`; `CIAnswer`, `SCMAnswer`, `Refused` and `Lost` end a request, with
what the adapter takes of the answer and the next request; `Answer`, `Fail` and
`Deny` are the ends of `ciRead` and `scmRead` with their audit, which may fail
before or after the record is written. `Push`, `Restart` and `Tick` are the
world. Two calls share nothing but the token caches, of which the CI adapter and
the SCM adapter have one each, and calls of Jenkins and
Bitbucket nothing at all, so that a second caller is there for GitHub only. A
patch is a sequence of header and body lines, a log a sequence of line numbers.

`EvidenceReads` lets the requests of one call settle in any order (`Headers`,
`Body`, `Refuse`, `Abort`) and then answers by `Conclude`. `Timed` says until
when a request has a timer: until its body is read, but for the telemetry
adapter, which clears it earlier. Calls share nothing, so that one stands for
all. Texts, redaction, digests and severities are left out. A vector
of a metrics answer that the result's schema refuses (more than twenty labels, a
time out of range) is not `admitted` and fails the call. Alerts are all admitted
(`parseAlerts` normalizes what it keeps, but for a time beyond the year 9999).

## Runs

| Run | Shows | Bounds, and why they are enough |
| --- | --- | --- |
| `ObserverDelivery` | types, effects recorded first, one analysis, final outcomes, the effect invariant of the proofs, complete scans that pass no unsettled failure, refinement of `NotificationLedger` | two runs, one red, green and quiet event, webhooks, staleness after one tick, one fault, pages of one and polls that can scan them all: every branch of `reconcileRuns` meets every kind of fault |
| `ObserverRecovery` | recoveries never outnumber failures; one recovery identity | red, green and red again by re-runs, two faults, so that a recovery fails and is met by another success |
| `ObserverLiveness` | failures are announced, incidents end | one fault of any kind, payload overflow included, under `FairSpec` |
| `LeaseShared` | exclusion and no repetition but for the takeover race; an orphaned lease is taken over | two processes, one with a poll and a webhook, calls exactly as long as the lease, one crash: a third holder adds no new pair |
| `DeliverySink` | the sink implements `EventDelivery`, its termination included | two events on two routes, two attempts a call, a second call, one restart: a request of one call is received during the other, before and after the restart |
| `FailureAnalysis` | budgets in order, accounting for every source, marked cuts, no analysis lost but for a cause the code has, truthful advice, an end | up to three jobs of which two are analysed; a job, a path and a signal of which the id is too long, the latter two also where a cut takes them away; a name (in the basis of its category, or behind another), a ref, an action and a warning with markup; an observer whose provider is an instance of a class and one whose provider is a plain object; `BasisCap` of one and `ListCap` of two, so that names and correlations are cut; logs below and above the limits, changes with and without hunks, signals in and out of the window; the observer with payloads that fit, are compacted and are refused, the tool with and without a budget so tight that each limit is met |
| `ApprovalShared` | single use of approvals, one action at a time, nothing leaves unrecorded, the approved attempt is re-run, a truthful audit, calls end | three calls of two servers, so that a race of two processes meets a further call of one of them; two approvals of one request, two of others; one crash or failed write; three attempts of the run |
| `ToolReads` | the configured tools are served, tokens outlive requests, changes of one head, answers on record, budgets, marked cuts | six configurations that are served and some forty with one thing wrong or one secret missing; two calls; two revisions and two attempts; budgets one below what an answer takes; a clock that reaches past a token's life |
| `EvidenceReads` | outages are said, nothing is left out unmarked, calls end | one call of each tool, every limit of the code at two, payloads of zero to three entries with unreadable ones among them |
| `ObserverFalseGreen`, `LeaseOverrun`, `AnalysisUnavailable` | three places where the code and its documentation disagree, described below | as small as shows it |

Clock values are ticks; `MaxClock` two or three covers "now", "in backoff or
stale" and "after" for the observer, and four a token's life for `ToolReads`.
`MaxFaults` bounds lost answers, failed listings, failed deliveries, overflows
and crashes together; `MaxCalls` and `MaxCrashes` bound `DeliverySink`. Deadlock
is checked in the runs of the observer and of the lease: the poll timer always
has something to do. Calls of the server, of the sink and of an analysis simply
end.

Fairness. `FairSpec` assumes what the code gives: the interval timer starts the
next poll, each awaited call ends (every fetch has a timeout), the clock moves.
It assumes nothing about CI runs, webhooks or faults. `WF(~Serializable /\
DeliveryFails)`: an exception of the serializer is not a fault, it follows from
the configuration. In `ObserverLease` polls are attempted for ever, a started
`acquireLease` runs to its end, every call releases in its `finally`, and time
passes; webhooks are not owed. In `ApprovedRerun` a call that has begun runs
on, its requests end by their timeout and its wait for the lock by its
deadline; the provider owes nothing.

Three properties hold `UntilRaced`: both takeovers of a stale lock file are a
stat, an unlink and a create, and between the first two another process may
have replaced the file. `raced` records that a fresh file of another was
unlinked. The properties say that this is the only way exclusion can fail.

`DeliverySink`, `FailureAnalysis` and `EvidenceReads` assume only what the
process does by itself: timers fire, an aborted request settles, and what is
settled is taken up. No receiver, provider, callback or source owes an answer.
`ToolReads` states no liveness.

### Disagreements between the code and its documentation

1. `ObserverFalseGreen`: the green branch (`src/observer/runtime.ts:481`) never
   asks whether the success is newer than the failure. On a newest-first page
   an older success follows the failure and is sent as its recovery.
2. `LeaseOverrun`: a call longer than `lease_seconds` loses its lease to
   another call of the same process, and both send the same event.
3. `AnalysisUnavailable`: `buildEvent` (`src/observer/runtime.ts:613`) overrides
   one operation of its provider in a copy made by spreading. The methods of
   `GitHubActionsProvider` are inherited and not copied, so the observer's
   analysis is the unavailable one whatever the provider would have answered.

### Limits the runs stay within

Each of these is a property that fails outside the instance of its run, or a
fact of the code the models show without stating it as a property.

- **Payloads that cannot be built.** `AnalysisMayOverflow = TRUE` in
  `ObserverDelivery.cfg` violates `AnalysisAtMostOnce` and `EffectsAreRecorded`:
  `notification_payload_too_large` leaves `reconcileRuns`, and the catch of
  `pollOnce` (`src/observer/runtime.ts:307`) stores the target from before the
  page. A ref with a `<` or `>` has the same effect at
  any size: `makeUnavailableFailureAnalysis` throws as well.
- **Pages that shift.** `CompleteScanPassesNoFailure` is about scans that list
  every page from the first, and about failures. A scan that was truncated
  resumes at a page number; newer runs shift the pages, the scan ends clean and
  the cursor passes runs never listed (`MaxPages = 1`, `MaxRuns = 3`,
  `MaxFaults = 0`, no webhooks, without the condition on `scan.page`). A crash or
  a failed page in the middle of a scan does the same, and so does a re-run
  within a complete one (`MaxAttempts = 2`). With two green events a success may
  go unrecorded behind a stored recovery identity.
- **Default sizes.** The default `max_payload_bytes` (128 KiB) exceeds what
  `serializeObserverEventEnvelope` accepts (64 KiB): with `MaxPayloadKiB = 128`
  no status is ever sent and `BackoffNeedsFault` fails (one run, `WebhooksOn =
  FALSE`, `MaxFaults = 0`).
- **Pruning.** `PruneAbove` below the number of events breaks
  `AnalysisAtMostOnce`.
- **Long changes.** `OversizedChangeIsMarked` added to `ToolReads.cfg` fails:
  GitHub and Bitbucket are asked for `maxFiles` entries and no further page, so
  the adapter cannot know that there are more. The repository's `README.md:263` says that
  oversized evidence is marked explicitly.
- **Long references and markup.** `AnalysisIsLostForCause` says what the code
  does, which is less than what the inventory asks for (`UnavailableHasCause`).
  Besides the time and the mandatory sources, an analysis is lost to a provider
  that is an instance of a class, and to whatever its result's schema refuses:
  `ci-job-` and `ci-log-` with a job's id, `scm-change-` with a path and
  `telemetry-` with the id of a degraded signal may exceed the 64 characters of
  a reference (`src/ci/forensics.ts:92`, `:499`, `:523`, `:553`), and a `<` or
  `>` that is not part of a tag stays in a job's name, the ref, an action or a
  warning (`:616`). One of them refuses the whole result, unless a cut took it
  away before. For the observer `UnavailableHasCause` fails for each of these.
- **Cuts without a mark**: hunks and their lines in `collectSCM`
  (`src/ci/forensics.ts:326-337`) and patches up to eight patch budgets
  (`src/scm/context.ts:27`).
- **Incidents**: `incidentContext` drops the mark of the alerts it searched, so
  an alert beyond the first hundred is "not found"; asked by alert only, it
  asks for the health of the service `unknown`. Alerts of one vmalert rule
  share their id. The health of a service is its first series' first sample.
- **The telemetry adapter** clears its timer before it reads the body, so
  `ReadsEnd` is not stated of the worker. `fromCILogEvidence` refuses logs of
  101 to 200 lines and takes the whole of `collect` with it.
- **Attempts**: GitHub's jobs are those of the last attempt, also when the run
  was read before; jobs still in progress make an analysis malformed. On
  Jenkins and Bitbucket a build that is still running is listed as a failed job
  of conclusion `unknown`.
- **Configurations**: one provider that cannot be built refuses all, selected
  or not; reads of Jenkins and Bitbucket are served without an approval service
  and so are not audited; the query a telemetry section names is not checked
  against the policy's.

## Proofs

TLAPS checks the theorems below for every value of the constants that satisfies
the named assumptions: every set of events, calls, processes and configurations,
every page size, limit, payload and bound. Every safety property of a passing run has
one. Few of them are inductive; what each paragraph adds is the invariant that
is, and why it is needed. Every module proves the preservation of its invariants
with a lemma per group of actions.

**`ObserverRuntime_proofs`**: `TypeCorrect`. Apart from the types `TypeOK` says
that a delivery in progress has its candidate, a completed run its conclusion,
and a recovery in progress its identity. The lemmas on `markSeen`, the backoffs
and `pruneSeen` are here.

**`ObserverEffects_proofs`**: six inductive invariants, one built on the other.

- `EffectsInv` (`EffectsInvariant`) gives `AnalysisIsStartedAtMostOnce` and
  `EffectsAlwaysRecorded`. A step reads `cur`, saves over `disk` and may go on
  from `mem`, so it says that the three hold the same records while a call runs
  (`CopiesAgree`), that a page holds a run once (`OneCandidatePerRun`), and that
  a delivery under way has its record (`UnderWayIsRecorded`).
- `OrderInv` (`OrderInvariant`) gives `RedIsRepeatedAfterFaults`,
  `RedComesBeforeAnalysis`, `RecoveriesHaveOneIdentity`, `OutcomesAreFinal` and
  `ObserverImplementsLedger`. `RecordsInv` relates a failure's record to what the
  sink got; `UnderWayInv` says what the delivery under way is; `IdentityInv` says
  that in each of the three copies a pending green record is the stored
  recovery. The same proof shows that a step changes the record of at most one
  failing event and in one of six ways (`RedStep`), and each of the six is a step
  or a stutter of `NotificationLedger`.
- `TallyInv` gives `RecoveriesAreOwed`. The numbers alone are not inductive,
  since a recovery may be sent from any copy of the document: the invariant says
  that each copy with an open incident is paid for by a failure no recovery has
  answered yet, or by a fault.
- `WindowInv` gives `CompleteScansPassNoFailure`: in a scan that has listed every
  page from the first, a failure the scan owes is settled, among the candidates
  of the page, or old enough to be on a page still to come (`OwedInv`); runs that
  end meanwhile only move it further back. `PageInv` and `CursorInv` say where
  the handling of a page stands and that every copy has the scan's cursor.
  `RecoveringInv` says that no failure leaves the page with a recovery.

These theorems assume `~AnalysisMayOverflow` (building an analysis payload never
throws) and `NeverPrunes` (no more events than `pruneSeen` keeps). These are
conditions on the configuration and on the runs' refs; without them the promises
are false, see
"Limits the runs stay within". `CompleteScansPassNoFailure` also assumes
`MaxAttempts <= 1`, since a re-run takes a run out of the listing.

**`ObserverLease_proofs`**: `LeaseTypeCorrect`, and from `LeaseInvariant` the
theorems `LeaseIsExclusive` and `EventsAreSentOnce`. The invariant says that the
lock file is the holder's own and exactly as old as its work, which is why it
cannot look stale, and that what was sent is on disk and in the holder's copy.
They assume `CallTicks <= LeaseTicks`; `LeaseOverrun` shows what happens
otherwise, and that the code does not ensure it.

**`ApprovedRerun_proofs`**: `ApprovalTypeCorrect`; `LocksHold` (a call in a
locked section owns its fresh lock file), from which `OneActionAtATime` follows;
`ApprovalsSpentOnce`, with `AppendsAreUnspent` (between the read of the replay
file and the append nothing gets into it that would have refused the approval);
`CallsAreOnRecord` (past an append, its entry is there) and `RequestsOnRecord`;
`OneRequestPerCall`; `ApprovedAttemptReruns`, with `RequestsAreCurrent` (a request
under way names the attempt the run is at); `AuditTellsTheTruth`, with
`OutcomesEndCalls`. Their conditions, `raced` and `interfered`, are variables:
they are part of the properties, not assumptions.

**`DeliverySink_proofs`**: `SinkIsConsistent` (a request goes to the endpoint its
event is meant for, and an answer that is "ok" is of an endpoint that has
accepted the event), and `SinkImplementsDelivery`: initial states and steps map
to `EventDelivery`.

**`ToolReads_proofs`**: `ReadsAreConsistent`, whose `ReadsInv` gives the other
seven. It relates each call to its request (its token's expiry, since when it
waits), its parts (what they were cut from, whether it is marked), its budget
and its record in the audit. `TokensOutliveRequests` rests on `TimeAssumption`:
a request ends before the skew is over, and two timeouts pass before a token
does, since of two concurrent misses the slower, older answer may win the cache.

**`FailureAnalysis_proofs`**: five invariants over `TypeInv`.
`BudgetInv` gives `AnalysisBudgetsHold`: what is left of each budget at every
await, and in which order evidence was given up for the bytes (`FittingInv`).
`AccountInv` gives `EveryAnswerIsAccounted`: the sources asked so far, the jobs
listed, and what of each is shown. `MarkInv` gives `EveryCutIsMarked`: evidence
without the mark is all its sources had. `CauseInv` gives
`MissingAnalysisHasCause` for every provider, id and text: what an invalid
result refers to is something a source showed, through every cut.
`AdviceInv` gives `RecommendationsAreTruthful`.

**`EvidenceReads_proofs`**: `ReadsAreTracked` (a call has asked exactly the
sources its tool needs, and the shared flag is up when, and only when, one of
its health checks has failed), which gives `SilenceIsAlwaysSaid` and
`NothingIsEverLeftOut`. They assume that no service is named like one of the
other sources (`SourceAssumption`).

Where a proof needs to count, it uses cardinalities or a least counterexample:
a sum is the recursive function `Total`, sorting gives each place its rank, and
a filter is described by how many kept places come before a place. Where an
induction over numbers is needed, the least number for which the claim fails is
refuted (`LeastNumber`, from the well-foundedness of inclusion on finite sets).

Model-checked only:

- liveness (`FailureIsAnnounced`, `IncidentIsResolved`, `OrphanIsTakenOver`,
  `EveryCallEnds`, `EventEnds`, `ReadsEnd`) and the fairness conjunct of
  `KeepsPromise`, which are out of the prover's reach;
- the three disagreements with the documentation, which are counterexamples.

## Plan

What is left, in this order.

1. Resumed scans: a failure that was on a page of an earlier, truncated scan is
   not passed unless runs have shifted the pages in between. It needs a history
   variable that says that they have.
2. `CompleteScansPassNoFailure` with re-runs, for the runs that have not been
   re-run while the scan went on.
3. What the adapters select (`SCMAdapters`, `CIAdapters`) as lemmas of their
   own, where `ToolReads_proofs` only bounds them.

## Not modelled

- Parsing, schemas, sanitizing, wording, digests, signatures and drawing
  (`domain/`, `diagnostics/`, `visuals/`, most of `event-envelope.ts`): functions
  of one argument without state. Where a limit of theirs decides what the
  program does, it is a constant of a model.
- `http/create-http-app.ts` and the command lines: a transport per request, in
  which no two requests meet.
- Metrics and health of the observer: written and never read by what it does. A
  webhook's `finishPoll` may overwrite the degraded flag of a poll.
- Errors of the file system in `save`, and malformed candidates.
- Capabilities and log queries of the telemetry adapter.
- Several targets of one observer: they share the document, which is saved as a
  whole, and are worked on one after the other.
