-------------------------- MODULE ObserverRuntime --------------------------
(***************************************************************************)
(* One CI observer process watching one allowlisted target: pollOnce with  *)
(* its hot and backlog lanes, ingestWebhook, reconcileRuns and buildEvent  *)
(* of observer/runtime.ts, over the durable document of observer/state.ts. *)
(*                                                                         *)
(* A step runs from one await (or one state save) to the next.  "disk" is  *)
(* what save has made durable; "mem" is the target's entry in the working  *)
(* copy of the document, "cur" the local currentTarget and "base" the copy *)
(* pollOnce holds while reconcileRuns runs: all three die with the process.*)
(* The CI provider (GitHub Actions) and the notification sink are modelled *)
(* from how the code uses them.                                            *)
(*                                                                         *)
(* Bounds: MaxRuns runs, MaxAttempts attempts of each, MaxClock clock      *)
(* ticks, MaxFaults faults of any kind.                                    *)
(***************************************************************************)
EXTENDS ObserverTarget

CONSTANTS
    PageSize, MaxPages,         \* config.pageSize, config.maxPages
    Overlap, Lookback,          \* config.overlapMs, config.initialLookbackMs
    StaleAfter,                 \* config.staleAfterMs
    MaxPayloadKiB,              \* config.maxPayloadBytes
    MaxEnvelopeKiB,             \* MAX_OBSERVER_EVENT_BYTES
    AnalysisMayOverflow,        \* may building the analysis payload throw?
    WebhooksOn,                 \* is a webhook verifier configured?
    MaxRuns, MaxAttempts, MaxClock, MaxFaults

ASSUME ConfigAssumption ==
    /\ PageSize \in Nat \ {0}
    /\ MaxPages \in Nat \ {0}
    /\ Overlap \in Nat
    /\ Lookback \in Nat
    /\ StaleAfter \in Nat \ {0}
    /\ MaxPayloadKiB \in Nat
    /\ MaxEnvelopeKiB \in Nat
    /\ AnalysisMayOverflow \in BOOLEAN
    /\ WebhooksOn \in BOOLEAN
    /\ MaxRuns \in Nat
    /\ MaxAttempts \in Nat
    /\ MaxClock \in Nat
    /\ MaxFaults \in Nat

VARIABLES
    ci,         \* the provider's runs, in creation order
    hooks,      \* every terminal run the provider has announced by webhook
    clock,
    disk,       \* the durable document
    pc, lane,   \* where the process is, and in which lane
    mem, cur, base,
    todo,       \* candidates of the current page still to reconcile
    attempted,  \* event ids already met in this reconcileRuns call
    now,        \* the clock when the poll or webhook started
    scan,       \* backlogPage, scanCursor, backlogPagesFetched, backlogHasMore
    posts,      \* status notifications the sink has received, by event
    builds,     \* failure analyses started, by event
    lastRed,    \* newest run whose red status notification was received
    faults      \* faults so far

ciVars == <<ci, hooks>>
docVars == <<disk, mem, cur>>
callVars == <<lane, base, now>>
pageVars == <<todo, attempted>>
world == <<ci, hooks, clock>>
history == <<posts, builds, lastRed>>
vars == <<ci, hooks, clock, disk, pc, lane, mem, cur, base, todo, attempted,
          now, scan, posts, builds, lastRed, faults>>

Run == 1..MaxRuns

CIRun == [phase: {"absent", "running", "done"}, event: Event \cup {NoEvent},
          created: Nat, updated: Nat, attempt: Nat]

NoRun == [phase |-> "absent", event |-> NoEvent,
          created |-> 0, updated |-> 0, attempt |-> 0]

(* A terminal run as the provider reports it. *)
Candidate == [id: Run, event: Event, updated: Nat]

Scan == [page: Nat \ {0}, cursor: Int, fetched: Nat, more: BOOLEAN]

NoScan == [page |-> 1, cursor |-> NoCursor, fetched |-> 0, more |-> FALSE]

Waiting == {"idle", "crashed"}

Delivering == {"status", "analysis", "recovery"}

WorldType ==
    /\ ci \in [Run -> CIRun]
    /\ \A r \in Run : ci[r].phase = "done" => ci[r].event # NoEvent
    /\ hooks \subseteq Candidate
    /\ clock \in Nat

DocumentsType ==
    /\ disk \in Document
    /\ mem \in Document
    /\ cur \in Document
    /\ base \in Document

CallType ==
    /\ pc \in Waiting \cup Delivering
                \cup {"list", "reconcile", "build", "loop", "failed"}
    /\ lane \in {"hot", "backlog", "webhook"}
    /\ todo \subseteq Candidate
    /\ attempted \subseteq Event
    /\ now \in Nat
    /\ scan \in Scan
    /\ pc \in Delivering \cup {"build"} => todo # {}
    /\ pc = "recovery" => cur.recovery # NoEvent

HistoryType ==
    /\ posts \in [Event -> Nat]
    /\ builds \in [RedEvents -> Nat]
    /\ lastRed \in Nat
    /\ faults \in Nat

TypeOK == WorldType /\ DocumentsType /\ CallType /\ HistoryType

Init ==
    /\ ci = [r \in Run |-> NoRun]
    /\ hooks = {}
    /\ clock = 0
    /\ disk = EmptyDocument
    /\ pc = "idle"
    /\ lane = "hot"
    /\ mem = EmptyDocument
    /\ cur = EmptyDocument
    /\ base = EmptyDocument
    /\ todo = {}
    /\ attempted = {}
    /\ now = 0
    /\ scan = NoScan
    /\ posts = [e \in Event |-> 0]
    /\ builds = [e \in RedEvents |-> 0]
    /\ lastRed = 0
    /\ faults = 0

-----------------------------------------------------------------------------
(* The CI provider *)

observerVars == <<disk, pc, lane, mem, cur, base, todo, attempted, now, scan,
                  posts, builds, lastRed, faults>>

CandidateOf(r) == [id |-> r, event |-> ci[r].event, updated |-> ci[r].updated]

Terminal(after) == {r \in Run : ci[r].phase = "done" /\ ci[r].created >= after}

(* listWorkflowRuns: completed runs created at or after "after", newest    *)
(* first, page p of PageSize.                                              *)
PageOf(p, after) ==
    {r \in Terminal(after) :
        LET newer == Cardinality({s \in Terminal(after) : s > r})
        IN  (p - 1) * PageSize <= newer /\ newer < p * PageSize}

StartRun(r) ==
    /\ ci[r].phase = "absent"
    /\ \A s \in Run : s < r => ci[s].phase # "absent"
    /\ ci' = [ci EXCEPT ![r] = [@ EXCEPT !.phase = "running", !.created = clock,
                                         !.attempt = 1]]
    /\ UNCHANGED <<hooks, clock, observerVars>>

EndRun(r, e) ==
    /\ ci[r].phase = "running"
    /\ ci' = [ci EXCEPT ![r] = [@ EXCEPT !.phase = "done", !.event = e,
                                         !.updated = clock]]
    /\ hooks' = hooks \cup {[id |-> r, event |-> e, updated |-> clock]}
    /\ UNCHANGED <<clock, observerVars>>

(* A re-run keeps the run's id and creation time. *)
RerunRun(r) ==
    /\ ci[r].phase = "done"
    /\ ci[r].attempt < MaxAttempts
    /\ ci' = [ci EXCEPT ![r] = [@ EXCEPT !.phase = "running",
                                         !.attempt = ci[r].attempt + 1]]
    /\ UNCHANGED <<hooks, clock, observerVars>>

Tick ==
    /\ clock < MaxClock
    /\ clock' = clock + 1
    /\ UNCHANGED <<ciVars, observerVars>>

-----------------------------------------------------------------------------
(* pollOnce *)

Save(doc) ==
    /\ cur' = doc
    /\ mem' = doc
    /\ disk' = doc

ScanCursor(doc) ==
    IF doc.cursor # NoCursor THEN doc.cursor
    ELSE IF clock >= Lookback THEN clock - Lookback ELSE 0

PollBegin ==
    /\ pc = "idle"
    /\ ~BackedOff(disk, clock)
    /\ now' = clock
    /\ mem' = disk
    /\ cur' = [disk EXCEPT !.cursor = ScanCursor(disk)]
    /\ scan' = [page |-> disk.page, cursor |-> ScanCursor(disk),
                fetched |-> 0, more |-> FALSE]
    /\ lane' = "hot"
    /\ pc' = "list"
    /\ UNCHANGED <<world, disk, base, pageVars, history, faults>>

CreatedAfterWithOverlap(cursor) == cursor - Overlap

BeginReconcile(doc, candidates) ==
    /\ base' = doc
    /\ cur' = WithIncident(doc)
    /\ todo' = candidates
    /\ attempted' = {}
    /\ pc' = "reconcile"

ListHot ==
    /\ pc = "list"
    /\ lane = "hot"
    /\ BeginReconcile(cur, {CandidateOf(r) : r \in PageOf(1, 0)})
    /\ UNCHANGED <<world, disk, mem, lane, now, scan, history, faults>>

(* Mutant: a full page is taken for the last one. *)
ListBacklogLastPage ==
    LET page == PageOf(scan.page, CreatedAfterWithOverlap(scan.cursor))
    IN  /\ pc = "list"
        /\ lane = "backlog"
        /\ BeginReconcile(cur, {CandidateOf(r) : r \in page})
        /\ scan' = [scan EXCEPT !.fetched = @ + 1,
                                !.more = Cardinality(page) > PageSize]
        /\ UNCHANGED <<world, disk, mem, lane, now, history, faults>>

ListBacklog ==
    LET page == PageOf(scan.page, CreatedAfterWithOverlap(scan.cursor))
    IN  /\ pc = "list"
        /\ lane = "backlog"
        /\ BeginReconcile(cur, {CandidateOf(r) : r \in page})
        /\ scan' = [scan EXCEPT !.fetched = @ + 1,
                                !.more = Cardinality(page) >= PageSize]
        /\ UNCHANGED <<world, disk, mem, lane, now, history, faults>>

(* The locals of a poll or webhook die when it returns or crashes. *)
Leave(state) ==
    /\ pc' = state
    /\ lane' = "hot"
    /\ mem' = EmptyDocument
    /\ cur' = EmptyDocument
    /\ base' = EmptyDocument
    /\ todo' = {}
    /\ attempted' = {}
    /\ now' = 0
    /\ scan' = NoScan

(* The last save of a target, then the summary is returned and the lease   *)
(* released.                                                               *)
SaveAndReturn(doc) ==
    /\ disk' = doc
    /\ Leave("idle")

(* The catch of pollOnce around one target. *)
CatchTarget(target, backoff) ==
    LET persisted == [target EXCEPT !.page = scan.page]
    IN  SaveAndReturn(IF backoff THEN WithProviderBackoff(persisted, now)
                                 ELSE persisted)

ListFails(unavailable) ==
    /\ pc = "list"
    /\ faults < MaxFaults
    /\ unavailable =>
          now + NextDelay(cur.providerDelay, ProviderBackoff) <= MaxClock
    /\ faults' = faults + 1
    /\ CatchTarget(cur, unavailable)
    /\ UNCHANGED <<world, history>>

LaneDone == pc = "reconcile" /\ todo = {}

(* The head of the backlog loop: page and cursor are saved before listing. *)
EnterBacklog ==
    /\ LaneDone
    /\ lane = "hot"
    /\ lane' = "backlog"
    /\ pc' = "loop"
    /\ UNCHANGED <<world, docVars, base, pageVars, now, scan,
                   history, faults>>

SaveProgress ==
    /\ pc = "loop"
    /\ Save([cur EXCEPT !.page = scan.page, !.cursor = scan.cursor])
    /\ pc' = "list"
    /\ UNCHANGED <<world, callVars, pageVars, scan, history, faults>>

NextBacklogPage ==
    /\ LaneDone
    /\ lane = "backlog"
    /\ scan.more
    /\ scan.fetched < MaxPages
    /\ scan' = [scan EXCEPT !.page = @ + 1]
    /\ pc' = "loop"
    /\ UNCHANGED <<world, docVars, callVars, pageVars, history, faults>>

ScanTruncated ==
    /\ LaneDone
    /\ lane = "backlog"
    /\ scan.more
    /\ scan.fetched >= MaxPages
    /\ SaveAndReturn([cur EXCEPT !.page = scan.page + 1])
    /\ UNCHANGED <<world, history, faults>>

(* Mutant: finished records are dropped by every clean poll. *)
ScanCleanForgetful ==
    /\ LaneDone
    /\ lane = "backlog"
    /\ ~scan.more
    /\ SaveAndReturn(PruneSeen([cur EXCEPT !.cursor = now, !.page = 1],
                               Unfinished(cur)))
    /\ UNCHANGED <<world, history, faults>>

ScanClean ==
    /\ LaneDone
    /\ lane = "backlog"
    /\ ~scan.more
    /\ \E retained \in Retainable(cur) :
          SaveAndReturn(
              PruneSeen(WithoutBackoff([cur EXCEPT !.cursor = now, !.page = 1]),
                        retained))
    /\ UNCHANGED <<world, history, faults>>

(* reconcileRuns returned failed: the page is kept, the cursor too. *)
ScanFailed ==
    /\ pc = "failed"
    /\ SaveAndReturn([cur EXCEPT !.page = scan.page])
    /\ UNCHANGED <<world, history, faults>>

-----------------------------------------------------------------------------
(* ingestWebhook: at most one candidate, no backoff check of its own and   *)
(* no save after reconcileRuns.                                            *)

(* Mutant: a webhook starts from an empty document. *)
WebhookBeginEmpty(candidate) ==
    /\ pc = "idle"
    /\ WebhooksOn
    /\ now' = clock
    /\ mem' = EmptyDocument
    /\ lane' = "webhook"
    /\ BeginReconcile(EmptyDocument, {candidate})
    /\ UNCHANGED <<world, disk, scan, history, faults>>

WebhookBegin(candidate) ==
    /\ pc = "idle"
    /\ WebhooksOn
    /\ now' = clock
    /\ mem' = disk
    /\ lane' = "webhook"
    /\ BeginReconcile(disk, {candidate})
    /\ UNCHANGED <<world, disk, scan, history, faults>>

WebhookDone ==
    /\ LaneDone
    /\ lane = "webhook"
    /\ Leave("idle")
    /\ UNCHANGED <<world, disk, history, faults>>

-----------------------------------------------------------------------------
(* reconcileRuns, one candidate at a time, newest first *)

Newest(c) == \A d \in todo : d.id <= c.id

Stale(c) == now - c.updated > StaleAfter

InIncident == cur.incident = "active" \/ cur.recovery # NoEvent

(* Mutant: a success once recorded is never looked at again. *)
SettledForGood(c) ==
    /\ IsSettledDelivery(cur.seen[c.event].status)
    /\ IsAnalysisConclusion(c.event) => IsAnalysed(cur.seen[c.event])

(* Mutant: any record of the event settles it. *)
SettledWhenSeen(c) ==
    /\ cur.seen[c.event].status # "none"
    /\ c.event \in GreenEvents => ~InIncident

(* Nothing is left to do for this candidate. *)
Settled(c) ==
    /\ IsSettledDelivery(cur.seen[c.event].status)
    /\ IsAnalysisConclusion(c.event) => IsAnalysed(cur.seen[c.event])
    /\ c.event \in GreenEvents /\ ~Stale(c) => ~InIncident

DeliveryBlocked == base.deliveryUntil > now

(* c is the candidate to handle and the loop does not skip it. *)
Current(c) ==
    /\ pc = "reconcile"
    /\ c \in todo
    /\ Newest(c)
    /\ c.event \notin attempted
    /\ ~Settled(c)

Finish(c) ==
    /\ todo' = todo \ {c}
    /\ attempted' = attempted \cup {c.event}

SkipRun(c) ==
    /\ pc = "reconcile"
    /\ c \in todo
    /\ Newest(c)
    /\ c.event \in attempted \/ Settled(c)
    /\ Finish(c)
    /\ UNCHANGED <<world, docVars, pc, callVars, scan, history, faults>>

SuppressStale(c) ==
    /\ Current(c)
    /\ Stale(c)
    /\ Save(MarkStale(PresentOr(mem, cur), c.event))
    /\ Finish(c)
    /\ UNCHANGED <<world, pc, callVars, scan, history, faults>>

(* Mutant: the suppression is kept in the local copy only. *)
SuppressQuietLocal(c) ==
    /\ Current(c)
    /\ ~Stale(c)
    /\ c.event \in QuietEvents
    /\ cur' = MarkStatus(cur, c.event, "suppressed")
    /\ Finish(c)
    /\ UNCHANGED <<world, disk, mem, pc, callVars, scan, history, faults>>

(* skipped, neutral and unknown conclusions never notify *)
SuppressQuiet(c) ==
    /\ Current(c)
    /\ ~Stale(c)
    /\ c.event \in QuietEvents
    /\ Save(MarkStatus(cur, c.event, "suppressed"))
    /\ Finish(c)
    /\ UNCHANGED <<world, pc, callVars, scan, history, faults>>

(* A success outside an incident is recorded the first time it is seen. *)
SuppressSuccess(c) ==
    /\ Current(c)
    /\ ~Stale(c)
    /\ c.event \in GreenEvents
    /\ ~InIncident
    /\ IF cur.seen[c.event] = NoRecord
       THEN Save(MarkStatus(cur, c.event, "suppressed"))
       ELSE UNCHANGED docVars
    /\ Finish(c)
    /\ UNCHANGED <<world, pc, callVars, scan, history, faults>>

(* Mutant: every success is a recovery of its own. *)
RecoveryIdFresh(c) == c.event

RecoveryId(c) == IF cur.recovery # NoEvent THEN cur.recovery ELSE c.event

(* A recovery under a stored identity that was already delivered. *)
RecoveryDelivered ==
    cur.recovery # NoEvent /\ cur.seen[cur.recovery].status = "delivered"

(* A success during an incident becomes, or retries, the recovery; one     *)
(* already delivered only ends the incident.                               *)
StartRecovery(c) ==
    LET pending == MarkStatus([cur EXCEPT !.recovery = RecoveryId(c)],
                              RecoveryId(c), "pending")
    IN  /\ Current(c)
        /\ ~Stale(c)
        /\ c.event \in GreenEvents
        /\ InIncident
        /\ RecoveryDelivered \/ ~DeliveryBlocked
        /\ Save(IF RecoveryDelivered
                THEN [cur EXCEPT !.recovery = NoEvent, !.incident = "clear"]
                ELSE pending)
        /\ pc' = IF RecoveryDelivered THEN "reconcile" ELSE "recovery"
        /\ IF RecoveryDelivered THEN Finish(c) ELSE UNCHANGED pageVars
        /\ UNCHANGED <<world, callVars, scan, history, faults>>

(* reconcileRuns returns failed.  A poll saves the target once more; a     *)
(* webhook drops what has not been saved.                                  *)
ReturnFailed(doc) ==
    IF lane = "webhook" THEN Leave("idle")
    ELSE /\ pc' = "failed"
         /\ cur' = doc
         /\ todo' = {}
         /\ attempted' = {}
         /\ UNCHANGED <<callVars, scan>>

(* Delivery is still backed off: stop without saving anything. *)
StopForBackoff(c) ==
    /\ Current(c)
    /\ ~Stale(c)
    /\ DeliveryBlocked
    /\ \/ IsAnalysisConclusion(c.event)
       \/ c.event \in GreenEvents /\ InIncident /\ ~RecoveryDelivered
    /\ ReturnFailed(IF c.event \in GreenEvents
                    THEN [cur EXCEPT !.recovery = RecoveryId(c)] ELSE cur)
    /\ lane # "webhook" => mem' = mem
    /\ UNCHANGED <<world, disk, history, faults>>

(* Mutant: the candidate leaves the page before its delivery. *)
StartStatusEarlyFinish(c) ==
    /\ Current(c)
    /\ ~Stale(c)
    /\ IsAnalysisConclusion(c.event)
    /\ ~DeliveryBlocked
    /\ ~IsSettledDelivery(cur.seen[c.event].status)
    /\ Save(MarkStatus(PresentOr(mem, cur), c.event, "pending"))
    /\ Finish(c)
    /\ pc' = "status"
    /\ UNCHANGED <<world, callVars, scan, history, faults>>

(* Mutant: the intention is not saved before the delivery. *)
StartStatusUnsaved(c) ==
    /\ Current(c)
    /\ ~Stale(c)
    /\ IsAnalysisConclusion(c.event)
    /\ ~DeliveryBlocked
    /\ ~IsSettledDelivery(cur.seen[c.event].status)
    /\ cur' = MarkStatus(PresentOr(mem, cur), c.event, "pending")
    /\ mem' = cur'
    /\ pc' = "status"
    /\ UNCHANGED <<world, disk, callVars, pageVars, scan, history, faults>>

StartStatus(c) ==
    /\ Current(c)
    /\ ~Stale(c)
    /\ IsAnalysisConclusion(c.event)
    /\ ~DeliveryBlocked
    /\ ~IsSettledDelivery(cur.seen[c.event].status)
    /\ Save(MarkStatus(PresentOr(mem, cur), c.event, "pending"))
    /\ pc' = "status"
    /\ UNCHANGED <<world, callVars, pageVars, scan, history, faults>>

(* Mutant: the attempt is not saved before the analysis. *)
StartAnalysisUnsaved(c) ==
    /\ Current(c)
    /\ ~Stale(c)
    /\ IsAnalysisConclusion(c.event)
    /\ ~DeliveryBlocked
    /\ IsSettledDelivery(cur.seen[c.event].status)
    /\ cur' = MarkAnalysis(PresentOr(mem, cur), c.event, "pending")
    /\ mem' = cur'
    /\ builds' = [builds EXCEPT ![c.event] = @ + 1]
    /\ pc' = "build"
    /\ UNCHANGED <<world, disk, callVars, pageVars, scan, posts, lastRed, faults>>

(* Mutant: the analysis does not wait for the red notification. *)
StartAnalysisFirst(c) ==
    /\ Current(c)
    /\ ~Stale(c)
    /\ IsAnalysisConclusion(c.event)
    /\ ~IsAnalysed(cur.seen[c.event])
    /\ Save(MarkAnalysis(PresentOr(mem, cur), c.event, "pending"))
    /\ builds' = [builds EXCEPT ![c.event] = @ + 1]
    /\ pc' = "build"
    /\ UNCHANGED <<world, callVars, pageVars, scan, posts, lastRed, faults>>

(* The attempt is recorded before the analysis runs. *)
StartAnalysis(c) ==
    /\ Current(c)
    /\ ~Stale(c)
    /\ IsAnalysisConclusion(c.event)
    /\ ~DeliveryBlocked
    /\ IsSettledDelivery(cur.seen[c.event].status)
    /\ Save(MarkAnalysis(PresentOr(mem, [cur EXCEPT !.incident = "active"]),
                         c.event, "pending"))
    /\ builds' = [builds EXCEPT ![c.event] = @ + 1]
    /\ pc' = "build"
    /\ UNCHANGED <<world, callVars, pageVars, scan, posts, lastRed,
                   faults>>

(* buildEvent returns a payload, perhaps a fallback one. *)
BuildAnalysis(c) ==
    /\ pc = "build"
    /\ c \in todo
    /\ Newest(c)
    /\ Save(MarkAnalysis(PresentOr(mem, cur), c.event, "pending"))
    /\ pc' = "analysis"
    /\ UNCHANGED <<world, callVars, pageVars, scan, history, faults>>

(* buildAgentNotificationPayload throws notification_payload_too_large out *)
(* of reconcileRuns, or makeUnavailableFailureAnalysis a ref with markup:  *)
(* a poll stores the target it held before the page, a webhook nothing.    *)
BuildThrows ==
    /\ pc = "build"
    /\ AnalysisMayOverflow
    /\ faults < MaxFaults
    /\ faults' = faults + 1
    /\ IF lane = "webhook" THEN Leave("idle") /\ UNCHANGED disk
                           ELSE CatchTarget(base, FALSE)
    /\ UNCHANGED <<world, history>>

-----------------------------------------------------------------------------
(* Delivery of the notification of the newest candidate in todo *)

(* serializeObserverEventEnvelope rejects a limit above its own. *)
Serializable == pc = "analysis" \/ MaxPayloadKiB <= MaxEnvelopeKiB

(* The event id the notification carries. *)
Subject(c) == IF pc = "recovery" THEN cur.recovery ELSE c.event

Receive(c) ==
    /\ posts' = IF pc = "analysis" THEN posts
                ELSE [posts EXCEPT ![Subject(c)] = @ + 1]
    /\ lastRed' = IF pc = "status" THEN Larger(lastRed, c.id) ELSE lastRed

(* Mutant: a delivered recovery does not end the incident. *)
AcknowledgedOpen(c) ==
    CASE pc = "status" ->
            [MarkStatus(PresentOr(mem, cur), c.event, "delivered")
                EXCEPT !.incident = "active"]
      [] pc = "recovery" ->
            MarkStatus([cur EXCEPT !.recovery = NoEvent], cur.recovery, "delivered")
      [] OTHER ->
            MarkAnalysis(PresentOr(mem, cur), c.event, "delivered")

(* The document once the sink has accepted. *)
Acknowledged(c) ==
    CASE pc = "status" ->
            [MarkStatus(PresentOr(mem, cur), c.event, "delivered")
                EXCEPT !.incident = "active"]
      [] pc = "recovery" ->
            MarkStatus([cur EXCEPT !.recovery = NoEvent, !.incident = "clear"],
                       cur.recovery, "delivered")
      [] OTHER ->
            MarkAnalysis(PresentOr(mem, cur), c.event, "delivered")

(* After a red status the same candidate goes on to its analysis. *)
SinkAccepts(c) ==
    /\ pc \in Delivering
    /\ c \in todo
    /\ Newest(c)
    /\ Serializable
    /\ Receive(c)
    /\ Save(Acknowledged(c))
    /\ pc' = "reconcile"
    /\ IF pc = "status" THEN UNCHANGED pageVars ELSE Finish(c)
    /\ UNCHANGED <<world, callVars, scan, builds, faults>>

(* The sink receives the notification and the answer is lost; the sink     *)
(* module of the code may try again.                                       *)
SinkReceives(c) ==
    /\ pc \in Delivering
    /\ c \in todo
    /\ Newest(c)
    /\ Serializable
    /\ faults < MaxFaults
    /\ faults' = faults + 1
    /\ Receive(c)
    /\ UNCHANGED <<world, docVars, pc, callVars, pageVars, scan, builds>>

(* The notification cannot be serialized, is refused, or every attempt     *)
(* failed: the target backs off and reconcileRuns returns failed.          *)
DeliveryFails ==
    LET failed == WithDeliveryBackoff(cur, now)
    IN  /\ pc \in Delivering
        /\ Serializable => faults < MaxFaults /\ failed.deliveryUntil <= MaxClock
        /\ faults' = IF Serializable THEN faults + 1 ELSE faults
        /\ disk' = failed
        /\ ReturnFailed(failed)
        /\ lane # "webhook" => mem' = failed
        /\ UNCHANGED <<world, history>>

-----------------------------------------------------------------------------
(* Crash and restart: the lease file of a dead process stays until it is   *)
(* older than the lease.                                                   *)

Crash ==
    /\ pc \notin Waiting
    /\ faults < MaxFaults
    /\ faults' = faults + 1
    /\ Leave("crashed")
    /\ UNCHANGED <<world, disk, history>>

LeaseExpires ==
    /\ pc = "crashed"
    /\ pc' = "idle"
    /\ UNCHANGED <<world, disk, lane, mem, cur, base, pageVars, now, scan,
                   history, faults>>

-----------------------------------------------------------------------------

Provider ==
    \E r \in Run :
        \/ StartRun(r)
        \/ \E e \in Event : EndRun(r, e)
        \/ RerunRun(r)

Scanning ==
    \/ PollBegin \/ ListHot \/ ListBacklog
    \/ EnterBacklog \/ SaveProgress \/ NextBacklogPage
    \/ ScanTruncated \/ ScanClean \/ ScanFailed
    \/ WebhookDone

Reconciling ==
    \E c \in todo :
        \/ SkipRun(c) \/ SuppressStale(c) \/ SuppressQuiet(c)
        \/ SuppressSuccess(c) \/ StartRecovery(c) \/ StopForBackoff(c)
        \/ StartStatus(c) \/ StartAnalysis(c) \/ BuildAnalysis(c)
        \/ SinkAccepts(c)

Faulty ==
    \/ \E unavailable \in BOOLEAN : ListFails(unavailable)
    \/ \E c \in todo : SinkReceives(c)
    \/ DeliveryFails
    \/ BuildThrows
    \/ Crash

Webhook == \E candidate \in hooks : WebhookBegin(candidate)

Next ==
    \/ Provider \/ Tick
    \/ Scanning \/ Reconciling \/ Webhook
    \/ Faulty \/ LeaseExpires

Spec == Init /\ [][Next]_vars

(* The interval timer starts the next poll, every call the process awaits  *)
(* is bounded by a timeout, and time passes.  Faults, webhooks and CI runs *)
(* are never owed.                                                         *)
Fairness ==
    /\ WF_vars(Scanning)
    /\ WF_vars(Reconciling)
    /\ WF_vars(~Serializable /\ DeliveryFails)
    /\ WF_vars(LeaseExpires)
    /\ WF_vars(Tick)

FairSpec == Spec /\ Fairness
-----------------------------------------------------------------------------
(* Safety *)

(* At most one failure analysis is ever started for an event, whatever     *)
(* crashes, replays, webhooks and polls happen: the attempt is durable     *)
(* before the providers are called (runtime.ts 572-577).                   *)
AnalysisAtMostOnce == \A e \in RedEvents : builds[e] <= 1

(* No notification leaves the process, and no analysis starts, without a   *)
(* durable record of the event: a restart always finds what may have been  *)
(* sent (runtime.ts 510-514, 549-553, 574-577).                            *)
EffectsAreRecorded ==
    /\ \A e \in Event : posts[e] > 0 => disk.seen[e].status # "none"
    /\ \A e \in RedEvents : builds[e] > 0 => disk.seen[e].attempted

(* The sink gets the same red notification again only after a fault: never *)
(* because a run is listed by both lanes, by two pages, by a webhook and a *)
(* poll, or again after a restart (runtime.ts 443-463).                    *)
RepeatedRedNeedsFault == \A e \in RedEvents : posts[e] <= 1 + faults

(* The red status notification has reached the sink before the analysis of *)
(* the same event starts (runtime.ts 545-577).                             *)
RedBeforeAnalysis == \A e \in RedEvents : builds[e] > 0 => posts[e] > 0

(* The status notifications of these events the sink has received. *)
Received(events) == UNION {{e} \X (1..posts[e]) : e \in events}

(* Green notifications never outnumber red ones, but for those repeated by *)
(* a fault: one recovery ends the incident, later successes are silent     *)
(* (runtime.ts 478-533).                                                   *)
GreenNeedsRed ==
    Cardinality(Received(GreenEvents)) <= Cardinality(Received(RedEvents)) + faults

(* A failed recovery is retried under its own identity: two recoveries are *)
(* never under way at once (runtime.ts 489-516).                           *)
OneRecoveryIdentity ==
    \A g, h \in GreenEvents :
        disk.seen[g].status = "pending" /\ disk.seen[h].status = "pending"
            => g = h

(* Delivery is backed off only after the sink or the process failed: a     *)
(* configuration within the documented defaults never stops a status       *)
(* notification by itself (runtime.ts 513, 552, event-envelope.ts 141).    *)
BackoffNeedsFault == disk.deliveryDelay > 0 => faults > 0

(* A green recovery is about a run newer than every failure already        *)
(* announced on the thread.                                                *)
RecoveryFollowsIncident ==
    \A c \in todo : pc = "recovery" /\ Newest(c) => c.id > lastRed

-----------------------------------------------------------------------------
(* The inductive invariant behind the promises about effects *)

(* While a poll or webhook runs, the working copy of the document and the  *)
(* local currentTarget hold exactly the durable records: no branch of      *)
(* reconcileRuns goes on from a stale copy (runtime.ts 443-597).           *)
CopiesAgree ==
    pc \notin Waiting => mem.seen = disk.seen /\ cur.seen = disk.seen

(* A page holds a run once. *)
OneCandidatePerRun == \A c, d \in todo : c.id = d.id => c = d

(* A status notification under way has its durable intention. *)
UnderWayIsRecorded ==
    /\ pc = "status" =>
          \A c \in todo : Newest(c) => disk.seen[c.event].status # "none"
    /\ pc = "recovery" => disk.seen[cur.recovery].status # "none"

(* Together with the types, what every step of the observer preserves:     *)
(* the copies of the document never drift apart, so that each effect finds *)
(* its own durable record and none is repeated (runtime.ts 413-597).       *)
EffectsInv ==
    /\ CopiesAgree
    /\ OneCandidatePerRun
    /\ UnderWayIsRecorded
    /\ EffectsAreRecorded
    /\ AnalysisAtMostOnce

-----------------------------------------------------------------------------
(* Action properties *)

(* A durable outcome is never taken back: a delivered red status stays     *)
(* settled and an attempted analysis stays attempted (runtime.ts 1008-1018,*)
(* 302-306).                                                               *)
OutcomeIsFinal ==
    [][\A e \in RedEvents :
          /\ IsSettledDelivery(disk.seen[e].status)
                => IsSettledDelivery(disk'.seen[e].status)
          /\ disk.seen[e].attempted => disk'.seen[e].attempted]_vars

(* Terminal before the poll began, inside the window the scan covered and  *)
(* outside the window the next scan will cover.                            *)
LeavesWindow(r) ==
    /\ ci[r].phase = "done"
    /\ ci[r].updated < now
    /\ ci[r].created >= CreatedAfterWithOverlap(scan.cursor)
    /\ ci[r].created < CreatedAfterWithOverlap(now)

(* A scan that lists every page from the first moves the cursor past no    *)
(* failure that is not settled, also when runs end meanwhile and shift the *)
(* pages, a page fails or webhooks come between (runtime.ts 223-306).      *)
CompleteScanPassesNoFailure ==
    [][disk.cursor # NoCursor /\ disk'.cursor # disk.cursor /\ scan.page = scan.fetched =>
          \A r \in Run :
              LeavesWindow(r) /\ ci[r].event \in RedEvents =>
                  IsSettledDelivery(disk'.seen[ci[r].event].status)]_vars

-----------------------------------------------------------------------------
(* Liveness *)

Completed(e) == \E r \in Run : ci[r].phase = "done" /\ ci[r].event = e

(* A failed run is announced, or goes stale first, however the sink, the   *)
(* provider and the process fail in between.                               *)
FailureIsAnnounced ==
    \A e \in RedEvents :
        Completed(e) ~> (posts[e] > 0 \/ disk.seen[e].status = "suppressed")

NewestIsGreen ==
    \E r \in Run :
        /\ ci[r].phase = "done" /\ ci[r].event \in GreenEvents
        /\ \A s \in Run : s > r => ci[s].phase # "done"

(* An incident does not stay open while the newest terminal run is green.  *)
IncidentIsResolved ==
    (disk.incident = "active" /\ NewestIsGreen)
        ~> (disk.incident # "active" \/ ~NewestIsGreen)

-----------------------------------------------------------------------------
(* Refinement *)

Ledger == INSTANCE NotificationLedger WITH
    Failures <- RedEvents,
    record <- [e \in RedEvents |-> disk.seen[e].status],
    told <- {e \in RedEvents : posts[e] > 0},
    analysed <- {e \in RedEvents : disk.seen[e].attempted}

(* The observer implements the ledger of promises about failing events:    *)
(* crashes, repeated listings and lost answers never let it tell the sink  *)
(* without a record, take back an outcome, or analyse an event twice       *)
(* (runtime.ts 413-600).                                                   *)
ImplementsLedger == Ledger!LedgerSpec
=============================================================================
