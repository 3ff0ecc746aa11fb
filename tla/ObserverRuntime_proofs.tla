----------------------- MODULE ObserverRuntime_proofs -----------------------
(***************************************************************************)
(* What the observer keeps true for every set of events, page size, limit  *)
(* and bound: its types, and that no effect leaves it without a durable    *)
(* record.                                                                 *)
(***************************************************************************)
EXTENDS ObserverRuntime, TLAPS

-----------------------------------------------------------------------------
(* The helpers of ObserverTarget keep a document a document, and what each *)
(* does to the records of the events.                                      *)

(* The document of a target never seen before is well formed. *)
LEMMA EmptyDocumentType == EmptyDocument \in Document
BY DEF EmptyDocument, Document, NoRecord, SeenRecord, DeliveryState, NoCursor

(* Replacing one record keeps a document well formed and the others as they *)
(* are.                                                                     *)
LEMMA MarkSeenType ==
    ASSUME NEW doc \in Document, NEW e \in Event, NEW record \in SeenRecord
    PROVE  /\ MarkSeen(doc, e, record) \in Document
           /\ MarkSeen(doc, e, record).seen[e] = record
           /\ \A d \in Event \ {e} :
                 MarkSeen(doc, e, record).seen[d] = doc.seen[d]
           /\ MarkSeen(doc, e, record).incident = doc.incident
           /\ MarkSeen(doc, e, record).recovery = doc.recovery
BY DEF MarkSeen, Document

(* Recording a status leaves the analysis fields alone. *)
LEMMA MarkStatusType ==
    ASSUME NEW doc \in Document, NEW e \in Event, NEW state \in DeliveryState
    PROVE  /\ MarkStatus(doc, e, state) \in Document
           /\ MarkStatus(doc, e, state).seen[e].status = state
           /\ MarkStatus(doc, e, state).seen[e].attempted = doc.seen[e].attempted
           /\ \A d \in Event \ {e} :
                 MarkStatus(doc, e, state).seen[d] = doc.seen[d]
           /\ MarkStatus(doc, e, state).incident = doc.incident
           /\ MarkStatus(doc, e, state).recovery = doc.recovery
<1>. DEFINE record == [doc.seen[e] EXCEPT !.status = state]
<1>1. doc.seen[e] \in SeenRecord
  BY DEF Document
<1>2. /\ record \in SeenRecord
      /\ record.status = state
      /\ record.attempted = doc.seen[e].attempted
  BY <1>1 DEF SeenRecord
<1>3. MarkStatus(doc, e, state) = MarkSeen(doc, e, record)
  BY DEF MarkStatus
<1>. HIDE DEF record
<1>4. QED
  BY <1>2, <1>3, MarkSeenType

(* Recording an analysis marks it attempted and leaves the status alone. *)
LEMMA MarkAnalysisType ==
    ASSUME NEW doc \in Document, NEW e \in Event, NEW state \in DeliveryState
    PROVE  /\ MarkAnalysis(doc, e, state) \in Document
           /\ MarkAnalysis(doc, e, state).seen[e].attempted
           /\ MarkAnalysis(doc, e, state).seen[e].status = doc.seen[e].status
           /\ \A d \in Event \ {e} :
                 MarkAnalysis(doc, e, state).seen[d] = doc.seen[d]
           /\ MarkAnalysis(doc, e, state).incident = doc.incident
           /\ MarkAnalysis(doc, e, state).recovery = doc.recovery
<1>. DEFINE record == [doc.seen[e] EXCEPT !.attempted = TRUE, !.analysis = state]
<1>1. doc.seen[e] \in SeenRecord
  BY DEF Document
<1>2. /\ record \in SeenRecord
      /\ record.attempted
      /\ record.status = doc.seen[e].status
  BY <1>1 DEF SeenRecord
<1>3. MarkAnalysis(doc, e, state) = MarkSeen(doc, e, record)
  BY DEF MarkAnalysis
<1>. HIDE DEF record
<1>4. QED
  BY <1>2, <1>3, MarkSeenType

(* Recording staleness settles the status and never forgets an attempt. *)
LEMMA MarkStaleType ==
    ASSUME NEW doc \in Document, NEW e \in Event
    PROVE  /\ MarkStale(doc, e) \in Document
           /\ MarkStale(doc, e).seen[e].status = "suppressed"
           /\ MarkStale(doc, e).seen[e].attempted = doc.seen[e].attempted
           /\ \A d \in Event \ {e} :
                 MarkStale(doc, e).seen[d] = doc.seen[d]
           /\ MarkStale(doc, e).incident = doc.incident
           /\ MarkStale(doc, e).recovery = doc.recovery
<1>. DEFINE state == IF IsAnalysisConclusion(e) THEN "suppressed"
                                                ELSE doc.seen[e].analysis
            record == [doc.seen[e] EXCEPT !.status = "suppressed", !.analysis = state]
<1>1. doc.seen[e] \in SeenRecord
  BY DEF Document
<1>2. state \in DeliveryState
  BY <1>1 DEF SeenRecord, DeliveryState
<1>3. MarkStale(doc, e) = MarkSeen(doc, e, record)
  BY <1>1 DEF MarkStale, SeenRecord
<1>. HIDE DEF state
<1>4. /\ record \in SeenRecord
      /\ record.status = "suppressed"
      /\ record.attempted = doc.seen[e].attempted
  BY <1>1, <1>2 DEF SeenRecord, DeliveryState
<1>. HIDE DEF record
<1>5. QED
  BY <1>3, <1>4, MarkSeenType

(* Deriving incidentActive touches no record. *)
LEMMA WithIncidentType ==
    ASSUME NEW doc \in Document
    PROVE  /\ WithIncident(doc) \in Document
           /\ WithIncident(doc).seen = doc.seen
           /\ WithIncident(doc).recovery = doc.recovery
BY DEF WithIncident, Document

(* The working copy or its fallback, both are documents. *)
LEMMA PresentOrType ==
    ASSUME NEW doc \in Document, NEW fallback \in Document
    PROVE  /\ PresentOr(doc, fallback) \in Document
           /\ PresentOr(doc, fallback) \in {doc, fallback}
BY DEF PresentOr

(* A backoff delay is never zero and never above its maximum. *)
LEMMA NextDelayBounds ==
    ASSUME NEW delay \in Nat, NEW start \in Nat \ {0}
    PROVE  NextDelay(delay, start) \in 1..MaxBackoff
BY BackoffAssumption DEF NextDelay, Smaller, Larger

(* Starting either backoff touches no record. *)
LEMMA WithBackoffType ==
    ASSUME NEW doc \in Document, NEW time \in Nat
    PROVE  /\ WithDeliveryBackoff(doc, time) \in Document
           /\ WithDeliveryBackoff(doc, time).seen = doc.seen
           /\ WithProviderBackoff(doc, time) \in Document
           /\ WithProviderBackoff(doc, time).seen = doc.seen
<1>1. ASSUME NEW d \in Nat, NEW t \in Nat
      PROVE  /\ [doc EXCEPT !.deliveryDelay = d, !.deliveryUntil = t] \in Document
             /\ [doc EXCEPT !.providerDelay = d, !.providerUntil = t] \in Document
  BY DEF Document
<1>2. /\ NextDelay(doc.deliveryDelay, DeliveryBackoff) \in Nat
      /\ NextDelay(doc.providerDelay, ProviderBackoff) \in Nat
  BY NextDelayBounds, BackoffAssumption DEF Document
<1>3. /\ time + NextDelay(doc.deliveryDelay, DeliveryBackoff) \in Nat
      /\ time + NextDelay(doc.providerDelay, ProviderBackoff) \in Nat
  BY <1>2
<1>4. /\ WithDeliveryBackoff(doc, time) \in Document
      /\ WithProviderBackoff(doc, time) \in Document
  BY <1>1, <1>2, <1>3, Zenon DEF WithDeliveryBackoff, WithProviderBackoff
<1>5. /\ WithDeliveryBackoff(doc, time).seen = doc.seen
      /\ WithProviderBackoff(doc, time).seen = doc.seen
  BY DEF WithDeliveryBackoff, WithProviderBackoff, Document
<1>6. QED
  BY <1>4, <1>5

(* Ending a backoff touches no record. *)
LEMMA WithoutBackoffType ==
    ASSUME NEW doc \in Document
    PROVE  /\ WithoutBackoff(doc) \in Document
           /\ WithoutBackoff(doc).seen = doc.seen
BY DEF WithoutBackoff, Document

(* Pruning keeps a document well formed. *)
LEMMA PruneSeenType ==
    ASSUME NEW doc \in Document, NEW retained
    PROVE  PruneSeen(doc, retained) \in Document
BY DEF PruneSeen, Document, NoRecord, SeenRecord, DeliveryState

(* Below its threshold pruning drops nothing. *)
LEMMA PruneSeenBelowThreshold ==
    ASSUME NEW doc \in Document, NEW retained \in Retainable(doc),
           Cardinality(Recorded(doc)) <= PruneAbove
    PROVE  PruneSeen(doc, retained).seen = doc.seen
<1>1. retained = Recorded(doc)
  BY DEF Retainable
<1>2. \A e \in Event : doc.seen[e] = IF e \in retained THEN doc.seen[e] ELSE NoRecord
  BY <1>1 DEF Recorded
<1>3. QED
  BY <1>2 DEF PruneSeen, Document

-----------------------------------------------------------------------------
(* Types *)

(* Scan positions and incident fields can be rewritten freely; no record  *)
(* changes.                                                                *)
LEMMA FieldType ==
    ASSUME NEW doc \in Document, NEW cursor \in Int, NEW page \in Nat \ {0},
           NEW incident \in {"unset", "active", "clear"},
           NEW recovery \in Event \cup {NoEvent}
    PROVE  /\ [doc EXCEPT !.cursor = cursor] \in Document
           /\ [doc EXCEPT !.page = page] \in Document
           /\ [doc EXCEPT !.page = page, !.cursor = cursor] \in Document
           /\ [doc EXCEPT !.cursor = cursor, !.page = page] \in Document
           /\ [doc EXCEPT !.incident = incident] \in Document
           /\ [doc EXCEPT !.recovery = recovery] \in Document
           /\ [doc EXCEPT !.recovery = recovery, !.incident = incident] \in Document
BY DEF Document

(* The records a rewritten field leaves behind are the old ones.           *)
LEMMA FieldKeepsRecords ==
    ASSUME NEW doc \in Document, NEW cursor, NEW page, NEW incident, NEW recovery
    PROVE  /\ [doc EXCEPT !.cursor = cursor].seen = doc.seen
           /\ [doc EXCEPT !.page = page].seen = doc.seen
           /\ [doc EXCEPT !.page = page, !.cursor = cursor].seen = doc.seen
           /\ [doc EXCEPT !.cursor = cursor, !.page = page].seen = doc.seen
           /\ [doc EXCEPT !.incident = incident].seen = doc.seen
           /\ [doc EXCEPT !.recovery = recovery].seen = doc.seen
           /\ [doc EXCEPT !.recovery = recovery, !.incident = incident].seen = doc.seen
BY DEF Document

(* The configured parameters are natural numbers. *)
LEMMA ConfigNat ==
    /\ Overlap \in Nat /\ Lookback \in Nat
    /\ PageSize \in Nat /\ MaxRuns \in Nat
BY ConfigAssumption

(* The initial state of a process is well typed.                           *)
LEMMA InitType == Init => TypeOK
<1>1. SUFFICES ASSUME Init PROVE TypeOK
  OBVIOUS
<1>2. WorldType
  BY <1>1 DEF Init, WorldType, NoRun, CIRun
<1>3. DocumentsType
  BY <1>1, EmptyDocumentType DEF Init, DocumentsType
<1>4. CallType
  BY <1>1 DEF Init, CallType, Waiting, Delivering, Scan, NoScan, NoCursor
<1>5. HistoryType
  BY <1>1 DEF Init, HistoryType
<1>6. QED
  BY <1>2, <1>3, <1>4, <1>5 DEF TypeOK

-----------------------------------------------------------------------------
(* Pieces that several actions share *)

(* A saved document is durable, working copy and current target at once. *)
LEMMA SaveType ==
    ASSUME NEW doc \in Document, Save(doc)
    PROVE  disk' \in Document /\ mem' \in Document /\ cur' \in Document
BY DEF Save

(* A call that returns or dies leaves well typed locals behind. *)
LEMMA LeaveType ==
    ASSUME NEW state \in Waiting, Leave(state), disk' \in Document
    PROVE  DocumentsType' /\ CallType'
BY EmptyDocumentType
   DEF Leave, DocumentsType, CallType, Waiting, Delivering, Scan, NoScan, NoCursor

(* The end of a poll leaves well typed documents and locals.               *)
LEMMA SaveAndReturnType ==
    ASSUME NEW doc \in Document, SaveAndReturn(doc)
    PROVE  DocumentsType' /\ CallType'
BY LeaveType DEF SaveAndReturn, Waiting

(* So does the catch of pollOnce, with or without a provider backoff.      *)
LEMMA CatchTargetType ==
    ASSUME TypeOK, NEW target \in Document, NEW backoff \in BOOLEAN,
           CatchTarget(target, backoff)
    PROVE  DocumentsType' /\ CallType'
<1>1. scan.page \in Nat \ {0} /\ now \in Nat
  BY DEF TypeOK, CallType, Scan
<1>2. [target EXCEPT !.page = scan.page] \in Document
  BY <1>1 DEF Document
<1>3. WithProviderBackoff([target EXCEPT !.page = scan.page], now) \in Document
  BY <1>1, <1>2, WithBackoffType
<1>4. QED
  BY <1>2, <1>3, SaveAndReturnType DEF CatchTarget

(* The runs the provider lists are candidates. *)
LEMMA CandidatesType ==
    ASSUME WorldType, NEW p, NEW after
    PROVE  {CandidateOf(r) : r \in PageOf(p, after)} \subseteq Candidate
<1>1. ASSUME NEW r \in PageOf(p, after) PROVE CandidateOf(r) \in Candidate
  <2>1. r \in Run /\ ci[r].phase = "done"
    BY DEF PageOf, Terminal
  <2>2. ci[r] \in CIRun /\ ci[r].event \in Event
    BY <2>1 DEF WorldType, CIRun
  <2>3. QED
    BY <2>1, <2>2 DEF CandidateOf, Candidate, CIRun
<1>2. QED
  BY <1>1

(* reconcileRuns starts from a well typed document and page.               *)
LEMMA BeginReconcileType ==
    ASSUME NEW doc \in Document, NEW candidates \in SUBSET Candidate,
           BeginReconcile(doc, candidates)
    PROVE  /\ base' \in Document /\ cur' \in Document
           /\ todo' \subseteq Candidate /\ attempted' \subseteq Event
           /\ pc' = "reconcile"
BY WithIncidentType DEF BeginReconcile

(* reconcileRuns that returned failed. *)
LEMMA ReturnFailedType ==
    ASSUME TypeOK, NEW doc \in Document, ReturnFailed(doc), disk' \in Document,
           lane # "webhook" => mem' \in Document
    PROVE  DocumentsType' /\ CallType'
<1>1. CASE lane = "webhook"
  BY <1>1, LeaveType DEF ReturnFailed, Waiting
<1>2. CASE lane # "webhook"
  BY <1>2 DEF ReturnFailed, TypeOK, DocumentsType, CallType, Waiting, Delivering,
              callVars
<1>3. QED
  BY <1>1, <1>2

-----------------------------------------------------------------------------
(* The provider and the clock *)

(* Runs that start, end or are re-run, and the clock, keep their types.    *)
LEMMA ProviderKeepsType ==
    ASSUME TypeOK, Provider \/ Tick
    PROVE  TypeOK'
<1>1. (DocumentsType /\ CallType /\ HistoryType)'
  BY DEF TypeOK, DocumentsType, CallType, HistoryType, Provider, StartRun, EndRun,
         RerunRun, Tick, observerVars, ciVars
<1>2. WorldType'
  <2>1. ASSUME NEW r \in Run, StartRun(r) PROVE WorldType'
    BY <2>1 DEF TypeOK, WorldType, CIRun, StartRun
  <2>2. ASSUME NEW r \in Run, NEW e \in Event, EndRun(r, e) PROVE WorldType'
    <3>1. [id |-> r, event |-> e, updated |-> clock] \in Candidate
      BY DEF TypeOK, WorldType, Candidate
    <3>2. hooks' \subseteq Candidate /\ clock' \in Nat
      BY <2>2, <3>1 DEF TypeOK, WorldType, EndRun
    <3>3. e # NoEvent
      BY EventAssumption
    <3>4. QED
      BY <2>2, <3>2, <3>3 DEF TypeOK, WorldType, CIRun, EndRun
  <2>3. ASSUME NEW r \in Run, RerunRun(r) PROVE WorldType'
    <3>1. ci[r] \in CIRun
      BY DEF TypeOK, WorldType
    <3>. DEFINE next == [ci[r] EXCEPT !.phase = "running",
                                      !.attempt = ci[r].attempt + 1]
    <3>2. ci[r].attempt + 1 \in Nat
      BY <3>1 DEF CIRun
    <3>3. next \in CIRun /\ next.phase = "running"
      BY <3>1, <3>2 DEF CIRun
    <3>4. /\ ci' = [ci EXCEPT ![r] = next]
          /\ hooks' = hooks /\ clock' = clock
      BY <2>3 DEF RerunRun
    <3>. HIDE DEF next
    <3>5. QED
      BY <3>3, <3>4 DEF TypeOK, WorldType
  <2>4. ASSUME Tick PROVE WorldType'
    BY <2>4 DEF TypeOK, WorldType, Tick, ciVars
  <2>5. QED
    BY <2>1, <2>2, <2>3, <2>4 DEF Provider
<1>3. QED
  BY <1>1, <1>2 DEF TypeOK

(* Most steps of the process leave the world and the history alone. *)
LEMMA WorldUnchanged ==
    ASSUME TypeOK, UNCHANGED world
    PROVE  WorldType'
BY DEF TypeOK, WorldType, world

(* Most steps leave what the sink and the providers were asked alone.      *)
LEMMA HistoryUnchanged ==
    ASSUME TypeOK, UNCHANGED <<history, faults>>
    PROVE  HistoryType'
BY DEF TypeOK, HistoryType, history

-----------------------------------------------------------------------------
(* pollOnce and ingestWebhook *)

(* The cursor of a first scan is a natural number.                         *)
LEMMA ScanCursorType ==
    ASSUME TypeOK, NEW doc \in Document
    PROVE  ScanCursor(doc) \in Int
BY ConfigNat DEF ScanCursor, TypeOK, WorldType, Document

(* Every step of the two lanes of pollOnce keeps the types.                *)
LEMMA ScanningKeepsType ==
    ASSUME TypeOK, Scanning
    PROVE  TypeOK'
<1>. USE DEF Waiting, Delivering
<1>1. WorldType' /\ HistoryType'
  <2>1. UNCHANGED <<world, history, faults>>
    BY DEF Scanning, PollBegin, ListHot, ListBacklog, EnterBacklog, SaveProgress,
           NextBacklogPage, ScanTruncated, ScanClean, ScanFailed, WebhookDone
  <2>2. QED
    BY <2>1, WorldUnchanged, HistoryUnchanged
<1>2. ASSUME PollBegin PROVE DocumentsType' /\ CallType'
  <2>1. ScanCursor(disk) \in Int
    BY ScanCursorType DEF TypeOK, DocumentsType
  <2>2. cur' \in Document
    BY <1>2, <2>1, FieldType DEF PollBegin, TypeOK, DocumentsType, Document
  <2>3. scan' \in Scan
    BY <1>2, <2>1 DEF PollBegin, TypeOK, DocumentsType, Document, Scan
  <2>4. QED
    BY <1>2, <2>2, <2>3
       DEF PollBegin, TypeOK, WorldType, DocumentsType, CallType, pageVars
<1>3. ASSUME ListHot PROVE DocumentsType' /\ CallType'
  <2>1. {CandidateOf(r) : r \in PageOf(1, 0)} \in SUBSET Candidate
    BY CandidatesType DEF TypeOK
  <2>2. /\ base' \in Document /\ cur' \in Document
        /\ todo' \subseteq Candidate /\ attempted' \subseteq Event
        /\ pc' = "reconcile"
    BY <1>3, <2>1, BeginReconcileType DEF ListHot, TypeOK, DocumentsType
  <2>3. QED
    BY <1>3, <2>2 DEF ListHot, TypeOK, DocumentsType, CallType
<1>4. ASSUME ListBacklog PROVE DocumentsType' /\ CallType'
  <2>. DEFINE page == PageOf(scan.page, CreatedAfterWithOverlap(scan.cursor))
  <2>1. {CandidateOf(r) : r \in page} \in SUBSET Candidate
    BY CandidatesType DEF TypeOK
  <2>2. /\ base' \in Document /\ cur' \in Document
        /\ todo' \subseteq Candidate /\ attempted' \subseteq Event
        /\ pc' = "reconcile"
    BY <1>4, <2>1, BeginReconcileType DEF ListBacklog, TypeOK, DocumentsType
  <2>3. scan' \in Scan
    <3>1. scan \in Scan /\ scan.fetched + 1 \in Nat
      BY DEF TypeOK, CallType, Scan
    <3>2. (Cardinality(page) >= PageSize) \in BOOLEAN
      OBVIOUS
    <3>3. ASSUME NEW fetched \in Nat, NEW more \in BOOLEAN
          PROVE  [scan EXCEPT !.fetched = fetched, !.more = more] \in Scan
      BY <3>1 DEF Scan
    <3>4. scan' = [scan EXCEPT !.fetched = scan.fetched + 1,
                               !.more = Cardinality(page) >= PageSize]
      BY <1>4 DEF ListBacklog
    <3>. HIDE DEF page
    <3>5. QED
      BY <3>1, <3>2, <3>3, <3>4, Zenon
  <2>4. QED
    BY <1>4, <2>2, <2>3 DEF ListBacklog, TypeOK, DocumentsType, CallType
<1>5. ASSUME EnterBacklog PROVE DocumentsType' /\ CallType'
  BY <1>5 DEF EnterBacklog, LaneDone, TypeOK, DocumentsType, CallType, docVars, pageVars
<1>6. ASSUME SaveProgress PROVE DocumentsType' /\ CallType'
  <2>1. [cur EXCEPT !.page = scan.page, !.cursor = scan.cursor] \in Document
    BY FieldType DEF TypeOK, DocumentsType, CallType, Scan, Document
  <2>2. QED
    BY <1>6, <2>1, SaveType
       DEF SaveProgress, TypeOK, DocumentsType, CallType, callVars, pageVars
<1>7. ASSUME NextBacklogPage PROVE DocumentsType' /\ CallType'
  <2>1. scan' \in Scan
    BY <1>7 DEF NextBacklogPage, TypeOK, CallType, Scan
  <2>2. QED
    BY <1>7, <2>1
       DEF NextBacklogPage, TypeOK, DocumentsType, CallType, docVars, callVars, pageVars
<1>8. ASSUME ScanTruncated PROVE DocumentsType' /\ CallType'
  <2>1. [cur EXCEPT !.page = scan.page + 1] \in Document
    <3>1. cur \in Document /\ scan.page + 1 \in Nat \ {0}
      BY DEF TypeOK, DocumentsType, CallType, Scan
    <3>2. QED
      BY <3>1 DEF Document
  <2>2. QED
    BY <1>8, <2>1, SaveAndReturnType DEF ScanTruncated
<1>9. ASSUME ScanClean PROVE DocumentsType' /\ CallType'
  <2>1. [cur EXCEPT !.cursor = now, !.page = 1] \in Document
    <3>1. cur \in Document /\ now \in Int /\ 1 \in Nat \ {0}
      BY DEF TypeOK, DocumentsType, CallType
    <3>2. QED
      BY <3>1 DEF Document
  <2>2. PICK retained : SaveAndReturn(PruneSeen(
                WithoutBackoff([cur EXCEPT !.cursor = now, !.page = 1]), retained))
    BY <1>9 DEF ScanClean
  <2>3. QED
    BY <2>1, <2>2, WithoutBackoffType, PruneSeenType, SaveAndReturnType
<1>10. ASSUME ScanFailed PROVE DocumentsType' /\ CallType'
  <2>1. [cur EXCEPT !.page = scan.page] \in Document
    BY FieldType DEF TypeOK, DocumentsType, CallType, Scan, Document
  <2>2. QED
    BY <1>10, <2>1, SaveAndReturnType DEF ScanFailed
<1>11. ASSUME WebhookDone PROVE DocumentsType' /\ CallType'
  BY <1>11, LeaveType DEF WebhookDone, TypeOK, DocumentsType
<1>12. QED
  BY <1>1, <1>2, <1>3, <1>4, <1>5, <1>6, <1>7, <1>8, <1>9, <1>10, <1>11
     DEF Scanning, TypeOK

(* So do the steps of ingestWebhook.                                       *)
LEMMA WebhookKeepsType ==
    ASSUME TypeOK, Webhook
    PROVE  TypeOK'
<1>1. PICK candidate \in hooks : WebhookBegin(candidate)
  BY DEF Webhook
<1>2. {candidate} \in SUBSET Candidate
  BY DEF TypeOK, WorldType
<1>3. /\ base' \in Document /\ cur' \in Document
      /\ todo' \subseteq Candidate /\ attempted' \subseteq Event
      /\ pc' = "reconcile"
  BY <1>1, <1>2, BeginReconcileType DEF WebhookBegin, TypeOK, DocumentsType
<1>4. QED
  BY <1>1, <1>3, WorldUnchanged, HistoryUnchanged
     DEF WebhookBegin, TypeOK, WorldType, DocumentsType, CallType, Waiting, Delivering

-----------------------------------------------------------------------------
(* reconcileRuns *)

(* A candidate and the two documents its handling starts from. *)
LEMMA CandidateFacts ==
    ASSUME TypeOK, NEW c \in todo
    PROVE  /\ c \in Candidate /\ c.id \in Nat /\ c.event \in Event
           /\ cur \in Document /\ mem \in Document
           /\ PresentOr(mem, cur) \in Document
           /\ cur.recovery \in Event \cup {NoEvent}
BY PresentOrType, ConfigNat DEF TypeOK, CallType, DocumentsType, Candidate, Run, Document

(* Finishing a candidate shrinks what is left to do. *)
LEMMA FinishType ==
    ASSUME TypeOK, NEW c \in todo, Finish(c)
    PROVE  todo' \subseteq Candidate /\ attempted' \subseteq Event
BY CandidateFacts DEF Finish, TypeOK, CallType

(* The identity of a recovery is that of a green event.                    *)
LEMMA RecoveryIdType ==
    ASSUME TypeOK, NEW c \in todo, c.event \in GreenEvents
    PROVE  RecoveryId(c) \in Event
BY CandidateFacts DEF RecoveryId, Event

(* What the sink acknowledged is a document. *)
LEMMA AcknowledgedType ==
    ASSUME TypeOK, NEW c \in todo, pc \in Delivering
    PROVE  Acknowledged(c) \in Document
<1>1. CASE pc = "status"
  <2>1. MarkStatus(PresentOr(mem, cur), c.event, "delivered") \in Document
    BY CandidateFacts, MarkStatusType DEF DeliveryState
  <2>2. [MarkStatus(PresentOr(mem, cur), c.event, "delivered")
            EXCEPT !.incident = "active"] \in Document
    BY <2>1 DEF Document
  <2>3. QED
    BY <1>1, <2>2 DEF Acknowledged
<1>2. CASE pc = "recovery"
  <2>1. cur.recovery \in Event
    BY <1>2, CandidateFacts DEF TypeOK, CallType
  <2>2. [cur EXCEPT !.recovery = NoEvent, !.incident = "clear"] \in Document
    BY CandidateFacts DEF Document
  <2>3. QED
    BY <1>2, <2>1, <2>2, MarkStatusType DEF Acknowledged, DeliveryState
<1>3. CASE pc = "analysis"
  <2>1. MarkAnalysis(PresentOr(mem, cur), c.event, "delivered") \in Document
    BY CandidateFacts, MarkAnalysisType DEF DeliveryState
  <2>2. QED
    BY <1>3, <2>1 DEF Acknowledged
<1>4. QED
  BY <1>1, <1>2, <1>3 DEF Delivering

(* The sink counts what it receives.                                       *)
LEMMA ReceiveType ==
    ASSUME TypeOK, NEW c \in todo, Receive(c)
    PROVE  posts' \in [Event -> Nat] /\ lastRed' \in Nat
<1>1. posts' \in [Event -> Nat]
  <2>1. posts \in [Event -> Nat]
    BY DEF TypeOK, HistoryType
  <2>2. Subject(c) \in Event
    BY CandidateFacts DEF Subject, TypeOK, CallType
  <2>3. QED
    BY <2>1, <2>2 DEF Receive
<1>2. lastRed' \in Nat
  <2>1. c.id \in Nat /\ lastRed \in Nat
    BY CandidateFacts DEF TypeOK, HistoryType
  <2>2. lastRed' \in {lastRed, c.id}
    BY DEF Receive, Larger
  <2>3. QED
    BY <2>1, <2>2
<1>3. QED
  BY <1>1, <1>2

(* Every step of reconcileRuns keeps the types.                            *)
LEMMA ReconcilingKeepsType ==
    ASSUME TypeOK, NEW c \in todo,
           \/ SkipRun(c) \/ SuppressStale(c) \/ SuppressQuiet(c)
           \/ SuppressSuccess(c) \/ StartRecovery(c) \/ StopForBackoff(c)
           \/ StartStatus(c) \/ StartAnalysis(c) \/ BuildAnalysis(c)
           \/ SinkAccepts(c)
    PROVE  TypeOK'
<1>. USE DEF Waiting, Delivering
<1>1. WorldType'
  <2>1. UNCHANGED world
    BY DEF SkipRun, SuppressStale, SuppressQuiet, SuppressSuccess, StartRecovery,
           StopForBackoff, StartStatus, StartAnalysis, BuildAnalysis, SinkAccepts
  <2>2. QED
    BY <2>1, WorldUnchanged
<1>2. ASSUME SkipRun(c) PROVE DocumentsType' /\ CallType' /\ HistoryType'
  BY <1>2, FinishType, HistoryUnchanged
     DEF SkipRun, TypeOK, DocumentsType, CallType, docVars, callVars
<1>3. ASSUME SuppressStale(c) PROVE DocumentsType' /\ CallType' /\ HistoryType'
  <2>1. MarkStale(PresentOr(mem, cur), c.event) \in Document
    BY CandidateFacts, MarkStaleType
  <2>2. QED
    BY <1>3, <2>1, SaveType, FinishType, HistoryUnchanged
       DEF SuppressStale, Current, TypeOK, DocumentsType, CallType, callVars
<1>4. ASSUME SuppressQuiet(c) PROVE DocumentsType' /\ CallType' /\ HistoryType'
  <2>1. MarkStatus(cur, c.event, "suppressed") \in Document
    BY CandidateFacts, MarkStatusType DEF DeliveryState
  <2>2. QED
    BY <1>4, <2>1, SaveType, FinishType, HistoryUnchanged
       DEF SuppressQuiet, Current, TypeOK, DocumentsType, CallType, callVars
<1>5. ASSUME SuppressSuccess(c) PROVE DocumentsType' /\ CallType' /\ HistoryType'
  <2>1. MarkStatus(cur, c.event, "suppressed") \in Document
    BY CandidateFacts, MarkStatusType DEF DeliveryState
  <2>2. disk' \in Document /\ mem' \in Document /\ cur' \in Document
    BY <1>5, <2>1, SaveType DEF SuppressSuccess, TypeOK, DocumentsType, docVars
  <2>3. QED
    BY <1>5, <2>2, FinishType, HistoryUnchanged
       DEF SuppressSuccess, Current, TypeOK, DocumentsType, CallType, callVars
<1>6. ASSUME StartRecovery(c) PROVE DocumentsType' /\ CallType' /\ HistoryType'
  <2>. DEFINE known == RecoveryDelivered
              named == [cur EXCEPT !.recovery = RecoveryId(c)]
              pending == MarkStatus(named, RecoveryId(c), "pending")
              cleared == [cur EXCEPT !.recovery = NoEvent, !.incident = "clear"]
  <2>1. RecoveryId(c) \in Event
    BY <1>6, RecoveryIdType DEF StartRecovery
  <2>2. named \in Document /\ named.recovery = RecoveryId(c)
    BY <2>1, CandidateFacts DEF Document
  <2>3. pending \in Document /\ pending.recovery = named.recovery
    <3>. HIDE DEF named
    <3>1. "pending" \in DeliveryState
      BY DEF DeliveryState
    <3>2. QED
      BY <2>1, <2>2, <3>1, MarkStatusType
  <2>4. pending.recovery # NoEvent
    BY <2>1, <2>2, <2>3, EventAssumption
  <2>5. cleared \in Document
    BY CandidateFacts DEF Document
  <2>6. /\ Save(IF known THEN cleared ELSE pending)
        /\ pc' = IF known THEN "reconcile" ELSE "recovery"
        /\ IF known THEN Finish(c) ELSE UNCHANGED pageVars
        /\ UNCHANGED <<callVars, scan, history, faults>>
    BY <1>6 DEF StartRecovery
  <2>. HIDE DEF known, named, pending, cleared
  <2>7. CASE known
    BY <2>5, <2>6, <2>7, SaveType, FinishType, HistoryUnchanged
       DEF TypeOK, DocumentsType, CallType, callVars
  <2>8. CASE ~known
    <3>1. cur' = pending /\ disk' \in Document /\ mem' \in Document
      BY <2>3, <2>6, <2>8, SaveType DEF Save
    <3>2. QED
      BY <2>3, <2>4, <2>6, <2>8, <3>1, HistoryUnchanged
         DEF TypeOK, DocumentsType, CallType, callVars, pageVars
  <2>9. QED
    BY <2>7, <2>8
<1>7. ASSUME StopForBackoff(c) PROVE DocumentsType' /\ CallType' /\ HistoryType'
  <2>. DEFINE doc == IF c.event \in GreenEvents
                     THEN [cur EXCEPT !.recovery = RecoveryId(c)] ELSE cur
  <2>1. doc \in Document
    BY CandidateFacts, RecoveryIdType DEF Document
  <2>2. /\ ReturnFailed(doc)
        /\ lane # "webhook" => mem' = mem
        /\ UNCHANGED <<disk, history, faults>>
    BY <1>7 DEF StopForBackoff
  <2>. HIDE DEF doc
  <2>3. QED
    BY <2>1, <2>2, ReturnFailedType, HistoryUnchanged DEF TypeOK, DocumentsType
<1>8. ASSUME StartStatus(c) PROVE DocumentsType' /\ CallType' /\ HistoryType'
  <2>1. MarkStatus(PresentOr(mem, cur), c.event, "pending") \in Document
    BY CandidateFacts, MarkStatusType DEF DeliveryState
  <2>2. QED
    BY <1>8, <2>1, SaveType, HistoryUnchanged
       DEF StartStatus, TypeOK, DocumentsType, CallType, callVars, pageVars
<1>9. ASSUME StartAnalysis(c) PROVE DocumentsType' /\ CallType' /\ HistoryType'
  <2>. DEFINE fallback == [cur EXCEPT !.incident = "active"]
  <2>1. fallback \in Document
    BY CandidateFacts DEF Document
  <2>2. PresentOr(mem, fallback) \in Document
    BY <2>1, CandidateFacts, PresentOrType
  <2>3. MarkAnalysis(PresentOr(mem, fallback), c.event, "pending") \in Document
    BY <2>2, CandidateFacts, MarkAnalysisType DEF DeliveryState
  <2>4. DocumentsType' /\ CallType'
    BY <1>9, <2>3, SaveType
       DEF StartAnalysis, TypeOK, DocumentsType, CallType, callVars, pageVars
  <2>5. HistoryType'
    BY <1>9 DEF StartAnalysis, TypeOK, HistoryType, IsAnalysisConclusion
  <2>6. QED
    BY <2>4, <2>5
<1>10. ASSUME BuildAnalysis(c) PROVE DocumentsType' /\ CallType' /\ HistoryType'
  <2>1. MarkAnalysis(PresentOr(mem, cur), c.event, "pending") \in Document
    BY CandidateFacts, MarkAnalysisType DEF DeliveryState
  <2>2. QED
    BY <1>10, <2>1, SaveType, HistoryUnchanged
       DEF BuildAnalysis, TypeOK, DocumentsType, CallType, callVars, pageVars
<1>11. ASSUME SinkAccepts(c) PROVE DocumentsType' /\ CallType' /\ HistoryType'
  <2>1. DocumentsType'
    BY <1>11, AcknowledgedType, SaveType DEF SinkAccepts, TypeOK, DocumentsType, callVars
  <2>2. todo' \subseteq Candidate /\ attempted' \subseteq Event
    BY <1>11, FinishType DEF SinkAccepts, TypeOK, CallType, pageVars
  <2>3. CallType'
    BY <1>11, <2>2 DEF SinkAccepts, TypeOK, CallType, callVars
  <2>4. HistoryType'
    BY <1>11, ReceiveType DEF SinkAccepts, TypeOK, HistoryType
  <2>5. QED
    BY <2>1, <2>3, <2>4
<1>12. QED
  BY <1>1, <1>2, <1>3, <1>4, <1>5, <1>6, <1>7, <1>8, <1>9, <1>10, <1>11 DEF TypeOK

-----------------------------------------------------------------------------
(* Faults and restarts *)

(* Failed listings and deliveries, and crashes, keep the types.            *)
LEMMA FaultyKeepsType ==
    ASSUME TypeOK, Faulty \/ LeaseExpires
    PROVE  TypeOK'
<1>. USE DEF Waiting, Delivering
<1>1. WorldType'
  <2>1. UNCHANGED world
    BY DEF Faulty, ListFails, SinkReceives, DeliveryFails, BuildThrows, Crash, LeaseExpires
  <2>2. QED
    BY <2>1, WorldUnchanged
<1>2. ASSUME NEW unavailable \in BOOLEAN, ListFails(unavailable)
      PROVE  DocumentsType' /\ CallType' /\ HistoryType'
  BY <1>2, CatchTargetType DEF ListFails, TypeOK, DocumentsType, HistoryType, history
<1>3. ASSUME NEW c \in todo, SinkReceives(c)
      PROVE  DocumentsType' /\ CallType' /\ HistoryType'
  <2>1. DocumentsType' /\ CallType'
    BY <1>3 DEF SinkReceives, TypeOK, DocumentsType, CallType, docVars, callVars, pageVars
  <2>2. HistoryType'
    BY <1>3, ReceiveType DEF SinkReceives, TypeOK, HistoryType
  <2>3. QED
    BY <2>1, <2>2
<1>4. ASSUME DeliveryFails PROVE DocumentsType' /\ CallType' /\ HistoryType'
  <2>. DEFINE failed == WithDeliveryBackoff(cur, now)
  <2>1. failed \in Document
    BY WithBackoffType DEF TypeOK, DocumentsType, CallType
  <2>2. /\ disk' = failed
        /\ ReturnFailed(failed)
        /\ lane # "webhook" => mem' = failed
        /\ faults' \in {faults, faults + 1}
        /\ UNCHANGED history
    BY <1>4 DEF DeliveryFails
  <2>. HIDE DEF failed
  <2>3. DocumentsType' /\ CallType'
    BY <2>1, <2>2, ReturnFailedType
  <2>4. HistoryType'
    BY <2>2 DEF TypeOK, HistoryType, history
  <2>5. QED
    BY <2>3, <2>4
<1>5. ASSUME BuildThrows PROVE DocumentsType' /\ CallType' /\ HistoryType'
  <2>1. DocumentsType' /\ CallType'
    <3>1. CASE lane = "webhook"
      BY <1>5, <3>1, LeaveType DEF BuildThrows, TypeOK, DocumentsType
    <3>2. CASE lane # "webhook"
      BY <1>5, <3>2, CatchTargetType DEF BuildThrows, TypeOK, DocumentsType
    <3>3. QED
      BY <3>1, <3>2
  <2>2. HistoryType'
    BY <1>5 DEF BuildThrows, TypeOK, HistoryType, history
  <2>3. QED
    BY <2>1, <2>2
<1>6. ASSUME Crash PROVE DocumentsType' /\ CallType' /\ HistoryType'
  <2>1. DocumentsType' /\ CallType'
    BY <1>6, LeaveType DEF Crash, TypeOK, DocumentsType
  <2>2. HistoryType'
    BY <1>6 DEF Crash, TypeOK, HistoryType, history
  <2>3. QED
    BY <2>1, <2>2
<1>7. ASSUME LeaseExpires PROVE DocumentsType' /\ CallType' /\ HistoryType'
  BY <1>7, HistoryUnchanged
     DEF LeaseExpires, TypeOK, DocumentsType, CallType, pageVars
<1>8. QED
  BY <1>1, <1>2, <1>3, <1>4, <1>5, <1>6, <1>7 DEF Faulty, TypeOK

(* Every variable keeps its type, whatever the events and the limits are:  *)
(* in particular a notification is only ever under way for a candidate,    *)
(* and a recovery only under a stored identity (runtime.ts 486-597).       *)
THEOREM TypeCorrect == Spec => []TypeOK
<1>1. TypeOK /\ [Next]_vars => TypeOK'
  <2>1. SUFFICES ASSUME TypeOK, [Next]_vars PROVE TypeOK'
    OBVIOUS
  <2>2. CASE Provider \/ Tick
    BY <2>1, <2>2, ProviderKeepsType
  <2>3. CASE Scanning
    BY <2>1, <2>3, ScanningKeepsType
  <2>4. CASE Reconciling
    BY <2>1, <2>4, ReconcilingKeepsType DEF Reconciling
  <2>5. CASE Webhook
    BY <2>1, <2>5, WebhookKeepsType
  <2>6. CASE Faulty \/ LeaseExpires
    BY <2>1, <2>6, FaultyKeepsType
  <2>7. CASE UNCHANGED vars
    BY <2>1, <2>7 DEF vars, TypeOK, WorldType, DocumentsType, CallType, HistoryType
  <2>8. QED
    BY <2>1, <2>2, <2>3, <2>4, <2>5, <2>6, <2>7 DEF Next
<1>2. QED
  BY InitType, <1>1, PTL DEF Spec
==============================================================================
