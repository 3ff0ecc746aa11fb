----------------------- MODULE ObserverEffects_proofs -----------------------
(***************************************************************************)
(* No notification and no failure analysis without a durable record, no    *)
(* second analysis of an event, no failure announced again but after a     *)
(* fault, one identity for a recovery, no more recoveries than failures,   *)
(* final outcomes, the refinement of NotificationLedger, and complete      *)
(* scans that pass no failure: for every set of events and every bound.    *)
(* All need that the analysis payload never exceeds its limit (the         *)
(* exception would restore the copy of the document from before the page)  *)
(* and that pruneSeen never has to drop a record.                          *)
(***************************************************************************)
EXTENDS ObserverRuntime_proofs, FiniteSetTheorems, WellFoundedInduction

(* What no step may do to a document: forget an event or an attempt. *)
Keeps(old, new) ==
    \A e \in Event :
        /\ old.seen[e].status # "none" => new.seen[e].status # "none"
        /\ old.seen[e].attempted => new.seen[e].attempted

NeverPrunes == \A s \in SUBSET Event : Cardinality(s) <= PruneAbove

(* Documents with the same records: nothing is forgotten (markSeen untouched). *)
LEMMA SameRecordsKeep ==
    ASSUME NEW old, NEW new, new.seen = old.seen
    PROVE  Keeps(old, new)
BY DEF Keeps

(* Marking a record of a copy that agrees with the original forgets nothing. *)
LEMMA MarkKeeps ==
    ASSUME NEW old \in Document, NEW doc \in Document, doc.seen = old.seen,
           NEW e \in Event, NEW state \in DeliveryState \ {"none"}
    PROVE  /\ Keeps(old, MarkStatus(doc, e, state))
           /\ Keeps(old, MarkAnalysis(doc, e, state))
           /\ Keeps(old, MarkStale(doc, e))
<1>1. Keeps(old, MarkStatus(doc, e, state))
  BY MarkStatusType DEF Keeps
<1>2. Keeps(old, MarkAnalysis(doc, e, state))
  <2>. DEFINE new == MarkAnalysis(doc, e, state)
  <2>1. state \in DeliveryState
    OBVIOUS
  <2>2. new.seen[e].attempted /\ new.seen[e].status = old.seen[e].status
    BY <2>1, MarkAnalysisType
  <2>3. \A d \in Event \ {e} : new.seen[d] = old.seen[d]
    BY <2>1, MarkAnalysisType
  <2>. HIDE DEF new
  <2>4. ASSUME NEW d \in Event
        PROVE  /\ old.seen[d].status # "none" => new.seen[d].status # "none"
               /\ old.seen[d].attempted => new.seen[d].attempted
    <3>1. CASE d = e
      BY <2>2, <3>1, Zenon
    <3>2. CASE d # e
      BY <2>3, <3>2, Zenon
    <3>3. QED
      BY <3>1, <3>2
  <2>5. Keeps(old, new)
    BY <2>4, Zenon DEF Keeps
  <2>6. QED
    BY <2>5 DEF new
<1>3. Keeps(old, MarkStale(doc, e))
  BY MarkStaleType DEF Keeps
<1>4. QED
  BY <1>1, <1>2, <1>3

(* While a call runs, whichever copy PresentOr picks has the durable records. *)
LEMMA WorkingCopyAgrees ==
    ASSUME TypeOK, CopiesAgree, pc \notin Waiting,
           NEW fallback \in Document, fallback.seen = cur.seen
    PROVE  /\ PresentOr(mem, fallback) \in Document
           /\ PresentOr(mem, fallback).seen = disk.seen
BY PresentOrType DEF TypeOK, DocumentsType, CopiesAgree

(* The parts of the invariant about the effects survive a step that sends  *)
(* nothing and forgets nothing.                                            *)
LEMMA QuietStepIsRecorded ==
    ASSUME TypeOK, EffectsAreRecorded, AnalysisAtMostOnce,
           UNCHANGED <<posts, builds>>, Keeps(disk, disk')
    PROVE  EffectsAreRecorded' /\ AnalysisAtMostOnce'
<1>1. \A e \in Event : posts'[e] > 0 => disk'.seen[e].status # "none"
  BY DEF EffectsAreRecorded, Keeps
<1>2. \A e \in RedEvents : builds'[e] > 0 => disk'.seen[e].attempted
  BY DEF EffectsAreRecorded, Keeps, Event
<1>3. \A e \in RedEvents : builds'[e] <= 1
  BY DEF AnalysisAtMostOnce
<1>4. QED
  BY <1>1, <1>2, <1>3 DEF EffectsAreRecorded, AnalysisAtMostOnce

(* So does the rest of it when no delivery starts. *)
LEMMA SavedCopiesAgree ==
    ASSUME NEW doc, Save(doc)
    PROVE  CopiesAgree' /\ disk' = doc
BY DEF Save, CopiesAgree

(* A fresh process, which has sent and recorded nothing, satisfies the invariant. *)
LEMMA EffectsInvInit == Init => EffectsInv
BY DEF Init, EffectsInv, CopiesAgree, OneCandidatePerRun, UnderWayIsRecorded,
       EffectsAreRecorded, AnalysisAtMostOnce, Waiting

(* A page of listWorkflowRuns holds each run once.                         *)
LEMMA ListedOncePerRun ==
    ASSUME NEW p, NEW after
    PROVE  \A c, d \in {CandidateOf(r) : r \in PageOf(p, after)} :
              c.id = d.id => c = d
BY DEF CandidateOf

-----------------------------------------------------------------------------

(* What the CI provider and the clock do concerns no copy of the document. *)
LEMMA WorldKeepsEffects ==
    ASSUME EffectsInv, Provider \/ Tick
    PROVE  EffectsInv'
<1>1. UNCHANGED observerVars
  BY DEF Provider, StartRun, EndRun, RerunRun, Tick, ciVars
<1>2. QED
  BY <1>1 DEF observerVars, EffectsInv, CopiesAgree, OneCandidatePerRun,
     UnderWayIsRecorded, Newest, EffectsAreRecorded, AnalysisAtMostOnce

(* A call that returns leaves nothing under way. *)
LEMMA LeaveKeepsEffects ==
    ASSUME TypeOK, EffectsInv, NEW state \in Waiting, Leave(state),
           UNCHANGED <<posts, builds>>, Keeps(disk, disk')
    PROVE  EffectsInv'
<1>1. EffectsAreRecorded' /\ AnalysisAtMostOnce'
  BY QuietStepIsRecorded DEF EffectsInv
<1>2. CopiesAgree' /\ OneCandidatePerRun' /\ UnderWayIsRecorded'
  BY DEF Leave, CopiesAgree, OneCandidatePerRun, UnderWayIsRecorded, Waiting
<1>3. QED
  BY <1>1, <1>2 DEF EffectsInv

(* The last save of a poll forgets nothing that was sent or analysed.      *)
LEMMA SaveAndReturnKeepsEffects ==
    ASSUME TypeOK, EffectsInv, NEW doc, SaveAndReturn(doc), doc.seen = disk.seen,
           UNCHANGED <<posts, builds>>
    PROVE  EffectsInv'
<1>1. Leave("idle") /\ disk' = doc
  BY DEF SaveAndReturn
<1>2. Keeps(disk, disk')
  BY <1>1, SameRecordsKeep
<1>3. QED
  BY <1>1, <1>2, LeaveKeepsEffects DEF Waiting

(* Steps that leave every copy's records, the page and the effects alone. *)
LEMMA IdleStepKeepsEffects ==
    ASSUME TypeOK, EffectsInv, UNCHANGED <<posts, builds>>,
           disk'.seen = disk.seen, todo' \subseteq todo,
           pc' \notin Delivering,
           pc' \notin Waiting => mem'.seen = disk.seen /\ cur'.seen = disk.seen
    PROVE  EffectsInv'
<1>1. EffectsAreRecorded' /\ AnalysisAtMostOnce'
  BY SameRecordsKeep, QuietStepIsRecorded DEF EffectsInv
<1>2. CopiesAgree'
  BY DEF CopiesAgree
<1>3. OneCandidatePerRun'
  BY DEF EffectsInv, OneCandidatePerRun
<1>4. UnderWayIsRecorded'
  BY DEF UnderWayIsRecorded, Delivering
<1>5. QED
  BY <1>1, <1>2, <1>3, <1>4 DEF EffectsInv

(* A page of candidates, each run once, is taken up. *)
LEMMA BeginReconcileKeepsEffects ==
    ASSUME TypeOK, EffectsInv, NEW doc \in Document, NEW candidates,
           BeginReconcile(doc, candidates),
           \A c, d \in candidates : c.id = d.id => c = d,
           doc.seen = disk.seen, mem'.seen = disk.seen,
           UNCHANGED <<disk, posts, builds>>
    PROVE  EffectsInv'
<1>1. cur' = WithIncident(doc) /\ todo' = candidates /\ pc' = "reconcile"
  BY DEF BeginReconcile
<1>2. EffectsAreRecorded' /\ AnalysisAtMostOnce'
  BY SameRecordsKeep, QuietStepIsRecorded DEF EffectsInv
<1>3. CopiesAgree'
  BY <1>1, WithIncidentType DEF CopiesAgree
<1>4. OneCandidatePerRun' /\ UnderWayIsRecorded'
  BY <1>1 DEF OneCandidatePerRun, UnderWayIsRecorded
<1>5. QED
  BY <1>2, <1>3, <1>4 DEF EffectsInv

(* No step of the two lanes of pollOnce disturbs the invariant.            *)
LEMMA ScanningKeepsEffects ==
    ASSUME TypeOK, EffectsInv, NeverPrunes, Scanning
    PROVE  EffectsInv'
<1>1. UNCHANGED <<posts, builds>>
  BY DEF Scanning, PollBegin, ListHot, ListBacklog, EnterBacklog, SaveProgress,
         NextBacklogPage, ScanTruncated, ScanClean, ScanFailed, WebhookDone, history
<1>2. pc \notin Waiting => /\ mem.seen = disk.seen /\ cur.seen = disk.seen
                           /\ cur \in Document
  BY DEF EffectsInv, CopiesAgree, TypeOK, DocumentsType
<1>3. ASSUME PollBegin PROVE EffectsInv'
  <2>1. cur'.seen = disk.seen
    BY <1>3, FieldKeepsRecords DEF PollBegin, TypeOK, DocumentsType
  <2>2. QED
    BY <1>1, <1>3, <2>1, IdleStepKeepsEffects DEF PollBegin, Delivering, pageVars
<1>4. ASSUME ListHot PROVE EffectsInv'
  BY <1>1, <1>2, <1>4, BeginReconcileKeepsEffects, ListedOncePerRun
     DEF ListHot, Waiting
<1>5. ASSUME ListBacklog PROVE EffectsInv'
  BY <1>1, <1>2, <1>5, BeginReconcileKeepsEffects, ListedOncePerRun
     DEF ListBacklog, Waiting
<1>6. ASSUME EnterBacklog PROVE EffectsInv'
  BY <1>1, <1>2, <1>6, IdleStepKeepsEffects
     DEF EnterBacklog, LaneDone, Delivering, Waiting, docVars, pageVars
<1>7. ASSUME SaveProgress PROVE EffectsInv'
  <2>1. [cur EXCEPT !.page = scan.page, !.cursor = scan.cursor].seen = disk.seen
    BY <1>2, <1>7, FieldKeepsRecords DEF SaveProgress, Waiting
  <2>2. QED
    BY <1>1, <1>7, <2>1, IdleStepKeepsEffects DEF SaveProgress, Save, Delivering, pageVars
<1>8. ASSUME NextBacklogPage PROVE EffectsInv'
  BY <1>1, <1>2, <1>8, IdleStepKeepsEffects
     DEF NextBacklogPage, LaneDone, Delivering, Waiting, docVars, pageVars
<1>9. ASSUME ScanTruncated PROVE EffectsInv'
  <2>1. [cur EXCEPT !.page = scan.page + 1].seen = disk.seen
    BY <1>2, <1>9, FieldKeepsRecords DEF ScanTruncated, LaneDone, Waiting
  <2>2. QED
    BY <1>1, <1>9, <2>1, SaveAndReturnKeepsEffects DEF ScanTruncated
<1>10. ASSUME ScanClean PROVE EffectsInv'
  <2>. DEFINE moved == [cur EXCEPT !.cursor = now, !.page = 1]
  <2>1. PICK retained \in Retainable(cur) :
            SaveAndReturn(PruneSeen(WithoutBackoff(moved), retained))
    BY <1>10 DEF ScanClean
  <2>2. cur \in Document /\ cur.seen = disk.seen
    BY <1>2, <1>10 DEF ScanClean, LaneDone, Waiting
  <2>3. moved \in Document /\ moved.seen = cur.seen
    <3>1. now \in Int /\ 1 \in Nat \ {0}
      BY DEF TypeOK, CallType
    <3>2. QED
      BY <2>2, <3>1 DEF Document
  <2>. HIDE DEF moved
  <2>4. /\ WithoutBackoff(moved) \in Document
        /\ WithoutBackoff(moved).seen = cur.seen
    BY <2>3, WithoutBackoffType
  <2>5. retained = Recorded(cur)
    BY <2>1 DEF Retainable, NeverPrunes, Recorded
  <2>6. PruneSeen(WithoutBackoff(moved), retained).seen = cur.seen
    BY <2>4, <2>5 DEF PruneSeen, Recorded, Document
  <2>7. QED
    BY <1>1, <2>1, <2>2, <2>6, SaveAndReturnKeepsEffects
<1>11. ASSUME ScanFailed PROVE EffectsInv'
  <2>1. [cur EXCEPT !.page = scan.page].seen = disk.seen
    BY <1>2, <1>11, FieldKeepsRecords DEF ScanFailed, Waiting
  <2>2. QED
    BY <1>1, <1>11, <2>1, SaveAndReturnKeepsEffects DEF ScanFailed
<1>12. ASSUME WebhookDone PROVE EffectsInv'
  BY <1>1, <1>12, LeaveKeepsEffects, SameRecordsKeep DEF WebhookDone, Waiting
<1>13. QED
  BY <1>3, <1>4, <1>5, <1>6, <1>7, <1>8, <1>9, <1>10, <1>11, <1>12 DEF Scanning

(* Nor does ingestWebhook before and after reconcileRuns.                  *)
LEMMA WebhookKeepsEffects ==
    ASSUME TypeOK, EffectsInv, Webhook
    PROVE  EffectsInv'
<1>1. PICK candidate \in hooks : WebhookBegin(candidate)
  BY DEF Webhook
<1>2. /\ BeginReconcile(disk, {candidate})
      /\ mem' = disk
      /\ UNCHANGED <<disk, posts, builds>>
  BY <1>1 DEF WebhookBegin, history
<1>3. QED
  BY <1>2, BeginReconcileKeepsEffects DEF TypeOK, DocumentsType

-----------------------------------------------------------------------------

(* A candidate is handled, no delivery starts, and its record is saved. *)
LEMMA SettleKeepsEffects ==
    ASSUME TypeOK, EffectsInv, NEW doc \in Document, Save(doc), Keeps(disk, doc),
           UNCHANGED <<posts, builds>>, todo' \subseteq todo, pc' \notin Delivering
    PROVE  EffectsInv'
<1>1. CopiesAgree' /\ disk' = doc
  BY SavedCopiesAgree
<1>2. EffectsAreRecorded' /\ AnalysisAtMostOnce'
  BY <1>1, QuietStepIsRecorded DEF EffectsInv
<1>3. OneCandidatePerRun'
  BY DEF EffectsInv, OneCandidatePerRun
<1>4. UnderWayIsRecorded'
  BY DEF UnderWayIsRecorded, Delivering
<1>5. QED
  BY <1>1, <1>2, <1>3, <1>4 DEF EffectsInv

(* What the handling of a candidate starts from. *)
LEMMA HandlingFacts ==
    ASSUME TypeOK, EffectsInv, pc \notin Waiting, NEW c \in todo
    PROVE  /\ c.event \in Event
           /\ disk \in Document
           /\ cur \in Document /\ cur.seen = disk.seen
           /\ mem \in Document /\ mem.seen = disk.seen
           /\ PresentOr(mem, cur) \in Document
           /\ PresentOr(mem, cur).seen = disk.seen
BY CandidateFacts, WorkingCopyAgrees DEF EffectsInv, CopiesAgree, TypeOK, DocumentsType

(* Only the newest candidate of a page is handled. *)
LEMMA NewestIsUnique ==
    ASSUME TypeOK, OneCandidatePerRun, NEW c \in todo, NEW d \in todo,
           Newest(c), Newest(d)
    PROVE  c = d
<1>1. c.id \in Nat /\ d.id \in Nat /\ c.id <= d.id /\ d.id <= c.id
  BY CandidateFacts DEF Newest
<1>2. QED
  BY <1>1 DEF OneCandidatePerRun

(* Runs that reconcileRuns skips or suppresses keep the copies in agreement. *)
LEMMA SuppressingKeepsEffects ==
    ASSUME TypeOK, EffectsInv, NEW c \in todo,
           \/ SkipRun(c) \/ SuppressStale(c) \/ SuppressQuiet(c)
           \/ SuppressSuccess(c) \/ StopForBackoff(c)
    PROVE  EffectsInv'
<1>. DEFINE e == c.event
<1>1. /\ pc = "reconcile" /\ pc \notin Waiting
      /\ UNCHANGED <<posts, builds>>
  BY DEF SkipRun, SuppressStale, SuppressQuiet, SuppressSuccess, StopForBackoff,
         Current, Waiting, history
<1>2. "suppressed" \in DeliveryState \ {"none"}
  BY DEF DeliveryState
<1>3. ASSUME SkipRun(c) PROVE EffectsInv'
  BY <1>1, <1>3, HandlingFacts, IdleStepKeepsEffects
     DEF SkipRun, Finish, Delivering, docVars
<1>4. ASSUME SuppressStale(c) PROVE EffectsInv'
  <2>1. /\ MarkStale(PresentOr(mem, cur), e) \in Document
        /\ Keeps(disk, MarkStale(PresentOr(mem, cur), e))
    BY <1>1, <1>2, HandlingFacts, MarkKeeps, MarkStaleType
  <2>2. QED
    BY <1>1, <1>4, <2>1, SettleKeepsEffects DEF SuppressStale, Finish, Delivering
<1>5. /\ MarkStatus(cur, e, "suppressed") \in Document
      /\ Keeps(disk, MarkStatus(cur, e, "suppressed"))
  BY <1>1, <1>2, HandlingFacts, MarkKeeps, MarkStatusType
<1>6. ASSUME SuppressQuiet(c) PROVE EffectsInv'
  BY <1>1, <1>5, <1>6, SettleKeepsEffects DEF SuppressQuiet, Finish, Delivering
<1>7. ASSUME SuppressSuccess(c) PROVE EffectsInv'
  <2>1. todo' \subseteq todo /\ pc' = "reconcile"
    BY <1>1, <1>7 DEF SuppressSuccess, Finish
  <2>2. CASE cur.seen[e] = NoRecord
    BY <1>1, <1>5, <1>7, <2>1, <2>2, SettleKeepsEffects
       DEF SuppressSuccess, Delivering
  <2>3. CASE cur.seen[e] # NoRecord
    BY <1>1, <1>7, <2>1, <2>3, HandlingFacts, IdleStepKeepsEffects
       DEF SuppressSuccess, Delivering, docVars
  <2>4. QED
    BY <2>2, <2>3
<1>8. ASSUME StopForBackoff(c) PROVE EffectsInv'
  <2>. DEFINE doc == IF e \in GreenEvents
                     THEN [cur EXCEPT !.recovery = RecoveryId(c)] ELSE cur
  <2>1. doc.seen = disk.seen
    BY <1>1, HandlingFacts, FieldKeepsRecords
  <2>2. /\ ReturnFailed(doc)
        /\ lane # "webhook" => mem' = mem
        /\ disk' = disk
    BY <1>8 DEF StopForBackoff
  <2>. HIDE DEF doc
  <2>3. CASE lane = "webhook"
    BY <1>1, <2>2, <2>3, LeaveKeepsEffects, SameRecordsKeep DEF ReturnFailed, Waiting
  <2>4. CASE lane # "webhook"
    BY <1>1, <2>1, <2>2, <2>4, HandlingFacts, IdleStepKeepsEffects
       DEF ReturnFailed, Delivering
  <2>5. QED
    BY <2>3, <2>4
<1>9. QED
  BY <1>3, <1>4, <1>6, <1>7, <1>8

(* A saved intention, or an attempt, is what the delivery that follows needs. *)
LEMMA StartingKeepsEffects ==
    ASSUME TypeOK, EffectsInv, NEW c \in todo,
           StartStatus(c) \/ StartRecovery(c) \/ BuildAnalysis(c)
    PROVE  EffectsInv'
<1>. DEFINE e == c.event
<1>1. pc \notin Waiting /\ UNCHANGED <<posts, builds>>
  BY DEF StartStatus, StartRecovery, BuildAnalysis, Current, Waiting, history
<1>2. "pending" \in DeliveryState \ {"none"}
  BY DEF DeliveryState
<1>3. ASSUME StartStatus(c) PROVE EffectsInv'
  <2>. DEFINE doc == MarkStatus(PresentOr(mem, cur), e, "pending")
  <2>1. /\ doc \in Document /\ Keeps(disk, doc)
        /\ doc.seen[e].status = "pending"
    BY <1>1, <1>2, HandlingFacts, MarkKeeps, MarkStatusType
  <2>2. Save(doc) /\ pc' = "status" /\ todo' = todo /\ Newest(c)
    BY <1>3 DEF StartStatus, Current, pageVars
  <2>. HIDE DEF doc
  <2>3. CopiesAgree' /\ disk' = doc
    BY <2>2, SavedCopiesAgree
  <2>4. EffectsAreRecorded' /\ AnalysisAtMostOnce'
    BY <1>1, <2>1, <2>3, QuietStepIsRecorded DEF EffectsInv
  <2>5. OneCandidatePerRun'
    BY <2>2 DEF EffectsInv, OneCandidatePerRun
  <2>6. UnderWayIsRecorded'
    <3>1. ASSUME NEW d \in todo', Newest(d)' PROVE d = c
      <4>1. d \in todo /\ Newest(d)
        BY <2>2, <3>1 DEF Newest
      <4>2. QED
        BY <2>2, <4>1, NewestIsUnique DEF EffectsInv
    <3>2. QED
      BY <2>1, <2>2, <2>3, <3>1 DEF UnderWayIsRecorded
  <2>7. QED
    BY <2>3, <2>4, <2>5, <2>6 DEF EffectsInv
<1>4. ASSUME StartRecovery(c) PROVE EffectsInv'
  <2>. DEFINE known == RecoveryDelivered
              named == [cur EXCEPT !.recovery = RecoveryId(c)]
              pending == MarkStatus(named, RecoveryId(c), "pending")
              cleared == [cur EXCEPT !.recovery = NoEvent, !.incident = "clear"]
  <2>1. RecoveryId(c) \in Event
    BY <1>4, RecoveryIdType DEF StartRecovery
  <2>2. cur \in Document /\ cur.seen = disk.seen /\ disk \in Document
    BY <1>1, HandlingFacts
  <2>3. /\ named \in Document /\ named.seen = disk.seen
        /\ named.recovery = RecoveryId(c)
    BY <2>1, <2>2 DEF Document
  <2>4. cleared \in Document /\ cleared.seen = disk.seen
    BY <2>2 DEF Document
  <2>5. /\ Save(IF known THEN cleared ELSE pending)
        /\ pc' = IF known THEN "reconcile" ELSE "recovery"
        /\ IF known THEN Finish(c) ELSE UNCHANGED pageVars
    BY <1>4 DEF StartRecovery
  <2>. HIDE DEF known, named, cleared
  <2>6. CASE known
    BY <1>1, <2>4, <2>5, <2>6, SettleKeepsEffects, SameRecordsKeep DEF Finish, Delivering
  <2>7. CASE ~known
    <3>1. /\ pending \in Document /\ Keeps(disk, pending)
          /\ pending.recovery = RecoveryId(c)
          /\ pending.seen[RecoveryId(c)].status = "pending"
      BY <1>2, <2>1, <2>2, <2>3, MarkKeeps, MarkStatusType
    <3>2. Save(pending) /\ pc' = "recovery" /\ todo' = todo
      BY <2>5, <2>7 DEF pageVars
    <3>. HIDE DEF pending
    <3>3. CopiesAgree' /\ disk' = pending /\ cur' = pending
      BY <3>2, SavedCopiesAgree DEF Save
    <3>4. EffectsAreRecorded' /\ AnalysisAtMostOnce'
      BY <1>1, <3>1, <3>3, QuietStepIsRecorded DEF EffectsInv
    <3>5. OneCandidatePerRun' /\ UnderWayIsRecorded'
      BY <3>1, <3>2, <3>3 DEF EffectsInv, OneCandidatePerRun, UnderWayIsRecorded
    <3>6. QED
      BY <3>3, <3>4, <3>5 DEF EffectsInv
  <2>8. QED
    BY <2>6, <2>7
<1>5. ASSUME BuildAnalysis(c) PROVE EffectsInv'
  <2>. DEFINE doc == MarkAnalysis(PresentOr(mem, cur), e, "pending")
  <2>1. doc \in Document /\ Keeps(disk, doc)
    BY <1>1, <1>2, HandlingFacts, MarkKeeps, MarkAnalysisType
  <2>2. Save(doc) /\ pc' = "analysis" /\ todo' = todo
    BY <1>5 DEF BuildAnalysis, pageVars
  <2>. HIDE DEF doc
  <2>3. CopiesAgree' /\ disk' = doc
    BY <2>2, SavedCopiesAgree
  <2>4. EffectsAreRecorded' /\ AnalysisAtMostOnce'
    BY <1>1, <2>1, <2>3, QuietStepIsRecorded DEF EffectsInv
  <2>5. OneCandidatePerRun' /\ UnderWayIsRecorded'
    BY <2>2 DEF EffectsInv, OneCandidatePerRun, UnderWayIsRecorded
  <2>6. QED
    BY <2>3, <2>4, <2>5 DEF EffectsInv
<1>6. QED
  BY <1>3, <1>4, <1>5

(* An analysis starts only for an event that has no attempt on record, and *)
(* records one: that is why a second one never starts.                     *)
LEMMA StartAnalysisKeepsEffects ==
    ASSUME TypeOK, EffectsInv, NEW c \in todo, StartAnalysis(c)
    PROVE  EffectsInv'
<1>. DEFINE e == c.event
            fallback == [cur EXCEPT !.incident = "active"]
            doc == MarkAnalysis(PresentOr(mem, fallback), e, "pending")
<1>1. /\ pc \notin Waiting /\ e \in RedEvents /\ Newest(c)
      /\ IsSettledDelivery(cur.seen[e].status)
      /\ ~Settled(c)
      /\ Save(doc)
      /\ pc' = "build" /\ todo' = todo /\ posts' = posts
      /\ builds' = [builds EXCEPT ![e] = @ + 1]
  BY DEF StartAnalysis, Current, Waiting, IsAnalysisConclusion, pageVars
<1>2. /\ cur \in Document /\ cur.seen = disk.seen
      /\ disk \in Document /\ e \in Event
  BY <1>1, HandlingFacts
<1>3. fallback \in Document /\ fallback.seen = disk.seen
  BY <1>2 DEF Document
<1>4. ~disk.seen[e].attempted
  BY <1>1, <1>2, EventAssumption DEF Settled, IsAnalysed, IsAnalysisConclusion
<1>5. builds[e] = 0
  BY <1>1, <1>4 DEF EffectsInv, EffectsAreRecorded, TypeOK, HistoryType
<1>. HIDE DEF fallback
<1>6. "pending" \in DeliveryState \ {"none"} /\ "pending" \in DeliveryState
  BY DEF DeliveryState
<1>7. /\ PresentOr(mem, fallback) \in Document
      /\ PresentOr(mem, fallback).seen = disk.seen
  BY <1>1, <1>2, <1>3, WorkingCopyAgrees DEF EffectsInv
<1>8. doc \in Document /\ Keeps(disk, doc) /\ doc.seen[e].attempted
  BY <1>2, <1>6, <1>7, MarkKeeps, MarkAnalysisType
<1>. HIDE DEF doc
<1>9. CopiesAgree' /\ disk' = doc
  BY <1>1, SavedCopiesAgree
<1>10. EffectsAreRecorded'
  <2>1. \A d \in Event : posts'[d] > 0 => disk'.seen[d].status # "none"
    BY <1>1, <1>8, <1>9 DEF EffectsInv, EffectsAreRecorded, Keeps
  <2>2. \A d \in RedEvents : builds'[d] > 0 => disk'.seen[d].attempted
    BY <1>1, <1>8, <1>9 DEF EffectsInv, EffectsAreRecorded, Keeps, Event, TypeOK, HistoryType
  <2>3. QED
    BY <2>1, <2>2 DEF EffectsAreRecorded
<1>11. AnalysisAtMostOnce'
  BY <1>1, <1>5 DEF EffectsInv, AnalysisAtMostOnce, TypeOK, HistoryType
<1>12. OneCandidatePerRun' /\ UnderWayIsRecorded'
  BY <1>1 DEF EffectsInv, OneCandidatePerRun, UnderWayIsRecorded
<1>13. QED
  BY <1>9, <1>10, <1>11, <1>12 DEF EffectsInv

-----------------------------------------------------------------------------

(* What a delivery in progress is about has a durable record. *)
LEMMA SubjectIsRecorded ==
    ASSUME TypeOK, EffectsInv, pc \in {"status", "recovery"},
           NEW c \in todo, Newest(c)
    PROVE  Subject(c) \in Event /\ disk.seen[Subject(c)].status # "none"
<1>1. Subject(c) \in Event
  BY CandidateFacts DEF Subject, TypeOK, CallType
<1>2. disk.seen[Subject(c)].status # "none"
  BY DEF EffectsInv, UnderWayIsRecorded, Subject
<1>3. QED
  BY <1>1, <1>2

(* What the sink has received has a durable record, now and after any step *)
(* that forgets nothing.                                                   *)
LEMMA ReceiveIsRecorded ==
    ASSUME TypeOK, EffectsInv, pc \in Delivering, NEW c \in todo, Newest(c),
           Receive(c), builds' = builds, Keeps(disk, disk')
    PROVE  EffectsAreRecorded' /\ AnalysisAtMostOnce'
<1>1. \A e \in Event : posts'[e] > 0 => disk'.seen[e].status # "none"
  <2>1. CASE pc = "analysis"
    BY <2>1 DEF Receive, EffectsInv, EffectsAreRecorded, Keeps
  <2>2. CASE pc # "analysis"
    <3>1. Subject(c) \in Event /\ disk.seen[Subject(c)].status # "none"
      BY <2>2, SubjectIsRecorded DEF Delivering
    <3>2. posts' = [posts EXCEPT ![Subject(c)] = @ + 1]
      BY <2>2 DEF Receive
    <3>3. posts \in [Event -> Nat]
      BY DEF TypeOK, HistoryType
    <3>4. QED
      BY <3>1, <3>2, <3>3 DEF EffectsInv, EffectsAreRecorded, Keeps
  <2>3. QED
    BY <2>1, <2>2
<1>2. \A e \in RedEvents : builds'[e] > 0 => disk'.seen[e].attempted
  BY DEF EffectsInv, EffectsAreRecorded, Keeps, Event
<1>3. AnalysisAtMostOnce'
  BY DEF EffectsInv, AnalysisAtMostOnce
<1>4. QED
  BY <1>1, <1>2, <1>3 DEF EffectsAreRecorded

(* An acknowledgement forgets nothing. *)
LEMMA AcknowledgedKeeps ==
    ASSUME TypeOK, EffectsInv, pc \in Delivering, NEW c \in todo
    PROVE  Keeps(disk, Acknowledged(c))
<1>1. /\ c.event \in Event /\ disk \in Document
      /\ cur \in Document /\ cur.seen = disk.seen
      /\ PresentOr(mem, cur) \in Document
      /\ PresentOr(mem, cur).seen = disk.seen
  BY HandlingFacts DEF Delivering, Waiting
<1>2. "delivered" \in DeliveryState \ {"none"} /\ "delivered" \in DeliveryState
  BY DEF DeliveryState
<1>3. CASE pc = "status"
  <2>. DEFINE doc == MarkStatus(PresentOr(mem, cur), c.event, "delivered")
  <2>1. doc \in Document /\ Keeps(disk, doc)
    BY <1>1, <1>2, MarkKeeps, MarkStatusType
  <2>2. Acknowledged(c) = [doc EXCEPT !.incident = "active"]
    BY <1>3 DEF Acknowledged
  <2>. HIDE DEF doc
  <2>3. Acknowledged(c).seen = doc.seen
    BY <2>1, <2>2, FieldKeepsRecords
  <2>4. QED
    BY <2>1, <2>3 DEF Keeps
<1>4. CASE pc = "recovery"
  <2>. DEFINE cleared == [cur EXCEPT !.recovery = NoEvent, !.incident = "clear"]
  <2>1. cleared \in Document /\ cleared.seen = disk.seen
    BY <1>1 DEF Document
  <2>2. cur.recovery \in Event
    BY <1>4, CandidateFacts DEF TypeOK, CallType
  <2>3. Acknowledged(c) = MarkStatus(cleared, cur.recovery, "delivered")
    BY <1>4 DEF Acknowledged
  <2>. HIDE DEF cleared
  <2>4. QED
    BY <1>1, <1>2, <2>1, <2>2, <2>3, MarkKeeps
<1>5. CASE pc = "analysis"
  <2>1. Acknowledged(c) = MarkAnalysis(PresentOr(mem, cur), c.event, "delivered")
    BY <1>5 DEF Acknowledged
  <2>2. QED
    BY <1>1, <1>2, <2>1, MarkKeeps
<1>6. QED
  BY <1>3, <1>4, <1>5 DEF Delivering

(* What the sink receives or acknowledges was recorded before.             *)
LEMMA DeliveringKeepsEffects ==
    ASSUME TypeOK, EffectsInv, NEW c \in todo, SinkAccepts(c) \/ SinkReceives(c)
    PROVE  EffectsInv'
<1>1. pc \in Delivering /\ Newest(c) /\ Receive(c) /\ builds' = builds
  BY DEF SinkAccepts, SinkReceives
<1>2. ASSUME SinkAccepts(c) PROVE EffectsInv'
  <2>1. Save(Acknowledged(c)) /\ pc' = "reconcile" /\ todo' \subseteq todo
    BY <1>2 DEF SinkAccepts, Finish, pageVars
  <2>2. CopiesAgree' /\ disk' = Acknowledged(c)
    BY <2>1, SavedCopiesAgree
  <2>3. EffectsAreRecorded' /\ AnalysisAtMostOnce'
    BY <1>1, <2>2, AcknowledgedKeeps, ReceiveIsRecorded
  <2>4. OneCandidatePerRun' /\ UnderWayIsRecorded'
    BY <2>1 DEF EffectsInv, OneCandidatePerRun, UnderWayIsRecorded
  <2>5. QED
    BY <2>2, <2>3, <2>4 DEF EffectsInv
<1>3. ASSUME SinkReceives(c) PROVE EffectsInv'
  <2>1. UNCHANGED <<disk, mem, cur, pc, todo>>
    BY <1>3 DEF SinkReceives, docVars, pageVars
  <2>2. EffectsAreRecorded' /\ AnalysisAtMostOnce'
    BY <1>1, <2>1, SameRecordsKeep, ReceiveIsRecorded
  <2>3. CopiesAgree' /\ OneCandidatePerRun' /\ UnderWayIsRecorded'
    BY <2>1 DEF EffectsInv, CopiesAgree, OneCandidatePerRun, UnderWayIsRecorded, Newest
  <2>4. QED
    BY <2>2, <2>3 DEF EffectsInv
<1>4. QED
  BY <1>2, <1>3

(* Failed listings and deliveries, thrown errors and crashes lose no record. *)
LEMMA FailingKeepsEffects ==
    ASSUME TypeOK, EffectsInv, ~AnalysisMayOverflow,
           \/ \E unavailable \in BOOLEAN : ListFails(unavailable)
           \/ DeliveryFails \/ BuildThrows \/ Crash \/ LeaseExpires
    PROVE  EffectsInv'
<1>1. UNCHANGED <<posts, builds>>
  BY DEF ListFails, DeliveryFails, BuildThrows, Crash, LeaseExpires, history
<1>2. ASSUME NEW unavailable \in BOOLEAN, ListFails(unavailable) PROVE EffectsInv'
  <2>. DEFINE kept == [cur EXCEPT !.page = scan.page]
  <2>1. cur \in Document /\ cur.seen = disk.seen
    BY <1>2 DEF ListFails, Waiting, EffectsInv, CopiesAgree, TypeOK, DocumentsType
  <2>2. scan.page \in Nat \ {0} /\ now \in Nat
    BY DEF TypeOK, CallType, Scan
  <2>3. kept \in Document /\ kept.seen = disk.seen
    BY <2>1, <2>2 DEF Document
  <2>4. SaveAndReturn(IF unavailable THEN WithProviderBackoff(kept, now) ELSE kept)
    BY <1>2 DEF ListFails, CatchTarget
  <2>. HIDE DEF kept
  <2>5. QED
    BY <1>1, <2>2, <2>3, <2>4, WithBackoffType, SaveAndReturnKeepsEffects
<1>3. ASSUME DeliveryFails PROVE EffectsInv'
  <2>. DEFINE failed == WithDeliveryBackoff(cur, now)
  <2>1. cur \in Document /\ cur.seen = disk.seen /\ now \in Nat
    BY <1>3 DEF DeliveryFails, Delivering, Waiting, EffectsInv, CopiesAgree, TypeOK,
                DocumentsType, CallType
  <2>2. failed.seen = disk.seen
    BY <2>1, WithBackoffType
  <2>3. /\ disk' = failed
        /\ ReturnFailed(failed)
        /\ lane # "webhook" => mem' = failed
    BY <1>3 DEF DeliveryFails
  <2>. HIDE DEF failed
  <2>4. CASE lane = "webhook"
    BY <1>1, <2>2, <2>3, <2>4, LeaveKeepsEffects, SameRecordsKeep DEF ReturnFailed, Waiting
  <2>5. CASE lane # "webhook"
    BY <1>1, <2>2, <2>3, <2>5, IdleStepKeepsEffects DEF ReturnFailed, Delivering
  <2>6. QED
    BY <2>4, <2>5
<1>4. ~BuildThrows
  BY DEF BuildThrows
<1>5. ASSUME Crash PROVE EffectsInv'
  BY <1>1, <1>5, LeaveKeepsEffects, SameRecordsKeep DEF Crash, Waiting
<1>6. ASSUME LeaseExpires PROVE EffectsInv'
  BY <1>1, <1>6, IdleStepKeepsEffects DEF LeaseExpires, Delivering, Waiting, pageVars
<1>7. QED
  BY <1>2, <1>3, <1>4, <1>5, <1>6

-----------------------------------------------------------------------------

(* Every step of the observer preserves the invariant.                     *)
LEMMA StepKeepsEffects ==
    ASSUME ~AnalysisMayOverflow, NeverPrunes, TypeOK, EffectsInv, [Next]_vars
    PROVE  EffectsInv'
<1>1. CASE Provider \/ Tick
  BY <1>1, WorldKeepsEffects
<1>2. CASE Scanning
  BY <1>2, ScanningKeepsEffects
<1>3. CASE Webhook
  BY <1>3, WebhookKeepsEffects
<1>4. CASE Reconciling
  BY <1>4, SuppressingKeepsEffects, StartingKeepsEffects, StartAnalysisKeepsEffects,
     DeliveringKeepsEffects DEF Reconciling
<1>5. CASE Faulty \/ LeaseExpires
  BY <1>5, DeliveringKeepsEffects, FailingKeepsEffects DEF Faulty
<1>6. CASE UNCHANGED vars
  BY <1>6 DEF vars, EffectsInv, CopiesAgree, OneCandidatePerRun, UnderWayIsRecorded,
     Newest, EffectsAreRecorded, AnalysisAtMostOnce
<1>7. QED
  BY <1>1, <1>2, <1>3, <1>4, <1>5, <1>6 DEF Next

(* The copies of the document never drift apart and every effect finds its *)
(* record: the inductive invariant the two promises below come from        *)
(* (runtime.ts 413-600).                                                   *)
THEOREM EffectsInvariant ==
    ASSUME ~AnalysisMayOverflow, NeverPrunes
    PROVE  Spec => []EffectsInv
<1>1. TypeOK /\ EffectsInv /\ [Next]_vars => EffectsInv'
  BY StepKeepsEffects
<1>2. QED
  BY EffectsInvInit, <1>1, TypeCorrect, PTL DEF Spec

(* At most one failure analysis is started for an event, for any number of *)
(* runs, re-runs, webhooks, polls, crashes and lost answers                *)
(* (runtime.ts 572-577).                                                   *)
THEOREM AnalysisIsStartedAtMostOnce ==
    ASSUME ~AnalysisMayOverflow, NeverPrunes
    PROVE  Spec => []AnalysisAtMostOnce
<1>1. EffectsInv => AnalysisAtMostOnce
  BY DEF EffectsInv
<1>2. QED
  BY EffectsInvariant, <1>1, PTL

(* Whatever the sink was sent and whatever was analysed, a restart finds   *)
(* its record in the durable document (runtime.ts 510-514, 549-577).       *)
THEOREM EffectsAlwaysRecorded ==
    ASSUME ~AnalysisMayOverflow, NeverPrunes
    PROVE  Spec => []EffectsAreRecorded
<1>1. EffectsInv => EffectsAreRecorded
  BY DEF EffectsInv
<1>2. QED
  BY EffectsInvariant, <1>1, PTL

-----------------------------------------------------------------------------
(* What a step does to the records of the failing events *)

Same(e) == disk'.seen[e] = disk.seen[e] /\ posts'[e] = posts[e]

Becomes(e, status, tried) ==
    disk'.seen[e].status = status /\ disk'.seen[e].attempted = tried

Intends(e) ==
    /\ ~IsSettledDelivery(disk.seen[e].status)
    /\ Becomes(e, "pending", disk.seen[e].attempted)
    /\ posts'[e] = posts[e]

Repeats(e) ==
    /\ disk.seen[e].status = "pending"
    /\ disk'.seen[e] = disk.seen[e]
    /\ posts'[e] = posts[e] + 1
    /\ faults' = faults + 1

Confirms(e) ==
    /\ disk.seen[e].status = "pending"
    /\ Becomes(e, "delivered", disk.seen[e].attempted)
    /\ posts'[e] = posts[e] + 1

GivesUp(e) ==
    /\ ~disk.seen[e].attempted
    /\ Becomes(e, "suppressed", FALSE)
    /\ disk'.seen[e].analysis = "suppressed"
    /\ posts'[e] = posts[e]

Analyses(e) ==
    /\ disk.seen[e].status = "delivered"
    /\ ~disk.seen[e].attempted
    /\ Becomes(e, "delivered", TRUE)
    /\ posts'[e] = posts[e]

Notes(e) ==
    /\ disk.seen[e].attempted
    /\ Becomes(e, disk.seen[e].status, TRUE)
    /\ posts'[e] = posts[e]

(* One failing event at a time, and in one of six ways.                    *)
RedStep ==
    \/ \A e \in RedEvents : Same(e)
    \/ \E e \in RedEvents :
          /\ \A d \in RedEvents \ {e} : Same(d)
          /\ Intends(e) \/ Repeats(e) \/ Confirms(e) \/ GivesUp(e) \/ Analyses(e) \/ Notes(e)

-----------------------------------------------------------------------------
(* The inductive invariant behind the order of the effects *)

(* An analysis belongs to a delivered failure, a suppressed failure is     *)
(* never analysed, a delivered one has reached the sink, and only a fault  *)
(* repeats what it got.                                                    *)
RecordsInv ==
    \A e \in RedEvents :
        /\ disk.seen[e].attempted => disk.seen[e].status = "delivered"
        /\ disk.seen[e].status = "suppressed" => IsAnalysed(disk.seen[e])
        /\ disk.seen[e].status = "delivered" => posts[e] > 0
        /\ posts[e] <= faults + (IF IsSettledDelivery(disk.seen[e].status) THEN 1 ELSE 0)

(* What is under way is a failing event with its intention, or its attempt.*)
UnderWayInv ==
    \A c \in todo : Newest(c) =>
        /\ pc = "status" => c.event \in RedEvents /\ disk.seen[c.event].status = "pending"
        /\ pc \in {"build", "analysis"} => c.event \in RedEvents /\ disk.seen[c.event].attempted

(* A green notification that is pending is the stored recovery.            *)
Identified(doc) ==
    /\ doc.recovery \in GreenEvents \cup {NoEvent}
    /\ \A g \in GreenEvents : doc.seen[g].status = "pending" => doc.recovery = g

IdentityInv == Identified(disk) /\ Identified(mem) /\ Identified(cur)

OrderInv == RecordsInv /\ UnderWayInv /\ IdentityInv

(* A document with the records and the recovery of one there was.          *)
Alike(new) ==
    \E old \in {disk, mem, cur, EmptyDocument} :
        new.seen = old.seen /\ new.recovery = old.recovery

(* No green notification of a document that has none is pending.           *)
LEMMA EmptyIsIdentified == Identified(EmptyDocument)
BY DEF Identified, EmptyDocument, NoRecord, Event

LEMMA AlikeIsIdentified ==
    ASSUME IdentityInv, NEW new, Alike(new)
    PROVE  Identified(new)
BY EmptyIsIdentified DEF IdentityInv, Identified, Alike

LEMMA OrderInvInit == Init => OrderInv
<1>1. SUFFICES ASSUME Init PROVE OrderInv
  OBVIOUS
<1>2. RecordsInv
  BY <1>1 DEF Init, RecordsInv, EmptyDocument, NoRecord, Event
<1>3. UnderWayInv
  BY <1>1 DEF Init, UnderWayInv
<1>4. IdentityInv
  BY <1>1, EmptyIsIdentified DEF Init, IdentityInv
<1> QED
  BY <1>2, <1>3, <1>4 DEF OrderInv

(* The records obey the invariant after every such step.                   *)
LEMMA RedStepKeepsRecords ==
    ASSUME TypeOK, RecordsInv, RedStep, faults' \in Nat, faults' >= faults
    PROVE  RecordsInv'
<1> DEFINE P(e) == /\ disk'.seen[e].attempted => disk'.seen[e].status = "delivered"
                   /\ disk'.seen[e].status = "suppressed" => IsAnalysed(disk'.seen[e])
                   /\ disk'.seen[e].status = "delivered" => posts'[e] > 0
                   /\ posts'[e] <= faults' + (IF IsSettledDelivery(disk'.seen[e].status) THEN 1 ELSE 0)
<1> USE DEF IsSettledDelivery
<1>1. ASSUME NEW e \in RedEvents PROVE posts[e] \in Nat /\ faults \in Nat
  BY DEF TypeOK, HistoryType, Event
<1>2. ASSUME NEW e \in RedEvents, Same(e) PROVE P(e)
  BY <1>1, <1>2 DEF Same, RecordsInv
<1>3. ASSUME NEW e \in RedEvents, Intends(e) PROVE P(e)
  BY <1>1, <1>3 DEF Intends, Becomes, RecordsInv
<1>4. ASSUME NEW e \in RedEvents, Repeats(e) PROVE P(e)
  BY <1>1, <1>4 DEF Repeats, RecordsInv
<1>5. ASSUME NEW e \in RedEvents, Confirms(e) PROVE P(e)
  BY <1>1, <1>5 DEF Confirms, Becomes, RecordsInv
<1>6. ASSUME NEW e \in RedEvents, GivesUp(e) PROVE P(e)
  BY <1>1, <1>6 DEF GivesUp, Becomes, RecordsInv, IsAnalysed
<1>7. ASSUME NEW e \in RedEvents, Analyses(e) PROVE P(e)
  BY <1>1, <1>7 DEF Analyses, Becomes, RecordsInv
<1>8. ASSUME NEW e \in RedEvents, Notes(e) PROVE P(e)
  BY <1>1, <1>8 DEF Notes, Becomes, RecordsInv
<1>9. ASSUME NEW e \in RedEvents PROVE P(e)
  <2> HIDE DEF P
  <2> QED
    BY <1>2, <1>3, <1>4, <1>5, <1>6, <1>7, <1>8 DEF RedStep
<1> QED
  BY <1>9 DEF RecordsInv

(* Faults are counted, never forgotten.                                    *)
LEMMA FaultsGrow ==
    ASSUME TypeOK, Next
    PROVE  faults' \in Nat /\ faults' >= faults
<1>1. faults \in Nat
  BY DEF TypeOK, HistoryType
<1>2. faults' = faults \/ faults' = faults + 1
  BY DEF Next, Provider, StartRun, EndRun, RerunRun, Tick, observerVars, Scanning, PollBegin,
     ListHot, ListBacklog, EnterBacklog, SaveProgress, NextBacklogPage, ScanTruncated, ScanClean,
     ScanFailed, WebhookDone, Reconciling, SkipRun, SuppressStale, SuppressQuiet, SuppressSuccess,
     StartRecovery, StopForBackoff, StartStatus, StartAnalysis, BuildAnalysis, SinkAccepts, Webhook,
     WebhookBegin, Faulty, ListFails, SinkReceives, DeliveryFails, BuildThrows, Crash, LeaseExpires
<1> QED
  BY <1>1, <1>2

(* Steps that touch no record and no stored recovery.                      *)
LEMMA IdleStepKeepsOrder ==
    ASSUME TypeOK, OrderInv, faults' \in Nat, faults' >= faults,
           disk'.seen = disk.seen, UNCHANGED posts,
           \/ pc' \notin {"status", "build", "analysis"}
           \/ UNCHANGED <<pc, todo>>,
           Alike(disk'), Alike(mem'), Alike(cur')
    PROVE  RedStep /\ OrderInv'
<1>1. RedStep
  BY DEF RedStep, Same
<1>2. RecordsInv'
  BY <1>1, RedStepKeepsRecords DEF OrderInv
<1>3. UnderWayInv'
  BY DEF OrderInv, UnderWayInv, Newest
<1>4. IdentityInv'
  <2>1. Identified(disk') /\ Identified(mem') /\ Identified(cur')
    BY AlikeIsIdentified DEF OrderInv
  <2> QED
    BY <2>1 DEF IdentityInv, Identified
<1> QED
  BY <1>1, <1>2, <1>3, <1>4 DEF OrderInv

LEMMA CopiesAreAlike == Alike(disk) /\ Alike(mem) /\ Alike(cur) /\ Alike(EmptyDocument)
BY DEF Alike

LEMMA AlikeOf ==
    ASSUME NEW new, NEW old \in {disk, mem, cur, EmptyDocument},
           new.seen = old.seen, new.recovery = old.recovery
    PROVE  Alike(new)
BY DEF Alike

(* What leaves the records alone leaves the recovery alone, too.           *)
LEMMA FieldKeepsRecovery ==
    ASSUME NEW doc \in Document, NEW cursor, NEW page, NEW now_ \in Nat
    PROVE  /\ [doc EXCEPT !.cursor = cursor].recovery = doc.recovery
           /\ [doc EXCEPT !.page = page].recovery = doc.recovery
           /\ [doc EXCEPT !.page = page, !.cursor = cursor].recovery = doc.recovery
           /\ [doc EXCEPT !.cursor = cursor, !.page = page].recovery = doc.recovery
           /\ WithDeliveryBackoff(doc, now_).recovery = doc.recovery
           /\ WithProviderBackoff(doc, now_).recovery = doc.recovery
           /\ WithoutBackoff(doc).recovery = doc.recovery
BY DEF Document, WithDeliveryBackoff, WithProviderBackoff, WithoutBackoff

LEMMA WorldKeepsOrder ==
    ASSUME TypeOK, OrderInv, Provider \/ Tick
    PROVE  RedStep /\ OrderInv'
<1>1. UNCHANGED observerVars
  BY DEF Provider, StartRun, EndRun, RerunRun, Tick, ciVars
<1>2. UNCHANGED <<disk, mem, cur, pc, todo, posts, faults>>
  BY <1>1 DEF observerVars
<1> QED
  BY <1>2, CopiesAreAlike, IdleStepKeepsOrder DEF TypeOK, HistoryType

(* A call that returns leaves no locals behind.                            *)
LEMMA LeaveKeepsOrder ==
    ASSUME TypeOK, OrderInv, faults' \in Nat, faults' >= faults,
           NEW state \in Waiting, Leave(state), UNCHANGED posts,
           disk'.seen = disk.seen, Alike(disk')
    PROVE  RedStep /\ OrderInv'
<1>1. /\ mem' = EmptyDocument /\ cur' = EmptyDocument
      /\ pc' \notin {"status", "build", "analysis"}
  BY DEF Leave, Waiting
<1>2. Alike(mem') /\ Alike(cur')
  BY <1>1, CopiesAreAlike
<1> QED
  BY <1>1, <1>2, IdleStepKeepsOrder

LEMMA SaveAndReturnKeepsOrder ==
    ASSUME TypeOK, OrderInv, faults' \in Nat, faults' >= faults,
           NEW doc, SaveAndReturn(doc), doc.seen = disk.seen, doc.seen = cur.seen,
           doc.recovery = cur.recovery, UNCHANGED posts
    PROVE  RedStep /\ OrderInv'
<1>1. Leave("idle") /\ disk' = doc
  BY DEF SaveAndReturn
<1>2. Alike(doc)
  BY AlikeOf
<1> QED
  BY <1>1, <1>2, LeaveKeepsOrder DEF Waiting

LEMMA BeginReconcileKeepsOrder ==
    ASSUME TypeOK, OrderInv, faults' = faults,
           NEW doc \in {disk, cur}, NEW candidates, BeginReconcile(doc, candidates),
           UNCHANGED <<disk, posts>>, mem' \in {mem, disk}
    PROVE  RedStep /\ OrderInv'
<1>1. cur' = WithIncident(doc) /\ pc' = "reconcile" /\ doc \in Document
  BY DEF BeginReconcile, TypeOK, DocumentsType
<1>2. Alike(cur')
  BY <1>1, WithIncidentType, AlikeOf
<1>3. Alike(disk') /\ Alike(mem')
  BY CopiesAreAlike
<1> QED
  BY <1>1, <1>2, <1>3, IdleStepKeepsOrder DEF TypeOK, HistoryType

LEMMA ScanningKeepsOrder ==
    ASSUME TypeOK, EffectsInv, OrderInv, NeverPrunes, Scanning
    PROVE  RedStep /\ OrderInv'
<1>1. UNCHANGED <<posts, faults>> /\ faults \in Nat
  BY DEF Scanning, PollBegin, ListHot, ListBacklog, EnterBacklog, SaveProgress,
         NextBacklogPage, ScanTruncated, ScanClean, ScanFailed, WebhookDone, history,
         TypeOK, HistoryType
<1>2. /\ disk \in Document /\ cur \in Document
      /\ pc \notin Waiting => mem.seen = disk.seen /\ cur.seen = disk.seen
  BY DEF EffectsInv, CopiesAgree, TypeOK, DocumentsType
<1>3. ASSUME PollBegin PROVE RedStep /\ OrderInv'
  <2>1. cur' = [disk EXCEPT !.cursor = ScanCursor(disk)] /\ mem' = disk /\ disk' = disk
        /\ pc' = "list"
    BY <1>3 DEF PollBegin
  <2>2. Alike(cur') /\ Alike(mem') /\ Alike(disk')
    BY <1>2, <2>1, FieldKeepsRecords, FieldKeepsRecovery, AlikeOf
  <2> QED
    BY <1>1, <2>1, <2>2, IdleStepKeepsOrder
<1>4. ASSUME ListHot \/ ListBacklog PROVE RedStep /\ OrderInv'
  BY <1>1, <1>4, BeginReconcileKeepsOrder DEF ListHot, ListBacklog
<1>5. ASSUME EnterBacklog \/ NextBacklogPage PROVE RedStep /\ OrderInv'
  BY <1>1, <1>5, CopiesAreAlike, IdleStepKeepsOrder DEF EnterBacklog, NextBacklogPage, docVars
<1>6. ASSUME SaveProgress PROVE RedStep /\ OrderInv'
  <2> DEFINE doc == [cur EXCEPT !.page = scan.page, !.cursor = scan.cursor]
  <2>1. doc.seen = disk.seen /\ doc.seen = cur.seen /\ doc.recovery = cur.recovery
    BY <1>2, <1>6, FieldKeepsRecords, FieldKeepsRecovery DEF SaveProgress, Waiting
  <2>2. disk' = doc /\ mem' = doc /\ cur' = doc /\ pc' = "list"
    BY <1>6 DEF SaveProgress, Save
  <2> HIDE DEF doc
  <2>3. Alike(doc)
    BY <2>1, AlikeOf
  <2> QED
    BY <1>1, <2>1, <2>2, <2>3, IdleStepKeepsOrder
<1>7. ASSUME ScanTruncated PROVE RedStep /\ OrderInv'
  <2> DEFINE doc == [cur EXCEPT !.page = scan.page + 1]
  <2>1. doc.seen = disk.seen /\ doc.seen = cur.seen /\ doc.recovery = cur.recovery
    BY <1>2, <1>7, FieldKeepsRecords, FieldKeepsRecovery DEF ScanTruncated, LaneDone, Waiting
  <2>2. SaveAndReturn(doc)
    BY <1>7 DEF ScanTruncated
  <2> HIDE DEF doc
  <2> QED
    BY <1>1, <2>1, <2>2, SaveAndReturnKeepsOrder
<1>8. ASSUME ScanClean PROVE RedStep /\ OrderInv'
  <2>. DEFINE moved == [cur EXCEPT !.cursor = now, !.page = 1]
  <2>1. PICK retained \in Retainable(cur) :
            SaveAndReturn(PruneSeen(WithoutBackoff(moved), retained))
    BY <1>8 DEF ScanClean
  <2>2. cur \in Document /\ cur.seen = disk.seen
    BY <1>2, <1>8 DEF ScanClean, LaneDone, Waiting
  <2>3. moved \in Document /\ moved.seen = cur.seen /\ moved.recovery = cur.recovery
    <3>1. now \in Int /\ 1 \in Nat \ {0}
      BY DEF TypeOK, CallType
    <3>2. QED
      BY <2>2, <3>1 DEF Document
  <2>. HIDE DEF moved
  <2>4. /\ WithoutBackoff(moved) \in Document
        /\ WithoutBackoff(moved).seen = cur.seen
        /\ WithoutBackoff(moved).recovery = cur.recovery
    BY <2>3, WithoutBackoffType, FieldKeepsRecovery
  <2>5. retained = Recorded(cur)
    BY <2>1 DEF Retainable, NeverPrunes, Recorded
  <2>6. /\ PruneSeen(WithoutBackoff(moved), retained).seen = cur.seen
        /\ PruneSeen(WithoutBackoff(moved), retained).recovery = cur.recovery
    BY <2>4, <2>5 DEF PruneSeen, Recorded, Document
  <2>7. QED
    BY <1>1, <2>1, <2>2, <2>6, SaveAndReturnKeepsOrder
<1>9. ASSUME ScanFailed PROVE RedStep /\ OrderInv'
  <2> DEFINE doc == [cur EXCEPT !.page = scan.page]
  <2>1. doc.seen = disk.seen /\ doc.seen = cur.seen /\ doc.recovery = cur.recovery
    BY <1>2, <1>9, FieldKeepsRecords, FieldKeepsRecovery DEF ScanFailed, Waiting
  <2>2. SaveAndReturn(doc)
    BY <1>9 DEF ScanFailed
  <2> HIDE DEF doc
  <2> QED
    BY <1>1, <2>1, <2>2, SaveAndReturnKeepsOrder
<1>10. ASSUME WebhookDone PROVE RedStep /\ OrderInv'
  BY <1>1, <1>10, CopiesAreAlike, LeaveKeepsOrder DEF WebhookDone, Waiting
<1> QED
  BY <1>3, <1>4, <1>5, <1>6, <1>7, <1>8, <1>9, <1>10 DEF Scanning

LEMMA WebhookKeepsOrder ==
    ASSUME TypeOK, EffectsInv, OrderInv, Webhook
    PROVE  RedStep /\ OrderInv'
<1>1. PICK candidate \in hooks : WebhookBegin(candidate)
  BY DEF Webhook
<1>2. /\ BeginReconcile(disk, {candidate})
      /\ mem' = disk
      /\ UNCHANGED <<disk, posts, faults>>
  BY <1>1 DEF WebhookBegin, history
<1> QED
  BY <1>2, BeginReconcileKeepsOrder

LEMMA FailingKeepsOrder ==
    ASSUME TypeOK, EffectsInv, OrderInv, ~AnalysisMayOverflow,
           faults' \in Nat, faults' >= faults,
           \/ \E unavailable \in BOOLEAN : ListFails(unavailable)
           \/ DeliveryFails \/ BuildThrows \/ Crash \/ LeaseExpires
    PROVE  RedStep /\ OrderInv'
<1>1. UNCHANGED posts
  BY DEF ListFails, DeliveryFails, BuildThrows, Crash, LeaseExpires, history
<1>2. ASSUME NEW unavailable \in BOOLEAN, ListFails(unavailable) PROVE RedStep /\ OrderInv'
  <2>. DEFINE kept == [cur EXCEPT !.page = scan.page]
  <2>1. cur \in Document /\ cur.seen = disk.seen
    BY <1>2 DEF ListFails, Waiting, EffectsInv, CopiesAgree, TypeOK, DocumentsType
  <2>2. scan.page \in Nat \ {0} /\ now \in Nat
    BY DEF TypeOK, CallType, Scan
  <2>3. kept \in Document /\ kept.seen = disk.seen /\ kept.recovery = cur.recovery
    BY <2>1, <2>2 DEF Document
  <2>4. SaveAndReturn(IF unavailable THEN WithProviderBackoff(kept, now) ELSE kept)
    BY <1>2 DEF ListFails, CatchTarget
  <2>. HIDE DEF kept
  <2>5. /\ WithProviderBackoff(kept, now).seen = disk.seen
        /\ WithProviderBackoff(kept, now).recovery = cur.recovery
    BY <2>2, <2>3, WithBackoffType, FieldKeepsRecovery
  <2> QED
    BY <1>1, <2>1, <2>3, <2>4, <2>5, SaveAndReturnKeepsOrder
<1>3. ASSUME DeliveryFails PROVE RedStep /\ OrderInv'
  <2>. DEFINE failed == WithDeliveryBackoff(cur, now)
  <2>1. cur \in Document /\ cur.seen = disk.seen /\ now \in Nat
    BY <1>3 DEF DeliveryFails, Delivering, Waiting, EffectsInv, CopiesAgree, TypeOK,
                DocumentsType, CallType
  <2>2. failed.seen = disk.seen /\ failed.recovery = cur.recovery
    BY <2>1, WithBackoffType, FieldKeepsRecovery
  <2>3. /\ disk' = failed
        /\ ReturnFailed(failed)
        /\ lane # "webhook" => mem' = failed
    BY <1>3 DEF DeliveryFails
  <2>. HIDE DEF failed
  <2>4. Alike(failed)
    BY <2>1, <2>2, AlikeOf
  <2>5. CASE lane = "webhook"
    BY <1>1, <2>2, <2>3, <2>4, <2>5, LeaveKeepsOrder DEF ReturnFailed, Waiting
  <2>6. CASE lane # "webhook"
    BY <1>1, <2>2, <2>3, <2>4, <2>6, IdleStepKeepsOrder DEF ReturnFailed
  <2> QED
    BY <2>5, <2>6
<1>4. ~BuildThrows
  BY DEF BuildThrows
<1>5. ASSUME Crash PROVE RedStep /\ OrderInv'
  BY <1>1, <1>5, CopiesAreAlike, LeaveKeepsOrder DEF Crash, Waiting
<1>6. ASSUME LeaseExpires PROVE RedStep /\ OrderInv'
  BY <1>1, <1>6, CopiesAreAlike, IdleStepKeepsOrder DEF LeaseExpires
<1> QED
  BY <1>2, <1>3, <1>4, <1>5, <1>6

-----------------------------------------------------------------------------
(* The steps of reconcileRuns *)

(* One record of the document is written, and one notification sent.       *)
LEMMA OneRecordStep ==
    ASSUME NEW e, \A d \in Event \ {e} : disk'.seen[d] = disk.seen[d],
           \A d \in RedEvents \ {e} : posts'[d] = posts[d],
           e \in RedEvents => \/ Intends(e) \/ Repeats(e) \/ Confirms(e)
                              \/ GivesUp(e) \/ Analyses(e) \/ Notes(e)
    PROVE  RedStep
<1>1. \A d \in RedEvents \ {e} : Same(d)
  BY DEF Same, Event
<1> QED
  BY <1>1 DEF RedStep

LEMMA SavedKeepsOrder ==
    ASSUME TypeOK, OrderInv, faults' \in Nat, faults' >= faults, RedStep,
           NEW doc, Save(doc), Identified(doc), UnderWayInv'
    PROVE  OrderInv'
<1>1. RecordsInv'
  BY RedStepKeepsRecords DEF OrderInv
<1>2. IdentityInv'
  <2>1. disk' = doc /\ mem' = doc /\ cur' = doc
    BY DEF Save
  <2> QED
    BY <2>1 DEF IdentityInv, Identified
<1> QED
  BY <1>1, <1>2 DEF OrderInv

(* A green notification becomes pending under the stored recovery only.    *)
LEMMA MarksAreIdentified ==
    ASSUME NEW doc \in Document, Identified(doc), NEW e \in Event, NEW state \in DeliveryState
    PROVE  /\ e \notin GreenEvents \/ state # "pending" \/ doc.recovery = e
                => Identified(MarkStatus(doc, e, state))
           /\ Identified(MarkAnalysis(doc, e, state))
           /\ Identified(MarkStale(doc, e))
<1>1. e \notin GreenEvents \/ state # "pending" \/ doc.recovery = e
        => Identified(MarkStatus(doc, e, state))
  <2> DEFINE new == MarkStatus(doc, e, state)
  <2>1. /\ new.seen[e].status = state /\ new.recovery = doc.recovery
        /\ \A d \in Event \ {e} : new.seen[d] = doc.seen[d]
    BY MarkStatusType
  <2> HIDE DEF new
  <2>2. e \notin GreenEvents \/ state # "pending" \/ doc.recovery = e => Identified(new)
    BY <2>1 DEF Identified, Event
  <2> QED
    BY <2>2 DEF new
<1>2. Identified(MarkAnalysis(doc, e, state))
  <2> DEFINE new == MarkAnalysis(doc, e, state)
  <2>1. /\ new.seen[e].status = doc.seen[e].status /\ new.recovery = doc.recovery
        /\ \A d \in Event \ {e} : new.seen[d] = doc.seen[d]
    BY MarkAnalysisType
  <2> HIDE DEF new
  <2>2. Identified(new)
    BY <2>1 DEF Identified, Event
  <2> QED
    BY <2>2 DEF new
<1>3. Identified(MarkStale(doc, e))
  <2> DEFINE new == MarkStale(doc, e)
  <2>1. /\ new.seen[e].status = "suppressed" /\ new.recovery = doc.recovery
        /\ \A d \in Event \ {e} : new.seen[d] = doc.seen[d]
    BY MarkStaleType
  <2> HIDE DEF new
  <2>2. Identified(new)
    BY <2>1 DEF Identified, Event
  <2> QED
    BY <2>2 DEF new
<1> QED
  BY <1>1, <1>2, <1>3

(* A recovery keeps its stored identity, or takes that of the success.     *)
LEMMA NamedIsIdentified ==
    ASSUME NEW c, c.event \in GreenEvents, cur \in Document, Identified(cur)
    PROVE  /\ RecoveryId(c) \in GreenEvents
           /\ [cur EXCEPT !.recovery = RecoveryId(c)].recovery = RecoveryId(c)
           /\ Identified([cur EXCEPT !.recovery = RecoveryId(c)])
<1>1. RecoveryId(c) \in GreenEvents
  BY DEF RecoveryId, Identified
<1> DEFINE named == [cur EXCEPT !.recovery = RecoveryId(c)]
<1>2. named.recovery = RecoveryId(c) /\ named.seen = cur.seen
  BY DEF Document
<1> HIDE DEF named
<1>3. \A g \in GreenEvents : cur.seen[g].status = "pending" => RecoveryId(c) = g
  BY EventAssumption DEF Identified, RecoveryId, Event
<1>4. Identified(named)
  BY <1>1, <1>2, <1>3 DEF Identified
<1> QED
  BY <1>1, <1>2, <1>4 DEF named

(* What the handling of a candidate starts from.                           *)
LEMMA OrderFacts ==
    ASSUME TypeOK, EffectsInv, OrderInv, pc \notin Waiting, NEW c \in todo
    PROVE  /\ c.event \in Event
           /\ cur \in Document /\ cur.seen = disk.seen /\ Identified(cur)
           /\ PresentOr(mem, cur) \in Document
           /\ PresentOr(mem, cur).seen = disk.seen
           /\ Identified(PresentOr(mem, cur))
<1>1. Identified(PresentOr(mem, cur)) /\ Identified(cur)
  BY DEF OrderInv, IdentityInv, PresentOr
<1> QED
  BY <1>1, HandlingFacts

LEMMA SuppressingKeepsOrder ==
    ASSUME TypeOK, EffectsInv, OrderInv, NEW c \in todo,
           \/ SkipRun(c) \/ SuppressStale(c) \/ SuppressQuiet(c)
           \/ SuppressSuccess(c) \/ StopForBackoff(c)
    PROVE  RedStep /\ OrderInv'
<1>. DEFINE e == c.event
<1>1. /\ pc = "reconcile" /\ pc \notin Waiting /\ UNCHANGED <<posts, faults>>
      /\ faults \in Nat
  BY DEF SkipRun, SuppressStale, SuppressQuiet, SuppressSuccess, StopForBackoff,
         Current, Waiting, history, TypeOK, HistoryType
<1>2. /\ e \in Event /\ "suppressed" \in DeliveryState
      /\ cur \in Document /\ cur.seen = disk.seen /\ Identified(cur)
      /\ PresentOr(mem, cur) \in Document
      /\ PresentOr(mem, cur).seen = disk.seen
      /\ Identified(PresentOr(mem, cur))
  BY <1>1, OrderFacts DEF DeliveryState
<1>3. ASSUME SkipRun(c) PROVE RedStep /\ OrderInv'
  BY <1>1, <1>3, CopiesAreAlike, IdleStepKeepsOrder DEF SkipRun, docVars
<1>4. ASSUME SuppressStale(c) PROVE RedStep /\ OrderInv'
  <2> DEFINE doc == MarkStale(PresentOr(mem, cur), e)
  <2>1. /\ doc.seen[e].status = "suppressed"
        /\ doc.seen[e].attempted = disk.seen[e].attempted
        /\ \A d \in Event \ {e} : doc.seen[d] = disk.seen[d]
    BY <1>2, MarkStaleType
  <2>2. e \in RedEvents => doc.seen[e].analysis = "suppressed"
    BY <1>2 DEF MarkStale, MarkSeen, Document, SeenRecord, IsAnalysisConclusion
  <2>3. Identified(doc)
    BY <1>2, MarksAreIdentified
  <2>4. Save(doc) /\ pc' = pc /\ ~Settled(c)
    BY <1>4 DEF SuppressStale, Current
  <2>5. e \in RedEvents => ~disk.seen[e].attempted
    BY <1>2, <2>4, EventAssumption DEF Settled, IsAnalysisConclusion, IsAnalysed,
       IsSettledDelivery, OrderInv, RecordsInv
  <2>6. e \in RedEvents => disk.seen[e].attempted \in BOOLEAN
    BY <1>2 DEF TypeOK, DocumentsType, Document, SeenRecord
  <2> HIDE DEF doc
  <2>7. disk' = doc
    BY <2>4 DEF Save
  <2>8. e \in RedEvents => GivesUp(e)
    BY <1>1, <2>1, <2>2, <2>5, <2>6, <2>7 DEF GivesUp, Becomes
  <2>9. RedStep
    BY <1>1, <2>1, <2>7, <2>8, OneRecordStep
  <2>10. UnderWayInv'
    BY <1>1, <2>4 DEF UnderWayInv
  <2> QED
    BY <1>1, <2>3, <2>4, <2>9, <2>10, SavedKeepsOrder
<1>5. ASSUME Save(MarkStatus(cur, e, "suppressed")), pc' = pc, e \notin RedEvents
      PROVE  RedStep /\ OrderInv'
  <2> DEFINE doc == MarkStatus(cur, e, "suppressed")
  <2>1. \A d \in Event \ {e} : doc.seen[d] = disk.seen[d]
    BY <1>2, MarkStatusType
  <2>2. Identified(doc)
    BY <1>2, MarksAreIdentified
  <2> HIDE DEF doc
  <2>3. Save(doc) /\ disk' = doc
    BY <1>5 DEF Save, doc
  <2>4. RedStep
    BY <1>1, <1>5, <2>1, <2>3, OneRecordStep
  <2>5. UnderWayInv'
    BY <1>1, <1>5 DEF UnderWayInv
  <2> QED
    BY <1>1, <2>2, <2>3, <2>4, <2>5, SavedKeepsOrder
<1>6. ASSUME SuppressQuiet(c) PROVE RedStep /\ OrderInv'
  BY <1>5, <1>6, EventAssumption DEF SuppressQuiet
<1>7. ASSUME SuppressSuccess(c) PROVE RedStep /\ OrderInv'
  <2>1. CASE cur.seen[e] = NoRecord
    BY <1>5, <1>7, <2>1, EventAssumption DEF SuppressSuccess
  <2>2. CASE cur.seen[e] # NoRecord
    <3>1. UNCHANGED docVars /\ pc' = pc
      BY <1>7, <2>2 DEF SuppressSuccess
    <3> QED
      BY <1>1, <3>1, CopiesAreAlike, IdleStepKeepsOrder DEF docVars
  <2> QED
    BY <2>1, <2>2
<1>8. ASSUME StopForBackoff(c) PROVE RedStep /\ OrderInv'
  <2>. DEFINE doc == IF e \in GreenEvents
                     THEN [cur EXCEPT !.recovery = RecoveryId(c)] ELSE cur
  <2>1. doc.seen = disk.seen /\ Identified(doc)
    BY <1>2, FieldKeepsRecords, NamedIsIdentified
  <2>2. /\ ReturnFailed(doc)
        /\ lane # "webhook" => mem' = mem
        /\ disk' = disk
    BY <1>8 DEF StopForBackoff
  <2>. HIDE DEF doc
  <2>3. CASE lane = "webhook"
    BY <1>1, <2>2, <2>3, CopiesAreAlike, LeaveKeepsOrder DEF ReturnFailed, Waiting
  <2>4. CASE lane # "webhook"
    <3>1. RedStep
      BY <1>1, <2>2 DEF RedStep, Same
    <3>2. RecordsInv'
      BY <1>1, <3>1, RedStepKeepsRecords DEF OrderInv
    <3>3. UnderWayInv'
      BY <2>2, <2>4 DEF UnderWayInv, ReturnFailed
    <3>4. cur' = doc /\ mem' = mem /\ disk' = disk
      BY <2>2, <2>4 DEF ReturnFailed
    <3>5. IdentityInv'
      BY <2>1, <3>4 DEF OrderInv, IdentityInv, Identified
    <3> QED
      BY <3>1, <3>2, <3>3, <3>5 DEF OrderInv
  <2> QED
    BY <2>3, <2>4
<1> QED
  BY <1>3, <1>4, <1>6, <1>7, <1>8

(* The candidate under way stays the newest of its page.                   *)
LEMMA UnderWayIsNewest ==
    ASSUME TypeOK, OneCandidatePerRun, NEW c \in todo, Newest(c), todo' = todo,
           pc' = "status" => c.event \in RedEvents /\ disk'.seen[c.event].status = "pending",
           pc' \in {"build", "analysis"}
              => c.event \in RedEvents /\ disk'.seen[c.event].attempted
    PROVE  UnderWayInv'
<1>1. ASSUME NEW d \in todo', Newest(d)' PROVE d = c
  <2>1. d \in todo /\ Newest(d)
    BY <1>1 DEF Newest
  <2> QED
    BY <2>1, NewestIsUnique
<1> QED
  BY <1>1 DEF UnderWayInv

LEMMA StartingKeepsOrder ==
    ASSUME TypeOK, EffectsInv, OrderInv, NEW c \in todo,
           StartStatus(c) \/ StartAnalysis(c) \/ BuildAnalysis(c)
    PROVE  RedStep /\ OrderInv'
<1>. DEFINE e == c.event
<1>1. /\ pc \notin Waiting /\ Newest(c) /\ todo' = todo
      /\ UNCHANGED <<posts, faults>> /\ faults \in Nat
  BY DEF StartStatus, StartAnalysis, BuildAnalysis, Current, Waiting, history, pageVars,
     TypeOK, HistoryType
<1>2. /\ e \in Event /\ "pending" \in DeliveryState
      /\ cur \in Document /\ cur.seen = disk.seen /\ Identified(cur)
      /\ PresentOr(mem, cur) \in Document
      /\ PresentOr(mem, cur).seen = disk.seen
      /\ Identified(PresentOr(mem, cur))
      /\ OneCandidatePerRun
  BY <1>1, OrderFacts DEF DeliveryState, EffectsInv
<1>3. ASSUME StartStatus(c) PROVE RedStep /\ OrderInv'
  <2> DEFINE doc == MarkStatus(PresentOr(mem, cur), e, "pending")
  <2>1. /\ doc.seen[e].status = "pending"
        /\ doc.seen[e].attempted = disk.seen[e].attempted
        /\ \A d \in Event \ {e} : doc.seen[d] = disk.seen[d]
    BY <1>2, MarkStatusType
  <2>2. /\ Save(doc) /\ e \in RedEvents /\ pc' = "status"
        /\ ~IsSettledDelivery(disk.seen[e].status)
    BY <1>2, <1>3 DEF StartStatus, IsAnalysisConclusion
  <2>3. Identified(doc)
    BY <1>2, <2>2, EventAssumption, MarksAreIdentified
  <2> HIDE DEF doc
  <2>4. disk' = doc
    BY <2>2 DEF Save
  <2>5. RedStep
    <3>1. Intends(e)
      BY <1>1, <2>1, <2>2, <2>4 DEF Intends, Becomes
    <3> QED
      BY <1>1, <2>1, <2>4, <3>1, OneRecordStep
  <2>6. UnderWayInv'
    BY <1>1, <1>2, <2>1, <2>2, <2>4, UnderWayIsNewest
  <2> QED
    BY <1>1, <2>2, <2>3, <2>5, <2>6, SavedKeepsOrder
<1>4. ASSUME StartAnalysis(c) PROVE RedStep /\ OrderInv'
  <2>. DEFINE fallback == [cur EXCEPT !.incident = "active"]
              doc == MarkAnalysis(PresentOr(mem, fallback), e, "pending")
  <2>1. fallback \in Document /\ fallback.seen = disk.seen /\ Identified(fallback)
    BY <1>2 DEF Document, Identified
  <2>. HIDE DEF fallback
  <2>2. /\ PresentOr(mem, fallback) \in Document
        /\ PresentOr(mem, fallback).seen = disk.seen
        /\ Identified(PresentOr(mem, fallback))
    <3>1. PresentOr(mem, fallback) \in Document /\ PresentOr(mem, fallback).seen = disk.seen
      BY <1>1, <1>2, <2>1, WorkingCopyAgrees DEF EffectsInv
    <3>2. Identified(PresentOr(mem, fallback))
      BY <2>1 DEF PresentOr, OrderInv, IdentityInv
    <3> QED
      BY <3>1, <3>2
  <2>3. /\ doc.seen[e].attempted /\ doc.seen[e].status = disk.seen[e].status
        /\ \A d \in Event \ {e} : doc.seen[d] = disk.seen[d]
        /\ doc \in Document
    BY <1>2, <2>2, MarkAnalysisType
  <2>4. Identified(doc)
    BY <1>2, <2>2, MarksAreIdentified
  <2>5. /\ Save(doc) /\ e \in RedEvents /\ pc' = "build" /\ ~Settled(c)
        /\ IsSettledDelivery(disk.seen[e].status)
    BY <1>2, <1>4 DEF StartAnalysis, Current, IsAnalysisConclusion, fallback
  <2>. HIDE DEF doc
  <2>6. ~IsAnalysed(disk.seen[e])
    BY <1>2, <2>5, EventAssumption DEF Settled, IsAnalysisConclusion
  <2>7. ~disk.seen[e].attempted /\ disk.seen[e].status = "delivered"
    BY <2>5, <2>6 DEF IsSettledDelivery, OrderInv, RecordsInv, IsAnalysed
  <2>8. disk' = doc
    BY <2>5 DEF Save
  <2>9. doc.seen[e].attempted = TRUE
    BY <1>2, <2>3 DEF Document, SeenRecord
  <2>10. RedStep
    <3>1. Analyses(e)
      BY <1>1, <2>3, <2>7, <2>8, <2>9 DEF Analyses, Becomes
    <3> QED
      BY <1>1, <2>3, <2>8, <3>1, OneRecordStep
  <2>11. UnderWayInv'
    BY <1>1, <1>2, <2>3, <2>5, <2>8, UnderWayIsNewest
  <2> QED
    BY <1>1, <2>4, <2>5, <2>10, <2>11, SavedKeepsOrder
<1>5. ASSUME BuildAnalysis(c) PROVE RedStep /\ OrderInv'
  <2> DEFINE doc == MarkAnalysis(PresentOr(mem, cur), e, "pending")
  <2>1. /\ doc.seen[e].attempted /\ doc.seen[e].status = disk.seen[e].status
        /\ \A d \in Event \ {e} : doc.seen[d] = disk.seen[d]
        /\ doc \in Document
    BY <1>2, MarkAnalysisType
  <2>2. Identified(doc)
    BY <1>2, MarksAreIdentified
  <2>3. Save(doc) /\ pc = "build" /\ pc' = "analysis"
    BY <1>5 DEF BuildAnalysis
  <2>. HIDE DEF doc
  <2>4. e \in RedEvents /\ disk.seen[e].attempted
    BY <1>1, <2>3 DEF OrderInv, UnderWayInv
  <2>5. disk' = doc
    BY <2>3 DEF Save
  <2>6. doc.seen[e].attempted = TRUE
    BY <1>2, <2>1 DEF Document, SeenRecord
  <2>7. RedStep
    <3>1. Notes(e)
      BY <1>1, <2>1, <2>4, <2>5, <2>6 DEF Notes, Becomes
    <3> QED
      BY <1>1, <2>1, <2>5, <3>1, OneRecordStep
  <2>8. UnderWayInv'
    BY <1>1, <1>2, <2>1, <2>3, <2>4, <2>5, UnderWayIsNewest
  <2> QED
    BY <1>1, <2>2, <2>3, <2>7, <2>8, SavedKeepsOrder
<1> QED
  BY <1>3, <1>4, <1>5

LEMMA RecoveringKeepsOrder ==
    ASSUME TypeOK, EffectsInv, OrderInv, NEW c \in todo, StartRecovery(c)
    PROVE  RedStep /\ OrderInv'
<1> DEFINE id == RecoveryId(c)
           named == [cur EXCEPT !.recovery = id]
           pending == MarkStatus(named, id, "pending")
           cleared == [cur EXCEPT !.recovery = NoEvent, !.incident = "clear"]
<1>1. /\ pc \notin Waiting /\ UNCHANGED <<posts, faults>> /\ faults \in Nat
      /\ c.event \in GreenEvents
      /\ Save(IF RecoveryDelivered THEN cleared ELSE pending)
      /\ pc' \in {"reconcile", "recovery"}
  BY DEF StartRecovery, Current, Waiting, history, TypeOK, HistoryType
<1>2. cur \in Document /\ cur.seen = disk.seen /\ Identified(cur)
  BY <1>1, OrderFacts
<1>3. UnderWayInv'
  BY <1>1 DEF UnderWayInv
<1>4. CASE RecoveryDelivered
  <2>1. cleared.seen = disk.seen /\ cleared.recovery = NoEvent
    BY <1>2 DEF Document
  <2>2. Save(cleared)
    BY <1>1, <1>4
  <2> HIDE DEF cleared
  <2>3. \A g \in GreenEvents : disk.seen[g].status # "pending"
    BY <1>2, <1>4 DEF RecoveryDelivered, Identified
  <2>4. Identified(cleared)
    BY <2>1, <2>3 DEF Identified
  <2>5. disk' = cleared
    BY <2>2 DEF Save
  <2>6. RedStep
    BY <1>1, <2>1, <2>5 DEF RedStep, Same
  <2> QED
    BY <1>1, <1>3, <2>2, <2>4, <2>6, SavedKeepsOrder
<1>5. CASE ~RecoveryDelivered
  <2>1. /\ id \in GreenEvents /\ named.recovery = id /\ Identified(named)
        /\ named \in Document /\ named.seen = disk.seen
    <3>1. id \in GreenEvents /\ named.recovery = id /\ Identified(named)
      BY <1>1, <1>2, NamedIsIdentified
    <3>2. named \in Document /\ named.seen = disk.seen
      BY <1>2, <3>1 DEF Document, Event
    <3> QED
      BY <3>1, <3>2
  <2> HIDE DEF named
  <2>2. "pending" \in DeliveryState /\ id \in Event /\ id \notin RedEvents
    BY <2>1, EventAssumption DEF DeliveryState, Event
  <2>3. \A d \in Event \ {id} : pending.seen[d] = disk.seen[d]
    BY <2>1, <2>2, MarkStatusType
  <2>4. Identified(pending)
    BY <2>1, <2>2, MarksAreIdentified
  <2>5. Save(pending)
    BY <1>1, <1>5 DEF named
  <2> HIDE DEF pending
  <2>6. disk' = pending
    BY <2>5 DEF Save
  <2> HIDE DEF id
  <2>7. RedStep
    BY <1>1, <2>2, <2>3, <2>6, OneRecordStep
  <2> QED
    BY <1>1, <1>3, <2>4, <2>5, <2>7, SavedKeepsOrder
<1> QED
  BY <1>4, <1>5

(* What the sink receives of the failing events.                           *)
LEMMA ReceivedReds ==
    ASSUME TypeOK, EffectsInv, OrderInv, pc \in Delivering, NEW c \in todo, Newest(c), Receive(c)
    PROVE  /\ pc = "status" => /\ posts'[c.event] = posts[c.event] + 1
                               /\ \A d \in RedEvents \ {c.event} : posts'[d] = posts[d]
           /\ pc # "status" => \A d \in RedEvents : posts'[d] = posts[d]
<1>1. posts \in [Event -> Nat] /\ c.event \in Event
  BY CandidateFacts DEF TypeOK, HistoryType
<1>2. CASE pc = "status"
  BY <1>1, <1>2 DEF Receive, Subject, Event
<1>3. CASE pc = "recovery"
  <2>1. cur.recovery \in GreenEvents
    BY <1>3 DEF TypeOK, CallType, OrderInv, IdentityInv, Identified
  <2>2. posts' = [posts EXCEPT ![cur.recovery] = @ + 1]
    BY <1>3 DEF Receive, Subject
  <2> QED
    BY <1>1, <1>3, <2>1, <2>2, EventAssumption DEF Event
<1>4. CASE pc = "analysis"
  BY <1>4 DEF Receive
<1> QED
  BY <1>2, <1>3, <1>4 DEF Delivering

LEMMA DeliveringKeepsOrder ==
    ASSUME TypeOK, EffectsInv, OrderInv, NEW c \in todo, faults' \in Nat, faults' >= faults,
           SinkAccepts(c) \/ SinkReceives(c)
    PROVE  RedStep /\ OrderInv'
<1>. DEFINE e == c.event
<1>1. pc \in Delivering /\ pc \notin Waiting /\ Newest(c) /\ Receive(c)
  BY DEF SinkAccepts, SinkReceives, Delivering, Waiting
<1>2. /\ e \in Event /\ "delivered" \in DeliveryState
      /\ cur \in Document /\ cur.seen = disk.seen /\ Identified(cur)
      /\ PresentOr(mem, cur) \in Document
      /\ PresentOr(mem, cur).seen = disk.seen
      /\ Identified(PresentOr(mem, cur))
  BY <1>1, OrderFacts DEF DeliveryState
<1>3. /\ pc = "status" => e \in RedEvents /\ disk.seen[e].status = "pending"
      /\ pc = "analysis" => e \in RedEvents /\ disk.seen[e].attempted
  BY <1>1 DEF OrderInv, UnderWayInv
<1>4. /\ pc = "status" => /\ posts'[e] = posts[e] + 1
                          /\ \A d \in RedEvents \ {e} : posts'[d] = posts[d]
      /\ pc # "status" => \A d \in RedEvents : posts'[d] = posts[d]
  BY <1>1, ReceivedReds
<1>5. ASSUME SinkReceives(c) PROVE RedStep /\ OrderInv'
  <2>1. UNCHANGED <<disk, mem, cur, pc, todo>> /\ faults' = faults + 1
    BY <1>5 DEF SinkReceives, docVars, pageVars
  <2>2. RedStep
    <3>1. CASE pc = "status"
      <4>1. Repeats(e)
        BY <1>3, <1>4, <2>1, <3>1 DEF Repeats
      <4> QED
        BY <1>4, <2>1, <3>1, <4>1, OneRecordStep
    <3>2. CASE pc # "status"
      BY <1>4, <2>1, <3>2 DEF RedStep, Same
    <3> QED
      BY <3>1, <3>2
  <2>3. RecordsInv'
    BY <2>2, RedStepKeepsRecords DEF OrderInv
  <2>4. UnderWayInv' /\ IdentityInv'
    BY <2>1 DEF OrderInv, UnderWayInv, IdentityInv, Newest, Identified
  <2> QED
    BY <2>2, <2>3, <2>4 DEF OrderInv
<1>6. ASSUME SinkAccepts(c) PROVE RedStep /\ OrderInv'
  <2>1. Save(Acknowledged(c)) /\ pc' = "reconcile" /\ disk' = Acknowledged(c)
    BY <1>6 DEF SinkAccepts, Save
  <2>2. UnderWayInv'
    BY <2>1 DEF UnderWayInv
  <2>3. CASE pc = "status"
    <3> DEFINE doc == MarkStatus(PresentOr(mem, cur), e, "delivered")
    <3>1. /\ doc \in Document /\ doc.seen[e].status = "delivered"
          /\ doc.seen[e].attempted = disk.seen[e].attempted
          /\ \A d \in Event \ {e} : doc.seen[d] = disk.seen[d]
      BY <1>2, MarkStatusType
    <3>2. Identified(doc)
      BY <1>2, MarksAreIdentified
    <3>3. Acknowledged(c) = [doc EXCEPT !.incident = "active"]
      BY <2>3 DEF Acknowledged
    <3> HIDE DEF doc
    <3>4. Acknowledged(c).seen = doc.seen /\ Acknowledged(c).recovery = doc.recovery
      BY <3>1, <3>3 DEF Document
    <3>5. Identified(Acknowledged(c))
      BY <3>2, <3>4 DEF Identified
    <3>6. Confirms(e)
      BY <1>3, <1>4, <2>1, <2>3, <3>1, <3>4 DEF Confirms, Becomes
    <3>7. RedStep
      BY <1>4, <2>1, <2>3, <3>1, <3>4, <3>6, OneRecordStep
    <3> QED
      BY <2>1, <2>2, <3>5, <3>7, SavedKeepsOrder
  <2>4. CASE pc = "recovery"
    <3> DEFINE id == cur.recovery
               cleared == [cur EXCEPT !.recovery = NoEvent, !.incident = "clear"]
               doc == MarkStatus(cleared, id, "delivered")
    <3>1. id \in GreenEvents /\ id \in Event /\ id \notin RedEvents
      BY <1>2, <2>4, EventAssumption DEF TypeOK, CallType, Identified, Event
    <3>2. /\ cleared \in Document /\ cleared.seen = disk.seen /\ cleared.recovery = NoEvent
      BY <1>2 DEF Document
    <3>3. Acknowledged(c) = doc
      BY <2>4 DEF Acknowledged
    <3> HIDE DEF cleared
    <3>4. /\ doc.seen[id].status = "delivered" /\ doc.recovery = NoEvent
          /\ \A d \in Event \ {id} : doc.seen[d] = disk.seen[d]
      BY <1>2, <3>1, <3>2, MarkStatusType
    <3> HIDE DEF doc
    <3>5. \A g \in GreenEvents : doc.seen[g].status # "pending"
      BY <1>2, <3>1, <3>4 DEF Identified, Event
    <3>6. Identified(doc)
      BY <3>4, <3>5 DEF Identified
    <3> HIDE DEF id
    <3>7. RedStep
      BY <1>4, <2>1, <2>4, <3>1, <3>3, <3>4, OneRecordStep
    <3> QED
      BY <2>1, <2>2, <3>3, <3>6, <3>7, SavedKeepsOrder
  <2>5. CASE pc = "analysis"
    <3> DEFINE doc == MarkAnalysis(PresentOr(mem, cur), e, "delivered")
    <3>1. /\ doc.seen[e].attempted /\ doc.seen[e].status = disk.seen[e].status
          /\ \A d \in Event \ {e} : doc.seen[d] = disk.seen[d]
          /\ doc \in Document
      BY <1>2, MarkAnalysisType
    <3>2. Identified(doc)
      BY <1>2, MarksAreIdentified
    <3>3. Acknowledged(c) = doc
      BY <2>5 DEF Acknowledged
    <3> HIDE DEF doc
    <3>4. doc.seen[e].attempted = TRUE
      BY <1>2, <3>1 DEF Document, SeenRecord
    <3>5. Notes(e)
      BY <1>3, <1>4, <2>1, <2>5, <3>1, <3>3, <3>4 DEF Notes, Becomes
    <3>6. RedStep
      BY <1>4, <2>1, <2>5, <3>1, <3>3, <3>5, OneRecordStep
    <3> QED
      BY <2>1, <2>2, <3>2, <3>3, <3>6, SavedKeepsOrder
  <2> QED
    BY <1>1, <2>3, <2>4, <2>5 DEF Delivering
<1> QED
  BY <1>5, <1>6

(* Every step of the observer is one of those ways, for one failing event, *)
(* or touches no failing event at all.                                     *)
LEMMA StepKeepsOrder ==
    ASSUME ~AnalysisMayOverflow, NeverPrunes, TypeOK, EffectsInv, OrderInv, [Next]_vars
    PROVE  RedStep /\ OrderInv'
<1>1. CASE UNCHANGED vars
  <2>1. UNCHANGED <<disk, mem, cur, pc, todo, posts, faults>> /\ faults \in Nat
    BY <1>1 DEF vars, TypeOK, HistoryType
  <2> QED
    BY <2>1, CopiesAreAlike, IdleStepKeepsOrder
<1>2. CASE Next
  <2>1. faults' \in Nat /\ faults' >= faults
    BY <1>2, FaultsGrow
  <2>2. CASE Provider \/ Tick
    BY <2>2, WorldKeepsOrder
  <2>3. CASE Scanning
    BY <2>3, ScanningKeepsOrder
  <2>4. CASE Webhook
    BY <2>4, WebhookKeepsOrder
  <2>5. CASE Reconciling
    BY <2>1, <2>5, SuppressingKeepsOrder, StartingKeepsOrder, RecoveringKeepsOrder,
       DeliveringKeepsOrder DEF Reconciling
  <2>6. CASE Faulty \/ LeaseExpires
    BY <2>1, <2>6, DeliveringKeepsOrder, FailingKeepsOrder DEF Faulty
  <2> QED
    BY <1>2, <2>2, <2>3, <2>4, <2>5, <2>6 DEF Next
<1> QED
  BY <1>1, <1>2

(* The records tell the order of the effects: the inductive invariant of   *)
(* the theorems below (runtime.ts 413-600).                                *)
THEOREM OrderInvariant ==
    ASSUME ~AnalysisMayOverflow, NeverPrunes
    PROVE  Spec => []OrderInv
<1>1. TypeOK /\ EffectsInv /\ OrderInv /\ [Next]_vars => OrderInv'
  BY StepKeepsOrder
<1> QED
  BY OrderInvInit, <1>1, TypeCorrect, EffectsInvariant, PTL DEF Spec

(* Whatever polls, webhooks, replays and crashes do, the sink gets the     *)
(* same red notification again only after a fault (runtime.ts 443-463).    *)
THEOREM RedIsRepeatedAfterFaults ==
    ASSUME ~AnalysisMayOverflow, NeverPrunes
    PROVE  Spec => []RepeatedRedNeedsFault
<1>1. TypeOK /\ OrderInv => RepeatedRedNeedsFault
  <2>1. TypeOK => \A e \in RedEvents : posts[e] \in Nat /\ faults \in Nat
    BY DEF TypeOK, HistoryType, Event
  <2> QED
    BY <2>1 DEF OrderInv, RecordsInv, RepeatedRedNeedsFault
<1> QED
  BY <1>1, OrderInvariant, TypeCorrect, PTL

(* An analysis starts only of a failure the sink was told of, also after a *)
(* restart between the two (runtime.ts 545-577).                           *)
THEOREM RedComesBeforeAnalysis ==
    ASSUME ~AnalysisMayOverflow, NeverPrunes
    PROVE  Spec => []RedBeforeAnalysis
<1>1. EffectsInv /\ OrderInv => RedBeforeAnalysis
  BY DEF EffectsInv, EffectsAreRecorded, OrderInv, RecordsInv, RedBeforeAnalysis
<1> QED
  BY <1>1, OrderInvariant, EffectsInvariant, PTL

(* A failed recovery is retried under its own identity, also when another  *)
(* success comes first after the backoff or the restart (runtime.ts        *)
(* 489-516).                                                               *)
THEOREM RecoveriesHaveOneIdentity ==
    ASSUME ~AnalysisMayOverflow, NeverPrunes
    PROVE  Spec => []OneRecoveryIdentity
<1>1. OrderInv => OneRecoveryIdentity
  BY DEF OrderInv, IdentityInv, Identified, OneRecoveryIdentity
<1> QED
  BY <1>1, OrderInvariant, PTL

(* No step takes back an outcome: a settled red notification stays         *)
(* settled, an attempted analysis attempted (runtime.ts 302-306,           *)
(* 1008-1018).                                                             *)
THEOREM OutcomesAreFinal ==
    ASSUME ~AnalysisMayOverflow, NeverPrunes
    PROVE  Spec => OutcomeIsFinal
<1> DEFINE Final == \A e \in RedEvents :
                       /\ IsSettledDelivery(disk.seen[e].status)
                             => IsSettledDelivery(disk'.seen[e].status)
                       /\ disk.seen[e].attempted => disk'.seen[e].attempted
<1>1. OrderInv /\ RedStep => Final
  BY DEF RedStep, Same, Intends, Repeats, Confirms, GivesUp, Analyses, Notes, Becomes,
         IsSettledDelivery, OrderInv, RecordsInv
<1>2. TypeOK /\ EffectsInv /\ OrderInv /\ [Next]_vars => [Final]_vars
  BY <1>1, StepKeepsOrder
<1>3. Spec => [][Final]_vars
  <2> HIDE DEF Final
  <2> QED
    BY <1>2, OrderInvariant, EffectsInvariant, TypeCorrect, PTL DEF Spec
<1> QED
  BY <1>3 DEF OutcomeIsFinal

-----------------------------------------------------------------------------
(* The ledger of promises *)

Record == [e \in RedEvents |-> disk.seen[e].status]

Told == {e \in RedEvents : posts[e] > 0}

Attempted == {e \in RedEvents : disk.seen[e].attempted}

(* What the ledger shows of one failing event, before and after a step.    *)
LEMMA LedgerOf ==
    ASSUME NEW e \in RedEvents, \A d \in RedEvents \ {e} : Same(d)
    PROVE  /\ Record' = [Record EXCEPT ![e] = disk'.seen[e].status]
           /\ posts'[e] > 0 => Told' = Told \cup {e}
           /\ posts'[e] = posts[e] => Told' = Told
           /\ disk'.seen[e].attempted => Attempted' = Attempted \cup {e}
           /\ disk'.seen[e].attempted = disk.seen[e].attempted => Attempted' = Attempted
BY DEF Record, Told, Attempted, Same

LEMMA RedStepIsPromised ==
    ASSUME TypeOK, RedStep
    PROVE  [Ledger!LedgerNext]_(Ledger!ledgerVars)
<1>1. CASE \A e \in RedEvents : Same(e)
  <2>1. Record' = Record /\ Told' = Told /\ Attempted' = Attempted
    BY <1>1 DEF Record, Told, Attempted, Same
  <2> QED
    BY <2>1 DEF Ledger!ledgerVars, Record, Told, Attempted
<1>2. ASSUME NEW e \in RedEvents, \A d \in RedEvents \ {e} : Same(d),
             Intends(e) \/ Repeats(e) \/ Confirms(e) \/ GivesUp(e) \/ Analyses(e) \/ Notes(e)
      PROVE  [Ledger!LedgerNext]_(Ledger!ledgerVars)
  <2>1. /\ Record' = [Record EXCEPT ![e] = disk'.seen[e].status]
        /\ posts'[e] > 0 => Told' = Told \cup {e}
        /\ posts'[e] = posts[e] => Told' = Told
        /\ disk'.seen[e].attempted => Attempted' = Attempted \cup {e}
        /\ disk'.seen[e].attempted = disk.seen[e].attempted => Attempted' = Attempted
    BY <1>2, LedgerOf
  <2>2. /\ Record[e] = disk.seen[e].status /\ Record = [Record EXCEPT ![e] = disk.seen[e].status]
        /\ e \in Attempted <=> disk.seen[e].attempted
    BY DEF Record, Attempted
  <2>3. /\ posts[e] \in Nat /\ disk.seen[e].attempted \in BOOLEAN
        /\ disk.seen[e].status \in DeliveryState
    BY DEF TypeOK, HistoryType, DocumentsType, Document, SeenRecord, Event
  <2>4. CASE Intends(e)
    <3>1. Told' = Told /\ Attempted' = Attempted
      BY <2>1, <2>4 DEF Intends, Becomes
    <3>2. CASE disk.seen[e].status = "none"
      <4>1. Ledger!Intend(e)
        BY <2>1, <2>2, <2>4, <3>1, <3>2
        DEF Ledger!Intend, Intends, Becomes, Record, Told, Attempted
      <4> QED
        BY <4>1 DEF Ledger!LedgerNext
    <3>3. CASE disk.seen[e].status = "pending"
      <4>1. Record' = Record
        BY <2>1, <2>2, <2>4, <3>3 DEF Intends, Becomes
      <4> QED
        BY <3>1, <4>1 DEF Ledger!ledgerVars, Record, Told, Attempted
    <3> QED
      BY <2>3, <2>4, <3>2, <3>3 DEF Intends, IsSettledDelivery, DeliveryState
  <2>5. CASE Repeats(e)
    <3>1. posts'[e] > 0 /\ Record' = Record /\ Attempted' = Attempted
      BY <2>1, <2>2, <2>3, <2>5 DEF Repeats
    <3>2. Ledger!Tell(e)
      BY <2>1, <2>2, <2>5, <3>1 DEF Ledger!Tell, Repeats, Record, Told, Attempted
    <3> QED
      BY <3>2 DEF Ledger!LedgerNext
  <2>6. CASE Confirms(e)
    <3>1. posts'[e] > 0 /\ Attempted' = Attempted
      BY <2>1, <2>3, <2>6 DEF Confirms, Becomes
    <3>2. Ledger!Confirm(e)
      BY <2>1, <2>2, <2>6, <3>1 DEF Ledger!Confirm, Confirms, Becomes, Record, Told, Attempted
    <3> QED
      BY <3>2 DEF Ledger!LedgerNext
  <2>7. CASE GivesUp(e)
    <3>1. Told' = Told /\ Attempted' = Attempted /\ e \notin Attempted
      BY <2>1, <2>2, <2>3, <2>7 DEF GivesUp, Becomes
    <3>2. CASE disk.seen[e].status = "suppressed"
      <4>1. Record' = Record
        BY <2>1, <2>2, <2>7, <3>2 DEF GivesUp, Becomes
      <4> QED
        BY <3>1, <4>1 DEF Ledger!ledgerVars, Record, Told, Attempted
    <3>3. CASE disk.seen[e].status # "suppressed"
      <4>1. Ledger!GiveUp(e)
        BY <2>1, <2>2, <2>7, <3>1, <3>3
        DEF Ledger!GiveUp, GivesUp, Becomes, Record, Told, Attempted
      <4> QED
        BY <4>1 DEF Ledger!LedgerNext
    <3> QED
      BY <3>2, <3>3
  <2>8. CASE Analyses(e)
    <3>1. /\ Told' = Told /\ Record' = Record /\ Attempted' = Attempted \cup {e}
          /\ e \notin Attempted
      BY <2>1, <2>2, <2>8 DEF Analyses, Becomes
    <3>2. Ledger!Analyse(e)
      BY <2>2, <2>8, <3>1 DEF Ledger!Analyse, Analyses, Record, Told, Attempted
    <3> QED
      BY <3>2 DEF Ledger!LedgerNext
  <2>9. CASE Notes(e)
    <3>1. Told' = Told /\ Record' = Record /\ Attempted' = Attempted
      BY <2>1, <2>2, <2>3, <2>9 DEF Notes, Becomes
    <3> QED
      BY <3>1 DEF Ledger!ledgerVars, Record, Told, Attempted
  <2> QED
    BY <1>2, <2>4, <2>5, <2>6, <2>7, <2>8, <2>9
<1> QED
  BY <1>1, <1>2 DEF RedStep

LEMMA LedgerAtFirst == Init => Ledger!LedgerInit
BY DEF Init, Ledger!LedgerInit, EmptyDocument, NoRecord, Event

(* Whatever the observer does, with every crash, repeated listing and lost *)
(* answer, is a behaviour of the ledger: of each failing event an          *)
(* intention is recorded first, the sink is told under it, the outcome is  *)
(* final, and one analysis at most follows a delivered notification        *)
(* (runtime.ts 413-600).                                                   *)
THEOREM ObserverImplementsLedger ==
    ASSUME ~AnalysisMayOverflow, NeverPrunes
    PROVE  Spec => ImplementsLedger
<1>1. TypeOK /\ EffectsInv /\ OrderInv /\ [Next]_vars
         => [Ledger!LedgerNext]_(Ledger!ledgerVars)
  BY StepKeepsOrder, RedStepIsPromised
<1>2. Spec => Ledger!LedgerInit /\ [][Ledger!LedgerNext]_(Ledger!ledgerVars)
  BY <1>1, LedgerAtFirst, OrderInvariant, EffectsInvariant, TypeCorrect, PTL DEF Spec
<1> QED
  BY <1>2 DEF ImplementsLedger, Ledger!LedgerSpec

-----------------------------------------------------------------------------
(* Recoveries and failures *)

(* An incident is open, or will be found open by the next reconcileRuns.   *)
Open(doc) ==
    \/ doc.recovery # NoEvent
    \/ doc.incident = "active"
    \/ doc.incident = "unset" /\ HasDeliveredNonSuccess(doc)

(* An open incident is paid for by a failure that was announced and not    *)
(* yet answered by a recovery, or by a fault: in each copy of the document.*)
Paid(doc) ==
    Cardinality(Received(GreenEvents)) + (IF Open(doc) THEN 1 ELSE 0)
        <= Cardinality(Received(RedEvents)) + faults

TallyInv ==
    /\ IsFiniteSet(Received(GreenEvents)) /\ IsFiniteSet(Received(RedEvents))
    /\ Paid(disk) /\ Paid(mem) /\ Paid(cur)

NoNewIncident(new) == Open(new) => \E old \in {disk, mem, cur} : Open(old)

(* The notifications of these events, by what the sink has received.       *)
ReceivedBy(given, events) == UNION {{e} \X (1..given[e]) : e \in events}

LEMMA OneMoreGiven ==
    ASSUME NEW given \in [Event -> Nat], NEW events \in SUBSET Event,
           IsFiniteSet(ReceivedBy(given, events)), NEW x \in Event
    PROVE  LET more == ReceivedBy([given EXCEPT ![x] = @ + 1], events)
           IN  /\ IsFiniteSet(more)
               /\ x \in events => Cardinality(more) = Cardinality(ReceivedBy(given, events)) + 1
               /\ x \notin events => Cardinality(more) = Cardinality(ReceivedBy(given, events))
<1> DEFINE after == [given EXCEPT ![x] = @ + 1]
           had == ReceivedBy(given, events)
           more == ReceivedBy(after, events)
<1>1. given[x] \in Nat /\ after[x] = given[x] + 1 /\ \A e \in Event \ {x} : after[e] = given[e]
  OBVIOUS
<1> HIDE DEF after
<1>2. \A p : p \in had <=> \E e \in events : \E n \in 1..given[e] : p = <<e, n>>
  BY DEF ReceivedBy
<1>3. \A p : p \in more <=> \E e \in events : \E n \in 1..after[e] : p = <<e, n>>
  BY DEF ReceivedBy
<1> HIDE DEF had, more
<1>4. CASE x \notin events
  <2>1. \A e \in events : after[e] = given[e]
    BY <1>1, <1>4
  <2>2. more = had
    BY <1>2, <1>3, <2>1
  <2> QED
    BY <1>4, <2>2 DEF had, more, after
<1>5. CASE x \in events
  <2> DEFINE new == <<x, given[x] + 1>>
  <2>1. \A n : n \in 1..(given[x] + 1) <=> n \in 1..given[x] \/ n = given[x] + 1
    BY <1>1
  <2>2. new \notin had
    BY <1>1, <1>2
  <2>3. more = had \cup {new}
    BY <1>1, <1>2, <1>3, <1>5, <2>1
  <2>4. IsFiniteSet(had)
    BY DEF had
  <2>5. /\ IsFiniteSet(had \cup {new})
        /\ Cardinality(had \cup {new}) = Cardinality(had) + 1
    BY <2>2, <2>4, FS_AddElement
  <2>6. IsFiniteSet(more) /\ Cardinality(more) = Cardinality(had) + 1
    BY <2>3, <2>5
  <2> QED
    BY <1>5, <2>6 DEF had, more, after
<1> QED
  BY <1>4, <1>5

LEMMA OneMoreReceived ==
    ASSUME TypeOK, TallyInv, NEW x \in Event, posts' = [posts EXCEPT ![x] = @ + 1]
    PROVE  /\ IsFiniteSet(Received(GreenEvents)') /\ IsFiniteSet(Received(RedEvents)')
           /\ x \in GreenEvents =>
                 Cardinality(Received(GreenEvents)') = Cardinality(Received(GreenEvents)) + 1
           /\ x \notin GreenEvents =>
                 Cardinality(Received(GreenEvents)') = Cardinality(Received(GreenEvents))
           /\ x \in RedEvents =>
                 Cardinality(Received(RedEvents)') = Cardinality(Received(RedEvents)) + 1
           /\ x \notin RedEvents =>
                 Cardinality(Received(RedEvents)') = Cardinality(Received(RedEvents))
<1> DEFINE after == [posts EXCEPT ![x] = @ + 1]
<1>1. posts \in [Event -> Nat] /\ GreenEvents \in SUBSET Event /\ RedEvents \in SUBSET Event
  BY DEF TypeOK, HistoryType, Event
<1>2. /\ Received(GreenEvents) = ReceivedBy(posts, GreenEvents)
      /\ Received(RedEvents) = ReceivedBy(posts, RedEvents)
      /\ Received(GreenEvents)' = ReceivedBy(after, GreenEvents)
      /\ Received(RedEvents)' = ReceivedBy(after, RedEvents)
  BY DEF Received, ReceivedBy
<1>3. IsFiniteSet(ReceivedBy(posts, GreenEvents)) /\ IsFiniteSet(ReceivedBy(posts, RedEvents))
  BY <1>2 DEF TallyInv
<1>4. /\ IsFiniteSet(ReceivedBy(after, GreenEvents))
      /\ x \in GreenEvents => Cardinality(ReceivedBy(after, GreenEvents))
                                = Cardinality(ReceivedBy(posts, GreenEvents)) + 1
      /\ x \notin GreenEvents => Cardinality(ReceivedBy(after, GreenEvents))
                                = Cardinality(ReceivedBy(posts, GreenEvents))
  BY <1>1, <1>3, OneMoreGiven
<1>5. /\ IsFiniteSet(ReceivedBy(after, RedEvents))
      /\ x \in RedEvents => Cardinality(ReceivedBy(after, RedEvents))
                                = Cardinality(ReceivedBy(posts, RedEvents)) + 1
      /\ x \notin RedEvents => Cardinality(ReceivedBy(after, RedEvents))
                                = Cardinality(ReceivedBy(posts, RedEvents))
  BY <1>1, <1>3, OneMoreGiven
<1> HIDE DEF after
<1> QED
  BY <1>2, <1>4, <1>5

LEMMA NothingReceivedYet ==
    ASSUME NEW events, events \subseteq Event, posts = [e \in Event |-> 0]
    PROVE  Received(events) = {}
BY DEF Received

LEMMA EmptyIsClosed == ~Open(EmptyDocument)
BY DEF Open, EmptyDocument, HasDeliveredNonSuccess, NoRecord, Event

LEMMA TallyInvInit == Init => TallyInv
<1>1. SUFFICES ASSUME Init PROVE TallyInv
  OBVIOUS
<1>2. Received(GreenEvents) = {} /\ Received(RedEvents) = {}
  BY <1>1, NothingReceivedYet DEF Init, Event
<1>3. IsFiniteSet({}) /\ Cardinality({}) = 0
  BY FS_EmptySet
<1>4. Paid(EmptyDocument)
  BY <1>1, <1>2, <1>3, EmptyIsClosed DEF Paid, Init
<1> QED
  BY <1>1, <1>2, <1>3, <1>4 DEF TallyInv, Init

LEMMA OpenOnlyAs ==
    ASSUME NEW old, NEW new, Open(new),
           new.recovery = old.recovery, new.incident = old.incident,
           \A e \in RedEvents :
              new.seen[e].status = "delivered" => old.seen[e].status = "delivered"
    PROVE  Open(old)
BY DEF Open, HasDeliveredNonSuccess

LEMMA MarkingOpensNothing ==
    ASSUME NEW doc \in Document, NEW e \in Event, NEW state \in DeliveryState
    PROVE  /\ state # "delivered" /\ Open(MarkStatus(doc, e, state)) => Open(doc)
           /\ Open(MarkAnalysis(doc, e, state)) => Open(doc)
           /\ Open(MarkStale(doc, e)) => Open(doc)
<1>1. ASSUME state # "delivered", Open(MarkStatus(doc, e, state)) PROVE Open(doc)
  <2> DEFINE new == MarkStatus(doc, e, state)
  <2>1. /\ new.seen[e].status = state /\ new.recovery = doc.recovery /\ new.incident = doc.incident
        /\ \A d \in Event \ {e} : new.seen[d] = doc.seen[d]
    BY MarkStatusType
  <2> HIDE DEF new
  <2>2. Open(new)
    BY <1>1 DEF new
  <2> QED
    BY <1>1, <2>1, <2>2, OpenOnlyAs DEF Event
<1>2. ASSUME Open(MarkAnalysis(doc, e, state)) PROVE Open(doc)
  <2> DEFINE new == MarkAnalysis(doc, e, state)
  <2>1. /\ new.seen[e].status = doc.seen[e].status
        /\ new.recovery = doc.recovery /\ new.incident = doc.incident
        /\ \A d \in Event \ {e} : new.seen[d] = doc.seen[d]
    BY MarkAnalysisType
  <2> HIDE DEF new
  <2>2. Open(new)
    BY <1>2 DEF new
  <2> QED
    BY <2>1, <2>2, OpenOnlyAs DEF Event
<1>3. ASSUME Open(MarkStale(doc, e)) PROVE Open(doc)
  <2> DEFINE new == MarkStale(doc, e)
  <2>1. /\ new.seen[e].status = "suppressed"
        /\ new.recovery = doc.recovery /\ new.incident = doc.incident
        /\ \A d \in Event \ {e} : new.seen[d] = doc.seen[d]
    BY MarkStaleType
  <2> HIDE DEF new
  <2>2. Open(new)
    BY <1>3 DEF new
  <2> QED
    BY <2>1, <2>2, OpenOnlyAs DEF Event
<1> QED
  BY <1>1, <1>2, <1>3

LEMMA FieldKeepsIncident ==
    ASSUME NEW doc \in Document, NEW cursor, NEW page, NEW now_ \in Nat
    PROVE  /\ [doc EXCEPT !.cursor = cursor].incident = doc.incident
           /\ [doc EXCEPT !.page = page].incident = doc.incident
           /\ [doc EXCEPT !.page = page, !.cursor = cursor].incident = doc.incident
           /\ [doc EXCEPT !.cursor = cursor, !.page = page].incident = doc.incident
           /\ WithDeliveryBackoff(doc, now_).incident = doc.incident
           /\ WithProviderBackoff(doc, now_).incident = doc.incident
           /\ WithoutBackoff(doc).incident = doc.incident
BY DEF Document, WithDeliveryBackoff, WithProviderBackoff, WithoutBackoff

(* What a scan does to a document opens no incident.                       *)
LEMMA ScanOpensNothing ==
    ASSUME NEW doc \in Document, NEW cursor \in Int, NEW page \in Nat \ {0}, NEW now_ \in Nat,
           NEW retained
    PROVE  /\ Open([doc EXCEPT !.cursor = cursor]) => Open(doc)
           /\ Open([doc EXCEPT !.page = page]) => Open(doc)
           /\ Open([doc EXCEPT !.page = page, !.cursor = cursor]) => Open(doc)
           /\ Open([doc EXCEPT !.cursor = cursor, !.page = page]) => Open(doc)
           /\ Open(WithDeliveryBackoff(doc, now_)) => Open(doc)
           /\ Open(WithProviderBackoff(doc, now_)) => Open(doc)
           /\ Open(WithoutBackoff(doc)) => Open(doc)
           /\ Open(WithIncident(doc)) => Open(doc)
           /\ Open(PruneSeen(doc, retained)) => Open(doc)
<1>1. ASSUME NEW new, new.seen = doc.seen, new.recovery = doc.recovery,
             new.incident = doc.incident, Open(new)
      PROVE  Open(doc)
  BY <1>1, OpenOnlyAs
<1>2. Open(WithIncident(doc)) => Open(doc)
  BY DEF WithIncident, Open, Document
<1>3. Open(PruneSeen(doc, retained)) => Open(doc)
  <2> DEFINE new == PruneSeen(doc, retained)
  <2>1. /\ new.recovery = doc.recovery /\ new.incident = doc.incident
        /\ \A e \in Event : new.seen[e] = doc.seen[e] \/ new.seen[e] = NoRecord
    BY DEF PruneSeen, Document
  <2>2. \A e \in RedEvents :
            new.seen[e].status = "delivered" => doc.seen[e].status = "delivered"
    BY <2>1 DEF NoRecord, Event
  <2> HIDE DEF new
  <2>3. Open(new) => Open(doc)
    BY <2>1, <2>2, OpenOnlyAs
  <2> QED
    BY <2>3 DEF new
<1>4. /\ Open([doc EXCEPT !.cursor = cursor]) => Open(doc)
      /\ Open([doc EXCEPT !.page = page]) => Open(doc)
  <2> DEFINE a == [doc EXCEPT !.cursor = cursor]
             b == [doc EXCEPT !.page = page]
  <2>1. /\ a.seen = doc.seen /\ a.recovery = doc.recovery /\ a.incident = doc.incident
        /\ b.seen = doc.seen /\ b.recovery = doc.recovery /\ b.incident = doc.incident
    BY FieldKeepsRecords, FieldKeepsRecovery, FieldKeepsIncident
  <2> HIDE DEF a, b
  <2>2. (Open(a) => Open(doc)) /\ (Open(b) => Open(doc))
    BY <1>1, <2>1
  <2> QED
    BY <2>2 DEF a, b
<1>5. /\ Open([doc EXCEPT !.page = page, !.cursor = cursor]) => Open(doc)
      /\ Open([doc EXCEPT !.cursor = cursor, !.page = page]) => Open(doc)
  <2> DEFINE a == [doc EXCEPT !.page = page, !.cursor = cursor]
             b == [doc EXCEPT !.cursor = cursor, !.page = page]
  <2>1. /\ a.seen = doc.seen /\ a.recovery = doc.recovery /\ a.incident = doc.incident
        /\ b.seen = doc.seen /\ b.recovery = doc.recovery /\ b.incident = doc.incident
    BY FieldKeepsRecords, FieldKeepsRecovery, FieldKeepsIncident
  <2> HIDE DEF a, b
  <2>2. (Open(a) => Open(doc)) /\ (Open(b) => Open(doc))
    BY <1>1, <2>1
  <2> QED
    BY <2>2 DEF a, b
<1>6. /\ Open(WithDeliveryBackoff(doc, now_)) => Open(doc)
      /\ Open(WithProviderBackoff(doc, now_)) => Open(doc)
      /\ Open(WithoutBackoff(doc)) => Open(doc)
  BY <1>1, FieldKeepsRecovery, FieldKeepsIncident, WithBackoffType, WithoutBackoffType
<1> QED
  BY <1>2, <1>3, <1>4, <1>5, <1>6

LEMMA IdleStepKeepsTally ==
    ASSUME TypeOK, TallyInv, UNCHANGED posts, faults' \in Nat, faults' >= faults,
           NoNewIncident(disk'), NoNewIncident(mem'), NoNewIncident(cur')
    PROVE  TallyInv'
<1> DEFINE green == Cardinality(Received(GreenEvents))
           red == Cardinality(Received(RedEvents))
           bit(doc) == IF Open(doc) THEN 1 ELSE 0
<1>1. Received(GreenEvents)' = Received(GreenEvents) /\ Received(RedEvents)' = Received(RedEvents)
  BY DEF Received
<1>2. green \in Nat /\ red \in Nat /\ faults \in Nat
  BY FS_CardinalityType DEF TallyInv, TypeOK, HistoryType
<1>3. \A doc \in {disk, mem, cur} : green + bit(doc) <= red + faults
  BY DEF TallyInv, Paid
<1>4. ASSUME NEW new, NoNewIncident(new)
      PROVE  green + bit(new) <= red + faults'
  <2>1. \E old \in {disk, mem, cur} : bit(new) <= bit(old) /\ bit(old) \in {0, 1} /\ bit(new) \in {0, 1}
    BY <1>4 DEF NoNewIncident
  <2> HIDE DEF green, red, bit
  <2>2. PICK old \in {disk, mem, cur} :
            bit(new) <= bit(old) /\ bit(old) \in {0, 1} /\ bit(new) \in {0, 1}
    BY <2>1
  <2>3. green + bit(old) <= red + faults
    BY <1>3
  <2> QED
    BY <1>2, <2>2, <2>3
<1>5. Paid(disk)' /\ Paid(mem)' /\ Paid(cur)'
  BY <1>1, <1>4 DEF Paid, Open, HasDeliveredNonSuccess
<1> QED
  BY <1>1, <1>5 DEF TallyInv

LEMMA OldIsNoNewIncident ==
    ASSUME NEW old \in {disk, mem, cur, EmptyDocument}
    PROVE  NoNewIncident(old)
BY EmptyIsClosed DEF NoNewIncident

LEMMA LeaveKeepsTally ==
    ASSUME TypeOK, TallyInv, UNCHANGED posts, faults' \in Nat, faults' >= faults,
           NEW state, Leave(state), NoNewIncident(disk')
    PROVE  TallyInv'
<1>1. mem' = EmptyDocument /\ cur' = EmptyDocument
  BY DEF Leave
<1> QED
  BY <1>1, OldIsNoNewIncident, IdleStepKeepsTally

LEMMA SaveKeepsTally ==
    ASSUME TypeOK, TallyInv, UNCHANGED posts, faults' \in Nat, faults' >= faults,
           NEW doc, Save(doc), NoNewIncident(doc)
    PROVE  TallyInv'
<1>1. disk' = doc /\ mem' = doc /\ cur' = doc
  BY DEF Save
<1> QED
  BY <1>1, IdleStepKeepsTally

LEMMA NoNewIncidentOf ==
    ASSUME NEW new, NEW old \in {disk, mem, cur}, Open(new) => Open(old)
    PROVE  NoNewIncident(new)
BY DEF NoNewIncident

LEMMA WorldKeepsTally ==
    ASSUME TypeOK, TallyInv, Provider \/ Tick
    PROVE  TallyInv'
<1>1. UNCHANGED observerVars
  BY DEF Provider, StartRun, EndRun, RerunRun, Tick, ciVars
<1>2. UNCHANGED <<disk, mem, cur, posts, faults>>
  BY <1>1 DEF observerVars
<1> QED
  BY <1>2, OldIsNoNewIncident, IdleStepKeepsTally DEF TypeOK, HistoryType

LEMMA ScanningKeepsTally ==
    ASSUME TypeOK, TallyInv, Scanning
    PROVE  TallyInv'
<1>1. UNCHANGED <<posts, faults>> /\ faults' \in Nat /\ faults' >= faults
  BY DEF Scanning, PollBegin, ListHot, ListBacklog, EnterBacklog, SaveProgress,
         NextBacklogPage, ScanTruncated, ScanClean, ScanFailed, WebhookDone, history,
         TypeOK, HistoryType
<1>2. disk \in Document /\ cur \in Document /\ mem \in Document
      /\ now \in Nat /\ now \in Int /\ scan \in Scan
  BY DEF TypeOK, DocumentsType, CallType
<1>3. scan.page \in Nat \ {0} /\ scan.cursor \in Int /\ scan.page + 1 \in Nat \ {0}
      /\ 1 \in Nat \ {0}
  BY <1>2 DEF Scan
<1>4. ASSUME PollBegin PROVE TallyInv'
  <2>1. cur' = [disk EXCEPT !.cursor = ScanCursor(disk)] /\ mem' = disk /\ disk' = disk
    BY <1>4 DEF PollBegin
  <2>2. Open(cur') => Open(disk)
    <3> DEFINE cursor == ScanCursor(disk)
               doc == [disk EXCEPT !.cursor = cursor]
    <3>1. doc.seen = disk.seen /\ doc.recovery = disk.recovery /\ doc.incident = disk.incident
      <4> HIDE DEF cursor
      <4> QED
        BY <1>2, FieldKeepsRecords, FieldKeepsRecovery, FieldKeepsIncident
    <3>2. cur' = doc
      BY <2>1
    <3> HIDE DEF doc
    <3>3. Open(doc) => Open(disk)
      BY <3>1, OpenOnlyAs
    <3> QED
      BY <3>2, <3>3 DEF Open, HasDeliveredNonSuccess
  <2> QED
    BY <1>1, <2>1, <2>2, OldIsNoNewIncident, NoNewIncidentOf, IdleStepKeepsTally
<1>5. ASSUME ListHot \/ ListBacklog PROVE TallyInv'
  <2>1. cur' = WithIncident(cur) /\ mem' = mem /\ disk' = disk
    BY <1>5, SMTT(30) DEF ListHot, ListBacklog, BeginReconcile
  <2>2. Open(cur') => Open(cur)
    BY <1>2, <1>3, <2>1, ScanOpensNothing
  <2> QED
    BY <1>1, <2>1, <2>2, OldIsNoNewIncident, NoNewIncidentOf, IdleStepKeepsTally
<1>6. ASSUME EnterBacklog \/ NextBacklogPage PROVE TallyInv'
  <2>1. cur' = cur /\ mem' = mem /\ disk' = disk
    BY <1>6 DEF EnterBacklog, NextBacklogPage, docVars
  <2> QED
    BY <1>1, <2>1, OldIsNoNewIncident, IdleStepKeepsTally
<1>7. ASSUME SaveProgress PROVE TallyInv'
  <2> DEFINE doc == [cur EXCEPT !.page = scan.page, !.cursor = scan.cursor]
  <2>1. Save(doc)
    BY <1>7, SMTT(30) DEF SaveProgress
  <2>2. Open(doc) => Open(cur)
    BY <1>2, <1>3, ScanOpensNothing
  <2> HIDE DEF doc
  <2> QED
    BY <1>1, <2>1, <2>2, NoNewIncidentOf, SaveKeepsTally
<1>8. ASSUME NEW doc, SaveAndReturn(doc), Open(doc) => Open(cur) PROVE TallyInv'
  <2>1. Leave("idle") /\ disk' = doc
    BY <1>8 DEF SaveAndReturn
  <2> QED
    BY <1>1, <1>8, <2>1, NoNewIncidentOf, LeaveKeepsTally
<1>9. ASSUME ScanTruncated PROVE TallyInv'
  <2> DEFINE doc == [cur EXCEPT !.page = scan.page + 1]
  <2>1. Open(doc) => Open(cur)
    BY <1>2, <1>3, ScanOpensNothing
  <2>2. SaveAndReturn(doc)
    BY <1>9 DEF ScanTruncated
  <2> HIDE DEF doc
  <2> QED
    BY <1>8, <2>1, <2>2, SMTT(30)
<1>10. ASSUME ScanClean PROVE TallyInv'
  <2>. DEFINE moved == [cur EXCEPT !.cursor = now, !.page = 1]
  <2>1. PICK retained \in Retainable(cur) :
            SaveAndReturn(PruneSeen(WithoutBackoff(moved), retained))
    BY <1>10 DEF ScanClean
  <2>2. moved \in Document
    BY <1>2, <1>3 DEF Document
  <2>3. Open(moved) => Open(cur)
    BY <1>2, <1>3, ScanOpensNothing
  <2>. HIDE DEF moved
  <2>4. WithoutBackoff(moved) \in Document /\ (Open(WithoutBackoff(moved)) => Open(moved))
    BY <1>2, <1>3, <2>2, WithoutBackoffType, ScanOpensNothing
  <2>5. Open(PruneSeen(WithoutBackoff(moved), retained)) => Open(WithoutBackoff(moved))
    BY <1>2, <1>3, <2>4, ScanOpensNothing
  <2>. QED
    BY <1>8, <2>1, <2>3, <2>4, <2>5
<1>11. ASSUME ScanFailed PROVE TallyInv'
  <2> DEFINE doc == [cur EXCEPT !.page = scan.page]
  <2>1. Open(doc) => Open(cur)
    BY <1>2, <1>3, ScanOpensNothing
  <2>2. SaveAndReturn(doc)
    BY <1>11 DEF ScanFailed
  <2> HIDE DEF doc
  <2> QED
    BY <1>8, <2>1, <2>2
<1>12. ASSUME WebhookDone PROVE TallyInv'
  <2>1. Leave("idle") /\ disk' = disk
    BY <1>12 DEF WebhookDone
  <2> QED
    BY <1>1, <2>1, OldIsNoNewIncident, LeaveKeepsTally
<1> QED
  BY <1>4, <1>5, <1>6, <1>7, <1>9, <1>10, <1>11, <1>12 DEF Scanning

LEMMA WebhookKeepsTally ==
    ASSUME TypeOK, TallyInv, Webhook
    PROVE  TallyInv'
<1>1. PICK candidate \in hooks : WebhookBegin(candidate)
  BY DEF Webhook
<1>2. /\ cur' = WithIncident(disk) /\ mem' = disk /\ disk' = disk
      /\ UNCHANGED <<posts, faults>>
  BY <1>1 DEF WebhookBegin, BeginReconcile, history
<1>3. disk \in Document
  BY DEF TypeOK, DocumentsType
<1>4. Open(cur') => Open(disk)
  BY <1>2, <1>3 DEF WithIncident, Open, Document
<1> QED
  BY <1>2, <1>4, OldIsNoNewIncident, NoNewIncidentOf, IdleStepKeepsTally DEF TypeOK, HistoryType

LEMMA FailingKeepsTally ==
    ASSUME TypeOK, TallyInv, ~AnalysisMayOverflow, faults' \in Nat, faults' >= faults,
           \/ \E unavailable \in BOOLEAN : ListFails(unavailable)
           \/ DeliveryFails \/ BuildThrows \/ Crash \/ LeaseExpires
    PROVE  TallyInv'
<1>1. UNCHANGED posts
  BY DEF ListFails, DeliveryFails, BuildThrows, Crash, LeaseExpires, history
<1>2. cur \in Document /\ scan.page \in Nat \ {0} /\ now \in Nat /\ now \in Int
  BY DEF TypeOK, DocumentsType, CallType, Scan
<1>3. ASSUME NEW unavailable \in BOOLEAN, ListFails(unavailable) PROVE TallyInv'
  <2>. DEFINE kept == [cur EXCEPT !.page = scan.page]
              doc == IF unavailable THEN WithProviderBackoff(kept, now) ELSE kept
  <2>1. kept \in Document /\ (Open(kept) => Open(cur))
    BY <1>2, ScanOpensNothing DEF Document
  <2>2. SaveAndReturn(doc)
    BY <1>3 DEF ListFails, CatchTarget
  <2>. HIDE DEF kept
  <2>3. Open(WithProviderBackoff(kept, now)) => Open(kept)
    BY <1>2, <2>1, ScanOpensNothing
  <2>4. Open(doc) => Open(cur)
    BY <2>1, <2>3
  <2>. HIDE DEF doc
  <2>5. Leave("idle") /\ disk' = doc
    BY <2>2 DEF SaveAndReturn
  <2> QED
    BY <1>1, <2>4, <2>5, NoNewIncidentOf, LeaveKeepsTally
<1>4. ASSUME DeliveryFails PROVE TallyInv'
  <2>. DEFINE failed == WithDeliveryBackoff(cur, now)
  <2>1. Open(failed) => Open(cur)
    BY <1>2, ScanOpensNothing
  <2>2. /\ disk' = failed
        /\ ReturnFailed(failed)
        /\ lane # "webhook" => mem' = failed
    BY <1>4 DEF DeliveryFails
  <2>. HIDE DEF failed
  <2>3. NoNewIncident(failed)
    BY <2>1, NoNewIncidentOf
  <2>4. CASE lane = "webhook"
    BY <1>1, <2>2, <2>3, <2>4, LeaveKeepsTally DEF ReturnFailed
  <2>5. CASE lane # "webhook"
    BY <1>1, <2>2, <2>3, <2>5, IdleStepKeepsTally DEF ReturnFailed
  <2> QED
    BY <2>4, <2>5, SMTT(30)
<1>5. ~BuildThrows
  BY DEF BuildThrows
<1>6. ASSUME Crash PROVE TallyInv'
  <2>1. Leave("crashed") /\ disk' = disk
    BY <1>6 DEF Crash
  <2> QED
    BY <1>1, <2>1, OldIsNoNewIncident, LeaveKeepsTally
<1>7. ASSUME LeaseExpires PROVE TallyInv'
  <2>1. disk' = disk /\ mem' = mem /\ cur' = cur
    BY <1>7 DEF LeaseExpires
  <2> QED
    BY <1>1, <2>1, OldIsNoNewIncident, IdleStepKeepsTally
<1> QED
  BY <1>3, <1>4, <1>5, <1>6, <1>7

(* The local copy stands for the durable one, whichever mark is saved.     *)
LEMMA SaveOfKeepsTally ==
    ASSUME TypeOK, TallyInv, UNCHANGED posts, faults' \in Nat, faults' >= faults,
           NEW old \in {disk, mem, cur}, NEW doc, Save(doc), Open(doc) => Open(old)
    PROVE  TallyInv'
BY NoNewIncidentOf, SaveKeepsTally

LEMMA SuppressingKeepsTally ==
    ASSUME TypeOK, EffectsInv, OrderInv, TallyInv, NEW c \in todo,
           \/ SkipRun(c) \/ SuppressStale(c) \/ SuppressQuiet(c)
           \/ SuppressSuccess(c) \/ StopForBackoff(c)
    PROVE  TallyInv'
<1> DEFINE e == c.event
<1>1. /\ pc = "reconcile" /\ pc \notin Waiting /\ UNCHANGED <<posts, faults>>
      /\ faults' \in Nat /\ faults' >= faults
  BY DEF SkipRun, SuppressStale, SuppressQuiet, SuppressSuccess, StopForBackoff,
         Current, Waiting, history, TypeOK, HistoryType
<1>2. /\ e \in Event /\ "suppressed" \in DeliveryState
      /\ cur \in Document /\ PresentOr(mem, cur) \in Document
  BY <1>1, OrderFacts DEF DeliveryState
<1>3. PresentOr(mem, cur) \in {disk, mem, cur}
  BY DEF PresentOr
<1>4. ASSUME SkipRun(c) PROVE TallyInv'
  <2>1. disk' = disk /\ mem' = mem /\ cur' = cur
    BY <1>4 DEF SkipRun, docVars
  <2> QED
    BY <1>1, <2>1, OldIsNoNewIncident, IdleStepKeepsTally
<1>5. ASSUME SuppressStale(c) PROVE TallyInv'
  <2> DEFINE old == PresentOr(mem, cur)
             doc == MarkStale(old, e)
  <2>1. Save(doc)
    BY <1>5 DEF SuppressStale
  <2>2. Open(doc) => Open(old)
    <3> HIDE DEF old
    <3> QED
      BY <1>2, MarkingOpensNothing DEF old
  <2> HIDE DEF doc, old
  <2>3. old \in {disk, mem, cur}
    BY <1>3 DEF old
  <2> QED
    BY <1>1, <2>1, <2>2, <2>3, SaveOfKeepsTally
<1>6. ASSUME Save(MarkStatus(cur, e, "suppressed")) PROVE TallyInv'
  <2> DEFINE doc == MarkStatus(cur, e, "suppressed")
  <2>1. Save(doc)
    BY <1>6
  <2>2. Open(doc) => Open(cur)
    BY <1>2, MarkingOpensNothing
  <2> HIDE DEF doc
  <2> QED
    BY <1>1, <2>1, <2>2, SaveOfKeepsTally
<1>7. ASSUME SuppressQuiet(c) PROVE TallyInv'
  BY <1>6, <1>7 DEF SuppressQuiet
<1>8. ASSUME SuppressSuccess(c) PROVE TallyInv'
  <2>1. CASE cur.seen[e] = NoRecord
    BY <1>6, <1>8, <2>1 DEF SuppressSuccess
  <2>2. CASE cur.seen[e] # NoRecord
    <3>1. disk' = disk /\ mem' = mem /\ cur' = cur
      BY <1>8, <2>2 DEF SuppressSuccess, docVars
    <3> QED
      BY <1>1, <3>1, OldIsNoNewIncident, IdleStepKeepsTally
  <2> QED
    BY <2>1, <2>2
<1>9. ASSUME StopForBackoff(c) PROVE TallyInv'
  <2> DEFINE doc == IF e \in GreenEvents
                    THEN [cur EXCEPT !.recovery = RecoveryId(c)] ELSE cur
  <2>1. /\ ReturnFailed(doc)
        /\ lane # "webhook" => mem' = mem
        /\ disk' = disk
        /\ e \in GreenEvents => InIncident
    BY <1>9, EventAssumption DEF StopForBackoff, IsAnalysisConclusion
  <2>2. NoNewIncident(doc)
    <3>1. e \in GreenEvents => Open(cur)
      BY <2>1 DEF InIncident, Open
    <3> QED
      BY <3>1 DEF NoNewIncident
  <2> HIDE DEF doc
  <2>3. CASE lane = "webhook"
    BY <1>1, <2>1, <2>3, OldIsNoNewIncident, LeaveKeepsTally DEF ReturnFailed
  <2>4. CASE lane # "webhook"
    BY <1>1, <2>1, <2>2, <2>4, OldIsNoNewIncident, IdleStepKeepsTally DEF ReturnFailed
  <2> QED
    BY <2>3, <2>4
<1> QED
  BY <1>4, <1>5, <1>7, <1>8, <1>9

(* An incident is known to be open before a failure is analysed: its own   *)
(* record says so.                                                         *)
LEMMA StartingKeepsTally ==
    ASSUME TypeOK, EffectsInv, OrderInv, TallyInv, NEW c \in todo,
           StartStatus(c) \/ StartAnalysis(c) \/ BuildAnalysis(c)
    PROVE  TallyInv'
<1> DEFINE e == c.event
<1>1. /\ pc \notin Waiting /\ UNCHANGED <<posts, faults>>
      /\ faults' \in Nat /\ faults' >= faults
  BY DEF StartStatus, StartAnalysis, BuildAnalysis, Current, Waiting, history,
         TypeOK, HistoryType
<1>2. /\ e \in Event /\ "pending" \in DeliveryState
      /\ cur \in Document /\ cur.seen = disk.seen
      /\ mem \in Document /\ mem.seen = disk.seen
      /\ PresentOr(mem, cur) \in Document
  BY <1>1, HandlingFacts DEF DeliveryState
<1>3. ASSUME NEW old \in {disk, mem, cur}, old \in Document,
             \/ Save(MarkStatus(old, e, "pending")) \/ Save(MarkAnalysis(old, e, "pending"))
      PROVE  TallyInv'
  <2> DEFINE marked == MarkStatus(old, e, "pending")
             noted == MarkAnalysis(old, e, "pending")
  <2>1. (Open(marked) => Open(old)) /\ (Open(noted) => Open(old))
    BY <1>2, <1>3, MarkingOpensNothing
  <2>2. Save(marked) \/ Save(noted)
    BY <1>3
  <2> HIDE DEF marked, noted
  <2> QED
    BY <1>1, <2>1, <2>2, SaveOfKeepsTally
<1>4. PresentOr(mem, cur) \in {disk, mem, cur}
  BY DEF PresentOr
<1>5. ASSUME StartStatus(c) \/ BuildAnalysis(c) PROVE TallyInv'
  <2> DEFINE old == PresentOr(mem, cur)
  <2>1. \/ Save(MarkStatus(old, e, "pending")) \/ Save(MarkAnalysis(old, e, "pending"))
    BY <1>5 DEF StartStatus, BuildAnalysis
  <2>2. old \in {disk, mem, cur} /\ old \in Document
    BY <1>2, <1>4
  <2> HIDE DEF old
  <2> QED
    BY <1>3, <2>1, <2>2
<1>6. ASSUME StartAnalysis(c) PROVE TallyInv'
  <2>1. e \in RedEvents /\ IsSettledDelivery(disk.seen[e].status)
    BY <1>2, <1>6 DEF StartAnalysis, IsAnalysisConclusion
  <2>2. mem # EmptyDocument
    BY <1>2, <2>1 DEF EmptyDocument, NoRecord, IsSettledDelivery
  <2>3. Save(MarkAnalysis(mem, e, "pending"))
    BY <1>6, <2>2 DEF StartAnalysis, PresentOr
  <2> QED
    BY <1>2, <1>3, <2>3
<1> QED
  BY <1>5, <1>6

(* A recovery starts, or is found delivered, in an open incident only.     *)
LEMMA RecoveringKeepsTally ==
    ASSUME TypeOK, EffectsInv, OrderInv, TallyInv, NEW c \in todo, StartRecovery(c)
    PROVE  TallyInv'
<1>1. /\ UNCHANGED <<posts, faults>> /\ faults' \in Nat /\ faults' >= faults
      /\ InIncident
  BY DEF StartRecovery, history, TypeOK, HistoryType
<1>2. Open(cur)
  BY <1>1 DEF InIncident, Open
<1>3. \E doc : Save(doc)
  BY DEF StartRecovery
<1> QED
  BY <1>1, <1>2, <1>3, SaveOfKeepsTally

(* A red notification pays for one more incident.                          *)
LEMMA AcceptedRedKeepsTally ==
    ASSUME TypeOK, TallyInv, NEW e \in RedEvents, posts' = [posts EXCEPT ![e] = @ + 1],
           faults' = faults
    PROVE  TallyInv'
<1> DEFINE green == Cardinality(Received(GreenEvents))
           red == Cardinality(Received(RedEvents))
           bit(doc) == IF Open(doc) THEN 1 ELSE 0
<1>1. e \in Event /\ e \notin GreenEvents /\ RedEvents \subseteq Event /\ GreenEvents \subseteq Event
      /\ posts \in [Event -> Nat] /\ faults \in Nat
  BY EventAssumption DEF Event, TypeOK, HistoryType
<1>2. /\ IsFiniteSet(Received(GreenEvents)') /\ Cardinality(Received(GreenEvents)') = green
      /\ IsFiniteSet(Received(RedEvents)') /\ Cardinality(Received(RedEvents)') = red + 1
  BY <1>1, OneMoreReceived
<1>3. green \in Nat /\ red \in Nat
  BY FS_CardinalityType DEF TallyInv
<1>4. green + bit(cur) <= red + faults /\ bit(cur) \in {0, 1}
      /\ bit(disk') \in {0, 1} /\ bit(mem') \in {0, 1} /\ bit(cur') \in {0, 1}
  BY DEF TallyInv, Paid
<1> HIDE DEF green, red, bit
<1>5. green <= red + faults
  BY <1>1, <1>3, <1>4
<1>6. /\ green + bit(disk') <= (red + 1) + faults
      /\ green + bit(mem') <= (red + 1) + faults
      /\ green + bit(cur') <= (red + 1) + faults
  BY <1>1, <1>3, <1>4, <1>5
<1>7. Paid(disk)' /\ Paid(mem)' /\ Paid(cur)'
  BY <1>2, <1>6 DEF Paid, bit, Open, HasDeliveredNonSuccess
<1> QED
  BY <1>2, <1>7 DEF TallyInv

(* A recovery spends what paid for its incident, and closes it.            *)
LEMMA AcceptedGreenKeepsTally ==
    ASSUME TypeOK, TallyInv, NEW e \in GreenEvents, posts' = [posts EXCEPT ![e] = @ + 1],
           faults' = faults, Open(cur), NEW doc, Save(doc), ~Open(doc)
    PROVE  TallyInv'
<1> DEFINE green == Cardinality(Received(GreenEvents))
           red == Cardinality(Received(RedEvents))
<1>1. e \in Event /\ e \notin RedEvents /\ RedEvents \subseteq Event /\ GreenEvents \subseteq Event
      /\ posts \in [Event -> Nat] /\ faults \in Nat
  BY EventAssumption DEF Event, TypeOK, HistoryType
<1>2. /\ IsFiniteSet(Received(GreenEvents)') /\ Cardinality(Received(GreenEvents)') = green + 1
      /\ IsFiniteSet(Received(RedEvents)') /\ Cardinality(Received(RedEvents)') = red
  BY <1>1, OneMoreReceived
<1>3. green \in Nat /\ red \in Nat
  BY FS_CardinalityType DEF TallyInv
<1>4. green + 1 <= red + faults
  BY DEF TallyInv, Paid
<1>5. ~Open(disk)' /\ ~Open(mem)' /\ ~Open(cur)'
  <2>1. disk' = doc /\ mem' = doc /\ cur' = doc
    BY DEF Save
  <2> QED
    BY <2>1 DEF Open, HasDeliveredNonSuccess
<1>6. Paid(disk)' /\ Paid(mem)' /\ Paid(cur)'
  <2> HIDE DEF green, red
  <2>1. (green + 1) + 0 <= red + faults
    BY <1>1, <1>3, <1>4
  <2> QED
    BY <1>2, <1>5, <2>1 DEF Paid
<1> QED
  BY <1>2, <1>6 DEF TallyInv

(* A notification whose answer is lost is covered by that fault.           *)
LEMMA RepeatedKeepsTally ==
    ASSUME TypeOK, TallyInv, NEW e \in Event, posts' = [posts EXCEPT ![e] = @ + 1],
           faults' = faults + 1, UNCHANGED docVars
    PROVE  TallyInv'
<1> DEFINE green == Cardinality(Received(GreenEvents))
           red == Cardinality(Received(RedEvents))
           bit(doc) == IF Open(doc) THEN 1 ELSE 0
           newGreen == Cardinality(Received(GreenEvents)')
           newRed == Cardinality(Received(RedEvents)')
<1>1. /\ RedEvents \subseteq Event /\ GreenEvents \subseteq Event
      /\ posts \in [Event -> Nat] /\ faults \in Nat
      /\ IsFiniteSet(Received(GreenEvents)) /\ IsFiniteSet(Received(RedEvents))
  BY DEF Event, TypeOK, HistoryType, TallyInv
<1>2. green \in Nat /\ red \in Nat
  BY <1>1, FS_CardinalityType
<1>3. /\ IsFiniteSet(Received(GreenEvents)') /\ newGreen \in {green, green + 1}
      /\ IsFiniteSet(Received(RedEvents)') /\ newRed \in {red, red + 1}
  BY OneMoreReceived
<1>4. \A doc \in {disk, mem, cur} : green + bit(doc) <= red + faults /\ bit(doc) \in {0, 1}
  BY DEF TallyInv, Paid
<1>5. \A doc \in {disk, mem, cur} : newGreen + bit(doc) <= newRed + faults'
  <2> HIDE DEF green, red, bit, newGreen, newRed
  <2> QED
    BY <1>1, <1>2, <1>3, <1>4
<1>6. disk' = disk /\ mem' = mem /\ cur' = cur
  BY DEF docVars
<1>7. Paid(disk)' /\ Paid(mem)' /\ Paid(cur)'
  BY <1>5, <1>6 DEF Paid, Open, HasDeliveredNonSuccess
<1> QED
  BY <1>3, <1>7 DEF TallyInv

LEMMA DeliveringKeepsTally ==
    ASSUME TypeOK, EffectsInv, OrderInv, TallyInv, NEW c \in todo,
           faults' \in Nat, faults' >= faults, SinkAccepts(c) \/ SinkReceives(c)
    PROVE  TallyInv'
<1> DEFINE e == c.event
<1>1. pc \in Delivering /\ pc \notin Waiting /\ Newest(c) /\ Receive(c)
  BY DEF SinkAccepts, SinkReceives, Delivering, Waiting
<1>2. /\ e \in Event /\ "delivered" \in DeliveryState
      /\ cur \in Document /\ Identified(cur) /\ PresentOr(mem, cur) \in Document
  BY <1>1, OrderFacts DEF DeliveryState
<1>3. pc = "status" => e \in RedEvents /\ posts' = [posts EXCEPT ![e] = @ + 1]
  BY <1>1 DEF OrderInv, UnderWayInv, Receive, Subject
<1>4. pc = "recovery" => /\ cur.recovery \in GreenEvents
                         /\ posts' = [posts EXCEPT ![cur.recovery] = @ + 1]
  BY <1>1, <1>2 DEF TypeOK, CallType, Identified, Receive, Subject
<1>5. pc = "analysis" => UNCHANGED posts
  BY <1>1 DEF Receive
<1>6. ASSUME SinkReceives(c) PROVE TallyInv'
  <2>1. UNCHANGED docVars /\ faults' = faults + 1
    BY <1>6 DEF SinkReceives
  <2>2. CASE pc = "status"
    BY <1>2, <1>3, <2>1, <2>2, RepeatedKeepsTally
  <2>3. CASE pc = "recovery"
    <3>1. cur.recovery \in Event
      BY <1>4, <2>3 DEF Event
    <3> QED
      BY <1>4, <2>1, <2>3, <3>1, RepeatedKeepsTally
  <2>4. CASE pc = "analysis"
    <3>1. disk' = disk /\ mem' = mem /\ cur' = cur
      BY <2>1 DEF docVars
    <3> QED
      BY <1>5, <2>4, <3>1, OldIsNoNewIncident, IdleStepKeepsTally
  <2> QED
    BY <1>1, <2>2, <2>3, <2>4 DEF Delivering
<1>7. ASSUME SinkAccepts(c) PROVE TallyInv'
  <2>1. Save(Acknowledged(c)) /\ faults' = faults
    BY <1>7 DEF SinkAccepts
  <2>2. CASE pc = "status"
    BY <1>3, <2>1, <2>2, AcceptedRedKeepsTally
  <2>3. CASE pc = "recovery"
    <3> DEFINE id == cur.recovery
               cleared == [cur EXCEPT !.recovery = NoEvent, !.incident = "clear"]
               doc == MarkStatus(cleared, id, "delivered")
    <3>1. id \in GreenEvents /\ id \in Event /\ id # NoEvent
      BY <1>4, <2>3 DEF TypeOK, CallType, Event
    <3>2. Open(cur)
      BY <3>1 DEF Open
    <3>3. cleared \in Document /\ cleared.recovery = NoEvent /\ cleared.incident = "clear"
      BY <1>2 DEF Document
    <3>4. Acknowledged(c) = doc
      BY <2>3 DEF Acknowledged
    <3> HIDE DEF cleared
    <3>5. doc.recovery = NoEvent /\ doc.incident = "clear"
      BY <1>2, <3>1, <3>3, MarkStatusType
    <3> HIDE DEF doc
    <3>6. ~Open(doc) /\ Save(doc)
      BY <2>1, <3>4, <3>5 DEF Open
    <3> QED
      BY <1>4, <2>1, <2>3, <3>2, <3>6, AcceptedGreenKeepsTally
  <2>4. CASE pc = "analysis"
    <3> DEFINE old == PresentOr(mem, cur)
               doc == MarkAnalysis(old, e, "delivered")
    <3>1. old \in {disk, mem, cur} /\ old \in Document
      BY <1>2 DEF PresentOr
    <3>2. Acknowledged(c) = doc
      BY <2>4 DEF Acknowledged
    <3> HIDE DEF old
    <3>3. Open(doc) => Open(old)
      BY <1>2, <3>1, MarkingOpensNothing
    <3> HIDE DEF doc
    <3>4. Save(doc)
      BY <2>1, <3>2
    <3> QED
      BY <1>5, <2>4, <3>1, <3>3, <3>4, SaveOfKeepsTally
  <2> QED
    BY <1>1, <2>2, <2>3, <2>4 DEF Delivering
<1> QED
  BY <1>6, <1>7

LEMMA StepKeepsTally ==
    ASSUME ~AnalysisMayOverflow, NeverPrunes, TypeOK, EffectsInv, OrderInv, TallyInv, [Next]_vars
    PROVE  TallyInv'
<1>1. CASE UNCHANGED vars
  <2>1. disk' = disk /\ mem' = mem /\ cur' = cur /\ UNCHANGED <<posts, faults>> /\ faults \in Nat
    BY <1>1 DEF vars, TypeOK, HistoryType
  <2> QED
    BY <2>1, OldIsNoNewIncident, IdleStepKeepsTally
<1>2. CASE Next
  <2>1. faults' \in Nat /\ faults' >= faults
    BY <1>2, FaultsGrow
  <2>2. CASE Provider \/ Tick
    BY <2>2, WorldKeepsTally
  <2>3. CASE Scanning
    BY <2>3, ScanningKeepsTally
  <2>4. CASE Webhook
    BY <2>4, WebhookKeepsTally
  <2>5. CASE Reconciling
    BY <2>1, <2>5, SuppressingKeepsTally, StartingKeepsTally, RecoveringKeepsTally,
       DeliveringKeepsTally DEF Reconciling
  <2>6. CASE Faulty \/ LeaseExpires
    BY <2>1, <2>6, DeliveringKeepsTally, FailingKeepsTally DEF Faulty
  <2> QED
    BY <1>2, <2>2, <2>3, <2>4, <2>5, <2>6 DEF Next
<1> QED
  BY <1>1, <1>2

(* A recovery is owed to a failure: the sink never gets more of them than  *)
(* it got failures, but for those a fault repeats (runtime.ts 478-533).    *)
THEOREM RecoveriesAreOwed ==
    ASSUME ~AnalysisMayOverflow, NeverPrunes
    PROVE  Spec => []GreenNeedsRed
<1>1. TypeOK /\ EffectsInv /\ OrderInv /\ TallyInv /\ [Next]_vars => TallyInv'
  BY StepKeepsTally
<1>2. TypeOK /\ TallyInv => GreenNeedsRed
  <2>1. SUFFICES ASSUME TypeOK, TallyInv PROVE GreenNeedsRed
    OBVIOUS
  <2> DEFINE green == Cardinality(Received(GreenEvents))
             red == Cardinality(Received(RedEvents))
             bit == IF Open(disk) THEN 1 ELSE 0
  <2>2. green \in Nat /\ red \in Nat /\ faults \in Nat
    BY <2>1, FS_CardinalityType DEF TallyInv, TypeOK, HistoryType
  <2>3. green + bit <= red + faults /\ bit \in {0, 1}
    BY <2>1 DEF TallyInv, Paid
  <2>4. green <= red + faults
    <3> HIDE DEF green, red, bit
    <3> QED
      BY <2>2, <2>3
  <2> QED
    BY <2>4 DEF GreenNeedsRed
<1> QED
  BY TallyInvInit, <1>1, <1>2, TypeCorrect, EffectsInvariant, OrderInvariant, PTL DEF Spec

-----------------------------------------------------------------------------
(* Scans and failures *)

(* Runs the scan of this poll owes: failures that were terminal when it    *)
(* began, created inside its window.                                       *)
Owed ==
    {r \in Run : /\ ci[r].phase = "done" /\ ci[r].event \in RedEvents
                 /\ ci[r].updated < now
                 /\ ci[r].created >= CreatedAfterWithOverlap(scan.cursor)}

SettledIn(doc, e) == IsSettledDelivery(doc.seen[e].status)

(* How many runs are listed before this one.                               *)
Newer(r, after) == {s \in Terminal(after) : s > r}

Unlisted(r) ==
    /\ scan.more \/ pc \in {"list", "loop"}
    /\ Cardinality(Newer(r, CreatedAfterWithOverlap(scan.cursor))) >= scan.fetched * PageSize

(* The backlog lane has listed every page from the first.                  *)
FromFirstPage ==
    IF pc \in {"list", "loop"} THEN scan.page = scan.fetched + 1 ELSE scan.page = scan.fetched

Backlog == lane = "backlog" /\ pc \notin Waiting \cup {"failed"}

(* A failure the scan owes is settled, about to be handled, or on a page   *)
(* still to come, whatever ends in the meantime and shifts the pages.      *)
OwedInv ==
    Backlog /\ FromFirstPage =>
        \A r \in Owed : SettledIn(disk, ci[r].event) \/ CandidateOf(r) \in todo \/ Unlisted(r)

(* Where the handling of a page stands.                                    *)
PageInv ==
    /\ \A e \in attempted \cap RedEvents : SettledIn(disk, e)
    /\ pc \in Waiting \cup {"list", "loop"} => todo = {}
    /\ pc \notin Waiting => now <= clock /\ (lane = "hot" => scan.fetched = 0)
    /\ pc = "loop" => lane = "backlog"
    /\ \A r \in Run : ci[r].phase # "absent" => ci[r].attempt > 0

(* Every copy of the document has the cursor of the scan.                  *)
CursorInv ==
    pc \notin Waiting =>
        /\ lane # "webhook" => {mem.cursor, cur.cursor} \subseteq {NoCursor, scan.cursor}
        /\ disk.cursor # NoCursor =>
              /\ mem.cursor = disk.cursor /\ cur.cursor = disk.cursor
              /\ lane # "webhook" => scan.cursor = disk.cursor

(* A recovery is delivered while a success is handled.                     *)
RecoveringInv ==
    pc = "recovery" => \A c \in todo : Newest(c) => c.event \notin RedEvents

WindowInv == PageInv /\ CursorInv /\ OwedInv

(* Only the end of a clean scan moves a cursor there is.                   *)
CursorStays == disk.cursor # NoCursor => disk'.cursor = disk.cursor

(* Every set of naturals that is not empty has a least element.            *)
LEMMA LeastNumber ==
    ASSUME NEW T, T \subseteq Nat, T # {}
    PROVE  \E n \in T : \A m \in T : n <= m
<1> DEFINE F == {0..n : n \in T}
<1>1. F \subseteq FiniteSubsetsOf(Nat)
  <2> SUFFICES ASSUME NEW n \in T PROVE 0..n \in FiniteSubsetsOf(Nat)
    OBVIOUS
  <2>1. IsFiniteSet(0..n)
    BY FS_Interval
  <2> QED
    BY <2>1 DEF FiniteSubsetsOf
<1>2. F # {}
  OBVIOUS
<1> HIDE DEF F
<1>3. \E x \in F : \A y \in F : <<y, x>> \notin StrictSubsetOrdering(Nat)
  BY <1>1, <1>2, FS_StrictSubsetOrderingWellFounded, WFMin
<1> USE DEF F
<1>4. PICK n \in T : \A y \in F : <<y, 0..n>> \notin StrictSubsetOrdering(Nat)
  BY <1>3
<1>5. ASSUME NEW m \in T, m < n
      PROVE  FALSE
  <2>1. 0..m \subseteq 0..n /\ n \in 0..n /\ n \notin 0..m
    BY <1>5
  <2>2. <<0..m, 0..n>> \in StrictSubsetOrdering(Nat)
    BY <2>1 DEF StrictSubsetOrdering
  <2> QED
    BY <1>4, <2>2
<1> QED
  BY <1>5

LEMMA NewerIsFinite ==
    ASSUME NEW r, NEW after
    PROVE  /\ IsFiniteSet(Terminal(after)) /\ IsFiniteSet(Newer(r, after))
           /\ Terminal(after) \subseteq Nat
           /\ Cardinality(Terminal(after)) \in Nat /\ Cardinality(Newer(r, after)) \in Nat
<1>1. IsFiniteSet(1..MaxRuns)
  BY ConfigNat, FS_Interval
<1>2. Terminal(after) \in SUBSET (1..MaxRuns) /\ Newer(r, after) \in SUBSET (1..MaxRuns)
  BY DEF Terminal, Newer, Run
<1>3. IsFiniteSet(Terminal(after)) /\ IsFiniteSet(Newer(r, after))
  BY <1>1, <1>2, FS_Subset
<1> QED
  BY <1>2, <1>3, FS_CardinalityType, ConfigNat

(* At most k runs have fewer than k before them.                           *)
LEMMA FewAreEarly ==
    ASSUME NEW after, NEW k \in Nat
    PROVE  Cardinality({s \in Terminal(after) : Cardinality(Newer(s, after)) < k}) <= k
<1> DEFINE n(s) == Cardinality(Newer(s, after))
           B == {s \in Terminal(after) : n(s) < k}
<1>1. /\ IsFiniteSet(B) /\ Cardinality(B) \in Nat /\ B \subseteq Nat
  <2>1. B \in SUBSET Terminal(after)
    OBVIOUS
  <2>2. IsFiniteSet(B)
    BY <2>1, NewerIsFinite, FS_Subset
  <2> QED
    BY <2>1, <2>2, NewerIsFinite, FS_CardinalityType
<1>2. CASE B = {}
  BY <1>2, FS_EmptySet
<1>3. CASE B # {}
  <2>1. PICK m \in B : \A s \in B : m <= s
    <3> HIDE DEF B
    <3> QED
      BY <1>1, <1>3, LeastNumber
  <2>2. \A s \in B : s \in Newer(m, after) \cup {m}
    <3>1. SUFFICES ASSUME NEW s \in B, s # m PROVE s \in Newer(m, after)
      OBVIOUS
    <3>2. s \in Nat /\ m \in Nat /\ m <= s /\ s \in Terminal(after)
      BY <1>1, <2>1
    <3>3. s > m
      BY <3>1, <3>2
    <3> QED
      BY <3>2, <3>3 DEF Newer
  <2>3. B \in SUBSET (Newer(m, after) \cup {m})
    BY <2>2
  <2>4. IsFiniteSet(Newer(m, after)) /\ m \notin Newer(m, after) /\ n(m) \in Nat /\ n(m) < k
    <3>1. m \in Nat /\ ~(m > m)
      BY <1>1
    <3>2. m \notin Newer(m, after)
      BY <3>1 DEF Newer
    <3> QED
      BY <2>1, <3>2, NewerIsFinite
  <2>5. /\ IsFiniteSet(Newer(m, after) \cup {m})
        /\ Cardinality(Newer(m, after) \cup {m}) = n(m) + 1
    BY <2>4, FS_AddElement
  <2>6. Cardinality(B) <= n(m) + 1
    <3> HIDE DEF B, n
    <3> QED
      BY <2>3, <2>5, FS_Subset
  <2> HIDE DEF B, n
  <2>7. Cardinality(B) <= k
    BY <1>1, <2>4, <2>6
  <2> QED
    BY <2>7 DEF B, n
<1> QED
  BY <1>2, <1>3

(* If a run has k before it, k runs have fewer than k before them.         *)
LEMMA ManyAreEarly ==
    ASSUME NEW after, NEW k \in Nat, NEW r \in Terminal(after),
           Cardinality(Newer(r, after)) >= k
    PROVE  Cardinality({s \in Terminal(after) : Cardinality(Newer(s, after)) < k}) >= k
<1> DEFINE n(s) == Cardinality(Newer(s, after))
           A == {s \in Terminal(after) : n(s) < k}
           late == {s \in Terminal(after) : n(s) >= k}
           gaps == {MaxRuns - s : s \in late}
<1>1. \A s \in Terminal(after) : s \in 1..MaxRuns /\ MaxRuns - s \in Nat
  BY ConfigNat DEF Terminal, Run
<1>2. gaps \subseteq Nat /\ gaps # {}
  BY <1>1
<1>3. PICK gap \in gaps : \A g \in gaps : gap <= g
  <2> HIDE DEF gaps
  <2> QED
    BY <1>2, LeastNumber
<1>4. PICK m \in late : gap = MaxRuns - m
  BY <1>3
<1>5. \A s \in late : s <= m
  BY <1>1, <1>3, <1>4, ConfigNat
<1>6. \A s \in Newer(m, after) : s \in A
  <2>1. SUFFICES ASSUME NEW s \in Newer(m, after) PROVE s \in A
    OBVIOUS
  <2>2. s \in Terminal(after) /\ s > m /\ s \in Nat /\ m \in Nat /\ n(s) \in Nat
    BY <1>1, <1>4, <2>1, NewerIsFinite DEF Newer
  <2>3. s \notin late
    BY <1>5, <2>2
  <2> QED
    BY <2>2, <2>3
<1>7. Newer(m, after) \in SUBSET A /\ A \in SUBSET Terminal(after)
  BY <1>6
<1>8. IsFiniteSet(A)
  <2> HIDE DEF A
  <2> QED
    BY <1>7, NewerIsFinite, FS_Subset
<1>9. n(m) <= Cardinality(A) /\ n(m) >= k /\ n(m) \in Nat /\ Cardinality(A) \in Nat
  <2>1. n(m) >= k /\ n(m) \in Nat
    BY <1>4, NewerIsFinite
  <2> HIDE DEF A, late
  <2> QED
    BY <1>7, <1>8, <2>1, FS_Subset, FS_CardinalityType
<1> HIDE DEF A, n
<1>10. Cardinality(A) >= k
  BY <1>9
<1> QED
  BY <1>10 DEF A, n

(* A page with a run on a later one is full.                               *)
LEMMA PageBeforeAnotherIsFull ==
    ASSUME NEW after, NEW p \in Nat, NEW r \in Terminal(after),
           Cardinality(Newer(r, after)) >= (p + 1) * PageSize
    PROVE  Cardinality(PageOf(p + 1, after)) >= PageSize
<1> DEFINE lo == p * PageSize
           hi == (p + 1) * PageSize
           n(s) == Cardinality(Newer(s, after))
           A == {s \in Terminal(after) : n(s) < hi}
           B == {s \in Terminal(after) : n(s) < lo}
<1>1. lo \in Nat /\ hi \in Nat /\ hi = lo + PageSize /\ ((p + 1) - 1) * PageSize = lo
      /\ PageSize \in Nat
  BY ConfigNat
<1>2. Cardinality(A) >= hi
  <2> HIDE DEF hi
  <2> QED
    BY <1>1, ManyAreEarly DEF hi
<1>3. Cardinality(B) <= lo
  <2> HIDE DEF lo
  <2> QED
    BY <1>1, FewAreEarly DEF lo
<1>4. \A s \in Terminal(after) : n(s) \in Nat
  BY NewerIsFinite
<1>5. PageOf(p + 1, after) = A \ B
  <2>1. \A s : s \in PageOf(p + 1, after)
                <=> s \in Terminal(after) /\ ((p + 1) - 1) * PageSize <= n(s) /\ n(s) < hi
    BY DEF PageOf, Newer
  <2> HIDE DEF lo, hi, n
  <2> QED
    BY <1>1, <1>4, <2>1
<1>6. B \in SUBSET A /\ A \in SUBSET Terminal(after)
  <2> HIDE DEF lo, hi, n
  <2> QED
    BY <1>1, <1>4
<1> HIDE DEF A, B
<1>7. IsFiniteSet(A) /\ IsFiniteSet(B)
  BY <1>6, NewerIsFinite, FS_Subset
<1>8. A \cap B = B
  BY <1>6
<1>9. Cardinality(A \ B) = Cardinality(A) - Cardinality(B)
  BY <1>7, <1>8, FS_Difference
<1>10. Cardinality(A) \in Nat /\ Cardinality(B) \in Nat
  BY <1>7, FS_CardinalityType
<1> HIDE DEF lo, hi
<1>11. lo \in Nat /\ hi = lo + PageSize /\ PageSize \in Nat
  BY <1>1
<1>12. Cardinality(A) - Cardinality(B) >= PageSize
  BY <1>2, <1>3, <1>10, <1>11
<1> QED
  BY <1>5, <1>9, <1>12

-----------------------------------------------------------------------------

LEMMA CursorKept ==
    ASSUME NEW doc \in Document, NEW e \in Event, NEW state, NEW now_ \in Nat, NEW page,
           NEW incident, NEW recovery
    PROVE  /\ MarkStatus(doc, e, state).cursor = doc.cursor
           /\ MarkAnalysis(doc, e, state).cursor = doc.cursor
           /\ MarkStale(doc, e).cursor = doc.cursor
           /\ WithIncident(doc).cursor = doc.cursor
           /\ WithDeliveryBackoff(doc, now_).cursor = doc.cursor
           /\ WithProviderBackoff(doc, now_).cursor = doc.cursor
           /\ [doc EXCEPT !.page = page].cursor = doc.cursor
           /\ [doc EXCEPT !.incident = incident].cursor = doc.cursor
           /\ [doc EXCEPT !.recovery = recovery].cursor = doc.cursor
           /\ [doc EXCEPT !.recovery = recovery, !.incident = incident].cursor = doc.cursor
BY DEF MarkStatus, MarkAnalysis, MarkStale, MarkSeen, WithIncident, WithDeliveryBackoff,
       WithProviderBackoff, Document

(* A settled failure stays settled.                                        *)
LEMMA SettledStays ==
    ASSUME OrderInv, RedStep, NEW e \in RedEvents, SettledIn(disk, e)
    PROVE  SettledIn(disk', e)
BY DEF SettledIn, RedStep, Same, Intends, Repeats, Confirms, GivesUp, Analyses, Notes, Becomes,
       IsSettledDelivery, OrderInv, RecordsInv

LEMMA SaveKeepsCursor ==
    ASSUME CursorInv, pc \notin Waiting, UNCHANGED <<lane, scan>>,
           NEW doc, Save(doc), doc.cursor \in {mem.cursor, cur.cursor}
    PROVE  CursorInv' /\ CursorStays
<1>1. disk' = doc /\ mem' = doc /\ cur' = doc
  BY DEF Save
<1>2. CASE disk.cursor # NoCursor
  BY <1>1, <1>2 DEF CursorInv, CursorStays
<1>3. CASE disk.cursor = NoCursor
  <2>1. lane # "webhook" => doc.cursor \in {NoCursor, scan.cursor}
    BY DEF CursorInv
  <2> QED
    BY <1>1, <1>3, <2>1 DEF CursorInv, CursorStays
<1> QED
  BY <1>2, <1>3

LEMMA LeaveKeepsWindow ==
    ASSUME PageInv, NEW state \in Waiting, Leave(state), UNCHANGED world
    PROVE  WindowInv'
BY DEF Leave, world, WindowInv, PageInv, CursorInv, OwedInv, Backlog, Waiting

LEMMA ReturnKeepsWindow ==
    ASSUME PageInv, CursorInv, pc \notin Waiting, NEW doc, SaveAndReturn(doc), UNCHANGED world,
           doc.cursor = cur.cursor
    PROVE  WindowInv' /\ CursorStays
<1>1. Leave("idle") /\ disk' = doc
  BY DEF SaveAndReturn
<1>2. CursorStays
  BY <1>1 DEF CursorStays, CursorInv
<1> QED
  BY <1>1, <1>2, LeaveKeepsWindow DEF Waiting

LEMMA FailedKeepsWindow ==
    ASSUME WindowInv, pc \notin Waiting, NEW doc, ReturnFailed(doc), UNCHANGED world,
           doc.cursor = cur.cursor,
           \/ UNCHANGED disk /\ (lane # "webhook" => mem' = mem)
           \/ disk' = doc /\ (lane # "webhook" => mem' = doc)
    PROVE  WindowInv' /\ CursorStays
<1>1. CursorStays
  BY DEF CursorStays, WindowInv, CursorInv
<1>2. CASE lane = "webhook"
  BY <1>1, <1>2, LeaveKeepsWindow DEF WindowInv, ReturnFailed, Waiting
<1>3. CASE lane # "webhook"
  <2>1. /\ pc' = "failed" /\ cur' = doc /\ todo' = {} /\ attempted' = {}
        /\ UNCHANGED <<lane, base, now, scan, ci, clock>>
    BY <1>3 DEF ReturnFailed, callVars, world
  <2>2. PageInv'
    BY <2>1 DEF PageInv, Waiting, WindowInv
  <2>3. CursorInv'
    BY <1>3, <2>1 DEF CursorInv, WindowInv, Waiting
  <2>4. OwedInv'
    BY <2>1 DEF OwedInv, Backlog
  <2> QED
    BY <1>1, <2>2, <2>3, <2>4 DEF WindowInv
<1> QED
  BY <1>2, <1>3

(* The runs a scan owes are those of the same provider, window and time.   *)
LEMMA OwedIsSame ==
    ASSUME UNCHANGED <<ci, now, scan>>
    PROVE  /\ Owed' = Owed
           /\ \A r \in Run : CandidateOf(r)' = CandidateOf(r) /\ ci'[r] = ci[r]
           /\ \A r \in Run : Newer(r, CreatedAfterWithOverlap(scan.cursor))'
                              = Newer(r, CreatedAfterWithOverlap(scan.cursor))
BY DEF Owed, CandidateOf, Newer, Terminal, CreatedAfterWithOverlap

LEMMA OwedStays ==
    ASSUME OrderInv, RedStep, OwedInv, UNCHANGED <<ci, now, scan, lane>>,
           pc \notin Waiting \cup {"list", "loop", "failed"},
           pc' \notin {"list", "loop"},
           \A c \in todo : c \in todo' \/ c.event \notin RedEvents \/ SettledIn(disk', c.event)
    PROVE  OwedInv'
<1>1. SUFFICES ASSUME Backlog', FromFirstPage', NEW r \in Owed'
      PROVE  \/ SettledIn(disk', ci'[r].event) \/ CandidateOf(r)' \in todo' \/ Unlisted(r)'
  BY DEF OwedInv
<1>2. Backlog /\ FromFirstPage
  BY <1>1 DEF Backlog, FromFirstPage
<1>3. r \in Owed /\ r \in Run /\ CandidateOf(r)' = CandidateOf(r) /\ ci'[r] = ci[r]
      /\ ci[r].event \in RedEvents
  BY <1>1, OwedIsSame DEF Owed
<1>4. SettledIn(disk, ci[r].event) \/ CandidateOf(r) \in todo \/ Unlisted(r)
  BY <1>2, <1>3 DEF OwedInv
<1>5. CASE SettledIn(disk, ci[r].event)
  <2> DEFINE e == ci[r].event
  <2>1. e \in RedEvents /\ ci'[r].event = e /\ SettledIn(disk, e)
    BY <1>3, <1>5
  <2> HIDE DEF e
  <2>2. SettledIn(disk', e)
    BY <2>1, SettledStays
  <2> QED
    BY <2>1, <2>2 DEF SettledIn
<1>6. CASE CandidateOf(r) \in todo
  <2>1. CandidateOf(r).event = ci[r].event
    BY DEF CandidateOf
  <2> QED
    BY <1>3, <1>6, <2>1 DEF SettledIn
<1>7. CASE Unlisted(r)
  <2>1. Cardinality(Newer(r, CreatedAfterWithOverlap(scan.cursor)))'
          = Cardinality(Newer(r, CreatedAfterWithOverlap(scan.cursor)))
    BY <1>3, OwedIsSame
  <2> QED
    BY <1>7, <2>1 DEF Unlisted
<1> QED
  BY <1>4, <1>5, <1>6, <1>7

(* The handling of a candidate leaves it settled when it is done with.     *)
LEMMA HandlingKeepsPage ==
    ASSUME OrderInv, RedStep, PageInv, OwedInv, NEW c \in todo,
           UNCHANGED <<world, callVars, scan>>,
           pc \notin Waiting \cup {"list", "loop", "failed"},
           pc' \notin Waiting \cup {"list", "loop"},
           UNCHANGED pageVars \/ (Finish(c) /\ (c.event \in RedEvents => SettledIn(disk', c.event)))
    PROVE  PageInv' /\ OwedInv'
<1>1. UNCHANGED <<ci, clock, lane, now, scan>>
  BY DEF world, callVars
<1>2. \A d \in todo : d \in todo' \/ (d = c /\ (c.event \in RedEvents => SettledIn(disk', c.event)))
  BY DEF pageVars, Finish
<1>3. OwedInv'
  BY <1>1, <1>2, OwedStays
<1>4. \A e \in attempted' \cap RedEvents : SettledIn(disk', e)
  <2>1. SUFFICES ASSUME NEW e \in RedEvents, e \in attempted' PROVE SettledIn(disk', e)
    OBVIOUS
  <2>2. CASE e \in attempted
    BY <2>2, SettledStays DEF PageInv
  <2>3. CASE e \notin attempted
    <3>1. e = c.event /\ (c.event \in RedEvents => SettledIn(disk', c.event))
      BY <2>1, <2>3 DEF pageVars, Finish
    <3> QED
      BY <3>1 DEF SettledIn
  <2> QED
    BY <2>2, <2>3
<1>5. PageInv'
  BY <1>1, <1>4 DEF PageInv
<1> QED
  BY <1>3, <1>5

(* No re-run takes a run out of the listing; what ends is listed first.    *)
LEMMA WorldKeepsWindow ==
    ASSUME MaxAttempts <= 1, TypeOK, WindowInv, Provider \/ Tick
    PROVE  WindowInv' /\ CursorStays
<1>1. UNCHANGED observerVars /\ clock \in Nat /\ clock' \in Nat /\ clock' >= clock
  <2>1. clock \in Nat
    BY DEF TypeOK, WorldType
  <2>2. CASE Provider
    <3>1. UNCHANGED <<clock, observerVars>>
      BY <2>2 DEF Provider, StartRun, EndRun, RerunRun
    <3> QED
      BY <2>1, <3>1
  <2>3. CASE Tick
    BY <2>1, <2>3 DEF Tick
  <2> QED
    BY <2>2, <2>3
<1>2. UNCHANGED <<disk, pc, lane, mem, cur, todo, attempted, now, scan>> /\ now \in Nat
  BY <1>1 DEF observerVars, TypeOK, CallType
<1>3. CursorInv' /\ CursorStays
  BY <1>2 DEF WindowInv, CursorInv, CursorStays
<1> DEFINE Goes(r) ==
                /\ ci[r].phase # "done" /\ ci'[r].phase = "done" => ci'[r].updated = clock
                /\ ci[r].phase = "done" => ci'[r] = ci[r]
                /\ ci'[r].phase # "absent" => ci'[r].attempt > 0
<1>4. \A r \in Run : Goes(r)
  <2>1. ci \in [Run -> CIRun] /\ \A r \in Run : ci[r].attempt \in Nat
    BY DEF TypeOK, WorldType, CIRun
  <2>2. \A r \in Run : ci[r].phase # "absent" => ci[r].attempt > 0
    BY DEF WindowInv, PageInv
  <2>3. CASE Tick
    BY <2>2, <2>3 DEF Tick, ciVars
  <2>4. ASSUME NEW s \in Run, NEW run \in CIRun, ci' = [ci EXCEPT ![s] = run],
               run.attempt > 0, ci[s].phase # "done",
               run.phase = "done" => run.updated = clock
        PROVE  \A r \in Run : Goes(r)
    BY <2>1, <2>2, <2>4
  <2>5. ASSUME NEW s \in Run, StartRun(s) PROVE \A r \in Run : Goes(r)
    <3> DEFINE run == [ci[s] EXCEPT !.phase = "running", !.created = clock, !.attempt = 1]
    <3>1. ci[s] \in CIRun /\ ci[s].phase = "absent"
      BY <2>1, <2>5 DEF StartRun
    <3>2. run \in CIRun /\ run.attempt = 1 /\ run.phase = "running"
      BY <1>1, <3>1 DEF CIRun
    <3>3. ci' = [ci EXCEPT ![s] = run]
      BY <2>1, <2>5 DEF StartRun
    <3> HIDE DEF run, Goes
    <3>4. run.attempt > 0 /\ run.phase # "done" /\ ci[s].phase # "done"
      BY <3>1, <3>2
    <3> QED
      BY <2>4, <3>2, <3>3, <3>4
  <2>6. ASSUME NEW s \in Run, NEW e \in Event, EndRun(s, e) PROVE \A r \in Run : Goes(r)
    <3> DEFINE run == [ci[s] EXCEPT !.phase = "done", !.event = e, !.updated = clock]
    <3>1. ci[s] \in CIRun /\ ci[s].phase = "running"
      BY <2>1, <2>6 DEF EndRun
    <3>2. run \in CIRun /\ run.attempt = ci[s].attempt /\ run.updated = clock
      BY <1>1, <3>1 DEF CIRun
    <3>3. ci' = [ci EXCEPT ![s] = run] /\ run.attempt > 0
      BY <2>2, <2>6, <3>1, <3>2 DEF EndRun
    <3> HIDE DEF run, Goes
    <3> QED
      BY <2>4, <3>1, <3>2, <3>3
  <2>7. ASSUME NEW s \in Run, RerunRun(s) PROVE FALSE
    <3>1. ci[s].phase # "absent" /\ ci[s].attempt < MaxAttempts /\ ci[s].attempt \in Nat
      BY <2>1, <2>7 DEF RerunRun
    <3> QED
      BY <2>2, <3>1, ConfigAssumption
  <2> HIDE DEF Goes
  <2> QED
    BY <2>3, <2>5, <2>6, <2>7 DEF Provider
<1>5. PageInv'
  BY <1>1, <1>2, <1>4 DEF WindowInv, PageInv, SettledIn
<1>6. OwedInv'
  <2>1. SUFFICES ASSUME Backlog', FromFirstPage', NEW r \in Owed'
        PROVE  \/ SettledIn(disk', ci'[r].event) \/ CandidateOf(r)' \in todo' \/ Unlisted(r)'
    BY DEF OwedInv
  <2>2. Backlog /\ FromFirstPage /\ now <= clock
    BY <1>2, <2>1 DEF Backlog, FromFirstPage, WindowInv, PageInv
  <2>3. r \in Run /\ ci'[r].phase = "done" /\ ci'[r].updated < now
    BY <1>2, <2>1 DEF Owed
  <2>4. ci[r].phase = "done" /\ ci'[r] = ci[r]
    BY <1>1, <1>2, <1>4, <2>2, <2>3
  <2>5. r \in Owed /\ CandidateOf(r)' = CandidateOf(r)
    BY <1>2, <2>1, <2>3, <2>4 DEF Owed, CandidateOf, CreatedAfterWithOverlap
  <2>6. SettledIn(disk, ci[r].event) \/ CandidateOf(r) \in todo \/ Unlisted(r)
    BY <2>2, <2>5 DEF WindowInv, OwedInv
  <2> DEFINE after == CreatedAfterWithOverlap(scan.cursor)
  <2>7. Cardinality(Newer(r, after)) <= Cardinality(Newer(r, after)')
    <3>1. Newer(r, after) \in SUBSET Newer(r, after)'
      BY <1>2, <1>4 DEF Newer, Terminal, CreatedAfterWithOverlap
    <3>2. IsFiniteSet(Newer(r, after)')
      <4>1. IsFiniteSet(1..MaxRuns)
        BY ConfigNat, FS_Interval
      <4>2. Newer(r, after)' \in SUBSET (1..MaxRuns)
        BY DEF Newer, Terminal, Run
      <4> QED
        BY <4>1, <4>2, FS_Subset
    <3> HIDE DEF after
    <3> QED
      BY <3>1, <3>2, FS_Subset
  <2>8. Cardinality(Newer(r, after)) \in Nat /\ Cardinality(Newer(r, after)') \in Nat
        /\ scan.fetched * PageSize \in Nat
    <3>1. Cardinality(Newer(r, after)) \in Nat
      BY NewerIsFinite
    <3>2. Cardinality(Newer(r, after)') \in Nat
      <4>1. IsFiniteSet(1..MaxRuns)
        BY ConfigNat, FS_Interval
      <4>2. Newer(r, after)' \in SUBSET (1..MaxRuns)
        BY DEF Newer, Terminal, Run
      <4>3. IsFiniteSet(Newer(r, after)')
        BY <4>1, <4>2, FS_Subset
      <4> QED
        BY <4>3, FS_CardinalityType
    <3>3. scan.fetched \in Nat /\ PageSize \in Nat
      BY ConfigNat DEF TypeOK, CallType, Scan
    <3> QED
      BY <3>1, <3>2, <3>3
  <2>9. Unlisted(r) => Unlisted(r)'
    <3> DEFINE old == Cardinality(Newer(r, after))
               new == Cardinality(Newer(r, after)')
               bound == scan.fetched * PageSize
    <3>1. old <= new /\ old \in Nat /\ new \in Nat /\ bound \in Nat
      BY <2>7, <2>8
    <3> HIDE DEF old, new, bound
    <3>2. old >= bound => new >= bound
      BY <3>1
    <3> QED
      BY <1>2, <3>2 DEF Unlisted, old, new, bound
  <2> QED
    BY <1>2, <2>4, <2>5, <2>6, <2>9 DEF SettledIn
<1> QED
  BY <1>3, <1>5, <1>6 DEF WindowInv

LEMMA ScanCursorIsKept ==
    ASSUME NEW doc, doc.cursor # NoCursor
    PROVE  ScanCursor(doc) = doc.cursor
BY DEF ScanCursor

LEMMA BeginningKeepsWindow ==
    ASSUME TypeOK, WindowInv, PollBegin \/ ListHot \/ Webhook
    PROVE  WindowInv' /\ CursorStays
<1>1. /\ disk \in Document /\ cur \in Document /\ clock \in Nat
      /\ \A r \in Run : ci[r].phase # "absent" => ci[r].attempt > 0
  BY DEF TypeOK, DocumentsType, WorldType, WindowInv, PageInv
<1>2. disk' = disk /\ ci' = ci /\ clock' = clock
  BY DEF PollBegin, ListHot, Webhook, WebhookBegin, world
<1>3. CursorStays
  BY <1>2 DEF CursorStays
<1>4. ASSUME PollBegin PROVE WindowInv'
  <2>1. /\ now' = clock /\ mem' = disk /\ lane' = "hot" /\ pc' = "list" /\ todo' = todo
        /\ attempted' = attempted /\ pc = "idle" /\ todo = {}
    BY <1>4 DEF PollBegin, pageVars, WindowInv, PageInv, Waiting
  <2>2. scan'.cursor = ScanCursor(disk) /\ scan'.fetched = 0
    BY <1>4 DEF PollBegin
  <2>3. cur'.cursor = ScanCursor(disk)
    BY <1>1, <1>4 DEF PollBegin, Document
  <2>4. PageInv'
    BY <1>1, <1>2, <2>1, <2>2 DEF PageInv, SettledIn, WindowInv, Waiting
  <2>5. CursorInv'
    BY <1>2, <2>1, <2>2, <2>3, ScanCursorIsKept DEF CursorInv
  <2>6. OwedInv'
    BY <2>1 DEF OwedInv, Backlog
  <2> QED
    BY <2>4, <2>5, <2>6 DEF WindowInv
<1>5. ASSUME ListHot PROVE WindowInv'
  <2>1. /\ pc = "list" /\ lane = "hot" /\ lane' = "hot" /\ pc' = "reconcile" /\ attempted' = {}
        /\ mem' = mem /\ now' = now /\ scan' = scan /\ cur' = WithIncident(cur)
    BY <1>5 DEF ListHot, BeginReconcile
  <2>2. cur'.cursor = cur.cursor
    BY <1>1, <2>1 DEF WithIncident, Document
  <2>3. PageInv'
    BY <1>2, <2>1 DEF PageInv, WindowInv, Waiting
  <2>4. CursorInv'
    BY <1>2, <2>1, <2>2 DEF CursorInv, WindowInv, Waiting
  <2>5. OwedInv'
    BY <2>1 DEF OwedInv, Backlog
  <2> QED
    BY <2>3, <2>4, <2>5 DEF WindowInv
<1>6. ASSUME Webhook PROVE WindowInv'
  <2>1. PICK candidate \in hooks : WebhookBegin(candidate)
    BY <1>6 DEF Webhook
  <2>2. /\ lane' = "webhook" /\ pc' = "reconcile" /\ attempted' = {}
        /\ mem' = disk /\ now' = clock /\ scan' = scan /\ cur' = WithIncident(disk)
    BY <2>1 DEF WebhookBegin, BeginReconcile
  <2>3. cur'.cursor = disk.cursor
    BY <1>1, <2>2 DEF WithIncident, Document
  <2>4. PageInv'
    BY <1>1, <1>2, <2>2 DEF PageInv, Waiting
  <2>5. CursorInv'
    BY <1>2, <2>2, <2>3 DEF CursorInv
  <2>6. OwedInv'
    BY <2>2 DEF OwedInv, Backlog
  <2> QED
    BY <2>4, <2>5, <2>6 DEF WindowInv
<1> QED
  BY <1>3, <1>4, <1>5, <1>6

(* A page takes up what it lists and leaves the rest to the pages to come, *)
(* of which there are some if anything is left.                            *)
LEMMA ListBacklogKeepsWindow ==
    ASSUME TypeOK, WindowInv, ListBacklog
    PROVE  WindowInv' /\ CursorStays
<1> DEFINE after == CreatedAfterWithOverlap(scan.cursor)
           page == PageOf(scan.page, after)
<1>1. /\ pc = "list" /\ lane = "backlog" /\ lane' = lane /\ pc' = "reconcile" /\ attempted' = {}
      /\ mem' = mem /\ now' = now /\ cur' = WithIncident(cur) /\ disk' = disk
      /\ ci' = ci /\ clock' = clock
      /\ todo' = {CandidateOf(r) : r \in page}
      /\ scan' = [scan EXCEPT !.fetched = @ + 1, !.more = Cardinality(page) >= PageSize]
  BY DEF ListBacklog, BeginReconcile, world
<1>2. scan \in Scan /\ scan.page \in Nat \ {0} /\ scan.fetched \in Nat /\ cur \in Document
      /\ PageSize \in Nat
  BY ConfigNat DEF TypeOK, CallType, DocumentsType, Scan
<1>3. /\ scan'.cursor = scan.cursor /\ scan'.page = scan.page
      /\ scan'.fetched = scan.fetched + 1 /\ scan'.more = (Cardinality(page) >= PageSize)
  <2> HIDE DEF page
  <2> QED
    BY <1>1, <1>2 DEF Scan
<1>4. cur'.cursor = cur.cursor
  BY <1>1, <1>2 DEF WithIncident, Document
<1>5. PageInv'
  BY <1>1 DEF PageInv, WindowInv, Waiting
<1>6. CursorInv' /\ CursorStays
  BY <1>1, <1>3, <1>4 DEF CursorInv, CursorStays, WindowInv, Waiting
<1>7. OwedInv'
  <2>1. SUFFICES ASSUME Backlog', FromFirstPage', NEW r \in Owed'
        PROVE  \/ SettledIn(disk', ci'[r].event) \/ CandidateOf(r)' \in todo' \/ Unlisted(r)'
    BY DEF OwedInv
  <2>2. scan.page = scan.fetched + 1 /\ Backlog /\ FromFirstPage
    BY <1>1, <1>2, <1>3, <2>1 DEF Backlog, FromFirstPage, Waiting
  <2>3. r \in Owed /\ CandidateOf(r)' = CandidateOf(r)
    BY <1>1, <1>3, <2>1 DEF Owed, CandidateOf, CreatedAfterWithOverlap
  <2>4. SettledIn(disk, ci[r].event) \/ Unlisted(r)
    BY <1>1, <2>2, <2>3 DEF WindowInv, OwedInv, PageInv
  <2>5. CASE SettledIn(disk, ci[r].event)
    BY <1>1, <2>5 DEF SettledIn
  <2>6. CASE Unlisted(r)
    <3> DEFINE n == Cardinality(Newer(r, after))
               p == scan.fetched
    <3>1. r \in Terminal(after) /\ n >= p * PageSize /\ n \in Nat /\ p \in Nat
      BY <1>2, <2>3, <2>6, NewerIsFinite DEF Owed, Terminal, Unlisted
    <3>2. CASE n < (p + 1) * PageSize
      <4>1. ((p + 1) - 1) * PageSize = p * PageSize
        BY <1>2
      <4>2. r \in PageOf(p + 1, after)
        BY <3>1, <3>2, <4>1 DEF PageOf, Newer
      <4> QED
        BY <1>1, <2>2, <2>3, <4>2
    <3>3. CASE n >= (p + 1) * PageSize
      <4>1. Cardinality(PageOf(p + 1, after)) >= PageSize
        <5> HIDE DEF after, p
        <5> QED
          BY <3>1, <3>3, PageBeforeAnotherIsFull
      <4>2. scan'.more /\ scan'.fetched = p + 1
        BY <1>3, <2>2, <4>1
      <4>3. Newer(r, CreatedAfterWithOverlap(scan.cursor))' = Newer(r, after)
        BY <1>1, <1>3 DEF Newer, Terminal, CreatedAfterWithOverlap
      <4>4. Unlisted(r)'
        BY <3>3, <4>2, <4>3 DEF Unlisted
      <4> QED
        BY <4>4
    <3>4. (p + 1) * PageSize \in Nat
      BY <1>2
    <3> QED
      BY <3>1, <3>2, <3>3, <3>4
  <2> QED
    BY <2>4, <2>5, <2>6
<1> QED
  BY <1>5, <1>6, <1>7 DEF WindowInv

LEMMA PagingKeepsWindow ==
    ASSUME TypeOK, EffectsInv, WindowInv, EnterBacklog \/ SaveProgress \/ NextBacklogPage
    PROVE  WindowInv' /\ CursorStays
<1>1. /\ UNCHANGED <<ci, clock, now, todo, attempted>> /\ todo = {} /\ pc \notin Waiting
      /\ pc' \in {"loop", "list"} /\ lane' = "backlog"
  BY DEF EnterBacklog, SaveProgress, NextBacklogPage, world, pageVars, LaneDone, callVars,
         WindowInv, PageInv, Waiting
<1>2. scan \in Scan /\ scan.page \in Nat /\ scan.fetched \in Nat /\ cur \in Document
      /\ scan.cursor = scan'.cursor
  BY DEF TypeOK, CallType, DocumentsType, Scan, EnterBacklog, SaveProgress, NextBacklogPage
<1>3. OwedInv'
  <2>1. SUFFICES ASSUME Backlog', FromFirstPage', NEW r \in Owed'
        PROVE  SettledIn(disk', ci'[r].event) \/ Unlisted(r)'
    BY DEF OwedInv
  <2>2. r \in Owed
    BY <1>1, <1>2, <2>1 DEF Owed, CreatedAfterWithOverlap
  <2>3. Newer(r, CreatedAfterWithOverlap(scan.cursor))'
          = Newer(r, CreatedAfterWithOverlap(scan.cursor))
    BY <1>1, <1>2 DEF Newer, Terminal, CreatedAfterWithOverlap
  <2>4. ASSUME EnterBacklog PROVE Unlisted(r)'
    <3>1. scan' = scan /\ scan.fetched = 0 /\ pc' = "loop"
      BY <2>4 DEF EnterBacklog, WindowInv, PageInv, LaneDone, Waiting
    <3>2. Cardinality(Newer(r, CreatedAfterWithOverlap(scan.cursor))) \in Nat /\ PageSize \in Nat
      BY NewerIsFinite, ConfigNat
    <3> QED
      BY <2>3, <3>1, <3>2 DEF Unlisted
  <2>5. ASSUME SaveProgress PROVE SettledIn(disk', ci'[r].event) \/ Unlisted(r)'
    <3>1. pc = "loop" /\ pc' = "list" /\ scan' = scan /\ lane = "backlog"
      BY <2>5 DEF SaveProgress, WindowInv, PageInv
    <3>2. SettledIn(disk, ci[r].event) \/ Unlisted(r)
      BY <1>1, <2>1, <2>2, <3>1 DEF WindowInv, OwedInv, Backlog, FromFirstPage, Waiting
    <3>3. disk'.seen = disk.seen
      BY <1>1, <1>2, <2>5 DEF SaveProgress, Save, EffectsInv, CopiesAgree, Document
    <3> QED
      BY <1>1, <2>3, <3>1, <3>2, <3>3 DEF Unlisted, SettledIn
  <2>6. ASSUME NextBacklogPage PROVE SettledIn(disk', ci'[r].event) \/ Unlisted(r)'
    <3>1. pc = "reconcile" /\ pc' = "loop" /\ lane = "backlog" /\ disk' = disk
      BY <2>6 DEF NextBacklogPage, LaneDone, docVars
    <3>2. scan'.page = scan.page + 1 /\ scan'.fetched = scan.fetched /\ scan'.more = scan.more
      BY <1>2, <2>6 DEF NextBacklogPage, Scan
    <3>3. scan.page = scan.fetched
      BY <1>2, <2>1, <3>1, <3>2 DEF FromFirstPage
    <3>4. SettledIn(disk, ci[r].event) \/ Unlisted(r)
      BY <1>1, <2>2, <3>1, <3>3 DEF WindowInv, OwedInv, Backlog, FromFirstPage, Waiting
    <3> QED
      BY <1>1, <2>3, <3>1, <3>2, <3>4 DEF Unlisted, SettledIn
  <2> QED
    BY <2>4, <2>5, <2>6
<1>4. CursorInv' /\ CursorStays
  <2>1. CASE SaveProgress
    <3> DEFINE doc == [cur EXCEPT !.page = scan.page, !.cursor = scan.cursor]
    <3>1. Save(doc) /\ lane' = lane /\ scan' = scan /\ lane = "backlog"
      BY <2>1 DEF SaveProgress, callVars, WindowInv, PageInv
    <3>2. doc.cursor = scan.cursor
      BY <1>2 DEF Document
    <3> HIDE DEF doc
    <3> QED
      BY <1>1, <3>1, <3>2 DEF Save, CursorInv, CursorStays, WindowInv
  <2>2. CASE ~SaveProgress
    <3>1. UNCHANGED <<disk, mem, cur>> /\ lane # "webhook"
      BY <2>2 DEF EnterBacklog, NextBacklogPage, docVars
    <3> QED
      BY <1>1, <1>2, <3>1 DEF CursorInv, CursorStays, WindowInv
  <2> QED
    BY <2>1, <2>2
<1>5. PageInv'
  <2>1. \A e \in attempted \cap RedEvents : SettledIn(disk', e)
    <3>1. disk'.seen = disk.seen
      BY <1>1, <1>2 DEF EnterBacklog, NextBacklogPage, docVars, SaveProgress, Save,
         EffectsInv, CopiesAgree, Document
    <3> QED
      BY <3>1 DEF WindowInv, PageInv, SettledIn
  <2>2. pc' \in {"loop", "list"} => pc' \notin Waiting
    BY DEF Waiting
  <2> QED
    BY <1>1, <2>1, <2>2 DEF WindowInv, PageInv
<1> QED
  BY <1>3, <1>4, <1>5 DEF WindowInv

(* Whatever ends a poll or a webhook keeps the cursor, but for the end of  *)
(* a clean scan.                                                           *)
LEMMA EndingKeepsWindow ==
    ASSUME TypeOK, WindowInv, ScanTruncated \/ ScanFailed \/ WebhookDone
    PROVE  WindowInv' /\ CursorStays
<1>1. pc \notin Waiting /\ PageInv /\ CursorInv
  BY DEF ScanTruncated, ScanFailed, WebhookDone, LaneDone, Waiting, WindowInv
<1>2. cur \in Document
  BY DEF TypeOK, DocumentsType
<1>3. ASSUME ScanTruncated PROVE WindowInv' /\ CursorStays
  <2> DEFINE doc == [cur EXCEPT !.page = scan.page + 1]
  <2>1. SaveAndReturn(doc) /\ UNCHANGED world
    BY <1>3 DEF ScanTruncated
  <2>2. doc.cursor = cur.cursor
    BY <1>2 DEF Document
  <2> HIDE DEF doc
  <2> QED
    BY <1>1, <2>1, <2>2, ReturnKeepsWindow
<1>4. ASSUME ScanFailed PROVE WindowInv' /\ CursorStays
  <2> DEFINE doc == [cur EXCEPT !.page = scan.page]
  <2>1. SaveAndReturn(doc) /\ UNCHANGED world
    BY <1>4 DEF ScanFailed
  <2>2. doc.cursor = cur.cursor
    BY <1>2 DEF Document
  <2> HIDE DEF doc
  <2> QED
    BY <1>1, <2>1, <2>2, ReturnKeepsWindow
<1>5. ASSUME WebhookDone PROVE WindowInv' /\ CursorStays
  BY <1>1, <1>5, LeaveKeepsWindow DEF WebhookDone, Waiting, CursorStays
<1> QED
  BY <1>3, <1>4, <1>5

LEMMA CleanScanKeepsWindow ==
    ASSUME WindowInv, ScanClean
    PROVE  WindowInv'
BY LeaveKeepsWindow DEF ScanClean, SaveAndReturn, WindowInv, Waiting

LEMMA FaultKeepsWindow ==
    ASSUME ~AnalysisMayOverflow, TypeOK, WindowInv,
           \/ \E unavailable \in BOOLEAN : ListFails(unavailable)
           \/ DeliveryFails \/ BuildThrows \/ Crash \/ LeaseExpires
    PROVE  WindowInv' /\ CursorStays
<1>1. cur \in Document /\ now \in Nat
  BY DEF TypeOK, DocumentsType, CallType
<1>2. ASSUME NEW unavailable \in BOOLEAN, ListFails(unavailable)
      PROVE  WindowInv' /\ CursorStays
  <2> DEFINE kept == [cur EXCEPT !.page = scan.page]
  <2>1. kept \in Document /\ kept.cursor = cur.cursor
    BY <1>1 DEF Document, TypeOK, CallType, Scan
  <2>2. SaveAndReturn(IF unavailable THEN WithProviderBackoff(kept, now) ELSE kept)
        /\ UNCHANGED world /\ pc \notin Waiting
    BY <1>2 DEF ListFails, CatchTarget, Waiting
  <2> HIDE DEF kept
  <2>3. WithProviderBackoff(kept, now).cursor = cur.cursor
    BY <2>1 DEF WithProviderBackoff, Document
  <2> QED
    BY <2>1, <2>2, <2>3, ReturnKeepsWindow DEF WindowInv
<1>3. ASSUME DeliveryFails PROVE WindowInv' /\ CursorStays
  <2> DEFINE failed == WithDeliveryBackoff(cur, now)
  <2>1. failed.cursor = cur.cursor
    BY <1>1 DEF WithDeliveryBackoff, Document
  <2>2. /\ disk' = failed /\ ReturnFailed(failed) /\ pc \notin Waiting
        /\ lane # "webhook" => mem' = failed
        /\ UNCHANGED world
    BY <1>3 DEF DeliveryFails, Delivering, Waiting
  <2> HIDE DEF failed
  <2> QED
    BY <2>1, <2>2, FailedKeepsWindow
<1>4. ~BuildThrows
  BY DEF BuildThrows
<1>5. ASSUME Crash PROVE WindowInv' /\ CursorStays
  BY <1>5, LeaveKeepsWindow DEF Crash, Waiting, WindowInv, CursorStays
<1>6. ASSUME LeaseExpires PROVE WindowInv' /\ CursorStays
  BY <1>6 DEF LeaseExpires, Waiting, WindowInv, CursorStays, PageInv, CursorInv, OwedInv,
              Backlog, world, pageVars
<1> QED
  BY <1>2, <1>3, <1>4, <1>5, <1>6

(* A step of reconcileRuns that saves a document with the cursor there is. *)
LEMMA HandledKeepsWindow ==
    ASSUME OrderInv, RedStep, WindowInv, NEW c \in todo,
           UNCHANGED <<world, callVars, scan>>,
           pc \notin Waiting \cup {"list", "loop", "failed"},
           pc' \notin Waiting \cup {"list", "loop"},
           UNCHANGED pageVars \/ (Finish(c) /\ (c.event \in RedEvents => SettledIn(disk', c.event))),
           \/ UNCHANGED docVars
           \/ \E doc : Save(doc) /\ doc.cursor \in {mem.cursor, cur.cursor}
    PROVE  WindowInv' /\ CursorStays
<1>1. PageInv' /\ OwedInv'
  BY HandlingKeepsPage DEF WindowInv
<1>2. UNCHANGED <<lane, scan>> /\ pc \notin Waiting
  BY DEF callVars
<1>3. CASE UNCHANGED docVars
  BY <1>1, <1>2, <1>3 DEF docVars, WindowInv, CursorInv, CursorStays
<1>4. ASSUME NEW doc, Save(doc), doc.cursor \in {mem.cursor, cur.cursor}
      PROVE  WindowInv' /\ CursorStays
  BY <1>1, <1>2, <1>4, SaveKeepsCursor DEF WindowInv
<1> QED
  BY <1>3, <1>4

LEMMA SuppressingKeepsWindow ==
    ASSUME TypeOK, EffectsInv, OrderInv, RedStep, WindowInv, NEW c \in todo,
           \/ SkipRun(c) \/ SuppressStale(c) \/ SuppressQuiet(c)
           \/ SuppressSuccess(c) \/ StopForBackoff(c)
    PROVE  WindowInv' /\ CursorStays
<1> DEFINE e == c.event
           old == PresentOr(mem, cur)
<1>1. /\ pc = "reconcile" /\ pc \notin Waiting \cup {"list", "loop", "failed"}
      /\ pc \notin Waiting
  BY DEF SkipRun, SuppressStale, SuppressQuiet, SuppressSuccess, StopForBackoff, Current, Waiting
<1>2. /\ e \in Event /\ cur \in Document /\ old \in Document
      /\ cur.seen = disk.seen /\ old.seen = disk.seen
      /\ old.cursor \in {mem.cursor, cur.cursor}
  BY <1>1, HandlingFacts DEF PresentOr
<1>3. ASSUME SkipRun(c) PROVE WindowInv' /\ CursorStays
  <2>1. e \in RedEvents => SettledIn(disk, e)
    BY <1>2, <1>3 DEF SkipRun, Settled, SettledIn, WindowInv, PageInv
  <2>2. disk' = disk /\ UNCHANGED <<world, callVars, scan, docVars, pc>> /\ Finish(c)
    BY <1>3 DEF SkipRun, docVars
  <2>3. e \in RedEvents => SettledIn(disk', e)
    BY <2>1, <2>2
  <2> QED
    BY <1>1, <2>2, <2>3, HandledKeepsWindow
<1>4. ASSUME SuppressStale(c) PROVE WindowInv' /\ CursorStays
  <2> DEFINE doc == MarkStale(old, e)
  <2>1. doc.seen[e].status = "suppressed"
    BY <1>2, MarkStaleType
  <2>5. doc.cursor = old.cursor
    BY <1>2, CursorKept
  <2>2. Save(doc) /\ UNCHANGED <<world, callVars, scan, pc>> /\ Finish(c)
    BY <1>4 DEF SuppressStale
  <2> HIDE DEF doc, old
  <2>3. disk' = doc
    BY <2>2 DEF Save
  <2>4. SettledIn(disk', e)
    BY <2>1, <2>3 DEF SettledIn, IsSettledDelivery
  <2> QED
    BY <1>1, <1>2, <2>5, <2>2, <2>4, HandledKeepsWindow
<1>5. ASSUME e \notin RedEvents, Finish(c), UNCHANGED <<world, callVars, scan, pc>>,
             UNCHANGED docVars \/ Save(MarkStatus(cur, e, "suppressed"))
      PROVE  WindowInv' /\ CursorStays
  <2> DEFINE doc == MarkStatus(cur, e, "suppressed")
  <2>1. doc.cursor = cur.cursor
    BY <1>2 DEF MarkStatus, MarkSeen, Document
  <2>2. UNCHANGED docVars \/ Save(doc)
    BY <1>5
  <2> HIDE DEF doc
  <2> QED
    BY <1>1, <1>5, <2>1, <2>2, HandledKeepsWindow
<1>6. ASSUME SuppressQuiet(c) PROVE WindowInv' /\ CursorStays
  BY <1>5, <1>6, EventAssumption DEF SuppressQuiet
<1>7. ASSUME SuppressSuccess(c) PROVE WindowInv' /\ CursorStays
  BY <1>5, <1>7, EventAssumption DEF SuppressSuccess
<1>8. ASSUME StopForBackoff(c) PROVE WindowInv' /\ CursorStays
  <2> DEFINE doc == IF e \in GreenEvents THEN [cur EXCEPT !.recovery = RecoveryId(c)] ELSE cur
  <2>1. doc.cursor = cur.cursor
    BY <1>2 DEF Document
  <2>2. /\ ReturnFailed(doc) /\ UNCHANGED <<world, disk>>
        /\ lane # "webhook" => mem' = mem
    BY <1>8 DEF StopForBackoff
  <2> HIDE DEF doc
  <2> QED
    BY <1>1, <2>1, <2>2, FailedKeepsWindow
<1> QED
  BY <1>3, <1>4, <1>6, <1>7, <1>8

LEMMA StartingKeepsWindow ==
    ASSUME TypeOK, EffectsInv, OrderInv, RedStep, WindowInv, NEW c \in todo,
           StartStatus(c) \/ StartAnalysis(c) \/ BuildAnalysis(c)
    PROVE  WindowInv' /\ CursorStays
<1> DEFINE e == c.event
           old == PresentOr(mem, cur)
           active == [cur EXCEPT !.incident = "active"]
           other == PresentOr(mem, active)
<1>1. /\ pc \notin Waiting \cup {"list", "loop", "failed"} /\ pc \notin Waiting
      /\ pc' \notin Waiting \cup {"list", "loop"}
      /\ UNCHANGED <<world, callVars, scan, pageVars>>
  BY DEF StartStatus, StartAnalysis, BuildAnalysis, Current, Waiting
<1>2. /\ e \in Event /\ cur \in Document /\ mem \in Document /\ old \in Document
      /\ old.cursor \in {mem.cursor, cur.cursor}
  BY <1>1, HandlingFacts DEF PresentOr
<1>3. active \in Document /\ active.cursor = cur.cursor
  BY <1>2 DEF Document
<1>4. other \in Document /\ other.cursor \in {mem.cursor, cur.cursor}
  <2> HIDE DEF active
  <2> QED
    BY <1>2, <1>3 DEF PresentOr
<1>5. \/ Save(MarkStatus(old, e, "pending"))
      \/ Save(MarkAnalysis(other, e, "pending"))
      \/ Save(MarkAnalysis(old, e, "pending"))
  BY DEF StartStatus, StartAnalysis, BuildAnalysis
<1> HIDE DEF old, other, active
<1>6. /\ MarkStatus(old, e, "pending").cursor = old.cursor
      /\ MarkAnalysis(other, e, "pending").cursor = other.cursor
      /\ MarkAnalysis(old, e, "pending").cursor = old.cursor
  BY <1>2, <1>4 DEF MarkStatus, MarkAnalysis, MarkSeen, Document
<1>7. \E doc : Save(doc) /\ doc.cursor \in {mem.cursor, cur.cursor}
  BY <1>2, <1>4, <1>5, <1>6
<1> QED
  BY <1>1, <1>7, HandledKeepsWindow

LEMMA RecoveringKeepsWindow ==
    ASSUME TypeOK, EffectsInv, OrderInv, RedStep, WindowInv, NEW c \in todo, StartRecovery(c)
    PROVE  WindowInv' /\ CursorStays
<1> DEFINE named == [cur EXCEPT !.recovery = RecoveryId(c)]
           cleared == [cur EXCEPT !.recovery = NoEvent, !.incident = "clear"]
           pending == MarkStatus(named, RecoveryId(c), "pending")
<1>1. /\ pc \notin Waiting \cup {"list", "loop", "failed"}
      /\ pc' \notin Waiting \cup {"list", "loop"}
      /\ UNCHANGED <<world, callVars, scan>>
      /\ c.event \notin RedEvents
      /\ Finish(c) \/ UNCHANGED pageVars
      /\ cur \in Document
  BY EventAssumption DEF StartRecovery, Current, Waiting, TypeOK, DocumentsType
<1>2. cleared.cursor = cur.cursor
  BY <1>1 DEF Document
<1>3. named.cursor = cur.cursor
  BY <1>1 DEF Document
<1>4. pending.cursor = cur.cursor
  <2>1. RecoveryId(c) \in Event
    BY RecoveryIdType DEF StartRecovery
  <2>2. named \in Document
    BY <1>1, <2>1 DEF Document
  <2> HIDE DEF named
  <2> QED
    BY <1>3, <2>2 DEF MarkStatus, MarkSeen, Document
<1>5. Save(cleared) \/ Save(pending)
  BY DEF StartRecovery
<1> HIDE DEF cleared, pending
<1> QED
  BY <1>1, <1>2, <1>4, <1>5, HandledKeepsWindow

LEMMA DeliveringKeepsWindow ==
    ASSUME TypeOK, EffectsInv, OrderInv, RecoveringInv, RedStep, WindowInv, NEW c \in todo,
           SinkAccepts(c) \/ SinkReceives(c)
    PROVE  WindowInv' /\ CursorStays
<1> DEFINE e == c.event
           old == PresentOr(mem, cur)
<1>1. /\ pc \in Delivering /\ Newest(c)
      /\ pc \notin Waiting \cup {"list", "loop", "failed"} /\ pc \notin Waiting
      /\ pc' \notin Waiting \cup {"list", "loop"}
      /\ UNCHANGED <<world, callVars, scan>>
  BY DEF SinkAccepts, SinkReceives, Delivering, Waiting
<1>2. /\ e \in Event /\ cur \in Document /\ old \in Document
      /\ old.cursor \in {mem.cursor, cur.cursor}
  BY <1>1, HandlingFacts DEF PresentOr
<1>3. CASE SinkReceives(c)
  BY <1>1, <1>3, HandledKeepsWindow DEF SinkReceives
<1>4. CASE SinkAccepts(c)
  <2>1. Save(Acknowledged(c)) /\ (pc = "status" => UNCHANGED pageVars) /\ (pc # "status" => Finish(c))
    BY <1>4 DEF SinkAccepts
  <2>2. CASE pc = "status"
    <3> DEFINE told == MarkStatus(old, e, "delivered")
    <3>1. told \in Document
      BY <1>2, MarkStatusType DEF DeliveryState
    <3>2. told.cursor = old.cursor
      BY <1>2 DEF MarkStatus, MarkSeen, Document
    <3>3. Acknowledged(c) = [told EXCEPT !.incident = "active"]
      BY <2>2 DEF Acknowledged
    <3> HIDE DEF told
    <3>4. Acknowledged(c).cursor = old.cursor
      BY <3>1, <3>2, <3>3 DEF Document
    <3> QED
      BY <1>1, <1>2, <2>1, <2>2, <3>4, HandledKeepsWindow
  <2>3. CASE pc = "recovery"
    <3> DEFINE cleared == [cur EXCEPT !.recovery = NoEvent, !.incident = "clear"]
    <3>1. cleared \in Document /\ cleared.cursor = cur.cursor
      BY <1>2 DEF Document
    <3>2. Acknowledged(c) = MarkStatus(cleared, cur.recovery, "delivered")
      BY <2>3 DEF Acknowledged
    <3> HIDE DEF cleared
    <3>3. Acknowledged(c).cursor = cur.cursor
      BY <3>1, <3>2 DEF MarkStatus, MarkSeen, Document
    <3>4. e \in RedEvents => SettledIn(disk', e)
      BY <1>1, <2>3 DEF RecoveringInv
    <3> QED
      BY <1>1, <2>1, <2>3, <3>3, <3>4, HandledKeepsWindow
  <2>4. CASE pc = "analysis"
    <3> DEFINE doc == MarkAnalysis(old, e, "delivered")
    <3>1. Acknowledged(c) = doc
      BY <2>4 DEF Acknowledged
    <3>2. doc.cursor = old.cursor
      BY <1>2 DEF MarkAnalysis, MarkSeen, Document
    <3>3. e \in RedEvents /\ SettledIn(disk, e)
      BY <1>1, <2>4 DEF OrderInv, UnderWayInv, RecordsInv, SettledIn, IsSettledDelivery
    <3> HIDE DEF doc
    <3>4. SettledIn(disk', e)
      BY <3>3, SettledStays
    <3> QED
      BY <1>1, <1>2, <2>1, <2>4, <3>1, <3>2, <3>4, HandledKeepsWindow
  <2> QED
    BY <1>1, <2>2, <2>3, <2>4 DEF Delivering
<1> QED
  BY <1>3, <1>4

LEMMA StepKeepsRecovering ==
    ASSUME TypeOK, EffectsInv, RecoveringInv, [Next]_vars
    PROVE  RecoveringInv'
<1>1. SUFFICES ASSUME pc' = "recovery" PROVE RecoveringInv'
  BY DEF RecoveringInv
<1>2. CASE UNCHANGED <<pc, todo>>
  BY <1>2 DEF RecoveringInv, Newest
<1>3. ASSUME NEW c \in todo, StartRecovery(c) PROVE RecoveringInv'
  <2>1. todo' = todo /\ Newest(c) /\ c.event \notin RedEvents
    BY <1>1, <1>3, EventAssumption DEF StartRecovery, Current, pageVars
  <2>2. ASSUME NEW d \in todo', Newest(d)' PROVE d = c
    <3>1. d \in todo /\ Newest(d)
      BY <2>1, <2>2 DEF Newest
    <3> QED
      BY <2>1, <3>1, NewestIsUnique DEF EffectsInv
  <2> QED
    BY <2>1, <2>2 DEF RecoveringInv
<1>4. CASE UNCHANGED vars
  BY <1>2, <1>4 DEF vars
<1>5. CASE Provider \/ Tick
  BY <1>2, <1>5 DEF Provider, Tick, StartRun, EndRun, RerunRun, observerVars
<1>6. ~Scanning
  BY <1>1 DEF Scanning, PollBegin, ListHot, ListBacklog, BeginReconcile, EnterBacklog,
              SaveProgress, NextBacklogPage, ScanTruncated, ScanClean, ScanFailed, WebhookDone,
              SaveAndReturn, Leave
<1>7. ~Webhook
  BY <1>1 DEF Webhook, WebhookBegin, BeginReconcile
<1>8. ASSUME NEW c \in todo
      PROVE  /\ ~SkipRun(c) /\ ~SuppressStale(c) /\ ~SuppressQuiet(c) /\ ~SuppressSuccess(c)
             /\ ~StopForBackoff(c) /\ ~StartStatus(c) /\ ~StartAnalysis(c)
             /\ ~BuildAnalysis(c) /\ ~SinkAccepts(c)
  BY <1>1 DEF SkipRun, SuppressStale, SuppressQuiet, SuppressSuccess, StopForBackoff, StartStatus,
              StartAnalysis, BuildAnalysis, SinkAccepts, ReturnFailed, Leave, Current
<1>9. CASE Reconciling
  BY <1>3, <1>8, <1>9 DEF Reconciling
<1>10. CASE Faulty \/ LeaseExpires
  <2>1. ASSUME NEW c \in todo, SinkReceives(c) PROVE RecoveringInv'
    BY <1>2, <2>1 DEF SinkReceives, pageVars
  <2>2. /\ \A unavailable \in BOOLEAN : ~ListFails(unavailable)
        /\ ~DeliveryFails /\ ~BuildThrows /\ ~Crash /\ ~LeaseExpires
    BY <1>1 DEF ListFails, DeliveryFails, BuildThrows, Crash, LeaseExpires, CatchTarget,
                SaveAndReturn, ReturnFailed, Leave
  <2> QED
    BY <1>10, <2>1, <2>2 DEF Faulty
<1> QED
  BY <1>4, <1>5, <1>6, <1>7, <1>9, <1>10 DEF Next

LEMMA StepKeepsWindow ==
    ASSUME ~AnalysisMayOverflow, MaxAttempts <= 1, TypeOK, EffectsInv, OrderInv, RecoveringInv,
           WindowInv, RedStep, [Next]_vars
    PROVE  WindowInv' /\ (CursorStays \/ ScanClean)
<1>1. CASE UNCHANGED vars
  <2>1. WindowInv'
    BY <1>1 DEF vars, WindowInv, PageInv, CursorInv, OwedInv, Backlog, FromFirstPage, Unlisted,
                Owed, Newer, Terminal, SettledIn, CandidateOf
  <2> QED
    BY <1>1, <2>1 DEF vars, CursorStays
<1>2. CASE Next
  <2>1. CASE Provider \/ Tick
    BY <2>1, WorldKeepsWindow
  <2>2. CASE Scanning
    BY <2>2, BeginningKeepsWindow, ListBacklogKeepsWindow, PagingKeepsWindow, EndingKeepsWindow,
       CleanScanKeepsWindow DEF Scanning
  <2>3. CASE Webhook
    BY <2>3, BeginningKeepsWindow
  <2>4. CASE Reconciling
    BY <2>4, SuppressingKeepsWindow, StartingKeepsWindow, RecoveringKeepsWindow,
       DeliveringKeepsWindow DEF Reconciling
  <2>5. CASE Faulty \/ LeaseExpires
    BY <2>5, DeliveringKeepsWindow, FaultKeepsWindow DEF Faulty
  <2> QED
    BY <1>2, <2>1, <2>2, <2>3, <2>4, <2>5 DEF Next
<1> QED
  BY <1>1, <1>2

LEMMA WindowInvInit == Init => WindowInv /\ RecoveringInv
BY DEF Init, WindowInv, RecoveringInv, PageInv, CursorInv, OwedInv, Backlog, Waiting, NoRun

(* A clean scan that listed every page has settled what it owed.           *)
LEMMA CleanScanSettles ==
    ASSUME TypeOK, OrderInv, RedStep, WindowInv, ScanClean, scan.page = scan.fetched,
           NEW r \in Run, LeavesWindow(r), ci[r].event \in RedEvents
    PROVE  SettledIn(disk', ci[r].event)
<1>1. Backlog /\ FromFirstPage /\ todo = {} /\ ~scan.more /\ pc = "reconcile"
  BY DEF ScanClean, LaneDone, Backlog, FromFirstPage, Waiting
<1>2. r \in Owed
  BY DEF Owed, LeavesWindow
<1>3. SettledIn(disk, ci[r].event)
  BY <1>1, <1>2 DEF WindowInv, OwedInv, Unlisted
<1> DEFINE e == ci[r].event
<1>4. e \in RedEvents /\ SettledIn(disk, e)
  BY <1>3
<1> HIDE DEF e
<1>5. SettledIn(disk', e)
  BY <1>4, SettledStays
<1> QED
  BY <1>5 DEF e

(* A scan that lists every page from the first moves the cursor past no    *)
(* failure that is not settled: whatever ends meanwhile, fails, crashes or *)
(* arrives by webhook (runtime.ts 223-306).                                *)
THEOREM CompleteScansPassNoFailure ==
    ASSUME ~AnalysisMayOverflow, NeverPrunes, MaxAttempts <= 1
    PROVE  Spec => CompleteScanPassesNoFailure
<1> DEFINE Passed == disk.cursor # NoCursor /\ disk'.cursor # disk.cursor /\ scan.page = scan.fetched =>
                        \A r \in Run :
                            LeavesWindow(r) /\ ci[r].event \in RedEvents =>
                                IsSettledDelivery(disk'.seen[ci[r].event].status)
           Inv == TypeOK /\ EffectsInv /\ OrderInv /\ RecoveringInv /\ WindowInv
<1>1. Inv /\ [Next]_vars => RecoveringInv' /\ WindowInv'
  BY StepKeepsOrder, StepKeepsWindow, StepKeepsRecovering
<1>2. Inv /\ [Next]_vars => [Passed]_vars
  <2>1. SUFFICES ASSUME Inv, [Next]_vars, disk.cursor # NoCursor, disk'.cursor # disk.cursor,
                        scan.page = scan.fetched, NEW r \in Run, LeavesWindow(r),
                        ci[r].event \in RedEvents
        PROVE  IsSettledDelivery(disk'.seen[ci[r].event].status)
    OBVIOUS
  <2>2. RedStep
    BY <2>1, StepKeepsOrder
  <2>3. ScanClean
    BY <2>1, <2>2, StepKeepsWindow DEF CursorStays
  <2> QED
    BY <2>1, <2>2, <2>3, CleanScanSettles DEF SettledIn
<1>3. Spec => [](RecoveringInv /\ WindowInv)
  <2> HIDE DEF Passed
  <2> QED
    BY <1>1, WindowInvInit, OrderInvariant, EffectsInvariant, TypeCorrect, PTL DEF Spec
<1>4. Spec => [][Passed]_vars
  <2> HIDE DEF Passed
  <2> QED
    BY <1>2, <1>3, OrderInvariant, EffectsInvariant, TypeCorrect, PTL DEF Spec
<1> QED
  BY <1>4 DEF CompleteScanPassesNoFailure

==============================================================================
