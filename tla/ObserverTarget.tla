--------------------------- MODULE ObserverTarget ---------------------------
(***************************************************************************)
(* The durable document the CI observer keeps for one repository/workflow  *)
(* target (ObserverTargetState in observer/state.ts) and the pure helpers  *)
(* of observer/runtime.ts that read and rewrite it.                        *)
(*                                                                         *)
(* An event is the identity repository:workflow:sha:conclusion, so the     *)
(* target is fixed and an event is one commit with one conclusion.  The    *)
(* legacy field "delivery" is always written together with                 *)
(* "statusDelivery" by this version and is not kept apart; neither are the *)
(* legacy ids that carry a run id, nor the timestamps, which nothing reads *)
(* back.                                                                   *)
(***************************************************************************)
EXTENDS Integers, FiniteSets

CONSTANTS
    RedEvents,        \* conclusion failure, cancelled, timed_out, action_required
    GreenEvents,      \* conclusion success
    QuietEvents,      \* conclusion skipped, neutral, unknown or null
    NoEvent,          \* an absent recoveryEventId
    PruneAbove,       \* pruneSeen leaves a document of this many records alone
    PruneKeep,        \* delivered records that survive pruneSeen
    DeliveryBackoff,  \* configured first delivery backoff, in clock ticks
    ProviderBackoff,  \* PROVIDER_BACKOFF_BASE_MS, in clock ticks
    MaxBackoff        \* BACKOFF_MAX_MS, in clock ticks

Event == RedEvents \cup GreenEvents \cup QuietEvents

ASSUME EventAssumption ==
    /\ RedEvents \cap GreenEvents = {}
    /\ RedEvents \cap QuietEvents = {}
    /\ GreenEvents \cap QuietEvents = {}
    /\ NoEvent \notin Event

ASSUME BackoffAssumption ==
    /\ PruneAbove \in Nat
    /\ PruneKeep \in Nat
    /\ DeliveryBackoff \in Nat \ {0}
    /\ ProviderBackoff \in Nat \ {0}
    /\ MaxBackoff \in Nat \ {0}

DeliveryState == {"none", "pending", "delivered", "suppressed"}

SeenRecord == [status: DeliveryState, attempted: BOOLEAN, analysis: DeliveryState]

NoRecord == [status |-> "none", attempted |-> FALSE, analysis |-> "none"]

(* A delay of 0 stands for an absent backoffMs / deliveryBackoffMs, an     *)
(* until of 0 for an absent backoffUntil / deliveryBackoffUntil and a      *)
(* cursor of -1 for an absent cursor.                                      *)
NoCursor == -1

Document ==
    [seen: [Event -> SeenRecord],
     incident: {"unset", "active", "clear"},
     recovery: Event \cup {NoEvent},
     page: Nat \ {0},
     cursor: Int,
     deliveryDelay: Nat, deliveryUntil: Nat,
     providerDelay: Nat, providerUntil: Nat]

EmptyDocument ==
    [seen |-> [e \in Event |-> NoRecord],
     incident |-> "unset",
     recovery |-> NoEvent,
     page |-> 1,
     cursor |-> NoCursor,
     deliveryDelay |-> 0, deliveryUntil |-> 0,
     providerDelay |-> 0, providerUntil |-> 0]

-----------------------------------------------------------------------------

IsAnalysisConclusion(e) == e \in RedEvents

IsSettledDelivery(state) == state \in {"delivered", "suppressed"}

(* analysisAttempted === true or analysisDelivery !== undefined *)
IsAnalysed(record) == record.attempted \/ record.analysis # "none"

HasDeliveredNonSuccess(doc) ==
    \E e \in RedEvents : doc.seen[e].status = "delivered"

(* reconcileRuns derives incidentActive once for documents without it. *)
WithIncident(doc) ==
    IF doc.incident # "unset" THEN doc
    ELSE [doc EXCEPT !.incident =
            IF HasDeliveredNonSuccess(doc) THEN "active" ELSE "clear"]

(* markSeen merges the new fields over the record that is already there. *)
MarkSeen(doc, e, record) == [doc EXCEPT !.seen[e] = record]

MarkStatus(doc, e, state) ==
    MarkSeen(doc, e, [doc.seen[e] EXCEPT !.status = state])

(* Mutant: the new fields replace the record instead of merging. *)
MarkAnalysisAfresh(doc, e, state) ==
    MarkSeen(doc, e, [NoRecord EXCEPT !.attempted = TRUE, !.analysis = state])

MarkAnalysis(doc, e, state) ==
    MarkSeen(doc, e, [doc.seen[e] EXCEPT !.attempted = TRUE, !.analysis = state])

MarkStale(doc, e) ==
    MarkSeen(doc, e,
        [doc.seen[e] EXCEPT
            !.status = "suppressed",
            !.analysis = IF IsAnalysisConclusion(e) THEN "suppressed" ELSE @])

(* options.state.targets[key] ?? currentTarget *)
PresentOr(doc, fallback) == IF doc = EmptyDocument THEN fallback ELSE doc

Smaller(a, b) == IF a <= b THEN a ELSE b

Larger(a, b) == IF a >= b THEN a ELSE b

NextDelay(delay, base) ==
    Smaller(MaxBackoff, IF delay = 0 THEN base ELSE Larger(base, 2 * delay))

WithDeliveryBackoff(doc, now) ==
    LET delay == NextDelay(doc.deliveryDelay, DeliveryBackoff)
    IN  [doc EXCEPT !.deliveryDelay = delay, !.deliveryUntil = now + delay]

WithProviderBackoff(doc, now) ==
    LET delay == NextDelay(doc.providerDelay, ProviderBackoff)
    IN  [doc EXCEPT !.providerDelay = delay, !.providerUntil = now + delay]

WithoutBackoff(doc) ==
    [doc EXCEPT !.deliveryDelay = 0, !.deliveryUntil = 0,
                !.providerDelay = 0, !.providerUntil = 0]

BackedOff(doc, now) == doc.providerUntil > now \/ doc.deliveryUntil > now

-----------------------------------------------------------------------------

Recorded(doc) == {e \in Event : doc.seen[e] # NoRecord}

(* The records pruneSeen always keeps ... *)
Unfinished(doc) ==
    {e \in Recorded(doc) :
        \/ doc.seen[e].status = "pending"
        \/ doc.seen[e].analysis = "pending" /\ ~doc.seen[e].attempted}

(* ... and the ones it keeps the newest PruneKeep of.  The insertion order *)
(* of the record object is not modelled: any PruneKeep of them may stay.   *)
Finished(doc) ==
    {e \in Recorded(doc) :
        doc.seen[e].status = "delivered" /\ doc.seen[e].analysis # "pending"}

Retainable(doc) ==
    IF Cardinality(Recorded(doc)) <= PruneAbove THEN {Recorded(doc)}
    ELSE {Unfinished(doc) \cup kept : kept \in
            {s \in SUBSET Finished(doc) :
                Cardinality(s) = Smaller(PruneKeep, Cardinality(Finished(doc)))}}

PruneSeen(doc, retained) ==
    [doc EXCEPT !.seen = [e \in Event |->
        IF e \in retained THEN doc.seen[e] ELSE NoRecord]]

=============================================================================
