----------------------------- MODULE EvidenceBudget -----------------------------
(***************************************************************************)
(* What a failure analysis is cut to: the pure part of ci/forensics.ts and *)
(* of observer/analysis-policy.ts.                                         *)
(*                                                                         *)
(* A job is a number, in the order of job ids; so is the path of a change. *)
(* A hunk is the number of its lines, and a signal's id its place in the   *)
(* order of signals.  A size counts entries: a log entry carries a digest  *)
(* and no text, so that its lines add no bytes.                            *)
(***************************************************************************)
EXTENDS Integers, SequencesExt

CONSTANTS
    HunkCap, LineCap, ByteCap, RequestCap,  \* the caps of the default budget
    InputLimits,    \* AnalysisPolicyLimits: maxDiff, maxLogs, maxSignals, maxBytes
    CategoryOf,     \* the category classifyFailure finds for a job
    NameOf,         \* the place of a job's name in the order of names
    BasisCap, ListCap,  \* the most names of a classification, and the most
                        \* correlations and locations
    TooLong,        \* what makes a reference or a summary longer than the schema's
    Marked          \* what holds a "<" or ">" that no whole tag takes along

Least(a, b) == Min({a, b})

Take(s, n) == SubSeq(s, 1, Least(n, Len(s)))

Total(s) ==
    LET sum[n \in 0..Len(s)] == IF n = 0 THEN 0 ELSE sum[n - 1] + s[n]
    IN sum[Len(s)]

Sum(s, Size(_)) == Total([i \in DOMAIN s |-> Size(s[i])])

-----------------------------------------------------------------------------
(* filter and sort *)

(* How many of the places come before the i-th. *)
Rank(places, key, i) ==
    Cardinality({j \in places : key[j] < key[i] \/ (key[j] = key[i] /\ j < i)})

(* The entries at these places, by their key; equal ones keep their order. *)
SortedAt(s, places, key) ==
    [n \in 1..Cardinality(places) |->
        s[CHOOSE i \in places : Rank(places, key, i) = n - 1]]

SortedBy(s, key) == SortedAt(s, DOMAIN s, key)

(* The entries at these places, in the order they have. *)
EntriesAt(s, places) == SortedAt(s, places, [i \in places |-> i])

-----------------------------------------------------------------------------
(* Budgets *)

NoBudget == [maxRequests |-> 0]

contextBudgetFor(input) ==
    IF input.budget # NoBudget
    THEN input.budget
    ELSE [maxFiles |-> input.maxChanges,
          maxHunks |-> Least(HunkCap, 2 * input.maxChanges),
          maxLines |-> Least(LineCap, input.maxLogLines + input.maxHunkLines),
          maxBytes |-> ByteCap,
          maxRequests |-> RequestCap]

(* Jobs beyond the limit go in the provider's order, the rest are sorted. *)
SelectJobs(list, n) == SortedBy(Take(list, n), Take(list, n))

ByPath(changes) == SortedBy(changes, [i \in DOMAIN changes |-> changes[i].path])

HunkLines(hunks) == Total(hunks)

Before(s, i) == Total(Take(s, i - 1))

Rest(limit, used) == Max({0, limit - used})

(* Hunks and lines are handed out in the order of the paths.  A hunk that  *)
(* finds no line left keeps its header.                                    *)
SelectChanges(changes, maxChanges, maxHunks, perHunk, maxLines) ==
    LET few == Take(ByPath(changes), maxChanges)
        counts == [i \in DOMAIN few |-> Len(few[i].hunks)]
        capped == [i \in DOMAIN few |->
                     LET hunks == Take(few[i].hunks, Rest(maxHunks, Before(counts, i)))
                     IN [k \in DOMAIN hunks |-> Least(hunks[k], perHunk)]]
        wanted == [i \in DOMAIN few |-> HunkLines(capped[i])]
        given(i, k) == Rest(maxLines, Before(wanted, i) + Before(capped[i], k))
    IN [i \in DOMAIN few |->
          [few[i] EXCEPT !.hunks =
              [k \in DOMAIN capped[i] |-> Least(capped[i][k], given(i, k))]]]

Ids(signals) == [i \in DOMAIN signals |-> signals[i].id]

InWindow(signals, n) ==
    Take(SortedAt(signals, {i \in DOMAIN signals : signals[i].inWindow}, Ids(signals)), n)

-----------------------------------------------------------------------------
(* fitEvidenceBudget *)

NoEvidence == [logs |-> <<>>, changes |-> <<>>, signals |-> <<>>]

ChangeBytes(change) == 1 + Len(change.hunks) + HunkLines(change.hunks)

Bytes(e) == Len(e.logs) + Sum(e.changes, ChangeBytes) + Len(e.signals)

EvidenceLines(e) ==
    Sum(e.logs, LAMBDA l : l.lines) + Sum(e.changes, LAMBDA c : HunkLines(c.hunks))

EvidenceHunks(e) == Sum(e.changes, LAMBDA c : Len(c.hunks))

(* The last change without its last line, or else its last hunk. *)
ShorterChange(change) ==
    LET hunks == change.hunks IN
    IF Last(hunks) > 0
    THEN [change EXCEPT !.hunks[Len(hunks)] = @ - 1]
    ELSE [change EXCEPT !.hunks = Front(hunks)]

(* One turn of fitEvidenceBudget's loop: changes are given up line by line *)
(* from the last, then signals, then the log entries.                      *)
Shorten(e) ==
    IF e.changes # <<>>
    THEN IF Last(e.changes).hunks # <<>>
         THEN [e EXCEPT !.changes[Len(e.changes)] = ShorterChange(@)]
         ELSE [e EXCEPT !.changes = Front(@)]
    ELSE IF e.signals # <<>>
    THEN [e EXCEPT !.signals = Front(@)]
    ELSE [e EXCEPT !.logs = Front(@)]

-----------------------------------------------------------------------------
(* What is derived from the evidence *)

classifyJobs(analysed) ==
    IF analysed = {} THEN {"unknown"} ELSE {CategoryOf[j] : j \in analysed}

(* The jobs whose names a classification gives as its basis.               *)
BasisJobs(analysed) ==
    {j \in analysed :
        Cardinality({k \in analysed : /\ CategoryOf[k] = CategoryOf[j]
                                      /\ NameOf[k] < NameOf[j]}) < BasisCap}

(* Changes first, then the signals that are not normal. *)
correlationsFor(e) ==
    LET bad == EntriesAt(e.signals, {i \in DOMAIN e.signals : e.signals[i].bad})
    IN Take([i \in DOMAIN e.changes |-> <<"scm", e.changes[i].path>>]
            \o [i \in DOMAIN bad |-> <<"telemetry", bad[i].id>>], ListCap)

(* Of changes of one type, those with hunks have the higher confidence.    *)
locationsFor(e) ==
    LET shown == {i \in DOMAIN e.changes : e.changes[i].hunks # <<>>}
    IN Take(EntriesAt(e.changes, shown) \o EntriesAt(e.changes, DOMAIN e.changes \ shown),
            ListCap)

(* Three facts of the run, the number of changes and that of signals. *)
FactCount == 5

(* One suggestion for each category of the plan. *)
suggestionsFor(plan) == Least(Cardinality(plan), 8)

(* A job is referred to as ci-job- in its classification and ci-log- in    *)
(* its evidence and provenance, which are of one length.                   *)
References(analysed, e) ==
    {<<"job", j>> : j \in analysed}
    \cup ToSet(correlationsFor(e))
    \cup {<<"scm", c.path>> : c \in ToSet(locationsFor(e))}

(* The texts of others that only sanitizeEvidenceText stands before; what  *)
(* has answered hands on its warnings.                                     *)
Texts(ref, analysed, plan, answered) ==
    {<<"ref", ref>>}
    \cup {<<"name", NameOf[j]>> : j \in BasisJobs(analysed)}
    \cup {<<"action", category>> : category \in plan}
    \cup answered

(* CIFailureAnalysisResultSchema.  One identifier over 64 characters, one  *)
(* summary over 512 or one "<" or ">" refuses the whole result.            *)
ResultParses(references, texts) ==
    /\ references \cap TooLong = {}
    /\ texts \cap Marked = {}

-----------------------------------------------------------------------------
(* buildAgentNotificationPayload *)

CompactChange(change) ==
    [change EXCEPT !.hunks =
        [i \in DOMAIN Take(change.hunks, 1) |-> Least(2, change.hunks[i])]]

compactAnalysis(a) ==
    [a EXCEPT !.evidence =
                 [logs |-> Take(a.evidence.logs, 2),
                  changes |-> LET few == Take(a.evidence.changes, 3)
                              IN [i \in DOMAIN few |-> CompactChange(few[i])],
                  signals |-> Take(a.evidence.signals, 3)],
              !.classes = Least(@, 3),
              !.correlations = Take(@, 3),
              !.locations = Take(@, 4),
              !.suggestions = Least(@, 1),
              !.sources = Least(@, 5),
              !.truncated = TRUE]

minimalAnalysis(a) ==
    [a EXCEPT !.evidence = NoEvidence,
              !.facts = Least(@, 1),
              !.classes = Least(@, 1),
              !.correlations = <<>>,
              !.locations = <<>>,
              !.suggestions = 0,
              !.sources = Least(@, 1),
              !.truncated = TRUE]

Size(a) ==
    a.facts + a.sources + a.classes + a.suggestions + Bytes(a.evidence)
    + Len(a.correlations) + Len(a.locations)

buildAgentNotificationPayload(a, maxBytes) ==
    LET compact == compactAnalysis(a)
        minimal == minimalAnalysis(compact)
    IN IF Size(a) <= maxBytes THEN [fits |-> TRUE, analysis |-> a]
       ELSE IF Size(compact) <= maxBytes THEN [fits |-> TRUE, analysis |-> compact]
       ELSE [fits |-> Size(minimal) <= maxBytes, analysis |-> minimal]

-----------------------------------------------------------------------------
(* boundAnalysisInput: what the recommendation callback is given *)

SignalsOf(e, kind) == Cardinality({i \in DOMAIN e.signals : e.signals[i].kind = kind})

(* One optional field, the commit, and the three required ones. *)
recommendationInputForAnalysis(e) ==
    [diff |-> Len(e.changes),
     logs |-> Len(e.logs),
     metrics |-> SignalsOf(e, "metric"),
     traces |-> SignalsOf(e, "trace"),
     optional |-> 1,
     required |-> 6]

InputBytes(in) ==
    in.diff + in.logs + in.metrics + in.traces + in.optional + in.required

(* The first of these that is not used up loses one.  Required fields keep *)
(* a character each.                                                       *)
DropOrder == <<"logs", "metrics", "traces", "diff", "optional", "required">>

SmallestOf(field) == IF field = "required" THEN 3 ELSE 0

Spare(in, i) == in[DropOrder[i]] - SmallestOf(DropOrder[i])

(* What is still too much when the fields before this one have no more to  *)
(* give.                                                                   *)
Excess(in, i, maxBytes) ==
    Rest(InputBytes(in) - maxBytes, Total([j \in 1..(i - 1) |-> Spare(in, j)]))

fitInputBytes(in, maxBytes) ==
    [field \in DOMAIN in |->
        LET i == CHOOSE j \in DOMAIN DropOrder : DropOrder[j] = field
        IN in[field] - Least(Spare(in, i), Excess(in, i, maxBytes))]

boundAnalysisInput(in) ==
    fitInputBytes([in EXCEPT !.diff = Least(@, InputLimits.maxDiff),
                             !.logs = Least(@, InputLimits.maxLogs),
                             !.metrics = Least(@, InputLimits.maxSignals),
                             !.traces = Least(@, InputLimits.maxSignals)],
                  InputLimits.maxBytes)
=============================================================================
