----------------------------- MODULE FailureAnalysis ----------------------------
(***************************************************************************)
(* One failure analysis: assembleFailureAnalysis of ci/forensics.ts, asked *)
(* for by the tool ci.failure_analysis or by buildEvent of                 *)
(* observer/runtime.ts, which races it against a deadline and then asks a  *)
(* recommendation callback (observer/analysis-policy.ts) in what time is   *)
(* left.                                                                   *)
(*                                                                         *)
(* The assembly is a task of its own: it goes on after buildEvent has      *)
(* given it up.  Each of its steps ends one awaited request; an answer the *)
(* providers may never give is a step that may never be taken.             *)
(***************************************************************************)
EXTENDS EvidenceBudget

CONSTANTS
    Inputs,             \* what callers ask for, and the observer's settings
    JobLists,           \* the failed jobs a provider may list, in its order
    LogLengths,         \* lines a job's log may have
    Plans,              \* categories a remediation plan may cover
    ChangeAnswers,      \* changes the SCM provider may return
    SignalAnswers,      \* signals the telemetry provider may return
    Configured,         \* the optional sources there are
    RecommendationSize

VARIABLES
    input,
    \* the assembly
    place, requests, jobs, lines, plan, evidence, provenance, truncated,
    had,            \* the jobs analysed, and all their sources had to show
    failure,        \* what ended the assembly without a result
    \* its caller
    call, analysis, payload,
    late,           \* has the deadline passed?
    stopped,        \* has the callback's signal been aborted?
    callback, seen, recommendation,
    body            \* how the event was serialized

assembly == <<place, requests, jobs, lines, plan, evidence, provenance,
              truncated, had, failure>>
result == <<call, analysis, payload>>
advice == <<stopped, callback, seen, recommendation>>
vars == <<input, assembly, result, late, advice, body>>

budget == contextBudgetFor(input)

Observed == input.caller = "observer"

MandatorySources == {"ci-status", "ci-analysis"}

Reasons == {"available", "provider-request-failed", "malformed-provider-response",
            "provider-request-budget", "line-budget", "unconfigured", "declined"}

Places == {"status", "analysis", "remediation", "logs", "scm", "telemetry", "fitting", "done", "failed"}

Nothing == [available |-> FALSE, evidence |-> NoEvidence, facts |-> 2, sources |-> 1,
            classes |-> 1, suggestions |-> 0, correlations |-> <<>>,
            locations |-> <<>>, truncated |-> FALSE]

Nobody == [jobs |-> {}, logs |-> <<>>, changes |-> <<>>, signals |-> <<>>]

NoInput == [diff |-> 0, logs |-> 0, metrics |-> 0, traces |-> 0, optional |-> 0, required |-> 0]

Source(name, job, reason) == [name |-> name, job |-> job, reason |-> reason]

-----------------------------------------------------------------------------
(* What the schemas let through *)

LogRecord == [job : Nat, lines : Nat]

ChangeRecord == [path : Nat, hunks : Seq(Nat)]

SignalRecord == [id : Nat, kind : {"metric", "alert", "log", "trace"},
                 bad : BOOLEAN, inWindow : BOOLEAN]

EvidenceRecord == [logs : Seq(LogRecord), changes : Seq(ChangeRecord),
                   signals : Seq(SignalRecord)]

SourceRecord == [name : MandatorySources \cup {"ci-remediation", "ci-log", "scm", "telemetry"},
                 job : Nat, reason : Reasons]

BudgetRecord == [maxFiles : Nat, maxHunks : Nat, maxLines : Nat, maxBytes : Nat,
                 maxRequests : Nat \ {0, 1}]

(* A budget that is given has room for the status and the failed jobs, and *)
(* the observer gives none.                                                *)
ASSUME InputAssumption ==
    /\ {HunkCap, LineCap, ByteCap, BasisCap, ListCap} \subseteq Nat
    /\ RequestCap \in Nat \ {0, 1}
    /\ \A in \in Inputs :
          /\ in.caller \in {"observer", "tool"}
          /\ in.hasCallback \in BOOLEAN
          /\ in.methods \in {"own", "inherited"}
          /\ {in.maxJobs, in.maxLogLines, in.maxChanges, in.maxHunkLines,
              in.maxSignals} \subseteq Nat
          /\ in.budget # NoBudget => in.budget \in BudgetRecord
    /\ {InputLimits.maxDiff, InputLimits.maxLogs, InputLimits.maxSignals} \subseteq Nat
    /\ InputLimits.maxBytes \in Nat \ 0..2

(* A provider lists a job once. *)
ASSUME AnswerAssumption ==
    /\ \A list \in JobLists : list \in Seq(Nat) /\ IsInjective(list)
    /\ LogLengths \subseteq Nat
    /\ ChangeAnswers \subseteq Seq(ChangeRecord)
    /\ SignalAnswers \subseteq Seq(SignalRecord)

TypeOK ==
    /\ input \in Inputs
    /\ place \in Places
    /\ requests \in Nat
    /\ lines \in Nat
    /\ plan \subseteq UNION Plans
    /\ jobs \in Seq(Nat)
    /\ evidence \in EvidenceRecord
    /\ provenance \subseteq SourceRecord
    /\ had \in [jobs : SUBSET Nat, logs : Seq(LogRecord),
                changes : Seq(ChangeRecord), signals : Seq(SignalRecord)]
    /\ truncated \in BOOLEAN
    /\ failure \in {"none", "status", "analysis", "no-such-method", "invalid-result"}
    /\ call \in {"racing", "recommending", "returned", "threw"}
    /\ {late, stopped} \subseteq BOOLEAN
    /\ callback \in {"none", "running", "good", "blank", "throws"}
    /\ recommendation \in {"none", "available", "timeout", "malformed"}
    /\ body \in {"none", "full", "stub"}

Init ==
    /\ input \in Inputs
    /\ place = "status"
    /\ requests = 0
    /\ jobs = <<>>
    /\ lines = 0
    /\ plan = {}
    /\ evidence = NoEvidence
    /\ provenance = {}
    /\ truncated = FALSE
    /\ had = Nobody
    /\ failure = "none"
    /\ call = "racing"
    /\ analysis = Nothing
    /\ payload = Nothing
    /\ late = FALSE
    /\ stopped = FALSE
    /\ callback = "none"
    /\ seen = NoInput
    /\ recommendation = "none"
    /\ body = "none"

-----------------------------------------------------------------------------
(* assembleFailureAnalysis *)

Settled == place \in {"done", "failed"}

(* What a last answer sets going ends before any timer runs. *)
Handover == call = "racing" /\ (Settled \/ place = "fitting")

MayRequest == requests < budget.maxRequests

Record(sources) == provenance' = provenance \cup sources

Mark(cut) == truncated' = (truncated \/ cut)

Fail(why) ==
    /\ place' = "failed"
    /\ failure' = why
    /\ UNCHANGED <<jobs, lines, plan, evidence, provenance, truncated, had>>

(* buildEvent answers the status itself, from the run it has. *)
Status ==
    /\ ~Handover
    /\ place = "status"
    /\ requests' = requests + 1
    /\ \/ /\ place' = "analysis"
          /\ UNCHANGED <<jobs, lines, plan, evidence, provenance, truncated, had, failure>>
       \/ ~Observed /\ Fail("status")
    /\ UNCHANGED <<input, result, late, advice, body>>

(* Spreading the provider into a new object copies no inherited method:    *)
(* those of an instance of a class are not there.                          *)
Inherited == Observed /\ input.methods = "inherited"

Analysis ==
    /\ ~Handover
    /\ place = "analysis"
    /\ requests' = requests + 1
    /\ \/ /\ ~Inherited
          /\ \E list \in JobLists :
                /\ jobs' = SelectJobs(list, input.maxJobs)
                /\ had' = [had EXCEPT !.jobs = ToSet(jobs')]
                /\ Mark(Len(list) > input.maxJobs)
          /\ Record({Source(name, 0, "available") : name \in MandatorySources})
          /\ place' = "remediation"
          /\ UNCHANGED <<lines, plan, evidence, failure>>
       \/ Fail(IF Inherited THEN "no-such-method" ELSE "analysis")
    /\ UNCHANGED <<input, result, late, advice, body>>

ErrorReasons == {"provider-request-failed", "malformed-provider-response"}

Remediation ==
    /\ ~Handover
    /\ place = "remediation"
    /\ place' = "logs"
    /\ \/ /\ MayRequest
          /\ requests' = requests + 1
          /\ \/ /\ plan' \in Plans
                /\ Record({Source("ci-remediation", 0, "available")})
             \/ /\ \E reason \in ErrorReasons : Record({Source("ci-remediation", 0, reason)})
                /\ UNCHANGED plan
          /\ UNCHANGED truncated
       \/ /\ ~MayRequest
          /\ Record({Source("ci-remediation", 0, "provider-request-budget")})
          /\ Mark(TRUE)
          /\ UNCHANGED <<requests, plan>>
    /\ UNCHANGED <<input, jobs, lines, evidence, had, failure, result, late, advice, body>>

(* Mutant: break instead of continue. *)
NextJobLast ==
    /\ jobs' = <<>>
    /\ place' = "scm"

NextJob ==
    /\ jobs' = Tail(jobs)
    /\ place' = IF Len(jobs) = 1 THEN "scm" ELSE "logs"

(* Mutant: a log is not charged to the lines of the analysis. *)
ReadLogUncharged ==
    /\ \E length \in LogLengths :
          LET kept == Min({length, input.maxLogLines, budget.maxLines - lines}) IN
          /\ evidence' = [evidence EXCEPT !.logs = Append(@, [job |-> Head(jobs), lines |-> kept])]
          /\ Mark(length > kept)
          /\ had' = [had EXCEPT !.logs = Append(@, [job |-> Head(jobs), lines |-> length])]
          /\ UNCHANGED lines
    /\ Record({Source("ci-log", Head(jobs), "available")})

(* Mutant: lines beyond the limit go without a mark. *)
ReadLogSilently ==
    /\ \E length \in LogLengths :
          LET kept == Min({length, input.maxLogLines, budget.maxLines - lines}) IN
          /\ evidence' = [evidence EXCEPT !.logs = Append(@, [job |-> Head(jobs), lines |-> kept])]
          /\ lines' = lines + kept
          /\ UNCHANGED truncated
          /\ had' = [had EXCEPT !.logs = Append(@, [job |-> Head(jobs), lines |-> length])]
    /\ Record({Source("ci-log", Head(jobs), "available")})

ReadLog ==
    /\ \E length \in LogLengths :
          LET kept == Min({length, input.maxLogLines, budget.maxLines - lines}) IN
          /\ evidence' = [evidence EXCEPT !.logs = Append(@, [job |-> Head(jobs), lines |-> kept])]
          /\ lines' = lines + kept
          /\ Mark(length > kept)
          /\ had' = [had EXCEPT !.logs = Append(@, [job |-> Head(jobs), lines |-> length])]
    /\ Record({Source("ci-log", Head(jobs), "available")})

BudgetReason == IF lines >= budget.maxLines THEN "line-budget" ELSE "provider-request-budget"

Log ==
    /\ ~Handover
    /\ place = "logs"
    /\ jobs # <<>>
    /\ NextJob
    /\ \/ /\ MayRequest /\ lines < budget.maxLines
          /\ requests' = requests + 1
          /\ \/ ReadLog
             \/ /\ \E reason \in ErrorReasons : Record({Source("ci-log", Head(jobs), reason)})
                /\ UNCHANGED <<lines, evidence, truncated, had>>
       \/ /\ ~(MayRequest /\ lines < budget.maxLines)
          /\ Mark(TRUE)
          /\ Record({Source("ci-log", Head(jobs), BudgetReason)})
          /\ UNCHANGED <<requests, lines, evidence, had>>
    /\ UNCHANGED <<input, plan, failure, result, late, advice, body>>

NoLogs ==
    /\ ~Handover
    /\ place = "logs"
    /\ jobs = <<>>
    /\ place' = "scm"
    /\ UNCHANGED <<input, requests, jobs, lines, plan, evidence, provenance,
                   truncated, had, failure, result, late, advice, body>>

(* collectSCM.  Hunks and lines beyond the budget are cut without a mark. *)
ReadChanges ==
    \E changes \in ChangeAnswers :
        LET files == Least(input.maxChanges, budget.maxFiles)
            kept == SelectChanges(changes, files, budget.maxHunks,
                                  input.maxHunkLines, budget.maxLines - lines)
        IN /\ evidence' = [evidence EXCEPT !.changes = kept]
           /\ lines' = lines + Sum(kept, LAMBDA c : HunkLines(c.hunks))
           /\ Mark(Len(changes) > files)
           /\ had' = [had EXCEPT !.changes = ByPath(changes)]

(* An optional source is asked only if there is one and a request is left. *)
Unasked(source) ==
    IF ~MayRequest THEN "provider-request-budget"
    ELSE IF source \notin Configured THEN "unconfigured"
    ELSE "asked"

Refusals == {"declined", "malformed-provider-response", "provider-request-failed"}

SCM ==
    /\ ~Handover
    /\ place = "scm"
    /\ place' = "telemetry"
    /\ \/ /\ Unasked("scm") = "asked"
          /\ requests' = requests + 1
          /\ \/ ReadChanges /\ Record({Source("scm", 0, "available")})
             \/ /\ \E reason \in Refusals : Record({Source("scm", 0, reason)})
                /\ UNCHANGED <<lines, evidence, truncated, had>>
       \/ /\ Unasked("scm") # "asked"
          /\ Record({Source("scm", 0, Unasked("scm"))})
          /\ UNCHANGED <<requests, lines, evidence, truncated, had>>
    /\ UNCHANGED <<input, jobs, plan, failure, result, late, advice, body>>

Telemetry ==
    /\ ~Handover
    /\ place = "telemetry"
    /\ place' = "fitting"
    /\ \/ /\ Unasked("telemetry") = "asked"
          /\ requests' = requests + 1
          /\ \/ /\ \E signals \in SignalAnswers :
                      LET kept == InWindow(signals, input.maxSignals) IN
                      /\ evidence' = [evidence EXCEPT !.signals = kept]
                      /\ had' = [had EXCEPT !.signals = signals]
                      /\ Mark(Len(kept) < Len(signals))
                /\ Record({Source("telemetry", 0, "available")})
             \/ /\ \E reason \in Refusals : Record({Source("telemetry", 0, reason)})
                /\ UNCHANGED <<evidence, truncated, had>>
       \/ /\ Unasked("telemetry") # "asked"
          /\ Record({Source("telemetry", 0, Unasked("telemetry"))})
          /\ UNCHANGED <<requests, evidence, truncated, had>>
    /\ UNCHANGED <<input, jobs, lines, plan, failure, result, late, advice, body>>

(* The CI sources whose warnings come along: the status that buildEvent    *)
(* answers itself has none, and those of the optional sources are bounded. *)
Warners ==
    {<<s.name, s.job>> : s \in {t \in provenance : t.reason = "available"
                                     /\ t.name \notin {"scm", "telemetry"}}}
    \ (IF Observed THEN {<<"ci-status", 0>>} ELSE {})

Parses ==
    ResultParses(References(had.jobs, evidence),
                 Texts(input.ref, had.jobs, plan, Warners))

(* fitEvidenceBudget turns until the evidence fits; then the result is     *)
(* validated.  All this runs with the last answer.                         *)
Fit ==
    /\ place = "fitting"
    /\ IF Bytes(evidence) > budget.maxBytes
       THEN /\ evidence' = Shorten(evidence)
            /\ Mark(TRUE)
            /\ UNCHANGED <<place, failure>>
       ELSE /\ place' = IF Parses THEN "done" ELSE "failed"
            /\ failure' = IF Parses THEN failure ELSE "invalid-result"
            /\ UNCHANGED <<evidence, truncated>>
    /\ UNCHANGED <<input, requests, jobs, lines, plan, provenance, had,
                   result, late, advice, body>>

Assembled ==
    [available |-> TRUE,
     evidence |-> evidence,
     facts |-> FactCount,
     sources |-> Cardinality(provenance),
     classes |-> Cardinality(classifyJobs(had.jobs)),
     suggestions |-> suggestionsFor(plan),
     correlations |-> correlationsFor(evidence),
     locations |-> locationsFor(evidence),
     truncated |-> truncated]

-----------------------------------------------------------------------------
(* buildEvent and serializeObserverEvent *)

(* The recommendation is added after the payload was cut to size: what no  *)
(* longer fits is replaced by a stub without either.                       *)
BodyOf(p, extra) == IF Size(p) + extra <= input.maxPayload THEN "full" ELSE "stub"

Return(p, verdict) ==
    /\ call' = "returned"
    /\ payload' = p
    /\ recommendation' = verdict
    /\ body' = BodyOf(p, IF verdict = "available" THEN RecommendationSize
                         ELSE IF verdict = "none" THEN 0 ELSE 1)

(* Not even the unavailable analysis may name a ref with markup in it:     *)
(* makeUnavailableFailureAnalysis throws as well.                          *)
Payloads(a) ==
    {IF <<"ref", input.ref>> \in Marked
     THEN [fits |-> FALSE, analysis |-> a]
     ELSE buildAgentNotificationPayload(a, input.maxPayload)}

(* The payload is too large even in its smallest form, or goes without a   *)
(* recommendation: nobody gives one, or its time is over.                  *)
Conclude(a, built) ==
    /\ analysis' = a
    /\ \/ /\ ~built.fits
          /\ call' = "threw"
          /\ UNCHANGED <<payload, recommendation, body>>
       \/ /\ built.fits
          /\ input.hasCallback => late
          /\ Return(built.analysis, IF input.hasCallback THEN "timeout" ELSE "none")
    /\ UNCHANGED <<stopped, callback, seen>>

(* The callback is started on what the limits let it see. *)
StartCallback(a, built) ==
    /\ built.fits
    /\ input.hasCallback
    /\ ~late
    /\ call' = "recommending"
    /\ analysis' = a
    /\ payload' = built.analysis
    /\ callback' = "running"
    /\ seen' = boundAnalysisInput(recommendationInputForAnalysis(a.evidence))
    /\ UNCHANGED <<stopped, recommendation, body>>

(* The tool returns the result, or the error. *)
Answer ==
    /\ call = "racing"
    /\ Settled
    /\ ~Observed
    /\ IF place = "done"
       THEN call' = "returned" /\ analysis' = Assembled
       ELSE call' = "threw" /\ UNCHANGED analysis
    /\ UNCHANGED <<input, assembly, payload, late, advice, body>>

(* Promise.race: the assembly was first, with a result or an error. *)
Settle ==
    /\ call = "racing"
    /\ Settled
    /\ Observed
    /\ \E a \in {IF place = "done" THEN Assembled ELSE Nothing} :
          \E built \in Payloads(a) : Conclude(a, built) \/ StartCallback(a, built)
    /\ UNCHANGED <<input, assembly, late>>

(* The time of the analysis is over; the timers come a moment later. *)
Deadline ==
    /\ Observed
    /\ ~late
    /\ late' = TRUE
    /\ UNCHANGED <<input, assembly, result, advice, body>>

(* Mutant: the deadline is looked at when the assembly has ended. *)
GiveUpAfterwards ==
    /\ Observed
    /\ late
    /\ call = "racing"
    /\ Settled
    /\ \E built \in Payloads(Nothing) : Conclude(Nothing, built)
    /\ UNCHANGED <<input, assembly, late>>

(* Mutant: the timer is not set to the time of the analysis. *)
GiveUpEarly ==
    /\ Observed
    /\ call = "racing"
    /\ ~Handover
    /\ \E built \in Payloads(Nothing) : Conclude(Nothing, built)
    /\ UNCHANGED <<input, assembly, late>>

(* The timer of the deadline, while the assembly is at work. *)
GiveUp ==
    /\ Observed
    /\ late
    /\ call = "racing"
    /\ ~Handover
    /\ \E built \in Payloads(Nothing) : Conclude(Nothing, built)
    /\ UNCHANGED <<input, assembly, late>>

Verdict(reply) == IF reply = "good" THEN "available" ELSE "malformed"

Reply ==
    /\ call = "recommending"
    /\ \E reply \in {"good", "blank", "throws"} :
          /\ callback' = reply
          /\ Return(payload, Verdict(reply))
    /\ UNCHANGED <<input, assembly, analysis, late, stopped, seen>>

(* Mutant: what the callback throws when it is stopped is its own error. *)
StoppedVerdictBlaming(reply) ==
    IF reply = "running" THEN "timeout" ELSE Verdict(reply)

(* A callback may answer its signal at once: with a value, which wins the  *)
(* race, or by throwing, which is still the timeout.                       *)
StoppedVerdict(reply) ==
    IF reply \in {"good", "blank"} THEN Verdict(reply) ELSE "timeout"

(* One of the two timers for what is left: the deadline's, which aborts    *)
(* the callback's signal through deadlineController, or the callback's own. *)
Stop ==
    /\ call = "recommending"
    /\ late
    /\ stopped' = TRUE
    /\ \E reply \in {"running", "good", "blank", "throws"} :
          /\ callback' = reply
          /\ Return(payload, StoppedVerdict(reply))
    /\ UNCHANGED <<input, assembly, analysis, late, seen>>

Assemble ==
    Status \/ Analysis \/ Remediation \/ Log \/ NoLogs \/ SCM \/ Telemetry \/ Fit

Next ==
    \/ Assemble
    \/ Answer \/ Settle
    \/ Deadline \/ GiveUp
    \/ Reply \/ Stop

(* Microtasks run and timers fire.  No provider and no callback is owed.   *)
Fairness ==
    /\ WF_vars(Fit)
    /\ WF_vars(Settle)
    /\ WF_vars(Deadline)
    /\ WF_vars(GiveUp)
    /\ WF_vars(Stop)

Spec == Init /\ [][Next]_vars /\ Fairness
-----------------------------------------------------------------------------
(* Properties *)

(* The byte budget costs the analysis its changes first, then signals,     *)
(* then log entries, and nothing that still had room                       *)
(* (forensics.ts 429-454).                                                 *)
CutInOrder ==
    place = "done" =>
        LET wanted == InWindow(had.signals, input.maxSignals) IN
        /\ evidence.signals # wanted => evidence.changes = <<>>
        /\ Len(evidence.logs) < Len(had.logs) => evidence.signals = <<>>
        /\ evidence.signals # wanted \/ Len(evidence.logs) < Len(had.logs)
              => Bytes(evidence) = budget.maxBytes

(* The budgets of requests, files, hunks, lines and bytes hold, in an      *)
(* assembly nobody waits for any more too, what the bytes cost is given up *)
(* in order, and the callback sees no more than its own limit              *)
(* (forensics.ts 48-198, analysis-policy.ts 258-282).                      *)
BudgetsHold ==
    /\ requests <= budget.maxRequests
    /\ EvidenceLines(evidence) <= budget.maxLines
    /\ EvidenceHunks(evidence) <= budget.maxHunks
    /\ Len(evidence.changes) <= Least(input.maxChanges, budget.maxFiles)
    /\ Len(evidence.signals) <= input.maxSignals
    /\ place = "done" => Bytes(evidence) <= budget.maxBytes
    /\ CutInOrder
    /\ InputBytes(seen) <= InputLimits.maxBytes

Named(name) == {s \in provenance : s.name = name}

IsAvailable(name) == \E s \in Named(name) : s.reason = "available"

(* Whichever sources fail or are not asked: each of them, and each job     *)
(* analysed, is listed once with what became of it, evidence comes from    *)
(* those listed as available only, and what one of them gave is not lost   *)
(* to another's failure, but for the byte budget (forensics.ts 59-140).    *)
EvidenceIsAccounted ==
    place = "done" =>
        /\ {s.name : s \in provenance \ Named("ci-log")}
             = MandatorySources \cup {"ci-remediation", "scm", "telemetry"}
        /\ Cardinality(provenance \ Named("ci-log")) = 5
        /\ \A s, t \in provenance : s.name = t.name /\ s.job = t.job => s = t
        /\ {s.job : s \in Named("ci-log")} = had.jobs
        /\ plan # {} => IsAvailable("ci-remediation")
        /\ evidence.changes # <<>> => IsAvailable("scm")
        /\ evidence.signals # <<>> => IsAvailable("telemetry")
        /\ LET logged == {s.job : s \in {t \in Named("ci-log") : t.reason = "available"}}
               shown == {l.job : l \in ToSet(evidence.logs)}
           IN /\ shown \subseteq logged
              /\ Bytes(evidence) < budget.maxBytes => shown = logged

Paths(changes) == [i \in DOMAIN changes |-> changes[i].path]

(* What is returned without a mark shows every log line, changed path and  *)
(* signal its sources had, through all the cuts from the line budget to    *)
(* the compaction of the payload.  Hunks and their lines are not meant:    *)
(* collectSCM cuts them without a mark (forensics.ts 89-146, 284-299).     *)
CutsAreMarked ==
    LET sent == IF Observed THEN payload ELSE analysis IN
    call = "returned" /\ sent.available /\ ~sent.truncated =>
        /\ sent.evidence.logs = had.logs
        /\ Paths(sent.evidence.changes) = Paths(had.changes)
        /\ sent.evidence.signals = SortedBy(had.signals, Ids(had.signals))

Missing ==
    \/ call \in {"recommending", "returned"} /\ ~analysis.available
    \/ call = "threw" /\ ~Observed

(* What the ref, the jobs, the plan or a source had that no result carries.*)
HadUnfit ==
    \/ <<"ref", input.ref>> \in Marked
    \/ \E j \in had.jobs : <<"job", j>> \in TooLong \/ <<"name", NameOf[j]>> \in Marked
    \/ \E category \in plan : <<"action", category>> \in Marked
    \/ Warners \cap Marked # {}
    \/ \E c \in ToSet(had.changes) : <<"scm", c.path>> \in TooLong
    \/ \E s \in ToSet(had.signals) : s.bad /\ s.inWindow /\ <<"telemetry", s.id>> \in TooLong

(* What the documentation says: an analysis is missing only when the CI    *)
(* did not show the run or its failed jobs, or its time was over           *)
(* (ci-observer.md, runtime.ts 612-645, forensics.ts 70-140).              *)
UnavailableHasCause == Missing => late \/ failure \in {"status", "analysis"}

(* What the code does: an analysis is missing only when the CI did not     *)
(* show the run or its failed jobs, the time was over, the provider is an  *)
(* instance of a class, or something an asked source did show is more than *)
(* the result's schema lets through.  No failure of an optional source, no *)
(* budget and no cut takes it away, nor, of the sources that answered, a   *)
(* normal signal, one out of the window or one that refused                *)
(* (runtime.ts 612-645, forensics.ts 48-198).                              *)
AnalysisIsLostForCause ==
    Missing => late \/ failure \in {"status", "analysis"} \/ Inherited \/ HadUnfit

(* The reason given for a recommendation is what happened to its callback: *)
(* a timeout only after the deadline, a malformed answer only of its own   *)
(* making, and who is given up has been told                               *)
(* (analysis-policy.ts 167-206, runtime.ts 650-666).                       *)
AdviceIsTruthful ==
    /\ recommendation = "available" => callback = "good"
    /\ recommendation = "malformed" =>
          callback = "blank" \/ (callback = "throws" /\ ~stopped)
    /\ recommendation = "timeout" => late
    /\ call = "returned" /\ callback = "running" => stopped

(* The observer's event is built, or refused for its size or its ref, even *)
(* if no provider and no callback ever answers (runtime.ts 626-669).       *)
EventEnds == [](Observed => <>(call \in {"returned", "threw"}))
=============================================================================
