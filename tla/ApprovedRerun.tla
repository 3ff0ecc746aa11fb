----------------------------- MODULE ApprovedRerun -----------------------------
(***************************************************************************)
(* ci.rerun_failed_workflow: calls of several server processes that spend  *)
(* operator approvals on reruns of one failed workflow run                 *)
(* (rerunFailedWorkflow of server/create-server.ts, ApprovalTokenService   *)
(* and FileApprovalAuditStore of ci/approval.ts).                          *)
(*                                                                         *)
(* Everything between two awaits is synchronous: calls of one process      *)
(* interleave only while they await the provider, those of different       *)
(* processes between any two operations on the shared files.  The replay   *)
(* file and the audit file each have a lock file; the audit's is part of   *)
(* an append, which happens or throws; what it says of calls that were     *)
(* denied is left out.  A lock file of a call at work never looks stale:   *)
(* 30 s and 10 min are longer than the work under them.                    *)
(* Whether an approval verifies is any answer; the workflow is allowed.    *)
(*                                                                         *)
(* Bounds: MaxAttempts attempts of the run, MaxFaults crashes and failed   *)
(* writes.                                                                 *)
(***************************************************************************)
EXTENDS Integers

CONSTANTS
    Call,
    Process, HostOf,
    Approval,           \* issued tokens, each with a nonce of its own
    RequestOf,          \* the request an approval is bound to ...
    AttemptOf,          \* ... and the attempt of the run it names
    Submissions,        \* which approvals the calls may submit
    Nobody,
    MaxAttempts, MaxFaults

Request == {RequestOf[a] : a \in Approval}

ASSUME ApprovalAssumption ==
    /\ HostOf \in [Call -> Process]
    /\ Submissions \subseteq [Call -> Approval]
    /\ AttemptOf \in [Request -> Nat]
    /\ Nobody \notin Call
    /\ MaxAttempts \in Nat \ {0}
    /\ MaxFaults \in Nat

VARIABLES
    pc,
    token,          \* the approval a call submits
    replayLock, actionLock,
    replay,         \* approvals in the replay file, with the spending calls
    audit,          \* what the audit file says of each call
    run,            \* the workflow run at the provider
    inflight,       \* rerun requests sent and not yet received
    accepted,       \* accepted reruns, with the attempt they re-ran
    raced,          \* was a lock file unlinked that was another's and fresh?
    interfered,     \* did anything but a call at work start an attempt?
    faults

locks == <<replayLock, actionLock>>
provider == <<run, inflight, accepted, interfered>>
vars == <<pc, token, locks, replay, audit, provider, raced, faults>>

Free == [owner |-> Nobody, stale |-> FALSE]
Owned(c) == [owner |-> c, stale |-> FALSE]

(* Inside a stretch of synchronous code. *)
Busy == {"open", "unlink", "read", "append", "log",
         "lease", "examine", "expel", "retake"}

AtWork == Busy \cup {"status", "answer"}

UnderReplayLock == {"read", "append", "log"}
UnderActionLock == {"status", "answer"}

TypeOK ==
    /\ pc \in [Call -> {"new", "done"} \cup AtWork]
    /\ token \in Submissions
    /\ replayLock \in [owner: Call \cup {Nobody}, stale: BOOLEAN]
    /\ actionLock \in [owner: Call \cup {Nobody}, stale: BOOLEAN]
    /\ replay \subseteq Approval \X Call
    /\ audit \in [Call -> SUBSET {"consumed", "started", "success", "failure"}]
    /\ run \in [attempt: 1..MaxAttempts, phase: {"running", "failed", "passed"}]
    /\ inflight \subseteq Call
    /\ accepted \subseteq Call \X (1..MaxAttempts)
    /\ raced \in BOOLEAN
    /\ interfered \in BOOLEAN
    /\ faults \in 0..MaxFaults
    /\ \A c, d \in Call :
          /\ pc[c] \in Busy
          /\ pc[d] \in Busy
          /\ HostOf[c] = HostOf[d]
          => c = d

Init ==
    /\ pc = [c \in Call |-> "new"]
    /\ token \in Submissions
    /\ replayLock = Free
    /\ actionLock = Free
    /\ replay = {}
    /\ audit = [c \in Call |-> {}]
    /\ run = [attempt |-> 1, phase |-> "failed"]
    /\ inflight = {}
    /\ accepted = {}
    /\ raced = FALSE
    /\ interfered = FALSE
    /\ faults = 0

Runs(c) == \A d \in Call : HostOf[d] = HostOf[c] /\ pc[d] \in Busy => d = c

Goto(c, place) == pc' = [pc EXCEPT ![c] = place]

Tell(c, outcome) == audit' = [audit EXCEPT ![c] = @ \cup {outcome}]

(* An append that throws goes unrecorded. *)
MayTell(c, outcome) ==
    \/ Tell(c, outcome) /\ UNCHANGED faults
    \/ faults < MaxFaults /\ faults' = faults + 1 /\ UNCHANGED audit

(* Lock files are released by name. *)
ReleaseReplay(c) ==
    /\ replayLock' = Free
    /\ raced' = (raced \/ replayLock.owner \notin {c, Nobody})

ReleaseAction(c) ==
    /\ actionLock' = Free
    /\ raced' = (raced \/ actionLock.owner \notin {c, Nobody})

-----------------------------------------------------------------------------
(* verifyAndConsume *)

Submit(c) ==
    /\ Runs(c)
    /\ pc[c] = "new"
    /\ Goto(c, "open")
    /\ UNCHANGED <<token, locks, replay, audit, provider, raced, faults>>

(* Malformed, wrongly signed, bound to something else or expired: nothing  *)
(* is spent.                                                               *)
Reject(c) ==
    /\ Runs(c)
    /\ pc[c] = "new"
    /\ Goto(c, "done")
    /\ UNCHANGED <<token, locks, replay, audit, provider, raced, faults>>

(* Mutant: the lock file is opened without "x". *)
OpenShared(c) ==
    /\ pc[c] = "open"
    /\ replayLock' = Owned(c)
    /\ Goto(c, "read")
    /\ UNCHANGED <<token, actionLock, replay, audit, provider, raced, faults>>

(* acquireFileLock: open "wx", or stat, wait and try again for 5 s.        *)
Open(c) ==
    /\ pc[c] = "open"
    /\ replayLock = Free
    /\ replayLock' = Owned(c)
    /\ Goto(c, "read")
    /\ UNCHANGED <<token, actionLock, replay, audit, provider, raced, faults>>

(* A fresh lock file is waited for; a stale one is unlinked after the stat *)
(* that found it so.                                                       *)
FindStale(c) ==
    /\ pc[c] = "open"
    /\ replayLock.stale
    /\ Goto(c, "unlink")
    /\ UNCHANGED <<token, locks, replay, audit, provider, raced, faults>>

Unlink(c) ==
    /\ pc[c] = "unlink"
    /\ replayLock' = Free
    /\ raced' = (raced \/ (replayLock # Free /\ ~replayLock.stale))
    /\ Goto(c, "open")
    /\ UNCHANGED <<token, actionLock, replay, audit, provider, faults>>

(* "approval replay lock unavailable": five seconds are over. *)
GiveUp(c) ==
    /\ pc[c] = "open"
    /\ replayLock # Free
    /\ Goto(c, "done")
    /\ UNCHANGED <<token, locks, replay, audit, provider, raced, faults>>

Spent(a) ==
    \E entry \in replay : entry[1] = a \/ RequestOf[entry[1]] = RequestOf[a]

(* The replay file knows the nonce or the request: "replay", "duplicate".  *)
Refuse(c) ==
    /\ pc[c] = "read"
    /\ Spent(token[c])
    /\ ReleaseReplay(c)
    /\ Goto(c, "done")
    /\ UNCHANGED <<token, actionLock, replay, audit, provider, faults>>

Read(c) ==
    /\ pc[c] = "read"
    /\ ~Spent(token[c])
    /\ Goto(c, "append")
    /\ UNCHANGED <<token, locks, replay, audit, provider, raced, faults>>

Append(c) ==
    /\ pc[c] = "append"
    /\ replay' = replay \cup {<<token[c], c>>}
    /\ Goto(c, "log")
    /\ UNCHANGED <<token, locks, audit, provider, raced, faults>>

(* Mutant: an approval whose audit failed goes on. *)
LogUnheeded(c) ==
    /\ pc[c] = "log"
    /\ MayTell(c, "consumed")
    /\ ReleaseReplay(c)
    /\ Goto(c, "lease")
    /\ UNCHANGED <<token, actionLock, replay, provider>>

(* "approval_consumed" is in the audit, or the approval is spent and the   *)
(* call fails; the lock is released either way.                            *)
Log(c) ==
    /\ pc[c] = "log"
    /\ MayTell(c, "consumed")
    /\ ReleaseReplay(c)
    /\ Goto(c, IF faults' = faults THEN "lease" ELSE "done")
    /\ UNCHANGED <<token, actionLock, replay, provider>>

-----------------------------------------------------------------------------
(* acquireActionLease *)

TakeLease(c) ==
    /\ actionLock = Free
    /\ actionLock' = Owned(c)
    /\ Goto(c, "status")
    /\ UNCHANGED <<token, replayLock, replay, audit, provider, raced, faults>>

Lease(c) == pc[c] = "lease" /\ TakeLease(c)

FindLeased(c) ==
    /\ pc[c] = "lease"
    /\ actionLock # Free
    /\ Goto(c, "examine")
    /\ UNCHANGED <<token, locks, replay, audit, provider, raced, faults>>

(* Mutant: a call that was refused releases the lease all the same. *)
InProgressReleasing(c) ==
    /\ pc[c] = "examine"
    /\ actionLock # Free
    /\ ~actionLock.stale
    /\ actionLock' = Free
    /\ Goto(c, "done")
    /\ UNCHANGED <<token, replayLock, replay, audit, provider, raced, faults>>

(* "ci_action_in_progress" *)
InProgress(c) ==
    /\ pc[c] = "examine"
    /\ actionLock # Free
    /\ ~actionLock.stale
    /\ Goto(c, "done")
    /\ UNCHANGED <<token, locks, replay, audit, provider, raced, faults>>

Outlived(c) ==
    /\ pc[c] = "examine"
    /\ actionLock.stale
    /\ Goto(c, "expel")
    /\ UNCHANGED <<token, locks, replay, audit, provider, raced, faults>>

Expel(c) ==
    /\ pc[c] = "expel"
    /\ actionLock # Free
    /\ actionLock' = Free
    /\ raced' = (raced \/ ~actionLock.stale)
    /\ Goto(c, "retake")
    /\ UNCHANGED <<token, replayLock, replay, audit, provider, faults>>

Retake(c) == pc[c] = "retake" /\ TakeLease(c)

Outrun(c) ==
    /\ pc[c] = "retake"
    /\ actionLock # Free
    /\ Goto(c, "done")
    /\ UNCHANGED <<token, locks, replay, audit, provider, raced, faults>>

(* The lock file was gone when it was to be looked at or unlinked: thrown. *)
Vanished(c) ==
    /\ pc[c] \in {"examine", "expel"}
    /\ actionLock = Free
    /\ Goto(c, "done")
    /\ UNCHANGED <<token, locks, replay, audit, provider, raced, faults>>

-----------------------------------------------------------------------------
(* The recheck of the run and the request, under the action lease *)

Finish(c, outcome) ==
    /\ MayTell(c, outcome)
    /\ ReleaseAction(c)
    /\ Goto(c, "done")
    /\ UNCHANGED <<token, replayLock, replay>>

(* Mutant: the attempt the approval names is not compared. *)
EligibleAnyAttempt(c) == run.phase = "failed"

(* Fresh, failed or cancelled, and still the attempt that was approved. *)
Eligible(c) ==
    run.phase = "failed" /\ run.attempt = AttemptOf[RequestOf[token[c]]]

(* "action_started" is in the audit before the request leaves.             *)
Start(c) ==
    /\ Runs(c)
    /\ pc[c] = "status"
    /\ Eligible(c)
    /\ Tell(c, "started")
    /\ inflight' = inflight \cup {c}
    /\ Goto(c, "answer")
    /\ UNCHANGED <<token, locks, replay, run, accepted, interfered,
                   raced, faults>>

(* Not eligible, not fresh, not available, or the audit failed.            *)
Deny(c) ==
    /\ Runs(c)
    /\ pc[c] = "status"
    /\ ReleaseAction(c)
    /\ Goto(c, "done")
    /\ UNCHANGED <<token, replayLock, replay, audit, provider, faults>>

(* Mutant: a result that cannot be parsed or audited counts as accepted.   *)
SucceedAlways(c) ==
    /\ Runs(c)
    /\ pc[c] = "answer"
    /\ Finish(c, "success")
    /\ UNCHANGED provider

Succeed(c) ==
    /\ Runs(c)
    /\ pc[c] = "answer"
    /\ \E attempt \in 1..MaxAttempts : <<c, attempt>> \in accepted
    /\ Finish(c, "success")
    /\ UNCHANGED provider

(* Mutant: the request for the rerun has no timeout. *)
FailAnswered(c) ==
    /\ Runs(c)
    /\ pc[c] = "answer"
    /\ c \notin inflight
    /\ Finish(c, "failure")
    /\ UNCHANGED provider

(* Refused, lost, too late, unreadable, or accepted and "success" could    *)
(* not be appended: a request still under way goes on alone.               *)
Fail(c) ==
    /\ Runs(c)
    /\ pc[c] = "answer"
    /\ Finish(c, "failure")
    /\ interfered' = (interfered \/ c \in inflight)
    /\ UNCHANGED <<run, inflight, accepted>>

-----------------------------------------------------------------------------
(* The provider, time and crashes *)

others == <<pc, token, locks, replay, audit, raced, faults>>

Receive(c) ==
    /\ c \in inflight
    /\ inflight' = inflight \ {c}
    /\ IF run.phase # "running" /\ run.attempt < MaxAttempts
       THEN /\ run' = [attempt |-> run.attempt + 1, phase |-> "running"]
            /\ accepted' = accepted \cup {<<c, run.attempt>>}
       ELSE UNCHANGED <<run, accepted>>
    /\ UNCHANGED <<others, interfered>>

EndAttempt ==
    /\ run.phase = "running"
    /\ \E phase \in {"failed", "passed"} : run' = [run EXCEPT !.phase = phase]
    /\ UNCHANGED <<others, inflight, accepted, interfered>>

(* Somebody re-runs the workflow by other means. *)
OtherRerun ==
    /\ run.phase # "running"
    /\ run.attempt < MaxAttempts
    /\ run' = [attempt |-> run.attempt + 1, phase |-> "running"]
    /\ interfered' = TRUE
    /\ UNCHANGED <<others, inflight, accepted>>

(* The lock file of a call that is not under it any more grows stale.      *)
Age ==
    /\ \/ /\ replayLock # Free /\ ~replayLock.stale
          /\ pc[replayLock.owner] \notin UnderReplayLock
          /\ replayLock' = [replayLock EXCEPT !.stale = TRUE]
          /\ UNCHANGED actionLock
       \/ /\ actionLock # Free /\ ~actionLock.stale
          /\ pc[actionLock.owner] \notin UnderActionLock
          /\ actionLock' = [actionLock EXCEPT !.stale = TRUE]
          /\ UNCHANGED replayLock
    /\ UNCHANGED <<pc, token, replay, audit, provider, raced, faults>>

(* A process dies: its calls end, its lock files and requests stay.        *)
Crash(p) ==
    LET hit == {c \in Call : HostOf[c] = p /\ pc[c] \in AtWork}
    IN  /\ hit # {}
        /\ faults < MaxFaults
        /\ faults' = faults + 1
        /\ pc' = [c \in Call |-> IF c \in hit THEN "done" ELSE pc[c]]
        /\ interfered' = (interfered \/ hit \cap inflight # {})
        /\ UNCHANGED <<token, locks, replay, audit, run, inflight,
                       accepted, raced>>

-----------------------------------------------------------------------------
Step(c) ==
    \/ Open(c) \/ FindStale(c) \/ Unlink(c)
    \/ Refuse(c) \/ Read(c) \/ Append(c) \/ Log(c)
    \/ Lease(c) \/ FindLeased(c) \/ InProgress(c) \/ Outlived(c)
    \/ Expel(c) \/ Retake(c) \/ Outrun(c) \/ Vanished(c)
    \/ Start(c) \/ Deny(c) \/ Succeed(c) \/ Fail(c)

Next ==
    \/ \E c \in Call :
          \/ Submit(c) \/ Reject(c) \/ Step(c) \/ GiveUp(c)
          \/ Receive(c)
    \/ EndAttempt \/ OtherRerun \/ Age
    \/ \E p \in Process : Crash(p)

(* Code runs on, requests end by their timeout, and so does the wait for   *)
(* the replay lock.  The provider owes nothing.                            *)
Fairness == \A c \in Call : WF_vars(Step(c) \/ GiveUp(c))

Spec == Init /\ [][Next]_vars /\ Fairness

-----------------------------------------------------------------------------
(* Properties *)

(* No approval, and no approved request, is spent twice, by whichever      *)
(* processes, until a lock file is unlinked that is another's and fresh    *)
(* (approval.ts 96-112).                                                   *)
SpentOnceUntilRaced ==
    ~raced => \A x, y \in replay : RequestOf[x[1]] = RequestOf[y[1]] => x = y

(* One call at a time rechecks and re-runs a run: the status a call has    *)
(* read is not changed by another approved call (approval.ts 113-135).     *)
OneActionUntilRaced ==
    ~raced => \A c, d \in Call :
                 pc[c] \in UnderActionLock /\ pc[d] \in UnderActionLock => c = d

(* A request that has left the server was approved and is on record: its   *)
(* approval is in the replay file, and the audit says it was consumed and  *)
(* started, whatever write failed or process died (create-server.ts        *)
(* 433-464).                                                               *)
RequestsAreOnRecord ==
    \A c \in Call :
        c \in inflight \/ (\E attempt \in 1..MaxAttempts : <<c, attempt>> \in accepted)
            => /\ <<token[c], c>> \in replay
               /\ {"consumed", "started"} \subseteq audit[c]

(* The attempt that is re-run is the one the operator approved, unless a   *)
(* lock raced, somebody re-ran the workflow by other means, or a request   *)
(* was given up and arrived late (create-server.ts 446-462).               *)
RerunsApprovedAttempt ==
    raced \/ interfered
        \/ \A x \in accepted : x[2] = AttemptOf[RequestOf[token[x[1]]]]

(* The audit never claims a rerun the provider has not accepted, and never *)
(* two outcomes of one call (create-server.ts 436-470).                    *)
AuditIsTrue ==
    \A c \in Call :
        /\ "success" \in audit[c] =>
              \E attempt \in 1..MaxAttempts : <<c, attempt>> \in accepted
        /\ "success" \in audit[c] => "failure" \notin audit[c]

(* Every call that is submitted ends, whoever holds or has left a lock     *)
(* file (approval.ts 276-291).                                             *)
EveryCallEnds == \A c \in Call : pc[c] \in AtWork ~> pc[c] = "done"
=============================================================================
