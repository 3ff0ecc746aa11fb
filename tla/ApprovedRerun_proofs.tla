------------------------ MODULE ApprovedRerun_proofs ------------------------
(***************************************************************************)
(* What an approval buys, for every set of calls, processes and approvals, *)
(* any number of attempts of the run and any number of faults.             *)
(***************************************************************************)
EXTENDS ApprovedRerun, TLAPS

(* Until a lock file is unlinked that was another's and fresh, a call      *)
(* inside a locked section owns the fresh lock file of that section.       *)
LocksAreHeld ==
    ~raced => \A c \in Call :
                 /\ pc[c] \in UnderReplayLock => replayLock = Owned(c)
                 /\ pc[c] \in UnderActionLock => actionLock = Owned(c)

(* Between the read of the replay file and the append to it nothing that   *)
(* would have refused the approval gets into the file.                     *)
AppendsAreUnspent ==
    ~raced => \A c \in Call : pc[c] = "append" => ~Spent(token[c])

(* Past the append the approval is in the file, past the audit it is on    *)
(* record as consumed, and a call whose request has left as started.       *)
PastAppend == {"log", "lease", "examine", "expel", "retake", "status", "answer"}

Accepted(c) == \E attempt \in 1..MaxAttempts : <<c, attempt>> \in accepted

RecordKept ==
    \A c \in Call :
        /\ pc[c] \in PastAppend => <<token[c], c>> \in replay
        /\ pc[c] \in PastAppend \ {"log"} => "consumed" \in audit[c]
        /\ pc[c] = "answer" => "started" \in audit[c]

(* A call sends one request, from "status", and it is received once.       *)
OneRequest ==
    \A c \in Call :
        /\ pc[c] \notin {"answer", "done"} => c \notin inflight /\ ~Accepted(c)
        /\ Accepted(c) => c \notin inflight

(* What is under way is under the action lease and names the attempt the   *)
(* run is at.                                                              *)
RequestsAreCurrent ==
    raced \/ interfered
        \/ \A c \in inflight :
              /\ pc[c] = "answer"
              /\ run.attempt = AttemptOf[RequestOf[token[c]]]

(* The outcome of a call is audited as the call ends.                      *)
OutcomesEndCalls ==
    \A c \in Call : pc[c] # "done" => audit[c] \cap {"success", "failure"} = {}

-----------------------------------------------------------------------------
(* An append to the audit adds what it says to one call, or nothing.       *)
LEMMA TellKeepsType ==
    ASSUME TypeOK, NEW c \in Call,
           NEW o \in {"consumed", "started", "success", "failure"},
           MayTell(c, o)
    PROVE  /\ audit' \in [Call -> SUBSET {"consumed", "started", "success", "failure"}]
           /\ faults' \in 0..MaxFaults
<1> USE ApprovalAssumption DEF TypeOK
<1>1. CASE Tell(c, o) /\ UNCHANGED faults
  BY <1>1 DEF Tell
<1>2. CASE faults < MaxFaults /\ faults' = faults + 1 /\ UNCHANGED audit
  BY <1>2
<1> QED
  BY <1>1, <1>2 DEF MayTell

(* The steps that verify and spend an approval keep the types              *)
(* (approval.ts 60-112).                                                   *)
LEMMA ConsumeKeepsType ==
    ASSUME TypeOK, NEW c \in Call,
           \/ Submit(c) \/ Reject(c) \/ Open(c) \/ FindStale(c) \/ Unlink(c)
           \/ GiveUp(c) \/ Refuse(c) \/ Read(c) \/ Append(c) \/ Log(c)
    PROVE  TypeOK'
<1> USE ApprovalAssumption
    DEF TypeOK, Goto, Busy, AtWork, Free, Owned, ReleaseReplay, locks, provider
<1>1. CASE Submit(c)
  BY <1>1 DEF Submit, Runs
<1>2. CASE Reject(c) \/ FindStale(c) \/ GiveUp(c) \/ Read(c)
  BY <1>2 DEF Reject, FindStale, GiveUp, Read
<1>3. CASE Open(c)
  BY <1>3 DEF Open
<1>4. CASE Unlink(c)
  BY <1>4 DEF Unlink
<1>5. CASE Refuse(c)
  BY <1>5 DEF Refuse
<1>6. CASE Append(c)
  <2>1. token[c] \in Approval
    OBVIOUS
  <2> QED
    BY <1>6, <2>1 DEF Append
<1>7. CASE Log(c)
  <2>1. /\ audit' \in [Call -> SUBSET {"consumed", "started", "success", "failure"}]
        /\ faults' \in 0..MaxFaults
    BY <1>7, TellKeepsType DEF Log
  <2>2. PICK place \in {"lease", "done"} : Goto(c, place)
    BY <1>7 DEF Log
  <2>3. pc' \in [Call -> {"new", "done"} \cup AtWork]
    BY <2>2
  <2>4. \A d \in Call : pc'[d] \in Busy => pc[d] \in Busy
    BY <1>7, <2>2 DEF Log
  <2> QED
    BY <1>7, <2>1, <2>3, <2>4 DEF Log
<1> QED
  BY <1>1, <1>2, <1>3, <1>4, <1>5, <1>6, <1>7

(* So do the steps on the action lease (approval.ts 113-135).              *)
LEMMA LeaseKeepsType ==
    ASSUME TypeOK, NEW c \in Call,
           \/ Lease(c) \/ FindLeased(c) \/ InProgress(c) \/ Outlived(c)
           \/ Expel(c) \/ Retake(c) \/ Outrun(c) \/ Vanished(c)
    PROVE  TypeOK'
<1> USE ApprovalAssumption
    DEF TypeOK, Goto, Busy, AtWork, Free, Owned, locks, provider
<1>1. CASE Lease(c) \/ Retake(c)
  <2>1. pc[c] \in Busy /\ TakeLease(c)
    BY <1>1 DEF Lease, Retake
  <2>2. pc' \in [Call -> {"new", "done"} \cup AtWork]
    BY <2>1 DEF TakeLease
  <2>3. \A d \in Call : pc'[d] \in Busy => pc[d] \in Busy
    BY <2>1 DEF TakeLease
  <2> QED
    BY <2>1, <2>2, <2>3 DEF TakeLease
<1>2. CASE FindLeased(c) \/ InProgress(c) \/ Outlived(c) \/ Outrun(c) \/ Vanished(c)
  BY <1>2 DEF FindLeased, InProgress, Outlived, Outrun, Vanished
<1>3. CASE Expel(c)
  BY <1>3 DEF Expel
<1> QED
  BY <1>1, <1>2, <1>3

(* So do the recheck and the end of the rerun (create-server.ts 433-470).  *)
LEMMA RerunKeepsType ==
    ASSUME TypeOK, NEW c \in Call,
           Start(c) \/ Deny(c) \/ Succeed(c) \/ Fail(c)
    PROVE  TypeOK'
<1> USE ApprovalAssumption
    DEF TypeOK, Goto, Busy, AtWork, Free, ReleaseAction, locks, provider
<1>1. CASE Start(c)
  BY <1>1 DEF Start, Tell
<1>2. CASE Deny(c)
  BY <1>2 DEF Deny
<1>3. CASE Succeed(c)
  <2>1. /\ audit' \in [Call -> SUBSET {"consumed", "started", "success", "failure"}]
        /\ faults' \in 0..MaxFaults
    BY <1>3, TellKeepsType DEF Succeed, Finish
  <2> QED
    BY <1>3, <2>1, ZenonT(60) DEF Succeed, Finish
<1>4. CASE Fail(c)
  <2>1. /\ audit' \in [Call -> SUBSET {"consumed", "started", "success", "failure"}]
        /\ faults' \in 0..MaxFaults
    BY <1>4, TellKeepsType DEF Fail, Finish
  <2> QED
    BY <1>4, <2>1, ZenonT(60) DEF Fail, Finish
<1> QED
  BY <1>1, <1>2, <1>3, <1>4

(* So do the provider, time and crashes.                                   *)
LEMMA WorldKeepsType ==
    ASSUME TypeOK,
           \/ \E c \in Call : Receive(c)
           \/ EndAttempt \/ OtherRerun \/ Age
           \/ \E p \in Process : Crash(p)
    PROVE  TypeOK'
<1> USE ApprovalAssumption DEF TypeOK, Busy, AtWork, others, locks, provider
<1>1. CASE \E c \in Call : Receive(c)
  BY <1>1 DEF Receive
<1>2. CASE EndAttempt
  BY <1>2 DEF EndAttempt
<1>3. CASE OtherRerun
  BY <1>3 DEF OtherRerun
<1>4. CASE Age
  <2>1. /\ replayLock' \in [owner: Call \cup {Nobody}, stale: BOOLEAN]
        /\ actionLock' \in [owner: Call \cup {Nobody}, stale: BOOLEAN]
    <3>1. CASE replayLock' = [replayLock EXCEPT !.stale = TRUE] /\ UNCHANGED actionLock
      BY <3>1
    <3>2. CASE actionLock' = [actionLock EXCEPT !.stale = TRUE] /\ UNCHANGED replayLock
      BY <3>2
    <3> QED
      BY <1>4, <3>1, <3>2 DEF Age
  <2>2. UNCHANGED <<pc, token, replay, audit, provider, raced, faults>>
    BY <1>4 DEF Age
  <2> QED
    BY <2>1, <2>2
<1>5. CASE \E p \in Process : Crash(p)
  BY <1>5 DEF Crash
<1> QED
  BY <1>1, <1>2, <1>3, <1>4, <1>5

(* Calls, files, runs and requests keep their types, and two calls of a    *)
(* process are never inside synchronous code at once (approval.ts 60-135,  *)
(* create-server.ts 401-474).                                              *)
THEOREM ApprovalTypeCorrect == Spec => []TypeOK
<1>1. Init => TypeOK
  <2> SUFFICES ASSUME Init PROVE TypeOK
    OBVIOUS
  <2>1. 1 \in 1..MaxAttempts /\ 0 \in 0..MaxFaults
    BY ApprovalAssumption
  <2>2. run \in [attempt: 1..MaxAttempts, phase: {"running", "failed", "passed"}]
    BY <2>1 DEF Init
  <2>3. \A c \in Call : pc[c] \notin Busy
    BY DEF Init, Busy
  <2>4. Free \in [owner: Call \cup {Nobody}, stale: BOOLEAN]
    BY DEF Free
  <2> QED
    BY <2>1, <2>2, <2>3, <2>4 DEF Init, TypeOK
<1>2. TypeOK /\ [Next]_vars => TypeOK'
  <2> SUFFICES ASSUME TypeOK, [Next]_vars PROVE TypeOK'
    OBVIOUS
  <2>1. CASE UNCHANGED vars
    BY <2>1 DEF TypeOK, vars, locks, provider
  <2> QED
    BY <2>1, ConsumeKeepsType, LeaseKeepsType, RerunKeepsType, WorldKeepsType
    DEF Next, Step
<1> QED
  BY <1>1, <1>2, PTL DEF Spec

-----------------------------------------------------------------------------
(* The steps that take, release and expel the replay lock leave every call *)
(* in a locked section with its lock, or raced is set (approval.ts 96-112, *)
(* 276-291).                                                               *)
LEMMA ConsumeKeepsLocks ==
    ASSUME TypeOK, LocksAreHeld, NEW c \in Call,
           \/ Submit(c) \/ Reject(c) \/ Open(c) \/ FindStale(c) \/ Unlink(c)
           \/ GiveUp(c) \/ Refuse(c) \/ Read(c) \/ Append(c) \/ Log(c)
    PROVE  LocksAreHeld'
<1> USE ApprovalAssumption
    DEF TypeOK, LocksAreHeld, Goto, UnderReplayLock, UnderActionLock, locks
<1>1. CASE Submit(c) \/ Reject(c) \/ FindStale(c) \/ GiveUp(c) \/ Read(c) \/ Append(c)
  BY <1>1 DEF Submit, Reject, FindStale, GiveUp, Read, Append, Owned
<1>2. CASE Open(c)
  BY <1>2 DEF Open, Free, Owned
<1>3. CASE Unlink(c)
  <2>1. ~raced' => ~raced /\ (replayLock = Free \/ replayLock.stale)
    BY <1>3 DEF Unlink
  <2>2. ~raced' => \A d \in Call : replayLock # Owned(d)
    BY <2>1 DEF Free, Owned
  <2>3. \A d \in Call : pc'[d] = pc[d] \/ (d = c /\ pc'[d] = "open")
    BY <1>3 DEF Unlink
  <2> QED
    BY <1>3, <2>1, <2>2, <2>3 DEF Unlink
<1>4. CASE Refuse(c)
  BY <1>4 DEF Refuse, ReleaseReplay, Free, Owned
<1>5. CASE Log(c)
  <2>1. PICK place \in {"lease", "done"} : Goto(c, place)
    BY <1>5 DEF Log
  <2> QED
    BY <1>5, <2>1 DEF Log, ReleaseReplay, Free, Owned
<1> QED
  BY <1>1, <1>2, <1>3, <1>4, <1>5

(* So do the steps that take, release and expel the action lease           *)
(* (approval.ts 113-135, create-server.ts 433-474).                        *)
LEMMA LeaseKeepsLocks ==
    ASSUME TypeOK, LocksAreHeld, NEW c \in Call,
           \/ Lease(c) \/ FindLeased(c) \/ InProgress(c) \/ Outlived(c)
           \/ Expel(c) \/ Retake(c) \/ Outrun(c) \/ Vanished(c)
           \/ Start(c) \/ Deny(c) \/ Succeed(c) \/ Fail(c)
    PROVE  LocksAreHeld'
<1> USE ApprovalAssumption
    DEF TypeOK, LocksAreHeld, Goto, UnderReplayLock, UnderActionLock, locks
<1>1. CASE Lease(c) \/ Retake(c)
  BY <1>1 DEF Lease, Retake, TakeLease, Free, Owned
<1>2. CASE FindLeased(c) \/ InProgress(c) \/ Outlived(c) \/ Outrun(c) \/ Vanished(c)
  BY <1>2 DEF FindLeased, InProgress, Outlived, Outrun, Vanished, Owned
<1>3. CASE Expel(c)
  <2>1. ~raced' => ~raced /\ actionLock.stale
    BY <1>3 DEF Expel
  <2>2. ~raced' => \A d \in Call : actionLock # Owned(d)
    BY <2>1 DEF Owned
  <2>3. \A d \in Call : pc'[d] = pc[d] \/ (d = c /\ pc'[d] = "retake")
    BY <1>3 DEF Expel
  <2> QED
    BY <1>3, <2>1, <2>2, <2>3 DEF Expel
<1>4. CASE Start(c)
  BY <1>4 DEF Start, Owned
<1>5. CASE Deny(c) \/ Succeed(c) \/ Fail(c)
  <2>1. /\ pc[c] \in UnderActionLock
        /\ ReleaseAction(c)
        /\ Goto(c, "done")
        /\ UNCHANGED replayLock
    BY <1>5 DEF Deny, Succeed, Fail, Finish
  <2> QED
    BY <2>1 DEF ReleaseAction, Free, Owned
<1> QED
  BY <1>1, <1>2, <1>3, <1>4, <1>5

(* So does the world: only a lock file whose call has left its section     *)
(* grows stale.                                                            *)
LEMMA WorldKeepsLocks ==
    ASSUME TypeOK, LocksAreHeld,
           \/ \E c \in Call : Receive(c)
           \/ EndAttempt \/ OtherRerun \/ Age
           \/ \E p \in Process : Crash(p)
    PROVE  LocksAreHeld'
<1> USE ApprovalAssumption
    DEF TypeOK, LocksAreHeld, UnderReplayLock, UnderActionLock, locks, Owned
<1>1. CASE (\E c \in Call : Receive(c)) \/ EndAttempt \/ OtherRerun
  BY <1>1 DEF Receive, EndAttempt, OtherRerun, others
<1>2. CASE Age
  BY <1>2 DEF Age, Free
<1>3. CASE \E p \in Process : Crash(p)
  BY <1>3 DEF Crash
<1> QED
  BY <1>1, <1>2, <1>3

(* The locks are held as long as nobody has lost a race for one.           *)
THEOREM LocksHold == Spec => []LocksAreHeld
<1>1. Init => LocksAreHeld
  BY DEF Init, LocksAreHeld, UnderReplayLock, UnderActionLock
<1>2. TypeOK /\ LocksAreHeld /\ [Next]_vars => LocksAreHeld'
  <2> SUFFICES ASSUME TypeOK, LocksAreHeld, [Next]_vars PROVE LocksAreHeld'
    OBVIOUS
  <2>1. CASE UNCHANGED vars
    BY <2>1 DEF LocksAreHeld, vars, locks
  <2> QED
    BY <2>1, ConsumeKeepsLocks, LeaseKeepsLocks, WorldKeepsLocks DEF Next, Step
<1> QED
  BY <1>1, <1>2, ApprovalTypeCorrect, PTL DEF Spec

(* One call at a time rechecks and re-runs the run, whichever process it   *)
(* is of, until a lock raced: two of them would each own the one lock file *)
(* (approval.ts 113-135).                                                  *)
THEOREM OneActionAtATime == Spec => []OneActionUntilRaced
<1>1. LocksAreHeld => OneActionUntilRaced
  BY DEF LocksAreHeld, OneActionUntilRaced, Owned
<1> QED
  BY <1>1, LocksHold, PTL

-----------------------------------------------------------------------------
(* Which approval a call submits never changes, and only an append changes *)
(* the replay file: every other step brings at most one call to its        *)
(* append, and that call has just read the file (approval.ts 96-112).      *)
LEMMA OnlyAppendSpends ==
    ASSUME TypeOK, [Next]_vars
    PROVE  /\ token' = token
           /\ \/ \E c \in Call : Append(c)
              \/ /\ replay' = replay
                 /\ \A c \in Call : pc'[c] = "append" => pc[c] = "append" \/ Read(c)
<1> USE DEF TypeOK, Goto, locks, provider
<1>1. ASSUME NEW c \in Call,
             \/ Submit(c) \/ Reject(c) \/ Open(c) \/ FindStale(c) \/ Unlink(c)
             \/ GiveUp(c) \/ Refuse(c)
      PROVE  /\ token' = token
             /\ replay' = replay
             /\ \A d \in Call : pc'[d] = "append" => pc[d] = "append"
  BY <1>1 DEF Submit, Reject, Open, FindStale, Unlink, GiveUp, Refuse
<1>2. ASSUME NEW c \in Call, Read(c)
      PROVE  /\ token' = token
             /\ replay' = replay
             /\ \A d \in Call : pc'[d] = "append" => pc[d] = "append" \/ d = c
  BY <1>2 DEF Read
<1>3. ASSUME NEW c \in Call, Append(c)
      PROVE  token' = token
  BY <1>3 DEF Append
<1>4. ASSUME NEW c \in Call,
             \/ Lease(c) \/ FindLeased(c) \/ InProgress(c) \/ Outlived(c)
             \/ Expel(c) \/ Retake(c) \/ Outrun(c) \/ Vanished(c)
      PROVE  /\ token' = token
             /\ replay' = replay
             /\ \A d \in Call : pc'[d] = "append" => pc[d] = "append"
  BY <1>4 DEF Lease, FindLeased, InProgress, Outlived, Expel, Retake, Outrun,
              Vanished, TakeLease
<1>5. ASSUME NEW c \in Call, Log(c) \/ Start(c) \/ Deny(c) \/ Succeed(c) \/ Fail(c)
      PROVE  /\ token' = token
             /\ replay' = replay
             /\ \A d \in Call : pc'[d] = "append" => pc[d] = "append"
  <2>1. PICK place \in {"lease", "answer", "done"} : Goto(c, place)
    BY <1>5 DEF Log, Start, Deny, Succeed, Fail, Finish
  <2> QED
    BY <1>5, <2>1 DEF Log, Start, Deny, Succeed, Fail, Finish
<1>6. ASSUME \/ \E c \in Call : Receive(c)
             \/ EndAttempt \/ OtherRerun \/ Age
             \/ \E p \in Process : Crash(p)
             \/ UNCHANGED vars
      PROVE  /\ token' = token
             /\ replay' = replay
             /\ \A d \in Call : pc'[d] = "append" => pc[d] = "append"
  BY <1>6 DEF Receive, EndAttempt, OtherRerun, Age, Crash, others, vars
<1> QED
  BY <1>1, <1>2, <1>3, <1>4, <1>5, <1>6 DEF Next, Step

(* A lost race stays lost.                                                 *)
LEMMA RacedStays ==
    ASSUME TypeOK, [Next]_vars
    PROVE  raced => raced'
<1> USE DEF TypeOK, locks, provider
<1>1. ASSUME NEW c \in Call,
             \/ Submit(c) \/ Reject(c) \/ Open(c) \/ FindStale(c) \/ Unlink(c)
             \/ GiveUp(c) \/ Refuse(c) \/ Read(c) \/ Append(c) \/ Log(c)
      PROVE  raced => raced'
  BY <1>1 DEF Submit, Reject, Open, FindStale, Unlink, GiveUp, Refuse, Read,
              Append, Log, ReleaseReplay
<1>2. ASSUME NEW c \in Call,
             \/ Lease(c) \/ FindLeased(c) \/ InProgress(c) \/ Outlived(c)
             \/ Expel(c) \/ Retake(c) \/ Outrun(c) \/ Vanished(c)
             \/ Start(c) \/ Deny(c) \/ Succeed(c) \/ Fail(c)
      PROVE  raced => raced'
  BY <1>2 DEF Lease, FindLeased, InProgress, Outlived, Expel, Retake, Outrun,
              Vanished, TakeLease, Start, Deny, Succeed, Fail, Finish, ReleaseAction
<1>3. ASSUME \/ \E c \in Call : Receive(c)
             \/ EndAttempt \/ OtherRerun \/ Age
             \/ \E p \in Process : Crash(p)
             \/ UNCHANGED vars
      PROVE  raced => raced'
  BY <1>3 DEF Receive, EndAttempt, OtherRerun, Age, Crash, others, vars
<1> QED
  BY <1>1, <1>2, <1>3 DEF Next, Step

(* No approval, and no request that was approved twice, is spent twice, by *)
(* however many calls of however many processes, until a lock raced: what  *)
(* the read of the replay file found is still so at the append             *)
(* (approval.ts 96-112).                                                   *)
THEOREM ApprovalsSpentOnce == Spec => []SpentOnceUntilRaced
<1>1. Init => SpentOnceUntilRaced /\ AppendsAreUnspent
  BY DEF Init, SpentOnceUntilRaced, AppendsAreUnspent
<1>2. TypeOK /\ LocksAreHeld /\ SpentOnceUntilRaced /\ AppendsAreUnspent /\ [Next]_vars
          => SpentOnceUntilRaced' /\ AppendsAreUnspent'
  <2> SUFFICES ASSUME TypeOK, LocksAreHeld, SpentOnceUntilRaced, AppendsAreUnspent,
                      [Next]_vars, ~raced'
               PROVE  SpentOnceUntilRaced' /\ AppendsAreUnspent'
    BY DEF SpentOnceUntilRaced, AppendsAreUnspent
  <2>1. ~raced
    BY RacedStays
  <2>2. token' = token
    BY OnlyAppendSpends
  <2>3. CASE \E c \in Call : Append(c)
    <3> PICK c \in Call : Append(c)
      BY <2>3
    <3>1. /\ pc[c] = "append"
          /\ ~Spent(token[c])
          /\ replay' = replay \cup {<<token[c], c>>}
      BY <2>1 DEF Append, AppendsAreUnspent
    <3>2. SpentOnceUntilRaced'
      BY <2>1, <3>1 DEF SpentOnceUntilRaced, Spent
    <3>3. \A d \in Call : pc'[d] # "append"
      <4> SUFFICES ASSUME NEW d \in Call, pc[d] = "append" PROVE d = c
        BY DEF Append, Goto, TypeOK
      <4> QED
        BY <2>1, <3>1 DEF LocksAreHeld, UnderReplayLock, Owned
    <3> QED
      BY <3>2, <3>3 DEF AppendsAreUnspent
  <2>4. CASE ~\E c \in Call : Append(c)
    <3>1. /\ replay' = replay
          /\ \A c \in Call : pc'[c] = "append" => pc[c] = "append" \/ Read(c)
      BY <2>4, OnlyAppendSpends
    <3>2. \A c \in Call : pc'[c] = "append" => ~Spent(token[c])
      BY <2>1, <3>1 DEF AppendsAreUnspent, Read
    <3> QED
      BY <2>1, <2>2, <3>1, <3>2 DEF SpentOnceUntilRaced, AppendsAreUnspent, Spent
  <2> QED
    BY <2>3, <2>4
<1> QED
  BY <1>1, <1>2, ApprovalTypeCorrect, LocksHold, PTL DEF Spec

-----------------------------------------------------------------------------
(* Nothing is taken out of the replay file or the audit.                   *)
LEMMA RecordsGrow ==
    ASSUME TypeOK, [Next]_vars
    PROVE  /\ replay \subseteq replay'
           /\ \A c \in Call : audit[c] \subseteq audit'[c]
<1> USE DEF TypeOK, locks, provider
<1>1. ASSUME NEW c \in Call,
             \/ Submit(c) \/ Reject(c) \/ Open(c) \/ FindStale(c) \/ Unlink(c)
             \/ GiveUp(c) \/ Refuse(c) \/ Read(c) \/ Append(c) \/ Deny(c)
             \/ Lease(c) \/ FindLeased(c) \/ InProgress(c) \/ Outlived(c)
             \/ Expel(c) \/ Retake(c) \/ Outrun(c) \/ Vanished(c)
      PROVE  replay \subseteq replay' /\ UNCHANGED audit
  BY <1>1 DEF Submit, Reject, Open, FindStale, Unlink, GiveUp, Refuse, Read,
              Append, Deny, Lease, FindLeased, InProgress, Outlived, Expel,
              Retake, Outrun, Vanished, TakeLease
<1>2. ASSUME NEW c \in Call, Log(c) \/ Start(c) \/ Succeed(c) \/ Fail(c)
      PROVE  /\ UNCHANGED replay
             /\ \A d \in Call : audit[d] \subseteq audit'[d]
  <2>1. UNCHANGED replay
    BY <1>2 DEF Log, Start, Succeed, Fail, Finish
  <2>2. UNCHANGED audit \/ \E o \in {"consumed", "started", "success", "failure"} : Tell(c, o)
    BY <1>2 DEF Log, Start, Succeed, Fail, Finish, MayTell
  <2> QED
    BY <2>1, <2>2 DEF Tell
<1>3. ASSUME \/ \E c \in Call : Receive(c)
             \/ EndAttempt \/ OtherRerun \/ Age
             \/ \E p \in Process : Crash(p)
             \/ UNCHANGED vars
      PROVE  UNCHANGED <<replay, audit>>
  BY <1>3 DEF Receive, EndAttempt, OtherRerun, Age, Crash, others, vars
<1> QED
  BY <1>1, <1>2, <1>3 DEF Next, Step

(* A call comes past its append, past its audit or to the provider only by *)
(* the step that writes what it owes (create-server.ts 433-462).           *)
LEMMA StepKeepsRecord ==
    ASSUME TypeOK, RecordKept, [Next]_vars
    PROVE  RecordKept'
<1> USE DEF TypeOK, RecordKept, PastAppend, Goto, locks, provider
<1>1. token' = token
  BY OnlyAppendSpends
<1>2. /\ replay \subseteq replay'
      /\ \A c \in Call : audit[c] \subseteq audit'[c]
  BY RecordsGrow
<1>3. ASSUME NEW c \in Call,
             \/ Submit(c) \/ Reject(c) \/ Open(c) \/ FindStale(c) \/ Unlink(c)
             \/ GiveUp(c) \/ Refuse(c) \/ Read(c)
      PROVE  RecordKept'
  <2>1. \A d \in Call : pc'[d] \in PastAppend => pc'[d] = pc[d]
    BY <1>3 DEF Submit, Reject, Open, FindStale, Unlink, GiveUp, Refuse, Read
  <2> QED
    BY <1>1, <1>2, <2>1
<1>4. ASSUME NEW c \in Call, Append(c)
      PROVE  RecordKept'
  BY <1>1, <1>2, <1>4 DEF Append
<1>5. ASSUME NEW c \in Call, Log(c)
      PROVE  RecordKept'
  <2>1. CASE faults' = faults
    <3>1. Tell(c, "consumed")
      <4>1. faults' # faults + 1
        BY <2>1, ApprovalAssumption
      <4> QED
        BY <1>5, <4>1 DEF Log, MayTell
    <3> QED
      BY <1>1, <1>2, <1>5, <2>1, <3>1 DEF Log, Tell
  <2>2. CASE faults' # faults
    <3>1. Goto(c, "done")
      BY <1>5, <2>2 DEF Log
    <3> QED
      BY <1>1, <1>2, <3>1
  <2> QED
    BY <2>1, <2>2
<1>6. ASSUME NEW c \in Call,
             \/ Lease(c) \/ FindLeased(c) \/ InProgress(c) \/ Outlived(c)
             \/ Expel(c) \/ Retake(c) \/ Outrun(c) \/ Vanished(c)
      PROVE  RecordKept'
  <2>1. /\ pc[c] \in PastAppend \ {"log"}
        /\ \E place \in {"status", "examine", "expel", "retake", "done"} : Goto(c, place)
    BY <1>6 DEF Lease, FindLeased, InProgress, Outlived, Expel, Retake, Outrun,
                Vanished, TakeLease
  <2> QED
    BY <1>1, <1>2, <2>1
<1>7. ASSUME NEW c \in Call, Start(c)
      PROVE  RecordKept'
  BY <1>1, <1>2, <1>7 DEF Start, Tell
<1>8. ASSUME NEW c \in Call, Deny(c) \/ Succeed(c) \/ Fail(c)
      PROVE  RecordKept'
  <2>1. Goto(c, "done")
    BY <1>8 DEF Deny, Succeed, Fail, Finish
  <2> QED
    BY <1>1, <1>2, <2>1
<1>9. ASSUME \/ \E c \in Call : Receive(c)
             \/ EndAttempt \/ OtherRerun \/ Age
             \/ \E p \in Process : Crash(p)
             \/ UNCHANGED vars
      PROVE  RecordKept'
  <2>1. \A d \in Call : pc'[d] = pc[d] \/ pc'[d] = "done"
    BY <1>9 DEF Receive, EndAttempt, OtherRerun, Age, Crash, others, vars
  <2> QED
    BY <1>1, <1>2, <2>1
<1> QED
  BY <1>3, <1>4, <1>5, <1>6, <1>7, <1>8, <1>9 DEF Next, Step

(* Requests leave by Start only, and become accepted only when received.   *)
LEMMA OnlyStartSends ==
    ASSUME TypeOK, [Next]_vars
    PROVE  \/ \E c \in Call : Start(c) \/ Receive(c)
           \/ UNCHANGED <<inflight, accepted>>
<1> USE DEF provider
<1>1. ASSUME NEW c \in Call,
             \/ Submit(c) \/ Reject(c) \/ Open(c) \/ FindStale(c) \/ Unlink(c)
             \/ GiveUp(c) \/ Refuse(c) \/ Read(c) \/ Append(c) \/ Log(c)
             \/ Lease(c) \/ FindLeased(c) \/ InProgress(c) \/ Outlived(c)
             \/ Expel(c) \/ Retake(c) \/ Outrun(c) \/ Vanished(c)
             \/ Deny(c) \/ Succeed(c) \/ Fail(c)
      PROVE  UNCHANGED <<inflight, accepted>>
  BY <1>1 DEF Submit, Reject, Open, FindStale, Unlink, GiveUp, Refuse, Read,
              Append, Log, Lease, FindLeased, InProgress, Outlived, Expel,
              Retake, Outrun, Vanished, TakeLease, Deny, Succeed, Fail
<1>2. ASSUME \/ EndAttempt \/ OtherRerun \/ Age
             \/ \E p \in Process : Crash(p)
             \/ UNCHANGED vars
      PROVE  UNCHANGED <<inflight, accepted>>
  BY <1>2 DEF EndAttempt, OtherRerun, Age, Crash, vars
<1> QED
  BY <1>1, <1>2 DEF Next, Step

(* Every call is on record as far as it has come.                          *)
THEOREM CallsAreOnRecord == Spec => []RecordKept
<1>1. Init => RecordKept
  BY DEF Init, RecordKept, PastAppend
<1>2. TypeOK /\ RecordKept /\ [Next]_vars => RecordKept'
  BY StepKeepsRecord
<1> QED
  BY <1>1, <1>2, ApprovalTypeCorrect, PTL DEF Spec

(* What has left the server was approved and is on record, whatever write  *)
(* failed or process died on the way: the approval is in the replay file   *)
(* with the call that spent it, and the audit says that it was consumed    *)
(* and started (create-server.ts 433-464).                                 *)
THEOREM RequestsOnRecord == Spec => []RequestsAreOnRecord
<1>1. Init => RequestsAreOnRecord
  BY DEF Init, RequestsAreOnRecord
<1>2. TypeOK /\ RecordKept /\ RequestsAreOnRecord /\ [Next]_vars => RequestsAreOnRecord'
  <2> SUFFICES ASSUME TypeOK, RecordKept, RequestsAreOnRecord, [Next]_vars
               PROVE  RequestsAreOnRecord'
    OBVIOUS
  <2>1. token' = token
    BY OnlyAppendSpends
  <2>2. /\ replay \subseteq replay'
        /\ \A c \in Call : audit[c] \subseteq audit'[c]
    BY RecordsGrow
  <2>3. ASSUME NEW c \in Call, Start(c)
        PROVE  RequestsAreOnRecord'
    <3>1. /\ <<token[c], c>> \in replay
          /\ "consumed" \in audit[c]
      BY <2>3 DEF Start, RecordKept, PastAppend
    <3>2. "started" \in audit'[c]
      BY <2>3 DEF Start, Tell, TypeOK
    <3>3. inflight' = inflight \cup {c} /\ accepted' = accepted
      BY <2>3 DEF Start
    <3> QED
      BY <2>1, <2>2, <3>1, <3>2, <3>3 DEF RequestsAreOnRecord
  <2>4. ASSUME NEW c \in Call, Receive(c)
        PROVE  RequestsAreOnRecord'
    <3>1. /\ c \in inflight
          /\ inflight' \subseteq inflight
          /\ accepted' \subseteq accepted \cup {<<c, run.attempt>>}
      BY <2>4 DEF Receive
    <3> QED
      BY <2>1, <2>2, <3>1 DEF RequestsAreOnRecord
  <2>5. CASE UNCHANGED <<inflight, accepted>>
    BY <2>1, <2>2, <2>5 DEF RequestsAreOnRecord
  <2> QED
    BY <2>3, <2>4, <2>5, OnlyStartSends
<1> QED
  BY <1>1, <1>2, ApprovalTypeCorrect, CallsAreOnRecord, PTL DEF Spec

-----------------------------------------------------------------------------
(* A call that waits for the provider or has ended never comes back to a   *)
(* place before, and one that has ended has ended.                         *)
LEMMA CallsGoForward ==
    ASSUME TypeOK, [Next]_vars, NEW d \in Call
    PROVE  /\ pc[d] = "done" => pc'[d] = "done"
           /\ pc[d] = "answer" => \/ pc'[d] = "answer"
                                  \/ /\ pc'[d] = "done"
                                     /\ \/ Succeed(d) \/ Fail(d)
                                        \/ \E p \in Process : HostOf[d] = p /\ Crash(p)
<1> USE DEF TypeOK, Goto
<1>1. ASSUME NEW c \in Call,
             \/ Submit(c) \/ Reject(c) \/ Open(c) \/ FindStale(c) \/ Unlink(c)
             \/ GiveUp(c) \/ Refuse(c) \/ Read(c) \/ Append(c)
             \/ Lease(c) \/ FindLeased(c) \/ InProgress(c) \/ Outlived(c)
             \/ Expel(c) \/ Retake(c) \/ Outrun(c) \/ Vanished(c)
             \/ Start(c) \/ Deny(c)
      PROVE  pc[d] \in {"answer", "done"} => pc'[d] = pc[d]
  BY <1>1 DEF Submit, Reject, Open, FindStale, Unlink, GiveUp, Refuse, Read,
              Append, Lease, FindLeased, InProgress, Outlived, Expel,
              Retake, Outrun, Vanished, TakeLease, Start, Deny
<1>2. ASSUME NEW c \in Call, Log(c)
      PROVE  pc[d] \in {"answer", "done"} => pc'[d] = pc[d]
  BY <1>2 DEF Log
<1>3. ASSUME NEW c \in Call, Succeed(c) \/ Fail(c)
      PROVE  /\ d # c => pc'[d] = pc[d]
             /\ pc[c] = "answer" /\ pc'[c] = "done"
  BY <1>3 DEF Succeed, Fail, Finish
<1>4. ASSUME \/ \E c \in Call : Receive(c)
             \/ EndAttempt \/ OtherRerun \/ Age
             \/ UNCHANGED vars
      PROVE  pc'[d] = pc[d]
  BY <1>4 DEF Receive, EndAttempt, OtherRerun, Age, others, vars
<1>5. ASSUME NEW p \in Process, Crash(p)
      PROVE  pc'[d] = pc[d] \/ (pc'[d] = "done" /\ HostOf[d] = p)
  BY <1>5 DEF Crash
<1> QED
  BY <1>1, <1>2, <1>3, <1>4, <1>5 DEF Next, Step

(* Every call sends at most one request, which is received at most once.   *)
THEOREM OneRequestPerCall == Spec => []OneRequest
<1>1. Init => OneRequest
  BY DEF Init, OneRequest, Accepted
<1>2. TypeOK /\ OneRequest /\ [Next]_vars => OneRequest'
  <2> SUFFICES ASSUME TypeOK, OneRequest, [Next]_vars PROVE OneRequest'
    OBVIOUS
  <2>1. \A d \in Call : pc[d] \in {"answer", "done"} => pc'[d] \in {"answer", "done"}
    BY CallsGoForward
  <2>2. ASSUME NEW c \in Call, Start(c)
        PROVE  OneRequest'
    <3>1. /\ c \notin inflight /\ ~Accepted(c)
          /\ pc'[c] = "answer"
          /\ inflight' = inflight \cup {c}
          /\ accepted' = accepted
      BY <2>2 DEF Start, OneRequest, Goto, TypeOK
    <3> QED
      BY <2>1, <3>1 DEF OneRequest, Accepted
  <2>3. ASSUME NEW c \in Call, Receive(c)
        PROVE  OneRequest'
    <3>1. /\ c \in inflight
          /\ inflight' = inflight \ {c}
          /\ accepted' \subseteq accepted \cup {<<c, run.attempt>>}
          /\ pc' = pc
      BY <2>3 DEF Receive, others
    <3>2. \A d \in Call : d # c /\ Accepted(d)' => Accepted(d)
      BY <3>1 DEF Accepted
    <3> QED
      BY <3>1, <3>2 DEF OneRequest
  <2>4. CASE UNCHANGED <<inflight, accepted>>
    BY <2>1, <2>4 DEF OneRequest, Accepted
  <2> QED
    BY <2>2, <2>3, <2>4, OnlyStartSends
<1> QED
  BY <1>1, <1>2, ApprovalTypeCorrect, PTL DEF Spec

(* What somebody else has done to the run stays done, and only the         *)
(* provider and somebody else move the run to another attempt.             *)
LEMMA OnlyTheProviderRuns ==
    ASSUME TypeOK, [Next]_vars
    PROVE  /\ interfered => interfered'
           /\ ~interfered' => run'.attempt = run.attempt \/ \E c \in Call : Receive(c)
<1> USE DEF TypeOK, provider
<1>1. ASSUME NEW c \in Call,
             \/ Submit(c) \/ Reject(c) \/ Open(c) \/ FindStale(c) \/ Unlink(c)
             \/ GiveUp(c) \/ Refuse(c) \/ Read(c) \/ Append(c) \/ Log(c)
             \/ Lease(c) \/ FindLeased(c) \/ InProgress(c) \/ Outlived(c)
             \/ Expel(c) \/ Retake(c) \/ Outrun(c) \/ Vanished(c)
             \/ Start(c) \/ Deny(c) \/ Succeed(c)
      PROVE  UNCHANGED <<interfered, run>>
  BY <1>1 DEF Submit, Reject, Open, FindStale, Unlink, GiveUp, Refuse, Read,
              Append, Log, Lease, FindLeased, InProgress, Outlived, Expel,
              Retake, Outrun, Vanished, TakeLease, Start, Deny, Succeed
<1>2. ASSUME NEW c \in Call, Fail(c)
      PROVE  (interfered => interfered') /\ UNCHANGED run
  BY <1>2 DEF Fail
<1>3. ASSUME NEW c \in Call, Receive(c)
      PROVE  interfered' = interfered
  BY <1>3 DEF Receive
<1>4. CASE EndAttempt
  BY <1>4 DEF EndAttempt
<1>5. CASE OtherRerun
  BY <1>5 DEF OtherRerun
<1>6. ASSUME Age \/ (\E p \in Process : Crash(p)) \/ UNCHANGED vars
      PROVE  (interfered => interfered') /\ UNCHANGED run
  BY <1>6 DEF Age, Crash, vars
<1> QED
  BY <1>1, <1>2, <1>3, <1>4, <1>5, <1>6 DEF Next, Step

(* A request that is given up while it is under way interferes.            *)
LEMMA GivingUpInterferes ==
    ASSUME TypeOK, OneRequest, [Next]_vars, ~interfered',
           NEW d \in inflight, pc[d] = "answer", d \in inflight'
    PROVE  pc'[d] = "answer"
<1> SUFFICES ASSUME pc'[d] # "answer" PROVE FALSE
  OBVIOUS
<1> d \in Call
  BY DEF TypeOK
<1>1. Succeed(d) \/ Fail(d) \/ \E p \in Process : HostOf[d] = p /\ Crash(p)
  BY CallsGoForward
<1>2. ~Succeed(d)
  BY DEF Succeed, OneRequest, Accepted
<1>3. ~Fail(d)
  BY DEF Fail
<1>4. ASSUME NEW p \in Process, HostOf[d] = p, Crash(p)
      PROVE  FALSE
  BY <1>4 DEF Crash, AtWork
<1> QED
  BY <1>1, <1>2, <1>3, <1>4

(* A request that is under way belongs to the one call that holds the      *)
(* action lease, and the run is still at the attempt it names.             *)
LEMMA StepKeepsRequestsCurrent ==
    ASSUME TypeOK, LocksAreHeld, OneRequest, RequestsAreCurrent, [Next]_vars
    PROVE  RequestsAreCurrent'
<1> SUFFICES ASSUME ~raced', ~interfered',
                    NEW d \in inflight'
             PROVE  /\ pc'[d] = "answer"
                    /\ run'.attempt = AttemptOf[RequestOf[token'[d]]]
  BY DEF RequestsAreCurrent
<1>1. ~raced /\ ~interfered /\ token' = token
  BY RacedStays, OnlyTheProviderRuns, OnlyAppendSpends
<1>2. \A c \in inflight : /\ c \in Call
                          /\ pc[c] = "answer"
                          /\ run.attempt = AttemptOf[RequestOf[token[c]]]
  BY <1>1 DEF RequestsAreCurrent, TypeOK
<1>3. ASSUME NEW c \in Call, Start(c)
      PROVE  /\ pc'[d] = "answer"
             /\ run'.attempt = AttemptOf[RequestOf[token'[d]]]
  <2>1. \A b \in Call : pc[b] = "answer" => b = c
    BY <1>1, <1>3 DEF LocksAreHeld, UnderActionLock, Start, Owned
  <2>2. d = c
    BY <1>2, <1>3, <2>1 DEF Start
  <2> QED
    BY <1>1, <1>3, <2>2 DEF Start, Eligible, Goto, TypeOK
<1>4. ASSUME NEW c \in Call, Receive(c)
      PROVE  FALSE
  <2>1. c \in inflight /\ d \in inflight /\ d # c
    BY <1>4 DEF Receive
  <2> QED
    BY <1>1, <1>2, <2>1 DEF LocksAreHeld, UnderActionLock, Owned
<1>5. ASSUME UNCHANGED <<inflight, accepted>>, ~\E c \in Call : Receive(c)
      PROVE  /\ pc'[d] = "answer"
             /\ run'.attempt = AttemptOf[RequestOf[token'[d]]]
  BY <1>1, <1>2, <1>5, GivingUpInterferes, OnlyTheProviderRuns
<1> QED
  BY <1>3, <1>4, <1>5, OnlyStartSends

(* A rerun repeats the attempt the operator approved, however many         *)
(* approvals and calls there are, unless a lock raced, somebody re-ran the *)
(* workflow by other means or a request that was given up arrived late     *)
(* (create-server.ts 446-462).                                             *)
THEOREM ApprovedAttemptReruns == Spec => []RerunsApprovedAttempt
<1>1. Init => RequestsAreCurrent /\ RerunsApprovedAttempt
  BY DEF Init, RequestsAreCurrent, RerunsApprovedAttempt
<1>2. TypeOK /\ LocksAreHeld /\ OneRequest /\ RequestsAreCurrent /\ [Next]_vars
          => RequestsAreCurrent'
  BY StepKeepsRequestsCurrent
<1>3. TypeOK /\ RequestsAreCurrent /\ RerunsApprovedAttempt /\ [Next]_vars
          => RerunsApprovedAttempt'
  <2> SUFFICES ASSUME TypeOK, RequestsAreCurrent, RerunsApprovedAttempt, [Next]_vars,
                      ~raced', ~interfered'
               PROVE  \A x \in accepted' : x[2] = AttemptOf[RequestOf[token'[x[1]]]]
    BY DEF RerunsApprovedAttempt
  <2>1. ~raced /\ ~interfered /\ token' = token
    BY RacedStays, OnlyTheProviderRuns, OnlyAppendSpends
  <2>2. ASSUME NEW c \in Call, Receive(c)
        PROVE  \A x \in accepted' : x[2] = AttemptOf[RequestOf[token'[x[1]]]]
    <3>1. /\ c \in inflight
          /\ accepted' \subseteq accepted \cup {<<c, run.attempt>>}
      BY <2>2 DEF Receive
    <3> QED
      BY <2>1, <3>1 DEF RequestsAreCurrent, RerunsApprovedAttempt
  <2>3. ASSUME UNCHANGED accepted
        PROVE  \A x \in accepted' : x[2] = AttemptOf[RequestOf[token'[x[1]]]]
    BY <2>1, <2>3 DEF RerunsApprovedAttempt
  <2> QED
    BY <2>2, <2>3, OnlyStartSends DEF Start
<1> QED
  BY <1>1, <1>2, <1>3, ApprovalTypeCorrect, LocksHold, OneRequestPerCall, PTL DEF Spec

-----------------------------------------------------------------------------
(* What the end of a call can be audited as.                               *)
Outcomes == {"success", "failure"}

(* Only the end of a call audits an outcome.                               *)
LEMMA OnlyTheEndHasOutcome ==
    ASSUME TypeOK, [Next]_vars
    PROVE  \/ \E c \in Call : Succeed(c) \/ Fail(c)
           \/ \A c \in Call : audit'[c] \cap Outcomes = audit[c] \cap Outcomes
<1> USE DEF TypeOK, Outcomes
<1>1. ASSUME NEW c \in Call,
             \/ Submit(c) \/ Reject(c) \/ Open(c) \/ FindStale(c) \/ Unlink(c)
             \/ GiveUp(c) \/ Refuse(c) \/ Read(c) \/ Append(c)
             \/ Lease(c) \/ FindLeased(c) \/ InProgress(c) \/ Outlived(c)
             \/ Expel(c) \/ Retake(c) \/ Outrun(c) \/ Vanished(c)
             \/ Deny(c)
      PROVE  UNCHANGED audit
  BY <1>1 DEF Submit, Reject, Open, FindStale, Unlink, GiveUp, Refuse, Read,
              Append, Lease, FindLeased, InProgress, Outlived, Expel,
              Retake, Outrun, Vanished, TakeLease, Deny
<1>2. ASSUME NEW c \in Call, Log(c) \/ Start(c)
      PROVE  \A d \in Call : audit'[d] \cap Outcomes = audit[d] \cap Outcomes
  <2>1. UNCHANGED audit \/ \E o \in {"consumed", "started"} : Tell(c, o)
    BY <1>2 DEF Log, Start, MayTell
  <2> QED
    BY <2>1 DEF Tell
<1>3. ASSUME \/ \E c \in Call : Receive(c)
             \/ EndAttempt \/ OtherRerun \/ Age
             \/ \E p \in Process : Crash(p)
             \/ UNCHANGED vars
      PROVE  UNCHANGED audit
  BY <1>3 DEF Receive, EndAttempt, OtherRerun, Age, Crash, others, vars
<1> QED
  BY <1>1, <1>2, <1>3 DEF Next, Step

(* What the provider has accepted it does not forget.                      *)
LEMMA AcceptedStays ==
    ASSUME TypeOK, [Next]_vars
    PROVE  \A c \in Call : Accepted(c) => Accepted(c)'
<1>1. accepted \subseteq accepted'
  BY OnlyStartSends DEF Start, Receive
<1> QED
  BY <1>1 DEF Accepted

(* The end of a call adds one outcome to an audit that has none yet.       *)
LEMMA EndKeepsAudit ==
    ASSUME TypeOK, OutcomesEndCalls, AuditIsTrue, [Next]_vars,
           NEW c \in Call, Succeed(c) \/ Fail(c)
    PROVE  OutcomesEndCalls' /\ AuditIsTrue'
<1>1. /\ audit[c] \cap Outcomes = {}
      /\ pc' = [pc EXCEPT ![c] = "done"]
  BY DEF OutcomesEndCalls, Outcomes, Succeed, Fail, Finish, Goto
<1>2. PICK o \in Outcomes : /\ MayTell(c, o)
                            /\ o = "success" => Accepted(c)
  BY DEF Succeed, Fail, Finish, Accepted, Outcomes
<1>3. /\ audit'[c] \in {audit[c], audit[c] \cup {o}}
      /\ \A d \in Call : d # c => audit'[d] = audit[d]
  BY <1>2 DEF MayTell, Tell, TypeOK
<1>4. OutcomesEndCalls'
  BY <1>1, <1>3 DEF OutcomesEndCalls, TypeOK
<1>5. AuditIsTrue'
  <2>1. \A d \in Call : "success" \in audit'[d] => Accepted(d)'
    BY <1>1, <1>2, <1>3, AcceptedStays DEF AuditIsTrue, Accepted, Outcomes
  <2>2. \A d \in Call : "success" \in audit'[d] => "failure" \notin audit'[d]
    BY <1>1, <1>2, <1>3 DEF AuditIsTrue, Outcomes
  <2> QED
    BY <2>1, <2>2 DEF AuditIsTrue, Accepted
<1> QED
  BY <1>4, <1>5

(* The audit claims no rerun the provider has not accepted and no two      *)
(* outcomes of one call, whatever append failed and whichever answer came  *)
(* too late (create-server.ts 436-470).                                    *)
THEOREM AuditTellsTheTruth == Spec => []AuditIsTrue
<1>1. Init => OutcomesEndCalls /\ AuditIsTrue
  BY DEF Init, OutcomesEndCalls, AuditIsTrue
<1>2. TypeOK /\ OutcomesEndCalls /\ AuditIsTrue /\ [Next]_vars
          => OutcomesEndCalls' /\ AuditIsTrue'
  <2> SUFFICES ASSUME TypeOK, OutcomesEndCalls, AuditIsTrue, [Next]_vars
               PROVE  OutcomesEndCalls' /\ AuditIsTrue'
    OBVIOUS
  <2>1. CASE \E c \in Call : Succeed(c) \/ Fail(c)
    BY <2>1, EndKeepsAudit
  <2>2. CASE \A c \in Call : audit'[c] \cap Outcomes = audit[c] \cap Outcomes
    <3>1. \A c \in Call : pc[c] = "done" => pc'[c] = "done"
      BY CallsGoForward
    <3>2. OutcomesEndCalls'
      BY <2>2, <3>1 DEF OutcomesEndCalls, Outcomes
    <3>3. \A c \in Call, o \in Outcomes : o \in audit'[c] <=> o \in audit[c]
      BY <2>2 DEF Outcomes
    <3>4. AuditIsTrue'
      BY <3>3, AcceptedStays DEF AuditIsTrue, Accepted, Outcomes
    <3> QED
      BY <3>2, <3>4
  <2> QED
    BY <2>1, <2>2, OnlyTheEndHasOutcome
<1> QED
  BY <1>1, <1>2, ApprovalTypeCorrect, PTL DEF Spec
=============================================================================
