------------------------ MODULE ObserverLease_proofs ------------------------
(***************************************************************************)
(* Exclusion by the lease, for every set of processes, calls and events,   *)
(* every lease and any number of crashes, if no call outlasts the lease.   *)
(***************************************************************************)
EXTENDS ObserverLease, TLAPS

(* Every step of a call that acquires the lease keeps the types.           *)
LEMMA AcquireKeepsLeaseType ==
    ASSUME TypeOK, NEW c \in Call, Acquire(c)
    PROVE  TypeOK'
<1> USE LeaseAssumption DEF TypeOK, Acquiring, NoLock, Goto, file, work, ghost
<1>1. CASE Create(c)
  BY <1>1 DEF Create, Enter, Runs
<1>2. CASE Find(c)
  BY <1>2 DEF Find, Runs
<1>3. CASE Respect(c)
  BY <1>3 DEF Respect
<1>4. CASE Expire(c)
  BY <1>4 DEF Expire
<1>5. CASE Throw(c)
  BY <1>5 DEF Throw, Forget
<1>6. CASE Unlink(c)
  BY <1>6 DEF Unlink, IsStale
<1>7. CASE Recreate(c)
  BY <1>7 DEF Recreate, Enter
<1>8. CASE Outrun(c)
  BY <1>8 DEF Outrun
<1> QED
  BY <1>1, <1>2, <1>3, <1>4, <1>5, <1>6, <1>7, <1>8 DEF Acquire

(* So does every step of the calls that hold it, of crashes and of time.   *)
LEMMA HoldKeepsLeaseType ==
    ASSUME TypeOK,
           \/ \E c \in Call : Release(c) \/ \E e \in Events : Observe(c, e)
           \/ \E p \in Process : Crash(p)
           \/ Tick
    PROVE  TypeOK'
<1> USE LeaseAssumption DEF TypeOK, Acquiring, NoLock, file, work, ghost
<1>1. CASE \E c \in Call : Release(c)
  BY <1>1 DEF Release, Forget
<1>2. CASE \E c \in Call, e \in Events : Observe(c, e)
  BY <1>2 DEF Observe
<1>3. CASE \E p \in Process : Crash(p)
  BY <1>3 DEF Crash, Forget
<1>4. CASE Tick
  BY <1>4 DEF Tick
<1> QED
  BY <1>1, <1>2, <1>3, <1>4

(* The lock file, the calls, the document and what was sent keep their     *)
(* types, and two calls of a process are never inside acquireLease at once *)
(* (state.ts 58-80).                                                       *)
THEOREM LeaseTypeCorrect == Spec => []TypeOK
<1>1. Init => TypeOK
  <2> SUFFICES ASSUME Init PROVE TypeOK
    OBVIOUS
  <2>1. 0 \in 0..CallTicks /\ 0 \in 0..MaxCrashes
    BY LeaseAssumption
  <2>2. held \in [Call -> 0..CallTicks] /\ mem \in [Call -> SUBSET Events]
    BY <2>1 DEF Init
  <2>3. \A c \in Call : pc[c] = "idle"
    BY DEF Init
  <2> QED
    BY <2>1, <2>2, <2>3 DEF Init, TypeOK, Acquiring
<1>2. TypeOK /\ [Next]_vars => TypeOK'
  <2> SUFFICES ASSUME TypeOK, [Next]_vars PROVE TypeOK'
    OBVIOUS
  <2>1. CASE \E c \in Call : Acquire(c)
    BY <2>1, AcquireKeepsLeaseType
  <2>2. CASE UNCHANGED vars
    BY <2>2 DEF TypeOK, vars, file, work, ghost
  <2> QED
    BY <2>1, <2>2, HoldKeepsLeaseType DEF Next
<1> QED
  BY <1>1, <1>2, PTL DEF Spec

-----------------------------------------------------------------------------
(* Calls that leave, by returning, by an exception or by a crash, disturb  *)
(* nobody else.                                                            *)
LEMMA ForgetKeepsLease ==
    ASSUME TypeOK, LeaseInv, NEW calls \in SUBSET Call, Forget(calls),
           UNCHANGED file, raced' = raced
    PROVE  LeaseInv'
BY DEF TypeOK, LeaseInv, Holding, HolderOwnsLock, SentIsOnDisk, Forget, file

(* A lease that nobody holds is taken by one call, with a fresh copy.      *)
LEMMA EnterKeepsLease ==
    ASSUME TypeOK, LeaseInv, NEW c \in Call, pc[c] \in {"idle", "removed"},
           lock = NoLock, Enter(c)
    PROVE  LeaseInv'
<1>1. ~raced => Holding = {}
  BY LeaseAssumption DEF LeaseInv, HolderOwnsLock, Holding, TypeOK, NoLock
<1>2. ~raced => Holding' = {c}
  BY <1>1 DEF Enter, Goto, Holding, TypeOK
<1>3. c \notin Holding
  BY DEF Holding
<1> QED
  BY <1>2, <1>3
     DEF LeaseInv, Enter, Goto, Holding, HolderOwnsLock, SentIsOnDisk, TypeOK,
         ghost

(* While a call no longer than the lease holds it, its lock is not stale:  *)
(* who unlinks a stale lock finds nobody at work.                          *)
LEMMA StaleMeansNobody ==
    ASSUME TypeOK, LeaseInv, CallTicks <= LeaseTicks, ~raced, IsStale
    PROVE  Holding = {}
BY LeaseAssumption
   DEF TypeOK, LeaseInv, HolderOwnsLock, Holding, IsStale, NoLock

(* Every step preserves the invariant.                                     *)
LEMMA StepKeepsLease ==
    ASSUME TypeOK, LeaseInv, CallTicks <= LeaseTicks, [Next]_vars
    PROVE  LeaseInv'
<1> USE DEF Goto, file, work, ghost
<1>1. ASSUME NEW c \in Call, Create(c) \/ Recreate(c) PROVE LeaseInv'
  BY <1>1, EnterKeepsLease DEF Create, Recreate
<1>2. ASSUME NEW c \in Call, Find(c) \/ Respect(c) \/ Expire(c) \/ Outrun(c)
      PROVE  LeaseInv'
  BY <1>2 DEF Find, Respect, Expire, Outrun, LeaseInv, Holding, HolderOwnsLock,
              SentIsOnDisk, TypeOK
<1>3. ASSUME NEW c \in Call, Throw(c) PROVE LeaseInv'
  BY <1>3, ForgetKeepsLease DEF Throw, CallsOf
<1>4. ASSUME NEW p \in Process, Crash(p) PROVE LeaseInv'
  BY <1>4, ForgetKeepsLease DEF Crash, CallsOf
<1>5. ASSUME NEW c \in Call, Unlink(c) PROVE LeaseInv'
  <2>1. ~raced' => Holding = {}
    BY <1>5, StaleMeansNobody DEF Unlink
  <2>2. Holding' = Holding
    BY <1>5 DEF Unlink, Holding, TypeOK
  <2> QED
    BY <1>5, <2>1, <2>2
       DEF Unlink, LeaseInv, HolderOwnsLock, SentIsOnDisk, Holding, TypeOK
<1>6. ASSUME NEW c \in Call, Release(c) PROVE LeaseInv'
  <2>1. ~raced' => Holding \subseteq {c}
    BY <1>6, LeaseAssumption
       DEF Release, LeaseInv, HolderOwnsLock, Holding, NoLock, TypeOK
  <2>2. Holding' = Holding \ {c}
    BY <1>6 DEF Release, Forget, Holding, TypeOK
  <2>3. \A d \in Call \ Holding' : held'[d] = 0
    BY <1>6, <2>2 DEF Release, Forget, LeaseInv, TypeOK
  <2> QED
    BY <1>6, <2>1, <2>2, <2>3
       DEF Release, Forget, LeaseInv, HolderOwnsLock, SentIsOnDisk
<1>7. ASSUME NEW c \in Call, NEW e \in Events, Observe(c, e) PROVE LeaseInv'
  <2>1. ~raced => \A d \in Holding : d = c
    BY <1>7 DEF Observe, LeaseInv, HolderOwnsLock, Holding
  <2>2. ~raced => e \notin sent
    BY <1>7 DEF Observe, LeaseInv, SentIsOnDisk, Holding
  <2> QED
    BY <1>7, <2>1, <2>2
       DEF Observe, LeaseInv, HolderOwnsLock, SentIsOnDisk, Holding, TypeOK
<1>8. ASSUME Tick PROVE LeaseInv'
  BY <1>8, LeaseAssumption
     DEF Tick, LeaseInv, HolderOwnsLock, SentIsOnDisk, Holding, TypeOK, NoLock
<1>9. CASE UNCHANGED vars
  BY <1>9 DEF vars, LeaseInv, HolderOwnsLock, SentIsOnDisk, Holding
<1> QED
  BY <1>1, <1>2, <1>3, <1>4, <1>5, <1>6, <1>7, <1>8, <1>9 DEF Next, Acquire

(* While no call outlasts the lease, and until a lock file is unlinked     *)
(* that was neither stale nor the unlinking call's own, the lock file is   *)
(* that of the only call at work (state.ts 58-80).                         *)
THEOREM LeaseInvariant ==
    ASSUME CallTicks <= LeaseTicks
    PROVE  Spec => []LeaseInv
<1>1. Init => LeaseInv
  BY DEF Init, LeaseInv, Holding, HolderOwnsLock, SentIsOnDisk
<1>2. TypeOK /\ LeaseInv /\ [Next]_vars => LeaseInv'
  BY StepKeepsLease
<1> QED
  BY <1>1, <1>2, LeaseTypeCorrect, PTL DEF Spec

(* Exclusion, from the invariant: two holders would own the same file      *)
(* (state.ts 64-78).                                                       *)
THEOREM LeaseIsExclusive ==
    ASSUME CallTicks <= LeaseTicks
    PROVE  Spec => []ExclusiveUntilRaced
<1>1. LeaseInv => ExclusiveUntilRaced
  BY DEF LeaseInv, HolderOwnsLock, ExclusiveUntilRaced
<1> QED
  BY <1>1, LeaseInvariant, PTL

(* No event is sent twice, whichever processes, polls and webhooks see it  *)
(* (state.ts 58-111).                                                      *)
THEOREM EventsAreSentOnce ==
    ASSUME CallTicks <= LeaseTicks
    PROVE  Spec => []SentOnceUntilRaced
<1>1. LeaseInv => SentOnceUntilRaced
  BY DEF LeaseInv, SentOnceUntilRaced
<1> QED
  BY <1>1, LeaseInvariant, PTL
=============================================================================
